SPECIFICATION ObjectsSpec
CONSTANTS
    ObjectKeys = {k1}
    OwnerOf <- OneOwner
    Datas = {d1, d2}
    PutThreads = {p1, p2}
    NoData = nothing
INVARIANTS
    ReaderSeesWhole
CHECK_DEADLOCK FALSE
