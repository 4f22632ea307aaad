SPECIFICATION Spec
CONSTANTS
    Topics <- AllTopics
    Groups = {"origin", "retry", "replay"}
    Subscription <- Subscriptions
    Delay <- Delays
    Latest = FALSE
    MaxRecords = 2
    Width <- GroupWidth
    Roster <- GroupRoster
    Tiers = 0
    MaxReplays = 0
    Bare = {}
    MaxProduced = 3
    MaxFaults = 1
INVARIANTS
    NeverDropped
    InOffsetOrder
CHECK_DEADLOCK FALSE
