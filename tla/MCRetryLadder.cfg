SPECIFICATION FairSpec
CONSTANTS
    Topics <- AllTopics
    Groups = {"origin", "retry", "replay"}
    Subscription <- Subscriptions
    Delay <- Delays
    Latest = FALSE
    MaxRecords = 2
    Width <- LadderWidth
    Roster <- LadderRoster
    Tiers = 1
    MaxReplays = 1
    Bare = {}
    MaxProduced = 1
    MaxFaults = 1
INVARIANTS
    TypeOK
    NeverDropped
    AttemptsWereMade
PROPERTIES
    EverythingSettles
CHECK_DEADLOCK FALSE
