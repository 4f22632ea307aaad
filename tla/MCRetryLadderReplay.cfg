SPECIFICATION Spec
CONSTANTS
    Topics <- AllTopics
    Groups = {"origin", "retry", "replay"}
    Subscription <- Subscriptions
    Delay <- Delays
    Latest = FALSE
    MaxRecords = 2
    Width <- LadderWidth
    Roster <- LadderRoster
    Tiers = 1
    MaxReplays = 1
    Bare = {1}
    MaxProduced = 1
    MaxFaults = 0
INVARIANTS
    ReplayKeepsKeys
CHECK_DEADLOCK FALSE
