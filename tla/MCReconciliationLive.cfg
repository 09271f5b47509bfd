SPECIFICATION FairSpec
CONSTANTS
    s1 = s1
    s2 = s2
    Source = {s1, s2}
    NTools = 2
    Feeds <- MCFeeds
    MaxAttempts = 2
    MaxEpoch = 3
    Raised = 4
    Worker = {w1}
    Environment <- Settling
PROPERTIES
    LearningSettles
CHECK_DEADLOCK FALSE
