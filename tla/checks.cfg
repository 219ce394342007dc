\* Two checks of every kind, two providers, a workspace that changes once.
CONSTANTS
    p1 = p1   p2 = p2   c1 = c1   c2 = c2
    Ids = {1, 2}
    Jobs <- SomeJobs
    Workspaces <- SomeWorkspaces
    Providers <- Registry
    Default = p1
    JudgeProvider = p2
    Answers <- SomeAnswers
    MaxWrites = 1
SPECIFICATION FairSpec
INVARIANTS PassIsEarned FailIsEarned JudgedOnEvidence DeliveredIsProven
PROPERTY EveryCheckReports
CHECK_DEADLOCK FALSE
