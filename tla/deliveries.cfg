\* A verification run again, the loop's retries, a forced redelivery and a
\* crash may overlap, at one destination.
CONSTANTS
    v1 = v1   u1 = u1
    Verifiers = {v1}
    People = {u1}
    Loop = Loop
    Destinations = 1
    MaxTries = 3
    Answers = {"ok", "error", "lost"}
    MaxChecks = 2
    MaxForced = 1
    MaxRestarts = 1
SPECIFICATION FairSpec
INVARIANTS RecordedMeansArrived NeverTwiceAlone TriesBounded GivenUpIsTold
PROPERTIES EventuallyDecided
CHECK_DEADLOCK FALSE
