\* Two events, the loop's retries, lost answers and a crash.
CONSTANTS
    t1 = t1   t2 = t2
    Tasks = {t1, t2}
    Destinations = 1
    MaxTries = 3
    Answers = {"ok", "error", "permanent", "lost"}
    MaxLog = 1
    MaxRestarts = 1
SPECIFICATION FairSpec
INVARIANTS OncePerRound TriesBounded
PROPERTY EveryEventSettles
CHECK_DEADLOCK FALSE
