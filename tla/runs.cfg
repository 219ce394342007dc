\* Two runs for one slot; or one run that is watched, and a crash.
CONSTANTS
    r1 = r1   r2 = r2   s1 = s1
    Runs = {r1, r2}
    Streams = {s1}
    Slots = 1
    Loads <- BusyOrWatched
SPECIFICATION FairSpec
INVARIANTS SucceededIsClean ReasonKept OomIsNamed UndisturbedSeesAll
PROPERTY EveryRunEnds
CHECK_DEADLOCK FALSE
