\* Two owners at once, every request, two versions and two runs, a crash.
CONSTANTS
    c1 = c1   c2 = c2   r1 = r1   r2 = r2
    Clients = {c1, c2}
    Desks <- Office
    Runs = {r1, r2}
    MaxVersion = 2
    MaxRestarts = 1
SPECIFICATION Spec
INVARIANTS LiveIsLast ScheduleMatches OneOccurrence PausedUntilSwitchedOn
CHECK_DEADLOCK FALSE
SYMMETRY Alike
