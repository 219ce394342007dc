\* No crash, and every message is answered.
CONSTANTS
    v1 = v1   u1 = u1
    Verifiers = {v1}
    People = {u1}
    Loop = Loop
    Destinations = 1
    MaxTries = 3
    Answers = {"ok"}
    MaxChecks = 2
    MaxForced = 1
    MaxRestarts = 0
SPECIFICATION Spec
INVARIANT NeverTwice
CHECK_DEADLOCK FALSE
