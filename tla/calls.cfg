\* A batch of two calls of a run, two people, a changing policy, a crash.
CONSTANTS
    r1 = r1   q1 = q1   u1 = u1   u2 = u2
    Runs = {r1}
    Reqs = {q1}
    People = {u1, u2}
    Calls <- SomeCalls
    MaxBatch = 2
    Overrides <- Policies
    Answers = {"ok", "error", "raise"}
    MaxRestarts = 1
SPECIFICATION Spec
SYMMETRY PeopleAlike
INVARIANTS RunsOnceIfPermitted StatusIsTrue HeldIsListed
PROPERTY ImplementsPromise
CHECK_DEADLOCK FALSE
