\* One person answers every question the engine asks, races with the loop included.
CONSTANTS
    r1 = r1   r2 = r2   r3 = r3   u1 = u1   u2 = u2   t1 = t1   a1 = a1
    Runs = {r1, r2, r3}
    FirstRun = r1
    People = {u1}
    Rechecks = {t1}
    Loop = Loop
    Boot = Boot
    Held = {a1}
    NoRun = NoRun
    Triggers = {"run"}
    MaxAttempts = 2
    MaxRechecks = 0
    ApproveGate = FALSE
    SampleRate = TRUE
    CheckOutcomes = {"pass", "fail", "unavailable"}
    Failures = {"auth"}
    Requests = {"approve", "reject", "changes", "retry", "answer", "dismiss"}
    Faults = {"agent_off", "early_exit"}
    MaxLog = 2
    MaxRestarts = 0
SPECIFICATION Spec
INVARIANTS RecoveringIsScheduled
CHECK_DEADLOCK FALSE
SYMMETRY Symmetry
