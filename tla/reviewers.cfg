\* Two people approve, reject and re-verify the same outcome.
CONSTANTS
    r1 = r1   r2 = r2   r3 = r3   u1 = u1   u2 = u2   t1 = t1   a1 = a1
    Runs = {r1}
    FirstRun = r1
    People = {u1, u2}
    Rechecks = {t1}
    Loop = Loop
    Boot = Boot
    Held = {a1}
    NoRun = NoRun
    Triggers = {"run"}
    MaxAttempts = 1
    MaxRechecks = 1
    ApproveGate = TRUE
    SampleRate = FALSE
    CheckOutcomes = {"pass", "fail"}
    Failures = {"run_failed"}
    Requests = {"approve", "reject", "verify"}
    Faults = {"exception"}
    MaxLog = 1
    MaxRestarts = 0
SPECIFICATION Spec
INVARIANTS OneExecutor GateRespected
PROPERTIES DecidedCallsStay
CHECK_DEADLOCK FALSE
SYMMETRY Symmetry
