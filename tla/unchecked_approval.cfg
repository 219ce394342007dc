\* Changes asked for without saying which, then an approval.
CONSTANTS
    r1 = r1   r2 = r2   r3 = r3   u1 = u1   u2 = u2   t1 = t1   a1 = a1
    Runs = {r1}
    FirstRun = r1
    People = {u1}
    Rechecks = {t1}
    Loop = Loop
    Boot = Boot
    Held = {a1}
    NoRun = NoRun
    Triggers = {"run"}
    MaxAttempts = 1
    MaxRechecks = 0
    ApproveGate = FALSE
    SampleRate = FALSE
    CheckOutcomes = {"pass", "fail"}
    Failures = {"run_failed"}
    Requests = {"approve", "changes"}
    Faults = {}
    MaxLog = 2
    MaxRestarts = 0
SPECIFICATION Spec
INVARIANTS DeliveredMeansChecked
CHECK_DEADLOCK FALSE
