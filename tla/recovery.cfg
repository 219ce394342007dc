\* The engine alone: attempts, verification, recovery, crashes, dry runs.
CONSTANTS
    r1 = r1   r2 = r2   r3 = r3   r4 = r4   t1 = t1   a1 = a1
    Runs = {r1, r2, r3, r4}
    FirstRun = r1
    People = {}
    Rechecks = {t1}
    Loop = Loop
    Boot = Boot
    Held = {a1}
    NoRun = NoRun
    Triggers = {"run", "dry_run"}
    MaxAttempts = 2
    MaxRechecks = 1
    ApproveGate = FALSE
    SampleRate = FALSE
    CheckOutcomes = {"pass", "fail", "unavailable"}
    Failures = {"auth", "run_failed", "timeout"}
    Requests = {}
    Faults = {"agent_off", "early_exit", "exception"}
    MaxLog = 9
    MaxRestarts = 2
SPECIFICATION FairSpec
INVARIANTS TypeOK DeliveredMeansChecked AttemptNumbersUnique OneAttemptAtATime DryRunsOnce NothingHeldBack
PROPERTIES ImplementsLifecycle EventuallySettles
CHECK_DEADLOCK FALSE
