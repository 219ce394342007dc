---------------------------- MODULE OutcomeEngine ----------------------------
(***************************************************************************)
(* The life of ONE live outcome of the outcome engine (app/outcomes.py):   *)
(* its row in the outcomes table, the runs attached to it as attempts, the *)
(* actions the gateway holds for it, and every coroutine that works on it. *)
(*                                                                         *)
(* The server is one asyncio process over one SQLite connection.  Each     *)
(* statement is atomic; a coroutine can be overtaken at every await.  So a *)
(* coroutine is a process with a label pc[p] and local variables mem[p],   *)
(* and an action below is what it does between two awaits that matter.     *)
(* What a coroutine read before an await and uses after it is in           *)
(* mem[p].seen: the code keeps such a copy in its variable "o".            *)
(***************************************************************************)
EXTENDS Integers, Sequences, FiniteSets

CONSTANTS
    Runs,           \* rows of the runs table this outcome may come to use
    FirstRun,       \* the run whose begin_attempt creates the outcome
    People,         \* members of the workspace, each with one request at a time
    Rechecks,       \* background tasks the recovery loop may create to re-verify
    Loop, Boot,     \* recovery_loop() and resume_pending()
    Held,           \* tool calls of the agent that the gateway may hold
    NoRun,          \* stands for Python's None where a run id is expected
    Triggers,       \* which kinds of outcome to look at: "run", "dry_run"
    MaxAttempts,    \* budget.max_attempts of the published spec
    MaxRechecks,    \* len(_REVERIFY_S): re-verifications while a judge is down
    ApproveGate,    \* the spec has a human check of mode "approve"
    SampleRate,     \* the spec has a human check of mode "sample"
    CheckOutcomes,  \* what the automatic checks may report in this model
    Failures,       \* diagnoses a failed run may get in this model
    Requests,       \* what people may ask for, see Asked
    Faults,         \* "early_exit", "exception", "agent_off"
    MaxLog,         \* bound: people only act while the log is shorter
    MaxRestarts     \* bound: crashes of the server

Procs == Runs \cup People \cup Rechecks \cup {Loop, Boot}

FailureClasses == {"blocked", "auth", "oom", "timeout", "provider_limit",
                   "provider_error", "run_failed"}

ASSUME ProcsAssumption ==
    /\ FirstRun \in Runs /\ NoRun \notin Procs
    /\ Runs \cap People = {} /\ Runs \cap Rechecks = {}
    /\ People \cap Rechecks = {}
    /\ Loop # Boot /\ {Loop, Boot} \cap (Runs \cup People \cup Rechecks) = {}

Resolutions == {"retry", "answer", "dismiss"}    \* POST /resolve
Decisions   == {"approve", "reject", "changes"}  \* POST /review
Asked       == {"verify"} \cup Resolutions \cup Decisions

ASSUME SpecAssumption ==
    /\ Triggers \subseteq {"run", "dry_run"}
    /\ MaxAttempts \in Nat \ {0} /\ MaxRechecks \in Nat
    /\ ApproveGate \in BOOLEAN /\ SampleRate \in BOOLEAN
    /\ CheckOutcomes \subseteq {"pass", "fail", "unavailable"}
    /\ Failures \subseteq FailureClasses
    /\ Requests \subseteq Asked
    /\ Faults \subseteq {"early_exit", "exception", "agent_off"}
    /\ MaxLog \in Nat /\ MaxRestarts \in Nat

VARIABLES
    outcome,    \* the row of the outcomes table
    runs,       \* the rows of the runs table
    action,     \* status of each tool call in the actions table
    pc, mem,    \* where each coroutine is, and its local variables
    restarts,   \* crashes so far (bounded by MaxRestarts)
    late,       \* calls of a gateway request that outlived its container
    faulted     \* history: a fault cut a coroutine short since the last start

db == <<outcome, runs, action>>
vars == <<outcome, runs, action, pc, mem, restarts, late, faulted>>

-----------------------------------------------------------------------------
(* The rows.                                                               *)

Status == {"none", "running", "verifying", "recovering", "awaiting_approval",
           "needs_you", "delivered", "failed"}

(* One line of recovery_json: a decision of the engine or of a person.     *)
Classes == FailureClasses \cup {"check_failed", "interrupted",
                                "verifier_error", "user"}
Steps   == {"retry", "reverify", "needs_you", "gave_up",
            "approved", "rejected", "dismissed"}
Entry   == [attempt : Nat, class : Classes, step : Steps]

(* What receipt_json says of the required checks: the automatic ones, and  *)
(* the approval gate ("none" when the spec has no gate).                   *)
Receipt   == [auto  : {"none", "pass", "fail", "unavailable"},
              human : {"none", "pending", "ok"}]
NoReceipt == [auto |-> "none", human |-> "none"]

(* due: next_attempt_at is set.  Its time passes at any moment.            *)
(* sampled, verdict: review_requested_at and review_verdict.               *)
(* trigger: "run" is live, "dry_run" rehearses a draft of the spec.        *)
OutcomeRow == [trigger : {"run", "dry_run"}, status : Status, attempts : Nat,
               due : BOOLEAN, log : Seq(Entry), receipt : Receipt,
               sampled : BOOLEAN, verdict : {"none", "ok", "wrong", "rejected"}]
NoOutcome  == [trigger |-> "run", status |-> "none", attempts |-> 0,
               due |-> FALSE, log |-> <<>>, receipt |-> NoReceipt,
               sampled |-> FALSE, verdict |-> "none"]

(* attempt = 0: the run is not attached.  started: started_at is set.      *)
RunStatus == {"none", "queued", "running", "succeeded", "failed", "interrupted"}
RunRow    == [status : RunStatus, attempt : Nat, started : BOOLEAN]

ActionStatus == {"none", "held", "approved", "executed", "failed", "rejected"}

Labels == {"idle", "begin", "link", "attach", "start", "exec", "verify", "mark",
           "check", "settle", "deliver", "receipt", "launch", "reload",
           "recheck", "resolve", "held", "review", "call", "approved", "spot",
           "resume"}

Memory == [seen : OutcomeRow, attempt : Nat, recover : BOOLEAN,
           run : Runs \cup {NoRun}, ran : RunStatus,
           auto : {"none", "pass", "fail", "unavailable"},
           held : SUBSET Held, call : SUBSET Held,
           choice : {"none"} \cup Resolutions \cup Decisions]
Blank  == [seen |-> NoOutcome, attempt |-> 0, recover |-> FALSE, run |-> NoRun,
           ran |-> "none", auto |-> "none", held |-> {}, call |-> {},
           choice |-> "none"]

(* Every row and every coroutine's variables have their types.             *)
TypeOK ==
    /\ outcome \in OutcomeRow
    /\ runs \in [Runs -> RunRow]
    /\ action \in [Held -> ActionStatus]
    /\ pc \in [Procs -> Labels]
    /\ mem \in [Procs -> Memory]
    /\ restarts \in Nat
    /\ late \subseteq Held /\ faulted \in BOOLEAN

(* A scheduled, manual or API run is queued and its task is created; a dry *)
(* run's outcome is created with the run attached to it.                   *)
Init ==
    /\ \E trigger \in Triggers :
           LET dry == trigger = "dry_run"
           IN  /\ outcome = [NoOutcome EXCEPT !.trigger = trigger,
                      !.status = IF dry THEN "running" ELSE "none",
                      !.attempts = IF dry THEN 1 ELSE 0]
               /\ runs = [r \in Runs |->
                      [status  |-> IF r = FirstRun THEN "queued" ELSE "none",
                       attempt |-> IF r = FirstRun /\ dry THEN 1 ELSE 0,
                       started |-> FALSE]]
    /\ action = [a \in Held |-> "none"]
    /\ pc = [p \in Procs |-> IF p = FirstRun THEN "begin" ELSE "idle"]
    /\ mem = [p \in Procs |-> Blank]
    /\ restarts = 0 /\ late = {} /\ faulted = FALSE

Goto(p, label, local) ==
    /\ pc'  = [pc  EXCEPT ![p] = label]
    /\ mem' = [mem EXCEPT ![p] = local]
Finish(p) == Goto(p, "idle", Blank)

Live(o)  == o.trigger = "run"
OrOne(n) == IF n = 0 THEN 1 ELSE n          \* Python's  n or 1
LastStep(log)  == IF log = <<>> THEN "none" ELSE log[Len(log)].step
LastClass(log) == IF log = <<>> THEN "none" ELSE log[Len(log)].class
HeldNow  == {a \in Held : action[a] = "held"}

(* The local variables of a call verify_outcome(id, attempt, recover).     *)
VerifyCall(attempt, recover) ==
    [Blank EXCEPT !.attempt = attempt, !.recover = recover]

-----------------------------------------------------------------------------
(* A run: begin_attempt, the container, finish_attempt.                    *)

(* begin_attempt of a run that is already attached (retry, dry run).       *)
BeginAttached(r) ==
    /\ pc[r] = "begin" /\ runs[r].attempt # 0
    /\ Goto(r, "exec", Blank)
    /\ UNCHANGED <<db, restarts, late, faulted>>

(* begin_attempt of a fresh run of an agent with a published spec: the     *)
(* outcome row is created, and committed, before the run is attached.      *)
BeginCreate(r) ==
    /\ pc[r] = "begin" /\ runs[r].attempt = 0
    /\ outcome' = [outcome EXCEPT !.status = "running"]
    /\ Goto(r, "link", [Blank EXCEPT !.run = r])
    /\ UNCHANGED <<runs, action, restarts, late, faulted>>

(* link_run_to_outcome reads the attempt counter ...                       *)
NextAttemptSame == OrOne(outcome.attempts)              \* a mutant
NextAttempt     == outcome.attempts + 1
LinkRead(p) ==
    /\ pc[p] = "link"
    /\ Goto(p, "attach", [mem[p] EXCEPT !.attempt = NextAttempt])
    /\ UNCHANGED <<db, restarts, late, faulted>>

(* ... and writes it to the run and to the outcome.                        *)
LinkWrite(p) ==
    /\ pc[p] = "attach"
    /\ runs' = [runs EXCEPT ![mem[p].run].attempt = mem[p].attempt]
    /\ outcome' = [outcome EXCEPT !.attempts = mem[p].attempt]
    /\ IF p \in Runs THEN Goto(p, "exec", Blank) ELSE Goto(p, "start", mem[p])
    /\ UNCHANGED <<action, restarts, late, faulted>>

(* mark_run_started: the run has its slot.                                 *)
RunStart(r) ==
    /\ pc[r] = "exec" /\ runs[r].status = "queued"
    /\ runs' = [runs EXCEPT ![r].status = "running", ![r].started = TRUE]
    /\ UNCHANGED <<outcome, action, pc, mem, restarts, late, faulted>>

(* The agent asks for a tool call that needs a person: the gateway holds   *)
(* it under the run's outcome.                                             *)
RunHold(r, a) ==
    /\ pc[r] = "exec" /\ runs[r].status = "running"
    /\ action[a] = "none" /\ a \notin late
    /\ action' = [action EXCEPT ![a] = "held"]
    /\ UNCHANGED <<outcome, runs, pc, mem, restarts, late, faulted>>

(* The container ends; finish_attempt verifies the run's attempt.  Nothing *)
(* ends a tools/call request that the gateway has in hand by then.         *)
RunEnd(r, status) ==
    /\ pc[r] = "exec" /\ runs[r].status = "running"
    /\ runs' = [runs EXCEPT ![r].status = status]
    /\ Goto(r, "verify", VerifyCall(OrOne(runs[r].attempt), TRUE))
    /\ \E asked \in SUBSET {a \in Held : action[a] = "none"} : late' = late \cup asked
    /\ UNCHANGED <<outcome, action, restarts, faulted>>

(* Such a request records the calls of its batch one by one, and looks at  *)
(* the run for none of them.                                               *)
LateHold(a) ==
    /\ a \in late /\ action[a] = "none"
    /\ action' = [action EXCEPT ![a] = "held"]
    /\ UNCHANGED <<outcome, runs, pc, mem, restarts, late, faulted>>

(* No provider key, or no docker: execute_run marks the run failed and     *)
(* returns; finish_attempt is never called.                                *)
RunEarlyExit(r) ==
    /\ "early_exit" \in Faults
    /\ pc[r] = "exec" /\ runs[r].status = "running"
    /\ runs' = [runs EXCEPT ![r].status = "failed"]
    /\ Finish(r)
    /\ faulted' = TRUE
    /\ UNCHANGED <<outcome, action, restarts, late>>

-----------------------------------------------------------------------------
(* verify_outcome.                                                         *)

MayRecoverAll(p) == mem[p].recover                      \* a mutant
MayRecover(p)    == mem[p].recover /\ Live(outcome)
VerifyRead(p) ==
    /\ pc[p] = "verify"
    /\ LET attempt == IF mem[p].attempt # 0 THEN mem[p].attempt
                      ELSE OrOne(outcome.attempts)
           ofAttempt == {r \in Runs : runs[r].attempt = attempt}
       IN  \E r \in IF ofAttempt = {} THEN {NoRun} ELSE ofAttempt :
               Goto(p, "mark", [mem[p] EXCEPT !.seen = outcome, !.run = r,
                                              !.attempt = attempt,
                                              !.recover = MayRecover(p)])
    /\ UNCHANGED <<db, restarts, late, faulted>>

VerifyMark(p) ==
    /\ pc[p] = "mark"
    /\ outcome' = [outcome EXCEPT !.status = "verifying"]
    /\ Goto(p, "check", [mem[p] EXCEPT
           !.run = NoRun,
           !.ran = IF mem[p].run = NoRun THEN "none"
                   ELSE runs[mem[p].run].status])
    /\ UNCHANGED <<runs, action, restarts, late, faulted>>

(* run_checks asks data sources, artifacts and a judge; then the held      *)
(* tool calls of a live outcome are listed.                                *)
ListedNone(o) == {}                                     \* a mutant
Listed(o)     == IF Live(o) THEN HeldNow ELSE {}
VerifyCheck(p, auto) ==
    /\ pc[p] = "check"
    /\ Goto(p, "settle", [mem[p] EXCEPT !.auto = auto,
                                        !.held = Listed(mem[p].seen)])
    /\ UNCHANGED <<db, restarts, late, faulted>>

Gated(m) == ApproveGate /\ Live(m.seen)
Approved(m) == \E i \in DOMAIN m.seen.log : /\ m.seen.log[i].step = "approved"
                                            /\ m.seen.log[i].attempt = m.attempt
ReceiptOf(m) ==
    [auto  |-> m.auto,
     human |-> CASE ~Gated(m)                -> "none"
                 [] Gated(m) /\ Approved(m)  -> "ok"
                 [] Gated(m) /\ ~Approved(m) -> "pending"]
PassedUnlessFailed(m) == m.auto # "fail" /\ ReceiptOf(m).human # "pending" \* a mutant
PassedUngated(m)      == m.auto = "pass"                \* a mutant
Passed(m)             == m.auto = "pass" /\ ReceiptOf(m).human # "pending"
Waiting(m)            == m.auto = "pass" /\ ReceiptOf(m).human = "pending"

(* Tool calls wait for a person, or an approval gate does.                 *)
SettleAwaiting(p) ==
    /\ pc[p] = "settle"
    /\ mem[p].held # {} \/ Waiting(mem[p])
    /\ outcome' = [outcome EXCEPT !.status = "awaiting_approval", !.due = FALSE,
                                  !.receipt = ReceiptOf(mem[p])]
    /\ Finish(p)
    /\ UNCHANGED <<runs, action, restarts, late, faulted>>

(* Every required check passed; a share of outcomes is queued for a look.  *)
SettleDelivered(p) ==
    /\ pc[p] = "settle"
    /\ mem[p].held = {} /\ Passed(mem[p])
    /\ \E sample \in IF /\ SampleRate /\ Live(mem[p].seen)
                        /\ mem[p].seen.status # "delivered"
                        /\ ~mem[p].seen.sampled
                     THEN BOOLEAN ELSE {FALSE} :
           outcome' = [outcome EXCEPT !.status = "delivered", !.due = FALSE,
                                      !.receipt = ReceiptOf(mem[p]),
                                      !.sampled = @ \/ sample]
    /\ Goto(p, "deliver", Blank)
    /\ UNCHANGED <<runs, action, restarts, late, faulted>>

NotDelivered(p) == pc[p] = "settle" /\ mem[p].held = {} /\ mem[p].auto # "pass"

(* recover=False: only the receipt is refreshed, unless it was decided.    *)
SettleNoRecovery(p) ==
    /\ NotDelivered(p) /\ ~mem[p].recover
    /\ outcome' = [outcome EXCEPT
           !.status = IF mem[p].seen.status \in {"needs_you", "recovering"}
                      THEN mem[p].seen.status ELSE "failed",
           !.receipt = ReceiptOf(mem[p])]
    /\ Finish(p)
    /\ UNCHANGED <<runs, action, restarts, late, faulted>>

(* classify(): what a failing attempt may be diagnosed as, by its run.     *)
Diagnoses(ran) ==
    CASE ran = "succeeded"   -> {"check_failed"} \cup (Failures \cap {"blocked"})
      [] ran = "failed"      -> Failures
      [] ran = "interrupted" -> {"interrupted"}
      [] OTHER               -> {"run_failed"}

(* _decide(): a person's entry starts a fresh budget from its attempt.     *)
Base(log) ==
    LET ofUser == {i \in DOMAIN log : log[i].class = "user"}
        byUser == {log[i].attempt : i \in ofUser}
    IN  CHOOSE n \in byUser \cup {0} : \A k \in byUser : k <= n
SpentLate(o)         == OrOne(o.attempts) - Base(o.log) > MaxAttempts   \* a mutant
Spent(o)             == OrOne(o.attempts) - Base(o.log) >= MaxAttempts
Recurred(class, log) == \E i \in DOMAIN log : log[i].class = class

Decide(o, class, overCost, noMemory) ==
    LET asks   == class \in {"blocked", "auth"}
        spent  == Spent(o) \/ overCost
        unsure == \/ class = "run_failed" /\ Recurred(class, o.log)
                  \/ class = "oom" /\ noMemory
    IN  CASE asks                        -> "needs_you"
          [] ~asks /\ spent              -> "gave_up"
          [] ~asks /\ ~spent /\ unsure   -> "needs_you"
          [] OTHER                       -> "retry"

(* _reverify(): how many entries at the end of the log only re-verified.   *)
RecheckStreak(log) ==
    LET rechecked(i) == log[i].step = "reverify" /\ log[i].class # "user"
    IN  Cardinality({i \in DOMAIN log : \A j \in i..Len(log) : rechecked(j)})

StatusAfterStep(step) ==                                \* a mutant
    IF step \in {"retry", "reverify"} THEN "recovering" ELSE step
StatusAfter(step) ==
    CASE step \in {"retry", "reverify"} -> "recovering"
      [] step = "needs_you"             -> "needs_you"
      [] step = "gave_up"               -> "failed"

DatesRetries(step) == step = "retry"                    \* a mutant
Dates(step)        == step \in {"retry", "reverify"}

(* The write that ends a verification with a decision, the log being the   *)
(* one read when the verification began.                                   *)
WriteDecision(p, class, step) ==
    /\ outcome' = [outcome EXCEPT
           !.status  = StatusAfter(step),
           !.due     = Dates(step),
           !.log     = Append(mem[p].seen.log,
                              [attempt |-> OrOne(mem[p].seen.attempts),
                               class |-> class, step |-> step]),
           !.receipt = ReceiptOf(mem[p])]
    /\ Finish(p)
    /\ UNCHANGED <<runs, action, restarts, late, faulted>>

SettleFailed(p) ==
    /\ NotDelivered(p) /\ mem[p].recover /\ mem[p].auto = "fail"
    /\ \E class \in Diagnoses(mem[p].ran), overCost, noMemory \in BOOLEAN :
           WriteDecision(p, class, Decide(mem[p].seen, class, overCost, noMemory))

SettleUnavailable(p) ==
    /\ NotDelivered(p) /\ mem[p].recover /\ mem[p].auto = "unavailable"
    /\ WriteDecision(p, "verifier_error",
           IF RecheckStreak(mem[p].seen.log) >= MaxRechecks THEN "needs_you"
           ELSE "reverify")

(* A check or a statement raises: the callers log it and go on, and the    *)
(* outcome keeps the status it has at that moment.                         *)
VerifyRaises(p) ==
    /\ "exception" \in Faults
    /\ pc[p] \in {"mark", "check", "settle"}
    /\ Finish(p)
    /\ faulted' = TRUE
    /\ UNCHANGED <<db, restarts, late>>

(* deliver_outcome reads the outcome again, sends, and at the end writes   *)
(* the receipt it read back with the deliveries added.  It ends at once    *)
(* when the outcome has nowhere to go, or nothing to deliver by then.  The *)
(* destinations themselves are in module Delivery.                         *)
DeliverRead(p) ==
    /\ pc[p] = "deliver"
    /\ \/ /\ Live(outcome) /\ outcome.status = "delivered"
          /\ Goto(p, "receipt", [Blank EXCEPT !.seen = outcome])
       \/ Finish(p)
    /\ UNCHANGED <<db, restarts, late, faulted>>

DeliverReceipt(p) ==
    /\ pc[p] = "receipt"
    /\ outcome' = [outcome EXCEPT !.receipt = mem[p].seen.receipt]
    /\ Finish(p)
    /\ UNCHANGED <<runs, action, restarts, late, faulted>>

Verify(p) ==
    \/ VerifyRead(p) \/ VerifyMark(p)
    \/ \E auto \in CheckOutcomes : VerifyCheck(p, auto)
    \/ SettleAwaiting(p) \/ SettleDelivered(p) \/ SettleNoRecovery(p)
    \/ SettleFailed(p) \/ SettleUnavailable(p) \/ VerifyRaises(p)
    \/ DeliverRead(p) \/ DeliverReceipt(p)

-----------------------------------------------------------------------------
(* _launch_next_attempt, by the recovery loop or on a person's request.    *)

(* The caller reads the outcome again before it launches.                  *)
Reload(u) ==
    /\ pc[u] = "reload"
    /\ Goto(u, "launch", Blank)
    /\ UNCHANGED <<db, restarts, late, faulted>>

LaunchRefused(p) ==
    /\ pc[p] = "launch" /\ "agent_off" \in Faults
    /\ outcome' = [outcome EXCEPT !.status = "failed", !.due = FALSE]
    /\ Finish(p)
    /\ UNCHANGED <<runs, action, restarts, late, faulted>>

LaunchCreate(p) ==
    /\ pc[p] = "launch"
    /\ \E r \in Runs :
           /\ runs[r].status = "none"
           /\ runs' = [runs EXCEPT ![r].status = "queued"]
           /\ Goto(p, "link", [Blank EXCEPT !.run = r])
    /\ UNCHANGED <<outcome, action, restarts, late, faulted>>

(* The outcome is running again and the run's own task is created.         *)
LaunchStart(p) ==
    /\ pc[p] = "start"
    /\ outcome' = [outcome EXCEPT !.status = "running", !.due = FALSE]
    /\ pc'  = [pc  EXCEPT ![p] = "idle", ![mem[p].run] = "begin"]
    /\ mem' = [mem EXCEPT ![p] = Blank]
    /\ UNCHANGED <<runs, action, restarts, late, faulted>>

Launch(p) == LaunchRefused(p) \/ LaunchCreate(p) \/ LaunchStart(p)

(* A tick of recovery_loop: the due rows are listed once, then handled one *)
(* after the other with awaits in between.                                 *)
LoopTick ==
    /\ pc[Loop] = "idle"
    /\ outcome.status = "recovering" /\ outcome.due
    /\ IF LastStep(outcome.log) = "reverify"
       THEN Goto(Loop, "recheck",
                 [Blank EXCEPT !.attempt = OrOne(outcome.attempts)])
       ELSE Goto(Loop, "launch", Blank)
    /\ UNCHANGED <<db, restarts, late, faulted>>

LoopRecheck(t) ==
    /\ pc[Loop] = "recheck" /\ pc[t] = "idle"
    /\ outcome' = [outcome EXCEPT !.status = "verifying", !.due = FALSE]
    /\ pc'  = [pc  EXCEPT ![Loop] = "idle", ![t] = "verify"]
    /\ mem' = [mem EXCEPT ![Loop] = Blank,
                          ![t] = VerifyCall(mem[Loop].attempt, TRUE)]
    /\ UNCHANGED <<runs, action, restarts, late, faulted>>

-----------------------------------------------------------------------------
(* Requests of people.  The log bound keeps the model finite.              *)

Request(u, kind) == /\ pc[u] = "idle" /\ kind \in Requests
                    /\ Len(outcome.log) < MaxLog

(* POST /verify: re-run the checks now; refused only while it runs.        *)
AskVerify(u) ==
    /\ Request(u, "verify")
    /\ outcome.status \notin {"none", "running"}
    /\ Goto(u, "verify", VerifyCall(0, FALSE))
    /\ UNCHANGED <<db, restarts, late, faulted>>

(* resolve() on a needs-you outcome.                                       *)
AskResolve(u, choice) ==
    /\ Request(u, choice)
    /\ outcome.status = "needs_you"
    /\ Goto(u, "resolve", [Blank EXCEPT !.seen = outcome, !.choice = choice])
    /\ UNCHANGED <<db, restarts, late, faulted>>

UserEntry(attempt, step) ==
    [attempt |-> attempt, class |-> "user", step |-> step]
LogWith(u, entry) == Append(mem[u].seen.log, entry)

ResolveDismiss(u) ==
    /\ pc[u] = "resolve" /\ mem[u].choice = "dismiss"
    /\ outcome' = [outcome EXCEPT !.status = "failed",
           !.log = LogWith(u, UserEntry(mem[u].seen.attempts, "dismissed"))]
    /\ Finish(u)
    /\ UNCHANGED <<runs, action, restarts, late, faulted>>

JudgeWasDown(u) ==
    mem[u].choice = "retry" /\ LastClass(mem[u].seen.log) = "verifier_error"

(* Only the judge was down: check again, do not redo the job.              *)
ResolveRecheck(u) ==
    /\ pc[u] = "resolve" /\ JudgeWasDown(u)
    /\ outcome' = [outcome EXCEPT !.status = "verifying",
           !.log = LogWith(u, UserEntry(mem[u].seen.attempts, "reverify"))]
    /\ Goto(u, "verify", VerifyCall(OrOne(mem[u].seen.attempts), TRUE))
    /\ UNCHANGED <<runs, action, restarts, late, faulted>>

(* A person wants another attempt: it is due now, and this request starts  *)
(* it itself.                                                              *)
RetryUndated(u, attempt) ==                             \* a mutant
    /\ outcome' = [outcome EXCEPT !.status = "recovering", !.due = FALSE,
                                  !.log = LogWith(u, UserEntry(attempt, "retry"))]
    /\ Goto(u, "reload", Blank)
    /\ UNCHANGED <<runs, action, restarts, late, faulted>>
RetryNow(u, attempt) ==
    /\ outcome' = [outcome EXCEPT !.status = "recovering", !.due = TRUE,
                                  !.log = LogWith(u, UserEntry(attempt, "retry"))]
    /\ Goto(u, "reload", Blank)
    /\ UNCHANGED <<runs, action, restarts, late, faulted>>

ResolveRetry(u) ==
    /\ pc[u] = "resolve"
    /\ mem[u].choice \in {"retry", "answer"} /\ ~JudgeWasDown(u)
    /\ RetryNow(u, mem[u].seen.attempts)

(* review(): of an outcome awaiting approval, or of a delivered outcome    *)
(* sampled for a spot-check.  The tool calls held for it are listed after  *)
(* its row was read.                                                       *)
AskReview(u, choice) ==
    /\ Request(u, choice)
    /\ outcome.status = "awaiting_approval"
    /\ Goto(u, "held", [Blank EXCEPT !.seen = outcome, !.choice = choice])
    /\ UNCHANGED <<db, restarts, late, faulted>>

ListHeld(u) ==
    /\ pc[u] = "held"
    /\ Goto(u, "review", [mem[u] EXCEPT !.held = HeldNow])
    /\ UNCHANGED <<db, restarts, late, faulted>>

AskSpotCheck(u, choice) ==
    /\ Request(u, choice) /\ choice # "changes"
    /\ outcome.status = "delivered" /\ outcome.sampled /\ outcome.verdict = "none"
    /\ Goto(u, "spot", [Blank EXCEPT !.choice = choice])
    /\ UNCHANGED <<db, restarts, late, faulted>>

SpotVerdict(u) ==
    /\ pc[u] = "spot"
    /\ outcome' = [outcome EXCEPT
           !.verdict = IF mem[u].choice = "approve" THEN "ok" ELSE "wrong"]
    /\ Finish(u)
    /\ UNCHANGED <<runs, action, restarts, late, faulted>>

(* set_action(only_if="held") of execute_approved and of reject.           *)
ClaimableListed(a) == TRUE                              \* a mutant
Claimable(a)       == action[a] = "held"

(* execute_approved: claim the held call, run it, record how it went.      *)
ClaimAction(u) ==
    /\ pc[u] = "review" /\ mem[u].choice = "approve"
    /\ \E a \in mem[u].held :
           /\ Claimable(a)
           /\ action' = [action EXCEPT ![a] = "approved"]
           /\ Goto(u, "call", [mem[u] EXCEPT !.held = @ \ {a}, !.call = {a}])
    /\ UNCHANGED <<outcome, runs, restarts, late, faulted>>

(* Somebody else decided it first: ValueError, the request ends with 409.  *)
ClaimLost(u) ==
    /\ pc[u] = "review"
    /\ \E a \in mem[u].held : ~Claimable(a)
    /\ Finish(u)
    /\ UNCHANGED <<db, restarts, late, faulted>>

EndCall(u, status) ==
    /\ pc[u] = "call"
    /\ action' = [a \in Held |-> IF a \in mem[u].call THEN status ELSE action[a]]
    /\ Goto(u, IF mem[u].held = {} THEN "approved" ELSE "review",
               [mem[u] EXCEPT !.call = {}])
    /\ UNCHANGED <<outcome, runs, restarts, late, faulted>>

(* All held calls ran: log the approval and verify for real.               *)
ApproveActions(u) ==
    /\ pc[u] = "approved"
    /\ LET attempt == OrOne(mem[u].seen.attempts)
       IN  /\ outcome' = [outcome EXCEPT
                  !.log = LogWith(u, UserEntry(attempt, "approved")),
                  !.verdict = "ok"]
           /\ Goto(u, "verify", VerifyCall(attempt, TRUE))
    /\ UNCHANGED <<runs, action, restarts, late, faulted>>

RejectAction(u) ==
    /\ pc[u] = "review" /\ mem[u].choice # "approve"
    /\ \E a \in mem[u].held :
           /\ Claimable(a)
           /\ action' = [action EXCEPT ![a] = "rejected"]
           /\ Goto(u, "review", [mem[u] EXCEPT !.held = @ \ {a}])
    /\ UNCHANGED <<outcome, runs, restarts, late, faulted>>

Decided(u, choice) ==
    pc[u] = "review" /\ mem[u].held = {} /\ mem[u].choice = choice

(* Approve with nothing held: finalize on the results the owner saw.  The  *)
(* automatic checks are not run again, only the pending ones turn to       *)
(* passed.                                                                 *)
ReviewApprove(u) ==
    /\ Decided(u, "approve")
    /\ LET shown == mem[u].seen.receipt
       IN  outcome' = [outcome EXCEPT !.status = "delivered",
               !.log = LogWith(u, UserEntry(OrOne(mem[u].seen.attempts), "approved")),
               !.receipt = [shown EXCEPT !.human = IF @ = "pending" THEN "ok" ELSE @],
               !.verdict = "ok"]
    /\ Goto(u, "deliver", Blank)
    /\ UNCHANGED <<runs, action, restarts, late, faulted>>

ReviewReject(u) ==
    /\ Decided(u, "reject")
    /\ outcome' = [outcome EXCEPT !.status = "failed",
           !.log = LogWith(u, UserEntry(OrOne(mem[u].seen.attempts), "rejected")),
           !.receipt = mem[u].seen.receipt, !.verdict = "rejected"]
    /\ Finish(u)
    /\ UNCHANGED <<runs, action, restarts, late, faulted>>

ReviewChanges(u) ==
    /\ Decided(u, "changes")
    /\ RetryNow(u, OrOne(mem[u].seen.attempts))

(* Changes were asked for without saying which: 409, after the rejections. *)
ReviewRefused(u) ==
    /\ Decided(u, "changes")
    /\ Finish(u)
    /\ UNCHANGED <<db, restarts, late, faulted>>

Person(u) ==
    \/ AskVerify(u)
    \/ \E choice \in Resolutions : AskResolve(u, choice)
    \/ ResolveDismiss(u) \/ ResolveRecheck(u) \/ ResolveRetry(u)
    \/ \E choice \in Decisions :
           AskReview(u, choice) \/ AskSpotCheck(u, choice)
    \/ ListHeld(u) \/ SpotVerdict(u) \/ ClaimAction(u) \/ ClaimLost(u)
    \/ \E status \in {"executed", "failed"} : EndCall(u, status)
    \/ ApproveActions(u) \/ RejectAction(u)
    \/ ReviewApprove(u) \/ ReviewReject(u) \/ ReviewChanges(u)
    \/ ReviewRefused(u)
    \/ Reload(u)

-----------------------------------------------------------------------------
(* The server dies and comes back: every coroutine is gone, with what a    *)
(* gateway request had not recorded yet, and db.init marks the runs it had *)
(* in hand as interrupted.  The list of outcomes left in the middle is the *)
(* first statement of resume_pending, whose task is created before every   *)
(* other one: nothing comes between.                                       *)
InterruptsRunning(r) == runs[r].status = "running"      \* a mutant
Interrupts(r)        == runs[r].status \in {"queued", "running"}
PendingRunning       == outcome.status = "running"      \* a mutant
Pending              == outcome.status \in {"running", "verifying"}

Restart ==
    /\ restarts < MaxRestarts
    /\ restarts' = restarts + 1
    /\ runs' = [r \in Runs |-> IF Interrupts(r)
                               THEN [runs[r] EXCEPT !.status = "interrupted"]
                               ELSE runs[r]]
    /\ pc'  = [p \in Procs |-> IF p = Boot /\ Pending THEN "resume" ELSE "idle"]
    /\ mem' = [p \in Procs |-> Blank]
    /\ late' = {a \in late : action[a] # "none"}
    /\ faulted' = FALSE
    /\ UNCHANGED <<outcome, action>>

(* The outcomes on that list are verified one after the other, unless the  *)
(* last run was already started again when its turn comes.                 *)
LastRunActive ==
    \E r \in Runs : /\ runs[r].attempt # 0
                    /\ \A s \in Runs : runs[s].attempt <= runs[r].attempt
                    /\ runs[r].status \in {"queued", "running"}
Resume ==
    /\ pc[Boot] = "resume"
    /\ IF LastRunActive THEN Finish(Boot)
       ELSE Goto(Boot, "verify", VerifyCall(0, TRUE))
    /\ UNCHANGED <<db, restarts, late, faulted>>

-----------------------------------------------------------------------------

Run(r) ==
    \/ BeginAttached(r) \/ BeginCreate(r)
    \/ RunStart(r) \/ \E a \in Held : RunHold(r, a)
    \/ \E status \in {"succeeded", "failed"} : RunEnd(r, status)
    \/ RunEarlyExit(r)

Next ==
    \/ \E r \in Runs : Run(r)
    \/ \E a \in Held : LateHold(a)
    \/ \E p \in Procs : LinkRead(p) \/ LinkWrite(p) \/ Verify(p) \/ Launch(p)
    \/ LoopTick \/ \E t \in Rechecks : LoopRecheck(t)
    \/ \E u \in People : Person(u)
    \/ Restart \/ Resume

Spec == Init /\ [][Next]_vars

(* A coroutine that can go on does: asyncio resumes it once its await is   *)
(* over, and a container ends at its time limit at the latest.  The        *)
(* recovery loop ticks every RECOVERY_TICK_S.  Nothing makes people ask or *)
(* the server crash.                                                       *)
Fairness ==
    /\ \A r \in Runs : WF_vars(\/ BeginAttached(r) \/ BeginCreate(r) \/ RunStart(r)
                              \/ \E s \in {"succeeded", "failed"} : RunEnd(r, s))
    /\ \A p \in Procs : WF_vars(LinkRead(p) \/ LinkWrite(p) \/ Verify(p) \/ Launch(p))
    /\ WF_vars(LoopTick) /\ WF_vars(\E t \in Rechecks : LoopRecheck(t))
    /\ WF_vars(Resume)
    /\ \A u \in People : WF_vars(pc[u] # "idle" /\ Person(u))

FairSpec == Spec /\ Fairness
-----------------------------------------------------------------------------
(* Properties.                                                             *)

(* An outcome that says it is recovering has a time at which the recovery  *)
(* loop takes it up (next_attempt_at): nothing else would ever do so.      *)
RecoveringIsScheduled == outcome.status = "recovering" => outcome.due

(* Delivered means that every required check passed: no automatic check    *)
(* failed or was left out, and no approval is pending (the docstring of    *)
(* outcomes.py: only then does anything reach the team).                   *)
DeliveredMeansChecked ==
    outcome.status = "delivered" =>
        outcome.receipt.auto = "pass" /\ outcome.receipt.human # "pending"

(* begin_attempt and _launch_next_attempt give each attached run a number  *)
(* of its own: check results and held calls are told apart by it.          *)
Attached == {r \in Runs : runs[r].attempt # 0}
AttemptNumbersUnique ==
    \A r, s \in Attached : runs[r].attempt = runs[s].attempt => r = s

(* Two attempts of one outcome are never in hand at once, whatever the     *)
(* recovery loop, a resumption after a crash and a dying run interleave.   *)
Active == {r \in Runs : runs[r].status \in {"queued", "running"}}
OneAttemptAtATime == \A r, s \in Active : r = s

(* A dry run rehearses a draft: it never waits for anybody, never recovers *)
(* and never uses a second run.                                            *)
DryRunsOnce ==
    ~Live(outcome) =>
        /\ outcome.status \notin {"recovering", "needs_you", "awaiting_approval"}
        /\ \A r \in Runs : runs[r].status # "none" => r = FirstRun

(* Without people, the engine implements the abstract life of an outcome:  *)
(* it starts no more attempts than the budget allows, over crashes too,    *)
(* and an outcome that stopped is never touched again.                     *)
Lifecycle == INSTANCE OutcomeLifecycle WITH
    phase   <- CASE outcome.status = "none" -> "new"
                 [] outcome.status \in {"running", "verifying", "recovering"}
                                            -> "working"
                 [] OTHER -> outcome.status,
    started <- Cardinality({r \in Runs : runs[r].started})
ImplementsLifecycle == Lifecycle!Spec

(* An outcome that is worked on is settled in the end.  Two faults leave   *)
(* it to nobody, as running or verifying: a run that ends before its       *)
(* container starts (no finish_attempt), and an exception in a             *)
(* verification, which finish_attempt only logs.  The next start of the    *)
(* server forgets the fault and must take the outcome up again.            *)
Working == outcome.status \in {"running", "verifying", "recovering"}
Settled == outcome.status \in Lifecycle!Stopped
LeftByFault == faulted /\ outcome.status \in {"running", "verifying"}
EventuallySettles == Working ~> (Settled \/ LeftByFault)

(* A held tool call is executed by one person only: claiming it is atomic  *)
(* (set_action with only_if), though two reviewers listed it as held.      *)
OneExecutor == \A u, v \in People : mem[u].call \cap mem[v].call # {} => u = v

(* A tool call that ran, or was refused, keeps that record: it is not run  *)
(* again, and not run after a refusal, whoever still had it on a list.     *)
DecidedCallsStay ==
    [][\A a \in Held : action[a] \in {"executed", "failed", "rejected"}
                          => action'[a] = action[a]]_vars

(* A delivered live outcome leaves no call on hold that its verification   *)
(* could have listed: only calls of a request that outlived its container  *)
(* are held after the list was read, and then nobody reviews them.         *)
(* (A dry run's calls stay held for good: nobody reviews a dry run.)       *)
NothingHeldBack ==
    outcome.status = "delivered" /\ Live(outcome) => HeldNow \subseteq late

(* A job with an approval gate is delivered only with the approval on its  *)
(* receipt, whatever re-verifications and reviewers cross each other.      *)
GateRespected ==
    outcome.status = "delivered" /\ ApproveGate /\ Live(outcome)
        => outcome.receipt.human = "ok"
=============================================================================
