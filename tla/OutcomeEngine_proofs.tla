------------------------ MODULE OutcomeEngine_proofs ------------------------
(***************************************************************************)
(* The outcome engine for every number of runs, people and crashes: types, *)
(* who may act on an outcome, and what a delivery rests on.                *)
(***************************************************************************)
EXTENDS OutcomeEngine, FiniteSetTheorems, TLAPS

-----------------------------------------------------------------------------
(* Type correctness.                                                       *)

(* The empty row and the empty memory have their types.                    *)
LEMMA BlankType == NoOutcome \in OutcomeRow /\ Blank \in Memory
  <1>1. <<>> \in Seq(Entry)
    OBVIOUS
  <1>2. NoOutcome \in OutcomeRow
    BY <1>1 DEF NoOutcome, OutcomeRow, NoReceipt, Receipt, Status
  <1> QED
    BY <1>2 DEF Blank, Memory, RunStatus

(* A coroutine that moves to a label with typed variables keeps pc and mem *)
(* typed.                                                                  *)
LEMMA GotoType ==
  ASSUME TypeOK, NEW p \in Procs, NEW label \in Labels, NEW local \in Memory,
         Goto(p, label, local)
  PROVE  pc' \in [Procs -> Labels] /\ mem' \in [Procs -> Memory]
  BY DEF TypeOK, Goto

(* So does one that ends.                                                  *)
LEMMA FinishType ==
  ASSUME TypeOK, NEW p \in Procs, Finish(p)
  PROVE  pc' \in [Procs -> Labels] /\ mem' \in [Procs -> Memory]
  BY BlankType, GotoType DEF Finish, Labels

(* The first run queued, with a live outcome or a dry run's, has the       *)
(* types.                                                                  *)
LEMMA InitType == Init => TypeOK
  <1> SUFFICES ASSUME Init PROVE TypeOK
    OBVIOUS
  <1>1. outcome \in OutcomeRow
    <2>1. PICK t \in Triggers : outcome = [NoOutcome EXCEPT !.trigger = t,
                      !.status = IF t = "dry_run" THEN "running" ELSE "none",
                      !.attempts = IF t = "dry_run" THEN 1 ELSE 0]
      BY DEF Init
    <2> QED
      BY <2>1, BlankType, SpecAssumption DEF OutcomeRow, Status
  <1>2. runs \in [Runs -> RunRow]
    BY DEF Init, RunRow, RunStatus
  <1>3. pc \in [Procs -> Labels] /\ mem \in [Procs -> Memory]
    BY BlankType DEF Init, Labels
  <1>4. /\ action \in [Held -> ActionStatus] /\ restarts \in Nat
        /\ late \subseteq Held /\ faulted \in BOOLEAN
    BY DEF Init, ActionStatus
  <1> QED
    BY <1>1, <1>2, <1>3, <1>4 DEF TypeOK

(* Every kind of coroutine is a coroutine.                                 *)
LEMMA RunsAreProcs == /\ Runs \subseteq Procs /\ People \subseteq Procs
                      /\ Rechecks \subseteq Procs /\ Loop \in Procs /\ Boot \in Procs
  BY DEF Procs

(* begin_attempt, the container and finish_attempt keep the types.         *)
LEMMA RunType ==
  ASSUME TypeOK, NEW r \in Runs, Run(r)
  PROVE  TypeOK'
  <1> USE RunsAreProcs
  <1>1. CASE BeginAttached(r)
    BY <1>1, BlankType, GotoType DEF BeginAttached, Labels, TypeOK, db
  <1>2. CASE BeginCreate(r)
    <2>1. outcome' \in OutcomeRow
      BY <1>2 DEF BeginCreate, TypeOK, OutcomeRow, Status
    <2>2. [Blank EXCEPT !.run = r] \in Memory
      BY BlankType DEF Memory
    <2> QED
      BY <1>2, <2>1, <2>2, GotoType DEF BeginCreate, Labels, TypeOK
  <1>3. CASE RunStart(r)
    BY <1>3 DEF RunStart, TypeOK, RunRow, RunStatus
  <1>4. ASSUME NEW a \in Held, RunHold(r, a) PROVE TypeOK'
    BY <1>4 DEF RunHold, TypeOK, ActionStatus
  <1>5. ASSUME NEW s \in {"succeeded", "failed"}, RunEnd(r, s) PROVE TypeOK'
    <2>1. runs' \in [Runs -> RunRow]
      BY <1>5 DEF RunEnd, TypeOK, RunRow, RunStatus
    <2>2. VerifyCall(OrOne(runs[r].attempt), TRUE) \in Memory
      BY BlankType DEF VerifyCall, Memory, OrOne, TypeOK, RunRow
    <2> QED
      BY <1>5, <2>1, <2>2, GotoType DEF RunEnd, Labels, TypeOK
  <1>6. CASE RunEarlyExit(r)
    BY <1>6, FinishType DEF RunEarlyExit, TypeOK, RunRow, RunStatus
  <1> QED
    BY <1>1, <1>2, <1>3, <1>4, <1>5, <1>6 DEF Run

(* A call held by a request that outlived its container keeps the types.   *)
LEMMA LateType ==
  ASSUME TypeOK, NEW a \in Held, LateHold(a)
  PROVE  TypeOK'
  BY DEF LateHold, TypeOK, ActionStatus

(* Fields of a coroutine's memory, and of the rows, keep their types.      *)
LEMMA MemoryFields ==
  ASSUME TypeOK, NEW p \in Procs
  PROVE  /\ mem[p] \in Memory
         /\ mem[p].seen \in OutcomeRow
         /\ mem[p].seen.receipt \in Receipt
         /\ mem[p].seen.attempts \in Nat
         /\ mem[p].seen.log \in Seq(Entry)
         /\ mem[p].attempt \in Nat
         /\ mem[p].held \in SUBSET Held /\ mem[p].call \in SUBSET Held
         /\ mem[p].auto \in {"none", "pass", "fail", "unavailable"}
         /\ outcome \in OutcomeRow
         /\ outcome.attempts \in Nat
  BY DEF TypeOK, Memory, OutcomeRow

(* The arguments of verify_outcome are typed.                              *)
LEMMA VerifyCallType ==
  ASSUME NEW n \in Nat, NEW recover \in BOOLEAN
  PROVE  VerifyCall(n, recover) \in Memory /\ VerifyCall(OrOne(n), recover) \in Memory
  BY BlankType DEF VerifyCall, Memory, OrOne

(* What a verification writes as the receipt is a receipt.                 *)
LEMMA ReceiptType ==
  ASSUME TypeOK, NEW p \in Procs
  PROVE  ReceiptOf(mem[p]) \in Receipt
  BY MemoryFields DEF ReceiptOf, Receipt

(* A log extended by one decision is a log.                                *)
LEMMA AppendType ==
  ASSUME NEW log \in Seq(Entry), NEW n \in Nat, NEW class \in Classes, NEW step \in Steps
  PROVE  Append(log, [attempt |-> n, class |-> class, step |-> step]) \in Seq(Entry)
  BY DEF Entry

(* link_run_to_outcome keeps the types.                                    *)
LEMMA LinkType ==
  ASSUME TypeOK, NEW p \in Procs, LinkRead(p) \/ LinkWrite(p)
  PROVE  TypeOK'
  <1> USE MemoryFields
  <1>1. CASE LinkRead(p)
    <2>1. [mem[p] EXCEPT !.attempt = NextAttempt] \in Memory
      BY DEF Memory, NextAttempt
    <2> QED
      BY <1>1, <2>1, GotoType DEF LinkRead, Labels, TypeOK, db
  <1>2. CASE LinkWrite(p)
    <2>1. outcome' \in OutcomeRow
      BY <1>2 DEF LinkWrite, OutcomeRow
    <2>2. runs' \in [Runs -> RunRow]
      BY <1>2 DEF LinkWrite, TypeOK, RunRow
    <2>3. pc' \in [Procs -> Labels] /\ mem' \in [Procs -> Memory]
      BY <1>2, BlankType, GotoType DEF LinkWrite, Labels
    <2> QED
      BY <1>2, <2>1, <2>2, <2>3 DEF LinkWrite, TypeOK
  <1> QED
    BY <1>1, <1>2

(* The write that ends a failed verification keeps the types.              *)
LEMMA WriteDecisionType ==
  ASSUME TypeOK, NEW p \in Procs, NEW class \in Classes,
         NEW step \in {"retry", "reverify", "needs_you", "gave_up"},
         WriteDecision(p, class, step)
  PROVE  TypeOK'
  <1> USE MemoryFields
  <1>1. StatusAfter(step) \in Status /\ Dates(step) \in BOOLEAN
    BY DEF StatusAfter, Dates, Status
  <1>2. Append(mem[p].seen.log, [attempt |-> OrOne(mem[p].seen.attempts),
                                 class |-> class, step |-> step]) \in Seq(Entry)
    BY AppendType DEF OrOne, Steps
  <1>3. outcome' \in OutcomeRow
    BY <1>1, <1>2, ReceiptType DEF WriteDecision, OutcomeRow
  <1> QED
    BY <1>3, FinishType DEF WriteDecision, TypeOK

(* _decide answers with one of three steps.                                *)
LEMMA DecideType ==
  ASSUME NEW o, NEW class, NEW c \in BOOLEAN, NEW m \in BOOLEAN
  PROVE  Decide(o, class, c, m) \in {"retry", "needs_you", "gave_up"}
  BY DEF Decide

(* Every step of verify_outcome and deliver_outcome keeps the types.       *)
LEMMA VerifyType ==
  ASSUME TypeOK, NEW p \in Procs, Verify(p)
  PROVE  TypeOK'
  <1> USE MemoryFields
  <1>1. CASE VerifyRead(p)
    <2>1. PICK r \in Runs \cup {NoRun}, n \in Nat :
             Goto(p, "mark", [mem[p] EXCEPT !.seen = outcome, !.run = r,
                                            !.attempt = n, !.recover = MayRecover(p)])
      BY <1>1 DEF VerifyRead, OrOne
    <2>2. MayRecover(p) \in BOOLEAN
      BY DEF MayRecover, Live, Memory
    <2>3. [mem[p] EXCEPT !.seen = outcome, !.run = r,
                         !.attempt = n, !.recover = MayRecover(p)] \in Memory
      BY <2>2 DEF Memory
    <2> QED
      BY <1>1, <2>1, <2>3, GotoType DEF VerifyRead, Labels, TypeOK, db
  <1>2. CASE VerifyMark(p)
    <2>1. outcome' \in OutcomeRow
      BY <1>2 DEF VerifyMark, OutcomeRow, Status
    <2>2. (IF mem[p].run = NoRun THEN "none" ELSE runs[mem[p].run].status) \in RunStatus
      BY DEF TypeOK, Memory, RunRow, RunStatus
    <2>3. [mem[p] EXCEPT !.run = NoRun,
             !.ran = IF mem[p].run = NoRun THEN "none" ELSE runs[mem[p].run].status]
               \in Memory
      BY <2>2 DEF Memory
    <2> QED
      BY <1>2, <2>1, <2>3, GotoType DEF VerifyMark, Labels, TypeOK
  <1>3. ASSUME NEW auto \in CheckOutcomes, VerifyCheck(p, auto) PROVE TypeOK'
    <2>0. /\ Listed(mem[p].seen) \in SUBSET Held
          /\ auto \in {"none", "pass", "fail", "unavailable"}
      BY SpecAssumption DEF Listed, HeldNow
    <2>1. [mem[p] EXCEPT !.auto = auto, !.held = Listed(mem[p].seen)] \in Memory
      BY <2>0 DEF Memory
    <2> QED
      BY <1>3, <2>1, GotoType DEF VerifyCheck, Labels, TypeOK, db
  <1>4. CASE SettleAwaiting(p)
    <2>1. outcome' \in OutcomeRow
      BY <1>4, ReceiptType DEF SettleAwaiting, OutcomeRow, Status
    <2> QED
      BY <1>4, <2>1, FinishType DEF SettleAwaiting, TypeOK
  <1>5. CASE SettleDelivered(p)
    <2>1. outcome' \in OutcomeRow
      BY <1>5, ReceiptType DEF SettleDelivered, OutcomeRow, Status
    <2> QED
      BY <1>5, <2>1, BlankType, GotoType DEF SettleDelivered, Labels, TypeOK
  <1>6. CASE SettleNoRecovery(p)
    <2>1. outcome' \in OutcomeRow
      BY <1>6, ReceiptType DEF SettleNoRecovery, OutcomeRow, Status
    <2> QED
      BY <1>6, <2>1, FinishType DEF SettleNoRecovery, TypeOK
  <1>7. CASE SettleFailed(p)
    <2>1. Diagnoses(mem[p].ran) \subseteq Classes
      BY SpecAssumption DEF Diagnoses, Classes, FailureClasses
    <2> QED
      BY <1>7, <2>1, DecideType, WriteDecisionType DEF SettleFailed
  <1>8. CASE SettleUnavailable(p)
    BY <1>8, WriteDecisionType DEF SettleUnavailable, Classes
  <1>9. CASE VerifyRaises(p)
    BY <1>9, FinishType DEF VerifyRaises, TypeOK, db
  <1>10. CASE DeliverRead(p)
    <2>1. [Blank EXCEPT !.seen = outcome] \in Memory
      BY BlankType DEF Memory
    <2> QED
      BY <1>10, <2>1, GotoType, FinishType DEF DeliverRead, Labels, TypeOK, db
  <1>11. CASE DeliverReceipt(p)
    <2>1. outcome' \in OutcomeRow
      BY <1>11 DEF DeliverReceipt, OutcomeRow
    <2> QED
      BY <1>11, <2>1, FinishType DEF DeliverReceipt, TypeOK
  <1> QED
    BY <1>1, <1>2, <1>3, <1>4, <1>5, <1>6, <1>7, <1>8, <1>9, <1>10, <1>11 DEF Verify

(* _launch_next_attempt keeps the types.                                   *)
LEMMA LaunchType ==
  ASSUME TypeOK, NEW p \in Procs, Launch(p)
  PROVE  TypeOK'
  <1> USE MemoryFields
  <1>1. CASE LaunchRefused(p)
    <2>1. outcome' \in OutcomeRow
      BY <1>1 DEF LaunchRefused, OutcomeRow, Status
    <2> QED
      BY <1>1, <2>1, FinishType DEF LaunchRefused, TypeOK
  <1>2. CASE LaunchCreate(p)
    <2>1. PICK r \in Runs : /\ runs' = [runs EXCEPT ![r].status = "queued"]
                            /\ Goto(p, "link", [Blank EXCEPT !.run = r])
      BY <1>2 DEF LaunchCreate
    <2>2. [Blank EXCEPT !.run = r] \in Memory
      BY BlankType DEF Memory
    <2>3. runs' \in [Runs -> RunRow]
      BY <2>1 DEF TypeOK, RunRow, RunStatus
    <2> QED
      BY <1>2, <2>1, <2>2, <2>3, GotoType DEF LaunchCreate, Labels, TypeOK
  <1>3. CASE LaunchStart(p)
    <2>1. outcome' \in OutcomeRow
      BY <1>3 DEF LaunchStart, OutcomeRow, Status
    <2>2. pc' \in [Procs -> Labels] /\ mem' \in [Procs -> Memory]
      BY <1>3, BlankType DEF LaunchStart, Labels, TypeOK
    <2> QED
      BY <1>3, <2>1, <2>2 DEF LaunchStart, TypeOK
  <1> QED
    BY <1>1, <1>2, <1>3 DEF Launch

(* A tick of the recovery loop keeps the types.                            *)
LEMMA LoopType ==
  ASSUME TypeOK, LoopTick \/ \E t \in Rechecks : LoopRecheck(t)
  PROVE  TypeOK'
  <1> USE MemoryFields, RunsAreProcs
  <1>1. CASE LoopTick
    <2>1. [Blank EXCEPT !.attempt = OrOne(outcome.attempts)] \in Memory
      BY BlankType DEF Memory, OrOne
    <2> QED
      BY <1>1, <2>1, BlankType, GotoType DEF LoopTick, Labels, TypeOK, db
  <1>2. ASSUME NEW t \in Rechecks, LoopRecheck(t) PROVE TypeOK'
    <2>1. outcome' \in OutcomeRow
      BY <1>2 DEF LoopRecheck, OutcomeRow, Status
    <2>2. VerifyCall(mem[Loop].attempt, TRUE) \in Memory
      BY VerifyCallType
    <2>3. pc' \in [Procs -> Labels] /\ mem' \in [Procs -> Memory]
      BY <1>2, <2>2, BlankType DEF LoopRecheck, Labels, TypeOK
    <2> QED
      BY <1>2, <2>1, <2>3 DEF LoopRecheck, TypeOK
  <1> QED
    BY <1>1, <1>2

(* A log extended by a person's entry is a log.                            *)
LEMMA LogWithType ==
  ASSUME TypeOK, NEW u \in Procs, NEW n \in Nat, NEW step \in Steps
  PROVE  LogWith(u, UserEntry(n, step)) \in Seq(Entry)
  BY MemoryFields, AppendType DEF LogWith, UserEntry, Classes

(* A retry asked for by a person keeps the types.                          *)
LEMMA RetryNowType ==
  ASSUME TypeOK, NEW u \in Procs, NEW n \in Nat, RetryNow(u, n)
  PROVE  TypeOK'
  <1>1. outcome' \in OutcomeRow
    BY MemoryFields, LogWithType DEF RetryNow, OutcomeRow, Status, Steps
  <1> QED
    BY <1>1, BlankType, GotoType DEF RetryNow, Labels, TypeOK

(* resolve() keeps the types.                                              *)
LEMMA ResolveType ==
  ASSUME TypeOK, NEW u \in People,
         \/ \E choice \in Resolutions : AskResolve(u, choice)
         \/ ResolveDismiss(u) \/ ResolveRecheck(u) \/ ResolveRetry(u)
  PROVE  TypeOK'
  <1> USE MemoryFields, RunsAreProcs
  <1>1. ASSUME NEW choice \in Resolutions, AskResolve(u, choice) PROVE TypeOK'
    <2>1. [Blank EXCEPT !.seen = outcome, !.choice = choice] \in Memory
      BY BlankType DEF Memory
    <2> QED
      BY <1>1, <2>1, GotoType DEF AskResolve, Labels, TypeOK, db
  <1>2. CASE ResolveDismiss(u)
    <2>1. outcome' \in OutcomeRow
      BY <1>2, LogWithType DEF ResolveDismiss, OutcomeRow, Status, Steps
    <2> QED
      BY <1>2, <2>1, FinishType DEF ResolveDismiss, TypeOK
  <1>3. CASE ResolveRecheck(u)
    <2>1. outcome' \in OutcomeRow
      BY <1>3, LogWithType DEF ResolveRecheck, OutcomeRow, Status, Steps
    <2>2. VerifyCall(OrOne(mem[u].seen.attempts), TRUE) \in Memory
      BY VerifyCallType
    <2> QED
      BY <1>3, <2>1, <2>2, GotoType DEF ResolveRecheck, Labels, TypeOK
  <1>4. CASE ResolveRetry(u)
    BY <1>4, RetryNowType DEF ResolveRetry
  <1> QED
    BY <1>1, <1>2, <1>3, <1>4

(* review() keeps the types, apart from its tool calls.                    *)
LEMMA ReviewType ==
  ASSUME TypeOK, NEW u \in People,
         \/ \E choice \in Decisions : AskReview(u, choice) \/ AskSpotCheck(u, choice)
         \/ ListHeld(u) \/ SpotVerdict(u)
         \/ ReviewApprove(u) \/ ReviewReject(u) \/ ReviewChanges(u) \/ ReviewRefused(u)
  PROVE  TypeOK'
  <1> USE MemoryFields, RunsAreProcs
  <1>1. ASSUME NEW choice \in Decisions, AskReview(u, choice) PROVE TypeOK'
    <2>1. [Blank EXCEPT !.seen = outcome, !.choice = choice] \in Memory
      BY BlankType DEF Memory
    <2> QED
      BY <1>1, <2>1, GotoType DEF AskReview, Labels, TypeOK, db
  <1>2. ASSUME NEW choice \in Decisions, AskSpotCheck(u, choice) PROVE TypeOK'
    <2>1. [Blank EXCEPT !.choice = choice] \in Memory
      BY BlankType DEF Memory
    <2> QED
      BY <1>2, <2>1, GotoType DEF AskSpotCheck, Labels, TypeOK, db
  <1>3. CASE ListHeld(u)
    <2>1. [mem[u] EXCEPT !.held = HeldNow] \in Memory
      BY DEF Memory, HeldNow
    <2> QED
      BY <1>3, <2>1, GotoType DEF ListHeld, Labels, TypeOK, db
  <1>4. CASE SpotVerdict(u)
    <2>1. outcome' \in OutcomeRow
      BY <1>4 DEF SpotVerdict, OutcomeRow
    <2> QED
      BY <1>4, <2>1, FinishType DEF SpotVerdict, TypeOK
  <1>5. CASE ReviewApprove(u)
    <2>1. LogWith(u, UserEntry(OrOne(mem[u].seen.attempts), "approved")) \in Seq(Entry)
      BY LogWithType DEF OrOne, Steps
    <2>2. [mem[u].seen.receipt EXCEPT !.human = IF @ = "pending" THEN "ok" ELSE @]
             \in Receipt
      BY DEF Receipt
    <2>3. outcome' \in OutcomeRow
      BY <1>5, <2>1, <2>2 DEF ReviewApprove, OutcomeRow, Status
    <2> QED
      BY <1>5, <2>3, BlankType, GotoType DEF ReviewApprove, Labels, TypeOK
  <1>6. CASE ReviewReject(u)
    <2>1. LogWith(u, UserEntry(OrOne(mem[u].seen.attempts), "rejected")) \in Seq(Entry)
      BY LogWithType DEF OrOne, Steps
    <2>2. outcome' \in OutcomeRow
      BY <1>6, <2>1 DEF ReviewReject, OutcomeRow, Status
    <2> QED
      BY <1>6, <2>2, FinishType DEF ReviewReject, TypeOK
  <1>7. CASE ReviewChanges(u)
    BY <1>7, RetryNowType DEF ReviewChanges, OrOne
  <1>8. CASE ReviewRefused(u)
    BY <1>8, FinishType DEF ReviewRefused, TypeOK, db
  <1> QED
    BY <1>1, <1>2, <1>3, <1>4, <1>5, <1>6, <1>7, <1>8

(* Claiming, running and rejecting held tool calls keeps the types.        *)
LEMMA CallType ==
  ASSUME TypeOK, NEW u \in People,
         \/ ClaimAction(u) \/ ClaimLost(u) \/ ApproveActions(u) \/ RejectAction(u)
         \/ \E status \in {"executed", "failed"} : EndCall(u, status)
  PROVE  TypeOK'
  <1> USE MemoryFields, RunsAreProcs
  <1>1. CASE ClaimAction(u)
    <2>1. PICK a \in mem[u].held :
             /\ action' = [action EXCEPT ![a] = "approved"]
             /\ Goto(u, "call", [mem[u] EXCEPT !.held = @ \ {a}, !.call = {a}])
      BY <1>1 DEF ClaimAction
    <2>2. [mem[u] EXCEPT !.held = @ \ {a}, !.call = {a}] \in Memory
      BY DEF Memory
    <2>3. action' \in [Held -> ActionStatus]
      BY <2>1 DEF TypeOK, ActionStatus
    <2> QED
      BY <1>1, <2>1, <2>2, <2>3, GotoType DEF ClaimAction, Labels, TypeOK
  <1>2. CASE ClaimLost(u)
    BY <1>2, FinishType DEF ClaimLost, TypeOK, db
  <1>3. CASE ApproveActions(u)
    <2>1. LogWith(u, UserEntry(OrOne(mem[u].seen.attempts), "approved")) \in Seq(Entry)
      BY LogWithType DEF OrOne, Steps
    <2>2. outcome' \in OutcomeRow
      BY <1>3, <2>1 DEF ApproveActions, OutcomeRow
    <2>3. VerifyCall(OrOne(mem[u].seen.attempts), TRUE) \in Memory
      BY VerifyCallType
    <2> QED
      BY <1>3, <2>2, <2>3, GotoType DEF ApproveActions, Labels, TypeOK
  <1>4. CASE RejectAction(u)
    <2>1. PICK a \in mem[u].held :
             /\ action' = [action EXCEPT ![a] = "rejected"]
             /\ Goto(u, "review", [mem[u] EXCEPT !.held = @ \ {a}])
      BY <1>4 DEF RejectAction
    <2>2. [mem[u] EXCEPT !.held = @ \ {a}] \in Memory
      BY DEF Memory
    <2>3. action' \in [Held -> ActionStatus]
      BY <2>1 DEF TypeOK, ActionStatus
    <2> QED
      BY <1>4, <2>1, <2>2, <2>3, GotoType DEF RejectAction, Labels, TypeOK
  <1>5. ASSUME NEW status \in {"executed", "failed"}, EndCall(u, status) PROVE TypeOK'
    <2>1. [mem[u] EXCEPT !.call = {}] \in Memory
      BY DEF Memory
    <2>2. action' \in [Held -> ActionStatus]
      BY <1>5 DEF EndCall, TypeOK, ActionStatus
    <2> QED
      BY <1>5, <2>1, <2>2, GotoType DEF EndCall, Labels, TypeOK
  <1> QED
    BY <1>1, <1>2, <1>3, <1>4, <1>5

(* Whatever a person asks for keeps the types.                             *)
LEMMA PersonType ==
  ASSUME TypeOK, NEW u \in People, Person(u)
  PROVE  TypeOK'
  <1> USE RunsAreProcs
  <1>1. CASE AskVerify(u)
    BY <1>1, VerifyCallType, GotoType DEF AskVerify, Labels, TypeOK, db
  <1>2. CASE Reload(u)
    BY <1>2, BlankType, GotoType DEF Reload, Labels, TypeOK, db
  <1> QED
    BY <1>1, <1>2, ResolveType, ReviewType, CallType DEF Person

(* A crash, and the resumption after it, keep the types.                   *)
LEMMA RestartType ==
  ASSUME TypeOK, Restart \/ Resume
  PROVE  TypeOK'
  <1> USE RunsAreProcs
  <1>1. CASE Restart
    <2>1. runs' \in [Runs -> RunRow]
      BY <1>1 DEF Restart, TypeOK, RunRow, RunStatus
    <2>2. pc' \in [Procs -> Labels] /\ mem' \in [Procs -> Memory]
      BY <1>1, BlankType DEF Restart, Labels
    <2>3. /\ late' \subseteq late /\ faulted' = FALSE /\ restarts' = restarts + 1
          /\ UNCHANGED <<outcome, action>>
      BY <1>1 DEF Restart
    <2>4. late' \subseteq Held /\ restarts' \in Nat
      BY <2>3 DEF TypeOK
    <2>5. UNCHANGED outcome /\ UNCHANGED action /\ faulted' \in BOOLEAN
      BY <2>3
    <2> QED
      BY <2>1, <2>2, <2>4, <2>5 DEF TypeOK
  <1>2. CASE Resume
    BY <1>2, VerifyCallType, GotoType, FinishType DEF Resume, Labels, TypeOK, db
  <1> QED
    BY <1>1, <1>2

(* Every row of the database and every coroutine's memory keeps its type.  *)
THEOREM TypeCorrect == Spec => []TypeOK
  <1>1. TypeOK /\ [Next]_vars => TypeOK'
    <2> SUFFICES ASSUME TypeOK, [Next]_vars PROVE TypeOK'
      OBVIOUS
    <2>1. CASE UNCHANGED vars
      BY <2>1 DEF vars, TypeOK
    <2>2. CASE Next
      BY <2>2, RunType, LateType, LinkType, VerifyType, LaunchType, LoopType, PersonType,
         RestartType DEF Next
    <2> QED
      BY <2>1, <2>2
  <1> QED
    BY <1>1, InitType, PTL DEF Spec

-----------------------------------------------------------------------------
(* Held tool calls.                                                        *)

(* A call in somebody's hands is approved, and in one person's hands only. *)
CallInv ==
    /\ \A p \in Procs : mem[p].call # {} => p \in People /\ pc[p] = "call"
    /\ \A p \in Procs : \A a \in mem[p].call : action[a] = "approved"
    /\ \A p, q \in Procs : mem[p].call \cap mem[q].call # {} => p = q

(* A coroutine goes on without a call in hand.                             *)
LEMMA CallStep ==
  ASSUME TypeOK, CallInv, NEW p \in Procs, NEW label, NEW local,
         Goto(p, label, local), local.call = {}, UNCHANGED action
  PROVE  CallInv'
  <1>1. \A q \in Procs : mem'[q].call # {} => q # p /\ mem'[q] = mem[q] /\ pc'[q] = pc[q]
    BY DEF Goto, TypeOK
  <1> QED
    BY <1>1 DEF CallInv

(* A coroutine ends without a call in hand.                                *)
LEMMA CallFinish ==
  ASSUME TypeOK, CallInv, NEW p \in Procs, Finish(p), UNCHANGED action
  PROVE  CallInv'
  BY CallStep, BlankType DEF Finish, Blank

(* Only execute_approved has a call in hand.                               *)
LEMMA EmptyHanded ==
  ASSUME TypeOK, CallInv, NEW p \in Procs, pc[p] # "call"
  PROVE  mem[p].call = {}
  BY DEF CallInv

(* A run may hold a new call, never one in somebody's hands.               *)
LEMMA CallRun ==
  ASSUME TypeOK, CallInv, NEW r \in Runs, Run(r)
  PROVE  CallInv'
  <1> USE RunsAreProcs
  <1>1. CASE BeginAttached(r)
    BY <1>1, CallStep, BlankType DEF BeginAttached, Blank, db
  <1>2. CASE BeginCreate(r)
    BY <1>2, CallStep DEF BeginCreate, Blank
  <1>3. CASE RunStart(r)
    BY <1>3 DEF RunStart, CallInv
  <1>4. ASSUME NEW a \in Held, RunHold(r, a) PROVE CallInv'
    <2>1. \A p \in Procs : a \notin mem[p].call
      BY <1>4 DEF RunHold, CallInv
    <2>2. \A p \in Procs : mem[p].call \subseteq Held
      BY MemoryFields
    <2> QED
      BY <1>4, <2>1, <2>2 DEF RunHold, CallInv, TypeOK
  <1>5. ASSUME NEW s \in {"succeeded", "failed"}, RunEnd(r, s) PROVE CallInv'
    BY <1>5, CallStep DEF RunEnd, VerifyCall, Blank
  <1>6. CASE RunEarlyExit(r)
    BY <1>6, CallFinish DEF RunEarlyExit
  <1> QED
    BY <1>1, <1>2, <1>3, <1>4, <1>5, <1>6 DEF Run

(* Nor does a request that outlived its container hold such a call.        *)
LEMMA CallLate ==
  ASSUME TypeOK, CallInv, NEW a \in Held, LateHold(a)
  PROVE  CallInv'
  <1>1. \A p \in Procs : a \notin mem[p].call /\ mem[p].call \subseteq Held
    BY MemoryFields DEF LateHold, CallInv
  <1> QED
    BY <1>1 DEF LateHold, CallInv, TypeOK

(* Verifying, delivering and launching leave calls alone.                  *)
LEMMA CallVerify ==
  ASSUME TypeOK, CallInv, NEW p \in Procs,
         Verify(p) \/ LinkRead(p) \/ LinkWrite(p) \/ Launch(p)
  PROVE  CallInv'
  <1> USE EmptyHanded, MemoryFields
  <1>1. CASE VerifyRead(p)
    <2>1. PICK r \in Runs \cup {NoRun}, n \in Nat :
             Goto(p, "mark", [mem[p] EXCEPT !.seen = outcome, !.run = r,
                                            !.attempt = n, !.recover = MayRecover(p)])
      BY <1>1 DEF VerifyRead, OrOne
    <2> QED
      BY <1>1, <2>1, CallStep DEF VerifyRead, Memory, db
  <1>2. CASE VerifyMark(p)
    BY <1>2, CallStep DEF VerifyMark, Memory
  <1>3. ASSUME NEW auto \in CheckOutcomes, VerifyCheck(p, auto) PROVE CallInv'
    BY <1>3, CallStep DEF VerifyCheck, Memory, db
  <1>4. CASE SettleDelivered(p)
    BY <1>4, CallStep DEF SettleDelivered, Blank
  <1>5. CASE DeliverRead(p)
    BY <1>5, CallStep, CallFinish DEF DeliverRead, Blank, db
  <1>6. CASE \/ SettleAwaiting(p) \/ SettleNoRecovery(p) \/ VerifyRaises(p)
             \/ DeliverReceipt(p) \/ LaunchRefused(p)
    BY <1>6, CallFinish
       DEF SettleAwaiting, SettleNoRecovery, VerifyRaises, DeliverReceipt, LaunchRefused, db
  <1>7. CASE SettleFailed(p) \/ SettleUnavailable(p)
    BY <1>7, CallFinish DEF SettleFailed, SettleUnavailable, WriteDecision
  <1>8. CASE LinkRead(p)
    BY <1>8, CallStep DEF LinkRead, Memory, db
  <1>9. CASE LinkWrite(p)
    BY <1>9, CallStep DEF LinkWrite, Blank
  <1>10. CASE LaunchCreate(p)
    BY <1>10, CallStep DEF LaunchCreate, Blank
  <1>11. CASE LaunchStart(p)
    <2>1. \A q \in Procs : mem'[q].call # {} => mem'[q] = mem[q] /\ q # p
      BY <1>11 DEF LaunchStart, Blank, TypeOK
    <2>2. mem[p].run \in Runs \cup {NoRun}
      BY DEF Memory
    <2>3. \A q \in People : q # mem[p].run
      BY <2>2, ProcsAssumption, RunsAreProcs
    <2>4. \A q \in People : q # p => pc'[q] = pc[q]
      BY <1>11, <2>3, RunsAreProcs DEF LaunchStart, TypeOK
    <2> QED
      BY <1>11, <2>1, <2>4 DEF LaunchStart, CallInv
  <1> QED
    BY <1>1, <1>2, <1>3, <1>4, <1>5, <1>6, <1>7, <1>8, <1>9, <1>10, <1>11
       DEF Verify, Launch

(* So do the recovery loop, a crash and the resumption after it.           *)
LEMMA CallLoop ==
  ASSUME TypeOK, CallInv,
         LoopTick \/ (\E t \in Rechecks : LoopRecheck(t)) \/ Restart \/ Resume
  PROVE  CallInv'
  <1> USE RunsAreProcs
  <1>1. CASE LoopTick
    BY <1>1, CallStep DEF LoopTick, Blank, db
  <1>2. ASSUME NEW t \in Rechecks, LoopRecheck(t) PROVE CallInv'
    <2>1. \A q \in Procs : mem'[q].call # {} => mem'[q] = mem[q] /\ q # t /\ q # Loop
      BY <1>2 DEF LoopRecheck, Blank, VerifyCall, TypeOK
    <2>2. \A q \in Procs : q # t /\ q # Loop => pc'[q] = pc[q]
      BY <1>2 DEF LoopRecheck, TypeOK
    <2> QED
      BY <1>2, <2>1, <2>2 DEF LoopRecheck, CallInv
  <1>3. CASE Restart
    BY <1>3 DEF Restart, CallInv, Blank
  <1>4. CASE Resume
    BY <1>4, CallStep, CallFinish DEF Resume, VerifyCall, Blank, db
  <1> QED
    BY <1>1, <1>2, <1>3, <1>4

(* A person takes a call by claiming it, which nobody else can then do.    *)
LEMMA CallPerson ==
  ASSUME TypeOK, CallInv, NEW u \in People, Person(u)
  PROVE  CallInv'
  <1> USE RunsAreProcs, EmptyHanded, MemoryFields
  <1>1. CASE AskVerify(u)
    BY <1>1, CallStep DEF AskVerify, VerifyCall, Blank, db
  <1>2. ASSUME NEW choice, AskResolve(u, choice) PROVE CallInv'
    BY <1>2, CallStep DEF AskResolve, Blank, db
  <1>3. CASE ResolveDismiss(u)
    BY <1>3, CallFinish DEF ResolveDismiss
  <1>4. CASE ResolveRecheck(u)
    BY <1>4, CallStep DEF ResolveRecheck, VerifyCall, Blank
  <1>5. CASE ResolveRetry(u) \/ ReviewChanges(u)
    BY <1>5, CallStep DEF ResolveRetry, ReviewChanges, RetryNow, Blank
  <1>6. ASSUME NEW choice, AskReview(u, choice) \/ AskSpotCheck(u, choice)
        PROVE CallInv'
    BY <1>6, CallStep DEF AskReview, AskSpotCheck, Blank, db
  <1>7. CASE ListHeld(u)
    BY <1>7, CallStep DEF ListHeld, Memory, db
  <1>8. CASE SpotVerdict(u) \/ ClaimLost(u) \/ ReviewReject(u) \/ ReviewRefused(u)
    BY <1>8, CallFinish DEF SpotVerdict, ClaimLost, ReviewReject, ReviewRefused, db
  <1>9. CASE ClaimAction(u)
    <2>1. PICK a \in mem[u].held :
             /\ action[a] = "held"
             /\ action' = [action EXCEPT ![a] = "approved"]
             /\ Goto(u, "call", [mem[u] EXCEPT !.held = @ \ {a}, !.call = {a}])
      BY <1>9 DEF ClaimAction, Claimable
    <2>2. \A q \in Procs : a \notin mem[q].call
      BY <2>1 DEF CallInv
    <2>3. mem'[u].call = {a} /\ pc'[u] = "call"
      BY <2>1 DEF Goto, TypeOK, Memory
    <2>4. \A q \in Procs : q # u => mem'[q] = mem[q] /\ pc'[q] = pc[q]
      BY <2>1 DEF Goto, TypeOK
    <2>5. \A b \in Held : action'[b] = IF b = a THEN "approved" ELSE action[b]
      BY <2>1 DEF TypeOK
    <2>6. \A q \in Procs : mem[q].call \subseteq Held
      OBVIOUS
    <2>7. \A q \in Procs : \A b \in mem'[q].call : action'[b] = "approved"
      BY <2>2, <2>3, <2>4, <2>5, <2>6 DEF CallInv
    <2>8. \A q \in Procs : mem'[q].call # {} => q \in People /\ pc'[q] = "call"
      BY <2>3, <2>4 DEF CallInv
    <2>9. \A q, v \in Procs : mem'[q].call \cap mem'[v].call # {} => q = v
      BY <2>2, <2>3, <2>4 DEF CallInv
    <2> QED
      BY <2>7, <2>8, <2>9 DEF CallInv
  <1>10. ASSUME NEW status, EndCall(u, status) PROVE CallInv'
    <2>1. mem'[u].call = {}
      BY <1>10 DEF EndCall, Goto, TypeOK, Memory
    <2>2. \A q \in Procs : q # u => mem'[q] = mem[q] /\ pc'[q] = pc[q]
      BY <1>10 DEF EndCall, Goto, TypeOK
    <2>3. \A b \in Held : b \notin mem[u].call => action'[b] = action[b]
      BY <1>10 DEF EndCall
    <2> QED
      BY <2>1, <2>2, <2>3 DEF CallInv
  <1>11. CASE ApproveActions(u)
    BY <1>11, CallStep DEF ApproveActions, VerifyCall, Blank
  <1>12. CASE RejectAction(u)
    <2>1. PICK a \in mem[u].held :
             /\ action[a] = "held"
             /\ action' = [action EXCEPT ![a] = "rejected"]
             /\ Goto(u, "review", [mem[u] EXCEPT !.held = @ \ {a}])
      BY <1>12 DEF RejectAction, Claimable
    <2>2. \A q \in Procs : a \notin mem[q].call
      BY <2>1 DEF CallInv
    <2>3. mem'[u].call = {}
      <3>1. mem[u].call = {}
        BY <1>12 DEF RejectAction
      <3>2. mem'[u] = [mem[u] EXCEPT !.held = @ \ {a}]
        BY <2>1 DEF Goto, TypeOK
      <3> QED
        BY <3>1, <3>2 DEF Memory
    <2>4. \A q \in Procs : q # u => mem'[q] = mem[q] /\ pc'[q] = pc[q]
      BY <2>1 DEF Goto, TypeOK
    <2>5. \A b \in Held : b # a => action'[b] = action[b]
      BY <2>1 DEF TypeOK
    <2> QED
      BY <2>2, <2>3, <2>4, <2>5 DEF CallInv
  <1>13. CASE ReviewApprove(u)
    BY <1>13, CallStep DEF ReviewApprove, Blank
  <1>14. CASE Reload(u)
    BY <1>14, CallStep DEF Reload, Blank, db
  <1> QED
    BY <1>1, <1>2, <1>3, <1>4, <1>5, <1>6, <1>7, <1>8, <1>9, <1>10, <1>11, <1>12,
       <1>13, <1>14 DEF Person

(* A call in somebody's hands is approved and in no other hands: the claim *)
(* of execute_approved (set_action with only_if) is atomic.                *)
THEOREM CallsAreOwned == Spec => []CallInv
  <1>1. Init => CallInv
    BY DEF Init, CallInv, Blank
  <1>2. TypeOK /\ CallInv /\ [Next]_vars => CallInv'
    <2> SUFFICES ASSUME TypeOK, CallInv, [Next]_vars PROVE CallInv'
      OBVIOUS
    <2>1. CASE UNCHANGED vars
      BY <2>1 DEF vars, CallInv
    <2>2. CASE Next
      BY <2>2, CallRun, CallLate, CallVerify, CallLoop, CallPerson DEF Next
    <2> QED
      BY <2>1, <2>2
  <1> QED
    BY <1>1, <1>2, TypeCorrect, PTL DEF Spec

(* A held tool call is executed by one person only, however many reviewers *)
(* listed it.                                                              *)
THEOREM OneExecutorAlways == Spec => []OneExecutor
  <1>1. CallInv => OneExecutor
    BY RunsAreProcs DEF CallInv, OneExecutor
  <1> QED
    BY <1>1, CallsAreOwned, PTL

(* Only a hold, a claim, a rejection and the end of a call write a call.   *)
LEMMA ActionWrites ==
  ASSUME TypeOK, CallInv, Next, NEW a \in Held, action'[a] # action[a]
  PROVE  action[a] \in {"none", "held", "approved"}
  <1> USE RunsAreProcs
  <1>1. UNCHANGED action \/ (\E r \in Runs, b \in Held : RunHold(r, b))
        \/ (\E b \in Held : LateHold(b))
        \/ \E u \in People : \/ ClaimAction(u) \/ RejectAction(u)
                             \/ \E s \in {"executed", "failed"} : EndCall(u, s)
    <2>1. ASSUME NEW r \in Runs, Run(r)
          PROVE  UNCHANGED action \/ \E b \in Held : RunHold(r, b)
      BY <2>1 DEF Run, BeginAttached, BeginCreate, RunStart, RunEnd, RunEarlyExit, db
    <2>2. ASSUME NEW p \in Procs, LinkRead(p) \/ LinkWrite(p) \/ Verify(p) \/ Launch(p)
          PROVE  UNCHANGED action
      BY <2>2 DEF LinkRead, LinkWrite, Verify, VerifyRead, VerifyMark, VerifyCheck,
         SettleAwaiting, SettleDelivered, SettleNoRecovery, SettleFailed,
         SettleUnavailable, WriteDecision, VerifyRaises, DeliverRead, DeliverReceipt,
         Launch, LaunchRefused, LaunchCreate, LaunchStart, db
    <2>3. ASSUME LoopTick \/ (\E t \in Rechecks : LoopRecheck(t)) \/ Restart \/ Resume
          PROVE  UNCHANGED action
      BY <2>3 DEF LoopTick, LoopRecheck, Restart, Resume, db
    <2>4. ASSUME NEW u \in People, Person(u)
          PROVE  UNCHANGED action \/ ClaimAction(u) \/ RejectAction(u)
                 \/ \E s \in {"executed", "failed"} : EndCall(u, s)
      BY <2>4 DEF Person, AskVerify, AskResolve, ResolveDismiss, ResolveRecheck,
         ResolveRetry, RetryNow, AskReview, AskSpotCheck, ListHeld, SpotVerdict,
         ClaimLost, ApproveActions, ReviewApprove, ReviewReject, ReviewChanges,
         ReviewRefused, Reload, db
    <2> QED
      BY <2>1, <2>2, <2>3, <2>4 DEF Next
  <1>2. ASSUME NEW b \in Held, LateHold(b) \/ \E r \in Runs : RunHold(r, b)
        PROVE  action[a] = "none"
    BY <1>2 DEF RunHold, LateHold, TypeOK
  <1>3. ASSUME NEW u \in People, ClaimAction(u) \/ RejectAction(u)
        PROVE  action[a] = "held"
    BY <1>3, MemoryFields DEF ClaimAction, RejectAction, Claimable, TypeOK
  <1>4. ASSUME NEW u \in People, NEW s \in {"executed", "failed"}, EndCall(u, s)
        PROVE  action[a] = "approved"
    BY <1>4 DEF EndCall, CallInv
  <1> QED
    BY <1>1, <1>2, <1>3, <1>4

(* A tool call that ran or was refused keeps that record.                  *)
THEOREM DecidedCallsAreKept == Spec => DecidedCallsStay
  <1> DEFINE Kept == \A a \in Held : action[a] \in {"executed", "failed", "rejected"}
                                       => action'[a] = action[a]
  <1>1. TypeOK /\ CallInv /\ [Next]_vars => [Kept]_vars
    BY ActionWrites
  <1>2. [][Kept]_vars <=> DecidedCallsStay
    BY DEF DecidedCallsStay
  <1> QED
    BY <1>1, <1>2, TypeCorrect, CallsAreOwned, PTL DEF Spec

-----------------------------------------------------------------------------
(* The row of the outcome.                                                 *)

Bothering == {"recovering", "needs_you", "awaiting_approval"}
Answering == {"resolve", "held", "review", "call", "approved", "reload",
              "launch", "recheck"}
Checking  == {"mark", "check", "settle"}
GateOn    == ApproveGate /\ Live(outcome)
NoManual  == "verify" \notin Requests

(* What a coroutine may hold in its variables at a label.                  *)
Sound(label, local) ==
    /\ label \in Answering => Live(outcome)
    /\ label = "verify" /\ NoManual => local.recover
    /\ label \in Checking =>
         /\ local.seen.trigger = outcome.trigger
         /\ local.recover => Live(outcome)
         /\ NoManual /\ ~local.recover => ~Live(outcome)
         /\ local.seen.status \in Bothering => Live(outcome)
    /\ label = "settle" /\ local.held # {} => Live(outcome)
    /\ label \in {"held", "review", "call"} /\ GateOn
         => local.seen.receipt.human \in {"pending", "ok"}
    /\ label = "receipt" /\ GateOn => local.seen.receipt.human = "ok"

(* What the rows satisfy meanwhile.                                        *)
RowInv ==
    /\ ~Live(outcome) => outcome.status \notin Bothering
    /\ NoManual => RecoveringIsScheduled
    /\ GateOn /\ outcome.status = "delivered" => outcome.receipt.human = "ok"
    /\ GateOn /\ outcome.status = "awaiting_approval"
         => outcome.receipt.human \in {"pending", "ok"}

OneRunWhenDry == ~Live(outcome) => \A r \in Runs : runs[r].status # "none" => r = FirstRun

AllSound == \A p \in Procs : Sound(pc[p], mem[p])

IInv == TypeOK /\ RowInv /\ OneRunWhenDry /\ AllSound

(* A coroutine goes on, and what it carries to its next label is sound.    *)
LEMMA SoundStep ==
  ASSUME TypeOK, AllSound, NEW p \in Procs, NEW label, NEW local,
         Goto(p, label, local), outcome'.trigger = outcome.trigger,
         Sound(label, local)
  PROVE  AllSound'
  <1>1. \A q \in Procs : Sound(pc'[q], mem'[q])
    BY DEF Goto, TypeOK, AllSound
  <1> QED
    BY <1>1 DEF AllSound, Sound, Live, GateOn, NoManual

(* A coroutine that carries nothing is sound at every label it may go to.  *)
LEMMA SoundBlank ==
  ASSUME NEW label, label \notin Answering \cup Checking \cup {"verify", "receipt"},
         NEW local
  PROVE  Sound(label, local)
  BY DEF Sound, Answering, Checking

(* A coroutine that ends leaves the others as sound as they were.          *)
LEMMA SoundFinish ==
  ASSUME TypeOK, AllSound, NEW p \in Procs, Finish(p),
         outcome'.trigger = outcome.trigger
  PROVE  AllSound'
  <1>1. Sound("idle", Blank)
    BY SoundBlank DEF Answering, Checking
  <1> QED
    BY <1>1, SoundStep DEF Finish

(* A verification that may recover is sound when it begins.                *)
LEMMA SoundVerify ==
  ASSUME NEW n
  PROVE  Sound("verify", VerifyCall(n, TRUE))
  BY DEF Sound, Answering, Checking, VerifyCall, Blank

(* The row's invariant only reads the row.                                 *)
LEMMA SameRow ==
  ASSUME RowInv, UNCHANGED outcome
  PROVE  RowInv'
  BY DEF RowInv, RecoveringIsScheduled, Live, GateOn, NoManual

(* Of the row, it reads the trigger, the status, the due time and the      *)
(* receipt.                                                                *)
LEMMA SameFields ==
  ASSUME RowInv, outcome'.trigger = outcome.trigger, outcome'.status = outcome.status,
         outcome'.due = outcome.due, outcome'.receipt = outcome.receipt
  PROVE  RowInv'
  BY DEF RowInv, RecoveringIsScheduled, Live, GateOn, NoManual

(* Three of the statuses promise nothing.                                  *)
LEMMA QuietRow ==
  ASSUME outcome'.status \in {"running", "verifying", "failed"}
  PROVE  RowInv'
  BY DEF RowInv, RecoveringIsScheduled, Bothering

(* An unchanged kind of outcome and unchanged runs keep a dry run single.  *)
LEMMA SameRuns ==
  ASSUME OneRunWhenDry, outcome'.trigger = outcome.trigger,
         \A r \in Runs : runs[r].status = "none" => runs'[r].status = "none"
  PROVE  OneRunWhenDry'
  BY DEF OneRunWhenDry, Live

(* What each coroutine carries is sound.                                   *)
LEMMA SoundOf ==
  ASSUME AllSound, NEW p \in Procs
  PROVE  Sound(pc[p], mem[p])
  BY DEF AllSound

(* begin_attempt, the container and finish_attempt keep the invariant.     *)
LEMMA RunKeeps ==
  ASSUME IInv, NEW r \in Runs, Run(r)
  PROVE  RowInv' /\ OneRunWhenDry' /\ AllSound'
  <1> USE RunsAreProcs DEF IInv
  <1>1. CASE BeginAttached(r)
    BY <1>1, SoundStep, SoundBlank, SameRow, SameRuns
       DEF BeginAttached, Answering, Checking, db
  <1>2. CASE BeginCreate(r)
    <2>1. outcome'.trigger = outcome.trigger /\ outcome'.status = "running"
      BY <1>2, MemoryFields DEF BeginCreate, OutcomeRow
    <2> QED
      BY <1>2, <2>1, QuietRow, SoundStep, SoundBlank, SameRuns
         DEF BeginCreate, Answering, Checking
  <1>3. CASE RunStart(r)
    <2>1. \A s \in Runs : runs[s].status = "none" => runs'[s].status = "none"
      BY <1>3 DEF RunStart, TypeOK, RunRow
    <2>2. AllSound'
      BY <1>3 DEF RunStart, AllSound, Sound, Live, GateOn, NoManual
    <2> QED
      BY <1>3, <2>1, <2>2, SameRow, SameRuns DEF RunStart
  <1>4. ASSUME NEW a \in Held, RunHold(r, a)
        PROVE  RowInv' /\ OneRunWhenDry' /\ AllSound'
    <2>1. AllSound'
      BY <1>4 DEF RunHold, AllSound, Sound, Live, GateOn, NoManual
    <2> QED
      BY <1>4, <2>1, SameRow, SameRuns DEF RunHold
  <1>5. ASSUME NEW s \in {"succeeded", "failed"}, RunEnd(r, s)
        PROVE  RowInv' /\ OneRunWhenDry' /\ AllSound'
    <2>1. \A q \in Runs : runs[q].status = "none" => runs'[q].status = "none"
      BY <1>5 DEF RunEnd, TypeOK, RunRow
    <2> QED
      BY <1>5, <2>1, SoundStep, SoundVerify, SameRow, SameRuns DEF RunEnd
  <1>6. CASE RunEarlyExit(r)
    <2>1. \A q \in Runs : runs[q].status = "none" => runs'[q].status = "none"
      BY <1>6 DEF RunEarlyExit, TypeOK, RunRow
    <2> QED
      BY <1>6, <2>1, SoundFinish, SameRow, SameRuns DEF RunEarlyExit
  <1> QED
    BY <1>1, <1>2, <1>3, <1>4, <1>5, <1>6 DEF Run

(* A late call changes no row but its own.                                 *)
LEMMA LateKeeps ==
  ASSUME IInv, NEW a \in Held, LateHold(a)
  PROVE  RowInv' /\ OneRunWhenDry' /\ AllSound'
  <1>1. AllSound'
    BY DEF LateHold, IInv, AllSound, Sound, Live, GateOn, NoManual
  <1> QED
    BY <1>1, SameRow, SameRuns DEF LateHold, IInv

(* link_run_to_outcome keeps the invariant.                                *)
LEMMA LinkKeeps ==
  ASSUME IInv, NEW p \in Procs, LinkRead(p) \/ LinkWrite(p)
  PROVE  RowInv' /\ OneRunWhenDry' /\ AllSound'
  <1> USE MemoryFields DEF IInv
  <1>1. CASE LinkRead(p)
    BY <1>1, SoundStep, SoundBlank, SameRow, SameRuns
       DEF LinkRead, Answering, Checking, db
  <1>2. CASE LinkWrite(p)
    <2>1. /\ outcome'.trigger = outcome.trigger /\ outcome'.status = outcome.status
          /\ outcome'.due = outcome.due /\ outcome'.receipt = outcome.receipt
      BY <1>2 DEF LinkWrite, OutcomeRow
    <2>2. \A q \in Runs : runs[q].status = "none" => runs'[q].status = "none"
      BY <1>2 DEF LinkWrite, TypeOK, RunRow
    <2> QED
      BY <1>2, <2>1, <2>2, SameFields, SoundStep, SoundBlank, SameRuns
         DEF LinkWrite, Answering, Checking
  <1> QED
    BY <1>1, <1>2

(* A failed verification of a live outcome ends in a status with a date.   *)
LEMMA WriteDecisionKeeps ==
  ASSUME IInv, NEW p \in Procs, NEW class, NEW step, WriteDecision(p, class, step),
         pc[p] = "settle", mem[p].recover,
         step \in {"retry", "reverify", "needs_you", "gave_up"}
  PROVE  RowInv' /\ OneRunWhenDry' /\ AllSound'
  <1> USE MemoryFields DEF IInv
  <1>1. Live(outcome)
    BY SoundOf DEF Sound, Checking
  <1>2. /\ outcome'.trigger = outcome.trigger /\ outcome'.status = StatusAfter(step)
        /\ outcome'.due = Dates(step)
    BY DEF WriteDecision, OutcomeRow
  <1>3. RowInv'
    BY <1>1, <1>2 DEF StatusAfter, Dates, RowInv, RecoveringIsScheduled, Live
  <1> QED
    BY <1>2, <1>3, SoundFinish, SameRuns DEF WriteDecision

(* Every step of verify_outcome and deliver_outcome keeps the invariant.   *)
LEMMA VerifyKeeps ==
  ASSUME IInv, NEW p \in Procs, Verify(p)
  PROVE  RowInv' /\ OneRunWhenDry' /\ AllSound'
  <1> USE MemoryFields DEF IInv
  <1>0. Sound(pc[p], mem[p])
    BY SoundOf
  <1>1. CASE VerifyRead(p)
    <2>1. PICK r \in Runs \cup {NoRun}, n \in Nat :
             Goto(p, "mark", [mem[p] EXCEPT !.seen = outcome, !.run = r,
                                            !.attempt = n, !.recover = MayRecover(p)])
      BY <1>1 DEF VerifyRead, OrOne
    <2>2. Sound("mark", [mem[p] EXCEPT !.seen = outcome, !.run = r,
                                       !.attempt = n, !.recover = MayRecover(p)])
      BY <1>1, <1>0 DEF VerifyRead, Sound, MayRecover, Memory, RowInv, Live,
         Checking, Answering
    <2> QED
      BY <1>1, <2>1, <2>2, SoundStep, SameRow, SameRuns DEF VerifyRead, db
  <1>2. CASE VerifyMark(p)
    <2>1. outcome'.trigger = outcome.trigger /\ outcome'.status = "verifying"
      BY <1>2 DEF VerifyMark, OutcomeRow
    <2>2. \A ran : Sound("check", [mem[p] EXCEPT !.run = NoRun, !.ran = ran])
      BY <1>2, <1>0 DEF VerifyMark, Sound, Memory, Checking, Answering
    <2> QED
      BY <1>2, <2>1, <2>2, QuietRow, SoundStep, SameRuns DEF VerifyMark
  <1>3. ASSUME NEW auto \in CheckOutcomes, VerifyCheck(p, auto)
        PROVE  RowInv' /\ OneRunWhenDry' /\ AllSound'
    <2>1. Sound("settle", [mem[p] EXCEPT !.auto = auto, !.held = Listed(mem[p].seen)])
      BY <1>3, <1>0 DEF VerifyCheck, Sound, Memory, Checking, Answering, Listed, Live
    <2> QED
      BY <1>3, <2>1, SoundStep, SameRow, SameRuns DEF VerifyCheck, db
  <1>4. CASE SettleAwaiting(p)
    <2>1. /\ outcome'.trigger = outcome.trigger /\ outcome'.status = "awaiting_approval"
          /\ outcome'.receipt = ReceiptOf(mem[p])
      BY <1>4 DEF SettleAwaiting, OutcomeRow
    <2>2. mem[p].seen.trigger = outcome.trigger
      BY <1>4, <1>0 DEF SettleAwaiting, Sound, Checking
    <2>3. Live(outcome)
      BY <1>4, <1>0, <2>2 DEF SettleAwaiting, Sound, Waiting, ReceiptOf, Gated, Live
    <2>4. GateOn => ReceiptOf(mem[p]).human \in {"pending", "ok"}
      BY <2>2 DEF GateOn, ReceiptOf, Gated, Live
    <2>5. RowInv'
      BY <2>1, <2>3, <2>4 DEF RowInv, RecoveringIsScheduled, Live, GateOn
    <2> QED
      BY <1>4, <2>1, <2>5, SoundFinish, SameRuns DEF SettleAwaiting
  <1>5. CASE SettleDelivered(p)
    <2>1. /\ outcome'.trigger = outcome.trigger /\ outcome'.status = "delivered"
          /\ outcome'.receipt = ReceiptOf(mem[p])
      BY <1>5 DEF SettleDelivered, OutcomeRow
    <2>2. mem[p].seen.trigger = outcome.trigger
      BY <1>5, <1>0 DEF SettleDelivered, Sound, Checking
    <2>3. GateOn => ReceiptOf(mem[p]).human = "ok"
      BY <1>5, <2>2 DEF SettleDelivered, Passed, GateOn, ReceiptOf, Gated, Live
    <2>4. RowInv'
      BY <2>1, <2>3 DEF RowInv, RecoveringIsScheduled, Live, GateOn, Bothering
    <2> QED
      BY <1>5, <2>1, <2>4, SoundStep, SoundBlank, SameRuns
         DEF SettleDelivered, Answering, Checking
  <1>6. CASE SettleNoRecovery(p)
    <2>1. /\ outcome'.trigger = outcome.trigger
          /\ outcome'.status = IF mem[p].seen.status \in {"needs_you", "recovering"}
                               THEN mem[p].seen.status ELSE "failed"
      BY <1>6 DEF SettleNoRecovery, OutcomeRow
    <2>2. NoManual => mem[p].seen.status \notin Bothering
      BY <1>6, <1>0 DEF SettleNoRecovery, NotDelivered, Sound, Checking
    <2>3. mem[p].seen.status \in Bothering => Live(outcome)
      BY <1>6, <1>0 DEF SettleNoRecovery, NotDelivered, Sound, Checking
    <2>4. RowInv'
      BY <2>1, <2>2, <2>3 DEF RowInv, RecoveringIsScheduled, Live, GateOn, Bothering,
         NoManual
    <2> QED
      BY <1>6, <2>1, <2>4, SoundFinish, SameRuns DEF SettleNoRecovery
  <1>7. CASE SettleFailed(p)
    BY <1>7, WriteDecisionKeeps, DecideType DEF SettleFailed, NotDelivered
  <1>8. CASE SettleUnavailable(p)
    BY <1>8, WriteDecisionKeeps DEF SettleUnavailable, NotDelivered
  <1>9. CASE VerifyRaises(p)
    BY <1>9, SoundFinish, SameRow, SameRuns DEF VerifyRaises, db
  <1>10. CASE DeliverRead(p)
    <2>1. outcome.status = "delivered" =>
             Sound("receipt", [Blank EXCEPT !.seen = outcome])
      BY DEF RowInv, Sound, Blank, Answering, Checking
    <2> QED
      BY <1>10, <2>1, SoundStep, SoundFinish, SameRow, SameRuns DEF DeliverRead, db
  <1>11. CASE DeliverReceipt(p)
    <2>1. /\ outcome'.trigger = outcome.trigger /\ outcome'.status = outcome.status
          /\ outcome'.due = outcome.due /\ outcome'.receipt = mem[p].seen.receipt
      BY <1>11 DEF DeliverReceipt, OutcomeRow
    <2>2. GateOn => mem[p].seen.receipt.human = "ok"
      BY <1>11, <1>0 DEF DeliverReceipt, Sound
    <2>3. RowInv'
      BY <2>1, <2>2 DEF RowInv, RecoveringIsScheduled, Live, GateOn, NoManual
    <2> QED
      BY <1>11, <2>1, <2>3, SoundFinish, SameRuns DEF DeliverReceipt
  <1> QED
    BY <1>1, <1>2, <1>3, <1>4, <1>5, <1>6, <1>7, <1>8, <1>9, <1>10, <1>11 DEF Verify

(* _launch_next_attempt keeps the invariant: it is never called for a dry  *)
(* run.                                                                    *)
LEMMA LaunchKeeps ==
  ASSUME IInv, NEW p \in Procs, Launch(p)
  PROVE  RowInv' /\ OneRunWhenDry' /\ AllSound'
  <1> USE MemoryFields DEF IInv
  <1>0. Sound(pc[p], mem[p])
    BY SoundOf
  <1>1. CASE LaunchRefused(p)
    <2>1. outcome'.trigger = outcome.trigger /\ outcome'.status = "failed"
      BY <1>1 DEF LaunchRefused, OutcomeRow
    <2> QED
      BY <1>1, <2>1, QuietRow, SoundFinish, SameRuns DEF LaunchRefused
  <1>2. CASE LaunchCreate(p)
    <2>1. Live(outcome)
      BY <1>2, <1>0 DEF LaunchCreate, Sound, Answering
    <2>2. OneRunWhenDry'
      BY <1>2, <2>1 DEF LaunchCreate, OneRunWhenDry, Live
    <2> QED
      BY <1>2, <2>2, SameRow, SoundStep, SoundBlank DEF LaunchCreate, Answering, Checking
  <1>3. CASE LaunchStart(p)
    <2>1. outcome'.trigger = outcome.trigger /\ outcome'.status = "running"
      BY <1>3 DEF LaunchStart, OutcomeRow
    <2>2. \A q \in Procs : \/ pc'[q] \in {"idle", "begin"}
                           \/ pc'[q] = pc[q] /\ mem'[q] = mem[q]
      BY <1>3 DEF LaunchStart, TypeOK
    <2>3. \A q \in Procs : Sound(pc'[q], mem'[q])
      BY <2>2, SoundBlank, SoundOf DEF Answering, Checking
    <2>4. AllSound'
      BY <2>1, <2>3 DEF AllSound, Sound, Live, GateOn, NoManual
    <2> QED
      BY <1>3, <2>1, <2>4, QuietRow, SameRuns DEF LaunchStart
  <1> QED
    BY <1>1, <1>2, <1>3 DEF Launch

(* The loop, a crash and the resumption after it keep the invariant.       *)
LEMMA LoopKeeps ==
  ASSUME IInv, LoopTick \/ (\E t \in Rechecks : LoopRecheck(t)) \/ Restart \/ Resume
  PROVE  RowInv' /\ OneRunWhenDry' /\ AllSound'
  <1> USE MemoryFields, RunsAreProcs DEF IInv
  <1>1. CASE LoopTick
    <2>1. Live(outcome)
      BY <1>1 DEF LoopTick, RowInv, Bothering
    <2>2. \A local : Sound("recheck", local) /\ Sound("launch", local)
      BY <2>1 DEF Sound, Checking
    <2> QED
      BY <1>1, <2>2, SoundStep, SameRow, SameRuns DEF LoopTick, db
  <1>2. ASSUME NEW t \in Rechecks, LoopRecheck(t)
        PROVE  RowInv' /\ OneRunWhenDry' /\ AllSound'
    <2>1. outcome'.trigger = outcome.trigger /\ outcome'.status = "verifying"
      BY <1>2 DEF LoopRecheck, OutcomeRow
    <2>2. t # Loop
      BY ProcsAssumption
    <2>3. /\ pc'[t] = "verify" /\ mem'[t] = VerifyCall(mem[Loop].attempt, TRUE)
          /\ pc'[Loop] = "idle"
          /\ \A q \in Procs \ {t, Loop} : pc'[q] = pc[q] /\ mem'[q] = mem[q]
      BY <1>2, <2>2 DEF LoopRecheck, TypeOK
    <2>4. \A q \in Procs : Sound(pc'[q], mem'[q])
      BY <2>3, SoundBlank, SoundVerify, SoundOf DEF Answering, Checking
    <2>5. AllSound'
      BY <2>1, <2>4 DEF AllSound, Sound, Live, GateOn, NoManual
    <2> QED
      BY <1>2, <2>1, <2>5, QuietRow, SameRuns DEF LoopRecheck
  <1>3. CASE Restart
    <2>1. \A q \in Procs : pc'[q] \in {"resume", "idle"}
      BY <1>3 DEF Restart
    <2>2. \A q \in Procs : Sound(pc'[q], mem'[q])
      BY <2>1, SoundBlank DEF Answering, Checking
    <2>3. AllSound'
      BY <1>3, <2>2 DEF Restart, AllSound, Sound, Live, GateOn, NoManual
    <2>4. \A r \in Runs : runs[r].status = "none" => runs'[r].status = "none"
      BY <1>3 DEF Restart, Interrupts
    <2> QED
      BY <1>3, <2>3, <2>4, SameRow, SameRuns DEF Restart
  <1>4. CASE Resume
    BY <1>4, SoundStep, SoundFinish, SoundVerify, SameRow, SameRuns DEF Resume, db
  <1> QED
    BY <1>1, <1>2, <1>3, <1>4

(* A retry asked for by a person is due at once.                           *)
LEMMA RetryNowKeeps ==
  ASSUME IInv, NEW u \in Procs, NEW n, RetryNow(u, n), Live(outcome)
  PROVE  RowInv' /\ OneRunWhenDry' /\ AllSound'
  <1> USE MemoryFields DEF IInv
  <1>1. /\ outcome'.trigger = outcome.trigger /\ outcome'.status = "recovering"
        /\ outcome'.due = TRUE
    BY DEF RetryNow, OutcomeRow
  <1>2. RowInv'
    BY <1>1 DEF RowInv, RecoveringIsScheduled, Live
  <1>3. Sound("reload", Blank)
    BY DEF Sound, Checking
  <1> QED
    BY <1>1, <1>2, <1>3, SoundStep, SameRuns DEF RetryNow

(* Whatever a person asks for keeps the invariant.                         *)
LEMMA PersonKeeps ==
  ASSUME IInv, NEW u \in People, Person(u)
  PROVE  RowInv' /\ OneRunWhenDry' /\ AllSound'
  <1> USE MemoryFields, RunsAreProcs DEF IInv
  <1>0. Sound(pc[u], mem[u])
    BY SoundOf
  <1>1. CASE AskVerify(u)
    <2>1. ~NoManual
      BY <1>1 DEF AskVerify, Request, NoManual
    <2>2. Sound("verify", VerifyCall(0, FALSE))
      BY <2>1 DEF Sound, Answering, Checking
    <2> QED
      BY <1>1, <2>2, SoundStep, SameRow, SameRuns DEF AskVerify, db
  <1>2. ASSUME NEW choice, AskResolve(u, choice)
        PROVE  RowInv' /\ OneRunWhenDry' /\ AllSound'
    <2>1. Live(outcome)
      BY <1>2 DEF AskResolve, RowInv, Bothering
    <2>2. \A local : Sound("resolve", local)
      BY <2>1 DEF Sound, Checking
    <2> QED
      BY <1>2, <2>2, SoundStep, SameRow, SameRuns DEF AskResolve, db
  <1>3. CASE ResolveDismiss(u)
    <2>1. outcome'.trigger = outcome.trigger /\ outcome'.status = "failed"
      BY <1>3 DEF ResolveDismiss, OutcomeRow
    <2> QED
      BY <1>3, <2>1, QuietRow, SoundFinish, SameRuns DEF ResolveDismiss
  <1>4. CASE ResolveRecheck(u)
    <2>1. outcome'.trigger = outcome.trigger /\ outcome'.status = "verifying"
      BY <1>4 DEF ResolveRecheck, OutcomeRow
    <2> QED
      BY <1>4, <2>1, QuietRow, SoundStep, SoundVerify, SameRuns DEF ResolveRecheck
  <1>5. CASE ResolveRetry(u) \/ ReviewChanges(u)
    <2>1. Live(outcome)
      BY <1>5, <1>0 DEF ResolveRetry, ReviewChanges, Decided, Sound, Answering
    <2> QED
      BY <1>5, <2>1, RetryNowKeeps DEF ResolveRetry, ReviewChanges
  <1>6. ASSUME NEW choice, AskReview(u, choice)
        PROVE  RowInv' /\ OneRunWhenDry' /\ AllSound'
    <2>1. Live(outcome)
      BY <1>6 DEF AskReview, RowInv, Bothering
    <2>2. Sound("held", [Blank EXCEPT !.seen = outcome, !.choice = choice])
      BY <1>6, <2>1 DEF AskReview, RowInv, Sound, Checking, Blank
    <2> QED
      BY <1>6, <2>2, SoundStep, SameRow, SameRuns DEF AskReview, db
  <1>7. ASSUME NEW choice, AskSpotCheck(u, choice)
        PROVE  RowInv' /\ OneRunWhenDry' /\ AllSound'
    BY <1>7, SoundStep, SoundBlank, SameRow, SameRuns
       DEF AskSpotCheck, Answering, Checking, db
  <1>8. CASE SpotVerdict(u)
    <2>1. /\ outcome'.trigger = outcome.trigger /\ outcome'.status = outcome.status
          /\ outcome'.due = outcome.due /\ outcome'.receipt = outcome.receipt
      BY <1>8 DEF SpotVerdict, OutcomeRow
    <2> QED
      BY <1>8, <2>1, SameFields, SoundFinish, SameRuns DEF SpotVerdict
  <1>9. CASE ClaimLost(u) \/ ReviewRefused(u)
    BY <1>9, SoundFinish, SameRow, SameRuns DEF ClaimLost, ReviewRefused, db
  <1>10. CASE ListHeld(u) \/ ClaimAction(u) \/ RejectAction(u)
              \/ \E status \in {"executed", "failed"} : EndCall(u, status)
    <2>1. pc[u] \in {"held", "review", "call"}
      BY <1>10 DEF ListHeld, ClaimAction, RejectAction, EndCall
    <2>2. PICK label \in {"review", "call", "approved"},
              held \in SUBSET Held, call \in SUBSET Held :
             Goto(u, label, [mem[u] EXCEPT !.held = held, !.call = call])
      <3>1. CASE ListHeld(u)
        <4>1. [mem[u] EXCEPT !.held = HeldNow]
                = [mem[u] EXCEPT !.held = HeldNow, !.call = mem[u].call]
          BY DEF Memory
        <4> QED
          BY <3>1, <4>1 DEF ListHeld, HeldNow
      <3>2. CASE ClaimAction(u)
        BY <3>2 DEF ClaimAction
      <3>3. CASE RejectAction(u)
        <4>1. PICK a \in Held : Goto(u, "review", [mem[u] EXCEPT !.held = @ \ {a}])
          BY <3>3 DEF RejectAction
        <4>2. [mem[u] EXCEPT !.held = @ \ {a}]
                = [mem[u] EXCEPT !.held = @ \ {a}, !.call = mem[u].call]
          BY DEF Memory
        <4> QED
          BY <4>1, <4>2
      <3>4. ASSUME NEW status, EndCall(u, status)
            PROVE  \E label \in {"review", "call", "approved"},
                      held \in SUBSET Held, call \in SUBSET Held :
                      Goto(u, label, [mem[u] EXCEPT !.held = held, !.call = call])
        <4>1. [mem[u] EXCEPT !.call = {}]
                = [mem[u] EXCEPT !.held = mem[u].held, !.call = {}]
          BY DEF Memory
        <4> QED
          BY <3>4, <4>1 DEF EndCall
      <3> QED
        BY <1>10, <3>1, <3>2, <3>3, <3>4
    <2>3. Sound(label, [mem[u] EXCEPT !.held = held, !.call = call])
      BY <1>0, <2>1 DEF Sound, Answering, Checking, Memory
    <2>4. UNCHANGED <<outcome, runs>>
      BY <1>10 DEF ListHeld, ClaimAction, RejectAction, EndCall, db
    <2> QED
      BY <2>2, <2>3, <2>4, SoundStep, SameRow, SameRuns
  <1>11. CASE ApproveActions(u)
    <2>1. /\ outcome'.trigger = outcome.trigger /\ outcome'.status = outcome.status
          /\ outcome'.due = outcome.due /\ outcome'.receipt = outcome.receipt
      BY <1>11 DEF ApproveActions, OutcomeRow
    <2> QED
      BY <1>11, <2>1, SameFields, SoundStep, SoundVerify, SameRuns DEF ApproveActions
  <1>12. CASE ReviewApprove(u)
    <2>1. /\ outcome'.trigger = outcome.trigger /\ outcome'.status = "delivered"
          /\ outcome'.receipt = [mem[u].seen.receipt EXCEPT
                                   !.human = IF @ = "pending" THEN "ok" ELSE @]
      BY <1>12 DEF ReviewApprove, OutcomeRow
    <2>2. GateOn => outcome'.receipt.human = "ok"
      BY <1>12, <1>0, <2>1 DEF ReviewApprove, Decided, Sound, Receipt
    <2>3. RowInv'
      BY <2>1, <2>2 DEF RowInv, RecoveringIsScheduled, Live, GateOn, Bothering
    <2> QED
      BY <1>12, <2>1, <2>3, SoundStep, SoundBlank, SameRuns
         DEF ReviewApprove, Answering, Checking
  <1>13. CASE ReviewReject(u)
    <2>1. outcome'.trigger = outcome.trigger /\ outcome'.status = "failed"
      BY <1>13 DEF ReviewReject, OutcomeRow
    <2> QED
      BY <1>13, <2>1, QuietRow, SoundFinish, SameRuns DEF ReviewReject
  <1>14. CASE Reload(u)
    <2>1. Sound("launch", Blank)
      BY <1>14, <1>0 DEF Reload, Sound, Answering, Checking
    <2> QED
      BY <1>14, <2>1, SoundStep, SameRow, SameRuns DEF Reload, db
  <1> QED
    BY <1>1, <1>2, <1>3, <1>4, <1>5, <1>6, <1>7, <1>8, <1>9, <1>10, <1>11, <1>12,
       <1>13, <1>14 DEF Person

(* The inductive invariant: rows, dry runs and every coroutine's stale     *)
(* copy of the row are sound, whatever the interleaving of verify_outcome, *)
(* the loop, reviewers and crashes.                                        *)
THEOREM Inductive == Spec => []IInv
  <1>1. Init => IInv
    <2> SUFFICES ASSUME Init PROVE IInv
      OBVIOUS
    <2>1. outcome.status \in {"none", "running"}
      BY DEF Init, NoOutcome
    <2>2. RowInv
      BY <2>1 DEF RowInv, RecoveringIsScheduled, Bothering
    <2>3. OneRunWhenDry
      BY DEF Init, OneRunWhenDry
    <2>4. AllSound
      BY SoundBlank DEF Init, AllSound, Answering, Checking
    <2> QED
      BY <2>2, <2>3, <2>4, InitType DEF IInv
  <1>2. IInv /\ [Next]_vars => (RowInv /\ OneRunWhenDry /\ AllSound)'
    <2> SUFFICES ASSUME IInv, [Next]_vars
                 PROVE  (RowInv /\ OneRunWhenDry /\ AllSound)'
      OBVIOUS
    <2>1. CASE UNCHANGED vars
      BY <2>1 DEF vars, IInv, RowInv, RecoveringIsScheduled, OneRunWhenDry, AllSound,
         Sound, Live, GateOn, NoManual
    <2>2. CASE Next
      BY <2>2, RunKeeps, LateKeeps, LinkKeeps, VerifyKeeps, LaunchKeeps, LoopKeeps, PersonKeeps
         DEF Next
    <2> QED
      BY <2>1, <2>2
  <1>3. IInv <=> TypeOK /\ RowInv /\ OneRunWhenDry /\ AllSound
    BY DEF IInv
  <1> QED
    BY <1>1, <1>2, <1>3, TypeCorrect, PTL DEF Spec

(* No outcome is delivered past an approval gate that nobody opened, with  *)
(* any number of people, re-verifications, racing attempts and crashes.    *)
THEOREM GateIsRespected == Spec => []GateRespected
  <1>1. IInv => GateRespected
    BY DEF IInv, RowInv, GateOn, GateRespected
  <1> QED
    BY <1>1, Inductive, PTL

(* A dry run never recovers, never waits for anybody, and uses one run.    *)
THEOREM DryRunsAreSingle == Spec => []DryRunsOnce
  <1>1. IInv => DryRunsOnce
    BY DEF IInv, RowInv, Bothering, OneRunWhenDry, DryRunsOnce
  <1> QED
    BY <1>1, Inductive, PTL

(* A recovering outcome has a date, as long as nobody re-verifies by hand: *)
(* the run "desk" and this theorem show it of every other request.         *)
THEOREM RecoveryIsScheduled ==
  ASSUME "verify" \notin Requests
  PROVE  Spec => []RecoveringIsScheduled
  <1>1. IInv => RecoveringIsScheduled
    BY DEF IInv, RowInv, NoManual
  <1> QED
    BY <1>1, Inductive, PTL

-----------------------------------------------------------------------------
(* Delivered means checked, as long as nobody approves.                    *)

(* A receipt that is written back was one of a delivered outcome.          *)
Checked(receipt) == receipt.auto = "pass" /\ receipt.human # "pending"
Unapproved(p) ==
    /\ mem[p].choice # "approve"
    /\ pc[p] = "receipt" => Checked(mem[p].seen.receipt)
DInv == DeliveredMeansChecked /\ \A p \in Procs : Unapproved(p)

NoApproval == "approve" \notin Requests

(* A coroutine goes on and leaves the row alone, or writes a status other  *)
(* than delivered.                                                         *)
LEMMA UnapprovedStep ==
  ASSUME TypeOK, DInv, NEW p \in Procs, NEW label, NEW local, Goto(p, label, local),
         local.choice # "approve", label # "receipt",
         UNCHANGED outcome \/ outcome'.status # "delivered"
  PROVE  DInv'
  <1>1. \A q \in Procs : Unapproved(q)'
    BY DEF Goto, TypeOK, DInv, Unapproved
  <1>2. DeliveredMeansChecked'
    BY DEF DInv, DeliveredMeansChecked
  <1> QED
    BY <1>1, <1>2 DEF DInv

LEMMA UnapprovedFinish ==
  ASSUME TypeOK, DInv, NEW p \in Procs, Finish(p),
         UNCHANGED outcome \/ outcome'.status # "delivered"
  PROVE  DInv'
  BY UnapprovedStep DEF Finish, Blank

LEMMA UnapprovedRun ==
  ASSUME TypeOK, DInv, NEW r \in Runs, Run(r)
  PROVE  DInv'
  <1> USE RunsAreProcs
  <1>1. CASE BeginAttached(r)
    BY <1>1, UnapprovedStep DEF BeginAttached, Blank, db
  <1>2. CASE BeginCreate(r)
    BY <1>2, UnapprovedStep, MemoryFields DEF BeginCreate, Blank, OutcomeRow
  <1>3. CASE RunStart(r) \/ \E a \in Held : RunHold(r, a)
    BY <1>3 DEF RunStart, RunHold, DInv, Unapproved, DeliveredMeansChecked
  <1>4. ASSUME NEW s \in {"succeeded", "failed"}, RunEnd(r, s) PROVE DInv'
    BY <1>4, UnapprovedStep DEF RunEnd, VerifyCall, Blank
  <1>5. CASE RunEarlyExit(r)
    BY <1>5, UnapprovedFinish DEF RunEarlyExit
  <1> QED
    BY <1>1, <1>2, <1>3, <1>4, <1>5 DEF Run

(* The one verdict that delivers has looked at every check.                *)
LEMMA UnapprovedVerify ==
  ASSUME TypeOK, DInv, NEW p \in Procs, Verify(p)
  PROVE  DInv'
  <1> USE MemoryFields
  <1>0. mem[p].choice # "approve"
    BY DEF DInv, Unapproved
  <1>1. CASE VerifyRead(p)
    <2>1. PICK r \in Runs \cup {NoRun}, n \in Nat :
             Goto(p, "mark", [mem[p] EXCEPT !.seen = outcome, !.run = r,
                                            !.attempt = n, !.recover = MayRecover(p)])
      BY <1>1 DEF VerifyRead, OrOne
    <2> QED
      BY <1>0, <1>1, <2>1, UnapprovedStep DEF VerifyRead, Memory, db
  <1>2. CASE VerifyMark(p)
    BY <1>0, <1>2, UnapprovedStep DEF VerifyMark, Memory, OutcomeRow
  <1>3. ASSUME NEW auto \in CheckOutcomes, VerifyCheck(p, auto) PROVE DInv'
    BY <1>0, <1>3, UnapprovedStep DEF VerifyCheck, Memory, db
  <1>4. CASE SettleDelivered(p)
    <2>1. outcome'.receipt = ReceiptOf(mem[p]) /\ Passed(mem[p]) /\ Goto(p, "deliver", Blank)
      BY <1>4 DEF SettleDelivered, OutcomeRow
    <2>2. Checked(outcome'.receipt)
      BY <2>1 DEF Passed, ReceiptOf, Checked
    <2>3. \A q \in Procs : Unapproved(q)'
      BY <2>1 DEF Goto, TypeOK, DInv, Unapproved, Blank
    <2> QED
      BY <2>2, <2>3 DEF DInv, DeliveredMeansChecked, Checked
  <1>5. CASE DeliverRead(p)
    <2>1. CASE Finish(p)
      BY <1>5, <2>1, UnapprovedFinish DEF DeliverRead, db
    <2>2. CASE outcome.status = "delivered" /\ Goto(p, "receipt", [Blank EXCEPT !.seen = outcome])
      <3>1. Checked(outcome.receipt)
        BY <2>2 DEF DInv, DeliveredMeansChecked, Checked
      <3>2. \A q \in Procs : Unapproved(q)'
        BY <2>2, <3>1 DEF Goto, TypeOK, DInv, Unapproved, Blank
      <3> QED
        BY <1>5, <3>2 DEF DeliverRead, db, DInv, DeliveredMeansChecked
    <2> QED
      BY <1>5, <2>1, <2>2 DEF DeliverRead
  <1>6. CASE DeliverReceipt(p)
    <2>1. Checked(mem[p].seen.receipt) /\ Finish(p) /\ outcome'.receipt = mem[p].seen.receipt
      BY <1>6 DEF DeliverReceipt, DInv, Unapproved, OutcomeRow
    <2>2. \A q \in Procs : Unapproved(q)'
      BY <2>1 DEF Finish, Goto, TypeOK, DInv, Unapproved, Blank
    <2> QED
      BY <2>1, <2>2 DEF DInv, DeliveredMeansChecked, Checked
  <1>7. CASE VerifyRaises(p)
    BY <1>7, UnapprovedFinish DEF VerifyRaises, db
  <1>8. CASE SettleAwaiting(p)
    BY <1>8, UnapprovedFinish DEF SettleAwaiting, OutcomeRow
  <1>9. CASE SettleNoRecovery(p)
    BY <1>9, UnapprovedFinish DEF SettleNoRecovery, OutcomeRow
  <1>10. ASSUME NEW class, NEW step, step \in {"retry", "reverify", "needs_you", "gave_up"},
                WriteDecision(p, class, step)
         PROVE  DInv'
    <2>1. outcome'.status = StatusAfter(step)
      BY <1>10 DEF WriteDecision, OutcomeRow
    <2>2. outcome'.status # "delivered"
      BY <1>10, <2>1 DEF StatusAfter
    <2> QED
      BY <1>10, <2>2, UnapprovedFinish DEF WriteDecision
  <1>11. CASE SettleFailed(p)
    <2>1. PICK class \in Diagnoses(mem[p].ran), overCost, noMemory \in BOOLEAN :
             WriteDecision(p, class, Decide(mem[p].seen, class, overCost, noMemory))
      BY <1>11 DEF SettleFailed
    <2>2. Decide(mem[p].seen, class, overCost, noMemory)
              \in {"retry", "reverify", "needs_you", "gave_up"}
      BY DEF Decide
    <2> QED
      BY <1>10, <2>1, <2>2
  <1>12. CASE SettleUnavailable(p)
    BY <1>10, <1>12 DEF SettleUnavailable
  <1> QED
    BY <1>1, <1>2, <1>3, <1>4, <1>5, <1>6, <1>7, <1>8, <1>9, <1>11, <1>12 DEF Verify

LEMMA UnapprovedEngine ==
  ASSUME TypeOK, DInv,
         \/ \E p \in Procs : LinkRead(p) \/ LinkWrite(p) \/ Launch(p)
         \/ LoopTick \/ (\E t \in Rechecks : LoopRecheck(t)) \/ Restart \/ Resume
  PROVE  DInv'
  <1> USE RunsAreProcs, MemoryFields
  <1>1. ASSUME NEW p \in Procs, LinkRead(p) \/ LinkWrite(p) \/ Launch(p) PROVE DInv'
    <2>0. mem[p].choice # "approve"
      BY DEF DInv, Unapproved
    <2>1. CASE LinkRead(p)
      BY <2>0, <2>1, UnapprovedStep DEF LinkRead, Memory, db
    <2>2. CASE LinkWrite(p)
      <3>1. /\ outcome'.status = outcome.status /\ outcome'.receipt = outcome.receipt
            /\ Goto(p, "exec", Blank) \/ Goto(p, "start", mem[p])
        BY <2>2 DEF LinkWrite, OutcomeRow
      <3>2. PICK label \in {"exec", "start"}, local \in {Blank, mem[p]} : Goto(p, label, local)
        BY <3>1
      <3>3. local.choice # "approve"
        BY <2>0, <3>2 DEF Blank
      <3>4. \A q \in Procs : Unapproved(q)'
        BY <3>2, <3>3 DEF Goto, TypeOK, DInv, Unapproved
      <3> QED
        BY <3>1, <3>4 DEF DInv, DeliveredMeansChecked
    <2>3. CASE LaunchRefused(p)
      BY <2>3, UnapprovedFinish DEF LaunchRefused, OutcomeRow
    <2>4. CASE LaunchCreate(p)
      BY <2>4, UnapprovedStep DEF LaunchCreate, Blank
    <2>5. CASE LaunchStart(p)
      <3>1. outcome'.status = "running"
        BY <2>5 DEF LaunchStart, OutcomeRow
      <3>2. \A q \in Procs : Unapproved(q)'
        BY <2>5 DEF LaunchStart, TypeOK, DInv, Unapproved, Blank
      <3> QED
        BY <3>1, <3>2 DEF DInv, DeliveredMeansChecked
    <2> QED
      BY <1>1, <2>1, <2>2, <2>3, <2>4, <2>5 DEF Launch
  <1>2. CASE LoopTick
    BY <1>2, UnapprovedStep DEF LoopTick, Blank, db
  <1>3. ASSUME NEW t \in Rechecks, LoopRecheck(t) PROVE DInv'
    <2>1. outcome'.status = "verifying"
      BY <1>3 DEF LoopRecheck, OutcomeRow
    <2>2. \A q \in Procs : Unapproved(q)'
      BY <1>3 DEF LoopRecheck, TypeOK, DInv, Unapproved, Blank, VerifyCall
    <2> QED
      BY <2>1, <2>2 DEF DInv, DeliveredMeansChecked
  <1>4. CASE Restart
    BY <1>4 DEF Restart, DInv, DeliveredMeansChecked, Unapproved, Blank
  <1>5. CASE Resume
    BY <1>5, UnapprovedStep, UnapprovedFinish DEF Resume, VerifyCall, Blank, db
  <1> QED
    BY <1>1, <1>2, <1>3, <1>4, <1>5

(* People may re-verify, retry, dismiss, refuse: none of it delivers.      *)
LEMMA UnapprovedPerson ==
  ASSUME TypeOK, DInv, NoApproval, NEW u \in People, Person(u)
  PROVE  DInv'
  <1> USE RunsAreProcs, MemoryFields
  <1>0. mem[u].choice # "approve" /\ u \in Procs
    BY DEF DInv, Unapproved
  <1>1. CASE AskVerify(u)
    BY <1>1, UnapprovedStep DEF AskVerify, VerifyCall, Blank, db
  <1>2. ASSUME NEW choice, AskResolve(u, choice) \/ AskReview(u, choice) \/ AskSpotCheck(u, choice)
        PROVE  DInv'
    <2>1. choice # "approve"
      BY <1>2 DEF AskResolve, AskReview, AskSpotCheck, Request, NoApproval
    <2> QED
      BY <1>2, <2>1, UnapprovedStep DEF AskResolve, AskReview, AskSpotCheck, Blank, db
  <1>3. CASE ResolveDismiss(u)
    BY <1>3, UnapprovedFinish DEF ResolveDismiss, OutcomeRow
  <1>4. CASE ResolveRecheck(u)
    BY <1>4, UnapprovedStep DEF ResolveRecheck, VerifyCall, Blank, OutcomeRow
  <1>5. CASE ResolveRetry(u) \/ ReviewChanges(u)
    BY <1>5, UnapprovedStep DEF ResolveRetry, ReviewChanges, RetryNow, Blank, OutcomeRow
  <1>6. CASE ListHeld(u)
    BY <1>0, <1>6, UnapprovedStep DEF ListHeld, Memory, db
  <1>7. CASE SpotVerdict(u)
    <2>1. outcome'.status = outcome.status /\ outcome'.receipt = outcome.receipt
      BY <1>7 DEF SpotVerdict, OutcomeRow
    <2>2. \A q \in Procs : Unapproved(q)'
      BY <1>7 DEF SpotVerdict, Finish, Goto, TypeOK, DInv, Unapproved, Blank
    <2> QED
      BY <2>1, <2>2 DEF DInv, DeliveredMeansChecked
  <1>8. CASE ClaimLost(u) \/ ReviewRefused(u)
    BY <1>8, UnapprovedFinish DEF ClaimLost, ReviewRefused, db
  <1>9. CASE ReviewReject(u)
    BY <1>9, UnapprovedFinish DEF ReviewReject, OutcomeRow
  <1>10. ~ClaimAction(u) /\ ~ReviewApprove(u)
    BY <1>0 DEF ClaimAction, ReviewApprove, Decided
  <1>11. ASSUME NEW status, EndCall(u, status) PROVE DInv'
    <2>1. PICK label \in {"approved", "review"} : Goto(u, label, [mem[u] EXCEPT !.call = {}])
      BY <1>11 DEF EndCall
    <2> QED
      BY <1>0, <1>11, <2>1, UnapprovedStep DEF EndCall, Memory
  <1>12. CASE ApproveActions(u)
    <2>1. outcome'.status = outcome.status /\ outcome'.receipt = outcome.receipt
      BY <1>12 DEF ApproveActions, OutcomeRow
    <2>2. \A q \in Procs : Unapproved(q)'
      BY <1>12 DEF ApproveActions, Goto, TypeOK, DInv, Unapproved, Blank, VerifyCall
    <2> QED
      BY <2>1, <2>2 DEF DInv, DeliveredMeansChecked
  <1>13. CASE RejectAction(u)
    <2>1. PICK a \in mem[u].held : Goto(u, "review", [mem[u] EXCEPT !.held = @ \ {a}])
      BY <1>13 DEF RejectAction
    <2> QED
      BY <1>0, <1>13, <2>1, UnapprovedStep DEF RejectAction, Memory
  <1>14. CASE Reload(u)
    BY <1>14, UnapprovedStep DEF Reload, Blank, db
  <1> QED
    BY <1>1, <1>2, <1>3, <1>4, <1>5, <1>6, <1>7, <1>8, <1>9, <1>10, <1>11, <1>12,
       <1>13, <1>14 DEF Person

(* Delivered means checked: whatever the engine, its crashes and the other *)
(* requests of people interleave, only an approval can deliver an outcome  *)
(* whose checks did not all pass (the run "unchecked_approval").           *)
THEOREM DeliveredIsChecked ==
  ASSUME "approve" \notin Requests
  PROVE  Spec => []DeliveredMeansChecked
  <1>1. Init => DInv
    BY DEF Init, NoOutcome, DInv, DeliveredMeansChecked, Unapproved, Blank
  <1>2. TypeOK /\ DInv /\ [Next]_vars => DInv'
    <2> SUFFICES ASSUME TypeOK, DInv, [Next]_vars PROVE DInv'
      OBVIOUS
    <2>1. CASE UNCHANGED vars
      BY <2>1 DEF vars, DInv, DeliveredMeansChecked, Unapproved
    <2>2. CASE Next
      <3>1. ASSUME NEW a \in Held, LateHold(a) PROVE DInv'
        BY <3>1 DEF LateHold, DInv, DeliveredMeansChecked, Unapproved
      <3> QED
        BY <2>2, <3>1, UnapprovedRun, UnapprovedVerify, UnapprovedEngine, UnapprovedPerson
           DEF Next, NoApproval
    <2> QED
      BY <2>1, <2>2
  <1>3. DInv => DeliveredMeansChecked
    BY DEF DInv
  <1> QED
    BY <1>1, <1>2, <1>3, TypeCorrect, PTL DEF Spec

-----------------------------------------------------------------------------
(* The engine alone.                                                       *)

(* Without people one coroutine is at work at a time: the loop takes up an *)
(* outcome that recovers, and nobody leaves it recovering and goes on.     *)
Busy(p) == pc[p] # "idle"
OneBusy == \A p, q \in Procs : Busy(p) /\ Busy(q) => p = q
AtWork(p) ==
    /\ Busy(p) /\ p # Loop => outcome.status \in {"none", "running", "verifying", "delivered"}
    /\ pc[p] = "exec" \/ (p \in Runs /\ pc[p] \in {"link", "attach"})
           => outcome.status = "running"
    /\ pc[p] = "begin"
           => outcome.status = "running" \/ (outcome.status = "none" /\ runs[p].attempt = 0)
    /\ pc[p] \in {"launch", "recheck", "start"} => p = Loop
    /\ pc[p] \in {"link", "attach"} => p \in Runs \cup {Loop}
    /\ pc[p] = "attach" => mem[p].attempt = outcome.attempts + 1
    /\ pc[p] = "settle" /\ Live(outcome) => HeldNow \subseteq mem[p].held \cup late

(* A run that is in hand is in the hands of its task or of the loop that   *)
(* starts it, and attempts are numbered upwards.                           *)
InHand(r) ==
    \/ pc[r] \in {"begin", "link", "attach", "exec"}
    \/ pc[Loop] \in {"link", "attach", "start"} /\ mem[Loop].run = r
AloneInv ==
    /\ OneBusy /\ \A p \in Procs : AtWork(p)
    /\ \A r \in Active : InHand(r)
    /\ AttemptNumbersUnique /\ \A r \in Runs : runs[r].attempt <= outcome.attempts
    /\ NothingHeldBack

(* While a coroutine is busy the others are not.                           *)
LEMMA OthersIdle ==
  ASSUME OneBusy, NEW p \in Procs, Busy(p)
  PROVE  \A q \in Procs \ {p} : pc[q] = "idle"
  BY DEF OneBusy, Busy

(* The only busy coroutine goes on, or one begins where all were idle.     *)
LEMMA AloneStep ==
  ASSUME TypeOK, OneBusy, NEW p \in Procs, NEW label, NEW local, Goto(p, label, local),
         Busy(p) \/ \A q \in Procs : ~Busy(q)
  PROVE  /\ OneBusy' /\ pc'[p] = label /\ mem'[p] = local
         /\ \A q \in Procs \ {p} : pc[q] = "idle" /\ pc'[q] = "idle" /\ ~Busy(q)'
         /\ \A q \in Procs \ {p} : AtWork(q)'
  <1>1. /\ pc'[p] = label /\ mem'[p] = local
        /\ \A q \in Procs \ {p} : pc[q] = "idle" /\ pc'[q] = "idle"
    BY OthersIdle DEF Goto, TypeOK, Busy
  <1> QED
    BY <1>1 DEF OneBusy, Busy, AtWork

(* A coroutine at work with a run in hand, seen from the run.              *)
LEMMA HandOf ==
  ASSUME OneBusy, NEW p \in Procs, Busy(p), NEW r \in Runs, InHand(r)
  PROVE  p = r \/ (p = Loop /\ mem[p].run = r /\ pc[p] \in {"link", "attach", "start"})
  BY RunsAreProcs DEF OneBusy, Busy, InHand, Procs

(* Numbering and runs stay as they are when a step does not touch them.    *)
LEMMA SameAttempts ==
  ASSUME AloneInv, UNCHANGED runs, outcome'.attempts = outcome.attempts
  PROVE  /\ AttemptNumbersUnique' /\ \A r \in Runs : runs'[r].attempt <= outcome'.attempts
         /\ Active' = Active
  BY DEF AloneInv, AttemptNumbersUnique, Attached, Active

LEMMA AloneRun ==
  ASSUME IInv, TypeOK', AloneInv, NEW r \in Runs, Run(r)
  PROVE  AloneInv'
  <1> USE DEF db
  <1>0. /\ TypeOK /\ OneBusy /\ AtWork(r) /\ r \in Procs /\ r # Loop /\ Busy(r)
        /\ outcome \in OutcomeRow /\ runs[r] \in RunRow /\ runs \in [Runs -> RunRow]
    <2>1. r \in Procs /\ r # Loop
      BY RunsAreProcs, ProcsAssumption
    <2>2. Busy(r)
      BY DEF Run, BeginAttached, BeginCreate, RunStart, RunHold, RunEnd, RunEarlyExit, Busy
    <2> QED
      BY <2>1, <2>2 DEF IInv, TypeOK, AloneInv
  <1>1. \A s \in Active : s = r /\ pc[r] \in {"begin", "link", "attach", "exec"}
    <2>1. ASSUME NEW s \in Active PROVE s = r /\ pc[r] \in {"begin", "link", "attach", "exec"}
      <3>1. s \in Runs /\ InHand(s)
        BY DEF AloneInv, Active
      <3>2. s = r
        BY <1>0, <3>1, HandOf
      <3>3. pc[Loop] = "idle"
        BY <1>0, OthersIdle DEF Procs
      <3> QED
        BY <3>1, <3>2, <3>3 DEF InHand
    <2> QED
      BY <2>1
  <1>2. CASE BeginAttached(r)
    <2>1. Goto(r, "exec", Blank) /\ UNCHANGED <<outcome, runs, action, late>> /\ pc[r] = "begin"
          /\ runs[r].attempt # 0
      BY <1>2 DEF BeginAttached
    <2>2. AtWork(r)'
      BY <1>0, <2>1, AloneStep DEF AtWork
    <2>3. \A s \in Active : InHand(s)'
      BY <1>0, <1>1, <2>1, AloneStep DEF InHand
    <2> QED
      BY <1>0, <2>1, <2>2, <2>3, AloneStep, SameAttempts DEF AloneInv, NothingHeldBack, HeldNow, Live
  <1>3. CASE BeginCreate(r)
    <2>1. /\ Goto(r, "link", [Blank EXCEPT !.run = r]) /\ UNCHANGED <<runs, action, late>>
          /\ outcome'.status = "running" /\ outcome'.attempts = outcome.attempts
      BY <1>0, <1>3 DEF BeginCreate, OutcomeRow
    <2>2. AtWork(r)'
      BY <1>0, <2>1, AloneStep DEF AtWork
    <2>3. \A s \in Active : InHand(s)'
      BY <1>0, <1>1, <2>1, AloneStep DEF InHand
    <2> QED
      BY <1>0, <2>1, <2>2, <2>3, AloneStep, SameAttempts DEF AloneInv, NothingHeldBack
  <1>4. CASE RunStart(r)
    <2>1. /\ UNCHANGED <<outcome, action, late, pc, mem>> /\ runs[r].status = "queued"
          /\ \A s \in Runs : runs'[s].attempt = runs[s].attempt
          /\ \A s \in Runs \ {r} : runs'[s] = runs[s]
      BY <1>0, <1>4 DEF RunStart, RunRow
    <2>2. Active' \subseteq Active
      BY <2>1 DEF Active
    <2>3. AttemptNumbersUnique' /\ \A s \in Runs : runs'[s].attempt <= outcome'.attempts
      BY <2>1 DEF AloneInv, AttemptNumbersUnique, Attached
    <2>4. \A p \in Procs : AtWork(p)'
      <3>1. \A p \in Procs : pc[p] = "begin" => p \in Runs
        BY <1>0, <1>4, OthersIdle DEF RunStart
      <3> QED
        BY <2>1, <3>1 DEF AloneInv, AtWork, Busy, HeldNow, Live
    <2> QED
      BY <2>1, <2>2, <2>3, <2>4 DEF AloneInv, OneBusy, Busy, InHand, NothingHeldBack, HeldNow, Live
  <1>5. ASSUME NEW a \in Held, RunHold(r, a) PROVE AloneInv'
    <2>1. UNCHANGED <<outcome, runs, pc, mem, late>> /\ pc[r] = "exec" /\ outcome.status = "running"
      BY <1>0, <1>5 DEF RunHold, AtWork
    <2>2. \A p \in Procs : pc[p] # "settle"
      BY <1>0, <2>1, OthersIdle
    <2>3. \A p \in Procs : AtWork(p)'
      BY <2>1, <2>2 DEF AloneInv, AtWork, Busy, Live
    <2> QED
      BY <2>1, <2>3, SameAttempts DEF AloneInv, OneBusy, Busy, InHand, NothingHeldBack
  <1>6. ASSUME NEW label \in {"verify", "idle"}, NEW local, Goto(r, label, local),
               NEW status \in {"succeeded", "failed"}, pc[r] = "exec",
               runs' = [runs EXCEPT ![r].status = status], UNCHANGED <<outcome, action>>,
               late \subseteq late'
        PROVE  AloneInv'
    <2>1. /\ \A s \in Runs : runs'[s].attempt = runs[s].attempt
          /\ \A s \in Runs \ {r} : runs'[s] = runs[s]
          /\ runs'[r].status = status
      BY <1>0, <1>6 DEF RunRow
    <2>2. Active' = {}
      BY <1>1, <1>6, <2>1 DEF Active
    <2>3. AttemptNumbersUnique' /\ \A s \in Runs : runs'[s].attempt <= outcome'.attempts
      BY <1>6, <2>1 DEF AloneInv, AttemptNumbersUnique, Attached
    <2>4. AtWork(r)'
      BY <1>0, <1>6, AloneStep DEF AtWork, Busy
    <2> QED
      BY <1>0, <1>6, <2>2, <2>3, <2>4, AloneStep DEF AloneInv, NothingHeldBack, HeldNow, Live
  <1>7. ASSUME NEW s \in {"succeeded", "failed"}, RunEnd(r, s) PROVE AloneInv'
    BY <1>6, <1>7 DEF RunEnd
  <1>8. CASE RunEarlyExit(r)
    BY <1>6, <1>8 DEF RunEarlyExit, Finish
  <1> QED
    BY <1>2, <1>3, <1>4, <1>5, <1>7, <1>8 DEF Run

(* A late call is told apart from those that a verification lists.         *)
LEMMA AloneLate ==
  ASSUME AloneInv, NEW a \in Held, LateHold(a)
  PROVE  AloneInv'
  <1>1. /\ UNCHANGED <<outcome, runs, pc, mem, late>> /\ a \in late
        /\ HeldNow' \subseteq HeldNow \cup {a}
    BY DEF LateHold, HeldNow
  <1>2. \A p \in Procs : AtWork(p)'
    BY <1>1 DEF AloneInv, AtWork, Busy, Live
  <1>3. NothingHeldBack'
    BY <1>1 DEF AloneInv, NothingHeldBack, Live
  <1> QED
    BY <1>1, <1>2, <1>3, SameAttempts DEF AloneInv, OneBusy, Busy, InHand

(* A coroutine ends, or goes on to a label at which it has no run in hand, *)
(* when no run is in hand.                                                 *)
LEMMA AloneChecks ==
  ASSUME TypeOK, AloneInv, NEW p \in Procs, Busy(p), NEW label, NEW local,
         Goto(p, label, local), UNCHANGED <<runs, action, late>>,
         label \in {"idle", "mark", "check", "settle", "deliver", "receipt"},
         pc[p] \notin {"begin", "link", "attach", "exec", "start"},
         outcome'.attempts = outcome.attempts, outcome'.trigger = outcome.trigger,
         outcome'.status = "delivered" /\ Live(outcome) => HeldNow \subseteq late,
         label # "idle" => \/ outcome'.status \in {"verifying", "delivered"}
                           \/ p # Loop /\ outcome'.status = outcome.status
                           \/ p = Loop,
         label = "settle" /\ Live(outcome) => HeldNow \subseteq local.held \cup late
  PROVE  AloneInv'
  <1>1. AtWork(p) /\ OneBusy
    BY DEF AloneInv
  <1>2. Active = {}
    <2>1. ASSUME NEW r \in Active PROVE FALSE
      <3>1. r \in Runs /\ InHand(r)
        BY DEF AloneInv, Active
      <3>2. \A q \in Procs \ {p} : pc[q] = "idle"
        BY <1>1, OthersIdle
      <3> QED
        BY <3>1, <3>2, RunsAreProcs DEF InHand, Procs
    <2> QED
      BY <2>1
  <1>3. AtWork(p)'
    BY <1>1, AloneStep DEF AtWork, Busy, HeldNow, Live
  <1> QED
    BY <1>1, <1>2, <1>3, AloneStep, SameAttempts DEF AloneInv, NothingHeldBack, HeldNow, Live

LEMMA AloneVerify ==
  ASSUME IInv, AloneInv, NEW p \in Procs, Verify(p)
  PROVE  AloneInv'
  <1> USE MemoryFields DEF db
  <1>0. /\ TypeOK /\ AtWork(p) /\ NothingHeldBack /\ Busy(p) /\ Sound(pc[p], mem[p])
        /\ outcome \in OutcomeRow
        /\ pc[p] \in {"verify", "mark", "check", "settle", "deliver", "receipt"}
    <2>1. pc[p] \in {"verify", "mark", "check", "settle", "deliver", "receipt"}
      BY DEF Verify, VerifyRead, VerifyMark, VerifyCheck, SettleAwaiting, SettleDelivered,
             SettleNoRecovery, SettleFailed, SettleUnavailable, NotDelivered, VerifyRaises,
             DeliverRead, DeliverReceipt
    <2> QED
      BY <2>1, SoundOf DEF IInv, AloneInv, Busy
  <1>1. CASE VerifyRead(p)
    <2>1. PICK local : Goto(p, "mark", local)
      BY <1>1 DEF VerifyRead
    <2> QED
      BY <1>0, <1>1, <2>1, AloneChecks DEF VerifyRead, NothingHeldBack
  <1>2. CASE VerifyMark(p)
    <2>1. /\ outcome'.status = "verifying" /\ outcome'.attempts = outcome.attempts
          /\ outcome'.trigger = outcome.trigger
      BY <1>0, <1>2 DEF VerifyMark, OutcomeRow
    <2>2. PICK local : Goto(p, "check", local)
      BY <1>2 DEF VerifyMark
    <2> QED
      BY <1>0, <1>2, <2>1, <2>2, AloneChecks DEF VerifyMark
  <1>3. ASSUME NEW auto \in CheckOutcomes, VerifyCheck(p, auto) PROVE AloneInv'
    <2> DEFINE local == [mem[p] EXCEPT !.auto = auto, !.held = Listed(mem[p].seen)]
    <2>1. mem[p].seen.trigger = outcome.trigger
      BY <1>0, <1>3 DEF VerifyCheck, Sound, Checking
    <2>2. Live(outcome) => HeldNow \subseteq local.held \cup late
      BY <1>0, <2>1 DEF Memory, Listed, Live
    <2>3. Goto(p, "settle", local)
      BY <1>3 DEF VerifyCheck
    <2> HIDE DEF local
    <2> QED
      BY <1>0, <1>3, <2>2, <2>3, AloneChecks DEF VerifyCheck, NothingHeldBack
  <1>4. CASE SettleDelivered(p)
    <2>1. /\ outcome'.status = "delivered" /\ outcome'.attempts = outcome.attempts
          /\ outcome'.trigger = outcome.trigger
      BY <1>0, <1>4 DEF SettleDelivered, OutcomeRow
    <2>2. Live(outcome) => HeldNow \subseteq late
      BY <1>0, <1>4 DEF SettleDelivered, AtWork
    <2> QED
      BY <1>0, <1>4, <2>1, <2>2, AloneChecks DEF SettleDelivered
  <1>5. CASE DeliverRead(p)
    <2>1. PICK label \in {"receipt", "idle"} : \E local : Goto(p, label, local)
      BY <1>5 DEF DeliverRead, Finish
    <2> QED
      BY <1>0, <1>5, <2>1, AloneChecks DEF DeliverRead, NothingHeldBack
  <1>6. CASE DeliverReceipt(p)
    <2>1. /\ outcome'.status = outcome.status /\ outcome'.attempts = outcome.attempts
          /\ outcome'.trigger = outcome.trigger
      BY <1>0, <1>6 DEF DeliverReceipt, OutcomeRow
    <2> QED
      BY <1>0, <1>6, <2>1, AloneChecks DEF DeliverReceipt, Finish, NothingHeldBack
  <1>7. CASE VerifyRaises(p)
    BY <1>0, <1>7, AloneChecks DEF VerifyRaises, Finish, NothingHeldBack
  <1>8. CASE SettleAwaiting(p) \/ SettleNoRecovery(p)
    <2>1. /\ outcome'.status # "delivered" /\ outcome'.attempts = outcome.attempts
          /\ outcome'.trigger = outcome.trigger
      BY <1>0, <1>8 DEF SettleAwaiting, SettleNoRecovery, OutcomeRow
    <2> QED
      BY <1>0, <1>8, <2>1, AloneChecks DEF SettleAwaiting, SettleNoRecovery, Finish
  <1>9. ASSUME NEW class, NEW step \in {"retry", "reverify", "needs_you", "gave_up"},
               WriteDecision(p, class, step), pc[p] = "settle"
        PROVE  AloneInv'
    <2>1. /\ outcome'.status = StatusAfter(step) /\ outcome'.attempts = outcome.attempts
          /\ outcome'.trigger = outcome.trigger
      BY <1>0, <1>9 DEF WriteDecision, OutcomeRow
    <2>2. outcome'.status # "delivered"
      BY <2>1 DEF StatusAfter
    <2> QED
      BY <1>0, <1>9, <2>1, <2>2, AloneChecks DEF WriteDecision, Finish
  <1>10. CASE SettleFailed(p)
    <2>1. PICK class \in Diagnoses(mem[p].ran), overCost, noMemory \in BOOLEAN :
             WriteDecision(p, class, Decide(mem[p].seen, class, overCost, noMemory))
      BY <1>10 DEF SettleFailed
    <2>2. Decide(mem[p].seen, class, overCost, noMemory)
              \in {"retry", "reverify", "needs_you", "gave_up"}
      BY DEF Decide
    <2> QED
      BY <1>9, <1>10, <2>1, <2>2 DEF SettleFailed, NotDelivered
  <1>11. CASE SettleUnavailable(p)
    BY <1>9, <1>11 DEF SettleUnavailable, NotDelivered
  <1> QED
    BY <1>1, <1>2, <1>3, <1>4, <1>5, <1>6, <1>7, <1>8, <1>10, <1>11 DEF Verify

(* A run is attached under the number after the last, which nobody else    *)
(* hands out meanwhile.                                                    *)
LEMMA AloneLink ==
  ASSUME IInv, AloneInv, NEW p \in Procs, LinkRead(p) \/ LinkWrite(p)
  PROVE  AloneInv'
  <1> USE DEF db
  <1>0. /\ TypeOK /\ OneBusy /\ AtWork(p) /\ Busy(p) /\ p \in Runs \cup {Loop} /\ Loop \notin Runs
        /\ outcome \in OutcomeRow /\ mem[p] \in Memory /\ runs \in [Runs -> RunRow]
    BY ProcsAssumption DEF IInv, TypeOK, AloneInv, LinkRead, LinkWrite, Busy, AtWork
  <1>1. \A q \in Procs \ {p} : pc[q] = "idle"
    BY <1>0, OthersIdle
  <1>2. CASE LinkRead(p)
    <2> DEFINE local == [mem[p] EXCEPT !.attempt = NextAttempt]
    <2>1. local.attempt = outcome.attempts + 1 /\ local.run = mem[p].run
      BY <1>0 DEF Memory, NextAttempt
    <2>2. Goto(p, "attach", local) /\ UNCHANGED <<outcome, runs, action, late>> /\ pc[p] = "link"
      BY <1>2 DEF LinkRead
    <2> HIDE DEF local
    <2>3. AtWork(p)'
      BY <1>0, <2>1, <2>2, AloneStep DEF AtWork, Busy
    <2>4. \A r \in Active : InHand(r)'
      BY <1>0, <2>1, <2>2, AloneStep, HandOf, RunsAreProcs DEF AloneInv, InHand, Active
    <2> QED
      BY <1>0, <2>2, <2>3, <2>4, AloneStep, SameAttempts DEF AloneInv, NothingHeldBack, HeldNow, Live
  <1>3. CASE LinkWrite(p)
    <2> DEFINE n == mem[p].attempt
    <2>1. /\ n = outcome.attempts + 1 /\ pc[p] = "attach" /\ UNCHANGED <<action, late>>
          /\ outcome'.attempts = n /\ outcome'.status = outcome.status
          /\ outcome'.trigger = outcome.trigger
      BY <1>0, <1>3 DEF LinkWrite, AtWork, OutcomeRow
    <2>2. \A r \in Runs : /\ runs'[r].status = runs[r].status
                          /\ runs'[r].attempt = IF r = mem[p].run THEN n ELSE runs[r].attempt
      BY <1>0, <1>3 DEF LinkWrite, RunRow
    <2>3. \A r \in Runs : runs[r].attempt <= outcome.attempts /\ runs[r].attempt \in Nat
      BY <1>0 DEF AloneInv, RunRow
    <2>4. outcome.attempts \in Nat
      BY <1>0 DEF OutcomeRow
    <2>5. \A r \in Runs : runs'[r].attempt <= outcome'.attempts
      BY <2>1, <2>2, <2>3, <2>4
    <2>6. AttemptNumbersUnique'
      BY <2>1, <2>2, <2>3, <2>4 DEF AloneInv, AttemptNumbersUnique, Attached
    <2>7. \/ p \in Runs /\ Goto(p, "exec", Blank)
          \/ p = Loop /\ Goto(p, "start", mem[p])
      BY <1>0, <1>3 DEF LinkWrite
    <2>8. AtWork(p)'
      BY <1>0, <2>1, <2>7, AloneStep DEF AtWork, Busy
    <2>9. \A r \in Active' : InHand(r)'
      <3>1. Active' = Active
        BY <2>2 DEF Active
      <3>2. ASSUME NEW r \in Active PROVE InHand(r)'
        <4>1. r \in Runs /\ (p = r \/ (p = Loop /\ mem[p].run = r))
          BY <1>0, HandOf DEF AloneInv, Active
        <4> QED
          BY <1>0, <2>7, <4>1, AloneStep DEF InHand
      <3> QED
        BY <3>1, <3>2
    <2>10. NothingHeldBack'
      BY <2>1 DEF AloneInv, NothingHeldBack, HeldNow, Live
    <2>11. OneBusy' /\ \A q \in Procs \ {p} : AtWork(q)'
      BY <1>0, <2>7, AloneStep
    <2>12. \A q \in Procs : AtWork(q)'
      BY <2>8, <2>11
    <2> QED
      BY <2>5, <2>6, <2>9, <2>10, <2>11, <2>12 DEF AloneInv
  <1> QED
    BY <1>2, <1>3

LEMMA AloneLaunch ==
  ASSUME IInv, AloneInv, NEW p \in Procs, Launch(p)
  PROVE  AloneInv'
  <1>0. /\ TypeOK /\ OneBusy /\ AtWork(p) /\ Busy(p) /\ p = Loop /\ Loop \notin Runs
        /\ outcome \in OutcomeRow /\ mem[p] \in Memory /\ runs \in [Runs -> RunRow]
    BY ProcsAssumption DEF IInv, TypeOK, AloneInv, Launch, LaunchRefused, LaunchCreate,
                           LaunchStart, Busy, AtWork
  <1>1. \A q \in Procs \ {p} : pc[q] = "idle"
    BY <1>0, OthersIdle
  <1>2. CASE LaunchRefused(p)
    <2>1. /\ outcome'.status = "failed" /\ outcome'.attempts = outcome.attempts
          /\ outcome'.trigger = outcome.trigger
      BY <1>0, <1>2 DEF LaunchRefused, OutcomeRow
    <2> QED
      BY <1>0, <1>2, <2>1, AloneChecks DEF LaunchRefused, Finish
  <1>3. CASE LaunchCreate(p)
    <2>1. PICK r \in Runs : /\ runs[r].status = "none"
                            /\ runs' = [runs EXCEPT ![r].status = "queued"]
                            /\ Goto(p, "link", [Blank EXCEPT !.run = r])
      BY <1>3 DEF LaunchCreate
    <2>2. /\ \A s \in Runs : runs'[s].attempt = runs[s].attempt
          /\ \A s \in Runs \ {r} : runs'[s] = runs[s]
      BY <1>0, <2>1 DEF RunRow
    <2>3. pc'[Loop] = "link" /\ mem'[Loop].run = r
      BY <1>0, <2>1, AloneStep DEF Blank
    <2>4. Active = {}
      <3>1. ASSUME NEW s \in Active PROVE FALSE
        BY <1>0, <1>3, HandOf DEF AloneInv, Active, LaunchCreate
      <3> QED
        BY <3>1
    <2>5. Active' \subseteq {r}
      BY <2>2, <2>4 DEF Active
    <2>6. AttemptNumbersUnique' /\ \A s \in Runs : runs'[s].attempt <= outcome'.attempts
      BY <1>3, <2>2 DEF LaunchCreate, AloneInv, AttemptNumbersUnique, Attached
    <2>7. AtWork(p)'
      BY <1>0, <2>3 DEF AtWork
    <2> QED
      BY <1>0, <1>3, <2>1, <2>3, <2>5, <2>6, <2>7, AloneStep
         DEF LaunchCreate, AloneInv, InHand, NothingHeldBack, HeldNow, Live
  <1>4. CASE LaunchStart(p)
    <2> DEFINE m == mem[p].run
    <2>1. m \in Runs \cup {NoRun} /\ m # Loop /\ NoRun \notin Procs
      BY <1>0, ProcsAssumption DEF Memory, Procs
    <2>2. /\ pc[p] = "start" /\ UNCHANGED <<runs, action, late>>
          /\ outcome'.status = "running" /\ outcome'.attempts = outcome.attempts
          /\ outcome'.trigger = outcome.trigger
      BY <1>0, <1>4 DEF LaunchStart, OutcomeRow
    <2>3. \A q \in Procs : pc'[q] = IF q = m THEN "begin" ELSE "idle"
      BY <1>0, <1>1, <1>4, <2>1 DEF LaunchStart, TypeOK
    <2>4. OneBusy' /\ \A q \in Procs : AtWork(q)'
      BY <2>2, <2>3 DEF OneBusy, Busy, AtWork
    <2>5. \A r \in Active : InHand(r)'
      <3>1. ASSUME NEW r \in Active PROVE pc'[r] = "begin"
        <4>1. r = m
          BY <1>0, HandOf DEF AloneInv, Active
        <4> QED
          BY <2>3, <4>1, RunsAreProcs DEF Active
      <3> QED
        BY <3>1 DEF InHand
    <2> QED
      BY <2>2, <2>4, <2>5, SameAttempts DEF AloneInv, NothingHeldBack
  <1> QED
    BY <1>2, <1>3, <1>4 DEF Launch

(* The loop takes up what recovers when nobody is at work; after a crash   *)
(* the resumption starts from nobody at work and no run in hand.           *)
LEMMA AloneLoop ==
  ASSUME IInv, AloneInv,
         LoopTick \/ (\E t \in Rechecks : LoopRecheck(t)) \/ Restart \/ Resume
  PROVE  AloneInv'
  <1> USE DEF db
  <1>0. /\ TypeOK /\ OneBusy /\ Loop \in Procs /\ Boot \in Procs /\ Loop \notin Runs /\ Boot # Loop
        /\ outcome \in OutcomeRow /\ runs \in [Runs -> RunRow] /\ Rechecks \subseteq Procs
        /\ Loop \notin Rechecks
    BY ProcsAssumption DEF IInv, TypeOK, AloneInv, Procs
  <1>1. CASE LoopTick
    <2>1. \A q \in Procs : ~Busy(q)
      BY <1>1 DEF LoopTick, AloneInv, AtWork, Busy
    <2>2. Active = {}
      BY <1>0, <2>1, RunsAreProcs DEF AloneInv, Active, InHand, Busy
    <2>3. PICK label \in {"recheck", "launch"} : \E local : Goto(Loop, label, local)
      BY <1>1 DEF LoopTick
    <2>4. UNCHANGED <<outcome, runs, action, late>>
      BY <1>1 DEF LoopTick
    <2>5. AtWork(Loop)'
      BY <1>0, <2>1, <2>3, AloneStep DEF AtWork
    <2> QED
      BY <1>0, <2>1, <2>2, <2>3, <2>4, <2>5, AloneStep, SameAttempts
         DEF AloneInv, NothingHeldBack, HeldNow, Live
  <1>2. ASSUME NEW t \in Rechecks, LoopRecheck(t) PROVE AloneInv'
    <2>1. \A q \in Procs \ {Loop} : pc[q] = "idle"
      BY <1>0, <1>2, OthersIdle DEF LoopRecheck, Busy
    <2>2. Active = {}
      <3>1. ASSUME NEW s \in Active PROVE FALSE
        BY <1>0, <1>2, HandOf DEF AloneInv, Active, LoopRecheck, Busy
      <3> QED
        BY <3>1
    <2>3. \A q \in Procs : pc'[q] = IF q = t THEN "verify" ELSE "idle"
      BY <1>0, <1>2, <2>1 DEF LoopRecheck, TypeOK
    <2>4. /\ UNCHANGED <<runs, action, late>> /\ outcome'.status = "verifying"
          /\ outcome'.attempts = outcome.attempts
      BY <1>0, <1>2 DEF LoopRecheck, OutcomeRow
    <2>5. OneBusy' /\ \A q \in Procs : AtWork(q)'
      BY <2>3, <2>4 DEF OneBusy, Busy, AtWork
    <2> QED
      BY <2>2, <2>4, <2>5, SameAttempts DEF AloneInv, NothingHeldBack
  <1>3. CASE Restart
    <2>1. /\ UNCHANGED <<outcome, action>>
          /\ \A q \in Procs : pc'[q] = IF q = Boot /\ Pending THEN "resume" ELSE "idle"
      BY <1>3 DEF Restart
    <2>2. \A r \in Runs : /\ runs'[r].attempt = runs[r].attempt
                          /\ runs'[r].status \notin {"queued", "running"}
      BY <1>0, <1>3 DEF Restart, Interrupts, RunRow
    <2>3. Active' = {}
      BY <2>2 DEF Active
    <2>4. AttemptNumbersUnique' /\ \A r \in Runs : runs'[r].attempt <= outcome'.attempts
      BY <2>1, <2>2 DEF AloneInv, AttemptNumbersUnique, Attached
    <2>5. OneBusy' /\ \A q \in Procs : AtWork(q)'
      BY <1>0, <2>1 DEF OneBusy, Busy, AtWork, Pending
    <2>6. \A a \in late : action[a] = "held" => a \in late'
      BY <1>3 DEF Restart
    <2>7. NothingHeldBack'
      BY <2>1, <2>6 DEF AloneInv, NothingHeldBack, HeldNow, Live
    <2> QED
      BY <2>3, <2>4, <2>5, <2>7 DEF AloneInv
  <1>4. CASE Resume
    <2>1. /\ UNCHANGED <<outcome, runs, action, late>> /\ pc[Boot] = "resume" /\ Busy(Boot)
          /\ \E label \in {"idle", "verify"} : \E local : Goto(Boot, label, local)
      BY <1>4 DEF Resume, Finish, Busy
    <2>2. AtWork(Boot) /\ Active = {}
      <3>1. ASSUME NEW s \in Active PROVE FALSE
        <4>1. s \in Runs /\ InHand(s) /\ \A q \in Procs \ {Boot} : pc[q] = "idle"
          BY <1>0, <2>1, OthersIdle DEF AloneInv, Active
        <4> QED
          BY <1>0, <2>1, <4>1, RunsAreProcs DEF InHand
      <3> QED
        BY <1>0, <3>1 DEF AloneInv
    <2>3. PICK label \in {"idle", "verify"} : \E local : Goto(Boot, label, local)
      BY <2>1
    <2>4. AtWork(Boot)'
      BY <1>0, <2>1, <2>2, <2>3, AloneStep DEF AtWork, Busy
    <2> QED
      BY <1>0, <2>1, <2>2, <2>3, <2>4, AloneStep, SameAttempts
         DEF AloneInv, NothingHeldBack, HeldNow, Live
  <1> QED
    BY <1>1, <1>2, <1>3, <1>4

LEMMA AloneInit == Init => AloneInv
  <1> SUFFICES ASSUME Init PROVE AloneInv
    OBVIOUS
  <1>1. \A p \in Procs : pc[p] = IF p = FirstRun THEN "begin" ELSE "idle"
    BY DEF Init
  <1>2. /\ outcome.status = "running" \/ (outcome.status = "none" /\ runs[FirstRun].attempt = 0)
        /\ \A r \in Runs : runs[r].attempt <= outcome.attempts
        /\ \A r \in Runs : r # FirstRun => runs[r].attempt = 0 /\ runs[r].status = "none"
    <2>1. PICK trigger :
             /\ outcome = [NoOutcome EXCEPT !.trigger = trigger,
                             !.status = IF trigger = "dry_run" THEN "running" ELSE "none",
                             !.attempts = IF trigger = "dry_run" THEN 1 ELSE 0]
             /\ runs = [r \in Runs |->
                           [status  |-> IF r = FirstRun THEN "queued" ELSE "none",
                            attempt |-> IF r = FirstRun /\ trigger = "dry_run" THEN 1 ELSE 0,
                            started |-> FALSE]]
      BY DEF Init
    <2>2. /\ outcome.status = IF trigger = "dry_run" THEN "running" ELSE "none"
          /\ outcome.attempts = IF trigger = "dry_run" THEN 1 ELSE 0
      BY <2>1 DEF NoOutcome
    <2>3. \A r \in Runs :
             /\ runs[r].status = IF r = FirstRun THEN "queued" ELSE "none"
             /\ runs[r].attempt = IF r = FirstRun /\ trigger = "dry_run" THEN 1 ELSE 0
      BY <2>1
    <2>4. CASE trigger = "dry_run"
      BY <2>2, <2>3, <2>4
    <2>5. CASE trigger # "dry_run"
      BY <2>2, <2>3, <2>5, ProcsAssumption
    <2> QED
      BY <2>4, <2>5
  <1>3. OneBusy /\ \A p \in Procs : AtWork(p)
    BY <1>1, <1>2, ProcsAssumption DEF OneBusy, Busy, AtWork
  <1>4. \A r \in Active : InHand(r)
    BY <1>1, <1>2, RunsAreProcs DEF Active, InHand
  <1>5. AttemptNumbersUnique /\ NothingHeldBack
    BY <1>2 DEF AttemptNumbersUnique, Attached, NothingHeldBack
  <1> QED
    BY <1>2, <1>3, <1>4, <1>5 DEF AloneInv

(* Without people, one coroutine works on an outcome at a time: the run,   *)
(* its verification, the loop or the resumption after a crash.             *)
THEOREM EngineAlone ==
  ASSUME People = {}
  PROVE  Spec => []AloneInv
  <1>1. IInv /\ TypeOK' /\ AloneInv /\ [Next]_vars => AloneInv'
    <2> SUFFICES ASSUME IInv, TypeOK', AloneInv, [Next]_vars PROVE AloneInv'
      OBVIOUS
    <2>1. CASE UNCHANGED vars
      BY <2>1 DEF vars, AloneInv, OneBusy, Busy, AtWork, InHand, Active, AttemptNumbersUnique,
                  Attached, NothingHeldBack, HeldNow, Live
    <2>2. CASE Next
      BY <2>2, AloneRun, AloneLate, AloneLink, AloneVerify, AloneLaunch, AloneLoop DEF Next
    <2> QED
      BY <2>1, <2>2
  <1> QED
    BY <1>1, AloneInit, Inductive, TypeCorrect, PTL DEF Spec

(* So two attempts are never in hand at once, crashes and resumptions      *)
(* included,                                                               *)
THEOREM AttemptsFollow ==
  ASSUME People = {}
  PROVE  Spec => []OneAttemptAtATime
  <1>1. ASSUME AloneInv, NEW r \in Active, NEW s \in Active PROVE r = s
    <2>1. InHand(r) /\ InHand(s) /\ OneBusy /\ r \in Runs /\ s \in Runs
      BY <1>1 DEF AloneInv, Active
    <2> QED
      BY <2>1, RunsAreProcs, ProcsAssumption DEF InHand, OneBusy, Busy, Procs
  <1>2. AloneInv => OneAttemptAtATime
    BY <1>1 DEF OneAttemptAtATime
  <1> QED
    BY <1>2, EngineAlone, PTL

(* each attempt has a number of its own,                                   *)
THEOREM AttemptsAreNumbered ==
  ASSUME People = {}
  PROVE  Spec => []AttemptNumbersUnique
  <1>1. AloneInv => AttemptNumbersUnique
    BY DEF AloneInv
  <1> QED
    BY <1>1, EngineAlone, PTL

(* and a delivery leaves no call on hold but those of a request that       *)
(* outlived its container.                                                 *)
THEOREM NothingIsHeldBack ==
  ASSUME People = {}
  PROVE  Spec => []NothingHeldBack
  <1>1. AloneInv => NothingHeldBack
    BY DEF AloneInv
  <1> QED
    BY <1>1, EngineAlone, PTL
-----------------------------------------------------------------------------
(* The abstract life of an outcome.                                        *)

(* The attempts whose container was started, and whether the budget allows *)
(* one more.  A retry is granted when it is decided; the loop, the new run *)
(* and crashes in between do not change the count.                         *)
Begun        == {r \in Runs : runs[r].started}
Granted      == Cardinality(Begun) < MaxAttempts
Unaided(log) == \A i \in DOMAIN log : log[i].class # "user"
Retrying     == outcome.status = "recovering" /\ LastStep(outcome.log) # "reverify"

(* A verification works on an outcome that runs or is verified, with the   *)
(* attempts and the log the row has, and a delivery on a delivered one.    *)
Stage(p) ==
    /\ pc[p] \in {"verify", "resume"} \cup Checking => outcome.status \in {"running", "verifying"}
    /\ pc[p] \in {"deliver", "receipt"} => outcome.status = "delivered"
    /\ pc[p] = "verify" => mem[p].recover
    /\ pc[p] \in Checking => /\ mem[p].recover \/ ~Live(outcome)
                             /\ mem[p].seen.attempts = outcome.attempts
                             /\ Unaided(mem[p].seen.log)

(* The loop works on an outcome that recovers, and launches what retries.  *)
LoopStage ==
    /\ pc[Loop] \in {"idle", "launch", "link", "attach", "start", "recheck"}
    /\ pc[Loop] # "idle" => outcome.status = "recovering"
    /\ pc[Loop] \in {"launch", "link", "attach", "start"} => LastStep(outcome.log) # "reverify"

(* A run that is yet to start was granted; one that started has a number.  *)
RunStage(r) ==
    /\ pc[r] \in {"begin", "link", "attach"} => Granted
    /\ pc[r] = "exec" => runs[r].attempt # 0 /\ (runs[r].status = "queued" => Granted)
    /\ pc[r] \in {"link", "attach"} => mem[r].run = r
    /\ runs[r].started => runs[r].attempt # 0

LInv ==
    /\ \A p \in Procs : Stage(p)
    /\ LoopStage
    /\ \A r \in Runs : RunStage(r)
    /\ Unaided(outcome.log)
    /\ Retrying => Granted

(* The numbers of the started attempts tell them apart: there are no more  *)
(* of them than the row counts.                                            *)
LEMMA BegunBounded ==
  ASSUME TypeOK, AloneInv, LInv
  PROVE  IsFiniteSet(Begun) /\ Cardinality(Begun) \in Nat /\ Cardinality(Begun) <= outcome.attempts
  <1> DEFINE n == outcome.attempts
             f == [r \in Begun |-> runs[r].attempt]
  <1>1. n \in Nat
    BY DEF TypeOK, OutcomeRow
  <1>2. \A r \in Begun : r \in Attached /\ runs[r].attempt \in 1..n
    <2>1. ASSUME NEW r \in Begun PROVE r \in Attached /\ runs[r].attempt \in 1..n
      <3>1. /\ r \in Runs /\ runs[r].attempt # 0 /\ runs[r].attempt <= n
            /\ runs[r].attempt \in Nat
        BY DEF Begun, LInv, RunStage, AloneInv, TypeOK, RunRow
      <3> QED
        BY <1>1, <3>1 DEF Attached
    <2> QED
      BY <2>1
  <1>3. f \in Injection(Begun, 1..n)
    <2>1. f \in [Begun -> 1..n]
      BY <1>2
    <2>2. ASSUME NEW r \in Begun, NEW s \in Begun, f[r] = f[s] PROVE r = s
      BY <1>2, <2>2 DEF AloneInv, AttemptNumbersUnique
    <2> QED
      BY <2>1, <2>2 DEF Injection, IsInjective
  <1>4. IsFiniteSet(1..n) /\ Cardinality(1..n) = n
    BY <1>1, FS_Interval
  <1>5. IsFiniteSet(Begun) /\ Cardinality(Begun) <= n
    BY <1>3, <1>4, FS_Injection
  <1> QED
    BY <1>5, FS_CardinalityType

(* Runs that do not start leave the count as it is.                        *)
LEMMA SameBegun ==
  ASSUME \A r \in Runs : runs'[r].started = runs[r].started
  PROVE  Begun' = Begun /\ (Granted' <=> Granted)
  <1>1. Begun' = Begun
    BY DEF Begun
  <1> QED
    BY <1>1 DEF Granted

(* A log without people's entries keeps none when the engine adds one.     *)
LEMMA UnaidedAppend ==
  ASSUME NEW log \in Seq(Entry), Unaided(log), NEW entry, entry.class # "user"
  PROVE  /\ Unaided(Append(log, entry))
         /\ LastStep(Append(log, entry)) = entry.step
  <1>1. /\ DOMAIN Append(log, entry) = 1..(Len(log) + 1) /\ DOMAIN log = 1..Len(log)
        /\ Len(Append(log, entry)) = Len(log) + 1 /\ Len(log) \in Nat
        /\ Append(log, entry) # <<>>
        /\ \A i \in 1..(Len(log) + 1) :
              Append(log, entry)[i] = IF i <= Len(log) THEN log[i] ELSE entry
    OBVIOUS
  <1>2. Unaided(Append(log, entry))
    BY <1>1 DEF Unaided
  <1> QED
    BY <1>1, <1>2 DEF LastStep

(* Such a log has no entry to start a fresh budget from.                   *)
LEMMA NoBase ==
  ASSUME NEW log, Unaided(log)
  PROVE  Base(log) = 0
  <1> DEFINE ofUser == {i \in DOMAIN log : log[i].class = "user"}
             byUser == {log[i].attempt : i \in ofUser}
  <1>1. ofUser = {}
    BY DEF Unaided
  <1>2. byUser = {}
    BY <1>1
  <1>3. Base(log) = CHOOSE n \in byUser \cup {0} : \A k \in byUser : k <= n
    BY DEF Base
  <1> HIDE DEF byUser
  <1> QED
    BY <1>2, <1>3

(* A coroutine other than the loop goes on: the others are idle.           *)
LEMMA LifeStep ==
  ASSUME TypeOK, AloneInv, NEW p \in Procs \ {Loop}, Busy(p), NEW label, NEW local,
         Goto(p, label, local),
         \A r \in Runs : runs'[r].started => runs'[r].attempt # 0,
         Stage(p)', p \in Runs => RunStage(p)',
         Unaided(outcome.log)', (Retrying => Granted)'
  PROVE  LInv'
  <1>1. \A q \in Procs \ {p} : pc'[q] = "idle"
    BY AloneStep DEF AloneInv
  <1>2. \A q \in Procs : Stage(q)'
    BY <1>1 DEF Stage, Checking
  <1>3. \A r \in Runs : RunStage(r)'
    BY <1>1, RunsAreProcs DEF RunStage
  <1>4. LoopStage'
    BY <1>1, RunsAreProcs DEF LoopStage
  <1> QED
    BY <1>2, <1>3, <1>4 DEF LInv

(* What a step other than a start may do to the abstract life.             *)
Quiet == /\ \A r \in Runs : runs'[r].started = runs[r].started
         /\ outcome'.status = outcome.status \/ (Working /\ outcome'.status # "none")

(* begin_attempt and finish_attempt keep the stages, and leave the count   *)
(* to mark_run_started.                                                    *)
LEMMA LifeRun ==
  ASSUME IInv, AloneInv, LInv, NEW r \in Runs, Run(r)
  PROVE  /\ LInv'
         /\ Quiet \/ RunStart(r) \/ (BeginCreate(r) /\ outcome.status = "none")
  <1> USE DEF db
  <1>0. /\ TypeOK /\ r \in Procs \ {Loop} /\ Busy(r) /\ AtWork(r) /\ RunStage(r) /\ Stage(r)
        /\ outcome \in OutcomeRow /\ runs \in [Runs -> RunRow] /\ outcome.status # "recovering"
        /\ Unaided(outcome.log) /\ \A s \in Runs : runs[s].started => runs[s].attempt # 0
        /\ OneBusy
    <2>1. r \in Procs /\ r # Loop
      BY RunsAreProcs, ProcsAssumption
    <2>2. Busy(r)
      BY DEF Run, BeginAttached, BeginCreate, RunStart, RunHold, RunEnd, RunEarlyExit, Busy
    <2>3. TypeOK /\ AtWork(r) /\ OneBusy
      BY <2>1 DEF IInv, AloneInv
    <2> QED
      BY <2>1, <2>2, <2>3 DEF TypeOK, AtWork, LInv, RunStage
  <1>1. CASE BeginAttached(r)
    <2>1. Goto(r, "exec", Blank) /\ UNCHANGED <<outcome, runs>> /\ pc[r] = "begin"
          /\ runs[r].attempt # 0
      BY <1>1 DEF BeginAttached
    <2>2. pc'[r] = "exec"
      BY <1>0, <2>1, AloneStep
    <2>3. RunStage(r)' /\ Stage(r)' /\ (Retrying => Granted)'
      BY <1>0, <2>1, <2>2, SameBegun DEF RunStage, Stage, Checking, Retrying
    <2>4. LInv'
      BY <1>0, <2>1, <2>3, LifeStep
    <2> QED
      BY <2>1, <2>4 DEF Quiet
  <1>2. CASE BeginCreate(r)
    <2> DEFINE local == [Blank EXCEPT !.run = r]
    <2>1. /\ Goto(r, "link", local) /\ UNCHANGED runs /\ pc[r] = "begin"
          /\ outcome'.status = "running" /\ outcome'.log = outcome.log
      BY <1>0, <1>2 DEF BeginCreate, OutcomeRow
    <2>2. pc'[r] = "link" /\ mem'[r].run = r
      BY <1>0, <2>1, AloneStep DEF Blank
    <2>3. RunStage(r)' /\ Stage(r)' /\ (Retrying => Granted)'
      BY <1>0, <2>1, <2>2, SameBegun DEF RunStage, Stage, Checking, Retrying
    <2>4. LInv'
      BY <1>0, <2>1, <2>3, LifeStep
    <2> QED
      BY <1>0, <1>2, <2>1, <2>4 DEF Quiet, AtWork
  <1>3. CASE RunStart(r)
    <2>1. /\ UNCHANGED <<outcome, pc, mem>> /\ pc[r] = "exec"
          /\ \A s \in Runs : runs'[s].attempt = runs[s].attempt
          /\ \A s \in Runs \ {r} : runs'[s] = runs[s]
          /\ runs'[r].status = "running"
      BY <1>0, <1>3 DEF RunStart, RunRow
    <2>2. \A s \in Runs \ {r} : pc[s] = "idle"
      BY <1>0, RunsAreProcs, OthersIdle
    <2>3. \A s \in Runs : RunStage(s)'
      BY <1>0, <2>1, <2>2 DEF RunStage
    <2>4. (\A p \in Procs : Stage(p)') /\ LoopStage'
      BY <2>1 DEF LInv, Stage, LoopStage, Live
    <2>5. (Retrying => Granted)' /\ Unaided(outcome.log)'
      BY <1>0, <2>1 DEF Retrying
    <2> QED
      BY <1>3, <2>3, <2>4, <2>5 DEF LInv
  <1>4. ASSUME NEW a \in Held, RunHold(r, a) PROVE LInv' /\ Quiet
    <2>1. UNCHANGED <<outcome, runs, pc, mem>>
      BY <1>4 DEF RunHold
    <2>2. (\A p \in Procs : Stage(p)') /\ LoopStage'
      BY <2>1 DEF LInv, Stage, LoopStage, Live
    <2>3. \A s \in Runs : RunStage(s)'
      BY <2>1, SameBegun DEF LInv, RunStage
    <2> QED
      BY <1>0, <2>1, <2>2, <2>3 DEF LInv, Quiet, Retrying
  <1>5. ASSUME NEW s \in {"succeeded", "failed"}, RunEnd(r, s) PROVE LInv' /\ Quiet
    <2> DEFINE local == VerifyCall(OrOne(runs[r].attempt), TRUE)
    <2>1. /\ Goto(r, "verify", local) /\ UNCHANGED outcome /\ pc[r] = "exec"
          /\ \A t \in Runs : runs'[t].attempt = runs[t].attempt /\ runs'[t].started = runs[t].started
      BY <1>0, <1>5 DEF RunEnd, RunRow
    <2>0. local.recover = TRUE
      BY DEF VerifyCall, Blank
    <2> HIDE DEF local
    <2>2. pc'[r] = "verify" /\ mem'[r].recover
      <3>1. pc'[r] = "verify" /\ mem'[r] = local
        BY <1>0, <2>1, AloneStep
      <3> QED
        BY <2>0, <3>1
    <2>3. outcome.status = "running"
      BY <1>0, <2>1 DEF AtWork
    <2>4. RunStage(r)' /\ Stage(r)' /\ (Retrying => Granted)'
      BY <1>0, <2>1, <2>2, <2>3 DEF RunStage, Stage, Checking, Retrying
    <2>5. LInv'
      BY <1>0, <2>1, <2>4, LifeStep
    <2> QED
      BY <2>1, <2>5 DEF Quiet
  <1>6. CASE RunEarlyExit(r)
    <2>1. /\ Goto(r, "idle", Blank) /\ UNCHANGED outcome
          /\ \A t \in Runs : runs'[t].attempt = runs[t].attempt /\ runs'[t].started = runs[t].started
      BY <1>0, <1>6 DEF RunEarlyExit, RunRow, Finish
    <2>2. pc'[r] = "idle"
      BY <1>0, <2>1, AloneStep
    <2>3. RunStage(r)' /\ Stage(r)' /\ (Retrying => Granted)'
      BY <1>0, <2>1, <2>2 DEF RunStage, Stage, Checking, Retrying
    <2>4. LInv'
      BY <1>0, <2>1, <2>3, LifeStep
    <2> QED
      BY <2>1, <2>4 DEF Quiet
  <1> QED
    BY <1>1, <1>2, <1>3, <1>4, <1>5, <1>6 DEF Run

(* A late call concerns no stage.                                          *)
LEMMA LifeLate ==
  ASSUME LInv, NEW a \in Held, LateHold(a)
  PROVE  LInv' /\ Quiet
  <1>1. UNCHANGED <<outcome, runs, pc, mem>>
    BY DEF LateHold
  <1>2. (\A p \in Procs : Stage(p)') /\ LoopStage'
    BY <1>1 DEF LInv, Stage, LoopStage, Live
  <1>3. \A s \in Runs : RunStage(s)'
    BY <1>1, SameBegun DEF LInv, RunStage
  <1> QED
    BY <1>1, <1>2, <1>3, SameBegun DEF LInv, Quiet, Retrying

(* The loop goes on, or takes the outcome up: the others are idle.         *)
LEMMA LifeLoopStep ==
  ASSUME TypeOK, AloneInv, NEW label, NEW local, Goto(Loop, label, local),
         label \in {"idle", "launch", "link", "attach", "start", "recheck"},
         Busy(Loop) \/ \A q \in Procs : ~Busy(q),
         \A r \in Runs : runs'[r].started => runs'[r].attempt # 0,
         label # "idle" => outcome'.status = "recovering",
         label \in {"launch", "link", "attach", "start"} => LastStep(outcome'.log) # "reverify",
         Unaided(outcome.log)', (Retrying => Granted)'
  PROVE  LInv'
  <1>1. pc'[Loop] = label /\ \A q \in Procs \ {Loop} : pc'[q] = "idle"
    BY RunsAreProcs, AloneStep DEF AloneInv
  <1>2. \A q \in Procs : Stage(q)'
    BY <1>1 DEF Stage, Checking
  <1>3. \A r \in Runs : RunStage(r)'
    BY <1>1, RunsAreProcs, ProcsAssumption DEF RunStage
  <1>4. LoopStage'
    BY <1>1 DEF LoopStage
  <1> QED
    BY <1>2, <1>3, <1>4 DEF LInv

(* A run is attached by its own task, or by the loop while the outcome     *)
(* still recovers.                                                         *)
LEMMA LifeLink ==
  ASSUME IInv, AloneInv, LInv, NEW p \in Procs, LinkRead(p) \/ LinkWrite(p)
  PROVE  LInv' /\ Quiet
  <1> USE DEF db
  <1>0. /\ TypeOK /\ OneBusy /\ AtWork(p) /\ Busy(p) /\ p \in Runs \cup {Loop} /\ Loop \notin Runs
        /\ Stage(p) /\ LoopStage /\ (p \in Runs => RunStage(p))
        /\ outcome \in OutcomeRow /\ mem[p] \in Memory /\ runs \in [Runs -> RunRow]
        /\ Unaided(outcome.log) /\ (Retrying => Granted)
        /\ \A s \in Runs : runs[s].started => runs[s].attempt # 0
    BY ProcsAssumption
       DEF IInv, TypeOK, AloneInv, LinkRead, LinkWrite, Busy, AtWork, LInv, RunStage
  <1>1. CASE LinkRead(p)
    <2> DEFINE local == [mem[p] EXCEPT !.attempt = NextAttempt]
    <2>1. Goto(p, "attach", local) /\ UNCHANGED <<outcome, runs>> /\ pc[p] = "link"
          /\ local.run = mem[p].run
      BY <1>0, <1>1 DEF LinkRead, Memory
    <2> HIDE DEF local
    <2>2. (Retrying => Granted)' /\ (Granted' <=> Granted)
      BY <1>0, <2>1, SameBegun DEF Retrying
    <2>3. CASE p = Loop
      <3>1. outcome.status = "recovering" /\ LastStep(outcome.log) # "reverify"
        BY <1>0, <2>1, <2>3 DEF LoopStage
      <3> QED
        BY <1>0, <2>1, <2>2, <2>3, <3>1, LifeLoopStep DEF Quiet
    <2>4. CASE p # Loop
      <3>1. pc'[p] = "attach" /\ mem'[p].run = mem[p].run
        BY <1>0, <2>1, AloneStep
      <3>2. RunStage(p)' /\ Stage(p)'
        BY <1>0, <2>1, <2>2, <2>4, <3>1 DEF RunStage, Stage, Checking
      <3> QED
        BY <1>0, <2>1, <2>2, <2>4, <3>2, LifeStep DEF Quiet
    <2> QED
      BY <2>3, <2>4
  <1>2. CASE LinkWrite(p)
    <2> DEFINE n == mem[p].attempt
    <2>1. /\ n = outcome.attempts + 1 /\ pc[p] = "attach"
          /\ outcome'.log = outcome.log /\ outcome'.status = outcome.status
      BY <1>0, <1>2 DEF LinkWrite, AtWork, OutcomeRow
    <2>2. n # 0
      BY <1>0, <2>1 DEF OutcomeRow
    <2>3. \A r \in Runs : /\ runs'[r].started = runs[r].started
                          /\ runs'[r].attempt = IF r = mem[p].run THEN n ELSE runs[r].attempt
      BY <1>0, <1>2 DEF LinkWrite, RunRow
    <2>4. (Retrying => Granted)' /\ (Granted' <=> Granted)
      BY <1>0, <2>1, <2>3, SameBegun DEF Retrying
    <2>5. \A r \in Runs : runs'[r].started => runs'[r].attempt # 0
      BY <1>0, <2>2, <2>3
    <2>6. CASE p = Loop
      <3>1. outcome.status = "recovering" /\ LastStep(outcome.log) # "reverify"
        BY <1>0, <2>1, <2>6 DEF LoopStage
      <3>2. Goto(Loop, "start", mem[Loop])
        BY <1>0, <1>2, <2>6 DEF LinkWrite
      <3> QED
        BY <1>0, <2>1, <2>3, <2>4, <2>5, <2>6, <3>1, <3>2, LifeLoopStep DEF Quiet
    <2>7. CASE p # Loop
      <3>1. Goto(p, "exec", Blank) /\ p \in Runs
        BY <1>0, <1>2, <2>7 DEF LinkWrite
      <3>2. pc'[p] = "exec"
        BY <1>0, <3>1, AloneStep
      <3>3. runs'[p].attempt # 0 /\ Granted
        BY <1>0, <2>1, <2>2, <2>3, <3>1 DEF RunStage
      <3>4. RunStage(p)' /\ Stage(p)'
        BY <2>4, <2>5, <3>1, <3>2, <3>3 DEF RunStage, Stage, Checking
      <3> QED
        BY <1>0, <2>1, <2>3, <2>4, <2>5, <2>7, <3>1, <3>4, LifeStep DEF Quiet
    <2> QED
      BY <2>6, <2>7
  <1> QED
    BY <1>1, <1>2

(* The loop launches what was granted; its run starts at once or later.    *)
LEMMA LifeLaunch ==
  ASSUME IInv, AloneInv, LInv, NEW p \in Procs, Launch(p)
  PROVE  LInv' /\ Quiet
  <1> USE DEF db
  <1>0. /\ TypeOK /\ OneBusy /\ Busy(p) /\ p = Loop /\ Loop \notin Runs /\ LoopStage
        /\ outcome \in OutcomeRow /\ mem[p] \in Memory /\ runs \in [Runs -> RunRow]
        /\ Unaided(outcome.log) /\ (Retrying => Granted)
        /\ outcome.status = "recovering" /\ LastStep(outcome.log) # "reverify"
        /\ \A s \in Runs : runs[s].started => runs[s].attempt # 0
    BY ProcsAssumption
       DEF IInv, TypeOK, AloneInv, Launch, LaunchRefused, LaunchCreate, LaunchStart, Busy, AtWork,
           LInv, RunStage, LoopStage
  <1>1. CASE LaunchRefused(p)
    <2>1. /\ outcome'.status = "failed" /\ outcome'.log = outcome.log /\ UNCHANGED runs
          /\ Goto(Loop, "idle", Blank)
      BY <1>0, <1>1 DEF LaunchRefused, OutcomeRow, Finish
    <2>2. (Retrying => Granted)'
      BY <2>1 DEF Retrying
    <2> QED
      BY <1>0, <2>1, <2>2, LifeLoopStep DEF Quiet, Working
  <1>2. CASE LaunchCreate(p)
    <2>1. PICK r \in Runs : /\ runs' = [runs EXCEPT ![r].status = "queued"]
                            /\ Goto(p, "link", [Blank EXCEPT !.run = r])
      BY <1>2 DEF LaunchCreate
    <2>2. \A s \in Runs : runs'[s].attempt = runs[s].attempt /\ runs'[s].started = runs[s].started
      BY <1>0, <2>1 DEF RunRow
    <2>3. UNCHANGED outcome /\ (Retrying => Granted)'
      BY <1>0, <1>2, <2>2, SameBegun DEF LaunchCreate, Retrying
    <2> QED
      BY <1>0, <2>1, <2>2, <2>3, LifeLoopStep DEF Quiet
  <1>3. CASE LaunchStart(p)
    <2> DEFINE m == mem[p].run
    <2>1. m \in Runs \cup {NoRun} /\ m # Loop /\ NoRun \notin Procs
      BY <1>0, ProcsAssumption DEF Memory, Procs
    <2>2. /\ pc[p] = "start" /\ UNCHANGED runs
          /\ outcome'.status = "running" /\ outcome'.log = outcome.log
      BY <1>0, <1>3 DEF LaunchStart, OutcomeRow
    <2>3. \A q \in Procs : pc'[q] = IF q = m THEN "begin" ELSE "idle"
      <3>1. \A q \in Procs \ {p} : pc[q] = "idle"
        BY <1>0, OthersIdle
      <3> QED
        BY <1>0, <1>3, <2>1, <3>1 DEF LaunchStart, TypeOK
    <2>4. Granted /\ Granted'
      BY <1>0, <2>2, SameBegun DEF Retrying
    <2>5. (\A q \in Procs : Stage(q)') /\ LoopStage'
      BY <2>1, <2>3, RunsAreProcs DEF Stage, Checking, LoopStage
    <2>6. \A r \in Runs : RunStage(r)'
      BY <1>0, <2>2, <2>3, <2>4, RunsAreProcs DEF RunStage
    <2> QED
      BY <1>0, <2>2, <2>4, <2>5, <2>6 DEF LInv, Quiet, Working
  <1> QED
    BY <1>1, <1>2, <1>3 DEF Launch

(* The loop takes up what recovers; a crash leaves the row as it was.      *)
LEMMA LifeLoop ==
  ASSUME IInv, AloneInv, LInv,
         LoopTick \/ (\E t \in Rechecks : LoopRecheck(t)) \/ Restart \/ Resume
  PROVE  LInv' /\ Quiet
  <1> USE DEF db
  <1>0. /\ TypeOK /\ OneBusy /\ Loop \in Procs /\ Boot \in Procs \ {Loop} /\ Loop \notin Runs
        /\ Boot \notin Runs /\ LoopStage
        /\ outcome \in OutcomeRow /\ runs \in [Runs -> RunRow] /\ Rechecks \subseteq Procs
        /\ Loop \notin Rechecks /\ Rechecks \cap Runs = {}
        /\ Unaided(outcome.log) /\ (Retrying => Granted)
        /\ \A s \in Runs : runs[s].started => runs[s].attempt # 0
    BY ProcsAssumption DEF IInv, TypeOK, AloneInv, Procs, LInv, RunStage
  <1>1. CASE LoopTick
    <2>1. UNCHANGED <<outcome, runs>> /\ outcome.status = "recovering"
      BY <1>1 DEF LoopTick
    <2>2. \A q \in Procs : ~Busy(q)
      BY <1>1 DEF LoopTick, AloneInv, AtWork, Busy
    <2>3. PICK label \in {"recheck", "launch"} :
             /\ \E local : Goto(Loop, label, local)
             /\ label = "launch" => LastStep(outcome.log) # "reverify"
      BY <1>1 DEF LoopTick
    <2>4. (Retrying => Granted)'
      BY <1>0, <2>1, SameBegun DEF Retrying
    <2> QED
      BY <1>0, <2>1, <2>2, <2>3, <2>4, LifeLoopStep DEF Quiet
  <1>2. ASSUME NEW t \in Rechecks, LoopRecheck(t) PROVE LInv' /\ Quiet
    <2>1. \A q \in Procs \ {Loop} : pc[q] = "idle"
      BY <1>0, <1>2, OthersIdle DEF LoopRecheck, Busy
    <2>2. \A q \in Procs : pc'[q] = IF q = t THEN "verify" ELSE "idle"
      BY <1>0, <1>2, <2>1 DEF LoopRecheck, TypeOK
    <2>3. /\ UNCHANGED runs /\ outcome'.status = "verifying" /\ outcome'.log = outcome.log
          /\ outcome.status = "recovering"
      BY <1>0, <1>2 DEF LoopRecheck, OutcomeRow, LoopStage
    <2>4. mem'[t].recover
      <3>1. mem'[t] = VerifyCall(mem[Loop].attempt, TRUE)
        BY <1>0, <1>2 DEF LoopRecheck, TypeOK
      <3>2. VerifyCall(mem[Loop].attempt, TRUE).recover = TRUE
        BY DEF VerifyCall, Blank
      <3> QED
        BY <3>1, <3>2
    <2>5. \A q \in Procs : Stage(q)'
      BY <2>2, <2>3, <2>4 DEF Stage, Checking
    <2>6. LoopStage' /\ \A r \in Runs : RunStage(r)'
      BY <1>0, <2>2, <2>3, RunsAreProcs DEF RunStage, LoopStage
    <2> QED
      BY <1>0, <2>3, <2>5, <2>6 DEF LInv, Quiet, Working, Retrying
  <1>3. CASE Restart
    <2>1. /\ UNCHANGED outcome
          /\ \A q \in Procs : pc'[q] = IF q = Boot /\ Pending THEN "resume" ELSE "idle"
      BY <1>3 DEF Restart
    <2>2. \A r \in Runs : runs'[r].attempt = runs[r].attempt /\ runs'[r].started = runs[r].started
      BY <1>0, <1>3 DEF Restart, RunRow
    <2>3. \A q \in Procs : Stage(q)'
      BY <2>1 DEF Stage, Checking, Pending
    <2>4. LoopStage' /\ \A r \in Runs : RunStage(r)'
      BY <1>0, <2>1, <2>2, RunsAreProcs DEF RunStage, LoopStage
    <2>5. (Retrying => Granted)'
      BY <1>0, <2>1, <2>2, SameBegun DEF Retrying
    <2> QED
      BY <1>0, <2>1, <2>2, <2>3, <2>4, <2>5 DEF LInv, Quiet
  <1>4. CASE Resume
    <2>1. UNCHANGED <<outcome, runs>> /\ pc[Boot] = "resume" /\ Busy(Boot)
      BY <1>4 DEF Resume, Busy
    <2>2. (Retrying => Granted)'
      BY <1>0, <2>1, SameBegun DEF Retrying
    <2>3. outcome.status \in {"running", "verifying"}
      BY <1>0, <2>1 DEF LInv, Stage
    <2>4. PICK label \in {"idle", "verify"} : \E local : /\ Goto(Boot, label, local)
                                                         /\ label = "verify" => local.recover
      <3>1. Finish(Boot) \/ Goto(Boot, "verify", VerifyCall(0, TRUE))
        BY <1>4 DEF Resume
      <3>2. VerifyCall(0, TRUE).recover = TRUE
        BY DEF VerifyCall, Blank
      <3> QED
        BY <3>1, <3>2 DEF Finish
    <2>5. PICK local : Goto(Boot, label, local) /\ (label = "verify" => local.recover)
      BY <2>4
    <2>6. pc'[Boot] = label /\ mem'[Boot] = local
      BY <1>0, <2>1, <2>5, AloneStep
    <2>7. Stage(Boot)'
      BY <2>1, <2>3, <2>5, <2>6 DEF Stage, Checking
    <2> QED
      BY <1>0, <2>1, <2>2, <2>5, <2>7, LifeStep DEF Quiet
  <1> QED
    BY <1>1, <1>2, <1>3, <1>4

(* A retry is only decided while the budget allows another attempt.        *)
LEMMA RetryIsGranted ==
  ASSUME TypeOK, AloneInv, LInv, NEW p \in Procs, pc[p] = "settle",
         NEW class, NEW overCost \in BOOLEAN, NEW noMemory \in BOOLEAN,
         Decide(mem[p].seen, class, overCost, noMemory) = "retry"
  PROVE  Granted
  <1> DEFINE o == mem[p].seen
  <1>1. ~Spent(o)
    BY DEF Decide
  <1>2. o.attempts = outcome.attempts /\ Unaided(o.log)
    BY DEF LInv, Stage, Checking
  <1>3. OrOne(outcome.attempts) - 0 < MaxAttempts
    <2>1. Base(o.log) = 0
      BY <1>2, NoBase
    <2>2. OrOne(outcome.attempts) \in Nat
      BY MemoryFields DEF OrOne
    <2> QED
      BY <1>1, <1>2, <2>1, <2>2, SpecAssumption DEF Spent
  <1>4. outcome.attempts \in Nat /\ outcome.attempts <= OrOne(outcome.attempts)
    BY MemoryFields DEF OrOne
  <1> QED
    BY <1>3, <1>4, BegunBounded, SpecAssumption, MemoryFields DEF Granted, OrOne

(* A verification decides once, on the log it read, and the outcome then   *)
(* stops, or recovers as decided.                                          *)
LEMMA LifeDecides ==
  ASSUME IInv, AloneInv, LInv, NEW p \in Procs, NEW class, class # "user",
         NEW step \in {"retry", "reverify", "needs_you", "gave_up"},
         WriteDecision(p, class, step), pc[p] = "settle", step = "retry" => Granted
  PROVE  LInv' /\ Quiet
  <1> DEFINE entry == [attempt |-> OrOne(mem[p].seen.attempts), class |-> class, step |-> step]
  <1>0. /\ TypeOK /\ Busy(p) /\ p \in Procs \ {Loop} /\ Stage(p)
        /\ outcome \in OutcomeRow /\ mem[p].seen.log \in Seq(Entry)
        /\ \A s \in Runs : runs[s].started => runs[s].attempt # 0
    BY MemoryFields DEF IInv, Busy, LInv, LoopStage, RunStage
  <1>1. /\ outcome'.status = StatusAfter(step) /\ outcome'.log = Append(mem[p].seen.log, entry)
        /\ Goto(p, "idle", Blank) /\ UNCHANGED runs
    BY <1>0 DEF WriteDecision, OutcomeRow, Finish
  <1>2. Unaided(mem[p].seen.log) /\ outcome.status \in {"running", "verifying"}
    BY <1>0 DEF Stage, Checking
  <1>3. entry.class = class /\ entry.step = step
    OBVIOUS
  <1> HIDE DEF entry
  <1>4. Unaided(outcome'.log) /\ LastStep(outcome'.log) = step
    BY <1>0, <1>1, <1>2, <1>3, UnaidedAppend
  <1>5. (Retrying => Granted)'
    BY <1>1, <1>4, SameBegun DEF StatusAfter, Retrying
  <1>6. pc'[p] = "idle"
    BY <1>0, <1>1, AloneStep DEF AloneInv
  <1>7. Stage(p)' /\ (p \in Runs => RunStage(p)')
    BY <1>0, <1>1, <1>6 DEF Stage, Checking, RunStage
  <1>8. LInv'
    BY <1>0, <1>1, <1>4, <1>5, <1>7, LifeStep
  <1> QED
    BY <1>1, <1>2, <1>8 DEF Quiet, Working, StatusAfter

(* Any other step of a verification or a delivery.                         *)
LEMMA LifeChecks ==
  ASSUME TypeOK, AloneInv, LInv, NEW p \in Procs \ {Loop}, Busy(p), NEW label, NEW local,
         Goto(p, label, local), label \in {"idle", "mark", "check", "settle", "deliver", "receipt"},
         UNCHANGED runs, outcome'.log = outcome.log, outcome'.status # "recovering",
         outcome'.status = outcome.status \/ (Working /\ outcome'.status # "none"),
         label \in Checking => outcome'.status \in {"running", "verifying"},
         label \in {"deliver", "receipt"} => outcome'.status = "delivered",
         label \in Checking => /\ local.recover \/ ~Live(outcome)
                               /\ local.seen.attempts = outcome.attempts
                               /\ Unaided(local.seen.log),
         outcome'.attempts = outcome.attempts, outcome'.trigger = outcome.trigger
  PROVE  LInv' /\ Quiet
  <1>1. pc'[p] = label /\ mem'[p] = local
    BY AloneStep DEF AloneInv
  <1>2. Stage(p)'
    BY <1>1 DEF Stage, Checking, Live
  <1>3. p \in Runs => RunStage(p)'
    BY <1>1 DEF LInv, RunStage
  <1>4. /\ Unaided(outcome.log)' /\ (Retrying => Granted)'
        /\ \A r \in Runs : runs'[r].started => runs'[r].attempt # 0
    BY DEF LInv, Retrying, RunStage
  <1> QED
    BY <1>2, <1>3, <1>4, LifeStep DEF Quiet

LEMMA LifeVerify ==
  ASSUME IInv, AloneInv, LInv, NEW p \in Procs, Verify(p)
  PROVE  LInv' /\ Quiet
  <1> USE MemoryFields DEF db
  <1>0. /\ TypeOK /\ Busy(p) /\ p \in Procs \ {Loop} /\ Stage(p) /\ Sound(pc[p], mem[p])
        /\ outcome \in OutcomeRow /\ mem[p] \in Memory /\ Unaided(outcome.log)
        /\ outcome.status \in {"running", "verifying", "delivered"}
        /\ pc[p] \in {"verify", "mark", "check", "settle"}
              => outcome.status \in {"running", "verifying"} /\ Working
    <2>1. pc[p] \in {"verify", "mark", "check", "settle", "deliver", "receipt"}
      BY DEF Verify, VerifyRead, VerifyMark, VerifyCheck, SettleAwaiting, SettleDelivered,
             SettleNoRecovery, SettleFailed, SettleUnavailable, NotDelivered, VerifyRaises,
             DeliverRead, DeliverReceipt
    <2>2. Stage(p) /\ p # Loop
      BY <2>1 DEF LInv, LoopStage
    <2> QED
      BY <2>1, <2>2, SoundOf DEF IInv, LInv, Busy, Stage, Checking, Working
  <1>1. CASE VerifyRead(p)
    <2>1. PICK attempt, r : Goto(p, "mark", [mem[p] EXCEPT !.seen = outcome, !.run = r,
                                                 !.attempt = attempt, !.recover = MayRecover(p)])
      BY <1>1 DEF VerifyRead
    <2> DEFINE local == [mem[p] EXCEPT !.seen = outcome, !.run = r,
                                       !.attempt = attempt, !.recover = MayRecover(p)]
    <2>2. local.seen = outcome /\ local.recover = MayRecover(p)
      BY <1>0 DEF Memory
    <2>3. MayRecover(p) \/ ~Live(outcome)
      BY <1>0, <1>1 DEF VerifyRead, MayRecover, Stage
    <2>4. /\ pc[p] = "verify" /\ UNCHANGED <<outcome, runs>> /\ Goto(p, "mark", local)
          /\ local.recover \/ ~Live(outcome)
      BY <1>1, <2>1, <2>2, <2>3 DEF VerifyRead
    <2> HIDE DEF local
    <2> QED
      BY <1>0, <2>2, <2>4, LifeChecks DEF Checking
  <1>2. CASE VerifyMark(p)
    <2> DEFINE local == [mem[p] EXCEPT !.run = NoRun,
                            !.ran = IF mem[p].run = NoRun THEN "none" ELSE runs[mem[p].run].status]
    <2>1. /\ outcome'.status = "verifying" /\ outcome'.attempts = outcome.attempts
          /\ outcome'.trigger = outcome.trigger /\ outcome'.log = outcome.log
          /\ pc[p] = "mark" /\ UNCHANGED runs /\ Goto(p, "check", local)
      BY <1>0, <1>2 DEF VerifyMark, OutcomeRow
    <2>2. local.seen = mem[p].seen /\ local.recover = mem[p].recover
      BY <1>0 DEF Memory
    <2> HIDE DEF local
    <2> QED
      BY <1>0, <2>1, <2>2, LifeChecks DEF Stage, Checking
  <1>3. ASSUME NEW auto \in CheckOutcomes, VerifyCheck(p, auto) PROVE LInv' /\ Quiet
    <2> DEFINE local == [mem[p] EXCEPT !.auto = auto, !.held = Listed(mem[p].seen)]
    <2>1. UNCHANGED <<outcome, runs>> /\ pc[p] = "check" /\ Goto(p, "settle", local)
      BY <1>3 DEF VerifyCheck
    <2>2. local.seen = mem[p].seen /\ local.recover = mem[p].recover
      BY <1>0 DEF Memory
    <2> HIDE DEF local
    <2> QED
      BY <1>0, <2>1, <2>2, LifeChecks DEF Stage, Checking
  <1>4. CASE SettleDelivered(p)
    <2>1. /\ outcome'.status = "delivered" /\ outcome'.attempts = outcome.attempts
          /\ outcome'.trigger = outcome.trigger /\ outcome'.log = outcome.log
          /\ pc[p] = "settle" /\ UNCHANGED runs /\ Goto(p, "deliver", Blank)
      BY <1>0, <1>4 DEF SettleDelivered, OutcomeRow
    <2> QED
      BY <1>0, <2>1, LifeChecks DEF Checking
  <1>5. CASE SettleAwaiting(p) \/ SettleNoRecovery(p)
    <2>1. /\ outcome'.attempts = outcome.attempts /\ outcome'.trigger = outcome.trigger
          /\ outcome'.log = outcome.log
          /\ pc[p] = "settle" /\ UNCHANGED runs /\ Goto(p, "idle", Blank)
      BY <1>0, <1>5 DEF SettleAwaiting, SettleNoRecovery, NotDelivered, OutcomeRow, Finish
    <2>2. outcome'.status \in {"awaiting_approval", "failed"}
      <3>1. CASE SettleAwaiting(p)
        BY <1>0, <3>1 DEF SettleAwaiting, OutcomeRow
      <3>2. CASE SettleNoRecovery(p)
        <4>1. mem[p].seen.status \notin {"needs_you", "recovering"}
          BY <1>0, <2>1, <3>2 DEF SettleNoRecovery, Stage, Sound, Checking, Bothering
        <4> QED
          BY <1>0, <3>2, <4>1 DEF SettleNoRecovery, OutcomeRow
      <3> QED
        BY <1>5, <3>1, <3>2
    <2> QED
      BY <1>0, <2>1, <2>2, LifeChecks DEF Checking
  <1>6. CASE DeliverRead(p)
    <2>1. PICK label \in {"receipt", "idle"} : \E local : Goto(p, label, local)
      BY <1>6 DEF DeliverRead, Finish
    <2>2. UNCHANGED <<outcome, runs>> /\ outcome.status = "delivered"
      BY <1>0, <1>6 DEF DeliverRead, Stage
    <2> QED
      BY <1>0, <2>1, <2>2, LifeChecks DEF Checking
  <1>7. CASE DeliverReceipt(p)
    <2>1. /\ outcome'.status = outcome.status /\ outcome'.attempts = outcome.attempts
          /\ outcome'.trigger = outcome.trigger /\ outcome'.log = outcome.log
          /\ UNCHANGED runs /\ Goto(p, "idle", Blank)
      BY <1>0, <1>7 DEF DeliverReceipt, OutcomeRow, Finish
    <2> QED
      BY <1>0, <2>1, LifeChecks DEF Checking
  <1>8. CASE VerifyRaises(p)
    BY <1>0, <1>8, LifeChecks DEF VerifyRaises, Finish, Checking
  <1>9. CASE SettleFailed(p)
    <2>1. PICK class \in Diagnoses(mem[p].ran), overCost, noMemory \in BOOLEAN :
             WriteDecision(p, class, Decide(mem[p].seen, class, overCost, noMemory))
      BY <1>9 DEF SettleFailed
    <2> DEFINE step == Decide(mem[p].seen, class, overCost, noMemory)
    <2>2. step \in {"retry", "reverify", "needs_you", "gave_up"}
      BY DEF Decide
    <2>3. class # "user"
      BY SpecAssumption DEF Diagnoses, FailureClasses
    <2>4. pc[p] = "settle"
      BY <1>9 DEF SettleFailed, NotDelivered
    <2>5. step = "retry" => Granted
      BY <1>0, <2>4, RetryIsGranted
    <2> HIDE DEF step
    <2> QED
      BY <2>1, <2>2, <2>3, <2>4, <2>5, LifeDecides DEF step
  <1>10. CASE SettleUnavailable(p)
    <2>1. PICK step \in {"needs_you", "reverify"} : WriteDecision(p, "verifier_error", step)
      BY <1>10 DEF SettleUnavailable
    <2> QED
      BY <1>10, <2>1, LifeDecides DEF SettleUnavailable, NotDelivered
  <1> QED
    BY <1>1, <1>2, <1>3, <1>4, <1>5, <1>6, <1>7, <1>8, <1>9, <1>10 DEF Verify

(* At first no attempt has started.                                        *)
LEMMA LifeInit == Init => LInv /\ Cardinality(Begun) = 0
  <1> SUFFICES ASSUME Init PROVE LInv /\ Cardinality(Begun) = 0
    OBVIOUS
  <1>1. /\ \A r \in Runs : runs[r].started = FALSE
        /\ outcome.log = <<>> /\ outcome.status \in {"none", "running"}
    <2>1. PICK trigger :
             /\ outcome = [NoOutcome EXCEPT !.trigger = trigger,
                             !.status = IF trigger = "dry_run" THEN "running" ELSE "none",
                             !.attempts = IF trigger = "dry_run" THEN 1 ELSE 0]
             /\ runs = [r \in Runs |->
                           [status  |-> IF r = FirstRun THEN "queued" ELSE "none",
                            attempt |-> IF r = FirstRun /\ trigger = "dry_run" THEN 1 ELSE 0,
                            started |-> FALSE]]
      BY DEF Init
    <2>2. outcome.log = <<>> /\ outcome.status = IF trigger = "dry_run" THEN "running" ELSE "none"
      BY <2>1 DEF NoOutcome
    <2> QED
      BY <2>1, <2>2
  <1>2. Begun = {}
    BY <1>1 DEF Begun
  <1>3. Cardinality(Begun) = 0 /\ Granted
    BY <1>2, FS_EmptySet, SpecAssumption DEF Granted
  <1>4. \A p \in Procs : pc[p] \in {"begin", "idle"}
    BY DEF Init
  <1>5. pc[Loop] = "idle"
    BY RunsAreProcs, ProcsAssumption DEF Init
  <1> QED
    BY <1>1, <1>3, <1>4, <1>5, RunsAreProcs
       DEF LInv, Stage, Checking, LoopStage, RunStage, Unaided, Retrying

(* The budget's invariant, with the one that the engine works alone.       *)
THEOREM BudgetKept ==
  ASSUME People = {}
  PROVE  Spec => []LInv
  <1>1. IInv /\ AloneInv /\ LInv /\ [Next]_vars => LInv'
    <2> SUFFICES ASSUME IInv, AloneInv, LInv, [Next]_vars PROVE LInv'
      OBVIOUS
    <2>1. CASE UNCHANGED vars
      <3>1. UNCHANGED <<outcome, runs, pc, mem>>
        BY <2>1 DEF vars
      <3>2. (\A p \in Procs : Stage(p)') /\ LoopStage'
        BY <3>1 DEF LInv, Stage, LoopStage, Live
      <3>3. \A s \in Runs : RunStage(s)'
        BY <3>1, SameBegun DEF LInv, RunStage
      <3> QED
        BY <3>1, <3>2, <3>3, SameBegun DEF LInv, Retrying
    <2>2. CASE Next
      BY <2>2, LifeRun, LifeLate, LifeLink, LifeVerify, LifeLaunch, LifeLoop DEF Next
    <2> QED
      BY <2>1, <2>2
  <1>2. Init => LInv
    BY LifeInit
  <1> QED
    BY <1>1, <1>2, EngineAlone, Inductive, PTL DEF Spec

(* A step without a start keeps the phase, or stops a working outcome.     *)
LEMMA QuietRefines ==
  ASSUME TypeOK, TypeOK', Quiet
  PROVE  [Lifecycle!Next]_(Lifecycle!vars)
  <1>1. Begun' = Begun
    BY SameBegun DEF Quiet
  <1>2. Cardinality(Begun)' = Cardinality(Begun)
    BY <1>1
  <1>3. outcome.status \in Status /\ outcome'.status \in Status
    BY DEF TypeOK, OutcomeRow
  <1>4. CASE outcome'.status = outcome.status
    BY <1>2, <1>4 DEF Lifecycle!vars, Begun
  <1>5. CASE Working /\ outcome'.status # "none"
    <2>1. CASE Working'
      BY <1>2, <1>5, <2>1 DEF Lifecycle!vars, Begun, Working
    <2>2. CASE ~Working'
      <3>1. outcome'.status \in {"delivered", "failed", "awaiting_approval", "needs_you"}
        BY <1>3, <1>5, <2>2 DEF Working, Status
      <3> QED
        BY <1>2, <1>5, <3>1 DEF Lifecycle!Next, Lifecycle!Stop, Lifecycle!Stopped, Begun, Working
    <2> QED
      BY <2>1, <2>2
  <1> QED
    BY <1>4, <1>5 DEF Quiet

(* A start is an attempt within the budget.                                *)
LEMMA StartRefines ==
  ASSUME TypeOK, AloneInv, LInv, NEW r \in Runs, RunStart(r)
  PROVE  [Lifecycle!Next]_(Lifecycle!vars)
  <1>1. /\ r \in Procs /\ outcome' = outcome /\ pc[r] = "exec" /\ runs[r].status = "queued"
        /\ runs \in [Runs -> RunRow] /\ runs[r].started \in BOOLEAN
    BY RunsAreProcs DEF RunStart, TypeOK, RunRow
  <1>2. \A s \in Runs : runs'[s].started = (s = r \/ runs[s].started)
    BY <1>1 DEF RunStart, RunRow
  <1>3. Begun' = Begun \cup {r}
    BY <1>2 DEF Begun
  <1>4. Granted /\ outcome.status = "running"
    BY <1>1 DEF LInv, RunStage, AloneInv, AtWork
  <1>5. IsFiniteSet(Begun)
    BY BegunBounded
  <1>6. Cardinality(Begun)' = IF r \in Begun THEN Cardinality(Begun) ELSE Cardinality(Begun) + 1
    BY <1>3, <1>5, FS_AddElement
  <1>7. CASE r \in Begun
    BY <1>1, <1>6, <1>7 DEF Lifecycle!vars, Begun
  <1>8. CASE r \notin Begun
    BY <1>1, <1>4, <1>6, <1>8 DEF Lifecycle!Next, Lifecycle!Attempt, Begun, Granted
  <1> QED
    BY <1>7, <1>8

(* begin_attempt opens the outcome.                                        *)
LEMMA CreateRefines ==
  ASSUME TypeOK, NEW r \in Runs, BeginCreate(r), outcome.status = "none"
  PROVE  [Lifecycle!Next]_(Lifecycle!vars)
  <1>1. outcome'.status = "running" /\ UNCHANGED runs
    BY DEF BeginCreate, TypeOK, OutcomeRow
  <1> QED
    BY <1>1 DEF Lifecycle!Next, Lifecycle!Open

(* Without people, the engine implements the abstract life of an outcome:  *)
(* no more attempts start than the budget allows, over any crashes, and an *)
(* outcome that stopped is never touched again.                            *)
THEOREM LifecycleKept ==
  ASSUME People = {}
  PROVE  Spec => ImplementsLifecycle
  <1>1. Init => Lifecycle!Init
    <2> SUFFICES ASSUME Init PROVE Lifecycle!Init
      OBVIOUS
    <2>1. outcome.status \in {"none", "running"}
      BY DEF Init, NoOutcome
    <2>2. Cardinality(Begun) = 0
      BY LifeInit
    <2> QED
      BY <2>1, <2>2 DEF Lifecycle!Init, Begun
  <1>2. TypeOK /\ TypeOK' /\ IInv /\ AloneInv /\ LInv /\ [Next]_vars
           => [Lifecycle!Next]_(Lifecycle!vars)
    <2> SUFFICES ASSUME TypeOK, TypeOK', IInv, AloneInv, LInv, [Next]_vars
                 PROVE  [Lifecycle!Next]_(Lifecycle!vars)
      OBVIOUS
    <2>1. Quiet => [Lifecycle!Next]_(Lifecycle!vars)
      BY QuietRefines
    <2>2. ASSUME NEW r \in Runs, Run(r) PROVE [Lifecycle!Next]_(Lifecycle!vars)
      BY <2>1, <2>2, LifeRun, StartRefines, CreateRefines
    <2>3. UNCHANGED vars => Quiet
      BY DEF vars, Quiet
    <2>4. CASE Next
      BY <2>1, <2>2, <2>4, LifeLate, LifeLink, LifeVerify, LifeLaunch, LifeLoop DEF Next
    <2> QED
      BY <2>1, <2>3, <2>4
  <1> QED
    BY <1>1, <1>2, TypeCorrect, Inductive, EngineAlone, BudgetKept, PTL
       DEF Spec, ImplementsLifecycle, Lifecycle!Spec
=============================================================================
