------------------------------ MODULE Delivery ------------------------------
(***************************************************************************)
(* The message destinations of ONE live outcome (app/deliver.py): the      *)
(* deliveries table, and every coroutine that may be inside                *)
(* deliver_outcome for it at the same time: a verification or an approval  *)
(* that just delivered it, recovery_loop's retry_due, and people who ask   *)
(* to deliver again.  A call visits the destinations in order; reading a   *)
(* row, sending and recording are separate steps with awaits between.      *)
(***************************************************************************)
EXTENDS Integers, FiniteSets

CONSTANTS
    Verifiers,      \* verifications and approvals, see module OutcomeEngine
    People,         \* members who may ask for a redelivery
    Loop,           \* recovery_loop()
    Destinations,   \* how many items of deliver_to are message destinations
    MaxTries,       \* MAX_ATTEMPTS
    Answers,        \* how a send may end in this model, see Send
    MaxChecks,      \* bound: verifications
    MaxForced,      \* bound: redeliveries asked for by people
    MaxRestarts     \* bound: crashes of the server

Procs == Verifiers \cup People \cup {Loop}
Dests == 1..Destinations

ASSUME DeliveryAssumption ==
    /\ Verifiers \cap People = {} /\ Loop \notin Verifiers \cup People
    /\ IsFiniteSet(Procs)
    /\ Destinations \in Nat /\ MaxTries \in Nat \ {0}
    /\ Answers \subseteq {"ok", "error", "lost"}
    /\ MaxChecks \in Nat /\ MaxForced \in Nat /\ MaxRestarts \in Nat

VARIABLES
    status,     \* status of the outcome
    rows,       \* the deliveries table
    receipt,    \* receipt_json: its status, and the destinations shown as sent
    arrived,    \* messages that reached each destination
    tries,      \* sends begun to each destination
    told,       \* destinations somebody was told could not be reached
    pc, mem,    \* where each coroutine is, and its local variables
    checks, forced, restarts,
    disturbed   \* history: calls overlapped, or one was cut or misled

tables == <<status, rows, receipt, told>>
world  == <<arrived, tries>>
bounds == <<checks, forced, restarts>>
vars   == <<tables, world, pc, mem, bounds, disturbed>>

-----------------------------------------------------------------------------
(* next: next_try_at is not set, set and to come, or due.                  *)
Row   == [status : {"none", "pending", "sent", "failed"}, attempts : Nat,
          next : {"never", "later", "due"}]
NoRow == [status |-> "none", attempts |-> 0, next |-> "never"]

(* at: the destination at hand.  before: row["attempts"] as it was read.   *)
(* proof: the receipt's status when the outcome was read.                  *)
Verdicts == {"none", "failed", "delivered"}
Memory == [force : BOOLEAN, at : Nat, before : Nat, ok : BOOLEAN,
           proof : Verdicts, listed : SUBSET Dests]
Blank  == [force |-> FALSE, at |-> 1, before |-> 0, ok |-> FALSE,
           proof |-> "none", listed |-> {}]
Labels == {"idle", "checking", "begin", "claim", "send", "mark", "tell", "receipt"}

(* Rows, receipt and coroutines have their types.                          *)
TypeOK ==
    /\ status \in {"verifying", "delivered", "failed"}
    /\ rows \in [Dests -> Row]
    /\ receipt \in [status : Verdicts, sent : SUBSET Dests]
    /\ arrived \in [Dests -> Nat] /\ tries \in [Dests -> Nat]
    /\ told \in SUBSET Dests
    /\ pc \in [Procs -> Labels] /\ mem \in [Procs -> Memory]
    /\ checks \in Nat /\ forced \in Nat /\ restarts \in Nat
    /\ disturbed \in BOOLEAN

(* The receipt of a verification says nothing of deliveries yet.           *)
NewReceipt(verdict) == [status |-> verdict, sent |-> {}]

(* The checks of the outcome are being run for the first time.             *)
Init ==
    /\ status = "verifying"
    /\ rows = [d \in Dests |-> NoRow]
    /\ receipt = NewReceipt("none") /\ told = {}
    /\ arrived = [d \in Dests |-> 0] /\ tries = [d \in Dests |-> 0]
    /\ \E v \in Verifiers :
           pc = [p \in Procs |-> IF p = v THEN "checking" ELSE "idle"]
    /\ mem = [p \in Procs |-> Blank]
    /\ checks = 1 /\ forced = 0 /\ restarts = 0
    /\ disturbed = FALSE

Goto(p, label, local) ==
    /\ pc'  = [pc  EXCEPT ![p] = label]
    /\ mem' = [mem EXCEPT ![p] = local]
Finish(p) == Goto(p, "idle", Blank)

InCall(p) == pc[p] \in {"claim", "send", "mark", "tell", "receipt"}

-----------------------------------------------------------------------------
(* The callers.                                                            *)

(* The checks are run again, by hand.                                      *)
Recheck(v) ==
    /\ pc[v] = "idle" /\ checks < MaxChecks
    /\ checks' = checks + 1
    /\ status' = "verifying"
    /\ Goto(v, "checking", Blank)
    /\ UNCHANGED <<rows, receipt, told, world, forced, restarts, disturbed>>

(* A verification or an approval ends: a new receipt and, when it passed,  *)
(* a call of deliver_outcome.                                              *)
Verified(v) ==
    /\ pc[v] = "checking"
    /\ status' = "delivered" /\ receipt' = NewReceipt("delivered")
    /\ Goto(v, "begin", Blank)
    /\ UNCHANGED <<rows, told, world, bounds, disturbed>>

NotVerified(v) ==
    /\ pc[v] = "checking"
    /\ status' = "failed" /\ receipt' = NewReceipt("failed")
    /\ Finish(v)
    /\ UNCHANGED <<rows, told, world, bounds, disturbed>>

(* retry_due: the outcome has a failed delivery whose time has come.       *)
RetryDue ==
    /\ pc[Loop] = "idle"
    /\ \E d \in Dests : rows[d].status = "failed" /\ rows[d].next = "due"
    /\ Goto(Loop, "begin", Blank)
    /\ UNCHANGED <<tables, world, bounds, disturbed>>

(* POST /deliver: force.                                                   *)
AskDeliver(u) ==
    /\ pc[u] = "idle" /\ forced < MaxForced
    /\ status = "delivered"
    /\ forced' = forced + 1
    /\ Goto(u, "begin", [Blank EXCEPT !.force = TRUE])
    /\ UNCHANGED <<tables, world, checks, restarts, disturbed>>

TimePasses(d) ==
    /\ rows[d].next = "later"
    /\ rows' = [rows EXCEPT ![d].next = "due"]
    /\ UNCHANGED <<status, receipt, told, world, pc, mem, bounds, disturbed>>

-----------------------------------------------------------------------------
(* deliver_outcome.                                                        *)

Begin(p) ==
    /\ pc[p] = "begin"
    /\ IF status = "delivered"
       THEN /\ Goto(p, "claim", [mem[p] EXCEPT !.proof = receipt.status])
            /\ disturbed' = (disturbed \/ \E q \in Procs : InCall(q))
       ELSE Finish(p) /\ UNCHANGED disturbed
    /\ UNCHANGED <<tables, world, bounds>>

(* The rows this call leaves alone.                                        *)
Resends(row, force) ==                                  \* a mutant
    /\ row.status = "failed" /\ ~force
    /\ row.attempts >= MaxTries \/ row.next # "due"
Skips(row, force) ==
    \/ row.status = "sent"
    \/ /\ row.status = "failed" /\ ~force
       /\ row.attempts >= MaxTries \/ row.next # "due"

(* claim_delivery creates the row unless it is there, and reads it; the    *)
(* send begins in the same step.                                           *)
Claimed(row) == IF row.status = "none" THEN [row EXCEPT !.status = "pending"] ELSE row
Claim(p) ==
    /\ pc[p] = "claim" /\ mem[p].at \in Dests
    /\ LET d   == mem[p].at
           row == Claimed(rows[d])
       IN  /\ rows' = [rows EXCEPT ![d] = row]
           /\ IF Skips(row, mem[p].force)
              THEN /\ Goto(p, "claim", [mem[p] EXCEPT !.at = d + 1])
                   /\ UNCHANGED tries
              ELSE /\ Goto(p, "send", [mem[p] EXCEPT !.before = row.attempts])
                   /\ tries' = [tries EXCEPT ![d] = @ + 1]
    /\ UNCHANGED <<status, receipt, told, arrived, bounds, disturbed>>

(* The service answers, refuses, or takes the message but its answer never *)
(* comes back (a timeout): the code sees an error then, too.               *)
AnswerSeen(answer) == TRUE                              \* a mutant
Answered(answer)   == answer = "ok"
Send(p, answer) ==
    /\ pc[p] = "send"
    /\ arrived' = IF answer = "error" THEN arrived
                  ELSE [arrived EXCEPT ![mem[p].at] = @ + 1]
    /\ Goto(p, "mark", [mem[p] EXCEPT !.ok = Answered(answer)])
    /\ disturbed' = (disturbed \/ answer = "lost")
    /\ UNCHANGED <<tables, tries, bounds>>

MarkSent(p) ==
    /\ pc[p] = "mark" /\ mem[p].ok
    /\ rows' = [rows EXCEPT ![mem[p].at] =
           [status |-> "sent", attempts |-> @.attempts + 1, next |-> "never"]]
    /\ Goto(p, "claim", [mem[p] EXCEPT !.at = @ + 1])
    /\ UNCHANGED <<status, receipt, told, world, bounds, disturbed>>

(* The number of tries is counted in the table; whether this was the last  *)
(* one is decided on the number read before the send.                      *)
CountedNever(row) == row.attempts                       \* a mutant
Counted(row)      == row.attempts + 1
LastTryLate(m)    == m.before > MaxTries                \* a mutant
LastTry(m)        == m.before + 1 >= MaxTries
RetryNever(m)     == "never"                            \* a mutant
RetryAt(m)        == IF LastTry(m) THEN "never" ELSE "later"
MarkFailed(p) ==
    /\ pc[p] = "mark" /\ ~mem[p].ok
    /\ rows' = [rows EXCEPT ![mem[p].at] =
           [status |-> "failed", attempts |-> Counted(@), next |-> RetryAt(mem[p])]]
    /\ IF LastTry(mem[p]) THEN Goto(p, "tell", mem[p])
       ELSE Goto(p, "claim", [mem[p] EXCEPT !.at = @ + 1])
    /\ UNCHANGED <<status, receipt, told, world, bounds, disturbed>>

(* The destination is given up: an escalation and a notification.          *)
Tell(p) ==
    /\ pc[p] = "tell"
    /\ told' = told \cup {mem[p].at}
    /\ Goto(p, "claim", [mem[p] EXCEPT !.at = @ + 1])
    /\ UNCHANGED <<status, rows, receipt, world, bounds, disturbed>>

(* At the end the deliveries are listed, and put on the receipt that was   *)
(* read at the beginning, which is written back.                           *)
ListDeliveries(p) ==
    /\ pc[p] = "claim" /\ mem[p].at \notin Dests
    /\ Goto(p, "receipt",
            [mem[p] EXCEPT !.listed = {d \in Dests : rows[d].status = "sent"}])
    /\ UNCHANGED <<tables, world, bounds, disturbed>>

WriteReceipt(p) ==
    /\ pc[p] = "receipt"
    /\ receipt' = [status |-> mem[p].proof, sent |-> mem[p].listed]
    /\ Finish(p)
    /\ UNCHANGED <<status, rows, told, world, bounds, disturbed>>

Deliver(p) ==
    \/ Begin(p) \/ Claim(p) \/ \E answer \in Answers : Send(p, answer)
    \/ MarkSent(p) \/ MarkFailed(p) \/ Tell(p)
    \/ ListDeliveries(p) \/ WriteReceipt(p)

(* The server dies and comes back; resume_pending verifies the outcome     *)
(* again if its checks were running.                                       *)
Restart ==
    /\ restarts < MaxRestarts
    /\ restarts' = restarts + 1
    /\ disturbed' = (disturbed \/ \E q \in Procs : pc[q] = "begin" \/ InCall(q))
    /\ mem' = [p \in Procs |-> Blank]
    /\ IF status = "verifying"
       THEN \E v \in Verifiers :
                pc' = [p \in Procs |-> IF p = v THEN "checking" ELSE "idle"]
       ELSE pc' = [p \in Procs |-> "idle"]
    /\ UNCHANGED <<tables, world, checks, forced>>

-----------------------------------------------------------------------------

Next ==
    \/ \E v \in Verifiers : Recheck(v) \/ Verified(v) \/ NotVerified(v)
    \/ RetryDue \/ \E u \in People : AskDeliver(u)
    \/ \E d \in Dests : TimePasses(d)
    \/ \E p \in Procs : Deliver(p)
    \/ Restart

Spec == Init /\ [][Next]_vars

(* A call that began goes on, a check ends, time passes, and the recovery  *)
(* loop ticks.  Nobody has to ask for anything.                            *)
Fairness ==
    /\ \A p \in Procs : WF_vars(Deliver(p))
    /\ \A v \in Verifiers : WF_vars(Verified(v) \/ NotVerified(v))
    /\ \A d \in Dests : WF_vars(TimePasses(d))
    /\ WF_vars(RetryDue)

FairSpec == Spec /\ Fairness
-----------------------------------------------------------------------------
(* Properties.                                                             *)

(* Neither a row of the deliveries table nor the receipt ever calls a      *)
(* message sent that did not arrive, whatever calls and crashes interleave *)
(* and however old the list is that a call puts on the receipt.            *)
RecordedMeansArrived ==
    \A d \in Dests : rows[d].status = "sent" \/ d \in receipt.sent => arrived[d] > 0

(* Exactly once per destination (the docstring of deliver.py; at least     *)
(* once is EventuallyDecided): no message arrives a second time.           *)
NeverTwice == \A d \in Dests : arrived[d] <= 1

(* It holds as long as one call ends before the next begins, no answer is  *)
(* lost and no call is cut: across retries, re-verifications, redeliveries *)
(* that are forced, and restarts between calls.                            *)
NeverTwiceAlone == ~disturbed => NeverTwice

(* The tries at a destination are bounded, even by calls that race: a try  *)
(* begins only while fewer than MaxTries are on record, so at most one of  *)
(* each other coroutine is not yet recorded then; a forced call adds one,  *)
(* and a crash may lose the record of those under way.                     *)
TriesBounded ==
    \A d \in Dests :
        tries[d] <= MaxTries - 1 + Cardinality(Procs) * (1 + restarts) + forced

(* A destination that is given up does not go unnoticed.                   *)
Exhausted(d) == rows[d].status = "failed" /\ rows[d].attempts >= MaxTries
GivenUpIsTold ==
    \A d \in Dests :
        ~disturbed /\ Exhausted(d)
            => d \in told \/ \E p \in Procs : pc[p] = "tell" /\ mem[p].at = d

(* Without a crash, each destination of a delivered outcome is reached, or *)
(* tried as often as allowed, unless the outcome is no longer delivered.   *)
Reached(d) == rows[d].status = "sent"
Decided == \A d \in Dests :
               (status = "delivered") ~>
                   (status # "delivered" \/ Reached(d) \/ Exhausted(d))
EventuallyDecided == [](restarts = 0) => Decided
=============================================================================
