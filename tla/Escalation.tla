----------------------------- MODULE Escalation -----------------------------
(***************************************************************************)
(* Escalations of ONE live outcome (app/escalate.py): who is told outside  *)
(* the app that it needs a person.  The engine fires an event and goes on; *)
(* a background task reads the round (the length of the outcome's log),    *)
(* claims a row of the escalations table per destination, and sends.       *)
(* recovery_loop sends again what failed.                                  *)
(***************************************************************************)
EXTENDS Integers, FiniteSets

CONSTANTS
    Tasks,          \* escalate() tasks that are ever started; bounds the events
    Destinations,   \* how many items escalate_to has
    MaxTries,       \* MAX_ATTEMPTS
    Answers,        \* how a send may end in this model, see Send
    MaxLog,         \* bound: entries of the log
    MaxRestarts     \* bound: crashes of the server

Events == {"needs_you", "approval", "failed", "delivery_failed"}
Dests  == 1..Destinations
Rounds == 0..MaxLog
Keys   == Events \X Rounds \X Dests      \* the unique index of the table
Loop   == "loop"                         \* recovery_loop()

ASSUME EscalationAssumption ==
    /\ Loop \notin Tasks /\ IsFiniteSet(Tasks)
    /\ Destinations \in Nat /\ MaxTries \in Nat \ {0}
    /\ Answers \subseteq {"ok", "error", "permanent", "lost"}
    /\ MaxLog \in Nat /\ MaxRestarts \in Nat

VARIABLES
    status,     \* of the outcome
    log,        \* length of recovery_json
    dests,      \* how many destinations the configuration allows
    rows,       \* the escalations table
    pc, mem,    \* where each task and the loop are, and their local variables
    restarts,
    arrived,    \* messages that reached a destination, by row
    tries,      \* sends begun, by row
    misled      \* history: rows a send of which arrived and is not on record

outcome == <<status, log, dests>>
engine  == <<pc, mem>>
world   == <<arrived, tries, misled>>
vars    == <<outcome, rows, engine, restarts, world>>

-----------------------------------------------------------------------------
(* next: next_try_at is not set, set and to come, or due.                  *)
Row   == [status : {"none", "pending", "sent", "failed"}, attempts : Nat,
          next : {"never", "later", "due"}]
NoRow == [status |-> "none", attempts |-> 0, next |-> "never"]

(* round: as the task read it.  at: the destination.  before: the row's    *)
(* attempts as they were read.  due: the loop's list.                      *)
Procs  == Tasks \cup {Loop}
Memory == [event : Events, round : Rounds, at : Nat \ {0}, before : Nat,
           answer : {"ok", "error", "permanent"}, due : SUBSET Keys]
Blank  == [event |-> "failed", round |-> 0, at |-> 1, before |-> 0,
           answer |-> "ok", due |-> {}]

(* The row and the coroutines have their types.                            *)
TypeOK ==
    /\ status \in {"working", "awaiting", "stuck", "delivered"}
    /\ log \in Rounds /\ dests \in 0..Destinations
    /\ rows \in [Keys -> Row]
    /\ pc \in [Procs -> {"idle", "read", "claim", "send", "mark", "each", "over"}]
    /\ mem \in [Procs -> Memory]
    /\ restarts \in Nat
    /\ arrived \in [Keys -> Nat] /\ tries \in [Keys -> Nat] /\ misled \in SUBSET Keys

Init ==
    /\ status = "working" /\ log = 0 /\ dests = Destinations
    /\ rows = [k \in Keys |-> NoRow]
    /\ pc = [p \in Procs |-> "idle"] /\ mem = [p \in Procs |-> Blank]
    /\ restarts = 0
    /\ arrived = [k \in Keys |-> 0] /\ tries = [k \in Keys |-> 0] /\ misled = {}

-----------------------------------------------------------------------------
(* The engine (modules OutcomeEngine and Delivery), as far as it fires.    *)

Fire(t, event) ==
    /\ pc[t] = "idle"
    /\ pc'  = [pc  EXCEPT ![t] = "read"]
    /\ mem' = [mem EXCEPT ![t] = [Blank EXCEPT !.event = event]]

(* The checks passed and somebody must approve: no entry in the log.       *)
AskApproval(t) ==
    /\ status = "working" /\ status' = "awaiting"
    /\ Fire(t, "approval")
    /\ UNCHANGED <<log, dests, rows, restarts, world>>

(* The engine stops: an entry, then the event.                             *)
GiveUp(t, event) ==
    /\ status = "working" /\ status' = "stuck"
    /\ log < MaxLog /\ log' = log + 1
    /\ event \in {"needs_you", "failed"} /\ Fire(t, event)
    /\ UNCHANGED <<dests, rows, restarts, world>>

(* A destination of the outcome could not be reached: no entry.            *)
DeliveryFails(t) ==
    /\ status = "delivered"
    /\ Fire(t, "delivery_failed")
    /\ UNCHANGED <<outcome, rows, restarts, world>>

(* A person approves, asks for changes or for another attempt, or the      *)
(* outcome is simply delivered.                                            *)
PersonActs(to) ==
    /\ \/ status = "awaiting" /\ to \in {"delivered", "working", "stuck"}
       \/ status = "stuck" /\ to = "working"
    /\ log < MaxLog /\ log' = log + 1
    /\ status' = to
    /\ UNCHANGED <<dests, rows, engine, restarts, world>>
Delivered ==
    /\ status = "working" /\ status' = "delivered"
    /\ UNCHANGED <<log, dests, rows, engine, restarts, world>>

-----------------------------------------------------------------------------
(* escalate.                                                               *)

Read(t) ==
    /\ pc[t] = "read"
    /\ pc'  = [pc  EXCEPT ![t] = "claim"]
    /\ mem' = [mem EXCEPT ![t].round = log]
    /\ UNCHANGED <<outcome, rows, restarts, world>>

Key(t) == <<mem[t].event, mem[t].round, mem[t].at>>

(* claim_escalation: only the task that creates the row sends.             *)
NewAlways(row) == row.status # "sent"                   \* a mutant
New(row)       == row.status = "none"
Claim(t) ==
    /\ pc[t] = "claim" /\ mem[t].at <= dests
    /\ LET k == Key(t)
       IN  IF New(rows[k])
           THEN /\ rows' = [rows EXCEPT ![k] = [NoRow EXCEPT !.status = "pending"]]
                /\ tries' = [tries EXCEPT ![k] = @ + 1]
                /\ pc' = [pc EXCEPT ![t] = "send"]
                /\ mem' = [mem EXCEPT ![t].before = 0]
           ELSE /\ mem' = [mem EXCEPT ![t].at = @ + 1]
                /\ UNCHANGED <<rows, tries, pc>>
    /\ UNCHANGED <<outcome, restarts, arrived, misled>>

EndTask(t) ==
    /\ pc[t] = "claim" /\ mem[t].at > dests
    /\ pc' = [pc EXCEPT ![t] = "over"]
    /\ mem' = [mem EXCEPT ![t].answer = "ok"]
    /\ UNCHANGED <<outcome, rows, restarts, world>>

(* The channel takes the message, refuses it for now or for good, or takes *)
(* it and its answer is lost.                                              *)
Said(answer)    == IF answer = "lost" THEN "error" ELSE answer
Send(p, answer) ==
    /\ pc[p] = "send"
    /\ LET k == Key(p)
       IN  /\ arrived' = IF answer \in {"ok", "lost"} THEN [arrived EXCEPT ![k] = @ + 1]
                         ELSE arrived
           /\ misled' = IF answer = "lost" THEN misled \cup {k} ELSE misled
    /\ pc' = [pc EXCEPT ![p] = "mark"]
    /\ mem' = [mem EXCEPT ![p].answer = Said(answer)]
    /\ UNCHANGED <<outcome, rows, restarts, tries>>

(* mark_escalation, at the end of _try.                                    *)
AgainLate(m)   == m.answer = "error" /\ m.before < MaxTries     \* a mutant
Again(m)       == m.answer = "error" /\ m.before + 1 < MaxTries
MarkedWaits(row, m) ==                                          \* a mutant
    [status |-> IF m.answer = "ok" THEN "sent" ELSE IF Again(m) THEN "pending" ELSE "failed",
     attempts |-> row.attempts + 1,
     next |-> IF Again(m) THEN "later" ELSE "never"]
Marked(row, m) ==
    [status |-> IF m.answer = "ok" THEN "sent" ELSE "failed",
     attempts |-> row.attempts + 1,
     next |-> IF Again(m) THEN "later" ELSE "never"]
Mark(p) ==
    /\ pc[p] = "mark"
    /\ rows' = [rows EXCEPT ![Key(p)] = Marked(rows[Key(p)], mem[p])]
    /\ IF p = Loop
       THEN /\ pc' = [pc EXCEPT ![p] = "each"]
            /\ UNCHANGED mem
       ELSE /\ pc' = [pc EXCEPT ![p] = "claim"]
            /\ mem' = [mem EXCEPT ![p].at = @ + 1]
    /\ UNCHANGED <<outcome, restarts, world>>

-----------------------------------------------------------------------------
(* retry_due.                                                              *)

TimePasses(k) ==
    /\ rows[k].next = "later"
    /\ rows' = [rows EXCEPT ![k].next = "due"]
    /\ UNCHANGED <<outcome, engine, restarts, world>>

DueRows == {k \in Keys : rows[k].status = "failed" /\ rows[k].next = "due"}
ListDue ==
    /\ pc[Loop] = "idle" /\ DueRows # {}
    /\ pc' = [pc EXCEPT ![Loop] = "each"]
    /\ mem' = [mem EXCEPT ![Loop].due = DueRows]
    /\ UNCHANGED <<outcome, rows, restarts, world>>

(* The next row of the list is sent with the count the list has.           *)
Retry(k) ==
    /\ pc[Loop] = "each" /\ k \in mem[Loop].due /\ k[3] <= dests
    /\ pc' = [pc EXCEPT ![Loop] = "send"]
    /\ mem' = [mem EXCEPT ![Loop] =
           [event |-> k[1], round |-> k[2], at |-> k[3], before |-> rows[k].attempts,
            answer |-> "ok", due |-> mem[Loop].due \ {k}]]
    /\ tries' = [tries EXCEPT ![k] = @ + 1]
    /\ UNCHANGED <<outcome, rows, restarts, arrived, misled>>

(* The destination is not there any more: given up.                        *)
DropRow(k) ==
    /\ pc[Loop] = "each" /\ k \in mem[Loop].due /\ k[3] > dests
    /\ rows' = [rows EXCEPT ![k] =
           [status |-> "failed", attempts |-> rows[k].attempts + 1, next |-> "never"]]
    /\ mem' = [mem EXCEPT ![Loop].due = @ \ {k}]
    /\ UNCHANGED <<outcome, pc, restarts, world>>

EndTick ==
    /\ pc[Loop] = "each" /\ mem[Loop].due = {}
    /\ pc' = [pc EXCEPT ![Loop] = "idle"] /\ mem' = [mem EXCEPT ![Loop] = Blank]
    /\ UNCHANGED <<outcome, rows, restarts, world>>

(* The server dies and comes back, perhaps without mail (smtp_available).  *)
Restart ==
    /\ restarts < MaxRestarts /\ restarts' = restarts + 1
    /\ dests' \in 0..Destinations
    /\ pc' = [p \in Procs |-> IF p = Loop \/ pc[p] = "idle" THEN "idle" ELSE "over"]
    /\ mem' = [p \in Procs |-> Blank]
    /\ misled' = misled \cup {Key(p) : p \in {q \in Procs : pc[q] = "mark"}}
    /\ UNCHANGED <<status, log, rows, arrived, tries>>

-----------------------------------------------------------------------------
Works(t) == Read(t) \/ Claim(t) \/ EndTask(t)
Sends(p) == Mark(p) \/ \E answer \in Answers : Send(p, answer)
Ticks    == ListDue \/ EndTick \/ \E k \in Keys : Retry(k) \/ DropRow(k)

Next ==
    \/ \E t \in Tasks :
           \/ AskApproval(t) \/ DeliveryFails(t) \/ Works(t)
           \/ \E event \in Events : GiveUp(t, event)
    \/ \E to \in {"delivered", "working", "stuck"} : PersonActs(to)
    \/ Delivered
    \/ \E p \in Procs : Sends(p)
    \/ \E k \in Keys : TimePasses(k)
    \/ Ticks \/ Restart

Spec == Init /\ [][Next]_vars

(* A task goes on, a send ends, time passes, and the loop ticks.           *)
FairSpec ==
    /\ Spec
    /\ \A t \in Tasks : WF_vars(Works(t))
    /\ \A p \in Procs : WF_vars(Sends(p))
    /\ \A k \in Keys : WF_vars(TimePasses(k))
    /\ WF_vars(Ticks)

-----------------------------------------------------------------------------
(* Properties.                                                             *)

(* "Sent once per destination per round" (escalate.py): whatever events    *)
(* come twice, tasks overlap or crash, and retries race them, a message    *)
(* arrives a second time only if the answer to the first was lost, or the  *)
(* server died before it was on record.                                    *)
OncePerRound == \A k \in Keys : arrived[k] <= 1 \/ k \in misled

(* No row is tried more often than MAX_ATTEMPTS, and once more for a try   *)
(* that a crash kept off the record.                                       *)
TriesBounded == \A k \in Keys : tries[k] <= MaxTries + restarts

(* A row is worked on by one coroutine at a time: it has a date only when  *)
(* its last try is on record, so the loop cannot meet the task's own send. *)
Busy(p) == pc[p] \in {"send", "mark"}
OneSender ==
    \A p, q \in Procs : p # q /\ Busy(p) /\ Busy(q) => Key(p) # Key(q)

(* Without a crash, an event that is fired ends with each destination told *)
(* or given up.                                                            *)
Settled(t) ==
    /\ pc[t] = "over"
    /\ \A d \in Dests :
           LET row == rows[<<mem[t].event, mem[t].round, d>>]
           IN  row.status = "sent" \/ (row.status = "failed" /\ row.next = "never")
EveryEventSettles ==
    [](restarts = 0) => \A t \in Tasks : (pc[t] = "read") ~> Settled(t)
=============================================================================
