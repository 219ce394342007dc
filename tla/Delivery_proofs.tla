--------------------------- MODULE Delivery_proofs ---------------------------
(***************************************************************************)
(* Nothing is recorded as sent that did not arrive, nothing arrives twice  *)
(* while calls do not overlap, a failure that is final is told, and the    *)
(* tries of a destination are bounded: for any number of                   *)
(* destinations, coroutines, tries and crashes.                            *)
(***************************************************************************)
EXTENDS Delivery, FiniteSetTheorems, TLAPS

(* A coroutine that is about to record an answer of the service carries a  *)
(* message that arrived, and a list about to be put on the receipt names   *)
(* only destinations that were reached: both are read in one step and used *)
(* in a later one, so RecordedMeansArrived is not inductive without them.  *)
MarksTruly(p)    == pc[p] = "mark" /\ mem[p].ok => arrived[mem[p].at] > 0
ListsTruly(p)    == \A d \in mem[p].listed : arrived[d] > 0
AtDestination(p) == pc[p] \in {"send", "mark", "tell"} => mem[p].at \in Dests

CallsTruly == \A p \in Procs : MarksTruly(p) /\ ListsTruly(p) /\ AtDestination(p)
Inv == TypeOK /\ RecordedMeansArrived /\ CallsTruly

Coroutines == pc \in [Procs -> Labels] /\ mem \in [Procs -> Memory]

-----------------------------------------------------------------------------
(* Helpers.                                                                *)

(* The memory of a coroutine that ended has the type of any memory.        *)
LEMMA BlankType == Blank \in Memory /\ Blank.listed = {}
  BY DEF Blank, Memory, Verdicts

(* A row has the type of any row after claim_delivery, too.                *)
LEMMA RowType ==
  /\ NoRow \in Row
  /\ \A row \in Row : Claimed(row) \in Row /\ row.attempts \in Nat
  BY DEF NoRow, Claimed, Row

(* The fields of a row that a send leaves behind.                          *)
LEMMA MarkedType ==
  ASSUME NEW row \in Row, NEW s \in {"sent", "failed"}, NEW n \in {"never", "later"}
  PROVE  [status |-> s, attempts |-> row.attempts + 1, next |-> n] \in Row
  BY DEF Row

(* Every field of a coroutine's memory has its type.                       *)
LEMMA MemoryFields ==
  ASSUME Coroutines, NEW p \in Procs
  PROVE  /\ mem[p] \in Memory /\ mem[p].at \in Nat /\ mem[p].before \in Nat
         /\ mem[p].ok \in BOOLEAN /\ mem[p].force \in BOOLEAN
         /\ mem[p].proof \in Verdicts /\ mem[p].listed \subseteq Dests
  BY DEF Coroutines, Memory

(* One coroutine moves on with a memory that promises nothing untrue, and  *)
(* no message is taken back: the promises of all coroutines hold.          *)
LEMMA Moves ==
  ASSUME Inv, NEW p \in Procs, NEW label \in Labels, NEW local \in Memory,
         Goto(p, label, local),
         \A d \in Dests : arrived'[d] \in Nat /\ arrived'[d] >= arrived[d],
         label = "mark" /\ local.ok => arrived'[local.at] > 0,
         \A d \in local.listed : arrived'[d] > 0,
         label \in {"send", "mark", "tell"} => local.at \in Dests
  PROVE  Coroutines' /\ CallsTruly'
  <1>1. Coroutines'
    BY DEF Inv, TypeOK, Goto, Coroutines
  <1>2. \A d \in Dests : arrived[d] > 0 => arrived'[d] > 0
    BY DEF Inv, TypeOK
  <1>3. ASSUME NEW q \in Procs PROVE (MarksTruly(q) /\ ListsTruly(q) /\ AtDestination(q))'
    <2>1. CASE q = p
      <3>1. pc'[q] = label /\ mem'[q] = local
        BY <2>1 DEF Inv, TypeOK, Goto
      <3> QED
        BY <3>1 DEF MarksTruly, ListsTruly, AtDestination
    <2>2. CASE q # p
      <3>1. pc'[q] = pc[q] /\ mem'[q] = mem[q]
        BY <2>2 DEF Inv, TypeOK, Goto
      <3>2. mem[q].listed \subseteq Dests
        BY MemoryFields DEF Inv, TypeOK, Coroutines
      <3>3. MarksTruly(q) /\ ListsTruly(q) /\ AtDestination(q)
        BY DEF Inv, CallsTruly
      <3> QED
        BY <1>2, <3>1, <3>2, <3>3 DEF MarksTruly, ListsTruly, AtDestination
    <2> QED
      BY <2>1, <2>2
  <1> QED
    BY <1>1, <1>3 DEF CallsTruly

(* The same for a step that sends nothing and whose memory lists nothing   *)
(* new: all but Send and ListDeliveries.                                   *)
LEMMA MovesOn ==
  ASSUME Inv, NEW p \in Procs, NEW label \in Labels \ {"mark"}, NEW local \in Memory,
         Goto(p, label, local), UNCHANGED arrived,
         local.listed \subseteq mem[p].listed,
         label \in {"send", "tell"} => local.at \in Dests
  PROVE  Coroutines' /\ CallsTruly'
  <1>1. \A d \in Dests : arrived'[d] \in Nat /\ arrived'[d] >= arrived[d]
    BY DEF Inv, TypeOK
  <1>2. \A d \in local.listed : arrived'[d] > 0
    BY DEF Inv, CallsTruly, ListsTruly
  <1> QED
    BY <1>1, <1>2, Moves

(* A coroutine ends.                                                       *)
LEMMA Ends ==
  ASSUME Inv, NEW p \in Procs, Finish(p), UNCHANGED arrived
  PROVE  Coroutines' /\ CallsTruly'
  BY BlankType, MovesOn DEF Finish, Labels

-----------------------------------------------------------------------------
(* The invariant.                                                          *)

(* It holds when the outcome's checks are run for the first time.          *)
LEMMA InvInit == Init => Inv
  <1> SUFFICES ASSUME Init PROVE Inv
    OBVIOUS
  <1>1. TypeOK
    BY BlankType, RowType DEF Init, TypeOK, Labels, Verdicts, NewReceipt
  <1>2. RecordedMeansArrived
    BY DEF Init, RecordedMeansArrived, NoRow, NewReceipt
  <1>3. CallsTruly
    BY DEF Init, CallsTruly, MarksTruly, ListsTruly, AtDestination, Blank
  <1> QED
    BY <1>1, <1>2, <1>3 DEF Inv

(* The callers of deliver_outcome keep it.                                 *)
LEMMA InvCallers ==
  ASSUME Inv,
         \/ \E v \in Verifiers : Recheck(v) \/ Verified(v) \/ NotVerified(v)
         \/ RetryDue \/ \E u \in People : AskDeliver(u)
         \/ \E d \in Dests : TimePasses(d)
  PROVE  Inv'
  <1>1. ASSUME NEW v \in Verifiers, Recheck(v) PROVE Inv'
    <2>1. Coroutines' /\ CallsTruly'
      BY <1>1, BlankType, MovesOn DEF Recheck, Labels, Procs, world
    <2> QED
      BY <1>1, <2>1 DEF Recheck, Inv, TypeOK, RecordedMeansArrived, Coroutines, world
  <1>2. ASSUME NEW v \in Verifiers, Verified(v) PROVE Inv'
    <2>1. Coroutines' /\ CallsTruly'
      BY <1>2, BlankType, MovesOn DEF Verified, Labels, Procs, world
    <2> QED
      BY <1>2, <2>1 DEF Verified, Inv, TypeOK, RecordedMeansArrived, Coroutines,
                        NewReceipt, Verdicts, world, bounds
  <1>3. ASSUME NEW v \in Verifiers, NotVerified(v) PROVE Inv'
    <2>1. Coroutines' /\ CallsTruly'
      BY <1>3, Ends DEF NotVerified, Procs, world
    <2> QED
      BY <1>3, <2>1 DEF NotVerified, Inv, TypeOK, RecordedMeansArrived, Coroutines,
                        NewReceipt, Verdicts, world, bounds
  <1>4. CASE RetryDue
    <2>1. Coroutines' /\ CallsTruly'
      BY <1>4, BlankType, MovesOn DEF RetryDue, Labels, Procs, world
    <2> QED
      BY <1>4, <2>1 DEF RetryDue, Inv, TypeOK, RecordedMeansArrived, Coroutines,
                        tables, world, bounds
  <1>5. ASSUME NEW u \in People, AskDeliver(u) PROVE Inv'
    <2>1. [Blank EXCEPT !.force = TRUE] \in Memory /\ [Blank EXCEPT !.force = TRUE].listed = {}
      BY DEF Blank, Memory, Verdicts
    <2>2. Coroutines' /\ CallsTruly'
      BY <1>5, <2>1, MovesOn DEF AskDeliver, Labels, Procs, world
    <2> QED
      BY <1>5, <2>2 DEF AskDeliver, Inv, TypeOK, RecordedMeansArrived, Coroutines,
                        tables, world
  <1>6. ASSUME NEW d \in Dests, TimePasses(d) PROVE Inv'
    <2>1. rows'[d] \in Row /\ rows'[d].status = rows[d].status
      BY <1>6 DEF TimePasses, Inv, TypeOK, Row
    <2>2. rows' \in [Dests -> Row] /\ \A e \in Dests : rows'[e].status = rows[e].status
      BY <1>6, <2>1 DEF TimePasses, Inv, TypeOK
    <2> QED
      BY <1>6, <2>2 DEF TimePasses, Inv, TypeOK, RecordedMeansArrived, CallsTruly,
                        MarksTruly, ListsTruly, AtDestination, world, bounds
  <1> QED
    BY <1>1, <1>2, <1>3, <1>4, <1>5, <1>6

(* deliver_outcome keeps it.                                               *)
LEMMA InvDeliver ==
  ASSUME Inv, NEW p \in Procs, Deliver(p)
  PROVE  Inv'
  <1>0. mem[p] \in Memory /\ mem[p].at \in Nat /\ mem[p].listed \subseteq Dests
    BY MemoryFields DEF Inv, TypeOK, Coroutines
  <1>t. TypeOK /\ RecordedMeansArrived /\ CallsTruly /\ AtDestination(p)
    BY DEF Inv, CallsTruly
  <1>1. CASE Begin(p)
    <2>1. CASE status = "delivered"
      <3> DEFINE local == [mem[p] EXCEPT !.proof = receipt.status]
      <3>1. local \in Memory /\ local.listed = mem[p].listed
        BY <1>0, <1>t DEF TypeOK, Memory
      <3>2. Goto(p, "claim", local)
        BY <1>1, <2>1 DEF Begin
      <3>3. Coroutines' /\ CallsTruly'
        BY <1>1, <3>1, <3>2, MovesOn DEF Begin, Labels, world
      <3> QED
        BY <1>1, <1>t, <2>1, <3>3 DEF Begin, Inv, TypeOK, RecordedMeansArrived, Coroutines,
                                tables, world, bounds
    <2>2. CASE status # "delivered"
      <3>1. Coroutines' /\ CallsTruly'
        BY <1>1, <2>2, Ends DEF Begin, world
      <3> QED
        BY <1>1, <1>t, <2>2, <3>1 DEF Begin, Inv, TypeOK, RecordedMeansArrived, Coroutines,
                                tables, world, bounds
    <2> QED
      BY <2>1, <2>2
  <1>2. CASE Claim(p)
    <2> DEFINE d   == mem[p].at
               row == Claimed(rows[d])
    <2>1. d \in Dests /\ row \in Row /\ rows' = [rows EXCEPT ![d] = row]
      BY <1>2, <1>t, RowType DEF Claim, TypeOK
    <2>2. row.status = "sent" => rows[d].status = "sent"
      BY <2>1, <1>t DEF Claimed, TypeOK, Row
    <2>3. TypeOK => rows' \in [Dests -> Row]
      BY <2>1 DEF TypeOK
    <2>4. RecordedMeansArrived'
      BY <1>2, <1>t, <2>1, <2>2 DEF Claim, RecordedMeansArrived, TypeOK
    <2>5. Coroutines' /\ CallsTruly'
      <3>1. CASE Skips(row, mem[p].force)
        <4> DEFINE local == [mem[p] EXCEPT !.at = d + 1]
        <4>1. local \in Memory /\ local.listed = mem[p].listed
          BY <1>0 DEF Memory
        <4>2. Goto(p, "claim", local)
          BY <1>2, <3>1 DEF Claim
        <4> QED
          BY <1>2, <4>1, <4>2, MovesOn DEF Claim, Labels
      <3>2. CASE ~Skips(row, mem[p].force)
        <4> DEFINE local == [mem[p] EXCEPT !.before = row.attempts]
        <4>1. local \in Memory /\ local.listed = mem[p].listed /\ local.at = d
          BY <1>0, <2>1, RowType DEF Memory
        <4>2. Goto(p, "send", local)
          BY <1>2, <3>2 DEF Claim
        <4> QED
          BY <1>2, <2>1, <4>1, <4>2, MovesOn DEF Claim, Labels
      <3> QED
        BY <3>1, <3>2
    <2>6. tries' \in [Dests -> Nat]
      BY <1>2, <1>t, <2>1 DEF Claim, TypeOK
    <2> QED
      BY <1>2, <1>t, <2>3, <2>4, <2>5, <2>6 DEF Claim, Inv, TypeOK, Coroutines, bounds
  <1>3. ASSUME NEW answer \in Answers, Send(p, answer) PROVE Inv'
    <2> DEFINE d     == mem[p].at
               local == [mem[p] EXCEPT !.ok = Answered(answer)]
    <2>1. d \in Dests
      BY <1>3, <1>t DEF Send, AtDestination
    <2>2. /\ arrived' \in [Dests -> Nat]
          /\ \A e \in Dests : arrived'[e] \in Nat /\ arrived'[e] >= arrived[e]
          /\ answer # "error" => arrived'[d] > 0
      BY <1>3, <1>t, <2>1 DEF Send, TypeOK
    <2>3. /\ local \in Memory /\ local.listed = mem[p].listed /\ local.at = d
          /\ local.ok => answer # "error"
      BY <1>0 DEF Memory, Answered
    <2>4. \A e \in local.listed : arrived'[e] > 0
      BY <1>0, <1>t, <2>2, <2>3 DEF CallsTruly, ListsTruly, TypeOK
    <2>5. Coroutines' /\ CallsTruly'
      <3>1. Goto(p, "mark", local) /\ "mark" \in Labels
        BY <1>3 DEF Send, Labels
      <3> QED
        BY <2>1, <2>2, <2>3, <2>4, <3>1, Moves
    <2>6. RecordedMeansArrived'
      BY <1>3, <1>t, <2>2 DEF Send, RecordedMeansArrived, TypeOK, tables
    <2>7. disturbed' \in BOOLEAN
      BY <1>3, <1>t DEF Send, TypeOK
    <2> QED
      BY <1>3, <1>t, <2>2, <2>5, <2>6, <2>7
         DEF Send, Inv, TypeOK, Coroutines, tables, bounds
  <1>4. CASE MarkSent(p)
    <2> DEFINE d     == mem[p].at
               row   == [status |-> "sent", attempts |-> rows[d].attempts + 1, next |-> "never"]
               local == [mem[p] EXCEPT !.at = @ + 1]
    <2>1. d \in Dests /\ arrived[d] > 0
      BY <1>4, <1>t DEF MarkSent, AtDestination, CallsTruly, MarksTruly
    <2>2. rows' = [rows EXCEPT ![d] = row] /\ row \in Row
      BY <1>4, <1>t, <2>1, MarkedType DEF MarkSent, TypeOK
    <2>3. local \in Memory /\ local.listed = mem[p].listed
      BY <1>0 DEF Memory
    <2>4. Coroutines' /\ CallsTruly'
      BY <1>4, <2>3, MovesOn DEF MarkSent, Labels, world
    <2>5. RecordedMeansArrived'
      BY <1>4, <1>t, <2>1, <2>2 DEF MarkSent, RecordedMeansArrived, TypeOK, world
    <2>6. rows' \in [Dests -> Row]
      BY <1>t, <2>1, <2>2 DEF TypeOK
    <2> QED
      BY <1>4, <1>t, <2>4, <2>5, <2>6 DEF MarkSent, Inv, TypeOK, Coroutines, world, bounds
  <1>5. CASE MarkFailed(p)
    <2> DEFINE d   == mem[p].at
               row == [status |-> "failed", attempts |-> rows[d].attempts + 1,
                       next |-> RetryAt(mem[p])]
    <2>1. d \in Dests
      BY <1>5, <1>t DEF MarkFailed, AtDestination
    <2>2. rows' = [rows EXCEPT ![d] = row] /\ row \in Row
      <3>1. RetryAt(mem[p]) \in {"never", "later"} /\ rows[d] \in Row
        BY <1>t, <2>1 DEF RetryAt, TypeOK
      <3>2. row \in Row
        BY <3>1, MarkedType
      <3> QED
        BY <1>5, <3>2 DEF MarkFailed, Counted
    <2>3. Coroutines' /\ CallsTruly'
      <3>1. CASE LastTry(mem[p])
        <4>1. Goto(p, "tell", mem[p])
          BY <1>5, <3>1 DEF MarkFailed
        <4> QED
          BY <1>0, <1>5, <2>1, <4>1, MovesOn DEF MarkFailed, Labels, world
      <3>2. CASE ~LastTry(mem[p])
        <4> DEFINE local == [mem[p] EXCEPT !.at = @ + 1]
        <4>1. local \in Memory /\ local.listed = mem[p].listed
          BY <1>0 DEF Memory
        <4>2. Goto(p, "claim", local)
          BY <1>5, <3>2 DEF MarkFailed
        <4> QED
          BY <1>5, <4>1, <4>2, MovesOn DEF MarkFailed, Labels, world
      <3> QED
        BY <3>1, <3>2
    <2>4. RecordedMeansArrived'
      BY <1>5, <1>t, <2>2 DEF MarkFailed, RecordedMeansArrived, TypeOK, world
    <2>5. rows' \in [Dests -> Row]
      BY <1>t, <2>1, <2>2 DEF TypeOK
    <2> QED
      BY <1>5, <1>t, <2>3, <2>4, <2>5 DEF MarkFailed, Inv, TypeOK, Coroutines, world, bounds
  <1>6. CASE Tell(p)
    <2> DEFINE local == [mem[p] EXCEPT !.at = @ + 1]
    <2>1. mem[p].at \in Dests
      BY <1>6, <1>t DEF Tell, AtDestination
    <2>2. local \in Memory /\ local.listed = mem[p].listed
      BY <1>0 DEF Memory
    <2>3. Coroutines' /\ CallsTruly'
      BY <1>6, <2>2, MovesOn DEF Tell, Labels, world
    <2> QED
      BY <1>6, <1>t, <2>1, <2>3
         DEF Tell, Inv, TypeOK, RecordedMeansArrived, Coroutines, world, bounds
  <1>7. CASE ListDeliveries(p)
    <2> DEFINE list  == {d \in Dests : rows[d].status = "sent"}
               local == [mem[p] EXCEPT !.listed = list]
    <2>1. \A d \in list : arrived[d] > 0
      BY <1>t DEF RecordedMeansArrived
    <2>2. local \in Memory /\ local.listed = list
      BY <1>0 DEF Memory
    <2>3. Coroutines' /\ CallsTruly'
      <3>1. Goto(p, "receipt", local) /\ "receipt" \in Labels /\ UNCHANGED arrived
        BY <1>7 DEF ListDeliveries, Labels, world
      <3>2. \A d \in Dests : arrived'[d] \in Nat /\ arrived'[d] >= arrived[d]
        BY <1>t, <3>1 DEF TypeOK
      <3>3. \A d \in local.listed : arrived'[d] > 0
        BY <2>1, <2>2, <3>1
      <3> QED
        BY <2>2, <3>1, <3>2, <3>3, Moves
    <2> QED
      BY <1>7, <1>t, <2>3 DEF ListDeliveries, Inv, TypeOK, RecordedMeansArrived, Coroutines,
                        tables, world, bounds
  <1>8. CASE WriteReceipt(p)
    <2>1. Coroutines' /\ CallsTruly'
      BY <1>8, Ends DEF WriteReceipt, world
    <2>2. mem[p].proof \in Verdicts
      BY <1>0 DEF Memory
    <2>3. \A d \in mem[p].listed : arrived[d] > 0
      BY <1>t DEF CallsTruly, ListsTruly
    <2>4. receipt' = [status |-> mem[p].proof, sent |-> mem[p].listed]
      BY <1>8 DEF WriteReceipt
    <2>5. RecordedMeansArrived'
      BY <1>8, <1>t, <2>3, <2>4 DEF WriteReceipt, RecordedMeansArrived, world
    <2> QED
      BY <1>0, <1>8, <1>t, <2>1, <2>2, <2>4, <2>5
         DEF WriteReceipt, Inv, TypeOK, Coroutines, world, bounds
  <1> QED
    BY <1>1, <1>2, <1>3, <1>4, <1>5, <1>6, <1>7, <1>8 DEF Deliver

(* A crash keeps it: the coroutines and their promises are gone, the       *)
(* tables and the world stay.                                              *)
LEMMA InvRestart == Inv /\ Restart => Inv'
  <1> SUFFICES ASSUME Inv, Restart PROVE Inv'
    OBVIOUS
  <1>1. \A p \in Procs : pc'[p] \in {"idle", "checking"} /\ mem'[p] = Blank
    BY DEF Restart
  <1>2. pc' \in [Procs -> Labels] /\ mem' \in [Procs -> Memory]
    BY BlankType DEF Restart, Labels
  <1>3. CallsTruly'
    BY <1>1, BlankType DEF CallsTruly, MarksTruly, ListsTruly, AtDestination
  <1>4. restarts' \in Nat /\ disturbed' \in BOOLEAN
    BY DEF Inv, TypeOK, Restart
  <1> QED
    BY <1>2, <1>3, <1>4 DEF Restart, Inv, TypeOK, RecordedMeansArrived, tables, world

(* Every step keeps it.                                                    *)
LEMMA InvNext == Inv /\ [Next]_vars => Inv'
  <1> SUFFICES ASSUME Inv, [Next]_vars PROVE Inv'
    OBVIOUS
  <1>1. CASE Next
    BY <1>1, InvCallers, InvDeliver, InvRestart DEF Next
  <1>2. CASE UNCHANGED vars
    BY <1>2 DEF vars, tables, world, bounds, Inv, TypeOK, RecordedMeansArrived,
                CallsTruly, MarksTruly, ListsTruly, AtDestination
  <1> QED
    BY <1>1, <1>2

(* deliver_outcome and mark_delivery: whatever calls overlap or are cut,   *)
(* the deliveries table and the receipt call a message sent only when it   *)
(* arrived, and rows and coroutines keep their types.                      *)
THEOREM RecordsAreTrue == Spec => [](TypeOK /\ RecordedMeansArrived)
  <1>1. Inv => TypeOK /\ RecordedMeansArrived
    BY DEF Inv
  <1> QED
    BY <1>1, InvInit, InvNext, PTL DEF Spec

-----------------------------------------------------------------------------
(* Exactly once, while the calls do not overlap.                           *)

(* Until a call is overlapped, cut or misled there is one at most; what    *)
(* arrived is on record or about to be put there by it; what it read of    *)
(* the row is still so; and who is given up is told or about to be.        *)
Alone == \A p, q \in Procs : InCall(p) /\ InCall(q) => p = q
Marks(p, d) == pc[p] = "mark" /\ mem[p].ok /\ mem[p].at = d
Tells(p, d) == pc[p] = "tell" /\ mem[p].at = d
Once(d) ==
    /\ arrived[d] <= 1
    /\ arrived[d] = 1 => rows[d].status = "sent" \/ \E p \in Procs : Marks(p, d)
TryOpen(p) ==
    pc[p] \in {"send", "mark"} =>
        rows[mem[p].at].status # "sent" /\ mem[p].before = rows[mem[p].at].attempts
GivenUp(d) == Exhausted(d) => d \in told \/ \E p \in Procs : Tells(p, d)
CallsAlone ==
    /\ Alone
    /\ \A d \in Dests : Once(d) /\ GivenUp(d)
    /\ \A p \in Procs : TryOpen(p)
OInv == Inv /\ (~disturbed => CallsAlone)

(* What the one call that is under way knows.                              *)
LEMMA Here ==
  ASSUME CallsAlone, NEW p \in Procs, InCall(p)
  PROVE  /\ \A d \in Dests : arrived[d] <= 1
                /\ (arrived[d] = 1 => rows[d].status = "sent" \/ Marks(p, d))
         /\ \A d \in Dests : Exhausted(d) => d \in told \/ Tells(p, d)
         /\ \A q \in Procs \ {p} : ~InCall(q)
  BY DEF CallsAlone, Alone, Once, GivenUp, InCall, Marks, Tells

(* One coroutine moves, alone, and leaves this in order.                   *)
LEMMA MovesAlone ==
  ASSUME Inv, CallsAlone, NEW p \in Procs, NEW label, NEW local, Goto(p, label, local),
         \A q \in Procs \ {p} : ~InCall(q),
         \A d \in Dests : arrived'[d] <= 1
             /\ (arrived'[d] = 1 =>
                     rows'[d].status = "sent" \/ (label = "mark" /\ local.ok /\ local.at = d)),
         \A d \in Dests : Exhausted(d)' => d \in told' \/ (label = "tell" /\ local.at = d),
         label \in {"send", "mark"} =>
             rows'[local.at].status # "sent" /\ local.before = rows'[local.at].attempts
  PROVE  CallsAlone'
  <1>1. /\ pc'[p] = label /\ mem'[p] = local
        /\ \A q \in Procs \ {p} : pc'[q] = pc[q] /\ mem'[q] = mem[q]
    BY DEF Inv, TypeOK, Goto
  <1>2. \A q \in Procs \ {p} : ~InCall(q)'
    BY <1>1 DEF InCall
  <1>3. Alone'
    BY <1>2 DEF Alone
  <1>4. \A q \in Procs : TryOpen(q)'
    BY <1>1, <1>2 DEF TryOpen, InCall
  <1>5. \A d \in Dests : Once(d)' /\ GivenUp(d)'
    BY <1>1 DEF Once, GivenUp, Marks, Tells
  <1> QED
    BY <1>3, <1>4, <1>5 DEF CallsAlone

(* A coroutine outside of any call moves to where it is in none.           *)
LEMMA MovesOutside ==
  ASSUME Inv, CallsAlone, NEW p \in Procs, ~InCall(p), NEW label, NEW local,
         Goto(p, label, local), label \in {"idle", "checking", "begin"},
         UNCHANGED <<rows, told, arrived>>
  PROVE  CallsAlone'
  <1>1. /\ pc'[p] = label /\ \A q \in Procs \ {p} : pc'[q] = pc[q] /\ mem'[q] = mem[q]
    BY DEF Inv, TypeOK, Goto
  <1>2. \A q \in Procs : InCall(q)' => q # p /\ InCall(q)
    BY <1>1 DEF InCall
  <1>3. \A q \in Procs : TryOpen(q)'
    BY <1>1 DEF TryOpen, CallsAlone
  <1>4. \A d \in Dests, q \in Procs : (Marks(q, d) => Marks(q, d)') /\ (Tells(q, d) => Tells(q, d)')
    BY <1>1 DEF Marks, Tells, InCall
  <1> QED
    BY <1>2, <1>3, <1>4 DEF CallsAlone, Alone, Once, GivenUp, Exhausted

LEMMA OInit == Init => OInv
  BY InvInit DEF Init, OInv, CallsAlone, Alone, Once, GivenUp, TryOpen, InCall, Exhausted, NoRow

LEMMA OCallers ==
  ASSUME OInv, Inv', ~disturbed',
         \/ \E v \in Verifiers : Recheck(v) \/ Verified(v) \/ NotVerified(v)
         \/ RetryDue \/ \E u \in People : AskDeliver(u)
         \/ \E d \in Dests : TimePasses(d)
  PROVE  CallsAlone'
  <1> USE DEF tables, world, Procs, OInv
  <1>1. ASSUME NEW v \in Verifiers, Recheck(v) \/ Verified(v) \/ NotVerified(v) PROVE CallsAlone'
    BY <1>1, MovesOutside DEF Recheck, Verified, NotVerified, Finish, InCall
  <1>2. CASE RetryDue
    BY <1>2, MovesOutside DEF RetryDue, InCall
  <1>3. ASSUME NEW u \in People, AskDeliver(u) PROVE CallsAlone'
    BY <1>3, MovesOutside DEF AskDeliver, InCall
  <1>4. ASSUME NEW d \in Dests, TimePasses(d) PROVE CallsAlone'
    <2>1. \A e \in Dests : rows'[e].status = rows[e].status /\ rows'[e].attempts = rows[e].attempts
      BY <1>4 DEF TimePasses, Inv, TypeOK, Row
    <2>2. \A q \in Procs : pc[q] \in {"send", "mark"} => mem[q].at \in Dests
      BY DEF Inv, CallsTruly, AtDestination
    <2>3. \A q \in Procs : TryOpen(q)'
      BY <1>4, <2>1, <2>2 DEF TimePasses, TryOpen, CallsAlone
    <2> QED
      BY <1>4, <2>1, <2>3 DEF TimePasses, CallsAlone, Alone, InCall, Once, GivenUp, Exhausted,
                              Marks, Tells
  <1> QED
    BY <1>1, <1>2, <1>3, <1>4

LEMMA ORestart ==
  ASSUME OInv, Restart, ~disturbed' PROVE CallsAlone'
  <1>1. \A p \in Procs : ~InCall(p) /\ pc'[p] \in {"idle", "checking"}
    BY DEF Restart
  <1> QED
    BY <1>1 DEF Restart, tables, world, OInv, CallsAlone, Alone, Once, GivenUp, TryOpen, InCall,
                Exhausted, Marks, Tells

LEMMA ODeliver ==
  ASSUME OInv, Inv', ~disturbed', NEW p \in Procs, Deliver(p) PROVE CallsAlone'
  <1> USE DEF tables, world
  <1>0. /\ TypeOK /\ mem[p] \in Memory /\ AtDestination(p) /\ mem[p].at \in Nat
        /\ rows \in [Dests -> Row] /\ arrived \in [Dests -> Nat]
    BY DEF OInv, Inv, TypeOK, CallsTruly, Memory
  <1>1. CallsAlone /\ Inv
    BY DEF Deliver, Begin, Claim, Send, MarkSent, MarkFailed, Tell, ListDeliveries, WriteReceipt,
           OInv
  <1>2. CASE Begin(p)
    <2>1. CASE status = "delivered"
      <3>1. \A q \in Procs : ~InCall(q)
        BY <1>2, <2>1 DEF Begin
      <3>2. \A q \in Procs, d \in Dests : ~Marks(q, d) /\ ~Tells(q, d)
        BY <3>1 DEF InCall, Marks, Tells
      <3>3. \A d \in Dests : arrived[d] <= 1 /\ (arrived[d] = 1 => rows[d].status = "sent")
                             /\ (Exhausted(d) => d \in told)
        BY <1>1, <3>2 DEF CallsAlone, Once, GivenUp
      <3> QED
        BY <1>1, <1>2, <2>1, <3>1, <3>3, MovesAlone DEF Begin, Exhausted
    <2>2. CASE status # "delivered"
      BY <1>1, <1>2, <2>2, MovesOutside DEF Begin, Finish, InCall
    <2> QED
      BY <2>1, <2>2
  <1> DEFINE d == mem[p].at
  <1>3. CASE InCall(p)
    <2>0. /\ \A e \in Dests : arrived[e] <= 1
                 /\ (arrived[e] = 1 => rows[e].status = "sent" \/ Marks(p, e))
          /\ \A e \in Dests : Exhausted(e) => e \in told \/ Tells(p, e)
          /\ \A q \in Procs \ {p} : ~InCall(q)
          /\ TryOpen(p)
      BY <1>1, <1>3, Here DEF CallsAlone
    <2>1. CASE Claim(p)
      <3> DEFINE row == Claimed(rows[d])
      <3>1. d \in Dests /\ pc[p] = "claim" /\ UNCHANGED <<told, arrived>>
        BY <2>1 DEF Claim
      <3>2. row.attempts = rows[d].attempts /\ row.attempts \in Nat
            /\ \/ row.status = rows[d].status
               \/ rows[d].status = "none" /\ row.status = "pending"
        <4>1. rows[d] \in Row
          BY <1>0, <3>1
        <4> QED
          BY <4>1 DEF Claimed, Row
      <3> HIDE DEF row
      <3>3. rows' = [rows EXCEPT ![d] = row]
        BY <2>1 DEF Claim, row
      <3>4. \A e \in Dests : /\ arrived'[e] <= 1 /\ (arrived'[e] = 1 => rows'[e].status = "sent")
                             /\ Exhausted(e)' => e \in told'
        BY <1>0, <2>0, <3>1, <3>2, <3>3 DEF Marks, Tells, Exhausted
      <3>5. CASE Skips(row, mem[p].force)
        <4>1. Goto(p, "claim", [mem[p] EXCEPT !.at = d + 1])
          BY <2>1, <3>5 DEF Claim, row
        <4> QED
          BY <1>1, <2>0, <3>4, <4>1, MovesAlone
      <3>6. CASE ~Skips(row, mem[p].force)
        <4> DEFINE local == [mem[p] EXCEPT !.before = row.attempts]
        <4>1. Goto(p, "send", local)
          BY <2>1, <3>6 DEF Claim, row
        <4>2. local.at = d /\ local.before = row.attempts
          BY <1>0 DEF Memory
        <4>3. rows'[d] = row /\ row.status # "sent"
          BY <1>0, <3>1, <3>3, <3>6 DEF Skips
        <4> HIDE DEF local
        <4> QED
          BY <1>1, <2>0, <3>4, <4>1, <4>2, <4>3, MovesAlone
      <3> QED
        BY <3>5, <3>6
    <2>2. ASSUME NEW answer \in Answers, Send(p, answer) PROVE CallsAlone'
      <3> DEFINE local == [mem[p] EXCEPT !.ok = Answered(answer)]
      <3>1. /\ pc[p] = "send" /\ d \in Dests /\ UNCHANGED <<rows, told>> /\ Goto(p, "mark", local)
            /\ answer \in {"ok", "error"}
        BY <1>0, <2>2, DeliveryAssumption DEF Send, AtDestination
      <3>2. local.at = d /\ local.ok = (answer = "ok") /\ local.before = mem[p].before
        BY <1>0 DEF Memory, Answered
      <3> HIDE DEF local
      <3>3. \A e \in Dests : ~Marks(p, e) /\ ~Tells(p, e)
        BY <3>1 DEF Marks, Tells
      <3>4. arrived[d] = 0 /\ rows[d].status # "sent" /\ mem[p].before = rows[d].attempts
        BY <1>0, <2>0, <3>1, <3>3 DEF TryOpen
      <3>5. \A e \in Dests : arrived'[e] = IF e = d /\ answer = "ok" THEN 1 ELSE arrived[e]
        BY <1>0, <2>2, <3>1, <3>4 DEF Send
      <3>6. \A e \in Dests : arrived'[e] <= 1
               /\ (arrived'[e] = 1 => rows'[e].status = "sent" \/ (local.ok /\ local.at = e))
        <4>1. ASSUME NEW e \in Dests, e = d, answer = "ok" PROVE local.ok /\ local.at = e
          BY <3>2, <4>1
        <4>2. ASSUME NEW e \in Dests, ~(e = d /\ answer = "ok")
              PROVE  arrived'[e] = arrived[e] /\ ~Marks(p, e)
          BY <3>3, <3>5, <4>2
        <4> QED
          BY <2>0, <3>1, <3>5, <4>1, <4>2
      <3>7. \A e \in Dests : Exhausted(e)' => e \in told'
        BY <2>0, <3>1, <3>3 DEF Exhausted
      <3> QED
        BY <1>1, <2>0, <3>1, <3>2, <3>4, <3>6, <3>7, MovesAlone
    <2>3. CASE MarkSent(p)
      <3> DEFINE local == [mem[p] EXCEPT !.at = @ + 1]
                 row == [status |-> "sent", attempts |-> rows[d].attempts + 1, next |-> "never"]
      <3>1. /\ pc[p] = "mark" /\ d \in Dests /\ UNCHANGED <<told, arrived>>
            /\ Goto(p, "claim", local) /\ rows' = [rows EXCEPT ![d] = row]
        BY <1>0, <2>3 DEF MarkSent, AtDestination
      <3> HIDE DEF local
      <3>2. \A e \in Dests : arrived'[e] <= 1 /\ (arrived'[e] = 1 => rows'[e].status = "sent")
        BY <1>0, <2>0, <3>1 DEF Marks
      <3>3. \A e \in Dests : Exhausted(e)' => e \in told'
        BY <1>0, <2>0, <3>1 DEF Tells, Exhausted
      <3> QED
        BY <1>1, <2>0, <3>1, <3>2, <3>3, MovesAlone
    <2>4. CASE MarkFailed(p)
      <3> DEFINE row == [status |-> "failed", attempts |-> Counted(rows[d]), next |-> RetryAt(mem[p])]
                 local == [mem[p] EXCEPT !.at = @ + 1]
      <3>1. /\ pc[p] = "mark" /\ ~mem[p].ok /\ d \in Dests /\ UNCHANGED <<told, arrived>>
            /\ rows' = [rows EXCEPT ![d] = row]
        BY <1>0, <2>4 DEF MarkFailed, AtDestination
      <3>2. /\ rows'[d].status = "failed" /\ rows'[d].attempts = mem[p].before + 1
            /\ \A e \in Dests \ {d} : rows'[e] = rows[e]
        BY <1>0, <2>0, <3>1 DEF TryOpen, Counted
      <3>3. \A e \in Dests : arrived'[e] <= 1 /\ (arrived'[e] = 1 => rows'[e].status = "sent")
        BY <1>0, <2>0, <3>1, <3>2 DEF Marks, TryOpen
      <3>4. \A e \in Dests \ {d} : Exhausted(e)' => e \in told'
        BY <2>0, <3>1, <3>2 DEF Tells, Exhausted
      <3>5. CASE LastTry(mem[p])
        <4>1. Goto(p, "tell", mem[p])
          BY <2>4, <3>5 DEF MarkFailed
        <4>2. \A e \in Dests : Exhausted(e)' => e \in told' \/ mem[p].at = e
          BY <3>4
        <4> QED
          BY <1>1, <2>0, <3>3, <4>1, <4>2, MovesAlone
      <3>6. CASE ~LastTry(mem[p])
        <4>1. Goto(p, "claim", local)
          BY <2>4, <3>6 DEF MarkFailed
        <4>2. \A e \in Dests : e = d => ~Exhausted(e)'
          BY <1>0, <3>2, <3>6, DeliveryAssumption DEF LastTry, Exhausted
        <4>3. \A e \in Dests : Exhausted(e)' => e \in told'
          BY <3>4, <4>2
        <4> HIDE DEF local
        <4> QED
          BY <1>1, <2>0, <3>3, <4>1, <4>3, MovesAlone
      <3> QED
        BY <3>5, <3>6
    <2>5. CASE Tell(p)
      <3> DEFINE local == [mem[p] EXCEPT !.at = @ + 1]
      <3>1. /\ pc[p] = "tell" /\ told' = told \cup {d} /\ UNCHANGED <<rows, arrived>>
            /\ Goto(p, "claim", local)
        BY <2>5 DEF Tell
      <3> HIDE DEF local
      <3>2. \A e \in Dests : /\ arrived'[e] <= 1 /\ (arrived'[e] = 1 => rows'[e].status = "sent")
                             /\ Exhausted(e)' => e \in told'
        BY <2>0, <3>1 DEF Marks, Tells, Exhausted
      <3> QED
        BY <1>1, <2>0, <3>1, <3>2, MovesAlone
    <2>6. CASE ListDeliveries(p)
      <3>1. \A e \in Dests : /\ arrived'[e] <= 1 /\ (arrived'[e] = 1 => rows'[e].status = "sent")
                             /\ Exhausted(e)' => e \in told'
        BY <2>0, <2>6 DEF ListDeliveries, Marks, Tells, Exhausted
      <3> QED
        BY <1>1, <2>0, <2>6, <3>1, MovesAlone DEF ListDeliveries
    <2>7. CASE WriteReceipt(p)
      <3>1. \A e \in Dests : /\ arrived'[e] <= 1 /\ (arrived'[e] = 1 => rows'[e].status = "sent")
                             /\ Exhausted(e)' => e \in told'
        BY <2>0, <2>7 DEF WriteReceipt, Marks, Tells, Exhausted
      <3> QED
        BY <1>1, <2>0, <2>7, <3>1, MovesAlone DEF WriteReceipt, Finish
    <2>8. ~Begin(p)
      BY <1>3 DEF Begin, InCall
    <2> QED
      BY <2>1, <2>2, <2>3, <2>4, <2>5, <2>6, <2>7, <2>8 DEF Deliver
  <1>4. InCall(p) \/ Begin(p)
    BY DEF Deliver, Claim, Send, MarkSent, MarkFailed, Tell, ListDeliveries, WriteReceipt, InCall
  <1> QED
    BY <1>2, <1>3, <1>4

LEMMA ONext == OInv /\ [Next]_vars => OInv'
  <1> SUFFICES ASSUME OInv, [Next]_vars, ~disturbed' PROVE CallsAlone'
    BY InvNext DEF OInv
  <1>1. Inv'
    BY InvNext DEF OInv
  <1>2. CASE UNCHANGED vars
    BY <1>2 DEF vars, tables, world, OInv, CallsAlone, Alone, Once, GivenUp, TryOpen, InCall,
                Exhausted, Marks, Tells
  <1> QED
    BY <1>1, <1>2, OCallers, ODeliver, ORestart DEF Next

(* Exactly once, as far as the code can promise it: no message arrives     *)
(* twice as long as calls do not overlap, no answer is lost and no call is *)
(* cut, whatever retries, re-verifications and forced redeliveries follow. *)
THEOREM OnceWhenAlone == Spec => []NeverTwiceAlone
  <1>1. OInv => NeverTwiceAlone
    BY DEF OInv, CallsAlone, Once, NeverTwiceAlone, NeverTwice
  <1> QED
    BY <1>1, OInit, ONext, PTL DEF Spec

(* And a destination whose tries are used up is told of, or about to be.   *)
THEOREM LastFailureIsTold == Spec => []GivenUpIsTold
  <1>1. OInv => GivenUpIsTold
    BY DEF OInv, CallsAlone, GivenUp, GivenUpIsTold, Tells
  <1> QED
    BY <1>1, OInit, ONext, PTL DEF Spec

-----------------------------------------------------------------------------
(* The tries are bounded, however the calls race.                          *)

(* The coroutines whose try at d is not on record yet, and the forced ones *)
(* that may still begin one.                                               *)
Flies(label, m, d)  == label \in {"send", "mark"} /\ m.at = d
Forces(label, m, d) ==
    /\ m.force
    /\ \/ label = "begin"
       \/ label = "claim" /\ m.at <= d
       \/ label \in {"send", "mark", "tell"} /\ m.at < d
InFlight(d) == {p \in Procs : Flies(pc[p], mem[p], d)}
ToForce(d)  == {p \in Procs : Forces(pc[p], mem[p], d)}

(* Every try is on record, in flight, or was lost in a crash, which loses  *)
(* at most one of each coroutine.  A try that nobody forced begins with    *)
(* fewer than MaxTries on record, hence within the cap; a forced one was   *)
(* allowed for when it was asked for.                                      *)
Lost == Cardinality(Procs) * restarts
Known(d)  == tries[d] <= rows[d].attempts + Cardinality(InFlight(d)) + Lost
Capped(d) == tries[d] + Cardinality(ToForce(d))
                 <= MaxTries - 1 + Cardinality(Procs) + Lost + forced
Fresh(d)  == rows[d].status \in {"none", "pending"} => rows[d].attempts = 0
BInv == Inv /\ \A d \in Dests : Known(d) /\ Capped(d) /\ Fresh(d)

LEMMA Numbers ==
  ASSUME Inv, NEW d \in Dests
  PROVE  /\ tries[d] \in Nat /\ rows[d].attempts \in Nat /\ restarts \in Nat /\ forced \in Nat
         /\ Cardinality(Procs) \in Nat /\ Lost \in Nat /\ MaxTries \in Nat \ {0}
  <1>1. Cardinality(Procs) \in Nat /\ MaxTries \in Nat \ {0}
    BY DeliveryAssumption, FS_CardinalityType
  <1>2. tries[d] \in Nat /\ rows[d].attempts \in Nat /\ restarts \in Nat /\ forced \in Nat
    BY DEF Inv, TypeOK, Row
  <1> QED
    BY <1>1, <1>2 DEF Lost

LEMMA Counts ==
  ASSUME NEW S \in SUBSET Procs
  PROVE  /\ IsFiniteSet(S) /\ Cardinality(S) \in Nat /\ Cardinality(S) <= Cardinality(Procs)
         /\ \A T \in SUBSET S : Cardinality(T) <= Cardinality(S)
         /\ \A p : p \notin S => Cardinality(S \cup {p}) = Cardinality(S) + 1
         /\ \A p \in S : Cardinality(S \ {p}) = Cardinality(S) - 1
  BY DeliveryAssumption, FS_Subset, FS_CardinalityType, FS_AddElement, FS_RemoveElement

(* One coroutine moves: what becomes of the two sets.                      *)
LEMMA SetsMove ==
  ASSUME Inv, NEW p \in Procs, NEW label, NEW local, Goto(p, label, local), NEW d \in Dests
  PROVE  /\ InFlight(d)' = IF Flies(label, local, d) THEN InFlight(d) \cup {p}
                           ELSE InFlight(d) \ {p}
         /\ ToForce(d)' = IF Forces(label, local, d) THEN ToForce(d) \cup {p}
                          ELSE ToForce(d) \ {p}
  <1>1. /\ pc'[p] = label /\ mem'[p] = local
        /\ \A q \in Procs \ {p} : pc'[q] = pc[q] /\ mem'[q] = mem[q]
    BY DEF Inv, TypeOK, Goto
  <1>2. InFlight(d)' = {q \in Procs : Flies(pc'[q], mem'[q], d)}
            /\ ToForce(d)' = {q \in Procs : Forces(pc'[q], mem'[q], d)}
    BY DEF InFlight, ToForce, Flies, Forces
  <1> QED
    BY <1>1, <1>2 DEF InFlight, ToForce

(* It begins no try, gets no licence to, and if its try is no longer in    *)
(* flight, then it is on record.                                           *)
LEMMA CountsMove ==
  ASSUME BInv, NEW p \in Procs, NEW label, NEW local, Goto(p, label, local), NEW d \in Dests,
         UNCHANGED <<restarts, forced>>, tries'[d] = tries[d],
         rows'[d].attempts \in Nat, rows'[d].attempts >= rows[d].attempts,
         Flies(pc[p], mem[p], d) => \/ Flies(label, local, d)
                                    \/ rows'[d].attempts = rows[d].attempts + 1,
         Forces(label, local, d) => Forces(pc[p], mem[p], d)
  PROVE  Known(d)' /\ Capped(d)'
  <1>1. /\ InFlight(d)' = IF Flies(label, local, d) THEN InFlight(d) \cup {p}
                          ELSE InFlight(d) \ {p}
        /\ ToForce(d)' \subseteq ToForce(d)
    BY SetsMove DEF BInv, ToForce
  <1>2. InFlight(d) \in SUBSET Procs /\ ToForce(d) \in SUBSET Procs
    BY DEF InFlight, ToForce
  <1>3. Cardinality(ToForce(d)') <= Cardinality(ToForce(d)) /\ Cardinality(ToForce(d)') \in Nat
            /\ Cardinality(ToForce(d)) \in Nat
    BY <1>1, <1>2, Counts
  <1>4. Cardinality(InFlight(d)) \in Nat /\ Cardinality(InFlight(d)') \in Nat
    BY <1>1, <1>2, Counts
  <1>5. rows'[d].attempts + Cardinality(InFlight(d)') >= rows[d].attempts + Cardinality(InFlight(d))
    <2>1. CASE Flies(label, local, d)
      <3>1. InFlight(d) \subseteq InFlight(d)' /\ InFlight(d)' \in SUBSET Procs
        BY <1>1, <1>2, <2>1
      <3>2. Cardinality(InFlight(d)) <= Cardinality(InFlight(d)')
        BY <3>1, Counts
      <3> QED
        BY <1>4, <3>2, Numbers DEF BInv
    <2>2. CASE ~Flies(label, local, d) /\ p \in InFlight(d)
      <3>1. Cardinality(InFlight(d)') = Cardinality(InFlight(d)) - 1
        BY <1>1, <1>2, <2>2, Counts
      <3>2. rows'[d].attempts = rows[d].attempts + 1
        BY <2>2 DEF InFlight
      <3> QED
        BY <1>4, <3>1, <3>2, Numbers DEF BInv
    <2>3. CASE ~Flies(label, local, d) /\ p \notin InFlight(d)
      <3>1. InFlight(d)' = InFlight(d)
        BY <1>1, <2>3
      <3> QED
        BY <1>4, <3>1, Numbers DEF BInv
    <2> QED
      BY <2>1, <2>2, <2>3
  <1>6. Lost' = Lost
    BY DEF Lost
  <1>7. Known(d)'
    BY <1>4, <1>5, <1>6, Numbers DEF BInv, Known
  <1>8. Capped(d)'
    BY <1>3, <1>6, Numbers DEF BInv, Capped
  <1> QED
    BY <1>7, <1>8

LEMMA BInit == Init => BInv
  <1> SUFFICES ASSUME Init PROVE BInv
    OBVIOUS
  <1>1. Inv
    BY InvInit
  <1>2. ASSUME NEW d \in Dests PROVE Known(d) /\ Capped(d) /\ Fresh(d)
    <2>1. InFlight(d) = {} /\ ToForce(d) = {}
      BY DEF Init, InFlight, ToForce, Flies, Forces, Blank
    <2>2. tries[d] = 0 /\ rows[d] = NoRow /\ restarts = 0 /\ forced = 0
      BY DEF Init
    <2> QED
      BY <1>1, <2>1, <2>2, Numbers, FS_EmptySet DEF Known, Capped, Fresh, NoRow
  <1> QED
    BY <1>1, <1>2 DEF BInv

LEMMA BCallers ==
  ASSUME BInv, Inv',
         \/ \E v \in Verifiers : Recheck(v) \/ Verified(v) \/ NotVerified(v)
         \/ RetryDue \/ \E d \in Dests : TimePasses(d)
  PROVE  BInv'
  <1> USE DEF tables, world, bounds, Procs
  <1>1. ASSUME NEW v \in Verifiers, Recheck(v) \/ Verified(v) \/ NotVerified(v), NEW d \in Dests
        PROVE  Known(d)' /\ Capped(d)'
    <2>1. /\ pc[v] \in {"idle", "checking"} /\ UNCHANGED <<rows, tries, restarts, forced>>
          /\ \E label \in {"idle", "checking", "begin"} : Goto(v, label, Blank)
      BY <1>1 DEF Recheck, Verified, NotVerified, Finish
    <2> QED
      BY <2>1, CountsMove, Numbers DEF BInv, Flies, Forces, Blank
  <1>2. ASSUME RetryDue, NEW d \in Dests PROVE Known(d)' /\ Capped(d)'
    BY <1>2, CountsMove, Numbers DEF RetryDue, BInv, Flies, Forces, Blank
  <1>3. ASSUME NEW e \in Dests, TimePasses(e), NEW d \in Dests
        PROVE  Known(d)' /\ Capped(d)' /\ Fresh(d)'
    <2>1. rows'[d].status = rows[d].status /\ rows'[d].attempts = rows[d].attempts
      BY <1>3 DEF TimePasses, BInv, Inv, TypeOK, Row
    <2>2. InFlight(d)' = InFlight(d) /\ ToForce(d)' = ToForce(d) /\ Lost' = Lost
      BY <1>3 DEF TimePasses, InFlight, ToForce, Flies, Forces, Lost
    <2> QED
      BY <1>3, <2>1, <2>2 DEF TimePasses, BInv, Known, Capped, Fresh
  <1>4. ASSUME UNCHANGED rows PROVE \A d \in Dests : Fresh(d)'
    BY <1>4 DEF BInv, Fresh
  <1> QED
    BY <1>1, <1>2, <1>3, <1>4 DEF BInv, Recheck, Verified, NotVerified, RetryDue

(* A forced call is one more that may try.                                 *)
LEMMA BAskDeliver ==
  ASSUME BInv, Inv', NEW u \in People, AskDeliver(u) PROVE BInv'
  <1> DEFINE local == [Blank EXCEPT !.force = TRUE]
  <1>1. /\ u \in Procs /\ Goto(u, "begin", local) /\ pc[u] = "idle" /\ forced' = forced + 1
        /\ UNCHANGED <<rows, tries, restarts>>
    BY DEF AskDeliver, Procs, tables, world
  <1> HIDE DEF local
  <1>2. ASSUME NEW d \in Dests PROVE Known(d)' /\ Capped(d)' /\ Fresh(d)'
    <2>1. InFlight(d)' = InFlight(d)
      BY <1>1, SetsMove DEF BInv, Flies, InFlight
    <2>2. ToForce(d)' \subseteq ToForce(d) \cup {u} /\ ToForce(d) \in SUBSET Procs
      BY <1>1, SetsMove DEF BInv, ToForce
    <2>3. ToForce(d) \cup {u} \in SUBSET Procs
      BY <1>1, <2>2
    <2>4. Cardinality(ToForce(d)') <= Cardinality(ToForce(d) \cup {u})
              /\ Cardinality(ToForce(d)') \in Nat
      BY <2>2, <2>3, Counts
    <2>5. Cardinality(ToForce(d) \cup {u}) <= Cardinality(ToForce(d)) + 1
              /\ Cardinality(ToForce(d)) \in Nat /\ Cardinality(ToForce(d) \cup {u}) \in Nat
      <3>1. ToForce(d) \cup {u} = ToForce(d) \/ u \notin ToForce(d)
        OBVIOUS
      <3> QED
        BY <2>2, <2>3, <3>1, Counts
    <2>6. Lost' = Lost
      BY <1>1 DEF Lost
    <2>7. Known(d)' /\ Fresh(d)'
      BY <1>1, <2>1, <2>6 DEF BInv, Known, Fresh
    <2>8. Capped(d)'
      BY <1>1, <2>4, <2>5, <2>6, Numbers DEF BInv, Capped
    <2> QED
      BY <2>7, <2>8
  <1> QED
    BY <1>2 DEF BInv

(* A try begins: forced, it was allowed for; unforced, it finds fewer than *)
(* MaxTries on record, and the coroutines in flight and those that may     *)
(* force a try are different ones.                                         *)
LEMMA BTry ==
  ASSUME BInv, NEW p \in Procs, NEW d \in Dests, pc[p] = "claim", mem[p].at = d,
         NEW local, local.at = d, Goto(p, "send", local),
         UNCHANGED <<restarts, forced>>, tries'[d] = tries[d] + 1,
         rows'[d].attempts = rows[d].attempts,
         mem[p].force \/ rows[d].attempts < MaxTries
  PROVE  Known(d)' /\ Capped(d)'
  <1> DEFINE F == InFlight(d)
             T == ToForce(d)
  <1>1. F' = F \cup {p} /\ T' = T \ {p} /\ p \notin F /\ F \in SUBSET Procs /\ T \in SUBSET Procs
    <2>1. p \notin F /\ F \in SUBSET Procs /\ T \in SUBSET Procs
      BY DEF InFlight, ToForce, Flies
    <2>2. Flies("send", local, d) /\ ~Forces("send", local, d)
      BY DEF Flies, Forces, Dests
    <2> QED
      BY <2>1, <2>2, SetsMove DEF BInv
  <1>2. Cardinality(F') = Cardinality(F) + 1 /\ Cardinality(F) \in Nat
    BY <1>1, Counts
  <1>3. Cardinality(T) \in Nat /\ Cardinality(T') \in Nat /\ Cardinality(T') <= Cardinality(T)
            /\ (p \in T => Cardinality(T') = Cardinality(T) - 1)
    <2>1. T \ {p} \in SUBSET T /\ T \ {p} \in SUBSET Procs
      BY <1>1
    <2> QED
      BY <1>1, <2>1, Counts
  <1>4. Lost' = Lost
    BY DEF Lost
  <1>5. Known(d)'
    BY <1>2, <1>4, Numbers DEF BInv, Known
  <1>6. CASE mem[p].force
    <2>1. p \in T
      BY <1>6, Numbers DEF ToForce, Forces, Dests
    <2> HIDE DEF T
    <2>2. Capped(d)'
      BY <1>3, <1>4, <2>1, Numbers DEF BInv, Capped, T
    <2> QED
      BY <1>5, <2>2
  <1>7. CASE ~mem[p].force
    <2>1. p \notin T /\ T' = T
      BY <1>1, <1>7 DEF ToForce, Forces
    <2>2. F' \cap T = {}
      <3>1. F \cap T = {}
        BY DEF InFlight, ToForce, Flies, Forces, Dests
      <3> QED
        BY <1>1, <2>1, <3>1
    <2>3. Cardinality(F') + Cardinality(T) <= Cardinality(Procs)
      <3>1. F' \in SUBSET Procs /\ F' \cup T \in SUBSET Procs
        BY <1>1
      <3>2. IsFiniteSet(F') /\ IsFiniteSet(T)
        BY <1>1, <3>1, Counts
      <3>3. Cardinality(F' \cup T) = Cardinality(F') + Cardinality(T) - Cardinality({})
        BY <2>2, <3>2, FS_Union
      <3>4. Cardinality(F' \cup T) <= Cardinality(Procs)
        BY <3>1, Counts
      <3> QED
        BY <1>2, <1>3, <3>3, <3>4, FS_EmptySet, Numbers DEF BInv
    <2>4. tries'[d] + Cardinality(T') <= MaxTries - 1 + Cardinality(Procs) + Lost + forced
      <3>1. tries[d] <= rows[d].attempts + Cardinality(F) + Lost /\ rows[d].attempts < MaxTries
        BY <1>7 DEF BInv, Known
      <3> QED
        BY <1>2, <1>3, <2>1, <2>3, <3>1, Numbers DEF BInv
    <2> QED
      BY <1>4, <1>5, <2>4 DEF Capped
  <1> QED
    BY <1>6, <1>7

LEMMA BDeliver ==
  ASSUME BInv, Inv', NEW p \in Procs, Deliver(p), NEW d \in Dests
  PROVE  Known(d)' /\ Capped(d)' /\ Fresh(d)'
  <1> USE DEF tables, world, bounds
  <1> DEFINE at == mem[p].at
             on == [mem[p] EXCEPT !.at = @ + 1]
  <1>0. /\ mem[p] \in Memory /\ at \in Nat /\ AtDestination(p)
        /\ rows \in [Dests -> Row] /\ rows[d] \in Row /\ tries \in [Dests -> Nat] /\ d \in Nat
    <2>1. mem[p] \in Memory /\ AtDestination(p) /\ TypeOK
      BY DEF BInv, Inv, TypeOK, CallsTruly
    <2>2. d \in Nat
      BY DeliveryAssumption DEF Dests
    <2>3. at \in Nat
      BY <2>1 DEF Memory
    <2> QED
      BY <2>1, <2>2, <2>3 DEF TypeOK
  <1>1. on.at = at + 1 /\ on.force = mem[p].force
    BY <1>0 DEF Memory
  <1> HIDE DEF on
  <1>2. ASSUME UNCHANGED <<rows, tries, restarts, forced>>, NEW label, NEW local,
               Goto(p, label, local), Flies(pc[p], mem[p], d) => Flies(label, local, d),
               Forces(label, local, d) => Forces(pc[p], mem[p], d)
        PROVE  Known(d)' /\ Capped(d)' /\ Fresh(d)'
    <2>1. Known(d)' /\ Capped(d)'
      BY <1>2, CountsMove, Numbers DEF BInv
    <2>2. Fresh(d)'
      BY <1>2 DEF BInv, Fresh
    <2> QED
      BY <2>1, <2>2
  <1>3. CASE Begin(p)
    <2>1. CASE status = "delivered"
      <3> DEFINE local == [mem[p] EXCEPT !.proof = receipt.status]
      <3>1. local.force = mem[p].force
        BY <1>0 DEF Memory
      <3>2. Goto(p, "claim", local) /\ pc[p] = "begin"
        BY <1>3, <2>1 DEF Begin
      <3> HIDE DEF local
      <3> QED
        BY <1>2, <1>3, <3>1, <3>2 DEF Begin, Flies, Forces
    <2>2. CASE status # "delivered"
      BY <1>2, <1>3, <2>2 DEF Begin, Finish, Flies, Forces, Blank
    <2> QED
      BY <2>1, <2>2
  <1>4. CASE Claim(p)
    <2> DEFINE row == Claimed(rows[at])
    <2>1. /\ pc[p] = "claim" /\ at \in Dests /\ UNCHANGED <<restarts, forced>>
          /\ rows' = [rows EXCEPT ![at] = row]
      BY <1>4 DEF Claim
    <2>2. row.attempts = rows[at].attempts /\ rows[at].attempts \in Nat
          /\ (row.status \in {"none", "pending"} => row.attempts = 0)
      <3>1. rows[at] \in Row /\ Fresh(at)
        BY <1>0, <2>1 DEF BInv
      <3> QED
        BY <3>1 DEF Claimed, Row, Fresh
    <2> HIDE DEF row
    <2>3. rows'[d].attempts = rows[d].attempts /\ rows[d].attempts \in Nat /\ Fresh(d)'
      BY <1>0, <2>1, <2>2 DEF BInv, Fresh, Row
    <2>4. CASE Skips(row, mem[p].force)
      <3> DEFINE next == [mem[p] EXCEPT !.at = at + 1]
      <3>1. Goto(p, "claim", next) /\ UNCHANGED tries
        BY <1>4, <2>4 DEF Claim, row
      <3>2. next.at = at + 1 /\ next.force = mem[p].force
        BY <1>0 DEF Memory
      <3> HIDE DEF next
      <3> QED
        BY <1>0, <2>1, <2>3, <3>1, <3>2, CountsMove DEF Flies, Forces
    <2>5. CASE ~Skips(row, mem[p].force)
      <3> DEFINE local == [mem[p] EXCEPT !.before = row.attempts]
      <3>1. Goto(p, "send", local) /\ tries' = [tries EXCEPT ![at] = @ + 1]
        BY <1>4, <2>5 DEF Claim, row
      <3>2. local.at = at /\ local.force = mem[p].force
        BY <1>0 DEF Memory
      <3> HIDE DEF local
      <3>3. CASE d = at
        <4>1. mem[p].force \/ rows[d].attempts < MaxTries
          <5>1. rows[at] \in Row /\ MaxTries \in Nat \ {0}
            BY <1>0, <2>1, DeliveryAssumption
          <5>2. row.status \in {"none", "pending", "sent", "failed"}
            BY <5>1 DEF row, Claimed, Row
          <5> QED
            BY <2>2, <2>5, <3>3, <5>1, <5>2 DEF Skips
        <4>2. tries'[d] = tries[d] + 1
          BY <1>0, <3>1, <3>3
        <4> QED
          BY <2>1, <2>3, <3>1, <3>2, <3>3, <4>1, <4>2, BTry
      <3>4. CASE d # at
        <4>1. tries'[d] = tries[d]
          BY <1>0, <3>1, <3>4
        <4> QED
          BY <1>0, <2>1, <2>3, <3>1, <3>2, <3>4, <4>1, CountsMove DEF Flies, Forces
      <3> QED
        BY <3>3, <3>4
    <2> QED
      BY <2>4, <2>5
  <1>5. ASSUME NEW answer \in Answers, Send(p, answer) PROVE Known(d)' /\ Capped(d)' /\ Fresh(d)'
    <2> DEFINE local == [mem[p] EXCEPT !.ok = Answered(answer)]
    <2>1. local.at = at /\ local.force = mem[p].force
      BY <1>0 DEF Memory
    <2>2. Goto(p, "mark", local) /\ pc[p] = "send"
      BY <1>5 DEF Send
    <2> HIDE DEF local
    <2> QED
      BY <1>2, <1>5, <2>1, <2>2 DEF Send, Flies, Forces
  <1>6. CASE MarkSent(p) \/ MarkFailed(p)
    <2>1. /\ pc[p] = "mark" /\ at \in Dests /\ UNCHANGED <<tries, restarts, forced>>
          /\ \/ Goto(p, "claim", on)
             \/ Goto(p, "tell", mem[p])
      BY <1>0, <1>6 DEF MarkSent, MarkFailed, AtDestination, on
    <2>2. rows' = [rows EXCEPT ![at] =
                      [status |-> "sent", attempts |-> rows[at].attempts + 1, next |-> "never"]]
          \/ rows' = [rows EXCEPT ![at] = [status |-> "failed", attempts |-> rows[at].attempts + 1,
                                           next |-> RetryAt(mem[p])]]
      BY <1>0, <1>6, <2>1 DEF MarkSent, MarkFailed, Counted
    <2>3. /\ d = at => rows'[d].attempts = rows[d].attempts + 1 /\ rows'[d].status \in {"sent", "failed"}
          /\ d # at => rows'[d] = rows[d]
          /\ rows[d].attempts \in Nat
      BY <1>0, <2>1, <2>2 DEF Row
    <2>4. Fresh(d)'
      BY <2>3 DEF BInv, Fresh
    <2>5. CASE Goto(p, "claim", on)
      BY <1>0, <1>1, <2>1, <2>3, <2>4, <2>5, CountsMove DEF Flies, Forces
    <2>6. CASE Goto(p, "tell", mem[p])
      BY <1>0, <2>1, <2>3, <2>4, <2>6, CountsMove DEF Flies, Forces
    <2> QED
      BY <2>1, <2>5, <2>6
  <1>7. CASE Tell(p)
    <2>1. Goto(p, "claim", on) /\ pc[p] = "tell"
      BY <1>7 DEF Tell, on
    <2> QED
      BY <1>0, <1>1, <1>2, <1>7, <2>1 DEF Tell, Flies, Forces
  <1>8. CASE ListDeliveries(p)
    <2>1. PICK local : Goto(p, "receipt", local)
      BY <1>8 DEF ListDeliveries
    <2> QED
      BY <1>2, <1>8, <2>1 DEF ListDeliveries, Flies, Forces
  <1>9. CASE WriteReceipt(p)
    BY <1>2, <1>9 DEF WriteReceipt, Finish, Flies, Forces
  <1> QED
    BY <1>3, <1>4, <1>5, <1>6, <1>7, <1>8, <1>9 DEF Deliver

(* A crash loses the record of at most one try of each coroutine.          *)
LEMMA BRestart ==
  ASSUME BInv, Inv', Restart, NEW d \in Dests PROVE Known(d)' /\ Capped(d)' /\ Fresh(d)'
  <1>1. /\ \A p \in Procs : pc'[p] \in {"idle", "checking"} /\ mem'[p] = Blank
        /\ UNCHANGED <<rows, tries, forced>> /\ restarts' = restarts + 1
    BY DEF Restart, tables, world
  <1>2. InFlight(d)' = {} /\ ToForce(d)' = {}
    BY <1>1 DEF InFlight, ToForce, Flies, Forces, Blank
  <1>3. Lost' = Lost + Cardinality(Procs)
    BY <1>1, Numbers DEF BInv, Lost
  <1>4. InFlight(d) \in SUBSET Procs /\ ToForce(d) \in SUBSET Procs
    BY DEF InFlight, ToForce
  <1>5. /\ Cardinality(InFlight(d)) \in Nat /\ Cardinality(InFlight(d)) <= Cardinality(Procs)
        /\ Cardinality(ToForce(d)) \in Nat
    BY <1>4, Counts
  <1>6. Known(d)'
    BY <1>1, <1>2, <1>3, <1>5, Numbers, FS_EmptySet DEF BInv, Known
  <1>7. Capped(d)'
    BY <1>1, <1>2, <1>3, <1>5, Numbers, FS_EmptySet DEF BInv, Capped
  <1> QED
    BY <1>1, <1>6, <1>7 DEF BInv, Fresh

LEMMA BNext == BInv /\ [Next]_vars => BInv'
  <1> SUFFICES ASSUME BInv, [Next]_vars PROVE BInv'
    OBVIOUS
  <1>1. Inv'
    BY InvNext DEF BInv
  <1>2. CASE UNCHANGED vars
    BY <1>1, <1>2 DEF vars, tables, world, bounds, BInv, Known, Capped, Fresh, Lost, InFlight,
                      ToForce, Flies, Forces
  <1>3. ASSUME NEW p \in Procs, Deliver(p) PROVE BInv'
    BY <1>1, <1>3, BDeliver DEF BInv
  <1>4. CASE Restart
    BY <1>1, <1>4, BRestart DEF BInv
  <1> QED
    BY <1>1, <1>2, <1>3, <1>4, BCallers, BAskDeliver DEF Next

(* However many calls race, the tries at a destination stay bounded: by    *)
(* MAX_ATTEMPTS, one for each other coroutine and crash, and one for each  *)
(* redelivery that people asked for.                                       *)
THEOREM TriesStayBounded == Spec => []TriesBounded
  <1>1. ASSUME BInv, NEW d \in Dests
        PROVE  tries[d] <= MaxTries - 1 + Cardinality(Procs) * (1 + restarts) + forced
    <2>1. Capped(d) /\ Cardinality(ToForce(d)) \in Nat
      BY <1>1, Counts DEF BInv, ToForce
    <2>2. Cardinality(Procs) * (1 + restarts) = Cardinality(Procs) + Lost
      BY <1>1, Numbers DEF BInv, Lost
    <2> QED
      BY <1>1, <2>1, <2>2, Numbers DEF BInv, Capped
  <1>2. BInv => TriesBounded
    BY <1>1 DEF TriesBounded
  <1> QED
    BY <1>2, BInit, BNext, PTL DEF Spec
=============================================================================
