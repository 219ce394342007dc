------------------------- MODULE Escalation_proofs --------------------------
(***************************************************************************)
(* An escalation is sent by one coroutine at a time, arrives once unless   *)
(* the record of it was lost, and is not tried too often: for any number   *)
(* of tasks, destinations, rounds, tries and crashes.                      *)
(***************************************************************************)
EXTENDS Escalation, TLAPS

(* What a row says is what was sent, up to the send that is under way.     *)
RowSound(k) ==
    /\ rows[k].status = "none" =>
           arrived[k] = 0 /\ tries[k] = 0 /\ rows[k].attempts = 0 /\ rows[k].next = "never"
    /\ rows[k].next # "never" => rows[k].status = "failed" /\ rows[k].attempts < MaxTries
    /\ rows[k].attempts <= MaxTries
    /\ k \in misled \/ arrived[k] = 0 \/
           /\ arrived[k] = 1
           /\ \/ rows[k].status = "sent"
              \/ \E p \in Procs : pc[p] = "mark" /\ Key(p) = k /\ mem[p].answer = "ok"
    /\ \/ tries[k] <= rows[k].attempts + restarts
       \/ /\ tries[k] <= rows[k].attempts + restarts + 1
          /\ \E p \in Procs : Busy(p) /\ Key(p) = k

(* Whoever sends knows its row: a task its new one, the loop one that was  *)
(* due, and both how often it was tried.                                   *)
ProcSound(p) ==
    Busy(p) =>
        /\ Key(p) \in Keys
        /\ IF p = Loop
           THEN rows[Key(p)].status = "failed" /\ rows[Key(p)].next = "due" /\ Key(p) \notin mem[p].due
           ELSE rows[Key(p)].status = "pending"
        /\ mem[p].before = rows[Key(p)].attempts /\ rows[Key(p)].attempts < MaxTries
        /\ pc[p] = "send" => Key(p) \in misled \/ arrived[Key(p)] = 0

(* The loop's list stays due.                                              *)
ListSound == \A k \in mem[Loop].due : rows[k].status = "failed" /\ rows[k].next = "due"

Sound ==
    /\ \A k \in Keys : RowSound(k)
    /\ \A p \in Procs : ProcSound(p)
    /\ ListSound /\ OneSender

IInv == TypeOK /\ Sound

LEMMA BlankTypes == Blank \in Memory /\ NoRow \in Row
  BY EscalationAssumption DEF Blank, Memory, NoRow, Row, Events, Rounds

LEMMA InitIInv == Init => IInv
  <1> SUFFICES ASSUME Init PROVE IInv
    OBVIOUS
  <1> USE EscalationAssumption
  <1>1. TypeOK
    BY BlankTypes DEF Init, TypeOK, Rounds, Keys
  <1>2. \A k \in Keys : RowSound(k)
    BY DEF Init, RowSound, NoRow
  <1>3. (\A p \in Procs : ProcSound(p)) /\ OneSender
    BY DEF Init, ProcSound, OneSender, Busy
  <1>4. ListSound
    BY DEF Init, ListSound, Blank, Procs
  <1> QED
    BY <1>1, <1>2, <1>3, <1>4 DEF IInv, Sound

-----------------------------------------------------------------------------
(* Frames.                                                                 *)

(* No row is touched, and nobody begins, goes on with or ends a send.      *)
LEMMA QuietFrame ==
  ASSUME Sound, UNCHANGED <<rows, restarts, world>>,
         \A p \in Procs : (Busy(p) \/ Busy(p)') => pc'[p] = pc[p] /\ mem'[p] = mem[p],
         ListSound'
  PROVE  Sound'
  <1>1. \A p \in Procs : Busy(p)' <=> Busy(p)
    BY DEF Busy
  <1>2. \A p \in Procs : Busy(p) => pc'[p] = pc[p] /\ mem'[p] = mem[p] /\ Key(p)' = Key(p)
    BY DEF Key
  <1>3. ASSUME NEW p \in Procs, pc[p] = "mark" PROVE Busy(p)
    BY <1>3 DEF Busy
  <1>4. \A k \in Keys : RowSound(k)'
    BY <1>1, <1>2, <1>3 DEF Sound, RowSound, world
  <1>5. \A p \in Procs : ProcSound(p)'
    BY <1>1, <1>2 DEF Sound, ProcSound, world
  <1>6. OneSender'
    BY <1>1, <1>2 DEF Sound, OneSender
  <1> QED
    BY <1>4, <1>5, <1>6 DEF Sound

(* One coroutine moves, and touches only its own row, which nobody else    *)
(* sends.                                                                  *)
LEMMA MoveFrame ==
  ASSUME Sound, NEW p \in Procs, NEW k \in Keys, restarts' = restarts,
         \A q \in Procs \ {p} : pc'[q] = pc[q] /\ mem'[q] = mem[q],
         \A j \in Keys \ {k} : /\ rows'[j] = rows[j] /\ arrived'[j] = arrived[j] /\ tries'[j] = tries[j]
                               /\ j \in misled' <=> j \in misled,
         \A q \in Procs \ {p} : Busy(q) => Key(q) # k,
         Busy(p) => Key(p) = k, Busy(p)' => Key(p)' = k,
         RowSound(k)', ProcSound(p)', ListSound'
  PROVE  Sound'
  <1>1. \A q \in Procs \ {p} : (Busy(q)' <=> Busy(q)) /\ Key(q)' = Key(q)
    BY DEF Busy, Key
  <1>2. ASSUME NEW j \in Keys \ {k} PROVE RowSound(j)'
    <2>1. \A q \in Procs : Busy(q) /\ Key(q) = j => q # p
      OBVIOUS
    <2>2. \A q \in Procs : pc[q] = "mark" => Busy(q)
      BY DEF Busy
    <2>3. \A q \in Procs : Busy(q) /\ Key(q) = j => Busy(q)' /\ Key(q)' = j
      BY <1>1, <2>1
    <2>4. \A q \in Procs : pc[q] = "mark" /\ Key(q) = j /\ mem[q].answer = "ok" =>
              pc'[q] = "mark" /\ Key(q)' = j /\ mem'[q].answer = "ok"
      BY <1>1, <2>1, <2>2
    <2> QED
      BY <2>3, <2>4 DEF Sound, RowSound
  <1>3. \A q \in Procs \ {p} : ProcSound(q)'
    BY <1>1 DEF Sound, ProcSound
  <1>4. OneSender'
    BY <1>1 DEF Sound, OneSender
  <1> QED
    BY <1>2, <1>3, <1>4 DEF Sound

-----------------------------------------------------------------------------
(* Steps that send nothing.                                                *)

(* The outcome's engine and people; a task that starts, reads the round or *)
(* ends; the loop when it lists what is due.                               *)
LEMMA QuietStep ==
  ASSUME IInv,
         \/ \E t \in Tasks : AskApproval(t) \/ DeliveryFails(t) \/ Read(t) \/ EndTask(t)
                                 \/ \E event \in Events : GiveUp(t, event)
         \/ \E to \in {"delivered", "working", "stuck"} : PersonActs(to)
         \/ Delivered \/ ListDue \/ EndTick
  PROVE  IInv'
  <1> USE DEF outcome, engine, world
  <1>0. TypeOK /\ Sound /\ ListSound
    BY DEF IInv, Sound
  <1>1. ASSUME NEW p \in Procs, NEW m \in Memory, NEW l, l \notin {"send", "mark"},
               l \in {"idle", "read", "claim", "each", "over"},
               pc' = [pc EXCEPT ![p] = l], mem' = [mem EXCEPT ![p] = m],
               pc[p] \notin {"send", "mark"}, p = Loop => m.due \subseteq DueRows,
               UNCHANGED <<rows, restarts, world>>
        PROVE  Sound' /\ pc' \in [Procs -> {"idle", "read", "claim", "send", "mark", "each", "over"}]
                      /\ mem' \in [Procs -> Memory]
    <2>1. \A q \in Procs \ {p} : pc'[q] = pc[q] /\ mem'[q] = mem[q]
      BY <1>1, <1>0 DEF TypeOK
    <2>2. pc'[p] = l /\ mem'[p] = m
      BY <1>1, <1>0 DEF TypeOK
    <2>3. \A q \in Procs : (Busy(q) \/ Busy(q)') => pc'[q] = pc[q] /\ mem'[q] = mem[q]
      BY <1>1, <2>1, <2>2 DEF Busy
    <2>4. ListSound'
      BY <1>0, <1>1, <2>1, <2>2 DEF ListSound, DueRows, Procs
    <2>5. Sound'
      BY <1>0, <1>1, <2>3, <2>4, QuietFrame
    <2> QED
      BY <1>0, <1>1, <2>5 DEF TypeOK
  <1>2. ASSUME NEW t \in Tasks, NEW event \in Events, Fire(t, event),
               UNCHANGED <<rows, restarts, world>>
        PROVE  Sound' /\ pc' \in [Procs -> {"idle", "read", "claim", "send", "mark", "each", "over"}]
                      /\ mem' \in [Procs -> Memory]
    <2> DEFINE m == [Blank EXCEPT !.event = event]
    <2>1. pc' = [pc EXCEPT ![t] = "read"] /\ mem' = [mem EXCEPT ![t] = m] /\ pc[t] = "idle"
      BY <1>2 DEF Fire
    <2>2. m \in Memory
      BY BlankTypes DEF Memory
    <2> HIDE DEF m
    <2>3. t \in Procs /\ t # Loop
      BY EscalationAssumption DEF Procs
    <2> QED
      BY <1>1, <1>2, <2>1, <2>2, <2>3
  <1>3. ASSUME NEW t \in Tasks, AskApproval(t) PROVE IInv'
    BY <1>0, <1>2, <1>3 DEF AskApproval, IInv, TypeOK, Events
  <1>4. ASSUME NEW t \in Tasks, NEW event \in Events, GiveUp(t, event) PROVE IInv'
    <2>1. log' \in Rounds
      BY <1>0, <1>4, EscalationAssumption DEF GiveUp, TypeOK, Rounds
    <2> QED
      BY <1>0, <1>2, <1>4, <2>1 DEF GiveUp, IInv, TypeOK
  <1>5. ASSUME NEW t \in Tasks, DeliveryFails(t) PROVE IInv'
    BY <1>0, <1>2, <1>5 DEF DeliveryFails, IInv, TypeOK, Events
  <1>6. ASSUME UNCHANGED <<pc, mem, rows, restarts, world>> PROVE Sound'
    BY <1>0, <1>6, QuietFrame DEF ListSound
  <1>7. ASSUME NEW to \in {"delivered", "working", "stuck"}, PersonActs(to) PROVE IInv'
    <2>1. log' \in Rounds
      BY <1>0, <1>7, EscalationAssumption DEF PersonActs, TypeOK, Rounds
    <2> QED
      BY <1>0, <1>6, <1>7, <2>1 DEF PersonActs, IInv, TypeOK
  <1>8. CASE Delivered
    BY <1>0, <1>6, <1>8 DEF Delivered, IInv, TypeOK
  <1>9. ASSUME NEW t \in Tasks, Read(t) PROVE IInv'
    <2> DEFINE m == [mem[t] EXCEPT !.round = log]
    <2>1. pc' = [pc EXCEPT ![t] = "claim"] /\ mem' = [mem EXCEPT ![t] = m] /\ pc[t] = "read"
      BY <1>9 DEF Read
    <2>2. t \in Procs /\ t # Loop
      BY EscalationAssumption DEF Procs
    <2>3. m \in Memory
      BY <1>0, <2>2 DEF TypeOK, Memory
    <2> HIDE DEF m
    <2> QED
      BY <1>0, <1>1, <1>9, <2>1, <2>2, <2>3 DEF Read, IInv, TypeOK
  <1>10. ASSUME NEW t \in Tasks, EndTask(t) PROVE IInv'
    <2> DEFINE m == [mem[t] EXCEPT !.answer = "ok"]
    <2>1. pc' = [pc EXCEPT ![t] = "over"] /\ mem' = [mem EXCEPT ![t] = m] /\ pc[t] = "claim"
      BY <1>10 DEF EndTask
    <2>2. t \in Procs /\ t # Loop
      BY EscalationAssumption DEF Procs
    <2>3. m \in Memory
      BY <1>0, <2>2 DEF TypeOK, Memory
    <2> HIDE DEF m
    <2> QED
      BY <1>0, <1>1, <1>10, <2>1, <2>2, <2>3 DEF EndTask, IInv, TypeOK
  <1>11. CASE ListDue
    <2> DEFINE m == [mem[Loop] EXCEPT !.due = DueRows]
    <2>1. pc' = [pc EXCEPT ![Loop] = "each"] /\ mem' = [mem EXCEPT ![Loop] = m] /\ pc[Loop] = "idle"
      BY <1>11 DEF ListDue
    <2>2. Loop \in Procs
      BY DEF Procs
    <2>3. m \in Memory /\ m.due = DueRows
      BY <1>0, <2>2 DEF TypeOK, Memory, DueRows
    <2> HIDE DEF m
    <2> QED
      BY <1>0, <1>1, <1>11, <2>1, <2>2, <2>3 DEF ListDue, IInv, TypeOK
  <1>12. CASE EndTick
    <2>1. Loop \in Procs /\ Blank.due = {}
      BY DEF Procs, Blank
    <2> QED
      BY <1>0, <1>1, <1>12, <2>1, BlankTypes DEF EndTick, IInv, TypeOK
  <1> QED
    BY <1>3, <1>4, <1>5, <1>7, <1>8, <1>9, <1>10, <1>11, <1>12

(* A later date comes: nobody sends a row that has one.                    *)
LEMMA TimeStep ==
  ASSUME IInv, NEW k \in Keys, TimePasses(k)
  PROVE  IInv'
  <1>0. TypeOK /\ Sound
    BY DEF IInv
  <1>1. /\ rows[k].next = "later" /\ rows' = [rows EXCEPT ![k].next = "due"]
        /\ UNCHANGED <<outcome, engine, restarts, world>>
    BY DEF TimePasses
  <1>2. /\ \A j \in Keys \ {k} : rows'[j] = rows[j]
        /\ rows'[k].next = "due" /\ rows'[k].status = rows[k].status
        /\ rows'[k].attempts = rows[k].attempts
    BY <1>0, <1>1 DEF TypeOK, Row
  <1>3. \A j \in Keys : RowSound(j)'
    <2>1. ASSUME NEW j \in Keys PROVE RowSound(j)'
      BY <1>0, <1>1, <1>2 DEF Sound, RowSound, engine, world, Busy, Key
    <2> QED
      BY <2>1
  <1>4. \A p \in Procs : ProcSound(p)'
    <2> SUFFICES ASSUME NEW p \in Procs PROVE ProcSound(p)'
      OBVIOUS
    <2>1. ProcSound(p) /\ UNCHANGED <<pc, mem, arrived, misled>>
      BY <1>0, <1>1 DEF Sound, engine, world
    <2>2. \A j \in Keys : rows'[j].status = rows[j].status /\ rows'[j].attempts = rows[j].attempts
      BY <1>2
    <2>3. \A j \in Keys : rows[j].next = "due" => rows'[j].next = "due"
      BY <1>2
    <2> QED
      BY <2>1, <2>2, <2>3 DEF ProcSound, Busy, Key
  <1>5. ListSound' /\ OneSender'
    <2>1. UNCHANGED <<pc, mem>> /\ mem[Loop].due \subseteq Keys
      BY <1>0, <1>1 DEF engine, TypeOK, Memory, Procs
    <2> QED
      BY <1>0, <1>2, <2>1 DEF Sound, ListSound, OneSender, Busy, Key
  <1>6. [rows[k] EXCEPT !.next = "due"] \in Row
    BY <1>0 DEF TypeOK, Row
  <1>7. TypeOK'
    BY <1>0, <1>1, <1>6 DEF TypeOK, outcome, engine, world
  <1> QED
    BY <1>3, <1>4, <1>5, <1>7 DEF IInv, Sound

-----------------------------------------------------------------------------
(* Steps of a send.                                                        *)

LEMMA ClaimStep ==
  ASSUME IInv, NEW t \in Tasks, Claim(t)
  PROVE  IInv'
  <1>0. /\ TypeOK /\ Sound /\ t \in Procs /\ t # Loop /\ Loop \in Procs
        /\ mem[t] \in Memory /\ mem[Loop] \in Memory
    BY EscalationAssumption DEF IInv, Procs, TypeOK
  <1>1. pc[t] = "claim" /\ mem[t].at <= dests
    BY DEF Claim
  <1>2. Key(t) \in Keys
    BY <1>0, <1>1, EscalationAssumption DEF TypeOK, Memory, Key, Keys, Dests
  <1>3. CASE rows[Key(t)].status = "none"
    <2>1. PICK k \in Keys : k = Key(t)
      BY <1>2
    <2> DEFINE row == [NoRow EXCEPT !.status = "pending"]
               m == [mem[t] EXCEPT !.before = 0]
    <2>2. /\ rows' = [rows EXCEPT ![k] = row]
          /\ tries' = [tries EXCEPT ![k] = @ + 1]
          /\ pc' = [pc EXCEPT ![t] = "send"] /\ mem' = [mem EXCEPT ![t] = m]
          /\ UNCHANGED <<outcome, restarts, arrived, misled>>
      BY <1>3, <2>1 DEF Claim, New
    <2>3. row = [status |-> "pending", attempts |-> 0, next |-> "never"]
      BY DEF NoRow
    <2>4. row \in Row
      BY <2>3 DEF Row
    <2>5. m \in Memory /\ m.event = mem[t].event /\ m.round = mem[t].round /\ m.at = mem[t].at
              /\ m.before = 0
      BY <1>0 DEF Memory
    <2> HIDE DEF row, m
    <2>6. rows'[k] = row /\ pc'[t] = "send" /\ mem'[t] = m /\ tries'[k] = tries[k] + 1
      BY <1>0, <2>2 DEF TypeOK
    <2>7. /\ \A q \in Procs \ {t} : pc'[q] = pc[q] /\ mem'[q] = mem[q]
          /\ \A j \in Keys \ {k} : rows'[j] = rows[j] /\ tries'[j] = tries[j]
      BY <1>0, <2>2 DEF TypeOK
    <2>8. Key(t)' = k
      BY <2>1, <2>5, <2>6 DEF Key
    <2>9. rows[k].status = "none" /\ arrived[k] = 0 /\ tries[k] = 0 /\ RowSound(k)
      BY <1>0, <1>3, <2>1 DEF Sound, RowSound
    <2>10. \A q \in Procs : Busy(q) => Key(q) # k
      BY <1>0, <2>9 DEF Sound, ProcSound
    <2>11. ~Busy(t)
      BY <1>1 DEF Busy
    <2>12. RowSound(k)'
      <3>1. tries'[k] <= rows'[k].attempts + restarts' + 1
        BY <1>0, <2>2, <2>3, <2>6, <2>9 DEF TypeOK
      <3>2. Busy(t)' /\ Key(t)' = k
        BY <2>6, <2>8 DEF Busy
      <3>3. rows'[k].attempts <= MaxTries
        BY <2>3, <2>6, EscalationAssumption
      <3> QED
        BY <1>0, <2>2, <2>3, <2>6, <2>9, <3>1, <3>2, <3>3 DEF RowSound
    <2>13. ProcSound(t)'
      BY <1>0, <2>2, <2>3, <2>5, <2>6, <2>8, <2>9, EscalationAssumption DEF ProcSound
    <2>14. ListSound'
      <3>1. mem'[Loop] = mem[Loop] /\ mem[Loop].due \subseteq Keys
        BY <1>0, <2>7 DEF Memory
      <3>2. k \notin mem[Loop].due
        BY <1>0, <2>9 DEF Sound, ListSound
      <3> QED
        BY <1>0, <2>7, <3>1, <3>2 DEF Sound, ListSound
    <2>15. Sound'
      BY <1>0, <2>2, <2>7, <2>8, <2>10, <2>11, <2>12, <2>13, <2>14, MoveFrame
    <2> QED
      BY <1>0, <2>2, <2>4, <2>5, <2>15 DEF IInv, TypeOK, outcome
  <1>4. CASE rows[Key(t)].status # "none"
    <2> DEFINE m == [mem[t] EXCEPT !.at = mem[t].at + 1]
    <2>1. mem' = [mem EXCEPT ![t] = m] /\ UNCHANGED <<pc, rows, outcome, restarts, world>>
      BY <1>4 DEF Claim, New, world
    <2>2. m \in Memory
      BY <1>0 DEF Memory
    <2> HIDE DEF m
    <2>3. \A q \in Procs \ {t} : mem'[q] = mem[q]
      BY <1>0, <2>1 DEF TypeOK
    <2>4. \A q \in Procs : (Busy(q) \/ Busy(q)') => pc'[q] = pc[q] /\ mem'[q] = mem[q]
      BY <1>1, <2>1, <2>3 DEF Busy
    <2>5. ListSound'
      BY <1>0, <2>1, <2>3 DEF Sound, ListSound
    <2>6. Sound'
      BY <1>0, <2>1, <2>4, <2>5, QuietFrame
    <2> QED
      BY <1>0, <2>1, <2>2, <2>6 DEF IInv, TypeOK, outcome, world
  <1> QED
    BY <1>3, <1>4

LEMMA SendStep ==
  ASSUME IInv, NEW p \in Procs, NEW answer \in Answers, Send(p, answer)
  PROVE  IInv'
  <1>0. TypeOK /\ Sound /\ ProcSound(p) /\ mem[p] \in Memory /\ Loop \in Procs
    BY DEF IInv, Sound, TypeOK, Procs
  <1>1. pc[p] = "send" /\ Busy(p)
    BY DEF Send, Busy
  <1>2. PICK k \in Keys : k = Key(p)
    BY <1>0, <1>1 DEF ProcSound
  <1> DEFINE m == [mem[p] EXCEPT !.answer = Said(answer)]
  <1>3. /\ arrived' = IF answer \in {"ok", "lost"} THEN [arrived EXCEPT ![k] = @ + 1] ELSE arrived
        /\ misled' = IF answer = "lost" THEN misled \cup {k} ELSE misled
        /\ pc' = [pc EXCEPT ![p] = "mark"] /\ mem' = [mem EXCEPT ![p] = m]
        /\ UNCHANGED <<outcome, rows, restarts, tries>>
    BY <1>2 DEF Send
  <1>4. answer \in {"ok", "error", "permanent", "lost"}
    BY EscalationAssumption
  <1>5. m \in Memory /\ m.event = mem[p].event /\ m.round = mem[p].round /\ m.at = mem[p].at
            /\ m.before = mem[p].before /\ m.due = mem[p].due /\ m.answer = Said(answer)
    BY <1>0, <1>4 DEF Memory, Said
  <1> HIDE DEF m
  <1>6. /\ pc'[p] = "mark" /\ mem'[p] = m
        /\ \A q \in Procs \ {p} : pc'[q] = pc[q] /\ mem'[q] = mem[q]
        /\ \A j \in Keys \ {k} : arrived'[j] = arrived[j] /\ (j \in misled' <=> j \in misled)
    BY <1>0, <1>3 DEF TypeOK
  <1>7. Key(p)' = k
    BY <1>2, <1>5, <1>6 DEF Key
  <1>8. \A q \in Procs \ {p} : Busy(q) => Key(q) # k
    BY <1>0, <1>1, <1>2 DEF Sound, OneSender
  <1>9. RowSound(k)'
    <2>1. RowSound(k) /\ (k \in misled \/ arrived[k] = 0)
      BY <1>0, <1>1, <1>2 DEF Sound, ProcSound
    <2>2. rows[k].status # "none"
      BY <1>0, <1>1, <1>2 DEF ProcSound
    <2>3. Busy(p)' /\ pc'[p] = "mark" /\ (answer = "ok" => mem'[p].answer = "ok")
      BY <1>5, <1>6 DEF Busy, Said
    <2>4. CASE answer = "ok"
      <3>1. arrived'[k] = arrived[k] + 1 /\ misled' = misled
        BY <1>0, <1>3, <2>4 DEF TypeOK
      <3> QED
        BY <1>3, <1>7, <2>1, <2>2, <2>3, <2>4, <3>1 DEF RowSound
    <2>5. CASE answer = "lost"
      <3>1. k \in misled'
        BY <1>3, <2>5
      <3> QED
        BY <1>3, <1>7, <2>1, <2>2, <2>3, <3>1 DEF RowSound
    <2>6. CASE answer \notin {"ok", "lost"}
      <3>1. UNCHANGED <<arrived, misled>>
        BY <1>3, <2>6
      <3> QED
        BY <1>3, <1>7, <2>1, <2>2, <2>3, <3>1 DEF RowSound
    <2> QED
      BY <2>4, <2>5, <2>6
  <1>10. ProcSound(p)'
    BY <1>0, <1>1, <1>2, <1>3, <1>5, <1>6, <1>7 DEF ProcSound
  <1>11. ListSound'
    <2>1. mem'[Loop].due = mem[Loop].due
      BY <1>0, <1>5, <1>6
    <2> QED
      BY <1>0, <1>3, <2>1 DEF Sound, ListSound
  <1>12. Sound'
    BY <1>0, <1>2, <1>3, <1>6, <1>7, <1>8, <1>9, <1>10, <1>11, MoveFrame
  <1> QED
    BY <1>0, <1>3, <1>5, <1>12 DEF IInv, TypeOK, outcome

LEMMA MarkStep ==
  ASSUME IInv, NEW p \in Procs, Mark(p)
  PROVE  IInv'
  <1>0. TypeOK /\ Sound /\ ProcSound(p) /\ mem[p] \in Memory /\ Loop \in Procs
    BY DEF IInv, Sound, TypeOK, Procs
  <1>1. pc[p] = "mark" /\ Busy(p)
    BY DEF Mark, Busy
  <1>2. PICK k \in Keys : k = Key(p)
    BY <1>0, <1>1 DEF ProcSound
  <1> DEFINE row == Marked(rows[k], mem[p])
  <1>3. /\ rows' = [rows EXCEPT ![k] = row]
        /\ UNCHANGED <<outcome, restarts, world>>
    BY <1>2 DEF Mark
  <1>4. /\ row.status = IF mem[p].answer = "ok" THEN "sent" ELSE "failed"
        /\ row.attempts = rows[k].attempts + 1
        /\ row.next = IF Again(mem[p]) THEN "later" ELSE "never"
    BY DEF Marked
  <1>5. row \in Row
    BY <1>0 DEF Marked, Row, TypeOK
  <1>6. /\ pc' \in [Procs -> {"idle", "read", "claim", "send", "mark", "each", "over"}]
        /\ mem' \in [Procs -> Memory] /\ pc'[p] \in {"each", "claim"}
        /\ mem'[p].due = mem[p].due
        /\ \A q \in Procs \ {p} : pc'[q] = pc[q] /\ mem'[q] = mem[q]
    <2>1. [mem[p] EXCEPT !.at = @ + 1] \in Memory
      BY <1>0 DEF Memory
    <2> QED
      BY <1>0, <2>1 DEF Mark, TypeOK, Memory
  <1> HIDE DEF row
  <1>7. rows'[k] = row /\ \A j \in Keys \ {k} : rows'[j] = rows[j]
    BY <1>0, <1>3 DEF TypeOK
  <1>8. ~Busy(p)' /\ \A q \in Procs \ {p} : Busy(q) => Key(q) # k
    BY <1>0, <1>1, <1>2, <1>6 DEF Sound, OneSender, Busy
  <1>9. rows[k].attempts < MaxTries /\ mem[p].before = rows[k].attempts /\ RowSound(k)
    BY <1>0, <1>1, <1>2 DEF Sound, ProcSound
  <1>10. RowSound(k)'
    <2>1. rows[k].attempts \in Nat /\ MaxTries \in Nat
      BY <1>0, EscalationAssumption DEF TypeOK, Row
    <2>2. Again(mem[p]) => mem[p].answer # "ok" /\ row.attempts < MaxTries
      BY <1>4, <1>9, <2>1 DEF Again
    <2>3. row.attempts <= MaxTries
      BY <1>4, <1>9, <2>1
    <2>4. k \in misled \/ arrived[k] = 0 \/ (arrived[k] = 1 /\ row.status = "sent")
      <3>1. SUFFICES ASSUME k \notin misled, arrived[k] # 0
                     PROVE  arrived[k] = 1 /\ row.status = "sent"
        OBVIOUS
      <3>2. rows[k].status # "sent"
        BY <1>0, <1>1, <1>2 DEF ProcSound
      <3>3. PICK q \in Procs : pc[q] = "mark" /\ Key(q) = k /\ mem[q].answer = "ok"
        BY <1>9, <3>1, <3>2 DEF RowSound
      <3>4. q = p
        BY <1>8, <3>3 DEF Busy
      <3> QED
        BY <1>4, <1>9, <3>1, <3>3, <3>4 DEF RowSound
    <2>5. tries[k] <= row.attempts + restarts
      BY <1>0, <1>4, <1>9, <2>1 DEF RowSound, TypeOK
    <2> QED
      BY <1>3, <1>4, <1>7, <2>2, <2>3, <2>4, <2>5 DEF RowSound, world
  <1>11. ProcSound(p)'
    BY <1>8 DEF ProcSound
  <1>12. ListSound'
    <2>1. mem'[Loop].due = mem[Loop].due /\ mem[Loop].due \subseteq Keys
      BY <1>0, <1>6 DEF TypeOK, Memory
    <2>2. k \notin mem[Loop].due
      BY <1>0, <1>1, <1>2 DEF Sound, ListSound, ProcSound
    <2> QED
      BY <1>0, <1>7, <2>1, <2>2 DEF Sound, ListSound
  <1>13. Sound'
    BY <1>0, <1>2, <1>3, <1>6, <1>7, <1>8, <1>10, <1>11, <1>12, MoveFrame DEF world
  <1> QED
    BY <1>0, <1>3, <1>5, <1>6, <1>13 DEF IInv, TypeOK, outcome, world

(* The loop sends a row again.                                             *)
LEMMA RetryStep ==
  ASSUME IInv, NEW k \in Keys, Retry(k)
  PROVE  IInv'
  <1>0. TypeOK /\ Sound /\ Loop \in Procs /\ mem[Loop] \in Memory
    BY DEF IInv, Procs, TypeOK
  <1> DEFINE m == [event |-> k[1], round |-> k[2], at |-> k[3], before |-> rows[k].attempts,
                   answer |-> "ok", due |-> mem[Loop].due \ {k}]
  <1>1. /\ pc[Loop] = "each" /\ k \in mem[Loop].due
        /\ pc' = [pc EXCEPT ![Loop] = "send"] /\ mem' = [mem EXCEPT ![Loop] = m]
        /\ tries' = [tries EXCEPT ![k] = @ + 1]
        /\ UNCHANGED <<outcome, rows, restarts, arrived, misled>>
    BY DEF Retry
  <1>2. k[1] \in Events /\ k[2] \in Rounds /\ k[3] \in Dests /\ k = <<k[1], k[2], k[3]>>
    BY DEF Keys
  <1>3. k[3] \in Nat \ {0} /\ rows[k].attempts \in Nat
    BY <1>0, <1>2, EscalationAssumption DEF Dests, TypeOK, Row
  <1>4. m \in Memory
    BY <1>0, <1>2, <1>3 DEF Memory
  <1>5. m.before = rows[k].attempts /\ m.due = mem[Loop].due \ {k} /\ <<m.event, m.round, m.at>> = k
    BY <1>2
  <1> HIDE DEF m
  <1>6. /\ pc'[Loop] = "send" /\ mem'[Loop] = m /\ tries'[k] = tries[k] + 1
        /\ \A q \in Procs \ {Loop} : pc'[q] = pc[q] /\ mem'[q] = mem[q]
        /\ \A j \in Keys \ {k} : tries'[j] = tries[j]
    BY <1>0, <1>1 DEF TypeOK
  <1>7. Key(Loop)' = k /\ Busy(Loop)' /\ ~Busy(Loop)
    BY <1>1, <1>5, <1>6 DEF Key, Busy
  <1>8. rows[k].status = "failed" /\ rows[k].next = "due" /\ RowSound(k)
    BY <1>0, <1>1 DEF Sound, ListSound
  <1>9. \A q \in Procs : Busy(q) => Key(q) # k
    BY <1>0, <1>7, <1>8 DEF Sound, ProcSound
  <1>10. k \in misled \/ arrived[k] = 0
    BY <1>8, <1>9 DEF RowSound, Busy
  <1>11. RowSound(k)'
    <2>1. tries'[k] <= rows[k].attempts + restarts + 1
      BY <1>0, <1>3, <1>6, <1>8, <1>9 DEF RowSound, TypeOK
    <2> QED
      BY <1>0, <1>1, <1>6, <1>7, <1>8, <1>10, <2>1 DEF RowSound
  <1>12. ProcSound(Loop)'
    BY <1>1, <1>5, <1>6, <1>7, <1>8, <1>10 DEF ProcSound, RowSound
  <1>13. ListSound'
    BY <1>0, <1>1, <1>5, <1>6 DEF Sound, ListSound
  <1>14. Sound'
    BY <1>0, <1>1, <1>6, <1>7, <1>9, <1>11, <1>12, <1>13, MoveFrame
  <1> QED
    BY <1>0, <1>1, <1>4, <1>14 DEF IInv, TypeOK, outcome

LEMMA DropStep ==
  ASSUME IInv, NEW k \in Keys, DropRow(k)
  PROVE  IInv'
  <1>0. TypeOK /\ Sound /\ Loop \in Procs /\ mem[Loop] \in Memory
    BY DEF IInv, Procs, TypeOK
  <1> DEFINE row == [status |-> "failed", attempts |-> rows[k].attempts + 1, next |-> "never"]
             m == [mem[Loop] EXCEPT !.due = mem[Loop].due \ {k}]
  <1>1. /\ pc[Loop] = "each" /\ k \in mem[Loop].due
        /\ rows' = [rows EXCEPT ![k] = row] /\ mem' = [mem EXCEPT ![Loop] = m]
        /\ UNCHANGED <<outcome, pc, restarts, world>>
    BY DEF DropRow
  <1>2. row \in Row /\ row.status = "failed" /\ row.attempts = rows[k].attempts + 1
            /\ row.next = "never"
    BY <1>0 DEF Row, TypeOK
  <1>3. m \in Memory /\ m.due = mem[Loop].due \ {k}
    BY <1>0 DEF Memory
  <1> HIDE DEF row, m
  <1>4. /\ rows'[k] = row /\ mem'[Loop] = m
        /\ \A q \in Procs \ {Loop} : mem'[q] = mem[q]
        /\ \A j \in Keys \ {k} : rows'[j] = rows[j]
    BY <1>0, <1>1 DEF TypeOK
  <1>5. ~Busy(Loop) /\ ~Busy(Loop)'
    BY <1>1 DEF Busy
  <1>6. rows[k].status = "failed" /\ rows[k].next = "due" /\ RowSound(k)
    BY <1>0, <1>1 DEF Sound, ListSound
  <1>7. \A q \in Procs : Busy(q) => Key(q) # k
    BY <1>0, <1>5, <1>6 DEF Sound, ProcSound
  <1>8. RowSound(k)'
    <2>1. rows[k].attempts \in Nat /\ MaxTries \in Nat /\ restarts \in Nat /\ tries[k] \in Nat
      BY <1>0, EscalationAssumption DEF TypeOK, Row
    <2>2. k \in misled \/ arrived[k] = 0
      BY <1>6, <1>7 DEF RowSound, Busy
    <2>3. tries[k] <= row.attempts + restarts /\ row.attempts <= MaxTries
      BY <1>2, <1>6, <1>7, <2>1 DEF RowSound
    <2> QED
      BY <1>1, <1>2, <1>4, <2>2, <2>3 DEF RowSound, world
  <1>9. ProcSound(Loop)'
    BY <1>5 DEF ProcSound
  <1>10. ListSound'
    <2>1. mem[Loop].due \subseteq Keys
      BY <1>0 DEF Memory
    <2> QED
      BY <1>0, <1>3, <1>4, <2>1 DEF Sound, ListSound
  <1>11. Sound'
    BY <1>0, <1>1, <1>4, <1>5, <1>7, <1>8, <1>9, <1>10, MoveFrame DEF world
  <1> QED
    BY <1>0, <1>1, <1>2, <1>3, <1>11 DEF IInv, TypeOK, outcome, world

(* The server dies: what was being recorded is not, one more try per row.  *)
LEMMA RestartStep ==
  ASSUME IInv, Restart
  PROVE  IInv'
  <1>0. TypeOK /\ Sound /\ Loop \in Procs
    BY DEF IInv, Procs
  <1>1. /\ restarts' = restarts + 1 /\ dests' \in 0..Destinations
        /\ pc' = [p \in Procs |-> IF p = Loop \/ pc[p] = "idle" THEN "idle" ELSE "over"]
        /\ mem' = [p \in Procs |-> Blank]
        /\ misled' = misled \cup {Key(p) : p \in {q \in Procs : pc[q] = "mark"}}
        /\ UNCHANGED <<status, log, rows, arrived, tries>>
    BY DEF Restart
  <1>2. \A p \in Procs : ~Busy(p)'
    BY <1>1 DEF Busy
  <1>3. \A p \in Procs : pc[p] = "mark" => Key(p) \in Keys
    BY <1>0 DEF Sound, ProcSound, Busy
  <1>4. ASSUME NEW k \in Keys PROVE RowSound(k)'
    <2>1. RowSound(k) /\ rows[k].attempts \in Nat /\ restarts \in Nat /\ tries[k] \in Nat
      BY <1>0 DEF Sound, TypeOK, Row
    <2>2. k \in misled' \/ arrived[k] = 0 \/ (arrived[k] = 1 /\ rows[k].status = "sent")
      BY <1>1, <2>1 DEF RowSound
    <2>3. tries[k] <= rows[k].attempts + restarts'
      BY <1>1, <2>1 DEF RowSound
    <2> QED
      BY <1>1, <2>1, <2>2, <2>3 DEF RowSound
  <1>5. (\A p \in Procs : ProcSound(p)') /\ OneSender'
    BY <1>2 DEF ProcSound, OneSender
  <1>6. ListSound'
    BY <1>0, <1>1 DEF ListSound, Blank
  <1>7. TypeOK'
    BY <1>0, <1>1, <1>3, BlankTypes DEF TypeOK
  <1> QED
    BY <1>4, <1>5, <1>6, <1>7 DEF IInv, Sound

-----------------------------------------------------------------------------
LEMMA NextIInv == IInv /\ [Next]_vars => IInv'
  <1> SUFFICES ASSUME IInv, [Next]_vars PROVE IInv'
    OBVIOUS
  <1>1. CASE Next
    BY <1>1, QuietStep, TimeStep, ClaimStep, SendStep, MarkStep, RetryStep, DropStep, RestartStep
       DEF Next, Works, Sends, Ticks
  <1>2. CASE UNCHANGED vars
    <2>1. Sound'
      <3>1. UNCHANGED <<rows, restarts, world, pc, mem>>
        BY <1>2 DEF vars, engine
      <3> QED
        BY <3>1, QuietFrame DEF IInv, Sound, ListSound
    <2> QED
      BY <1>2, <2>1 DEF vars, outcome, engine, world, IInv, TypeOK
  <1> QED
    BY <1>1, <1>2

LEMMA Invariant == Spec => []IInv
  BY InitIInv, NextIInv, PTL DEF Spec

(* claim_escalation and retry_due: the rows keep their types, and a row is *)
(* sent by one coroutine at a time, whatever tasks and the loop overlap.   *)
THEOREM SendersApart == Spec => [](TypeOK /\ OneSender)
  <1>1. IInv => TypeOK /\ OneSender
    BY DEF IInv, Sound
  <1> QED
    BY <1>1, Invariant, PTL

(* A message arrives once per destination and round, unless the record of  *)
(* its arrival was lost.                                                   *)
THEOREM ToldOnce == Spec => []OncePerRound
  <1>1. IInv => OncePerRound
    <2> SUFFICES ASSUME IInv, NEW k \in Keys, k \notin misled PROVE arrived[k] <= 1
      BY DEF OncePerRound
    <2>1. arrived[k] = 0 \/ arrived[k] = 1
      BY DEF IInv, Sound, RowSound
    <2> QED
      BY <2>1
  <1> QED
    BY <1>1, Invariant, PTL

(* No row is tried more than MAX_ATTEMPTS times, and once more per crash.  *)
THEOREM TriesEnd == Spec => []TriesBounded
  <1>1. IInv => TriesBounded
    <2> SUFFICES ASSUME IInv, NEW k \in Keys PROVE tries[k] <= MaxTries + restarts
      BY DEF TriesBounded
    <2>1. RowSound(k) /\ rows[k].attempts \in Nat /\ restarts \in Nat /\ tries[k] \in Nat
              /\ MaxTries \in Nat
      BY EscalationAssumption DEF IInv, Sound, TypeOK, Row
    <2>2. CASE tries[k] <= rows[k].attempts + restarts
      BY <2>1, <2>2 DEF RowSound
    <2>3. CASE ~(tries[k] <= rows[k].attempts + restarts)
      <3>1. PICK p \in Procs : Busy(p) /\ Key(p) = k
        BY <2>1, <2>3 DEF RowSound
      <3>2. rows[k].attempts < MaxTries
        BY <3>1 DEF IInv, Sound, ProcSound
      <3> QED
        BY <2>1, <2>3, <3>2 DEF RowSound
    <2> QED
      BY <2>2, <2>3
  <1> QED
    BY <1>1, Invariant, PTL
=============================================================================
