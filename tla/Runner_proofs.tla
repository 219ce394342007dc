---------------------------- MODULE Runner_proofs ---------------------------
(***************************************************************************)
(* What a run's row says of it is what happened in its container, however  *)
(* exits, time limits, events and crashes interleave: for any number of    *)
(* runs, streams, slots and events.                                        *)
(***************************************************************************)
EXTENDS Runner, SequenceTheorems, TLAPS

(* Where a run is, or goes when the event it has stored is published.      *)
At(r) == IF pc[r] = "publish" THEN mem[r].next ELSE pc[r]

Told == {"reason", "timeout", "runner"}
Late == {"classify", "finish", "close", "alerts"}

(* Before its exit is classified a run is no success and no exit explains  *)
(* it; afterwards its container is dead and says the same.                 *)
PathSound(r) ==
    /\ pc[r] = "publish" => mem[r].next \in {"provision", "spawn", "finish", "pump", "kill"}
    /\ At(r) \notin Late \/ (pc[r] = "publish" /\ At(r) = "finish") \/ pc[r] = "classify" =>
           mem[r].final = "failed" /\ mem[r].error \notin {"oom", "likely oom", "exit"}
    /\ At(r) = "kill" => mem[r].error # "none"
    /\ pc[r] = "classify" /\ mem[r].error = "none" =>
           box[r].state = "dead" /\ mem[r].exit = box[r].code
    /\ mem[r].final = "succeeded" =>
           box[r].state = "dead" /\ box[r].code = 0 /\ mem[r].error = "none"
    /\ mem[r].error = "exit" => box[r].state = "dead" /\ box[r].code # 137

(* The row is written at the end, from what the run knows.                 *)
RowSound(r) ==
    /\ runs[r].status \in Final => pc[r] \in {"close", "alerts", "over"}
    /\ Recorded(r) => runs[r].status = mem[r].final /\ runs[r].error = mem[r].error
    /\ pc[r] = "none" => runs[r].status = "none" /\ trouble[r] = {}
    /\ trouble[r] # {} /\ pc[r] # "over" => mem[r].error # "none"
    /\ "bad result" \in trouble[r] /\ pc[r] # "over" => mem[r].error \in Told
    /\ "bad result" \in trouble[r] /\ runs[r].status = "failed" => runs[r].error \in Told

RunSound(r) == PathSound(r) /\ RowSound(r)
IInv == TypeOK /\ \A r \in Runs : RunSound(r)

-----------------------------------------------------------------------------
(* A run that does not move.                                               *)
LEMMA RunFrame ==
  ASSUME NEW r \in Runs, RunSound(r), runs'[r] = runs[r], pc'[r] = pc[r], mem'[r] = mem[r],
         box'[r].state = box[r].state, box'[r].code = box[r].code,
         trouble'[r] = trouble[r]
  PROVE  RunSound(r)'
  BY DEF RunSound, PathSound, RowSound, At, Recorded

LEMMA BlankTypes == Blank \in Memory /\ NoBox \in Box
  BY DEF Blank, Memory, NoBox, Box, Kinds, Outputs, Errors, Final

LEMMA InitIInv == Init => IInv
  <1> SUFFICES ASSUME Init PROVE IInv
    OBVIOUS
  <1>1. <<>> \in Seq(Nat)
    OBVIOUS
  <1>2. view \in [Streams -> View]
    BY <1>1 DEF Init, View
  <1>3. TypeOK
    BY <1>2, BlankTypes DEF Init, TypeOK, Statuses, Errors, Labels
  <1>4. \A r \in Runs : RunSound(r)
    BY DEF Init, RunSound, PathSound, RowSound, At, Recorded, Blank, Late, Final
  <1> QED
    BY <1>3, <1>4 DEF IInv

-----------------------------------------------------------------------------
(* A step of one run leaves the others as they are.                        *)
LEMMA Alone ==
  ASSUME IInv, TypeOK', NEW r \in Runs, RunSound(r)',
         \A s \in Runs \ {r} :
             /\ runs'[s] = runs[s] /\ pc'[s] = pc[s] /\ mem'[s] = mem[s]
             /\ box'[s] = box[s] /\ trouble'[s] = trouble[s]
  PROVE  IInv'
  <1> SUFFICES ASSUME NEW s \in Runs PROVE RunSound(s)'
    BY DEF IInv
  <1>1. CASE s = r
    BY <1>1
  <1>2. CASE s # r
    BY <1>2, RunFrame DEF IInv
  <1> QED
    BY <1>1, <1>2

LEMMA StepCreate ==
  ASSUME IInv, NEW r \in Runs, Create(r) PROVE IInv'
  <1> USE DEF Create, streams, bounds, history
  <1> DEFINE row == [runs[r] EXCEPT !.status = "queued"]
  <1>1. row \in [status : Statuses, error : Errors] /\ row.status = "queued"
    BY DEF IInv, TypeOK, Statuses
  <1>2. runs' = [runs EXCEPT ![r] = row]
    OBVIOUS
  <1> HIDE DEF row
  <1>3. TypeOK'
    BY <1>1, <1>2 DEF IInv, TypeOK, Labels
  <1>4. RunSound(r)'
    BY <1>1, <1>2 DEF IInv, TypeOK, RunSound, PathSound, RowSound, At, Late, Recorded, Final
  <1> QED
    BY <1>2, <1>3, <1>4, Alone DEF IInv, TypeOK

LEMMA StepBeginAttempt ==
  ASSUME IInv, NEW r \in Runs, BeginAttempt(r) PROVE IInv'
  <1> USE DEF BeginAttempt, tables, streams, bounds, history
  <1>1. TypeOK'
    BY DEF IInv, TypeOK, Labels
  <1>2. RunSound(r)'
    BY DEF IInv, TypeOK, RunSound, PathSound, RowSound, At, Late, Recorded, Final
  <1> QED
    BY <1>1, <1>2, Alone DEF IInv, TypeOK

LEMMA StepStart ==
  ASSUME IInv, NEW r \in Runs, Start(r) PROVE IInv'
  <1> USE DEF Start, streams, bounds, history
  <1> DEFINE row == [runs[r] EXCEPT !.status = "running"]
  <1>1. row \in [status : Statuses, error : Errors] /\ row.status = "running"
    BY DEF IInv, TypeOK, Statuses
  <1>2. runs' = [runs EXCEPT ![r] = row]
    OBVIOUS
  <1> HIDE DEF row
  <1>3. TypeOK'
    BY <1>1, <1>2 DEF IInv, TypeOK, Labels
  <1>4. RunSound(r)'
    BY <1>1, <1>2 DEF IInv, TypeOK, RunSound, PathSound, RowSound, At, Late, Recorded, Final
  <1> QED
    BY <1>2, <1>3, <1>4, Alone DEF IInv, TypeOK

LEMMA Sending ==
  ASSUME NEW v \in View, NEW seq \in Nat PROVE Send(v, seq) \in View
  <1> DEFINE longer == Append(v.sent, seq)
  <1>1. longer \in Seq(Nat)
    BY DEF View
  <1>2. Send(v, seq) = [v EXCEPT !.sent = longer]
    BY DEF Send
  <1> HIDE DEF longer
  <1> QED
    BY <1>1, <1>2 DEF View

(* What is taken in: an error result is kept as the reason.                *)
LEMMA TakenIn ==
  ASSUME TypeOK, NEW r \in Runs, Publish(r)
  PROVE  /\ mem' \in [Runs -> Memory] /\ \A s \in Runs \ {r} : mem'[s] = mem[s]
         /\ mem'[r].final = mem[r].final /\ mem'[r].exit = mem[r].exit
         /\ mem'[r].error = TakeIn(mem[r].error, mem[r].event)
  <1> DEFINE one == [mem[r] EXCEPT !.event = "none"]
             two == [one EXCEPT !.error = TakeIn(mem[r].error, mem[r].event)]
  <1>1. mem[r] \in Memory /\ TakeIn(mem[r].error, mem[r].event) \in Errors
    BY DEF TypeOK, Memory, TakeIn, Errors
  <1>2. one \in Memory /\ one.final = mem[r].final /\ one.exit = mem[r].exit
    BY <1>1 DEF Memory
  <1>3. two \in Memory /\ two.final = mem[r].final /\ two.exit = mem[r].exit
            /\ two.error = TakeIn(mem[r].error, mem[r].event)
    BY <1>1, <1>2 DEF Memory
  <1>4. mem' = [mem EXCEPT ![r] = two]
    BY DEF Publish
  <1> HIDE DEF one, two
  <1> QED
    BY <1>3, <1>4 DEF TypeOK

LEMMA StepPublish ==
  ASSUME IInv, NEW r \in Runs, Publish(r) PROVE IInv'
  <1>1. TypeOK
    BY DEF IInv
  <1>2. pc' = [pc EXCEPT ![r] = mem[r].next] /\ pc[r] = "publish"
            /\ mem[r].next \in {"provision", "spawn", "finish", "pump", "kill"}
    BY DEF IInv, RunSound, PathSound, Publish
  <1>3. UNCHANGED <<runs, events, box, heard, spc, undisturbed, load, restarts, faulty>>
    BY DEF Publish, tables, bounds
  <1>4. /\ trouble' \in [Runs -> SUBSET Troubles]
        /\ \A s \in Runs \ {r} : trouble'[s] = trouble[s]
        /\ trouble'[r] = trouble[r] \cup ({mem[r].event} \cap {"bad result", "error"})
    <2> DEFINE more == trouble[r] \cup ({mem[r].event} \cap {"bad result", "error"})
    <2>1. trouble \in [Runs -> SUBSET Troubles] /\ more \in SUBSET Troubles
      BY <1>1 DEF TypeOK, Troubles
    <2>2. trouble' = [trouble EXCEPT ![r] = more]
      BY DEF Publish
    <2>3. more = trouble[r] \cup ({mem[r].event} \cap {"bad result", "error"})
      OBVIOUS
    <2> HIDE DEF more
    <2> QED
      BY <2>1, <2>2, <2>3
  <1>5. view' \in [Streams -> View]
    BY <1>1, Sending DEF TypeOK, LastSeq, Publish
  <1>6. TypeOK'
    BY <1>1, <1>2, <1>3, <1>4, <1>5, TakenIn DEF TypeOK, Labels
  <1>7. pc'[r] = mem[r].next /\ \A s \in Runs \ {r} : pc'[s] = pc[s]
    BY <1>1, <1>2 DEF TypeOK
  <1>8. PathSound(r)'
    BY <1>1, <1>2, <1>3, <1>7, TakenIn DEF IInv, RunSound, PathSound, At, Late, TakeIn
  <1>9. RowSound(r)'
    <2>1. RowSound(r)
      BY DEF IInv, RunSound
    <2>2. mem'[r].error = TakeIn(mem[r].error, mem[r].event) /\ mem'[r].final = mem[r].final
      BY <1>1, TakenIn
    <2>3. trouble'[r] # {} => mem'[r].error # "none"
      BY <1>2, <1>4, <2>1, <2>2 DEF RowSound, TakeIn
    <2>4. "bad result" \in trouble'[r] => mem'[r].error \in Told
      BY <1>2, <1>4, <2>1, <2>2 DEF RowSound, TakeIn, Told
    <2>5. runs'[r].status \notin Final /\ runs'[r] = runs[r]
      BY <1>2, <1>3, <2>1 DEF RowSound
    <2> QED
      BY <1>2, <1>7, <2>3, <2>4, <2>5 DEF RowSound, Recorded, Final
  <1> QED
    BY <1>1, <1>3, <1>4, <1>6, <1>7, <1>8, <1>9, TakenIn, Alone DEF RunSound

-----------------------------------------------------------------------------
(* A run on its way that stores an event stays sound.                      *)
LEMMA StoreKeeps ==
  ASSUME IInv, NEW r \in Runs, NEW kind \in Kinds,
         NEW next \in {"provision", "spawn", "finish", "pump", "kill"},
         NEW local \in Memory, Store(r, kind, next, local),
         UNCHANGED <<runs, heard, spc, view, undisturbed, load, restarts, trouble>>,
         faulty' \in SUBSET Runs, box' \in [Runs -> Box],
         \A s \in Runs \ {r} : box'[s] = box[s],
         At(r) \in {"route", "provision", "spawn", "pump"},
         local.final = "failed", local.error \notin {"oom", "likely oom", "exit"},
         next = "kill" => local.error # "none",
         mem[r].error # "none" => local.error # "none",
         mem[r].error \in Told => local.error \in Told
  PROVE  IInv'
  <1>1. TypeOK
    BY DEF IInv
  <1>a. /\ pc'[r] = "publish" /\ mem'[r].next = next
        /\ mem'[r].error = local.error /\ mem'[r].final = local.final
        /\ \A s \in Runs \ {r} : pc'[s] = pc[s] /\ mem'[s] = mem[s]
        /\ events' \in [Runs -> Nat] /\ pc' \in [Runs -> Labels] /\ mem' \in [Runs -> Memory]
    <2> DEFINE one == [local EXCEPT !.event = kind]
               two == [one EXCEPT !.next = next]
    <2>1. one \in Memory /\ one.error = local.error /\ one.final = local.final
      BY DEF Memory
    <2>2. two \in Memory /\ two.error = one.error /\ two.final = one.final /\ two.next = next
      BY <2>1 DEF Memory
    <2>3. mem' = [mem EXCEPT ![r] = two] /\ pc' = [pc EXCEPT ![r] = "publish"]
              /\ events' = [events EXCEPT ![r] = @ + 1]
      BY DEF Store
    <2> HIDE DEF one, two
    <2>4. pc \in [Runs -> Labels] /\ mem \in [Runs -> Memory] /\ events \in [Runs -> Nat]
      BY <1>1 DEF TypeOK
    <2> QED
      BY ONLY <2>1, <2>2, <2>3, <2>4, r \in Runs DEF Labels
  <1>2. TypeOK'
    BY <1>1, <1>a DEF TypeOK
  <1>3. pc[r] \in {"route", "provision", "spawn", "pump", "publish"}
    BY DEF At
  <1>4. PathSound(r)'
    BY <1>a DEF PathSound, At, Late
  <1>5. RowSound(r)'
    BY <1>a, <1>3 DEF IInv, RunSound, RowSound, Recorded, Final
  <1> QED
    BY <1>a, <1>2, <1>4, <1>5, Alone DEF RunSound

(* What a run on its way knows.                                            *)
LEMMA OnTheWay ==
  ASSUME IInv, NEW r \in Runs, At(r) \in {"route", "provision", "spawn", "pump"}
  PROVE  mem[r] \in Memory /\ mem[r].final = "failed"
         /\ mem[r].error \notin {"oom", "likely oom", "exit"}
  BY DEF IInv, TypeOK, RunSound, PathSound, Late

LEMMA StepRoute ==
  ASSUME IInv, NEW r \in Runs, Route(r) PROVE IInv'
  <1>1. At(r) = "route"
    BY DEF Route, At
  <1>2. \/ Store(r, "routed", "provision", mem[r]) \/ Store(r, "error", "finish", mem[r])
    BY DEF Route
  <1>3. UNCHANGED <<runs, box, heard, spc, view, undisturbed, load, restarts, faulty, trouble>>
    BY DEF Route, streams, bounds, history
  <1> QED
    BY <1>1, <1>2, <1>3, OnTheWay, StoreKeeps DEF IInv, TypeOK, Kinds, Outputs

LEMMA StepProvision ==
  ASSUME IInv, NEW r \in Runs, Provision(r) PROVE IInv'
  <1>1. At(r) = "provision" /\ pc[r] = "provision"
    BY DEF Provision, At
  <1>2. UNCHANGED <<runs, box, heard, spc, view, undisturbed, load, restarts, faulty, trouble>>
    BY DEF Provision, streams, bounds, history
  <1>3. CASE Store(r, "log", "spawn", mem[r])
    BY <1>1, <1>2, <1>3, OnTheWay, StoreKeeps DEF IInv, TypeOK, Kinds, Outputs
  <1>4. CASE pc' = [pc EXCEPT ![r] = "spawn"] /\ UNCHANGED <<events, mem>>
    <2>1. TypeOK'
      BY <1>2, <1>4 DEF IInv, TypeOK, Labels
    <2>2. RunSound(r)'
      BY <1>1, <1>2, <1>4 DEF IInv, TypeOK, RunSound, PathSound, RowSound, At, Late, Recorded, Final
    <2> QED
      BY <1>2, <1>4, <2>1, <2>2, Alone DEF IInv, TypeOK
  <1> QED
    BY <1>3, <1>4 DEF Provision

(* A run that leaves has its row, or will never have one.                  *)
LEMMA LeaveKeeps ==
  ASSUME IInv, NEW r \in Runs, Leave(r), UNCHANGED <<runs, events, load, restarts, trouble>>,
         faulty' \in SUBSET Runs, heard' \in SUBSET Runs,
         UNCHANGED <<view, undisturbed>>,
         spc' \in [Streams -> {"idle", "replay", "check", "join", "live", "closed"}]
  PROVE  IInv'
  <1>1. /\ pc' = [pc EXCEPT ![r] = "over"] /\ mem' = [mem EXCEPT ![r] = Blank]
        /\ box' = [box EXCEPT ![r] = NoBox]
    BY DEF Leave
  <1>2. TypeOK'
    BY <1>1, BlankTypes DEF IInv, TypeOK, Labels
  <1>3. pc'[r] = "over" /\ mem'[r].final = "failed" /\ mem'[r].error = "none"
    BY <1>1 DEF IInv, TypeOK, Blank
  <1>4. PathSound(r)'
    BY <1>3 DEF PathSound, At, Late
  <1>5. RowSound(r)'
    BY <1>3 DEF IInv, RunSound, RowSound, Recorded, Final
  <1> QED
    BY <1>1, <1>2, <1>4, <1>5, Alone DEF RunSound, IInv, TypeOK

LEMMA StepSpawn ==
  ASSUME IInv, NEW r \in Runs, Spawn(r) PROVE IInv'
  <1>1. At(r) = "spawn" /\ pc[r] = "spawn"
    BY DEF Spawn, At
  <1>2. UNCHANGED <<runs, heard, spc, view, undisturbed, load, restarts, trouble>>
    BY DEF Spawn, streams, bounds
  <1>3. CASE Store(r, "error", "finish", mem[r]) /\ UNCHANGED <<box, faulty>>
    BY <1>1, <1>2, <1>3, OnTheWay, StoreKeeps DEF IInv, TypeOK, Kinds, Outputs
  <1>4. CASE Leave(r) /\ faulty' = faulty \cup {r} /\ UNCHANGED events
    BY <1>2, <1>4, LeaveKeeps DEF IInv, TypeOK
  <1>5. CASE /\ box' = [box EXCEPT ![r].state = "up"]
             /\ pc' = [pc EXCEPT ![r] = "pump"] /\ UNCHANGED <<events, mem, faulty>>
    <2> DEFINE up == [box[r] EXCEPT !.state = "up"]
    <2>0. box[r] \in Box
      BY DEF IInv, TypeOK
    <2>1. up \in Box
      BY ONLY <2>0 DEF Box
    <2>2. box' = [box EXCEPT ![r] = up]
      BY <1>5
    <2> HIDE DEF up
    <2>3. TypeOK'
      BY <1>2, <1>5, <2>1, <2>2 DEF IInv, TypeOK, Labels
    <2>4. RunSound(r)'
      BY <1>1, <1>2, <1>5 DEF IInv, TypeOK, RunSound, PathSound, RowSound, At, Late, Recorded, Final
    <2> QED
      BY <1>2, <1>5, <2>2, <2>3, <2>4, Alone DEF IInv, TypeOK
  <1> QED
    BY <1>3, <1>4, <1>5 DEF Spawn

LEMMA StepEmit ==
  ASSUME IInv, NEW r \in Runs, NEW kind \in Outputs, Emit(r, kind) PROVE IInv'
  <1>1. At(r) = "pump"
    BY DEF Emit, At
  <1>2. UNCHANGED <<runs, heard, spc, view, undisturbed, load, restarts, faulty, trouble>>
    BY DEF Emit, streams, bounds, history
  <1> DEFINE fuller == [box[r] EXCEPT !.output = @ + 1]
  <1>a. box[r] \in Box
    BY DEF IInv, TypeOK
  <1>3. fuller \in Box
    BY ONLY <1>a DEF Box
  <1>4. box' = [box EXCEPT ![r] = fuller]
    BY DEF Emit
  <1> HIDE DEF fuller
  <1>5. Store(r, kind, "pump", mem[r]) /\ kind \in Kinds
    BY DEF Emit, Kinds, Outputs
  <1> QED
    BY <1>1, <1>2, <1>3, <1>4, <1>5, OnTheWay, StoreKeeps DEF IInv, TypeOK

(* The pump that stops, with the reason it gives.                          *)
LEMMA StopsWith ==
  ASSUME IInv, NEW r \in Runs, At(r) = "pump", NEW error \in {"timeout", "runner"},
         Store(r, "error", "kill", [mem[r] EXCEPT !.error = error]),
         UNCHANGED <<runs, box, heard, streams, bounds, history>>
  PROVE  IInv'
  <1> DEFINE local == [mem[r] EXCEPT !.error = error]
  <1>a. mem[r] \in Memory /\ mem[r].final = "failed"
    BY OnTheWay
  <1>1. local \in Memory /\ local.final = "failed" /\ local.error = error
    BY ONLY <1>a, error \in {"timeout", "runner"} DEF Memory, Errors
  <1>2. Store(r, "error", "kill", local)
    OBVIOUS
  <1> HIDE DEF local
  <1> QED
    BY <1>1, <1>2, StoreKeeps DEF IInv, TypeOK, Kinds, Outputs, Told, streams, bounds, history

LEMMA StepTimeout ==
  ASSUME IInv, NEW r \in Runs, Timeout(r) PROVE IInv'
  BY StopsWith DEF Timeout, TimeUp, Pumping, At

LEMMA StepPumpRaises ==
  ASSUME IInv, NEW r \in Runs, PumpRaises(r) PROVE IInv'
  BY StopsWith DEF PumpRaises, At

-----------------------------------------------------------------------------
(* The container that ends or closes its output, and what docker tells:    *)
(* only a container that was not dead changes what a run may rely on.      *)
LEMMA BoxKeeps ==
  ASSUME IInv, NEW r \in Runs, NEW b \in Box, box' = [box EXCEPT ![r] = b],
         box[r].state = "dead" => b.state = "dead" /\ b.code = box[r].code,
         UNCHANGED <<tables, pc, mem, heard, streams, bounds, trouble>>,
         faulty' \in SUBSET Runs
  PROVE  IInv'
  <1> USE DEF tables, streams, bounds
  <1>1. TypeOK'
    BY DEF IInv, TypeOK
  <1>2. box'[r] = b
    BY DEF IInv, TypeOK
  <1>3. /\ runs'[r] = runs[r] /\ pc'[r] = pc[r] /\ mem'[r] = mem[r]
        /\ trouble'[r] = trouble[r]
    OBVIOUS
  <1>4. PathSound(r) /\ RowSound(r)
    BY DEF IInv, RunSound
  <1>5. PathSound(r)'
    BY ONLY <1>2, <1>3, <1>4, box[r].state = "dead" => b.state = "dead" /\ b.code = box[r].code
       DEF PathSound, At
  <1>6. RowSound(r)'
    BY ONLY <1>3, <1>4 DEF RowSound, Recorded
  <1> QED
    BY <1>1, <1>5, <1>6, Alone DEF RunSound, IInv, TypeOK

LEMMA StepExit ==
  ASSUME IInv, NEW r \in Runs, NEW code \in {0, 1, 137}, NEW oom \in BOOLEAN,
         Exit(r, code, oom)
  PROVE  IInv'
  <1> DEFINE one == [box[r] EXCEPT !.state = "dead"]
             two == [one EXCEPT !.code = code]
             three == [two EXCEPT !.oom = oom]
  <1>1. box[r] \in Box /\ box[r].state # "dead"
    BY DEF IInv, TypeOK, Exit
  <1>2. one \in Box
    BY ONLY <1>1 DEF Box
  <1>3. two \in Box
    BY ONLY <1>2, code \in {0, 1, 137} DEF Box
  <1>4. three \in Box
    BY ONLY <1>3, oom \in BOOLEAN DEF Box
  <1>5. box' = [box EXCEPT ![r] = three]
    BY DEF Exit
  <1>6. UNCHANGED <<tables, pc, mem, heard, streams, bounds, trouble>> /\ faulty' \in SUBSET Runs
    BY DEF Exit, history, IInv, TypeOK
  <1> HIDE DEF one, two, three
  <1>8. PICK b \in Box : box' = [box EXCEPT ![r] = b]
    BY <1>4, <1>5
  <1>9. box[r].state = "dead" => b.state = "dead" /\ b.code = box[r].code
    BY <1>1
  <1>10. /\ UNCHANGED <<tables, pc, mem, heard, streams, bounds, trouble>>
         /\ faulty' \in SUBSET Runs
    BY <1>6
  <1> QED
    BY ONLY IInv, r \in Runs, <1>8, <1>9, <1>10, BoxKeeps

LEMMA StepLinger ==
  ASSUME IInv, NEW r \in Runs, Linger(r) PROVE IInv'
  <1> DEFINE one == [box[r] EXCEPT !.state = "closed"]
  <1>1. box[r] \in Box /\ box[r].state # "dead"
    BY DEF IInv, TypeOK, Linger
  <1>2. one \in Box
    BY ONLY <1>1 DEF Box
  <1>3. box' = [box EXCEPT ![r] = one]
    BY DEF Linger
  <1>4. UNCHANGED <<tables, pc, mem, heard, streams, bounds, trouble>> /\ faulty' \in SUBSET Runs
    BY DEF Linger, IInv, TypeOK
  <1> HIDE DEF one
  <1> QED
    BY <1>1, <1>2, <1>3, <1>4, BoxKeeps

LEMMA StepSeeOom ==
  ASSUME IInv, NEW r \in Runs, SeeOom(r) PROVE IInv'
  <1> DEFINE one == [box[r] EXCEPT !.flag = TRUE]
  <1>1. box[r] \in Box
    BY DEF IInv, TypeOK
  <1>2. one \in Box /\ one.state = box[r].state /\ one.code = box[r].code
    BY ONLY <1>1 DEF Box
  <1>3. box' = [box EXCEPT ![r] = one]
    BY DEF SeeOom
  <1>4. UNCHANGED <<tables, pc, mem, heard, streams, bounds, trouble, faulty>>
    BY DEF SeeOom, history
  <1> HIDE DEF one
  <1> QED
    BY <1>2, <1>3, <1>4, BoxKeeps DEF IInv, TypeOK

LEMMA StepPumpEnds ==
  ASSUME IInv, NEW r \in Runs, PumpEnds(r) PROVE IInv'
  <1> USE DEF PumpEnds, tables, streams, bounds, history
  <1>1. TypeOK'
    BY DEF IInv, TypeOK, Labels
  <1>2. RunSound(r)'
    BY DEF IInv, TypeOK, RunSound, PathSound, RowSound, At, Late, Recorded, Final
  <1> QED
    BY <1>1, <1>2, Alone DEF IInv, TypeOK

-----------------------------------------------------------------------------
(* A run that learns how it ended.                                         *)
LEMMA LearnKeeps ==
  ASSUME IInv, NEW r \in Runs, NEW m \in Memory, NEW label \in {"classify", "finish"},
         mem' = [mem EXCEPT ![r] = m], pc' = [pc EXCEPT ![r] = label],
         pc[r] \in {"exit", "kill", "classify"},
         UNCHANGED <<tables, heard, streams, bounds, faulty>>,
         trouble' \in [Runs -> SUBSET Troubles],
         \A s \in Runs \ {r} : trouble'[s] = trouble[s],
         trouble'[r] \subseteq trouble[r] \cup {"killed"},
         "killed" \in trouble'[r] /\ "killed" \notin trouble[r] => m.error # "none",
         mem[r].error # "none" => m.error # "none",
         box' \in [Runs -> Box], \A s \in Runs \ {r} : box'[s] = box[s],
         label = "classify" => m.final = "failed" /\ m.error \notin {"oom", "likely oom", "exit"},
         label = "classify" /\ m.error = "none" => box'[r].state = "dead" /\ m.exit = box'[r].code,
         m.final = "succeeded" => box'[r].state = "dead" /\ box'[r].code = 0 /\ m.error = "none",
         m.error = "exit" => box'[r].state = "dead" /\ box'[r].code # 137,
         mem[r].error \in Told => m.error \in Told
  PROVE  IInv'
  <1> USE DEF tables, streams, bounds
  <1>1. TypeOK'
    BY DEF IInv, TypeOK, Labels
  <1>2. mem'[r] = m /\ pc'[r] = label
    BY DEF IInv, TypeOK
  <1>3. PathSound(r)'
    BY <1>2 DEF PathSound, At, Late
  <1>a. RowSound(r)
    BY DEF IInv, RunSound
  <1>b. trouble'[r] # {} => m.error # "none"
    BY <1>a DEF RowSound
  <1>c. "bad result" \in trouble'[r] => m.error \in Told
    BY <1>a DEF RowSound
  <1>4. RowSound(r)'
    BY <1>2, <1>a, <1>b, <1>c DEF RowSound, Recorded, Final
  <1> QED
    BY <1>1, <1>3, <1>4, Alone DEF RunSound, IInv, TypeOK

LEMMA StepWait ==
  ASSUME IInv, NEW r \in Runs, Wait(r) PROVE IInv'
  <1> DEFINE m == [mem[r] EXCEPT !.exit = ExitCode(r)]
  <1>1. mem[r] \in Memory /\ box[r] \in Box /\ mem[r].final = "failed"
            /\ mem[r].error \notin {"oom", "likely oom", "exit"}
            /\ pc[r] = "exit" /\ box[r].state = "dead"
    BY DEF IInv, TypeOK, RunSound, PathSound, At, Late, Wait
  <1>2. ExitCode(r) \in {0, 1, 124, 137} /\ ExitCode(r) = box[r].code
    BY <1>1 DEF Box, ExitCode
  <1>3. m \in Memory /\ m.final = mem[r].final /\ m.error = mem[r].error /\ m.exit = ExitCode(r)
    BY ONLY <1>1, <1>2 DEF Memory
  <1>4. /\ mem' = [mem EXCEPT ![r] = m] /\ pc' = [pc EXCEPT ![r] = "classify"]
        /\ UNCHANGED <<tables, box, heard, streams, bounds, history>>
    BY DEF Wait
  <1>5. UNCHANGED <<trouble, faulty>>
    BY <1>4 DEF history
  <1> HIDE DEF m
  <1> QED
    BY <1>1, <1>2, <1>3, <1>4, <1>5, LearnKeeps DEF IInv, TypeOK

LEMMA StepKill ==
  ASSUME IInv, NEW r \in Runs, Kill(r) PROVE IInv'
  <1> DEFINE code == IF mem[r].error = "timeout" THEN 124 ELSE 1
             m    == [mem[r] EXCEPT !.exit = code]
             b    == [box[r] EXCEPT !.state = "dead"]
  <1>1. mem[r] \in Memory /\ box[r] \in Box /\ mem[r].final = "failed"
            /\ mem[r].error \notin {"oom", "likely oom", "exit", "none"} /\ pc[r] = "kill"
    BY DEF IInv, TypeOK, RunSound, PathSound, At, Late, Kill
  <1>2. code \in {0, 1, 124, 137}
    OBVIOUS
  <1>3. /\ mem' = [mem EXCEPT ![r] = m] /\ pc' = [pc EXCEPT ![r] = "classify"]
        /\ box' = [box EXCEPT ![r] = b]
        /\ trouble' = [trouble EXCEPT ![r] = @ \cup {"killed"}]
        /\ UNCHANGED <<tables, heard, streams, bounds, faulty>>
    BY DEF Kill
  <1> HIDE DEF code
  <1>4. m \in Memory /\ m.final = mem[r].final /\ m.error = mem[r].error
    BY ONLY <1>1, <1>2 DEF Memory
  <1>5. b \in Box
    BY ONLY <1>1 DEF Box
  <1> HIDE DEF m, b
  <1>6. box' \in [Runs -> Box] /\ \A s \in Runs \ {r} : box'[s] = box[s]
    BY <1>3, <1>5 DEF IInv, TypeOK
  <1>7. /\ trouble' \in [Runs -> SUBSET Troubles]
        /\ \A s \in Runs \ {r} : trouble'[s] = trouble[s]
        /\ trouble'[r] = trouble[r] \cup {"killed"}
    BY <1>3 DEF IInv, TypeOK, Troubles
  <1> QED
    BY <1>1, <1>3, <1>4, <1>6, <1>7, LearnKeeps

LEMMA StepClassify ==
  ASSUME IInv, NEW r \in Runs, Classify(r) PROVE IInv'
  <1> DEFINE why == Explain(mem[r], box[r].flag)
             m   == [mem[r] EXCEPT !.error = why]
             end == [m EXCEPT !.final = FinalStatus(m)]
  <1>1. mem[r] \in Memory /\ box[r] \in Box /\ pc[r] = "classify"
            /\ mem[r].error \notin {"oom", "likely oom", "exit"}
            /\ (mem[r].error = "none" => box[r].state = "dead" /\ mem[r].exit = box[r].code)
    BY DEF IInv, TypeOK, RunSound, PathSound, At, Late, Classify
  <1>2. /\ why \in Errors
        /\ why = "none" => mem[r].error = "none"
        /\ why = "exit" => mem[r].error = "none" /\ mem[r].exit # 137
        /\ mem[r].error # "none" => why = mem[r].error
    BY <1>1 DEF Explain, Memory, Errors
  <1>3. /\ mem' = [mem EXCEPT ![r] = end] /\ pc' = [pc EXCEPT ![r] = "finish"]
        /\ UNCHANGED <<tables, box, heard, streams, bounds, history>>
    BY DEF Classify
  <1> HIDE DEF why
  <1>4. m \in Memory /\ m.error = why /\ m.exit = mem[r].exit
    BY ONLY <1>1, <1>2 DEF Memory
  <1>5. FinalStatus(m) \in Final /\ (FinalStatus(m) = "succeeded" => m.exit = 0 /\ m.error = "none")
    BY DEF FinalStatus, Final
  <1> HIDE DEF m
  <1>6. end \in Memory /\ end.error = m.error /\ end.final = FinalStatus(m)
    BY ONLY <1>4, <1>5 DEF Memory
  <1> HIDE DEF end
  <1>7. /\ mem[r].error \in Told => end.error \in Told
        /\ mem[r].error # "none" => end.error # "none"
    BY <1>2, <1>4, <1>6 DEF Told
  <1>8. UNCHANGED <<trouble, faulty>>
    BY <1>3 DEF history
  <1> QED
    BY <1>1, <1>2, <1>3, <1>4, <1>5, <1>6, <1>7, <1>8, LearnKeeps DEF IInv, TypeOK

-----------------------------------------------------------------------------
(* The end of a run.                                                       *)
LEMMA StepFinishRun ==
  ASSUME IInv, NEW r \in Runs, FinishRun(r) PROVE IInv'
  <1> USE DEF FinishRun, streams, bounds, history
  <1>1. mem[r] \in Memory /\ ("bad result" \in trouble[r] => mem[r].error \in Told)
            /\ (trouble[r] # {} => mem[r].error # "none")
    BY DEF IInv, TypeOK, RunSound, RowSound
  <1> DEFINE row == [status |-> mem[r].final, error |-> mem[r].error]
  <1>2. row \in [status : Statuses, error : Errors]
            /\ row.status = mem[r].final /\ row.error = mem[r].error
    BY <1>1 DEF Memory, Final, Statuses
  <1>3. runs' = [runs EXCEPT ![r] = row]
    OBVIOUS
  <1> HIDE DEF row
  <1>4. TypeOK'
    BY <1>2, <1>3 DEF IInv, TypeOK, Labels
  <1>5. runs'[r] = row /\ pc'[r] = "close" /\ mem'[r] = mem[r]
    BY <1>3 DEF IInv, TypeOK
  <1>6. PathSound(r)'
    BY <1>5 DEF IInv, RunSound, PathSound, At, Late
  <1>7. RowSound(r)'
    BY <1>1, <1>2, <1>5 DEF RowSound, Recorded, Final
  <1> QED
    BY <1>3, <1>4, <1>6, <1>7, Alone DEF RunSound, IInv, TypeOK

LEMMA StepClose ==
  ASSUME IInv, NEW r \in Runs, Close(r) PROVE IInv'
  <1>1. UNCHANGED <<runs, events, heard, view, undisturbed, load, restarts, faulty, trouble>>
            /\ pc[r] = "close"
    BY DEF Close, tables, bounds, history
  <1>2. spc' \in [Streams -> {"idle", "replay", "check", "join", "live", "closed"}]
    BY DEF Close, IInv, TypeOK
  <1>3. CASE Leave(r)
    BY <1>1, <1>2, <1>3, LeaveKeeps DEF IInv, TypeOK
  <1>4. CASE pc' = [pc EXCEPT ![r] = "alerts"] /\ UNCHANGED <<mem, box>>
    <2>1. TypeOK'
      BY <1>1, <1>2, <1>4 DEF IInv, TypeOK, Labels
    <2>2. RunSound(r)'
      BY <1>1, <1>4 DEF IInv, TypeOK, RunSound, PathSound, RowSound, At, Late, Recorded, Final
    <2> QED
      BY <1>1, <1>4, <2>1, <2>2, Alone DEF IInv, TypeOK
  <1> QED
    BY <1>3, <1>4 DEF Close

LEMMA StepAlerts ==
  ASSUME IInv, NEW r \in Runs, Alerts(r) PROVE IInv'
  BY LeaveKeeps DEF Alerts, IInv, TypeOK, tables, streams, bounds, history

-----------------------------------------------------------------------------
(* A stream touches no run.                                                *)
LEMMA StepWatch ==
  ASSUME IInv, NEW s \in Streams, Watch(s) PROVE IInv'
  <1>1. UNCHANGED <<runs, events, pc, mem, box, heard, load, restarts, faulty, trouble>>
    BY DEF Watch, Open, Replay, ReadRun, Join, tables, engine, bounds, history
  <1>2. spc' \in [Streams -> {"idle", "replay", "check", "join", "live", "closed"}]
            /\ undisturbed' \in SUBSET Streams
    BY DEF Watch, Open, Replay, ReadRun, Join, IInv, TypeOK
  <1>3. view' \in [Streams -> View]
    <2>1. view \in [Streams -> View] /\ view[s] \in View /\ events \in [Runs -> Nat]
      BY DEF IInv, TypeOK
    <2>2. CASE UNCHANGED view
      BY <2>1, <2>2
    <2>3. CASE Replay(s)
      <3> DEFINE all == [i \in 1..events[view[s].run] |-> i]
                 one == [view[s] EXCEPT !.sent = all]
      <3>1. all \in Seq(Nat)
        BY <2>1 DEF View
      <3>2. view' = [view EXCEPT ![s] = one]
        BY <2>3 DEF Replay
      <3> HIDE DEF all
      <3>3. one \in View
        BY ONLY <2>1, <3>1 DEF View
      <3> HIDE DEF one
      <3> QED
        BY <2>1, <3>2, <3>3
    <2>4. CASE ReadRun(s)
      <3> DEFINE live == runs[view[s].run].status \in {"queued", "running"}
                 one  == [view[s] EXCEPT !.open = live]
      <3>1. live \in BOOLEAN
        OBVIOUS
      <3>2. view' = [view EXCEPT ![s] = one]
        BY <2>4 DEF ReadRun
      <3> HIDE DEF live
      <3>3. one \in View
        BY ONLY <2>1, <3>1 DEF View
      <3> HIDE DEF one
      <3> QED
        BY <2>1, <3>2, <3>3
    <2> QED
      BY <2>2, <2>3, <2>4 DEF Watch, Open, Join
  <1>4. TypeOK'
    BY <1>1, <1>2, <1>3 DEF IInv, TypeOK
  <1>5. \A r \in Runs : RunSound(r)'
    BY <1>1, RunFrame DEF IInv
  <1> QED
    BY <1>4, <1>5 DEF IInv

(* The restart forgets every run and marks the rows that were open.        *)
LEMMA StepRestart ==
  ASSUME IInv, Restart PROVE IInv'
  <1> USE DEF Restart, history
  <1>1. \A r \in Runs : runs'[r] \in [status : Statuses, error : Errors]
    BY DEF IInv, TypeOK, Statuses, Errors
  <1>2. runs' \in [Runs -> [status : Statuses, error : Errors]]
    BY <1>1
  <1>3. TypeOK'
    BY <1>2, BlankTypes DEF IInv, TypeOK, Labels
  <1>4. ASSUME NEW r \in Runs PROVE RunSound(r)'
    <2>1. mem'[r].final = "failed" /\ mem'[r].error = "none" /\ pc'[r] \in {"none", "over"}
              /\ (pc'[r] = "none" => pc[r] = "none")
      BY DEF Blank
    <2>2. RowSound(r) /\ trouble'[r] = trouble[r]
      BY DEF IInv, RunSound
    <2>3. PathSound(r)'
      BY ONLY <2>1 DEF PathSound, At, Late
    <2>4. /\ pc'[r] = IF pc[r] = "none" THEN "none" ELSE "over"
          /\ \/ runs'[r].status = "interrupted" /\ runs[r].status \in {"queued", "running"}
             \/ runs'[r] = runs[r]
      OBVIOUS
    <2>5. RowSound(r)'
      BY ONLY <2>1, <2>2, <2>4 DEF RowSound, Recorded, Final
    <2> QED
      BY <2>3, <2>5 DEF RunSound
  <1> QED
    BY <1>3, <1>4 DEF IInv

-----------------------------------------------------------------------------
LEMMA NextIInv == IInv /\ [Next]_vars => IInv'
  <1> SUFFICES ASSUME IInv, [Next]_vars PROVE IInv'
    OBVIOUS
  <1>1. CASE UNCHANGED vars
    <2>1. UNCHANGED <<runs, events, pc, mem, box, heard, spc, view, undisturbed,
                      load, restarts, faulty, trouble>>
      BY <1>1 DEF vars, tables, engine, streams, bounds, history
    <2>2. \A r \in Runs : RunSound(r)'
      BY <2>1, RunFrame DEF IInv
    <2> QED
      BY <2>1, <2>2 DEF IInv, TypeOK
  <1>2. ASSUME NEW r \in Runs, Execute(r) PROVE IInv'
    BY <1>2, StepBeginAttempt, StepStart, StepPublish, StepRoute, StepProvision, StepSpawn,
       StepPumpEnds, StepWait, StepKill, StepClassify, StepFinishRun, StepClose, StepAlerts
       DEF Execute
  <1>3. ASSUME NEW r \in Runs, Create(r) \/ Linger(r) \/ SeeOom(r) \/ Timeout(r) \/ PumpRaises(r)
        PROVE  IInv'
    BY <1>3, StepCreate, StepLinger, StepSeeOom, StepTimeout, StepPumpRaises
  <1>4. ASSUME NEW r \in Runs, NEW kind \in Outputs, Emit(r, kind) PROVE IInv'
    BY <1>4, StepEmit
  <1>5. ASSUME NEW r \in Runs, NEW code \in {0, 1, 137}, NEW oom \in BOOLEAN, Exit(r, code, oom)
        PROVE  IInv'
    BY <1>5, StepExit
  <1>6. ASSUME NEW s \in Streams, Watch(s) PROVE IInv'
    BY <1>6, StepWatch
  <1> QED
    BY <1>1, <1>2, <1>3, <1>4, <1>5, <1>6, StepRestart DEF Next

LEMMA Invariant == Spec => []IInv
  BY InitIInv, NextIInv, PTL DEF Spec

(* Rows, coroutines, containers and streams keep their types.              *)
THEOREM TypesKept == Spec => []TypeOK
  <1>1. IInv => TypeOK
    BY DEF IInv
  <1> QED
    BY <1>1, Invariant, PTL

(* No run is recorded as a success by mistake: its container ended with 0  *)
(* and nobody killed it, and no error was taken in on the way.             *)
THEOREM SuccessIsEarned == Spec => []SucceededIsClean
  <1>1. ASSUME IInv, NEW r \in Runs, Recorded(r), runs[r].status = "succeeded"
        PROVE  box[r].state = "dead" /\ box[r].code = 0 /\ trouble[r] = {}
    <2>1. PathSound(r) /\ RowSound(r)
      BY <1>1 DEF IInv, RunSound
    <2>2. pc[r] # "over"
      BY <1>1 DEF Recorded
    <2> QED
      BY <1>1, <2>1, <2>2 DEF PathSound, RowSound, Told
  <1>2. IInv => SucceededIsClean
    BY <1>1 DEF SucceededIsClean
  <1> QED
    BY <1>2, Invariant, PTL

(* The reason an error result gives survives every later event and exit.   *)
THEOREM ReasonSurvives == Spec => []ReasonKept
  <1>1. IInv => ReasonKept
    BY DEF IInv, RunSound, RowSound, ReasonKept, Told
  <1> QED
    BY <1>1, Invariant, PTL

(* A run that was killed for memory never reads as a plain bad exit.       *)
THEOREM MemoryIsNamed == Spec => []OomIsNamed
  <1>1. ASSUME IInv, NEW r \in Runs, Recorded(r), runs[r].error = "exit"
        PROVE  box[r].code # 137
    <2>1. PathSound(r) /\ RowSound(r)
      BY <1>1 DEF IInv, RunSound
    <2> QED
      BY <1>1, <2>1 DEF PathSound, RowSound
  <1>2. IInv => OomIsNamed
    BY <1>1 DEF OomIsNamed
  <1> QED
    BY <1>2, Invariant, PTL

-----------------------------------------------------------------------------
(* The streams.                                                            *)

(* An event that is to be published is stored, and a replay sends what is  *)
(* stored in order.                                                        *)
UpTo(n)        == [i \in 1..n |-> i]
EventSound(r)  == pc[r] = "publish" => events[r] >= 1
ReplaySound(s) == spc[s] \in {"check", "join"} => \E n \in Nat : view[s].sent = UpTo(n)

(* A stream that joined in a quiet moment has sent all that is stored but  *)
(* the event that is not published yet, unless the time limit cut an event *)
(* off; a run whose streams are closed stores nothing more.                *)
Shown(r) == IF pc[r] = "publish" THEN events[r] - 1 ELSE events[r]
InTime(s) ==
    LET r == view[s].run
    IN  /\ view[s].sent = UpTo(Shown(r))
        /\ spc[s] = "live" \/ (spc[s] = "closed" /\ pc[r] \in {"alerts", "over"})
CutOff(s) ==
    LET r == view[s].run
    IN  \/ runs[r].error = "timeout" /\ pc[r] \in {"close", "alerts", "over"}
        \/ /\ mem[r].error = "timeout" /\ spc[s] = "live"
           /\ At(r) \in {"kill", "classify", "finish"}
           /\ pc[r] = "publish" => mem[r].event = "error"
StreamSound(s) == s \in undisturbed => InTime(s) \/ CutOff(s)

SInv ==
    /\ IInv
    /\ \A r \in Runs : EventSound(r)
    /\ \A s \in Streams : ReplaySound(s) /\ StreamSound(s)

-----------------------------------------------------------------------------
(* One more event in order.                                                *)
LEMMA OneMore ==
  ASSUME NEW n \in Nat \ {0} PROVE Append(UpTo(n - 1), n) = UpTo(n)
  <1> DEFINE s == Append(UpTo(n - 1), n)
  <1>1. UpTo(n - 1) \in Seq(Nat) /\ Len(UpTo(n - 1)) = n - 1
    BY DEF UpTo
  <1>2. s \in Seq(Nat) /\ Len(s) = n /\ s[n] = n /\ \A i \in 1..(n - 1) : s[i] = UpTo(n - 1)[i]
    BY <1>1, AppendProperties
  <1>3. UpTo(n) \in Seq(Nat) /\ Len(UpTo(n)) = n
    BY DEF UpTo
  <1>4. \A i \in 1..n : s[i] = UpTo(n)[i]
    BY <1>2 DEF UpTo
  <1> HIDE DEF s
  <1>5. s = UpTo(n)
    BY <1>2, <1>3, <1>4, SeqEqual
  <1> QED
    BY <1>5 DEF s

(* A stream whose run does nothing it could notice.                        *)
LEMMA StreamFrame ==
  ASSUME NEW s \in Streams, NEW r \in Runs, view[s].run = r, ReplaySound(s), StreamSound(s),
         view'[s] = view[s], spc'[s] = spc[s], s \in undisturbed' <=> s \in undisturbed,
         runs'[r] = runs[r], pc'[r] = pc[r], mem'[r] = mem[r], events'[r] = events[r]
  PROVE  ReplaySound(s)' /\ StreamSound(s)'
  BY DEF ReplaySound, StreamSound, InTime, CutOff, Shown, At

(* A step of a run that leaves the streams alone is the business of the    *)
(* streams that watch this run.                                            *)
LEMMA OfOneRun ==
  ASSUME SInv, IInv', NEW r \in Runs, UNCHANGED <<view, spc, undisturbed>>, EventSound(r)',
         \A q \in Runs \ {r} : runs'[q] = runs[q] /\ pc'[q] = pc[q] /\ mem'[q] = mem[q]
                               /\ events'[q] = events[q],
         \A s \in Streams : view[s].run = r /\ s \in undisturbed => StreamSound(s)'
  PROVE  SInv'
  <1>1. \A q \in Runs : EventSound(q)'
    BY DEF SInv, EventSound
  <1>2. ASSUME NEW s \in Streams PROVE ReplaySound(s)' /\ StreamSound(s)'
    <2>1. view[s].run \in Runs
      BY DEF SInv, IInv, TypeOK, View
    <2>2. CASE view[s].run # r
      BY <2>1, <2>2, StreamFrame DEF SInv
    <2>3. CASE view[s].run = r
      BY <2>3 DEF SInv, ReplaySound, StreamSound
    <2> QED
      BY <2>2, <2>3
  <1> QED
    BY <1>1, <1>2 DEF SInv

Early == {"none", "begin", "wait", "route", "provision", "spawn", "pump", "exit"}

(* Before the end of its run nothing is cut off.                           *)
LEMMA EarlyIsInTime ==
  ASSUME SInv, NEW s \in undisturbed, At(view[s].run) \in Early
  PROVE  InTime(s) /\ spc[s] = "live"
  BY DEF SInv, IInv, TypeOK, StreamSound, InTime, CutOff, Early, At

LEMMA EarlyMove ==
  ASSUME SInv, IInv', NEW r \in Runs, UNCHANGED <<view, spc, undisturbed, events>>,
         pc[r] \in Early, pc'[r] # "publish",
         \A q \in Runs \ {r} : runs'[q] = runs[q] /\ pc'[q] = pc[q] /\ mem'[q] = mem[q]
  PROVE  SInv'
  <1>1. ASSUME NEW s \in Streams, view[s].run = r, s \in undisturbed PROVE StreamSound(s)'
    <2>1. InTime(s) /\ spc[s] = "live"
      BY <1>1, EarlyIsInTime DEF At, Early
    <2>2. InTime(s)'
      BY <1>1, <2>1 DEF InTime, Shown, Early
    <2> QED
      BY <2>2 DEF StreamSound
  <1>2. EventSound(r)'
    BY DEF EventSound
  <1> QED
    BY <1>1, <1>2, OfOneRun

LEMMA EarlyStore ==
  ASSUME SInv, IInv', NEW r \in Runs, UNCHANGED <<runs, view, spc, undisturbed>>,
         pc[r] \in Early, NEW kind, NEW next, NEW local, Store(r, kind, next, local)
  PROVE  SInv'
  <1>1. /\ events' = [events EXCEPT ![r] = @ + 1] /\ pc' = [pc EXCEPT ![r] = "publish"]
        /\ \E m : mem' = [mem EXCEPT ![r] = m]
    BY DEF Store
  <1>2. events \in [Runs -> Nat] /\ pc \in [Runs -> Labels] /\ mem \in [Runs -> Memory]
    BY DEF SInv, IInv, TypeOK
  <1>3. /\ pc'[r] = "publish" /\ events'[r] = events[r] + 1 /\ events[r] \in Nat
        /\ \A q \in Runs \ {r} : pc'[q] = pc[q] /\ mem'[q] = mem[q] /\ events'[q] = events[q]
    BY ONLY <1>1, <1>2, r \in Runs
  <1>4. ASSUME NEW s \in Streams, view[s].run = r, s \in undisturbed PROVE StreamSound(s)'
    <2>1. InTime(s) /\ spc[s] = "live"
      BY <1>4, EarlyIsInTime DEF At, Early
    <2>2. Shown(r)' = Shown(r)
      BY <1>3 DEF Shown, Early
    <2>3. InTime(s)'
      BY <1>4, <2>1, <2>2 DEF InTime
    <2> QED
      BY <2>3 DEF StreamSound
  <1>5. EventSound(r)'
    BY <1>3 DEF EventSound
  <1> QED
    BY <1>3, <1>4, <1>5, OfOneRun

(* Containers come and go without the streams.                             *)
LEMMA NothingShown ==
  ASSUME SInv, IInv', UNCHANGED <<runs, events, pc, mem, view, spc, undisturbed>>
  PROVE  SInv'
  BY DEF SInv, EventSound, ReplaySound, StreamSound, InTime, CutOff, Shown, At

(* On the way from the end of the pump to the row, the time limit stays.   *)
LEMMA LateMove ==
  ASSUME SInv, IInv', NEW r \in Runs, UNCHANGED <<view, spc, undisturbed, events>>,
         pc[r] \in {"kill", "classify", "finish"}, pc'[r] \in {"classify", "finish", "close"},
         mem[r].error = "timeout" =>
             mem'[r].error = "timeout" /\ (pc'[r] = "close" => runs'[r].error = "timeout"),
         \A q \in Runs \ {r} : runs'[q] = runs[q] /\ pc'[q] = pc[q] /\ mem'[q] = mem[q]
  PROVE  SInv'
  <1>1. ASSUME NEW s \in Streams, view[s].run = r, s \in undisturbed PROVE StreamSound(s)'
    <2>1. InTime(s) \/ CutOff(s)
      BY <1>1 DEF SInv, StreamSound
    <2>2. CASE InTime(s)
      <3>1. InTime(s)'
        BY <1>1, <2>2 DEF InTime, Shown
      <3> QED
        BY <3>1 DEF StreamSound
    <2>3. CASE CutOff(s)
      <3>1. CutOff(s)'
        BY <1>1, <2>3 DEF CutOff, At
      <3> QED
        BY <3>1 DEF StreamSound
    <2> QED
      BY <2>1, <2>2, <2>3
  <1>2. EventSound(r)'
    BY DEF EventSound
  <1> QED
    BY <1>1, <1>2, OfOneRun

LEMMA InitSInv == Init => SInv
  BY InitIInv DEF Init, SInv, EventSound, ReplaySound, StreamSound

-----------------------------------------------------------------------------
(* The steps of a run.                                                     *)
LEMMA EarlySteps ==
  ASSUME SInv, IInv', NEW r \in Runs,
         \/ Create(r) \/ BeginAttempt(r) \/ Start(r) \/ Route(r) \/ Provision(r) \/ Spawn(r)
         \/ PumpEnds(r) \/ Wait(r) \/ PumpRaises(r) \/ \E kind \in Outputs : Emit(r, kind)
  PROVE  SInv'
  <1> USE DEF tables, streams
  <1>1. runs \in [Runs -> [status : Statuses, error : Errors]] /\ pc \in [Runs -> Labels]
            /\ mem \in [Runs -> Memory]
    BY DEF SInv, IInv, TypeOK
  <1>2. CASE Create(r)
    BY <1>1, <1>2, EarlyMove DEF Create, Early
  <1>3. CASE BeginAttempt(r)
    BY <1>1, <1>3, EarlyMove DEF BeginAttempt, Early
  <1>4. CASE Start(r)
    BY <1>1, <1>4, EarlyMove DEF Start, Early
  <1>5. CASE Route(r)
    BY <1>5, EarlyStore DEF Route, Early
  <1>6. CASE Provision(r)
    <2>1. CASE Store(r, "log", "spawn", mem[r])
      BY <1>6, <2>1, EarlyStore DEF Provision, Early
    <2>2. CASE pc' = [pc EXCEPT ![r] = "spawn"] /\ UNCHANGED <<events, mem>>
      BY <1>1, <1>6, <2>2, EarlyMove DEF Provision, Early
    <2> QED
      BY <1>6, <2>1, <2>2 DEF Provision
  <1>7. CASE Spawn(r)
    <2>1. CASE Store(r, "error", "finish", mem[r])
      BY <1>7, <2>1, EarlyStore DEF Spawn, Early
    <2>2. CASE pc' = [pc EXCEPT ![r] = "pump"] /\ UNCHANGED <<events, mem>>
      BY <1>1, <1>7, <2>2, EarlyMove DEF Spawn, Early
    <2>3. CASE Leave(r) /\ UNCHANGED events
      BY <1>1, <1>7, <2>3, EarlyMove DEF Spawn, Leave, Early
    <2> QED
      BY <1>7, <2>1, <2>2, <2>3 DEF Spawn
  <1>8. CASE PumpEnds(r)
    BY <1>1, <1>8, EarlyMove DEF PumpEnds, Early
  <1>9. CASE Wait(r)
    BY <1>1, <1>9, EarlyMove DEF Wait, Early
  <1>10. CASE PumpRaises(r)
    BY <1>10, EarlyStore DEF PumpRaises, Early
  <1>11. ASSUME NEW kind \in Outputs, Emit(r, kind) PROVE SInv'
    BY <1>11, EarlyStore DEF Emit, Early
  <1> QED
    BY <1>2, <1>3, <1>4, <1>5, <1>6, <1>7, <1>8, <1>9, <1>10, <1>11

(* The time limit: what is stored and not published stays unpublished.     *)
LEMMA TimeoutStreams ==
  ASSUME SInv, IInv', NEW r \in Runs, Timeout(r) PROVE SInv'
  <1> DEFINE local == [mem[r] EXCEPT !.error = "timeout"]
             told  == [[local EXCEPT !.event = "error"] EXCEPT !.next = "kill"]
  <1>1. /\ events' = [events EXCEPT ![r] = @ + 1] /\ pc' = [pc EXCEPT ![r] = "publish"]
        /\ mem' = [mem EXCEPT ![r] = told]
        /\ UNCHANGED <<runs, view, spc, undisturbed>>
    BY DEF Timeout, Store, streams
  <1>2. events \in [Runs -> Nat] /\ pc \in [Runs -> Labels] /\ mem \in [Runs -> Memory]
    BY DEF SInv, IInv, TypeOK
  <1>3. told.error = "timeout" /\ told.event = "error" /\ told.next = "kill"
    <2>1. mem[r] \in Memory
      BY <1>2
    <2> QED
      BY ONLY <2>1 DEF Memory
  <1> HIDE DEF told
  <1>4. /\ pc'[r] = "publish" /\ events'[r] = events[r] + 1 /\ events[r] \in Nat
        /\ mem'[r].error = "timeout" /\ mem'[r].event = "error" /\ mem'[r].next = "kill"
        /\ \A q \in Runs \ {r} : pc'[q] = pc[q] /\ mem'[q] = mem[q] /\ events'[q] = events[q]
    BY <1>1, <1>2, <1>3
  <1>5. At(r) \in Early
    BY DEF Timeout, TimeUp, Pumping, At, Early
  <1>6. ASSUME NEW s \in Streams, view[s].run = r, s \in undisturbed PROVE StreamSound(s)'
    <2>1. spc[s] = "live"
      BY <1>5, <1>6, EarlyIsInTime
    <2>2. CutOff(s)'
      BY <1>1, <1>4, <1>6, <2>1 DEF CutOff, At
    <2> QED
      BY <2>2 DEF StreamSound
  <1>7. EventSound(r)'
    BY <1>4 DEF EventSound
  <1> QED
    BY <1>1, <1>4, <1>6, <1>7, OfOneRun

LEMMA LateSteps ==
  ASSUME SInv, IInv', NEW r \in Runs, Kill(r) \/ Classify(r) \/ FinishRun(r) PROVE SInv'
  <1> USE DEF tables, streams
  <1>1. runs \in [Runs -> [status : Statuses, error : Errors]] /\ pc \in [Runs -> Labels]
            /\ mem \in [Runs -> Memory] /\ mem[r] \in Memory
    BY DEF SInv, IInv, TypeOK
  <1>2. CASE Kill(r)
    <2>1. pc'[r] = "classify" /\ mem'[r].error = mem[r].error
      BY <1>1, <1>2 DEF Kill, Memory
    <2> QED
      BY <1>1, <1>2, <2>1, LateMove DEF Kill
  <1>3. CASE Classify(r)
    <2>1. pc'[r] = "finish" /\ (mem[r].error = "timeout" => mem'[r].error = "timeout")
      BY <1>1, <1>3 DEF Classify, Memory, Explain
    <2>2. \A q \in Runs \ {r} : mem'[q] = mem[q] /\ pc'[q] = pc[q]
      BY <1>1, <1>3 DEF Classify
    <2> QED
      BY <1>3, <2>1, <2>2, LateMove DEF Classify
  <1>4. CASE FinishRun(r)
    <2>1. pc'[r] = "close" /\ runs'[r].error = mem[r].error /\ mem'[r].error = mem[r].error
      BY <1>1, <1>4 DEF FinishRun
    <2> QED
      BY <1>1, <1>4, <2>1, LateMove DEF FinishRun
  <1> QED
    BY <1>2, <1>3, <1>4

LEMMA AlertsStreams ==
  ASSUME SInv, IInv', NEW r \in Runs, Alerts(r) PROVE SInv'
  <1>1. /\ UNCHANGED <<runs, events, view, spc, undisturbed>> /\ pc[r] = "alerts"
        /\ pc' = [pc EXCEPT ![r] = "over"] /\ mem' = [mem EXCEPT ![r] = Blank]
    BY DEF Alerts, Leave, tables, streams
  <1>2. pc \in [Runs -> Labels] /\ mem \in [Runs -> Memory]
    BY DEF SInv, IInv, TypeOK
  <1>3. ASSUME NEW s \in Streams, view[s].run = r, s \in undisturbed PROVE StreamSound(s)'
    <2>1. InTime(s) \/ (runs[r].error = "timeout")
      BY <1>1, <1>3 DEF SInv, StreamSound, CutOff, At
    <2> QED
      BY <1>1, <1>2, <1>3, <2>1 DEF StreamSound, InTime, CutOff, Shown
  <1>4. EventSound(r)'
    BY <1>1, <1>2 DEF EventSound
  <1> QED
    BY <1>1, <1>2, <1>3, <1>4, OfOneRun

(* The event goes to whoever watches, as the next one.                     *)
LEMMA PublishStreams ==
  ASSUME SInv, IInv', NEW r \in Runs, Publish(r) PROVE SInv'
  <1>1. /\ UNCHANGED <<runs, events, spc, undisturbed>> /\ pc[r] = "publish"
        /\ pc' = [pc EXCEPT ![r] = mem[r].next]
        /\ mem' = [mem EXCEPT ![r] =
               [[mem[r] EXCEPT !.event = "none"] EXCEPT !.error = TakeIn(mem[r].error, mem[r].event)]]
        /\ view' = [s \in Streams |->
               IF s \in Watching(r) THEN Send(view[s], LastSeq(r)) ELSE view[s]]
    BY DEF Publish, tables
  <1>2. /\ pc \in [Runs -> Labels] /\ mem \in [Runs -> Memory] /\ mem[r] \in Memory
        /\ view \in [Streams -> View] /\ events[r] \in Nat \ {0}
        /\ mem[r].next \in {"provision", "spawn", "finish", "pump", "kill"}
    <2>1. TypeOK /\ EventSound(r) /\ PathSound(r)
      BY DEF SInv, IInv, RunSound
    <2>2. mem[r].next \in {"provision", "spawn", "finish", "pump", "kill"}
      BY ONLY <1>1, <2>1 DEF PathSound
    <2> QED
      BY <1>1, <2>1, <2>2 DEF TypeOK, EventSound
  <1>3. pc'[r] = mem[r].next /\ (mem[r].error = "timeout" /\ mem[r].event = "error"
                                     => mem'[r].error = "timeout")
    BY ONLY <1>1, <1>2, r \in Runs DEF Memory, TakeIn
  <1>4. \A q \in Runs \ {r} : pc'[q] = pc[q] /\ mem'[q] = mem[q]
    BY <1>1, <1>2
  <1>5. ASSUME NEW s \in Streams PROVE ReplaySound(s)' /\ StreamSound(s)'
    <2>1. CASE s \notin Watching(r)
      <3>1. view'[s] = view[s] /\ view[s].run \in Runs
        BY <1>1, <1>2, <2>1 DEF View
      <3>2. CASE view[s].run # r
        BY <1>1, <1>4, <3>1, <3>2, StreamFrame DEF SInv
      <3>3. CASE view[s].run = r
        <4>1. spc[s] # "live"
          BY <2>1, <3>3 DEF Watching
        <4>2. s \notin undisturbed
          BY <1>1, <3>3, <4>1 DEF SInv, StreamSound, InTime, CutOff
        <4> QED
          BY <1>1, <3>1, <4>2 DEF SInv, ReplaySound, StreamSound
      <3> QED
        BY <3>2, <3>3
    <2>2. CASE s \in Watching(r)
      <3>1. view[s].run = r /\ spc[s] = "live"
        BY <2>2 DEF Watching
      <3>2. view'[s].run = r /\ view'[s].sent = Append(view[s].sent, events[r])
        BY <1>1, <1>2, <2>2, <3>1 DEF Send, LastSeq, View
      <3>3. ReplaySound(s)'
        BY <1>1, <3>1 DEF ReplaySound
      <3>4. ASSUME s \in undisturbed, InTime(s) PROVE InTime(s)'
        <4>1. view[s].sent = UpTo(events[r] - 1)
          BY <1>1, <3>1, <3>4 DEF InTime, Shown
        <4>2. view'[s].sent = UpTo(events[r])
          BY <1>2, <3>2, <4>1, OneMore
        <4>3. Shown(r)' = events[r]
          BY <1>1, <1>2, <1>3 DEF Shown
        <4> QED
          BY <1>1, <3>1, <3>2, <4>2, <4>3 DEF InTime
      <3>5. ASSUME s \in undisturbed, CutOff(s) PROVE CutOff(s)'
        BY <1>1, <1>2, <1>3, <3>1, <3>2, <3>5 DEF CutOff, At
      <3>6. StreamSound(s)
        BY DEF SInv
      <3> QED
        BY <1>1, <3>3, <3>4, <3>5, <3>6 DEF StreamSound
    <2> QED
      BY <2>1, <2>2
  <1>6. \A q \in Runs : EventSound(q)'
    BY <1>1, <1>2, <1>3, <1>4 DEF SInv, EventSound
  <1> QED
    BY <1>5, <1>6 DEF SInv

(* The sentinel closes the streams; by then everything was published.      *)
LEMMA CloseStreams ==
  ASSUME SInv, IInv', NEW r \in Runs, Close(r) PROVE SInv'
  <1>1. /\ UNCHANGED <<runs, events, view, undisturbed>> /\ pc[r] = "close"
        /\ spc' = [s \in Streams |-> IF s \in Watching(r) THEN "closed" ELSE spc[s]]
        /\ \/ pc' = [pc EXCEPT ![r] = "alerts"] /\ UNCHANGED mem
           \/ pc' = [pc EXCEPT ![r] = "over"] /\ mem' = [mem EXCEPT ![r] = Blank]
    BY DEF Close, Leave, tables
  <1>2. pc \in [Runs -> Labels] /\ mem \in [Runs -> Memory] /\ view \in [Streams -> View]
    BY DEF SInv, IInv, TypeOK
  <1>3. /\ pc'[r] \in {"alerts", "over"}
        /\ \A q \in Runs \ {r} : pc'[q] = pc[q] /\ mem'[q] = mem[q]
    BY <1>1, <1>2
  <1>4. ASSUME NEW s \in Streams PROVE ReplaySound(s)' /\ StreamSound(s)'
    <2>1. spc'[s] = IF spc[s] = "live" /\ view[s].run = r THEN "closed" ELSE spc[s]
      BY <1>1 DEF Watching
    <2>2. CASE view[s].run # r
      <3>1. view[s].run \in Runs
        BY <1>2 DEF View
      <3> QED
        BY <1>1, <1>3, <2>1, <2>2, <3>1, StreamFrame DEF SInv
    <2>3. CASE view[s].run = r
      <3>1. ReplaySound(s)'
        BY <1>1, <2>1 DEF SInv, ReplaySound
      <3>2. ASSUME s \in undisturbed PROVE InTime(s)' \/ CutOff(s)'
        <4>1. (InTime(s) /\ spc[s] = "live") \/ runs[r].error = "timeout"
          BY <1>1, <2>3, <3>2 DEF SInv, StreamSound, InTime, CutOff, At
        <4>2. CASE InTime(s) /\ spc[s] = "live"
          BY <1>1, <1>3, <2>1, <2>3, <4>2 DEF InTime, Shown
        <4>3. CASE runs[r].error = "timeout"
          BY <1>1, <1>3, <2>3, <4>3 DEF CutOff
        <4> QED
          BY <4>1, <4>2, <4>3
      <3> QED
        BY <1>1, <3>1, <3>2 DEF StreamSound
    <2> QED
      BY <2>2, <2>3
  <1>5. \A q \in Runs : EventSound(q)'
    BY <1>1, <1>3 DEF SInv, EventSound
  <1> QED
    BY <1>4, <1>5 DEF SInv

(* A stream replays, and joins in a quiet moment or is not counted.        *)
LEMMA WatchStreams ==
  ASSUME SInv, IInv', NEW s \in Streams, Watch(s) PROVE SInv'
  <1>1. /\ UNCHANGED <<runs, events, pc, mem>>
        /\ \A o \in Streams \ {s} : spc'[o] = spc[o] /\ view'[o] = view[o]
                                    /\ (o \in undisturbed' <=> o \in undisturbed)
        /\ view'[s].run = view[s].run /\ spc[s] \in {"idle", "replay", "check", "join"}
    <2>1. /\ spc \in [Streams -> {"idle", "replay", "check", "join", "live", "closed"}]
          /\ view \in [Streams -> View] /\ view[s] \in View
      BY DEF SInv, IInv, TypeOK
    <2>2. CASE Open(s)
      BY <2>1, <2>2 DEF Open, tables, engine
    <2>3. CASE Replay(s)
      BY <2>1, <2>3 DEF Replay, tables, engine, View
    <2>4. CASE ReadRun(s)
      BY <2>1, <2>4 DEF ReadRun, tables, engine, View
    <2>5. CASE Join(s)
      BY <2>1, <2>5 DEF Join, tables, engine
    <2> QED
      BY <2>2, <2>3, <2>4, <2>5 DEF Watch
  <1>2. /\ spc \in [Streams -> {"idle", "replay", "check", "join", "live", "closed"}]
        /\ view \in [Streams -> View] /\ events \in [Runs -> Nat] /\ view[s].run \in Runs
    BY DEF SInv, IInv, TypeOK, View
  <1>3. ASSUME s \in undisturbed PROVE StreamSound(s)'
    <2>1. CutOff(s) /\ spc[s] # "live"
      BY <1>1, <1>3 DEF SInv, StreamSound, InTime, CutOff
    <2>2. CutOff(s)'
      BY <1>1, <2>1 DEF CutOff
    <2> QED
      BY <2>2 DEF StreamSound
  <1>4. ReplaySound(s)' /\ StreamSound(s)'
    <2>1. CASE Open(s)
      BY <1>2, <1>3, <2>1 DEF Open, ReplaySound, StreamSound
    <2>2. CASE Replay(s)
      <3>1. view'[s].sent = UpTo(events[view[s].run]) /\ events[view[s].run] \in Nat
        BY <1>2, <2>2 DEF Replay, UpTo, View
      <3> QED
        BY <1>3, <2>2, <3>1 DEF Replay, ReplaySound, StreamSound
    <2>3. CASE ReadRun(s)
      <3>1. view'[s].sent = view[s].sent /\ spc[s] = "check"
        BY <1>2, <2>3 DEF ReadRun, View
      <3> QED
        BY <1>3, <2>3, <3>1 DEF ReadRun, SInv, ReplaySound, StreamSound
    <2>4. CASE Join(s)
      <3>1. view' = view /\ spc'[s] \in {"live", "closed"} /\ spc[s] = "join"
        BY <1>2, <2>4 DEF Join
      <3>2. ASSUME s \in undisturbed', s \notin undisturbed PROVE InTime(s)'
        <4>1. Quiet(s) /\ spc'[s] = "live"
          BY <1>2, <2>4, <3>2 DEF Join
        <4>2. PICK n \in Nat : view[s].sent = UpTo(n)
          BY <3>1 DEF SInv, ReplaySound
        <4>3. Len(view[s].sent) = n
          BY <4>2 DEF UpTo
        <4> QED
          BY <1>1, <3>1, <4>1, <4>2, <4>3 DEF Quiet, InTime, Shown
      <3> QED
        BY <1>3, <3>1, <3>2 DEF ReplaySound, StreamSound
    <2> QED
      BY <2>1, <2>2, <2>3, <2>4 DEF Watch
  <1>5. ASSUME NEW o \in Streams, o # s PROVE ReplaySound(o)' /\ StreamSound(o)'
    <2>1. view[o].run \in Runs
      BY <1>2 DEF View
    <2> QED
      BY <1>1, <1>5, <2>1, StreamFrame DEF SInv
  <1>6. \A q \in Runs : EventSound(q)'
    BY <1>1 DEF SInv, EventSound
  <1> QED
    BY <1>4, <1>5, <1>6 DEF SInv

(* A restart closes every stream and forgets who was undisturbed.          *)
LEMMA RestartStreams ==
  ASSUME SInv, IInv', Restart PROVE SInv'
  BY DEF SInv, IInv, TypeOK, Restart, EventSound, ReplaySound, StreamSound

LEMMA NextSInv == SInv /\ [Next]_vars => SInv'
  <1> SUFFICES ASSUME SInv, [Next]_vars PROVE SInv'
    OBVIOUS
  <1>1. IInv'
    BY NextIInv DEF SInv
  <1>2. CASE UNCHANGED vars
    BY <1>1, <1>2, NothingShown DEF vars, tables, engine, streams
  <1>3. ASSUME NEW r \in Runs, Execute(r) PROVE SInv'
    BY <1>1, <1>3, EarlySteps, LateSteps, PublishStreams, CloseStreams, AlertsStreams DEF Execute
  <1>4. ASSUME NEW r \in Runs,
               Create(r) \/ Timeout(r) \/ PumpRaises(r) \/ \E kind \in Outputs : Emit(r, kind)
        PROVE  SInv'
    BY <1>1, <1>4, EarlySteps, TimeoutStreams
  <1>5. ASSUME NEW r \in Runs,
               \/ Linger(r) \/ SeeOom(r)
               \/ \E code \in {0, 1, 137}, oom \in BOOLEAN : Exit(r, code, oom)
        PROVE  SInv'
    BY <1>1, <1>5, NothingShown DEF Linger, SeeOom, Exit, tables, streams
  <1>6. ASSUME NEW s \in Streams, Watch(s) PROVE SInv'
    BY <1>1, <1>6, WatchStreams
  <1> QED
    BY <1>1, <1>2, <1>3, <1>4, <1>5, <1>6, RestartStreams DEF Next

(* Whoever joins a run in a quiet moment sees all of it: every event that  *)
(* is stored, once and in order, unless the time limit cuts one off.       *)
THEOREM QuietJoinSeesAll == Spec => []UndisturbedSeesAll
  <1>1. ASSUME SInv, NEW s \in undisturbed, spc[s] = "closed", runs[view[s].run].error # "timeout"
        PROVE  view[s].sent = InOrder(s)
    <2>1. InTime(s)
      BY <1>1 DEF SInv, IInv, TypeOK, StreamSound, CutOff
    <2> QED
      BY <1>1, <2>1 DEF InTime, Shown, UpTo, InOrder
  <1>2. SInv => UndisturbedSeesAll
    BY <1>1 DEF UndisturbedSeesAll
  <1> QED
    BY <1>2, InitSInv, NextSInv, PTL DEF Spec

-----------------------------------------------------------------------------
(* The rate limiter in front of the runs: a call of the programmatic API   *)
(* asks its key's bucket (app/main.py, _agent_from_api_key) before it may  *)
(* start a run.  The bucket shares no state with the runs.                 *)
CONSTANTS Keys, PerMin, Burst
VARIABLES now, tokens, last, seen, since, admitted
Bucket == INSTANCE RateLimit

(* A bucket never holds more than a burst, and what it holds together with *)
(* what it gave away since it was counted is what a burst and the time up  *)
(* to its last call explain.  The second part is what makes the bound      *)
(* inductive: a call that was let in is paid for by the bucket.            *)
Paid ==
    \A k \in Keys :
        /\ last[k] <= now /\ since[k] <= now
        /\ k \in seen => 0 <= tokens[k] /\ tokens[k] <= Bucket!Capacity
        /\ \/ admitted[k] = 0
           \/ /\ k \in seen /\ since[k] <= last[k]
              /\ Bucket!Token * admitted[k] + tokens[k] <= Bucket!Capacity + PerMin * (last[k] - since[k])
BucketInv == Bucket!TypeOK /\ Paid

(* What comes in over two spans is what comes in over both.                *)
LEMMA Spans == ASSUME NEW r \in Int, NEW a \in Int, NEW b \in Int, NEW c \in Int
               PROVE  r * (b - a) + r * (c - b) = r * (c - a)
  <1>1. r * (b - a) = r * b - r * a  OBVIOUS
  <1>2. r * (c - b) = r * c - r * b  OBVIOUS
  <1>3. r * (c - a) = r * c - r * a  OBVIOUS
  <1> QED BY <1>1, <1>2, <1>3, SMT

(* More time never brings less in.                                         *)
LEMMA Grows == ASSUME NEW r \in Nat, NEW a \in Nat
               PROVE  r * a \in Nat
  OBVIOUS


(* The bucket's settings are whole numbers.                                *)
Settings == PerMin \in Int /\ Burst \in Int

LEMMA CapacityPositive ==
  ASSUME Settings, Bucket!Enabled
  PROVE  Bucket!Capacity \in Nat
  BY DEF Settings, Bucket!Enabled, Bucket!Capacity, Bucket!Token

(* The refilled bucket: no fuller than a burst, and no fuller than what    *)
(* was in it and the time since.                                           *)
LEMMA Refill ==
  ASSUME Settings, Bucket!Enabled, BucketInv, NEW k \in Keys
  PROVE  /\ Bucket!Refilled(k) \in Nat /\ Bucket!Refilled(k) <= Bucket!Capacity
         /\ k \in seen => Bucket!Refilled(k) <= tokens[k] + PerMin * (now - last[k])
  <1> DEFINE d == PerMin * Bucket!Elapsed(k)
  <1>1. Bucket!Capacity \in Nat  BY CapacityPositive
  <1>2. Bucket!Before(k) \in Nat  BY <1>1 DEF Bucket!Before, BucketInv, Bucket!TypeOK, Paid
  <1>3. Bucket!Elapsed(k) \in Nat  BY DEF Bucket!Elapsed, BucketInv, Bucket!TypeOK, Paid
  <1>4. d \in Nat  BY <1>3, Grows DEF Settings, Bucket!Enabled
  <1>5. Bucket!Refilled(k) = Bucket!AtMost(Bucket!Capacity, Bucket!Before(k) + d)  BY DEF Bucket!Refilled
  <1>6. Bucket!Refilled(k) \in Nat /\ Bucket!Refilled(k) <= Bucket!Capacity /\ Bucket!Refilled(k) <= Bucket!Before(k) + d
    <2> HIDE DEF d
    <2> QED BY <1>1, <1>2, <1>4, <1>5, SMT DEF Bucket!AtMost
  <1>7. k \in seen => Bucket!Before(k) = tokens[k] /\ d = PerMin * (now - last[k])
    BY DEF Bucket!Before, Bucket!Elapsed
  <1> QED BY <1>6, <1>7

(* The arithmetic of a call, with no state in it: a bucket that was worth  *)
(* w at time l, or that is counted from now on, is worth what is left at   *)
(* time n.                                                                 *)
LEMMA Carry ==
  ASSUME NEW r \in Int, NEW cap \in Int, NEW s \in Int, NEW l \in Int, NEW n \in Int,
         NEW a \in Int, NEW t \in Int, NEW f \in Int,
         Bucket!Token * a + t <= cap + r * (l - s), f <= t + r * (n - l)
  PROVE  Bucket!Token * a + f <= cap + r * (n - s)
  <1>1. r * (l - s) + r * (n - l) = r * (n - s)  BY Spans
  <1> DEFINE x == r * (l - s) y == r * (n - l) z == r * (n - s)
  <1>2. x \in Int /\ y \in Int /\ z \in Int  OBVIOUS
  <1>3. x + y = z  BY <1>1
  <1>4. Bucket!Token * a + t <= cap + x /\ f <= t + y  OBVIOUS
  <1> HIDE DEF x, y, z
  <1>5. Bucket!Token * a + f <= cap + z  BY <1>2, <1>3, <1>4, SMT DEF Bucket!Token
  <1> QED BY <1>5 DEF z

(* What the bucket of a key is worth when it was called at this moment.    *)
LEMMA Worth ==
  ASSUME Settings, Bucket!Enabled, BucketInv, NEW k \in Keys
  PROVE  Bucket!Token * admitted[k] + Bucket!Refilled(k) <= Bucket!Capacity + PerMin * (now - since[k])
  <1> USE DEF BucketInv, Bucket!TypeOK
  <1>1. Bucket!Capacity \in Int  BY CapacityPositive
  <1>2. Bucket!Refilled(k) \in Int /\ Bucket!Refilled(k) <= Bucket!Capacity  BY Refill
  <1>3. CASE admitted[k] = 0
    <2>1. now - since[k] \in Nat  BY DEF Paid
    <2> DEFINE y == PerMin * (now - since[k])
    <2>2. y \in Nat  BY <2>1, Grows DEF Settings, Bucket!Enabled
    <2> HIDE DEF y
    <2>3. Bucket!Token * admitted[k] + Bucket!Refilled(k) <= Bucket!Capacity + y
      BY <1>1, <1>2, <1>3, <2>2, SMT DEF Bucket!Token
    <2> QED BY <2>3 DEF y
  <1>4. CASE admitted[k] # 0
    <2>1. /\ k \in seen
          /\ Bucket!Token * admitted[k] + tokens[k] <= Bucket!Capacity + PerMin * (last[k] - since[k])
      BY <1>4 DEF Paid
    <2>2. Bucket!Refilled(k) <= tokens[k] + PerMin * (now - last[k])  BY <2>1, Refill
    <2>3. /\ PerMin \in Int /\ since[k] \in Int /\ last[k] \in Int /\ now \in Int
          /\ admitted[k] \in Int /\ tokens[k] \in Int
      BY DEF Settings
    <2> HIDE DEF BucketInv, Bucket!TypeOK
    <2> QED BY <1>1, <1>2, <2>1, <2>2, <2>3, Carry, Zenon
  <1> QED BY <1>3, <1>4

-----------------------------------------------------------------------------
LEMMA BucketInit == Settings /\ Bucket!Init => BucketInv
  BY DEF Settings, Bucket!Init, BucketInv, Bucket!TypeOK, Paid

(* A call: one lemma for both answers, with what the bucket pays.          *)
LEMMA CallKeeps ==
  ASSUME Settings, Bucket!Enabled, BucketInv, NEW k \in Keys, NEW left \in Nat, NEW more \in Nat,
         Bucket!Touch(k, left), left + Bucket!Token * more = Bucket!Refilled(k),
         admitted' = [admitted EXCEPT ![k] = @ + more]
  PROVE  BucketInv'
  <1> USE DEF BucketInv, Bucket!TypeOK
  <1>1. Bucket!Refilled(k) <= Bucket!Capacity /\ Bucket!Capacity \in Int /\ Bucket!Refilled(k) \in Int
    BY Refill, CapacityPositive
  <1>2. Bucket!TypeOK'
    BY DEF Bucket!Touch
  <1>3. Bucket!Token * admitted[k] + Bucket!Refilled(k) <= Bucket!Capacity + PerMin * (now - since[k])
    BY Worth
  <1>4. /\ admitted'[k] = admitted[k] + more /\ tokens'[k] = left
        /\ last'[k] = now /\ k \in seen' /\ since' = since /\ now' = now
    BY DEF Bucket!Touch
  <1>5. Bucket!Token * admitted'[k] + tokens'[k] = Bucket!Token * admitted[k] + Bucket!Refilled(k)
    BY <1>1, <1>4, SMT DEF Bucket!Token
  <1>6. left <= Bucket!Capacity
    BY <1>1, SMT DEF Bucket!Token
  <1>7. ASSUME NEW j \in Keys
        PROVE  /\ last'[j] <= now' /\ since'[j] <= now'
               /\ j \in seen' => 0 <= tokens'[j] /\ tokens'[j] <= Bucket!Capacity
               /\ \/ admitted'[j] = 0
                  \/ /\ j \in seen' /\ since'[j] <= last'[j]
                     /\ Bucket!Token * admitted'[j] + tokens'[j] <= Bucket!Capacity + PerMin * (last'[j] - since'[j])
    <2>1. CASE j = k
      <3>1. since[k] <= now  BY DEF Paid
      <3> QED BY <2>1, <3>1, <1>3, <1>4, <1>5, <1>6
    <2>2. CASE j # k
      <3>1. /\ last'[j] = last[j] /\ tokens'[j] = tokens[j] /\ admitted'[j] = admitted[j]
            /\ since'[j] = since[j] /\ now' = now /\ (j \in seen' <=> j \in seen)
        BY <2>2 DEF Bucket!Touch
      <3> QED BY <3>1 DEF Paid
    <2> QED BY <2>1, <2>2
  <1>8. Paid'
    BY <1>7 DEF Paid, Bucket!Capacity
  <1> QED BY <1>2, <1>8

LEMMA BucketStep == Settings /\ BucketInv /\ [Bucket!Next]_(Bucket!vars) => BucketInv'
  <1> SUFFICES ASSUME Settings, BucketInv, [Bucket!Next]_(Bucket!vars) PROVE BucketInv'
    OBVIOUS
  <1>1. ASSUME NEW k \in Keys, Bucket!Admit(k) PROVE BucketInv'
    <2>1. Bucket!Refilled(k) \in Nat  BY <1>1, Refill DEF Bucket!Admit
    <2> DEFINE left == Bucket!Refilled(k) - Bucket!Token
    <2>2. left \in Nat /\ left + Bucket!Token * 1 = Bucket!Refilled(k)  BY <1>1, <2>1 DEF Bucket!Admit, Bucket!Token
    <2> QED BY <1>1, <2>2, CallKeeps DEF Bucket!Admit
  <1>2. ASSUME NEW k \in Keys, Bucket!Limit(k) PROVE BucketInv'
    <2>1. Bucket!Refilled(k) \in Nat  BY <1>2, Refill DEF Bucket!Limit
    <2>2. Bucket!Refilled(k) + Bucket!Token * 0 = Bucket!Refilled(k)  BY <2>1 DEF Bucket!Token
    <2>3. admitted' = [admitted EXCEPT ![k] = @ + 0]
      BY <1>2 DEF Bucket!Limit, BucketInv, Bucket!TypeOK
    <2> QED BY <1>2, <2>1, <2>2, <2>3, CallKeeps DEF Bucket!Limit
  <1>3. CASE Bucket!TimePasses
    BY <1>3 DEF Bucket!TimePasses, BucketInv, Bucket!TypeOK, Paid, Bucket!Capacity
  <1>4. ASSUME NEW k \in Keys, Bucket!Count(k) PROVE BucketInv'
    <2>1. Bucket!TypeOK'  BY <1>4 DEF Bucket!Count, BucketInv, Bucket!TypeOK
    <2>2. Paid'  BY <1>4 DEF Bucket!Count, BucketInv, Bucket!TypeOK, Paid, Bucket!Capacity
    <2> QED BY <2>1, <2>2 DEF BucketInv
  <1>5. CASE UNCHANGED Bucket!vars
    BY <1>5 DEF Bucket!vars, BucketInv, Bucket!TypeOK, Paid, Bucket!Capacity
  <1> QED BY <1>1, <1>2, <1>3, <1>4, <1>5 DEF Bucket!Next

(* The limiter's promise: whatever the rate and the burst, and from        *)
(* whatever moment the calls of a key are counted, no more come in than a  *)
(* burst and the elapsed time allow.                                       *)
THEOREM RateIsBounded ==
  ASSUME Settings, Bucket!Enabled
  PROVE  Bucket!Spec => []Bucket!Throttled
  <1>1. Bucket!Init => BucketInv  BY BucketInit
  <1>2. BucketInv /\ [Bucket!Next]_(Bucket!vars) => BucketInv'  BY BucketStep
  <1>3. BucketInv => Bucket!Throttled
    <2> SUFFICES ASSUME BucketInv, NEW k \in Keys
                 PROVE  Bucket!Token * admitted[k] <= Bucket!Capacity + PerMin * (now - since[k])
      BY DEF Bucket!Throttled
    <2>1. Bucket!Token * admitted[k] + Bucket!Refilled(k) <= Bucket!Capacity + PerMin * (now - since[k])
      BY Worth
    <2>2. Bucket!Refilled(k) \in Nat  BY Refill
    <2> DEFINE y == PerMin * (now - since[k])
    <2>3. y \in Int /\ Bucket!Token * admitted[k] \in Int /\ Bucket!Capacity \in Int
      BY CapacityPositive DEF Settings, BucketInv, Bucket!TypeOK, Bucket!Token
    <2> HIDE DEF y
    <2>4. Bucket!Token * admitted[k] + Bucket!Refilled(k) <= Bucket!Capacity + y  BY <2>1 DEF y
    <2>5. Bucket!Token * admitted[k] <= Bucket!Capacity + y  BY <2>2, <2>3, <2>4
    <2> QED BY <2>5 DEF y
  <1> QED BY <1>1, <1>2, <1>3, PTL DEF Bucket!Spec
=============================================================================
