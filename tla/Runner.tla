------------------------------- MODULE Runner -------------------------------
(***************************************************************************)
(* Runs and their containers (app/runner.py), the events they store and    *)
(* publish, and the streams of people who watch (stream_run in             *)
(* app/main.py).  execute_run is one coroutine per run: it waits for a     *)
(* slot, sets up a container, pumps its output until it ends or its time   *)
(* is up, and closes the books.  handle stores an event, and publishes it  *)
(* after an await.                                                         *)
(***************************************************************************)
EXTENDS Integers, Sequences, FiniteSets

CONSTANTS
    Runs,           \* runs
    Streams,        \* requests to watch a run
    Slots,          \* MAX_CONCURRENT
    Loads           \* bound: what may happen in one behaviour

(* The runs that are created, the streams that are opened, the events of a *)
(* container, and the crashes of the server.                               *)
Load == [runs : SUBSET Runs, streams : SUBSET Streams, output : Nat, restarts : Nat]

ASSUME RunnerAssumption ==
    /\ Slots \in Nat \ {0} /\ IsFiniteSet(Runs)
    /\ \A l \in Loads : l \in Load

VARIABLES
    runs,           \* the runs table: status and error of each run
    events,         \* the events table: how many each run has stored
    pc, mem,        \* where each execute_run is, and its local variables
    box,            \* the containers
    heard,          \* runs whose outcome was told (finish_attempt was started)
    spc, view,      \* where each stream is, and what it has sent to its client
    load, restarts,
    faulty,         \* history: runs whose container misbehaved, see Spawn and Linger
    trouble,        \* history: the errors each run has taken in, and whether it was killed
    undisturbed     \* history: streams that joined when nothing was under way

tables  == <<runs, events>>
engine  == <<pc, mem, box>>
streams == <<spc, view, undisturbed>>
bounds  == <<load, restarts>>
history == <<faulty, trouble>>
vars == <<tables, engine, heard, streams, bounds, history>>

-----------------------------------------------------------------------------
(* blank error: an error event without a message.                          *)
Outputs  == {"log", "result", "bad result", "error", "blank error"}   \* of a container
Kinds    == Outputs \cup {"routed"}
Troubles == {"bad result", "error", "killed"}
Errors   == {"none", "generic", "reason", "timeout", "runner", "oom", "likely oom", "exit"}
Statuses == {"none", "queued", "running", "succeeded", "failed", "interrupted"}
Final    == {"succeeded", "failed", "interrupted"}

(* event: the event that is stored and not published yet; next: where      *)
(* handle returns to.  exit: 0, 1 for any other code, 124 and 137.         *)
Memory == [event : Kinds \cup {"none"}, error : Errors, exit : {0, 1, 124, 137},
           next : {"", "provision", "spawn", "finish", "pump", "kill"},
           final : Final]
Blank  == [event |-> "none", next |-> "", error |-> "none", exit |-> 0,
           final |-> "failed"]

(* state: closed means that the output ended and the process did not.      *)
(* oom: the kernel killed a process of it for memory.  flag: oom["hit"].   *)
Box   == [state : {"none", "up", "closed", "dead"}, code : {0, 1, 137},
          oom : BOOLEAN, flag : BOOLEAN, output : Nat]
NoBox == [state |-> "none", code |-> 0, oom |-> FALSE, flag |-> FALSE, output |-> 0]

(* A stream: its run, the events it has sent, and what it read of the run. *)
View == [run : Runs, sent : Seq(Nat), open : BOOLEAN]

Labels == {"none", "begin", "wait", "route", "provision", "spawn", "pump", "exit",
           "kill", "classify", "finish", "close", "alerts", "publish", "over"}

(* Rows, coroutines, containers and streams have their types.              *)
TypeOK ==
    /\ runs \in [Runs -> [status : Statuses, error : Errors]]
    /\ events \in [Runs -> Nat]
    /\ pc \in [Runs -> Labels] /\ mem \in [Runs -> Memory] /\ box \in [Runs -> Box]
    /\ heard \in SUBSET Runs
    /\ spc \in [Streams -> {"idle", "replay", "check", "join", "live", "closed"}]
    /\ view \in [Streams -> View]
    /\ load \in Loads /\ restarts \in Nat /\ faulty \in SUBSET Runs
    /\ trouble \in [Runs -> SUBSET Troubles] /\ undisturbed \in SUBSET Streams

Init ==
    /\ runs = [r \in Runs |-> [status |-> "none", error |-> "none"]]
    /\ events = [r \in Runs |-> 0]
    /\ pc = [r \in Runs |-> "none"] /\ mem = [r \in Runs |-> Blank]
    /\ box = [r \in Runs |-> NoBox] /\ heard = {}
    /\ spc = [s \in Streams |-> "idle"]
    /\ view \in [Streams -> [run : Runs, sent : {<<>>}, open : {FALSE}]]
    /\ load \in Loads /\ restarts = 0 /\ faulty = {} /\ undisturbed = {}
    /\ trouble = [r \in Runs |-> {}]

-----------------------------------------------------------------------------
(* create_run and start_run.                                               *)
Create(r) ==
    /\ pc[r] = "none" /\ r \in load.runs
    /\ runs' = [runs EXCEPT ![r].status = "queued"]
    /\ pc' = [pc EXCEPT ![r] = "begin"]
    /\ UNCHANGED <<events, mem, box, heard, streams, bounds, history>>

(* begin_attempt, see module OutcomeEngine; it never blocks a run.         *)
BeginAttempt(r) ==
    /\ pc[r] = "begin"
    /\ pc' = [pc EXCEPT ![r] = "wait"]
    /\ UNCHANGED <<tables, mem, box, heard, streams, bounds, history>>

(* async with _sem: the slot is kept until execute_run returns or raises.  *)
HoldsSlot(r) == pc[r] \notin {"none", "begin", "wait", "over"}
InSlots == {r \in Runs : HoldsSlot(r)}
Start(r) ==
    /\ pc[r] = "wait" /\ Cardinality(InSlots) < Slots
    /\ runs' = [runs EXCEPT ![r].status = "running"]
    /\ pc' = [pc EXCEPT ![r] = "route"]
    /\ UNCHANGED <<events, mem, box, heard, streams, bounds, history>>

(* handle: the event is stored; Publish, after the await, hands it to the  *)
(* streams and takes in what it says.                                      *)
Store(r, kind, next, local) ==
    /\ events' = [events EXCEPT ![r] = @ + 1]
    /\ pc' = [pc EXCEPT ![r] = "publish"]
    /\ mem' = [mem EXCEPT ![r] = [[local EXCEPT !.event = kind] EXCEPT !.next = next]]

Watching(r) == {s \in Streams : spc[s] = "live" /\ view[s].run = r}
TakeInLast(error, kind) ==                              \* a mutant
    IF kind = "bad result" THEN "reason"
    ELSE IF kind = "error" THEN "generic" ELSE error
TakeIn(error, kind) ==
    IF kind = "bad result" THEN "reason"
    ELSE IF kind = "error" /\ error = "none" THEN "generic" ELSE error
SeqBefore(r) == events[r] - 1                           \* a mutant
LastSeq(r)   == events[r]
Send(v, seq) == [v EXCEPT !.sent = Append(@, seq)]
Publish(r) ==
    /\ pc[r] = "publish"
    /\ view' = [s \in Streams |->
           IF s \in Watching(r) THEN Send(view[s], LastSeq(r)) ELSE view[s]]
    /\ pc' = [pc EXCEPT ![r] = mem[r].next]
    /\ mem' = [mem EXCEPT ![r] =
           [[mem[r] EXCEPT !.event = "none"] EXCEPT !.error = TakeIn(mem[r].error, mem[r].event)]]
    /\ trouble' = [trouble EXCEPT ![r] = @ \cup ({mem[r].event} \cap {"bad result", "error"})]
    /\ UNCHANGED <<tables, box, heard, spc, undisturbed, bounds, faulty>>

(* router.route and providers.container_env: a provider that is not        *)
(* configured ends the run before it has a container.                      *)
Route(r) ==
    /\ pc[r] = "route"
    /\ \/ Store(r, "routed", "provision", mem[r])
       \/ Store(r, "error", "finish", mem[r])
    /\ UNCHANGED <<runs, box, heard, streams, bounds, history>>

(* Connectors, skills and data sources; a hiccup is logged, not fatal.     *)
Provision(r) ==
    /\ pc[r] = "provision"
    /\ \/ Store(r, "log", "spawn", mem[r])
       \/ /\ pc' = [pc EXCEPT ![r] = "spawn"]
          /\ UNCHANGED <<events, mem>>
    /\ UNCHANGED <<runs, box, heard, streams, bounds, history>>

(* execute_run returns: its local variables are gone, and so is its        *)
(* container (--rm).                                                       *)
Leave(r) ==
    /\ pc'  = [pc  EXCEPT ![r] = "over"]
    /\ mem' = [mem EXCEPT ![r] = Blank]
    /\ box' = [box EXCEPT ![r] = NoBox]

(* docker run: the container starts; or docker is not there; or the client *)
(* is gone before it read the job (stdin.drain), which nobody catches: the *)
(* slot is free, and the run keeps the status it has.                      *)
Spawn(r) ==
    /\ pc[r] = "spawn"
    /\ \/ /\ box' = [box EXCEPT ![r].state = "up"]
          /\ pc' = [pc EXCEPT ![r] = "pump"]
          /\ UNCHANGED <<events, mem, faulty>>
       \/ /\ Store(r, "error", "finish", mem[r])
          /\ UNCHANGED <<box, faulty>>
       \/ /\ Leave(r)
          /\ faulty' = faulty \cup {r}
          /\ UNCHANGED events
    /\ UNCHANGED <<runs, heard, streams, bounds, trouble>>

-----------------------------------------------------------------------------
(* The container, and pump_stdout.                                         *)

Emit(r, kind) ==
    /\ pc[r] = "pump" /\ box[r].state = "up" /\ box[r].output < load.output
    /\ box' = [box EXCEPT ![r].output = @ + 1]
    /\ Store(r, kind, "pump", mem[r])
    /\ UNCHANGED <<runs, heard, streams, bounds, history>>

(* The agent returns; the kernel may have killed it or a child of it.      *)
Exit(r, code, oom) ==
    /\ box[r].state \in {"up", "closed"}
    /\ oom => code # 0
    /\ box' = [box EXCEPT ![r] =
           [[[box[r] EXCEPT !.state = "dead"] EXCEPT !.code = code] EXCEPT !.oom = oom]]
    /\ UNCHANGED <<tables, pc, mem, heard, streams, bounds, history>>

(* The output is closed while the process stays.                           *)
Linger(r) ==
    /\ box[r].state = "up"
    /\ box' = [box EXCEPT ![r].state = "closed"]
    /\ faulty' = faulty \cup {r}
    /\ UNCHANGED <<tables, pc, mem, heard, streams, bounds, trouble>>

(* _watch_oom sees the event, some time after.                             *)
SeeOom(r) ==
    /\ pc[r] \in {"pump", "exit", "kill", "classify", "publish"}
    /\ box[r].oom /\ ~box[r].flag
    /\ box' = [box EXCEPT ![r].flag = TRUE]
    /\ UNCHANGED <<tables, pc, mem, heard, streams, bounds, history>>

PumpEnds(r) ==
    /\ pc[r] = "pump" /\ box[r].state \in {"closed", "dead"}
    /\ pc' = [pc EXCEPT ![r] = "exit"]
    /\ UNCHANGED <<tables, mem, box, heard, streams, bounds, history>>

(* proc.wait(): after the pump, outside its time limit.                    *)
ExitCode(r)   == box[r].code
Wait(r) ==
    /\ pc[r] = "exit" /\ box[r].state = "dead"
    /\ pc' = [pc EXCEPT ![r] = "classify"]
    /\ mem' = [mem EXCEPT ![r].exit = ExitCode(r)]
    /\ UNCHANGED <<tables, box, heard, streams, bounds, history>>

(* The time limit cancels the pump wherever it waits; an event that is     *)
(* stored and not yet published is then never published nor taken in.      *)
Pumping(r)      == pc[r] = "pump" \/ (pc[r] = "publish" /\ mem[r].next = "pump")
PumpingNever(r) == FALSE                                \* a mutant
TimeUp(r)       == Pumping(r)
Timeout(r) ==
    /\ TimeUp(r)
    /\ Store(r, "error", "kill", [mem[r] EXCEPT !.error = "timeout"])
    /\ UNCHANGED <<runs, box, heard, streams, bounds, history>>

(* A line that is JSON and no event, or an error of the database, raises   *)
(* in the pump.                                                            *)
PumpRaises(r) ==
    /\ pc[r] = "pump" /\ box[r].state = "up"
    /\ Store(r, "error", "kill", [mem[r] EXCEPT !.error = "runner"])
    /\ UNCHANGED <<runs, box, heard, streams, bounds, history>>

(* _kill_container                                                         *)
Kill(r) ==
    /\ pc[r] = "kill"
    /\ box' = [box EXCEPT ![r].state = "dead"]
    /\ pc' = [pc EXCEPT ![r] = "classify"]
    /\ mem' = [mem EXCEPT ![r].exit = IF mem[r].error = "timeout" THEN 124 ELSE 1]
    /\ trouble' = [trouble EXCEPT ![r] = @ \cup {"killed"}]
    /\ UNCHANGED <<tables, heard, streams, bounds, faulty>>

-----------------------------------------------------------------------------
(* The end of a run.                                                       *)

(* Only an exit that nothing explains yet is looked into.                  *)
ExplainFlag(m, flag) ==                                 \* a mutant
    IF m.error # "none" \/ m.exit = 0 THEN m.error
    ELSE IF flag THEN "oom" ELSE "exit"
Explain(m, flag) ==
    IF m.error # "none" \/ m.exit = 0 THEN m.error
    ELSE IF flag THEN "oom"
    ELSE IF m.exit = 137 THEN "likely oom" ELSE "exit"
FinalByExit(m)  == IF m.exit = 0 THEN "succeeded" ELSE "failed"     \* a mutant
FinalStatus(m)  == IF m.exit = 0 /\ m.error = "none" THEN "succeeded" ELSE "failed"
Classify(r) ==
    /\ pc[r] = "classify"
    /\ LET m == [mem[r] EXCEPT !.error = Explain(mem[r], box[r].flag)]
       IN  mem' = [mem EXCEPT ![r] = [m EXCEPT !.final = FinalStatus(m)]]
    /\ pc' = [pc EXCEPT ![r] = "finish"]
    /\ UNCHANGED <<tables, box, heard, streams, bounds, history>>

(* finish_run.  A run that never had a container comes here as failed.     *)
FinishRun(r) ==
    /\ pc[r] = "finish"
    /\ runs' = [runs EXCEPT ![r] = [status |-> mem[r].final, error |-> mem[r].error]]
    /\ pc' = [pc EXCEPT ![r] = "close"]
    /\ UNCHANGED <<events, mem, box, heard, streams, bounds, history>>

(* The status and the sentinel close the streams.  Only a run that had a   *)
(* container goes on to its alerts and its outcome.                        *)
HadContainer(r) == box[r].state # "none"
Close(r) ==
    /\ pc[r] = "close"
    /\ spc' = [s \in Streams |-> IF s \in Watching(r) THEN "closed" ELSE spc[s]]
    /\ IF HadContainer(r)
       THEN pc' = [pc EXCEPT ![r] = "alerts"] /\ UNCHANGED <<mem, box>>
       ELSE Leave(r)
    /\ UNCHANGED <<tables, heard, view, undisturbed, bounds, history>>

(* alerts.evaluate_run never fails a run; then finish_attempt is started.  *)
Alerts(r) ==
    /\ pc[r] = "alerts"
    /\ heard' = heard \cup {r}
    /\ Leave(r)
    /\ UNCHANGED <<tables, streams, bounds, history>>

Execute(r) ==
    \/ BeginAttempt(r) \/ Start(r) \/ Publish(r) \/ Route(r) \/ Provision(r)
    \/ Spawn(r) \/ PumpEnds(r) \/ Wait(r) \/ Kill(r)
    \/ Classify(r) \/ FinishRun(r) \/ Close(r) \/ Alerts(r)

-----------------------------------------------------------------------------
(* GET /runs/<id>/stream.                                                  *)

Open(s) ==
    /\ spc[s] = "idle" /\ s \in load.streams /\ runs[view[s].run].status # "none"
    /\ spc' = [spc EXCEPT ![s] = "replay"]
    /\ UNCHANGED <<tables, engine, heard, view, undisturbed, bounds, history>>

(* get_events, all of them sent.                                           *)
Replay(s) ==
    /\ spc[s] = "replay"
    /\ view' = [view EXCEPT ![s].sent = [i \in 1..events[view[s].run] |-> i]]
    /\ spc' = [spc EXCEPT ![s] = "check"]
    /\ UNCHANGED <<tables, engine, heard, undisturbed, bounds, history>>

(* get_run: what it read is acted upon when the coroutine goes on.         *)
ReadRun(s) ==
    /\ spc[s] = "check"
    /\ view' = [view EXCEPT ![s].open = runs[view[s].run].status \in {"queued", "running"}]
    /\ spc' = [spc EXCEPT ![s] = "join"]
    /\ UNCHANGED <<tables, engine, heard, undisturbed, bounds, history>>

(* subscribe, unless the run was over.                                     *)
Quiet(s) ==
    LET r == view[s].run
    IN  /\ Len(view[s].sent) = events[r]
        /\ pc[r] \notin {"publish", "over", "alerts"}
Join(s) ==
    /\ spc[s] = "join"
    /\ IF view[s].open
       THEN /\ spc' = [spc EXCEPT ![s] = "live"]
            /\ undisturbed' = IF Quiet(s) THEN undisturbed \cup {s} ELSE undisturbed
       ELSE spc' = [spc EXCEPT ![s] = "closed"] /\ UNCHANGED undisturbed
    /\ UNCHANGED <<tables, engine, heard, view, bounds, history>>

Watch(s) == Open(s) \/ Replay(s) \/ ReadRun(s) \/ Join(s)

(* The server dies, and every coroutine and stream with it (a container    *)
(* may go on; nobody listens).  init() marks what was queued or running.   *)
Restart ==
    /\ restarts < load.restarts /\ restarts' = restarts + 1
    /\ runs' = [r \in Runs |-> IF runs[r].status \in {"queued", "running"}
                               THEN [status |-> "interrupted", error |-> "none"]
                               ELSE runs[r]]
    /\ pc' = [r \in Runs |-> IF pc[r] = "none" THEN "none" ELSE "over"]
    /\ spc' = [s \in Streams |-> IF spc[s] = "idle" THEN "idle" ELSE "closed"]
    /\ mem' = [r \in Runs |-> Blank] /\ box' = [r \in Runs |-> NoBox]
    /\ undisturbed' = {}
    /\ UNCHANGED <<events, heard, view, load, history>>

-----------------------------------------------------------------------------
Next ==
    \/ \E r \in Runs :
           \/ Create(r) \/ Execute(r) \/ \E kind \in Outputs : Emit(r, kind)
           \/ \E code \in {0, 1, 137}, oom \in BOOLEAN : Exit(r, code, oom)
           \/ Linger(r) \/ SeeOom(r) \/ Timeout(r) \/ PumpRaises(r)
    \/ \E s \in Streams : Watch(s)
    \/ Restart

Spec == Init /\ [][Next]_vars

(* A coroutine goes on, streams included; a time limit runs out.  Nothing  *)
(* makes a container end.  A slot goes to one of those who wait (asyncio's *)
(* semaphore is first in, first out), hence strong fairness for Start.     *)
FairSpec ==
    /\ Spec
    /\ \A r \in Runs : WF_vars(Execute(r)) /\ SF_vars(Start(r)) /\ WF_vars(Timeout(r))
    /\ \A s \in Streams : WF_vars(Watch(s))

-----------------------------------------------------------------------------
(* Properties.                                                             *)

(* A run is recorded as succeeded only if its container ended by itself    *)
(* with 0 (it was not killed, at the time limit or after an exception in   *)
(* the pump) and nothing it said and was taken in reported an error: no    *)
(* error result, and no error event that has a message.                    *)
Recorded(r) == pc[r] \in {"close", "alerts"}
SucceededIsClean ==
    \A r \in Runs :
        Recorded(r) /\ runs[r].status = "succeeded" =>
            box[r].state = "dead" /\ box[r].code = 0 /\ trouble[r] = {}

(* The reason an error result gives is the error on record, not the SDK's  *)
(* wrapper that comes before or after it, unless the time ran out or the   *)
(* output could not be taken in.                                           *)
ReasonKept ==
    \A r \in Runs :
        runs[r].status = "failed" /\ "bad result" \in trouble[r]
            => runs[r].error \in {"reason", "timeout", "runner"}

(* A main process that was killed for memory is recorded as such, however  *)
(* late docker tells, unless an error was reported before.                 *)
OomIsNamed ==
    \A r \in Runs :
        Recorded(r) /\ runs[r].error = "exit" => ~(box[r].oom /\ box[r].code = 137)

(* A stream that joins when nothing is under way sends every event, once   *)
(* and in order, unless the time limit cuts an event off.                  *)
InOrder(s) == [i \in 1..events[view[s].run] |-> i]
UndisturbedSeesAll ==
    \A s \in undisturbed :
        spc[s] = "closed" /\ runs[view[s].run].error # "timeout"
            => view[s].sent = InOrder(s)

(* Every run whose container behaves ends and frees its slot.              *)
Ended(r) == runs[r].status \in Final /\ ~HoldsSlot(r)
EveryRunEnds ==
    [](faulty = {}) => \A r \in Runs : (runs[r].status = "queued") ~> Ended(r)
=============================================================================
