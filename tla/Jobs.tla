-------------------------------- MODULE Jobs --------------------------------
(***************************************************************************)
(* ONE routine as its owners handle it: creating it, its definition of     *)
(* done (drafts and the published version), its schedule and its switch    *)
(* (app/main.py, app/db.py), and the scheduler that fires it               *)
(* (app/scheduler.py).  Every request is a coroutine; the awaits in it are *)
(* where others come in between.  What becomes of an outcome once it runs  *)
(* is module OutcomeEngine; here it is in flight or settled.               *)
(***************************************************************************)
EXTENDS Integers, FiniteSets

CONSTANTS
    Clients,        \* requests that may be handled at the same time
    Desks,          \* which kinds of requests come together, see AllOps
    Runs,           \* runs that may ever be created; bounds them
    MaxVersion,     \* bound: versions of the definition of done
    MaxRestarts     \* bound: crashes of the server

Clock   == "clock"                      \* the scheduler's _fire
Creates == {"plain", "create_live", "create_dry", "create_draft"}
AllOps  == Creates \cup {"draft", "publish", "dry_run", "go_live", "schedule",
                         "unschedule", "enable", "disable", "delete", "run_now"}
Versions == 1..MaxVersion

ASSUME JobsAssumption ==
    /\ Clock \notin Clients /\ Desks \subseteq SUBSET AllOps
    /\ MaxVersion \in Nat /\ MaxRestarts \in Nat

VARIABLES
    desk,       \* the kinds of requests of this behaviour, one of Desks
    agent,      \* the row of agents
    job,        \* is there a job of the routine in APScheduler?
    specs,      \* status of each version in job_specs
    runs,       \* where each run is
    occ,        \* the outcome of each run, if it has one
    pc, mem,    \* the requests and _fire, and their local variables
    restarts,
    live,       \* history: the version published last, 0 for none
    raced,      \* history: which kinds of requests have overlapped
    switched,   \* history: somebody switched the routine on
    blind       \* history: runs launched by hand, or past one that waited,
                \*   or past one that came up after the launcher had looked

procs   == <<pc, mem>>
history == <<live, raced, switched, blind>>
vars    == <<desk, agent, job, specs, runs, occ, procs, restarts, history>>

-----------------------------------------------------------------------------
Procs  == Clients \cup {Clock}
Memory == [op : AllOps, version : 0..MaxVersion, run : Runs \cup {"none"}, missed : BOOLEAN]
Blank  == [op |-> "draft", version |-> 0, run |-> "none", missed |-> FALSE]

(* The row, the registry and the requests have their types.                *)
TypeOK ==
    /\ desk \in Desks
    /\ agent \in [state : {"unborn", "there", "gone"}, enabled : BOOLEAN,
                  recurring : BOOLEAN]
    /\ job \in BOOLEAN
    /\ specs \in [Versions -> {"none", "draft", "published", "archived"}]
    /\ runs \in [Runs -> [state : {"none", "queued", "begun"},
                          by : {"none", "clock", "person", "dry_run"}]]
    /\ occ \in [Runs -> {"none", "running", "recovering", "settled"}]
    /\ pc \in [Procs -> {"idle", "pause", "version", "archive", "insert", "check", "publish",
                         "enable", "register", "outcome", "run", "erase", "busy", "launch"}]
    /\ mem \in [Procs -> Memory]
    /\ restarts \in Nat
    /\ live \in 0..MaxVersion /\ raced \subseteq {"spec", "switch", "create"}
    /\ switched \in BOOLEAN /\ blind \subseteq Runs

Init ==
    /\ desk \in Desks
    /\ agent = [state |-> "unborn", enabled |-> FALSE, recurring |-> FALSE]
    /\ job = FALSE
    /\ specs = [v \in Versions |-> "none"]
    /\ runs = [r \in Runs |-> [state |-> "none", by |-> "none"]]
    /\ occ = [r \in Runs |-> "none"]
    /\ pc = [p \in Procs |-> "idle"] /\ mem = [p \in Procs |-> Blank]
    /\ restarts = 0
    /\ live = 0 /\ raced = {} /\ switched = FALSE /\ blind = {}

-----------------------------------------------------------------------------
(* Reads.                                                                  *)

There == agent.state = "there"

(* inflight_outcome: running, verifying (here: running) or recovering.     *)
BusyNow == \E r \in Runs : occ[r] = "running"                   \* a mutant
Busy    == \E r \in Runs : occ[r] \in {"running", "recovering"}

Saved     == {v \in Versions : specs[v] # "none"}
Published == {v \in Versions : specs[v] = "published"}
Newest(S) == CHOOSE v \in S : \A w \in S : w <= v
(* get_latest_spec: the published one if there is one, else the newest.    *)
Latest    == IF Published # {} THEN Newest(Published) ELSE Newest(Saved)

(* What the histories need: a definition, or a switch, being written.      *)
Defining(p)  == pc[p] \in {"version", "archive", "insert", "publish"}
Switching(p) == \/ pc[p] \in {"enable", "register", "erase"}
                \/ pc[p] # "idle" /\ mem[p].op \in Creates
AmongDefining(c)  == IF \E d \in Clients \ {c} : Defining(d) THEN raced \cup {"spec"} ELSE raced
AmongSwitching(c) == IF \E d \in Clients \ {c} : Switching(d) THEN raced \cup {"switch"} ELSE raced

Goto(p, label) == pc' = [pc EXCEPT ![p] = label]
Reply(p) == /\ pc' = [pc EXCEPT ![p] = "idle"] /\ mem' = [mem EXCEPT ![p] = Blank]
Takes(p, op) == /\ pc[p] = "idle" /\ op \in desk

(* create_run and start_run.  A run that waits has no outcome yet, and is  *)
(* not seen by who looks for an outcome in flight; missed (history): one   *)
(* came up between the look and the launch.                                *)
Unused(r)  == runs[r].state = "none" /\ occ[r] = "none"
Waiting(r) == runs[r].state = "queued" /\ occ[r] = "none"
Looked(p)  == \/ p = Clock /\ pc[p] = "launch"
              \/ mem[p].op \in {"dry_run", "create_dry"}
                 /\ pc[p] \in {"pause", "version", "insert", "outcome"}
ComesUp(p) == IF Looked(p) THEN [mem[p] EXCEPT !.missed = TRUE] ELSE mem[p]
Blindly(p) == mem[p].missed \/ \E r \in Runs : Waiting(r)
Launch(p, r, by) ==
    /\ runs[r].state = "none"
    /\ runs' = [runs EXCEPT ![r] = [state |-> "queued", by |-> by]]

-----------------------------------------------------------------------------
(* Creating the routine, with a schedule that is valid or none: the row is *)
(* inserted enabled.                                                       *)
Create(c, op, recurring, next) ==
    /\ Takes(c, op) /\ agent.state = "unborn"
    /\ agent' = [state |-> "there", enabled |-> TRUE, recurring |-> recurring]
    /\ mem' = [mem EXCEPT ![c].op = op]
    /\ Goto(c, next)
    /\ switched' = (op \in {"plain", "create_live"})
    /\ UNCHANGED <<desk, job, specs, runs, occ, restarts, live, raced, blind>>

(* create_from_template and create_agent, which may run it at once.        *)
CreateAgent(c, recurring) == Create(c, "plain", recurring, "register")

(* create_job in its three modes.                                          *)
CreateJob(c, op, recurring) ==
    /\ op \in Creates \ {"plain"}
    /\ Create(c, op, recurring, IF op = "create_live" THEN "version" ELSE "pause")

(* "paused until it goes live".                                            *)
PausedNot == agent                                              \* a mutant
Paused    == [agent EXCEPT !.enabled = FALSE]
Pause(c) ==
    /\ pc[c] = "pause" /\ There
    /\ agent' = Paused
    /\ Goto(c, "version")
    /\ raced' = AmongSwitching(c)
    /\ UNCHANGED <<desk, job, specs, runs, occ, mem, restarts, live, switched, blind>>

-----------------------------------------------------------------------------
(* create_job_spec, within put_job_spec, dry_run_job_spec and create_job.  *)

Publishes(p) == mem[p].op \in {"publish", "create_live"}
Drafts       == {"draft", "publish"}

PutSpec(c, op) ==
    /\ Takes(c, op) /\ op \in Drafts /\ There
    /\ mem' = [mem EXCEPT ![c].op = op] /\ Goto(c, "version")
    /\ raced' = AmongDefining(c)
    /\ UNCHANGED <<desk, agent, job, specs, runs, occ, restarts, live, switched, blind>>

Version(c) ==
    /\ pc[c] = "version" /\ Saved # Versions
    /\ mem' = [mem EXCEPT ![c].version = IF Saved = {} THEN 1 ELSE Newest(Saved) + 1]
    /\ Goto(c, IF Publishes(c) THEN "archive" ELSE "insert")
    /\ raced' = AmongDefining(c)
    /\ UNCHANGED <<desk, agent, job, specs, runs, occ, restarts, live, switched, blind>>

(* Shared with publish_spec, which goes on at Publish.                     *)
ArchivedNot == specs                                            \* a mutant
Archived    == [v \in Versions |-> IF specs[v] = "published" THEN "archived" ELSE specs[v]]
Archive(c) ==
    /\ pc[c] = "archive"
    /\ specs' = Archived
    /\ Goto(c, IF mem[c].op = "go_live" THEN "publish" ELSE "insert")
    /\ raced' = AmongDefining(c)
    /\ UNCHANGED <<desk, agent, job, runs, occ, mem, restarts, live, switched, blind>>

(* UNIQUE(agent_id, version): an insert that comes second is an error, and *)
(* what it archived stays archived (the next commit of anybody saves it).  *)
Insert(c) ==
    /\ pc[c] = "insert"
    /\ LET v == mem[c].version
       IN  IF ~There \/ specs[v] # "none"
           THEN /\ Reply(c)
                /\ raced' = AmongDefining(c) \cup (IF mem[c].op \in Creates THEN {"create"} ELSE {})
                /\ UNCHANGED <<specs, live>>
           ELSE /\ raced' = AmongDefining(c)
                /\ specs' = [specs EXCEPT ![v] = IF Publishes(c) THEN "published" ELSE "draft"]
                /\ live' = IF Publishes(c) THEN v ELSE live
                /\ IF mem[c].op \in Drafts \cup {"create_draft"} THEN Reply(c)
                   ELSE /\ Goto(c, IF mem[c].op = "create_live" THEN "register" ELSE "outcome")
                        /\ UNCHANGED mem
    /\ UNCHANGED <<desk, agent, job, runs, occ, restarts, switched, blind>>

-----------------------------------------------------------------------------
(* dry_run_job_spec: refused while an outcome is in flight.  _start_dry_run *)
(* then creates the outcome, the run, links them and starts it.            *)
DryRun(c) ==
    /\ Takes(c, "dry_run") /\ There /\ ~Busy
    /\ mem' = [mem EXCEPT ![c].op = "dry_run"] /\ Goto(c, "version")
    /\ raced' = AmongDefining(c)
    /\ UNCHANGED <<desk, agent, job, specs, runs, occ, restarts, live, switched, blind>>

DryOutcome(c, r) ==
    /\ pc[c] = "outcome" /\ There
    /\ Unused(r)
    /\ occ' = [occ EXCEPT ![r] = "running"]
    /\ blind' = IF Blindly(c) THEN blind \cup {r} ELSE blind
    /\ mem' = [p \in Procs |-> IF p = c THEN [mem[c] EXCEPT !.run = r] ELSE ComesUp(p)]
    /\ Goto(c, "run")
    /\ UNCHANGED <<desk, agent, job, specs, runs, restarts, live, raced, switched>>

DryStart(c) ==
    /\ pc[c] = "run" /\ There
    /\ Launch(c, mem[c].run, "dry_run") /\ Reply(c)
    /\ UNCHANGED <<desk, agent, job, specs, occ, restarts, history>>

-----------------------------------------------------------------------------
(* job_go_live: it takes the latest definition, looks for an outcome in    *)
(* flight, publishes what is not published, switches the routine on, and   *)
(* schedules it or runs it now.                                            *)
GoLive(c) ==
    /\ Takes(c, "go_live") /\ There /\ Saved # {}
    /\ mem' = [mem EXCEPT ![c].op = "go_live", ![c].version = Latest] /\ Goto(c, "check")
    /\ UNCHANGED <<desk, agent, job, specs, runs, occ, restarts, history>>

GoLiveCheck(c) ==
    /\ pc[c] = "check"
    /\ IF Busy \/ ~There THEN Reply(c) /\ UNCHANGED raced
       ELSE /\ Goto(c, IF specs[mem[c].version] = "published" THEN "enable" ELSE "archive")
            /\ raced' = AmongDefining(c)
            /\ UNCHANGED mem
    /\ UNCHANGED <<desk, agent, job, specs, runs, occ, restarts, live, switched, blind>>

Publish(c) ==
    /\ pc[c] = "publish"
    /\ IF There THEN /\ specs' = [specs EXCEPT ![mem[c].version] = "published"]
                     /\ live' = mem[c].version
       ELSE UNCHANGED <<specs, live>>
    /\ Goto(c, "enable")
    /\ raced' = AmongDefining(c)
    /\ UNCHANGED <<desk, agent, job, runs, occ, mem, restarts, switched, blind>>

-----------------------------------------------------------------------------
(* enable_agent, set_schedule and the end of job_go_live: the row is       *)
(* written, then read again for the scheduler.                             *)

Switch(c, op) ==
    /\ Takes(c, op) /\ op \in {"enable", "disable", "schedule", "unschedule"} /\ There
    /\ agent' = CASE op = "enable"   -> [agent EXCEPT !.enabled = TRUE]
                  [] op = "disable"  -> [agent EXCEPT !.enabled = FALSE]
                  [] OTHER           -> [agent EXCEPT !.recurring = (op = "schedule")]
    /\ mem' = [mem EXCEPT ![c].op = op] /\ Goto(c, "register")
    /\ raced' = AmongSwitching(c)
    /\ switched' = (switched \/ op = "enable")
    /\ UNCHANGED <<desk, job, specs, runs, occ, restarts, live, blind>>

GoLiveEnable(c) ==
    /\ pc[c] = "enable"
    /\ agent' = IF There THEN [agent EXCEPT !.enabled = TRUE] ELSE agent
    /\ Goto(c, "register")
    /\ raced' = AmongSwitching(c)
    /\ switched' = TRUE
    /\ UNCHANGED <<desk, job, specs, runs, occ, mem, restarts, live, blind>>

(* scheduler.add_agent after the row is read, or remove_agent.             *)
JobLeft(op) == IF op = "disable" THEN FALSE                     \* a mutant
               ELSE job \/ (agent.recurring /\ (op \in {"schedule", "unschedule"} => agent.enabled))
JobAfter(op) ==
    CASE op = "disable" -> FALSE
      [] op \in {"schedule", "unschedule"} -> agent.recurring /\ agent.enabled
      [] OTHER -> job \/ agent.recurring

(* A one-off job that is created live, or goes live, is run now.           *)
RunsNow(op) == op \in {"create_live", "go_live"} /\ ~agent.recurring

Register(c) ==
    /\ pc[c] = "register"
    /\ IF ~There THEN Reply(c) /\ UNCHANGED <<job, raced>>
       ELSE /\ job' = JobAfter(mem[c].op)
            /\ raced' = AmongSwitching(c)
            /\ \/ /\ RunsNow(mem[c].op) \/ mem[c].op = "plain"
                  /\ Goto(c, "launch") /\ UNCHANGED mem
               \/ ~RunsNow(mem[c].op) /\ Reply(c)
    /\ UNCHANGED <<desk, agent, specs, runs, occ, restarts, live, switched, blind>>

(* delete_agent: the job goes first; the rows cascade.                     *)
Delete(c) ==
    /\ Takes(c, "delete") /\ There
    /\ job' = FALSE
    /\ mem' = [mem EXCEPT ![c].op = "delete"] /\ Goto(c, "erase")
    /\ raced' = AmongSwitching(c)
    /\ UNCHANGED <<desk, agent, specs, runs, occ, restarts, live, switched, blind>>

Erase(c) ==
    /\ pc[c] = "erase"
    /\ agent' = [state |-> "gone", enabled |-> FALSE, recurring |-> FALSE]
    /\ specs' = [v \in Versions |-> "none"]
    /\ runs' = [r \in Runs |-> [state |-> "none", by |-> "none"]]
    /\ occ' = [r \in Runs |-> "none"]
    /\ live' = 0 /\ blind' = {}
    /\ raced' = AmongSwitching(c)
    /\ Reply(c)
    /\ UNCHANGED <<desk, job, restarts, switched>>

-----------------------------------------------------------------------------
(* run_agent_now, the programmatic API, and the run of a one-off job: no   *)
(* look at what is in flight.                                              *)
RunNow(c) ==
    /\ Takes(c, "run_now") /\ There
    /\ mem' = [mem EXCEPT ![c].op = "run_now"] /\ Goto(c, "launch")
    /\ UNCHANGED <<desk, agent, job, specs, runs, occ, restarts, history>>

LaunchNow(c, r) ==
    /\ pc[c] = "launch" /\ c # Clock
    /\ IF There THEN Unused(r) /\ Launch(c, r, "person") /\ blind' = blind \cup {r}
       ELSE UNCHANGED <<runs, blind>>
    /\ Reply(c)
    /\ UNCHANGED <<desk, agent, job, specs, occ, restarts, live, raced, switched>>

(* _fire: it reads the agent, then the outcome in flight, then launches.   *)
Fire ==
    /\ pc[Clock] = "idle" /\ job
    /\ There /\ agent.enabled
    /\ Goto(Clock, "busy")
    /\ UNCHANGED <<desk, agent, job, specs, runs, occ, mem, restarts, history>>

FireLooks ==
    /\ pc[Clock] = "busy"
    /\ Goto(Clock, IF Busy THEN "idle" ELSE "launch")
    /\ UNCHANGED <<desk, agent, job, specs, runs, occ, mem, restarts, history>>

FireLaunches(r) ==
    /\ pc[Clock] = "launch"
    /\ IF There THEN /\ Unused(r) /\ Launch(Clock, r, "clock")
                     /\ blind' = IF Blindly(Clock) THEN blind \cup {r} ELSE blind
       ELSE UNCHANGED <<runs, blind>>
    /\ Reply(Clock)
    /\ UNCHANGED <<desk, agent, job, specs, occ, restarts, live, raced, switched>>

-----------------------------------------------------------------------------
(* begin_attempt, when the run gets its slot: a run that is not attached   *)
(* opens an outcome under the published definition, if there is one.       *)
BeginRun(r) ==
    /\ runs[r].state = "queued"
    /\ runs' = [runs EXCEPT ![r].state = "begun"]
    /\ IF occ[r] = "none" /\ Published # {}
       THEN occ' = [occ EXCEPT ![r] = "running"] /\ mem' = [p \in Procs |-> ComesUp(p)]
       ELSE UNCHANGED <<occ, mem>>
    /\ UNCHANGED <<desk, agent, job, specs, pc, restarts, history>>

(* The engine works on it (after a crash, on one without a run too).       *)
Progress(r, to) ==
    /\ runs[r].state = "begun" \/ restarts > 0
    /\ \/ occ[r] = "running" /\ (to = "settled" \/ (to = "recovering" /\ runs[r].by # "dry_run"))
       \/ occ[r] = "recovering" /\ to \in {"running", "settled"}
    /\ occ' = [occ EXCEPT ![r] = to]
    /\ UNCHANGED <<desk, agent, job, specs, runs, procs, restarts, history>>

(* The server dies; at boot runs are interrupted and scheduler.start adds  *)
(* the routines that are enabled.                                          *)
Restart ==
    /\ restarts < MaxRestarts /\ restarts' = restarts + 1
    /\ job' = (There /\ agent.enabled /\ agent.recurring)
    /\ runs' = [r \in Runs |-> IF runs[r].state = "queued" THEN [runs[r] EXCEPT !.state = "begun"]
                               ELSE runs[r]]
    /\ pc' = [p \in Procs |-> "idle"] /\ mem' = [p \in Procs |-> Blank]
    /\ raced' = raced \cup (IF \E c \in Clients : pc[c] = "pause" THEN {"create"} ELSE {})
                      \cup (IF \E c \in Clients : Defining(c) THEN {"spec"} ELSE {})
    /\ UNCHANGED <<desk, agent, specs, occ, live, switched, blind>>

-----------------------------------------------------------------------------
Handles(c) ==
    \/ Pause(c) \/ Version(c) \/ Archive(c) \/ Insert(c)
    \/ DryStart(c) \/ GoLiveCheck(c) \/ Publish(c) \/ GoLiveEnable(c)
    \/ Register(c) \/ Erase(c)
    \/ \E r \in Runs : DryOutcome(c, r) \/ LaunchNow(c, r)

Asks(c) ==
    \/ \E recurring \in BOOLEAN : CreateAgent(c, recurring)
                                   \/ \E op \in Creates : CreateJob(c, op, recurring)
    \/ \E op \in Drafts : PutSpec(c, op)
    \/ \E op \in {"enable", "disable", "schedule", "unschedule"} : Switch(c, op)
    \/ DryRun(c) \/ GoLive(c) \/ Delete(c) \/ RunNow(c)

Next ==
    \/ \E c \in Clients : Asks(c) \/ Handles(c)
    \/ Fire \/ FireLooks \/ \E r \in Runs : FireLaunches(r)
    \/ \E r \in Runs : BeginRun(r)
    \/ \E r \in Runs, to \in {"running", "recovering", "settled"} : Progress(r, to)
    \/ Restart

Spec == Init /\ [][Next]_vars

-----------------------------------------------------------------------------
(* Properties.                                                             *)

(* "At most one live definition of done" (create_job_spec), and it is the  *)
(* one that was published last, unless two requests that write a           *)
(* definition overlapped, or a crash cut one.                              *)
LiveIsLast ==
    \/ "spec" \in raced \/ \E c \in Clients : Defining(c)
    \/ Published = IF live = 0 THEN {} ELSE {live}

(* When no request is being handled the scheduler has a job exactly for a  *)
(* routine that is enabled and recurring, whatever order they came in and  *)
(* whenever the server was restarted, unless two switches overlapped or    *)
(* its creation was cut short.                                             *)
ScheduleMatches ==
    \/ raced \cap {"switch", "create"} # {} \/ \E c \in Clients : pc[c] # "idle"
    \/ job = (There /\ agent.enabled /\ agent.recurring)

(* "Never start a new occurrence while the previous one is still being     *)
(* worked on" (_fire): two outcomes are in flight together only if one was *)
(* launched by hand, or while another waited for its slot, or came up      *)
(* between the launcher's look and its launch.                             *)
InFlight(r) == occ[r] \in {"running", "recovering"}
OneOccurrence ==
    \A r, s \in Runs : InFlight(r) /\ InFlight(s) /\ r # s => blind \cap {r, s} # {}

(* A job that is created for a dry run or as a draft is not run by the     *)
(* clock before somebody switches it on, unless a crash cut its creation   *)
(* or another request overlapped it.                                       *)
PausedUntilSwitchedOn ==
    \A r \in Runs : runs[r].by = "clock" => switched \/ raced \cap {"create", "switch"} # {}
=============================================================================
