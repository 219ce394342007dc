----------------------------- MODULE Jobs_proofs -----------------------------
(***************************************************************************)
(* The definition of done, the schedule and the occurrences of a routine,  *)
(* for any number of owners, versions, runs and crashes.                   *)
(***************************************************************************)
EXTENDS Jobs, FiniteSetTheorems, TLAPS

-----------------------------------------------------------------------------
(* What is true between any two steps.                                     *)

(* A coroutine is where its kind of request can be, and starts blank.      *)
Defines == Drafts \cup {"create_live", "create_dry", "create_draft", "dry_run"}
Enables == {"plain", "create_live", "go_live", "enable"}
At(label, op) ==
    /\ label # "busy"
    /\ label = "pause" => op \in {"create_dry", "create_draft"}
    /\ label \in {"version", "insert"} => op \in Defines
    /\ label = "archive" => op \in {"publish", "create_live", "go_live"}
    /\ label \in {"check", "publish", "enable"} => op = "go_live"
    /\ label = "register" => op \in Enables \cup {"disable", "schedule", "unschedule"}
    /\ label = "launch" => op \in {"plain", "create_live", "go_live", "run_now"}
    /\ label \in {"outcome", "run"} => op \in {"create_dry", "dry_run"}
    /\ label = "erase" => op = "delete"
Placed ==
    /\ pc[Clock] \in {"idle", "busy", "launch"} /\ mem[Clock].op = "draft"
    /\ pc[Clock] # "launch" => mem[Clock] = Blank
    /\ \A c \in Clients : /\ At(pc[c], mem[c].op)
                          /\ pc[c] = "idle" => mem[c] = Blank

(* Before it is created and after it is deleted a routine has nothing.     *)
Unborn == agent.state = "unborn" =>
    /\ \A p \in Procs : pc[p] = "idle"
    /\ ~job /\ ~switched
    /\ \A r \in Runs : runs[r].state = "none" /\ runs[r].by = "none" /\ occ[r] = "none"
Absent == ~There => Saved = {} /\ live = 0 /\ ~agent.enabled /\ ~agent.recurring

(* Versions are numbered without gaps: a request that inserts one has the  *)
(* number of a version that exists or is next, and go-live one that exists.*)
Gapless == \E k \in 0..MaxVersion : Saved = 1..k
Numbered(c) ==
    /\ pc[c] \in {"archive", "insert"} /\ mem[c].op # "go_live" =>
         /\ mem[c].version \in Versions
         /\ There => 1..(mem[c].version - 1) \subseteq Saved
    /\ mem[c].op = "go_live" /\ pc[c] \in {"check", "archive", "publish"} /\ There =>
         mem[c].version \in Saved
Versioned == Gapless /\ \A c \in Clients : Numbered(c)

(* While definitions are written one after the other, the published one is *)
(* the one published last, but for the request that is about to replace it.*)
LiveSet == IF live = 0 THEN {} ELSE {live}
Writing(c) == pc[c] \in {"archive", "insert", "publish"}
Writes(c) ==
    /\ pc[c] \in {"archive", "insert"} /\ mem[c].op # "go_live" =>
         specs[mem[c].version] = "none"
    /\ Published = IF pc[c] = "publish" \/ (pc[c] = "insert" /\ Publishes(c))
                   THEN {} ELSE LiveSet
SpecSound == "spec" \notin raced =>
    /\ \A c, d \in Clients : Writing(c) /\ Writing(d) => c = d
    /\ \A c \in Clients : Writing(c) => Writes(c)
    /\ (\A c \in Clients : ~Writing(c)) => Published = LiveSet

(* While switches follow one another, the scheduler agrees with the row,   *)
(* but for the request that is about to see to it.                         *)
Due   == There /\ agent.enabled /\ agent.recurring
Apart == raced \cap {"switch", "create"} = {}
Holds(c) == Switching(c) /\ pc[c] # "enable"
Keeps(c) ==
    /\ pc[c] = "erase" => ~job
    /\ mem[c].op \in Creates => There
    /\ pc[c] = "pause" => ~job
    /\ mem[c].op \in Creates /\ pc[c] \in {"version", "archive", "insert", "outcome", "run"} =>
         ~job /\ (agent.enabled <=> mem[c].op = "create_live")
    /\ pc[c] = "register" =>
         /\ There \/ ~job
         /\ mem[c].op \in Enables /\ There => agent.enabled /\ (job => agent.recurring)
         /\ mem[c].op = "disable" => ~agent.enabled
    /\ pc[c] = "launch" => job = Due
SwitchSound == Apart =>
    /\ \A c, d \in Clients : Holds(c) /\ Holds(d) => c = d
    /\ \A c \in Clients : Holds(c) => Keeps(c)
    /\ (\A c \in Clients : ~Holds(c)) => job = Due

(* Until somebody switches it on, a routine is enabled only while the      *)
(* request that creates it is about to pause it, and has no job then.      *)
Enabling(c) == \/ mem[c].op \in {"plain", "create_live"}
               \/ pc[c] = "register" /\ mem[c].op \in {"enable", "go_live"}
PauseSound ==
    /\ \A c \in Clients : Enabling(c) => switched
    /\ Apart /\ ~switched =>
         /\ pc[Clock] = "idle" /\ \A r \in Runs : runs[r].by # "clock"
         /\ agent.enabled => ~job /\ \E c \in Clients : pc[c] = "pause"

(* Who has looked and missed nothing sees nothing in flight; what waits or *)
(* is in flight is alone, or launched blindly; and what a dry run starts   *)
(* has its outcome.                                                        *)
Alive(r) == Waiting(r) \/ InFlight(r)
LookSound(p) == Looked(p) /\ ~mem[p].missed => \A r \in Runs : ~InFlight(r)
OccSound ==
    /\ \A p \in Procs : LookSound(p)
    /\ \A r, s \in Runs : Alive(r) /\ Alive(s) /\ r # s => blind \cap {r, s} # {}
    /\ \A c \in Clients : pc[c] = "run" /\ There => mem[c].run \in Runs /\ occ[mem[c].run] # "none"

Sound == /\ Placed /\ Unborn /\ Absent /\ Versioned
         /\ SpecSound /\ SwitchSound /\ PauseSound /\ OccSound
IInv == TypeOK /\ Sound

-----------------------------------------------------------------------------
(* The newest of a set of versions.                                        *)

LEMMA NewestIn ==
  ASSUME NEW n \in Nat, NEW S \in SUBSET (1..n), S # {}
  PROVE  Newest(S) \in S /\ \A w \in S : w <= Newest(S)
  <1>1. \E v \in S : \A w \in S : w <= v
    <2> SUFFICES ASSUME \A v \in S : \E w \in S : w > v PROVE FALSE
      OBVIOUS
    <2> DEFINE D == {i \in 1..n : \E s \in S : i <= s}
               f == [i \in D |-> i + 1]
    <2>1. IsFiniteSet(D) /\ Cardinality(D) \in Nat
      <3>1. IsFiniteSet(1..n)
        BY FS_Interval
      <3> QED
        BY <3>1, FS_Subset, FS_CardinalityType
    <2>2. 1 \in D
      <3>1. PICK s \in S : TRUE
        OBVIOUS
      <3> QED
        BY <3>1
    <2>3. f \in Injection(D, D \ {1})
      <3>1. ASSUME NEW i \in D PROVE i + 1 \in D \ {1}
        <4>1. PICK s \in S : i <= s
          OBVIOUS
        <4>2. PICK w \in S : w > s
          BY <4>1
        <4> QED
          BY <4>1, <4>2
      <3>2. f \in [D -> D \ {1}]
        BY <3>1
      <3>3. \A i, j \in D : f[i] = f[j] => i = j
        OBVIOUS
      <3> QED
        BY <3>2, <3>3 DEF Injection, IsInjective
    <2>4. IsFiniteSet(D \ {1}) /\ Cardinality(D \ {1}) = Cardinality(D) - 1
      BY <2>1, <2>2, FS_RemoveElement
    <2> QED
      BY <2>1, <2>3, <2>4, FS_Injection
  <1> QED
    BY <1>1 DEF Newest

LEMMA NewestOfAll == ASSUME NEW k \in Nat, k # 0 PROVE Newest(1..k) = k
  <1>1. Newest(1..k) \in 1..k /\ \A w \in 1..k : w <= Newest(1..k)
    <2>1. 1..k \in SUBSET (1..k) /\ k \in 1..k
      OBVIOUS
    <2> QED
      BY <2>1, NewestIn
  <1> QED
    BY <1>1

(* The next version is one that does not exist, and follows all that do.   *)
LEMMA NextVersion ==
  ASSUME TypeOK, Gapless, Saved # Versions
  PROVE  LET v == IF Saved = {} THEN 1 ELSE Newest(Saved) + 1
         IN  v \in Versions /\ Saved = 1..(v - 1) /\ specs[v] = "none"
  <1>1. PICK k \in 0..MaxVersion : Saved = 1..k
    BY DEF Gapless
  <1>2. MaxVersion \in Nat /\ k # MaxVersion
    BY <1>1, JobsAssumption DEF Versions
  <1>3. (IF Saved = {} THEN 1 ELSE Newest(Saved) + 1) = k + 1
    BY <1>1, <1>2, NewestOfAll
  <1>4. k + 1 \in Versions /\ k + 1 \notin Saved
    BY <1>1, <1>2 DEF Versions
  <1>5. specs[k + 1] = "none" /\ Saved = 1..(k + 1 - 1)
    BY <1>1, <1>4 DEF Saved
  <1> QED
    BY <1>3, <1>4, <1>5

(* get_latest_spec finds one that exists.                                  *)
LEMMA LatestSaved == ASSUME TypeOK, Saved # {} PROVE Latest \in Saved
  <1>1. MaxVersion \in Nat /\ Published \subseteq Saved
    BY JobsAssumption DEF Published, Saved
  <1>2. Saved \in SUBSET (1..MaxVersion)
    BY DEF Saved, Versions
  <1>3. ASSUME NEW S \in SUBSET Saved, S # {} PROVE Newest(S) \in Saved
    BY <1>1, <1>2, <1>3, NewestIn
  <1> QED
    BY <1>1, <1>3 DEF Latest

-----------------------------------------------------------------------------
(* Types.                                                                  *)

LEMMA ClockApart == Clock \in Procs /\ Clients \subseteq Procs /\ Clock \notin Clients
  BY JobsAssumption DEF Procs

LEMMA BlankTypes == Blank \in Memory
  BY JobsAssumption DEF Blank, Memory, AllOps

LEMMA MissedTypes == ASSUME TypeOK PROVE \A p \in Procs : ComesUp(p) \in Memory
  <1> SUFFICES ASSUME NEW p \in Procs PROVE ComesUp(p) \in Memory
    OBVIOUS
  <1>1. mem[p] \in Memory
    BY DEF TypeOK
  <1>2. [mem[p] EXCEPT !.missed = TRUE] \in Memory
    BY <1>1 DEF Memory
  <1> QED
    BY <1>1, <1>2 DEF ComesUp

LEMMA InitTypes == Init => TypeOK
  <1> SUFFICES ASSUME Init PROVE TypeOK
    OBVIOUS
  <1>1. /\ runs \in [Runs -> [state : {"none", "queued", "begun"},
                               by : {"none", "clock", "person", "dry_run"}]]
        /\ agent \in [state : {"unborn", "there", "gone"}, enabled : BOOLEAN, recurring : BOOLEAN]
    BY DEF Init
  <1>2. mem \in [Procs -> Memory] /\ desk \in Desks
    BY BlankTypes DEF Init
  <1>3. /\ specs \in [Versions -> {"none", "draft", "published", "archived"}]
        /\ occ \in [Runs -> {"none", "running", "recovering", "settled"}]
        /\ pc \in [Procs -> {"idle", "pause", "version", "archive", "insert", "check", "publish",
                            "enable", "register", "outcome", "run", "erase", "busy", "launch"}]
    BY DEF Init
  <1>4. /\ job \in BOOLEAN /\ restarts \in Nat /\ live \in 0..MaxVersion /\ switched \in BOOLEAN
        /\ raced \subseteq {"spec", "switch", "create"} /\ blind \subseteq Runs
    <2>1. MaxVersion \in Nat
      BY JobsAssumption
    <2>2. live \in 0..MaxVersion
      BY <2>1 DEF Init
    <2> QED
      BY <2>2 DEF Init
  <1> QED
    BY <1>1, <1>2, <1>3, <1>4 DEF TypeOK

LEMMA StepTypes == ASSUME TypeOK, Gapless, [Next]_vars PROVE TypeOK'
  <1> USE JobsAssumption, ClockApart, BlankTypes
  <1> DEFINE RunRow == [state : {"none", "queued", "begun"},
                        by : {"none", "clock", "person", "dry_run"}]
  <1>a. \A c \in Clients : AmongDefining(c) \subseteq {"spec", "switch", "create"}
                           /\ AmongSwitching(c) \subseteq {"spec", "switch", "create"}
    BY DEF TypeOK, AmongDefining, AmongSwitching
  <1>b. \A p \in Procs : Reply(p) => pc' \in [Procs -> {"idle", "pause", "version", "archive", "insert",
            "check", "publish", "enable", "register", "outcome", "run", "erase", "busy", "launch"}]
            /\ mem' \in [Procs -> Memory]
    BY DEF TypeOK, Reply
  <1>c. \A p \in Procs, op \in AllOps : [mem EXCEPT ![p].op = op] \in [Procs -> Memory]
    BY DEF TypeOK, Memory
  <1>d. \A c \in Clients, op \in AllOps, recurring \in BOOLEAN,
           next \in {"register", "version", "pause"} : Create(c, op, recurring, next) => TypeOK'
    BY <1>c DEF Create, Takes, Goto, TypeOK
  <1>1. ASSUME NEW c \in Clients, NEW recurring \in BOOLEAN, CreateAgent(c, recurring) PROVE TypeOK'
    BY <1>1, <1>d DEF CreateAgent, AllOps, Creates
  <1>2. ASSUME NEW c \in Clients, NEW recurring \in BOOLEAN, NEW op \in Creates,
               CreateJob(c, op, recurring) PROVE TypeOK'
    BY <1>2, <1>d DEF CreateJob, AllOps
  <1>3. ASSUME NEW c \in Clients, Pause(c) PROVE TypeOK'
    BY <1>3, <1>a DEF Pause, Paused, Goto, TypeOK
  <1>4. ASSUME NEW c \in Clients, NEW op \in Drafts, PutSpec(c, op) PROVE TypeOK'
    BY <1>4, <1>a, <1>c DEF PutSpec, Takes, Goto, Drafts, AllOps, TypeOK
  <1>5. ASSUME NEW c \in Clients, Version(c) PROVE TypeOK'
    <2>1. (IF Saved = {} THEN 1 ELSE Newest(Saved) + 1) \in 0..MaxVersion
      BY <1>5, NextVersion DEF Version, Versions
    <2>2. \A v \in 0..MaxVersion : [mem EXCEPT ![c].version = v] \in [Procs -> Memory]
      BY DEF TypeOK, Memory
    <2>3. mem' \in [Procs -> Memory]
      BY <1>5, <2>1, <2>2 DEF Version
    <2> QED
      BY <1>5, <1>a, <2>3 DEF Version, Goto, TypeOK
  <1>6. ASSUME NEW c \in Clients, Archive(c) PROVE TypeOK'
    BY <1>6, <1>a DEF Archive, Archived, Goto, TypeOK
  <1>7. ASSUME NEW c \in Clients, Insert(c) PROVE TypeOK'
    <2>1. mem[c].version \in 0..MaxVersion
      BY DEF TypeOK, Memory
    <2> QED
      BY <1>7, <1>a, <1>b, <2>1 DEF Insert, Goto, TypeOK
  <1>8. ASSUME NEW c \in Clients, DryRun(c) PROVE TypeOK'
    BY <1>8, <1>a, <1>c DEF DryRun, Takes, Goto, AllOps, TypeOK
  <1>9. ASSUME NEW c \in Clients, NEW r \in Runs, DryOutcome(c, r) PROVE TypeOK'
    <2>1. [mem[c] EXCEPT !.run = r] \in Memory
      BY DEF TypeOK, Memory
    <2> QED
      BY <1>9, <2>1, MissedTypes DEF DryOutcome, Goto, TypeOK
  <1>10. ASSUME NEW c \in Clients, DryStart(c) PROVE TypeOK'
    BY <1>10, <1>b DEF DryStart, Launch, TypeOK, history
  <1>11. ASSUME NEW c \in Clients, GoLive(c) PROVE TypeOK'
    <2>1. Latest \in 0..MaxVersion
      BY <1>11, LatestSaved DEF GoLive, Saved, Versions
    <2>2. \A v \in 0..MaxVersion : [mem EXCEPT ![c].op = "go_live", ![c].version = v] \in [Procs -> Memory]
      BY DEF TypeOK, Memory, AllOps
    <2>3. mem' \in [Procs -> Memory]
      BY <1>11, <2>1, <2>2 DEF GoLive
    <2> QED
      BY <1>11, <2>3 DEF GoLive, Goto, TypeOK, history
  <1>12. ASSUME NEW c \in Clients, GoLiveCheck(c) PROVE TypeOK'
    <2>1. CASE Busy \/ ~There
      BY <1>12, <2>1, <1>b DEF GoLiveCheck, TypeOK
    <2>2. CASE ~(Busy \/ ~There)
      <3>1. (IF specs[mem[c].version] = "published" THEN "enable" ELSE "archive") \in {"enable", "archive"}
        OBVIOUS
      <3> QED
        BY <1>12, <1>a, <2>2, <3>1 DEF GoLiveCheck, Goto, TypeOK
    <2> QED
      BY <2>1, <2>2
  <1>13. ASSUME NEW c \in Clients, Publish(c) PROVE TypeOK'
    <2>1. mem[c].version \in 0..MaxVersion
      BY DEF TypeOK, Memory
    <2> QED
      BY <1>13, <1>a, <2>1 DEF Publish, Goto, TypeOK
  <1>14. ASSUME NEW c \in Clients, NEW op \in {"enable", "disable", "schedule", "unschedule"}, Switch(c, op)
         PROVE TypeOK'
    <2>1. agent' \in [state : {"unborn", "there", "gone"}, enabled : BOOLEAN, recurring : BOOLEAN]
      BY <1>14 DEF Switch, TypeOK
    <2> QED
      BY <1>14, <1>a, <1>c, <2>1 DEF Switch, Takes, Goto, AllOps, TypeOK
  <1>15. ASSUME NEW c \in Clients, GoLiveEnable(c) PROVE TypeOK'
    BY <1>15, <1>a DEF GoLiveEnable, Goto, TypeOK
  <1>16. ASSUME NEW c \in Clients, Register(c) PROVE TypeOK'
    <2>1. job' \in BOOLEAN
      BY <1>16 DEF Register, JobAfter, TypeOK
    <2> QED
      BY <1>16, <1>a, <1>b, <2>1 DEF Register, Goto, TypeOK
  <1>17. ASSUME NEW c \in Clients, Delete(c) PROVE TypeOK'
    BY <1>17, <1>a, <1>c DEF Delete, Takes, Goto, AllOps, TypeOK
  <1>18. ASSUME NEW c \in Clients, Erase(c) PROVE TypeOK'
    BY <1>18, <1>a, <1>b DEF Erase, TypeOK
  <1>19. ASSUME NEW c \in Clients, RunNow(c) PROVE TypeOK'
    BY <1>19, <1>c DEF RunNow, Takes, Goto, AllOps, TypeOK, history
  <1>20. ASSUME NEW c \in Clients, NEW r \in Runs, LaunchNow(c, r) PROVE TypeOK'
    BY <1>20, <1>b DEF LaunchNow, Launch, TypeOK
  <1>21. CASE Fire \/ FireLooks
    BY <1>21 DEF Fire, FireLooks, Goto, TypeOK, history
  <1>22. ASSUME NEW r \in Runs, FireLaunches(r) PROVE TypeOK'
    BY <1>22, <1>b DEF FireLaunches, Launch, TypeOK
  <1>23. ASSUME NEW r \in Runs, BeginRun(r) PROVE TypeOK'
    <2>1. mem' \in [Procs -> Memory] /\ occ' \in [Runs -> {"none", "running", "recovering", "settled"}]
      BY <1>23, MissedTypes DEF BeginRun, TypeOK
    <2>2. runs' \in [Runs -> RunRow]
      BY <1>23 DEF BeginRun, TypeOK
    <2> QED
      BY <1>23, <2>1, <2>2 DEF BeginRun, TypeOK, history
  <1>24. ASSUME NEW r \in Runs, NEW to \in {"running", "recovering", "settled"}, Progress(r, to) PROVE TypeOK'
    BY <1>24 DEF Progress, TypeOK, procs, history
  <1>25. CASE Restart
    BY <1>25 DEF Restart, TypeOK
  <1>26. CASE UNCHANGED vars
    BY <1>26 DEF vars, procs, history, TypeOK
  <1> QED
    BY <1>1, <1>2, <1>3, <1>4, <1>5, <1>6, <1>7, <1>8, <1>9, <1>10, <1>11, <1>12, <1>13, <1>14, <1>15, <1>16,
       <1>17, <1>18, <1>19, <1>20, <1>21, <1>22, <1>23, <1>24, <1>25, <1>26 DEF Next, Asks, Handles

-----------------------------------------------------------------------------
(* Frames: one coroutine moves, the clients but for it stay where they are.*)

Others(p) == \A d \in Clients \ {p} : /\ pc'[d] = pc[d] /\ mem'[d].op = mem[d].op
                                      /\ mem'[d].version = mem[d].version /\ mem'[d].run = mem[d].run
Alone(p)  == \A q \in Procs \ {p} : pc'[q] = pc[q] /\ mem'[q] = mem[q]

LEMMA AloneOthers == ASSUME NEW p, Alone(p) PROVE Others(p)
  BY ClockApart DEF Alone, Others

LEMMA Goes == ASSUME TypeOK, NEW p \in Procs, NEW label, Goto(p, label)
              PROVE  pc'[p] = label /\ \A q \in Procs \ {p} : pc'[q] = pc[q]
  BY DEF TypeOK, Goto

LEMMA Replies == ASSUME TypeOK, NEW p \in Procs, Reply(p)
                 PROVE  pc'[p] = "idle" /\ mem'[p] = Blank /\ Alone(p)
  BY DEF TypeOK, Reply, Alone

(* A request comes in.                                                     *)
LEMMA ComesIn ==
  ASSUME TypeOK, Placed, NEW c \in Clients, NEW op \in AllOps, NEW label, Takes(c, op),
         mem' = [mem EXCEPT ![c].op = op], Goto(c, label)
  PROVE  /\ pc[c] = "idle" /\ pc'[c] = label /\ mem[c] = Blank
         /\ mem'[c].op = op /\ ~mem'[c].missed /\ Alone(c)
  <1>1. mem[c] = Blank /\ mem[c] \in Memory /\ c \in Procs
    BY ClockApart DEF Placed, Takes, TypeOK
  <1>2. mem'[c] = [mem[c] EXCEPT !.op = op]
    BY <1>1 DEF TypeOK
  <1>3. mem'[c].op = op /\ ~mem'[c].missed
    BY <1>1, <1>2 DEF Blank
  <1>4. \A q \in Procs \ {c} : mem'[q] = mem[q]
    BY <1>1 DEF TypeOK
  <1> QED
    BY <1>1, <1>3, <1>4, Goes DEF Takes, Alone

LEMMA PlacedMoves ==
  ASSUME Placed, NEW c \in Clients, Alone(c), At(pc'[c], mem'[c].op), pc'[c] = "idle" => mem'[c] = Blank
  PROVE  Placed'
  BY ClockApart DEF Placed, Alone, At

LEMMA UnbornFrame == ASSUME Unborn, NEW p \in Procs, pc[p] # "idle", agent'.state # "unborn"
                     PROVE  agent.state # "unborn" /\ Unborn'
  BY DEF Unborn

LEMMA AbsentFrame == ASSUME Absent, UNCHANGED <<agent, specs, live>> PROVE Absent'
  BY DEF Absent, There, Saved

LEMMA VersionFrame ==
  ASSUME Versioned, NEW p \in Procs, Others(p), Saved' = Saved, There' => There,
         p \in Clients => Numbered(p)'
  PROVE  Versioned'
  <1>1. Gapless'
    BY DEF Versioned, Gapless
  <1>2. ASSUME NEW d \in Clients \ {p} PROVE Numbered(d)'
    BY DEF Versioned, Numbered, Others
  <1> QED
    BY <1>1, <1>2 DEF Versioned

(* Definitions: somebody moves who does not write one ...                  *)
LEMMA SpecFrame ==
  ASSUME SpecSound, UNCHANGED <<specs, live>>, raced \subseteq raced', NEW p \in Procs, Others(p),
         p \in Clients => ~Writing(p) /\ ~Writing(p)'
  PROVE  SpecSound'
  <1> SUFFICES ASSUME "spec" \notin raced' PROVE SpecSound'
    BY DEF SpecSound
  <1>1. \A d \in Clients : Writing(d)' <=> Writing(d)
    BY DEF Others, Writing
  <1>2. Published' = Published /\ LiveSet' = LiveSet
    BY DEF Published, LiveSet
  <1>3. ASSUME NEW d \in Clients, Writing(d) PROVE Writes(d)'
    <2>1. Writes(d) /\ d # p
      BY <1>3 DEF SpecSound
    <2> QED
      BY <1>2, <2>1 DEF Others, Writes, Publishes
  <1> QED
    BY <1>1, <1>2, <1>3 DEF SpecSound

(* ... or who does, and meets nobody else who does.                        *)
LEMMA SpecMoves ==
  ASSUME SpecSound, NEW c \in Clients, Others(c), AmongDefining(c) \subseteq raced',
         "spec" \notin raced' => IF Writing(c)' THEN Writes(c)' ELSE Published' = LiveSet'
  PROVE  SpecSound'
  <1> SUFFICES ASSUME "spec" \notin raced' PROVE SpecSound'
    BY DEF SpecSound
  <1>1. \A d \in Clients \ {c} : ~Defining(d)
    BY DEF AmongDefining
  <1>2. \A d \in Clients \ {c} : ~Writing(d)'
    BY <1>1 DEF Defining, Writing, Others
  <1> QED
    BY <1>2 DEF SpecSound

(* Switches, likewise.                                                     *)
LEMMA SwitchFrame ==
  ASSUME SwitchSound, UNCHANGED <<agent, job>>, raced \subseteq raced', NEW p \in Procs, Others(p),
         p \in Clients /\ Apart' /\ Holds(p)' => Holds(p) /\ (Keeps(p) => Keeps(p)'),
         p \in Clients /\ Apart' /\ Holds(p) /\ Keeps(p) /\ ~Holds(p)' => job = Due
  PROVE  SwitchSound'
  <1> SUFFICES ASSUME Apart' PROVE SwitchSound'
    BY DEF SwitchSound
  <1>1. Apart
    BY DEF Apart
  <1>2. \A d \in Clients \ {p} : Holds(d)' <=> Holds(d)
    BY DEF Others, Holds, Switching
  <1>3. Due' = Due /\ There' = There
    BY DEF Due, There
  <1>4. ASSUME NEW d \in Clients \ {p}, Holds(d) PROVE Keeps(d)'
    <2>1. Keeps(d)
      BY <1>1, <1>4 DEF SwitchSound
    <2> QED
      BY <1>3, <2>1 DEF Others, Keeps
  <1> QED
    BY <1>1, <1>2, <1>3, <1>4 DEF SwitchSound

LEMMA SwitchMoves ==
  ASSUME NEW c \in Clients, Others(c), AmongSwitching(c) \subseteq raced',
         Apart' => IF Holds(c)' THEN Keeps(c)' ELSE job' = Due'
  PROVE  SwitchSound'
  <1> SUFFICES ASSUME Apart' PROVE SwitchSound'
    BY DEF SwitchSound
  <1>1. \A d \in Clients \ {c} : ~Switching(d)
    BY DEF AmongSwitching, Apart
  <1>2. \A d \in Clients \ {c} : ~Holds(d)'
    BY <1>1 DEF Switching, Holds, Others
  <1> QED
    BY <1>2 DEF SwitchSound

(* Nobody switches it on, and nobody stops pausing it.                     *)
LEMMA PauseFrame ==
  ASSUME PauseSound, NEW p \in Procs, Others(p), raced \subseteq raced',
         job' => job, agent'.enabled => agent.enabled, switched' = switched,
         pc'[Clock] = "idle" \/ pc'[Clock] = pc[Clock],
         \A r \in Runs : runs'[r].by = "clock" => runs[r].by = "clock",
         p \in Clients => /\ pc[p] = "pause" => ~agent'.enabled
                          /\ Enabling(p)' => switched
  PROVE  PauseSound'
  <1>1. \A d \in Clients : Enabling(d)' => switched
    BY DEF PauseSound, Enabling, Others
  <1>2. ASSUME Apart', ~switched
        PROVE  /\ pc'[Clock] = "idle" /\ \A r \in Runs : runs'[r].by # "clock"
               /\ agent'.enabled => ~job' /\ \E d \in Clients : pc'[d] = "pause"
    <2>1. Apart
      BY <1>2 DEF Apart
    <2> QED
      BY <1>2, <2>1 DEF PauseSound, Others
  <1> QED
    BY <1>1, <1>2 DEF PauseSound

(* Somebody does, or is seen to overlap with another.                      *)
LEMMA PauseEnds ==
  ASSUME PauseSound, NEW c \in Clients, Others(c), Enabling(c)' => switched', switched => switched',
         switched' \/ ~Apart'
  PROVE  PauseSound'
  <1>1. \A d \in Clients : Enabling(d)' => switched'
    BY DEF PauseSound, Enabling, Others
  <1> QED
    BY <1>1 DEF PauseSound

(* Nothing is launched.                                                    *)
LEMMA OccFrame ==
  ASSUME OccSound, UNCHANGED <<runs, occ, blind>>, There' => There,
         \A p \in Procs : Looked(p)' /\ ~mem'[p].missed =>
                              (Looked(p) /\ ~mem[p].missed) \/ \A r \in Runs : ~InFlight(r),
         \A c \in Clients : pc'[c] = "run" => pc[c] = "run" /\ mem'[c].run = mem[c].run
  PROVE  OccSound'
  <1>1. \A r \in Runs : (InFlight(r)' <=> InFlight(r)) /\ (Alive(r)' <=> Alive(r))
    BY DEF InFlight, Alive, Waiting
  <1>2. \A p \in Procs : LookSound(p)'
    BY <1>1 DEF OccSound, LookSound
  <1>3. \A r, s \in Runs : Alive(r)' /\ Alive(s)' /\ r # s => blind' \cap {r, s} # {}
    BY <1>1 DEF OccSound
  <1>4. \A c \in Clients : pc'[c] = "run" /\ There' => mem'[c].run \in Runs /\ occ'[mem'[c].run] # "none"
    BY DEF OccSound
  <1> QED
    BY <1>2, <1>3, <1>4 DEF OccSound

LEMMA OccMoves ==
  ASSUME OccSound, UNCHANGED <<runs, occ, blind>>, There' => There, NEW c \in Clients, Alone(c),
         pc'[c] # "run",
         Looked(c)' /\ ~mem'[c].missed => (Looked(c) /\ ~mem[c].missed) \/ \A r \in Runs : ~InFlight(r)
  PROVE  OccSound'
  <1>1. \A p \in Procs \ {c} : Looked(p)' <=> Looked(p)
    BY ClockApart DEF Looked, Alone
  <1> QED
    BY <1>1, OccFrame, ClockApart DEF Alone

-----------------------------------------------------------------------------
(* Creating the routine: before it nobody was there.                       *)

LEMMA UnbornFacts ==
  ASSUME IInv, agent.state = "unborn"
  PROVE  /\ \A d \in Clients : pc[d] = "idle" /\ mem[d].op = "draft"
         /\ pc[Clock] = "idle" /\ ~job /\ ~switched
         /\ \A r \in Runs : runs[r].by = "none" /\ ~Alive(r)
  <1>1. \A d \in Clients : pc[d] = "idle" /\ mem[d] = Blank
    BY ClockApart DEF IInv, Sound, Unborn, Placed
  <1> QED
    BY <1>1, ClockApart DEF IInv, Sound, Unborn, Alive, Waiting, InFlight, Blank

LEMMA CreateKeeps ==
  ASSUME IInv, NEW c \in Clients, NEW op \in Creates, NEW recurring \in BOOLEAN,
         NEW next, next = CASE op = "plain" -> "register" [] op = "create_live" -> "version" [] OTHER -> "pause",
         Create(c, op, recurring, next)
  PROVE  Sound'
  <1> USE ClockApart
  <1>1. /\ TypeOK /\ Placed /\ agent.state = "unborn"
        /\ agent' = [state |-> "there", enabled |-> TRUE, recurring |-> recurring]
        /\ UNCHANGED <<job, specs, runs, occ, live, raced, blind>>
        /\ switched' = (op \in {"plain", "create_live"})
    BY DEF IInv, Sound, Create
  <1>2. /\ pc[c] = "idle" /\ pc'[c] = next /\ mem[c] = Blank
        /\ mem'[c].op = op /\ ~mem'[c].missed /\ Alone(c)
    BY <1>1, ComesIn DEF Create, AllOps
  <1>3. Others(c)
    BY <1>2, AloneOthers
  <1>4. next \in {"register", "version", "pause"} /\ (next = "register" <=> op = "plain")
        /\ (next = "pause" <=> op \in {"create_dry", "create_draft"})
    BY DEF Creates
  <1>5. There' /\ Saved' = Saved /\ ~There /\ Saved = {} /\ live = 0
    BY <1>1 DEF There, Saved, IInv, Sound, Absent
  <1>6. Placed'
    BY <1>1, <1>2, <1>4, PlacedMoves DEF At, Creates, Defines, Drafts, Enables
  <1>7. Unborn' /\ Absent'
    BY <1>1, <1>5 DEF Unborn, Absent
  <1>8. Versioned'
    <2>1. Versioned /\ \A d \in Clients : pc[d] = "idle"
      BY <1>1, UnbornFacts DEF IInv, Sound
    <2>2. \A d \in Clients : Numbered(d)'
      BY <1>2, <1>4, <2>1 DEF Numbered, Alone, Creates
    <2> QED
      BY <1>5, <2>1, <2>2 DEF Versioned, Gapless
  <1>9. SpecSound'
    BY <1>1, <1>2, <1>3, <1>4, SpecFrame DEF IInv, Sound, Writing
  <1>10. SwitchSound'
    <2>1. \A d \in Clients : ~Switching(d)
      BY <1>1, UnbornFacts DEF Switching, Creates
    <2>2. Keeps(c)'
      BY <1>1, <1>2, <1>4, <1>5, UnbornFacts DEF Keeps, Creates, Enables
    <2>3. Holds(c)'
      BY <1>2, <1>4 DEF Holds, Switching
    <2> QED
      BY <1>1, <1>3, <2>1, <2>2, <2>3, SwitchMoves DEF AmongSwitching
  <1>11. PauseSound'
    <2>1. \A d \in Clients : Enabling(d)' => switched'
      BY <1>1, <1>2, <1>4, UnbornFacts DEF Enabling, Alone, Creates
    <2>2. ~switched' => pc'[c] = "pause"
      BY <1>1, <1>2, <1>4 DEF Creates
    <2> QED
      BY <1>1, <1>2, <2>1, <2>2, UnbornFacts DEF PauseSound, Alone
  <1>12. OccSound'
    <2>1. \A r \in Runs : ~Alive(r)' /\ ~InFlight(r)'
      BY <1>1, UnbornFacts DEF Alive, Waiting, InFlight
    <2>2. \A d \in Clients : pc'[d] # "run"
      BY <1>1, <1>2, <1>4, UnbornFacts DEF Alone
    <2> QED
      BY <2>1, <2>2 DEF OccSound, LookSound
  <1> QED
    BY <1>6, <1>7, <1>8, <1>9, <1>10, <1>11, <1>12 DEF Sound

LEMMA PauseKeeps == ASSUME IInv, NEW c \in Clients, Pause(c) PROVE Sound'
  <1> USE ClockApart
  <1>1. /\ TypeOK /\ Placed /\ There /\ pc[c] = "pause"
        /\ agent' = Paused /\ raced' = AmongSwitching(c)
        /\ UNCHANGED <<job, specs, runs, occ, mem, live, switched, blind>>
    BY DEF IInv, Sound, Pause
  <1>2. pc'[c] = "version" /\ Alone(c)
    BY <1>1, Goes DEF Pause, Alone
  <1>3. Others(c) /\ raced \subseteq raced'
    BY <1>1, <1>2, AloneOthers DEF AmongSwitching
  <1>4. agent'.state = agent.state /\ ~agent'.enabled /\ There'
    BY <1>1 DEF Paused, There, TypeOK
  <1>5. mem[c].op \in {"create_dry", "create_draft"}
    BY <1>1 DEF Placed, At
  <1>6. Placed'
    BY <1>1, <1>2, <1>5, PlacedMoves DEF At, Defines
  <1>7. Unborn' /\ Absent'
    <2>1. Unborn'
      BY <1>4 DEF Unborn, There
    <2> QED
      BY <1>4, <2>1 DEF Absent
  <1>8. Versioned'
    BY <1>1, <1>2, <1>3, <1>4, <1>5, VersionFrame DEF IInv, Sound, Saved, Numbered
  <1>9. SpecSound'
    BY <1>1, <1>2, <1>3, SpecFrame DEF IInv, Sound, Writing
  <1>10. SwitchSound'
    <2>1. Holds(c) /\ Holds(c)'
      BY <1>1, <1>2, <1>5 DEF Holds, Switching, Creates
    <2>2. Apart' => Keeps(c)
      BY <1>3, <2>1 DEF IInv, Sound, SwitchSound, Apart
    <2>3. Apart' => Keeps(c)'
      BY <1>1, <1>2, <1>4, <1>5, <2>2 DEF Keeps
    <2> QED
      BY <1>1, <1>3, <2>1, <2>3, SwitchMoves
  <1>11. PauseSound'
    BY <1>1, <1>2, <1>3, <1>4, <1>5, PauseFrame DEF IInv, Sound, Enabling, Alone
  <1>12. OccSound'
    <2>1. Looked(c)' => Looked(c)
      BY <1>1 DEF Looked
    <2> QED
      BY <1>1, <1>2, <1>4, <2>1, OccMoves DEF IInv, Sound
  <1> QED
    BY <1>6, <1>7, <1>8, <1>9, <1>10, <1>11, <1>12 DEF Sound

-----------------------------------------------------------------------------
(* The definition of done.                                                 *)

(* A request that writes a definition and does not leave the routine's row,*)
(* its job and its runs alone: what a step of it keeps.                    *)
LEMMA WriterKeeps ==
  ASSUME IInv, NEW c \in Clients, Alone(c), raced \subseteq raced',
         UNCHANGED <<agent, job, runs, occ, switched, blind>>,
         There \/ pc[c] # "idle",
         pc[c] # "pause", pc'[c] # "run", Enabling(c)' => Enabling(c),
         Apart' /\ Holds(c)' => Holds(c) /\ (Keeps(c) => Keeps(c)'),
         Apart' /\ Holds(c) /\ Keeps(c) /\ ~Holds(c)' => job = Due,
         Looked(c)' /\ ~mem'[c].missed => (Looked(c) /\ ~mem[c].missed) \/ \A r \in Runs : ~InFlight(r)
  PROVE  Unborn' /\ SwitchSound' /\ PauseSound' /\ OccSound'
  <1> USE ClockApart
  <1>1. Others(c)
    BY AloneOthers
  <1>2. Unborn'
    BY DEF IInv, Sound, Unborn, There
  <1>3. SwitchSound'
    BY <1>1, SwitchFrame DEF IInv, Sound
  <1>4. PauseSound'
    <2>1. Enabling(c) => switched
      BY DEF IInv, Sound, PauseSound
    <2> QED
      BY <1>1, <2>1, PauseFrame DEF IInv, Sound, Alone
  <1>5. OccSound'
    BY OccMoves DEF IInv, Sound, There
  <1> QED
    BY <1>2, <1>3, <1>4, <1>5

LEMMA PutSpecKeeps ==
  ASSUME IInv, NEW c \in Clients, NEW op \in Drafts \cup {"dry_run"},
         PutSpec(c, op) \/ (op = "dry_run" /\ DryRun(c))
  PROVE  Sound'
  <1> USE ClockApart
  <1>1. /\ TypeOK /\ Placed /\ There /\ raced' = AmongDefining(c)
        /\ UNCHANGED <<agent, job, specs, runs, occ, live, switched, blind>>
        /\ op = "dry_run" => ~Busy
    BY DEF IInv, Sound, PutSpec, DryRun, Drafts
  <1>2. /\ pc[c] = "idle" /\ pc'[c] = "version" /\ mem[c] = Blank
        /\ mem'[c].op = op /\ ~mem'[c].missed /\ Alone(c)
    BY <1>1, ComesIn DEF PutSpec, DryRun, AllOps, Drafts
  <1>3. Others(c) /\ raced \subseteq raced' /\ There' = There
    BY <1>1, <1>2, AloneOthers DEF AmongDefining, There
  <1>4. Placed'
    BY <1>1, <1>2, PlacedMoves DEF At, Defines
  <1>5. Absent'
    BY <1>1, AbsentFrame DEF IInv, Sound
  <1>6. Versioned'
    BY <1>1, <1>2, <1>3, VersionFrame DEF IInv, Sound, Saved, Numbered, Drafts
  <1>7. SpecSound'
    BY <1>1, <1>2, <1>3, SpecFrame DEF IInv, Sound, Writing
  <1>8. Unborn' /\ SwitchSound' /\ PauseSound' /\ OccSound'
    <2>1. ~Holds(c) /\ ~Holds(c)' /\ ~Enabling(c)'
      BY <1>2 DEF Holds, Switching, Creates, Enabling, Drafts
    <2>2. Looked(c)' => op = "dry_run"
      BY <1>2 DEF Looked, Drafts
    <2>3. op = "dry_run" => \A r \in Runs : ~InFlight(r)
      BY <1>1 DEF Busy, InFlight
    <2> QED
      BY <1>1, <1>2, <1>3, <2>1, <2>2, <2>3, WriterKeeps
  <1> QED
    BY <1>4, <1>5, <1>6, <1>7, <1>8 DEF Sound

LEMMA VersionKeeps == ASSUME IInv, NEW c \in Clients, Version(c) PROVE Sound'
  <1> USE ClockApart
  <1> DEFINE v == IF Saved = {} THEN 1 ELSE Newest(Saved) + 1
  <1>1. /\ TypeOK /\ Placed /\ pc[c] = "version" /\ raced' = AmongDefining(c)
        /\ UNCHANGED <<agent, job, specs, runs, occ, live, switched, blind>>
    BY DEF IInv, Sound, Version
  <1>2. v \in Versions /\ Saved = 1..(v - 1) /\ specs[v] = "none"
    BY NextVersion DEF IInv, Sound, Version, Versioned
  <1> HIDE DEF v
  <1>3. /\ pc'[c] = IF Publishes(c) THEN "archive" ELSE "insert"
        /\ \A q \in Procs \ {c} : pc'[q] = pc[q]
    BY <1>1, Goes DEF Version
  <1>4. mem' = [mem EXCEPT ![c].version = v]
    BY DEF Version, v
  <1>5. /\ mem'[c].op = mem[c].op /\ mem'[c].version = v /\ mem'[c].missed = mem[c].missed
        /\ Alone(c)
    <2>1. mem'[c] = [mem[c] EXCEPT !.version = v] /\ mem[c] \in Memory
      BY <1>1, <1>4 DEF TypeOK
    <2>2. mem'[c].op = mem[c].op /\ mem'[c].version = v /\ mem'[c].missed = mem[c].missed
      BY <2>1 DEF Memory
    <2>3. \A q \in Procs \ {c} : mem'[q] = mem[q]
      BY <1>1, <1>4 DEF TypeOK
    <2> QED
      BY <1>3, <2>2, <2>3 DEF Alone
  <1>6. Others(c) /\ raced \subseteq raced' /\ There' = There /\ Saved' = Saved
    BY <1>1, <1>5, AloneOthers DEF AmongDefining, There, Saved
  <1>7. mem[c].op \in Defines /\ pc'[c] \in {"archive", "insert"}
        /\ (pc'[c] = "archive" <=> mem[c].op \in {"publish", "create_live"})
    BY <1>1, <1>3 DEF Placed, At, Publishes
  <1>8. Placed'
    BY <1>1, <1>5, <1>7, PlacedMoves DEF At
  <1>9. Absent'
    BY <1>1, AbsentFrame DEF IInv, Sound
  <1>10. Versioned'
    BY <1>2, <1>5, <1>6, <1>7, VersionFrame DEF IInv, Sound, Numbered, Defines, Drafts
  <1>11. SpecSound'
    <2>1. "spec" \notin raced' => Published' = LiveSet' /\ "spec" \notin raced
      <3>1. ASSUME "spec" \notin raced' PROVE \A d \in Clients : ~Writing(d)
        BY <1>1, <3>1 DEF AmongDefining, Defining, Writing
      <3>2. Published' = Published /\ LiveSet' = LiveSet
        BY <1>1 DEF Published, LiveSet
      <3> QED
        BY <1>6, <3>1, <3>2 DEF IInv, Sound, SpecSound
    <2>2. pc'[c] = "insert" => ~Publishes(c)'
      BY <1>5, <1>7 DEF Publishes
    <2>3. "spec" \notin raced' => Writes(c)'
      BY <1>1, <1>2, <1>5, <1>7, <2>1, <2>2 DEF Writes
    <2>4. Writing(c)'
      BY <1>7 DEF Writing
    <2> QED
      BY <1>1, <1>6, <2>3, <2>4, SpecMoves DEF IInv, Sound
  <1>12. Unborn' /\ SwitchSound' /\ PauseSound' /\ OccSound'
    <2>1. Holds(c)' <=> Holds(c)
      BY <1>1, <1>5, <1>7 DEF Holds, Switching
    <2>2. Keeps(c) => Keeps(c)'
      BY <1>1, <1>5, <1>6, <1>7 DEF Keeps
    <2>3. Enabling(c)' => Enabling(c)
      BY <1>5, <1>7 DEF Enabling
    <2>4. Looked(c)' => Looked(c)
      BY <1>1, <1>5 DEF Looked
    <2> QED
      BY <1>1, <1>5, <1>6, <1>7, <2>1, <2>2, <2>3, <2>4, WriterKeeps
  <1> QED
    BY <1>8, <1>9, <1>10, <1>11, <1>12 DEF Sound

LEMMA ArchiveKeeps == ASSUME IInv, NEW c \in Clients, Archive(c) PROVE Sound'
  <1> USE ClockApart
  <1>1. /\ TypeOK /\ Placed /\ pc[c] = "archive" /\ raced' = AmongDefining(c) /\ specs' = Archived
        /\ UNCHANGED <<agent, job, runs, occ, mem, live, switched, blind>>
    BY DEF IInv, Sound, Archive
  <1>2. pc'[c] = (IF mem[c].op = "go_live" THEN "publish" ELSE "insert") /\ Alone(c)
    BY <1>1, Goes DEF Archive, Alone
  <1>3. Others(c) /\ raced \subseteq raced' /\ There' = There
    BY <1>1, <1>2, AloneOthers DEF AmongDefining, There
  <1>4. Saved' = Saved /\ Published' = {} /\ \A v \in Versions : specs[v] = "none" => specs'[v] = "none"
    BY <1>1 DEF Archived, Saved, Published, TypeOK
  <1>5. mem[c].op \in {"publish", "create_live", "go_live"} /\ pc'[c] \in {"publish", "insert"}
    BY <1>1, <1>2 DEF Placed, At
  <1>6. Placed'
    BY <1>1, <1>2, <1>5, PlacedMoves DEF At, Defines, Drafts
  <1>7. Absent'
    BY <1>1, <1>3, <1>4 DEF IInv, Sound, Absent
  <1>8. Numbered(c) /\ Numbered(c)'
    BY <1>1, <1>2, <1>3, <1>4, <1>5 DEF IInv, Sound, Versioned, Numbered
  <1>9. Versioned'
    BY <1>3, <1>4, <1>8, VersionFrame DEF IInv, Sound
  <1>10. SpecSound'
    <2>1. Writing(c) /\ Writing(c)'
      BY <1>1, <1>5 DEF Writing
    <2>2. "spec" \notin raced' => Writes(c)
      BY <1>3, <2>1 DEF IInv, Sound, SpecSound
    <2>3. "spec" \notin raced' => Writes(c)'
      BY <1>1, <1>2, <1>4, <1>5, <1>8, <2>2 DEF Writes, Publishes, Numbered
    <2> QED
      BY <1>1, <1>3, <2>1, <2>3, SpecMoves DEF IInv, Sound
  <1>11. Unborn' /\ SwitchSound' /\ PauseSound' /\ OccSound'
    <2>1. Holds(c)' <=> Holds(c)
      BY <1>1, <1>2, <1>5 DEF Holds, Switching
    <2>2. Keeps(c) => Keeps(c)'
      BY <1>1, <1>2, <1>3, <1>5 DEF Keeps
    <2>3. (Enabling(c)' => Enabling(c)) /\ ~Looked(c)'
      BY <1>1, <1>2, <1>5 DEF Enabling, Looked
    <2> QED
      BY <1>1, <1>2, <1>3, <1>5, <2>1, <2>2, <2>3, WriterKeeps
  <1> QED
    BY <1>6, <1>7, <1>9, <1>10, <1>11 DEF Sound

(* An insert that is refused ends the request.                             *)
LEMMA InsertFails ==
  ASSUME IInv, NEW c \in Clients, Insert(c), ~There \/ specs[mem[c].version] # "none"
  PROVE  Sound'
  <1> USE ClockApart
  <1>1. /\ TypeOK /\ Placed /\ pc[c] = "insert" /\ AmongDefining(c) \subseteq raced'
        /\ mem[c].op \in Creates => "create" \in raced'
        /\ UNCHANGED <<agent, job, specs, runs, occ, live, switched, blind>>
    BY DEF IInv, Sound, Insert
  <1>2. pc'[c] = "idle" /\ mem'[c] = Blank /\ Alone(c)
    BY <1>1, Replies DEF Insert
  <1>3. Others(c) /\ raced \subseteq raced' /\ There' = There /\ Saved' = Saved
    BY <1>1, <1>2, AloneOthers DEF AmongDefining, There, Saved
  <1>4. mem[c].op \in Defines /\ mem'[c].op = "draft"
    BY <1>1, <1>2 DEF Placed, At, Blank
  <1>5. Placed'
    BY <1>1, <1>2, PlacedMoves DEF At, Blank
  <1>6. Absent'
    BY <1>1, AbsentFrame DEF IInv, Sound
  <1>7. Versioned'
    BY <1>2, <1>3, <1>4, VersionFrame DEF IInv, Sound, Numbered
  <1>8. SpecSound'
    <2>1. Writing(c) /\ ~Writing(c)'
      BY <1>1, <1>2 DEF Writing
    <2>2. ASSUME "spec" \notin raced' PROVE Published' = LiveSet'
      <3>1. Writes(c)
        BY <1>3, <2>1, <2>2 DEF IInv, Sound, SpecSound
      <3>2. ~There
        BY <1>1, <1>4, <3>1 DEF Writes, Defines, Drafts
      <3>3. Saved = {} /\ live = 0
        BY <3>2 DEF IInv, Sound, Absent
      <3>4. Published = {}
        BY <3>3 DEF Saved, Published
      <3> QED
        BY <1>1, <3>3, <3>4 DEF Published, LiveSet
    <2> QED
      BY <1>1, <1>3, <2>1, <2>2, SpecMoves DEF IInv, Sound
  <1>9. Unborn' /\ SwitchSound' /\ PauseSound' /\ OccSound'
    <2>1. ~Holds(c)' /\ ~Enabling(c)' /\ ~Looked(c)'
      BY <1>2, <1>4 DEF Holds, Switching, Creates, Enabling, Looked
    <2>2. Holds(c) => ~Apart'
      BY <1>1 DEF Holds, Switching, Apart
    <2>3. agent.state # "unborn"
      BY <1>1 DEF IInv, Sound, Unborn
    <2>4. Unborn'
      BY <1>1, <2>3 DEF Unborn
    <2>5. SwitchSound'
      BY <1>1, <1>3, <2>1, <2>2, SwitchFrame DEF IInv, Sound
    <2>6. PauseSound'
      BY <1>1, <1>2, <1>3, <2>1, PauseFrame DEF IInv, Sound, Alone
    <2>7. OccSound'
      BY <1>1, <1>2, <1>3, <2>1, OccMoves DEF IInv, Sound
    <2> QED
      BY <2>4, <2>5, <2>6, <2>7
  <1> QED
    BY <1>5, <1>6, <1>7, <1>8, <1>9 DEF Sound

LEMMA InsertKeeps == ASSUME IInv, NEW c \in Clients, Insert(c) PROVE Sound'
  <1> USE ClockApart
  <1> DEFINE v == mem[c].version
  <1> SUFFICES ASSUME There, specs[v] = "none" PROVE Sound'
    BY InsertFails
  <1>1. /\ TypeOK /\ Placed /\ pc[c] = "insert" /\ raced' = AmongDefining(c)
        /\ specs' = [specs EXCEPT ![v] = IF Publishes(c) THEN "published" ELSE "draft"]
        /\ live' = IF Publishes(c) THEN v ELSE live
        /\ UNCHANGED <<agent, job, runs, occ, switched, blind>>
    BY DEF IInv, Sound, Insert
  <1>2. mem[c].op \in Defines
    BY <1>1 DEF Placed, At
  <1>3. /\ Alone(c)
        /\ IF mem[c].op \in Drafts \cup {"create_draft"} THEN pc'[c] = "idle" /\ mem'[c] = Blank
           ELSE /\ pc'[c] = IF mem[c].op = "create_live" THEN "register" ELSE "outcome"
                /\ mem' = mem
    <2>1. CASE mem[c].op \in Drafts \cup {"create_draft"}
      BY <1>1, <2>1, Replies DEF Insert
    <2>2. CASE mem[c].op \notin Drafts \cup {"create_draft"}
      BY <1>1, <2>2, Goes DEF Insert, Alone
    <2> QED
      BY <2>1, <2>2
  <1>4. Others(c) /\ raced \subseteq raced' /\ There'
    BY <1>1, <1>3, AloneOthers DEF AmongDefining, There
  <1>5. /\ v \in Versions /\ 1..(v - 1) \subseteq Saved
        /\ \E k \in 0..MaxVersion : Saved = 1..k
    BY <1>1, <1>2 DEF IInv, Sound, Versioned, Numbered, Gapless, Defines, Drafts
  <1>6. Saved' = Saved \cup {v} /\ v \notin Saved
    BY <1>1, <1>5 DEF Saved, TypeOK
  <1>7. Placed'
    BY <1>1, <1>2, <1>3, PlacedMoves DEF At, Blank, Defines, Drafts, Enables
  <1>8. Absent'
    BY <1>4 DEF Absent
  <1>9. Versioned'
    <2>1. Gapless'
      <3>1. PICK k \in 0..MaxVersion : Saved = 1..k
        BY <1>5
      <3>2. k \in Nat /\ v \in 1..MaxVersion
        BY <1>5 DEF Versions
      <3>3. v = k + 1
        <4>1. v > k
          BY <1>5, <1>6, <3>1, <3>2
        <4>2. k + 1 \in 1..(v - 1) => k + 1 \in 1..k
          BY <1>5, <3>1
        <4> HIDE DEF v
        <4> QED
          BY <3>2, <4>1, <4>2
      <3>4. Saved' = 1..(k + 1) /\ k + 1 \in 0..MaxVersion
        BY <1>6, <3>1, <3>2, <3>3
      <3> QED
        BY <3>4 DEF Gapless
    <2>2. ASSUME NEW d \in Clients \ {c} PROVE Numbered(d)'
      BY <1>4, <1>6 DEF IInv, Sound, Versioned, Numbered, Others
    <2>3. Numbered(c)'
      BY <1>2, <1>3 DEF Numbered, Defines, Drafts
    <2> QED
      BY <2>1, <2>2, <2>3 DEF Versioned
  <1>10. SpecSound'
    <2>1. Writing(c) /\ ~Writing(c)'
      BY <1>1, <1>3 DEF Writing
    <2>2. ASSUME "spec" \notin raced' PROVE Published' = LiveSet'
      <3>1. Writes(c)
        BY <1>4, <2>1, <2>2 DEF IInv, Sound, SpecSound
      <3>2. CASE Publishes(c)
        <4>1. Published = {}
          BY <1>1, <3>1, <3>2 DEF Writes
        <4>2. Published' = {v}
          BY <1>1, <1>5, <3>2, <4>1 DEF Published, TypeOK
        <4>3. live' = v /\ v # 0
          BY <1>1, <1>5, <3>2 DEF Versions
        <4> QED
          BY <4>2, <4>3 DEF LiveSet
      <3>3. CASE ~Publishes(c)
        <4>1. Published = LiveSet
          BY <1>1, <3>1, <3>3 DEF Writes
        <4>2. Published' = Published
          BY <1>1, <1>5, <3>3 DEF Published, TypeOK
        <4> QED
          BY <1>1, <3>3, <4>1, <4>2 DEF LiveSet
      <3> QED
        BY <3>2, <3>3
    <2> QED
      BY <1>1, <2>1, <2>2, <1>4, SpecMoves DEF IInv, Sound
  <1>11. Unborn' /\ SwitchSound' /\ PauseSound' /\ OccSound'
    <2>1. Holds(c)' => Holds(c)
      BY <1>1, <1>2, <1>3 DEF Holds, Switching, Blank, Creates, Defines, Drafts
    <2>2. Holds(c)' /\ Keeps(c) => Keeps(c)'
      BY <1>1, <1>2, <1>3, <1>4 DEF Holds, Switching, Keeps, Creates, Defines, Drafts, Enables
    <2>3. Holds(c) /\ Keeps(c) /\ ~Holds(c)' => job = Due
      <3>1. Holds(c) /\ ~Holds(c)' => mem[c].op = "create_draft"
        BY <1>1, <1>2, <1>3 DEF Holds, Switching, Creates, Defines, Drafts
      <3>2. Keeps(c) /\ mem[c].op = "create_draft" => ~job /\ ~agent.enabled
        BY <1>1 DEF Keeps, Creates
      <3> QED
        BY <1>1, <3>1, <3>2 DEF Due, TypeOK
    <2>4. Enabling(c)' => Enabling(c)
      BY <1>2, <1>3 DEF Enabling, Blank, Defines, Drafts
    <2>5. Looked(c)' => Looked(c) /\ mem' = mem
      BY <1>1, <1>2, <1>3 DEF Looked, Defines, Drafts
    <2> QED
      BY <1>1, <1>3, <1>4, <2>1, <2>2, <2>3, <2>4, <2>5, WriterKeeps
  <1> QED
    BY <1>7, <1>8, <1>9, <1>10, <1>11 DEF Sound

-----------------------------------------------------------------------------
(* Going live.                                                             *)

LEMMA GoLiveKeeps == ASSUME IInv, NEW c \in Clients, GoLive(c) PROVE Sound'
  <1> USE ClockApart
  <1>1. /\ TypeOK /\ Placed /\ There /\ Saved # {} /\ pc[c] = "idle"
        /\ UNCHANGED <<agent, job, specs, runs, occ, live, raced, switched, blind>>
    BY DEF IInv, Sound, GoLive, Takes, history
  <1>2. Latest \in Saved
    BY <1>1, LatestSaved
  <1> DEFINE v == Latest
  <1> HIDE DEF v
  <1>3. mem' = [mem EXCEPT ![c].op = "go_live", ![c].version = v]
    BY DEF GoLive, v
  <1>4. pc'[c] = "check" /\ mem'[c].op = "go_live" /\ mem'[c].version = v /\ Alone(c)
    <2>1. mem[c] \in Memory
      BY <1>1 DEF TypeOK
    <2>2. mem'[c].op = "go_live" /\ mem'[c].version = v
      BY <1>1, <1>3, <2>1 DEF TypeOK, Memory
    <2>3. \A q \in Procs \ {c} : mem'[q] = mem[q]
      BY <1>1, <1>3 DEF TypeOK
    <2> QED
      BY <1>1, <2>2, <2>3, Goes DEF GoLive, Alone
  <1>5. Others(c) /\ There' = There /\ Saved' = Saved
    BY <1>1, <1>4, AloneOthers DEF There, Saved
  <1>6. Placed'
    BY <1>1, <1>4, PlacedMoves DEF At
  <1>7. Absent'
    BY <1>1, AbsentFrame DEF IInv, Sound
  <1>8. Versioned'
    BY <1>2, <1>4, <1>5, VersionFrame DEF IInv, Sound, Numbered, v
  <1>9. SpecSound'
    BY <1>1, <1>4, <1>5, SpecFrame DEF IInv, Sound, Writing
  <1>10. Unborn' /\ SwitchSound' /\ PauseSound' /\ OccSound'
    <2>1. ~Holds(c) /\ ~Holds(c)' /\ ~Enabling(c)' /\ ~Looked(c)'
      BY <1>1, <1>4 DEF Holds, Switching, Creates, Enabling, Looked
    <2> QED
      BY <1>1, <1>4, <1>5, <2>1, WriterKeeps
  <1> QED
    BY <1>6, <1>7, <1>8, <1>9, <1>10 DEF Sound

LEMMA GoLiveCheckKeeps == ASSUME IInv, NEW c \in Clients, GoLiveCheck(c) PROVE Sound'
  <1> USE ClockApart
  <1>1. /\ TypeOK /\ Placed /\ pc[c] = "check" /\ mem[c].op = "go_live" /\ raced \subseteq raced'
        /\ UNCHANGED <<agent, job, specs, runs, occ, live, switched, blind>>
    BY DEF IInv, Sound, GoLiveCheck, Placed, At, AmongDefining
  <1>2. /\ Alone(c)
        /\ \/ pc'[c] = "idle" /\ mem'[c] = Blank
           \/ /\ pc'[c] \in {"enable", "archive"} /\ mem' = mem /\ AmongDefining(c) \subseteq raced'
    <2>1. CASE Busy \/ ~There
      BY <1>1, <2>1, Replies DEF GoLiveCheck
    <2>2. CASE ~(Busy \/ ~There)
      <3> DEFINE next == IF specs[mem[c].version] = "published" THEN "enable" ELSE "archive"
      <3>1. Goto(c, next) /\ raced' = AmongDefining(c) /\ mem' = mem
        BY <2>2 DEF GoLiveCheck
      <3>2. pc'[c] = next /\ next \in {"enable", "archive"}
        BY <1>1, <3>1, Goes
      <3>3. \A q \in Procs \ {c} : pc'[q] = pc[q]
        BY <1>1, <3>1, Goes
      <3> QED
        BY <3>1, <3>2, <3>3 DEF Alone
    <2> QED
      BY <2>1, <2>2
  <1>3. Others(c) /\ There' = There /\ Saved' = Saved
    BY <1>1, <1>2, AloneOthers DEF There, Saved
  <1>4. Placed'
    BY <1>1, <1>2, PlacedMoves DEF At, Blank
  <1>5. Absent'
    BY <1>1, AbsentFrame DEF IInv, Sound
  <1>6. Versioned'
    <2>1. Numbered(c)'
      BY <1>1, <1>2, <1>3 DEF IInv, Sound, Versioned, Numbered
    <2> QED
      BY <1>3, <2>1, VersionFrame DEF IInv, Sound
  <1>7. SpecSound'
    <2>1. CASE ~Writing(c)'
      <3>1. ~Writing(c)
        BY <1>1 DEF Writing
      <3> QED
        BY <1>1, <1>3, <2>1, <3>1, SpecFrame DEF IInv, Sound
    <2>2. CASE Writing(c)'
      <3>1. pc'[c] = "archive" /\ AmongDefining(c) \subseteq raced' /\ mem' = mem
        BY <1>2, <2>2 DEF Writing
      <3>2. "spec" \notin raced' => \A d \in Clients : ~Writing(d)
        BY <1>1, <3>1 DEF AmongDefining, Defining, Writing
      <3>3. "spec" \notin raced' => Published = LiveSet
        BY <1>1, <3>2 DEF IInv, Sound, SpecSound
      <3>4. "spec" \notin raced' => Writes(c)'
        BY <1>1, <3>1, <3>3 DEF Writes, Published, LiveSet
      <3> QED
        BY <1>3, <2>2, <3>1, <3>4, SpecMoves DEF IInv, Sound
    <2> QED
      BY <2>1, <2>2
  <1>8. Unborn' /\ SwitchSound' /\ PauseSound' /\ OccSound'
    <2>1. ~Holds(c) /\ ~Holds(c)' /\ ~Enabling(c)' /\ ~Looked(c)'
      BY <1>1, <1>2 DEF Holds, Switching, Creates, Enabling, Looked, Blank
    <2> QED
      BY <1>1, <1>2, <1>3, <2>1, WriterKeeps
  <1> QED
    BY <1>4, <1>5, <1>6, <1>7, <1>8 DEF Sound

LEMMA PublishKeeps == ASSUME IInv, NEW c \in Clients, Publish(c) PROVE Sound'
  <1> USE ClockApart
  <1> DEFINE v == mem[c].version
  <1>1. /\ TypeOK /\ Placed /\ pc[c] = "publish" /\ mem[c].op = "go_live" /\ raced' = AmongDefining(c)
        /\ UNCHANGED <<agent, job, runs, occ, mem, switched, blind>>
    BY DEF IInv, Sound, Publish, Placed, At
  <1>2. pc'[c] = "enable" /\ Alone(c)
    BY <1>1, Goes DEF Publish, Alone
  <1>3. Others(c) /\ raced \subseteq raced' /\ There' = There
    BY <1>1, <1>2, AloneOthers DEF AmongDefining, There
  <1>4. There => v \in Saved
    BY <1>1 DEF IInv, Sound, Versioned, Numbered
  <1>5. Saved' = Saved
    BY <1>1, <1>4 DEF Publish, Saved, TypeOK
  <1>6. Placed'
    BY <1>1, <1>2, PlacedMoves DEF At
  <1>7. Absent'
    <2>1. ~There => live' = live
      BY DEF Publish
    <2> QED
      BY <1>1, <1>3, <1>5, <2>1 DEF IInv, Sound, Absent
  <1>8. Versioned'
    BY <1>2, <1>3, <1>5, VersionFrame DEF IInv, Sound, Numbered
  <1>9. SpecSound'
    <2>1. Writing(c) /\ ~Writing(c)'
      BY <1>1, <1>2 DEF Writing
    <2>2. ASSUME "spec" \notin raced' PROVE Published' = LiveSet'
      <3>1. Published = {}
        BY <1>1, <1>3, <2>1, <2>2 DEF IInv, Sound, SpecSound, Writes
      <3>2. CASE There
        <4>1. v \in Versions /\ v # 0
          BY <1>4, <3>2 DEF Saved, Versions
        <4>2. specs' = [specs EXCEPT ![v] = "published"] /\ live' = v
          BY <3>2 DEF Publish
        <4>3. Published' = {v}
          BY <1>1, <3>1, <4>1, <4>2 DEF Published, TypeOK
        <4> QED
          BY <4>1, <4>2, <4>3 DEF LiveSet
      <3>3. CASE ~There
        <4>1. specs' = specs /\ live' = live /\ live = 0
          BY <3>3 DEF Publish, IInv, Sound, Absent
        <4> QED
          BY <3>1, <4>1 DEF Published, LiveSet
      <3> QED
        BY <3>2, <3>3
    <2> QED
      BY <1>1, <1>3, <2>1, <2>2, SpecMoves DEF IInv, Sound
  <1>10. Unborn' /\ SwitchSound' /\ PauseSound' /\ OccSound'
    <2>1. ~Holds(c)' /\ ~Holds(c) /\ ~Enabling(c)' /\ ~Looked(c)'
      BY <1>1, <1>2 DEF Holds, Switching, Creates, Enabling, Looked
    <2> QED
      BY <1>1, <1>2, <1>3, <2>1, WriterKeeps
  <1> QED
    BY <1>6, <1>7, <1>8, <1>9, <1>10 DEF Sound

-----------------------------------------------------------------------------
(* The switch and the schedule.                                            *)

(* A step that finds nobody else switching: what it has to show.           *)
LEMMA SwitchKeeps ==
  ASSUME IInv, NEW c \in Clients, Alone(c), raced' = AmongSwitching(c),
         UNCHANGED <<specs, runs, occ, live, blind>>,
         agent.state # "unborn", There' = There, There \/ UNCHANGED agent,
         ~Writing(c) /\ ~Writing(c)', pc[c] # "pause", pc'[c] # "run" /\ ~Looked(c)',
         At(pc'[c], mem'[c].op), pc'[c] = "idle" => mem'[c] = Blank,
         mem'[c].op # "go_live" \/ pc'[c] \notin {"check", "archive", "publish"},
         Apart' => IF Holds(c)' THEN Keeps(c)' ELSE job' = Due'
  PROVE  /\ Placed' /\ Unborn' /\ Absent' /\ Versioned' /\ SpecSound' /\ SwitchSound' /\ OccSound'
         /\ Others(c) /\ raced \subseteq raced'
  <1> USE ClockApart
  <1>1. Others(c) /\ raced \subseteq raced'
    BY AloneOthers DEF AmongSwitching
  <1>2. Placed'
    BY PlacedMoves DEF IInv, Sound
  <1>3. Unborn' /\ Absent'
    <2>1. agent'.state # "unborn"
      BY DEF There
    <2>2. ~There => UNCHANGED <<agent, specs, live>>
      OBVIOUS
    <2>3. Absent'
      BY <2>2 DEF IInv, Sound, Absent, Saved
    <2> QED
      BY <2>1, <2>3 DEF Unborn
  <1>4. Versioned'
    BY <1>1, VersionFrame DEF IInv, Sound, Saved, Numbered, Writing
  <1>5. SpecSound'
    BY <1>1, SpecFrame DEF IInv, Sound
  <1>6. SwitchSound'
    BY <1>1, SwitchMoves
  <1>7. OccSound'
    BY OccMoves DEF IInv, Sound
  <1> QED
    BY <1>1, <1>2, <1>3, <1>4, <1>5, <1>6, <1>7

LEMMA SwitchedKeeps ==
  ASSUME IInv, NEW c \in Clients, NEW op \in {"enable", "disable", "schedule", "unschedule"}, Switch(c, op)
  PROVE  Sound'
  <1> USE ClockApart
  <1>1. /\ TypeOK /\ Placed /\ There /\ raced' = AmongSwitching(c)
        /\ UNCHANGED <<job, specs, runs, occ, live, blind>>
        /\ switched' = (switched \/ op = "enable")
    BY DEF IInv, Sound, Switch
  <1>2. /\ pc[c] = "idle" /\ pc'[c] = "register" /\ mem[c] = Blank
        /\ mem'[c].op = op /\ ~mem'[c].missed /\ Alone(c)
    BY <1>1, ComesIn DEF Switch, AllOps
  <1>3. /\ agent'.state = agent.state
        /\ op = "enable" => agent'.enabled /\ agent'.recurring = agent.recurring
        /\ op = "disable" => ~agent'.enabled /\ agent'.recurring = agent.recurring
        /\ op # "enable" => (agent'.enabled => agent.enabled)
    BY <1>1 DEF Switch, TypeOK
  <1>4. /\ Placed' /\ Unborn' /\ Absent' /\ Versioned' /\ SpecSound' /\ SwitchSound' /\ OccSound'
        /\ Others(c) /\ raced \subseteq raced'
    <2>1. Apart' => \A d \in Clients : ~Holds(d)
      BY <1>1, <1>2 DEF AmongSwitching, Apart, Holds, Switching
    <2>2. Apart' => job = Due
      BY <1>1, <2>1 DEF IInv, Sound, SwitchSound, Apart, AmongSwitching
    <2>3. There' /\ Holds(c)'
      BY <1>1, <1>2, <1>3 DEF There, Holds, Switching
    <2>4. Apart' => Keeps(c)'
      BY <1>1, <1>2, <1>3, <2>2, <2>3 DEF Keeps, Due, Creates, Enables
    <2>5. At(pc'[c], mem'[c].op)
      BY <1>2 DEF At, Enables
    <2>6. ~Writing(c) /\ ~Writing(c)' /\ ~Looked(c)' /\ mem'[c].op # "go_live"
      BY <1>2 DEF Writing, Looked
    <2> QED
      BY <1>1, <1>2, <1>3, <2>3, <2>4, <2>5, <2>6, SwitchKeeps DEF There
  <1>5. PauseSound'
    <2>1. CASE op = "enable"
      BY <1>1, <1>2, <1>4, <2>1, PauseEnds DEF IInv, Sound
    <2>2. CASE op # "enable"
      <3>1. ~Enabling(c)'
        BY <1>2, <2>2 DEF Enabling
      <3> QED
        BY <1>1, <1>2, <1>3, <1>4, <2>2, <3>1, PauseFrame DEF IInv, Sound, Alone, TypeOK
    <2> QED
      BY <2>1, <2>2
  <1> QED
    BY <1>4, <1>5 DEF Sound

LEMMA GoLiveEnableKeeps == ASSUME IInv, NEW c \in Clients, GoLiveEnable(c) PROVE Sound'
  <1> USE ClockApart
  <1>1. /\ TypeOK /\ Placed /\ pc[c] = "enable" /\ mem[c].op = "go_live" /\ raced' = AmongSwitching(c)
        /\ UNCHANGED <<job, specs, runs, occ, mem, live, blind>> /\ switched'
    BY DEF IInv, Sound, GoLiveEnable, Placed, At
  <1>2. pc'[c] = "register" /\ Alone(c)
    BY <1>1, Goes DEF GoLiveEnable, Alone
  <1>3. /\ agent'.state = agent.state /\ agent'.recurring = agent.recurring
        /\ IF There THEN agent'.enabled ELSE agent' = agent
    BY DEF GoLiveEnable, IInv, TypeOK
  <1>4. /\ Placed' /\ Unborn' /\ Absent' /\ Versioned' /\ SpecSound' /\ SwitchSound' /\ OccSound'
        /\ Others(c) /\ raced \subseteq raced'
    <2>1. ~Holds(c) /\ Holds(c)' /\ There' = There
      BY <1>1, <1>2, <1>3 DEF Holds, Switching, There, Creates
    <2>2. Apart' => \A d \in Clients : ~Holds(d)
      BY <1>1, <2>1 DEF AmongSwitching, Apart, Holds
    <2>3. Apart' => job = Due
      BY <1>1, <2>2 DEF IInv, Sound, SwitchSound, Apart, AmongSwitching
    <2>4. Apart' => Keeps(c)'
      BY <1>1, <1>2, <1>3, <2>1, <2>3 DEF Keeps, Due, Creates, Enables
    <2>5. At(pc'[c], mem'[c].op)
      BY <1>1, <1>2 DEF At, Enables
    <2>6. ~Writing(c) /\ ~Writing(c)' /\ ~Looked(c)'
      BY <1>1, <1>2 DEF Writing, Looked
    <2>7. agent.state # "unborn"
      BY <1>1 DEF IInv, Sound, Unborn
    <2> QED
      BY <1>1, <1>2, <1>3, <2>1, <2>4, <2>5, <2>6, <2>7, SwitchKeeps
  <1>5. PauseSound'
    BY <1>1, <1>2, <1>4, PauseEnds DEF IInv, Sound
  <1> QED
    BY <1>4, <1>5 DEF Sound

LEMMA RegisterKeeps == ASSUME IInv, NEW c \in Clients, Register(c) PROVE Sound'
  <1> USE ClockApart
  <1>1. /\ TypeOK /\ Placed /\ pc[c] = "register"
        /\ UNCHANGED <<agent, specs, runs, occ, live, switched, blind>>
    BY DEF IInv, Sound, Register
  <1>2. mem[c].op \in Enables \cup {"disable", "schedule", "unschedule"} /\ Holds(c) /\ agent.state # "unborn"
    BY <1>1 DEF Placed, At, Holds, Switching, IInv, Sound, Unborn
  <1>3. There' = There /\ Due' = Due /\ Saved' = Saved
    BY <1>1 DEF There, Due, Saved
  <1>4. Alone(c) /\ (\/ pc'[c] = "idle" /\ mem'[c] = Blank
                     \/ pc'[c] = "launch" /\ mem' = mem /\ mem[c].op \in {"plain", "create_live", "go_live"})
    <2>1. CASE Reply(c)
      BY <1>1, <2>1, Replies
    <2>2. CASE ~Reply(c)
      <3>1. Goto(c, "launch") /\ mem' = mem /\ (RunsNow(mem[c].op) \/ mem[c].op = "plain")
        BY <2>2 DEF Register
      <3> QED
        BY <1>1, <3>1, Goes DEF Alone, RunsNow
    <2> QED
      BY <2>1, <2>2
  <1>5. CASE ~There
    <2>1. raced' = raced /\ job' = job /\ pc'[c] = "idle" /\ mem'[c] = Blank
      BY <1>1, <1>5, Replies DEF Register
    <2>2. Others(c) /\ ~Writing(c) /\ ~Writing(c)' /\ ~Looked(c)' /\ ~Holds(c)' /\ ~Enabling(c)'
      BY <1>1, <1>4, <2>1, AloneOthers DEF Writing, Looked, Holds, Switching, Enabling, Blank
    <2>3. Keeps(c) => job = Due
      BY <1>1, <1>5 DEF Keeps, Due, TypeOK
    <2>4. Placed' /\ Unborn' /\ Absent'
      BY <1>1, <1>2, <1>4, <2>1, PlacedMoves, AbsentFrame DEF IInv, Sound, At, Blank, Unborn
    <2>5. Versioned'
      BY <1>3, <2>1, <2>2, VersionFrame DEF IInv, Sound, Numbered, Blank
    <2>6. SpecSound'
      BY <1>1, <2>1, <2>2, SpecFrame DEF IInv, Sound
    <2>7. SwitchSound'
      BY <1>1, <2>1, <2>2, <2>3, SwitchFrame DEF IInv, Sound
    <2>8. PauseSound'
      BY <1>1, <1>4, <2>1, <2>2, PauseFrame DEF IInv, Sound, Alone
    <2>9. OccSound'
      BY <1>1, <1>3, <1>4, <2>1, <2>2, OccMoves DEF IInv, Sound
    <2> QED
      BY <2>4, <2>5, <2>6, <2>7, <2>8, <2>9 DEF Sound
  <1>6. CASE There
    <2>1. raced' = AmongSwitching(c) /\ job' = JobAfter(mem[c].op)
      BY <1>6 DEF Register
    <2>2. Apart' => Keeps(c)
      BY <1>2, <2>1 DEF IInv, Sound, SwitchSound, Apart, AmongSwitching
    <2>3. Apart' => job' = Due
      BY <1>1, <1>2, <1>6, <2>1, <2>2 DEF Keeps, JobAfter, Due, Enables, TypeOK
    <2>4. Apart' => IF Holds(c)' THEN Keeps(c)' ELSE job' = Due'
      BY <1>3, <1>4, <1>6, <2>3 DEF Keeps
    <2>5. ~Writing(c) /\ ~Writing(c)' /\ ~Looked(c)' /\ At(pc'[c], mem'[c].op)
      BY <1>1, <1>4 DEF Writing, Looked, At, Blank
    <2>6. /\ Placed' /\ Unborn' /\ Absent' /\ Versioned' /\ SpecSound' /\ SwitchSound' /\ OccSound'
          /\ Others(c) /\ raced \subseteq raced'
      BY <1>1, <1>2, <1>3, <1>4, <1>6, <2>1, <2>4, <2>5, SwitchKeeps
    <2>7. Enabling(c)' => Enabling(c)
      BY <1>1, <1>4 DEF Enabling, Blank
    <2>8. PauseSound'
      <3>1. CASE switched
        BY <1>1, <2>6, <3>1, PauseEnds DEF IInv, Sound
      <3>2. CASE ~switched /\ Apart'
        <4>1. mem[c].op \in {"disable", "schedule", "unschedule"}
          BY <1>1, <1>2, <3>2 DEF IInv, Sound, PauseSound, Enabling, Enables
        <4>2. ~\E d \in Clients : pc[d] = "pause"
          <5> SUFFICES ASSUME NEW d \in Clients, pc[d] = "pause" PROVE FALSE
            OBVIOUS
          <5>1. Switching(d) /\ d # c
            BY <1>1 DEF Placed, At, Switching, Creates
          <5> QED
            BY <2>1, <3>2, <5>1 DEF AmongSwitching, Apart
        <4>3. ~agent.enabled
          BY <2>6, <3>2, <4>2 DEF IInv, Sound, PauseSound, Apart
        <4>4. ~job'
          BY <2>1, <4>1, <4>3 DEF JobAfter
        <4> QED
          BY <1>1, <1>4, <2>6, <2>7, <4>3, <4>4, PauseFrame DEF IInv, Sound, Alone, PauseSound
      <3>3. CASE ~Apart'
        <4>1. Enabling(c)' => switched'
          BY <1>1, <2>7 DEF IInv, Sound, PauseSound
        <4> QED
          BY <1>1, <2>6, <3>3, <4>1, PauseEnds DEF IInv, Sound
      <3> QED
        BY <3>1, <3>2, <3>3
    <2> QED
      BY <2>6, <2>8 DEF Sound
  <1> QED
    BY <1>5, <1>6

LEMMA DeleteKeeps == ASSUME IInv, NEW c \in Clients, Delete(c) PROVE Sound'
  <1> USE ClockApart
  <1>1. /\ TypeOK /\ Placed /\ There /\ raced' = AmongSwitching(c) /\ ~job'
        /\ UNCHANGED <<agent, specs, runs, occ, live, switched, blind>>
    BY DEF IInv, Sound, Delete
  <1>2. /\ pc[c] = "idle" /\ pc'[c] = "erase" /\ mem[c] = Blank
        /\ mem'[c].op = "delete" /\ ~mem'[c].missed /\ Alone(c)
    BY <1>1, ComesIn DEF Delete, AllOps
  <1>3. /\ Placed' /\ Unborn' /\ Absent' /\ Versioned' /\ SpecSound' /\ SwitchSound' /\ OccSound'
        /\ Others(c) /\ raced \subseteq raced'
    <2>1. There' = There /\ agent.state # "unborn"
      BY <1>1 DEF There
    <2>2. Holds(c)' /\ Keeps(c)'
      BY <1>1, <1>2 DEF Holds, Switching, Keeps, Creates
    <2>3. ~Writing(c) /\ ~Writing(c)' /\ ~Looked(c)' /\ At(pc'[c], mem'[c].op)
      BY <1>2 DEF Writing, Looked, At
    <2> QED
      BY <1>1, <1>2, <2>1, <2>2, <2>3, SwitchKeeps
  <1>4. PauseSound'
    <2>1. ~Enabling(c)'
      BY <1>2 DEF Enabling
    <2> QED
      BY <1>1, <1>2, <1>3, <2>1, PauseFrame DEF IInv, Sound, Alone
  <1> QED
    BY <1>3, <1>4 DEF Sound

LEMMA EraseKeeps == ASSUME IInv, NEW c \in Clients, Erase(c) PROVE Sound'
  <1> USE ClockApart
  <1>1. /\ TypeOK /\ Placed /\ pc[c] = "erase" /\ raced' = AmongSwitching(c)
        /\ agent' = [state |-> "gone", enabled |-> FALSE, recurring |-> FALSE]
        /\ specs' = [v \in Versions |-> "none"] /\ live' = 0
        /\ runs' = [r \in Runs |-> [state |-> "none", by |-> "none"]]
        /\ occ' = [r \in Runs |-> "none"]
        /\ UNCHANGED <<job, switched>>
    BY DEF IInv, Sound, Erase
  <1>2. pc'[c] = "idle" /\ mem'[c] = Blank /\ Alone(c)
    BY <1>1, Replies DEF Erase
  <1>3. Others(c) /\ raced \subseteq raced' /\ ~There' /\ Saved' = {} /\ Published' = {} /\ LiveSet' = {}
    BY <1>1, <1>2, AloneOthers DEF AmongSwitching, There, Saved, Published, LiveSet
  <1>4. Placed'
    BY <1>1, <1>2, PlacedMoves DEF At, Blank
  <1>5. Unborn' /\ Absent'
    BY <1>1, <1>3 DEF Unborn, Absent
  <1>6. Versioned'
    <2>1. Gapless'
      <3>1. MaxVersion \in Nat
        BY JobsAssumption
      <3>2. 0 \in 0..MaxVersion /\ Saved' = 1..0
        BY <1>3, <3>1
      <3> QED
        BY <3>2 DEF Gapless
    <2>2. ASSUME NEW d \in Clients PROVE Numbered(d)'
      <3>1. CASE d = c
        BY <1>2, <3>1 DEF Numbered, Blank
      <3>2. CASE d # c
        <4>1. Numbered(d) /\ pc'[d] = pc[d] /\ mem'[d].op = mem[d].op /\ mem'[d].version = mem[d].version
          BY <1>3, <3>2 DEF IInv, Sound, Versioned, Others
        <4> QED
          BY <1>3, <4>1 DEF Numbered
      <3> QED
        BY <3>1, <3>2
    <2> QED
      BY <2>1, <2>2 DEF Versioned
  <1>7. SpecSound'
    <2> SUFFICES ASSUME "spec" \notin raced' PROVE SpecSound'
      BY DEF SpecSound
    <2>1. \A d \in Clients : Writing(d)' => Writing(d) /\ d # c
      BY <1>2, <1>3 DEF Others, Writing
    <2>2. ASSUME NEW d \in Clients, Writing(d)' PROVE Writes(d)'
      <3>1. mem'[d].op # "go_live" /\ pc'[d] \in {"archive", "insert"} => mem'[d].version \in Versions
        BY <1>6 DEF Versioned, Numbered
      <3>2. mem'[d].op # "go_live" /\ pc'[d] \in {"archive", "insert"} => specs'[mem'[d].version] = "none"
        BY <1>1, <3>1
      <3> QED
        BY <1>3, <3>2 DEF Writes
    <2>3. "spec" \notin raced
      BY <1>3
    <2> QED
      BY <1>3, <2>1, <2>2, <2>3 DEF IInv, Sound, SpecSound
  <1>8. SwitchSound'
    <2>1. Holds(c) /\ ~Holds(c)' /\ ~Due'
      BY <1>1, <1>2, <1>3 DEF Holds, Switching, Due
    <2>2. Apart' => Keeps(c)
      BY <1>3, <2>1 DEF IInv, Sound, SwitchSound, Apart
    <2>3. Apart' => job' = Due'
      BY <1>1, <2>1, <2>2 DEF Keeps, TypeOK, Due
    <2> QED
      BY <1>1, <1>3, <2>1, <2>3, SwitchMoves
  <1>9. PauseSound'
    <2>1. ~Enabling(c)'
      BY <1>2 DEF Enabling, Blank
    <2> QED
      BY <1>1, <1>2, <1>3, <2>1, PauseFrame DEF IInv, Sound, Alone
  <1>10. OccSound'
    <2>1. \A r \in Runs : ~Alive(r)' /\ ~InFlight(r)'
      BY <1>1 DEF Alive, Waiting, InFlight
    <2> QED
      BY <1>3, <2>1 DEF OccSound, LookSound
  <1> QED
    BY <1>4, <1>5, <1>6, <1>7, <1>8, <1>9, <1>10 DEF Sound

-----------------------------------------------------------------------------
(* What is launched.                                                       *)

(* Nothing but the runs, and who is noticed to have looked.                *)
LEMMA ComesUpFields ==
  ASSUME TypeOK, NEW p \in Procs
  PROVE  /\ ComesUp(p).op = mem[p].op /\ ComesUp(p).version = mem[p].version
         /\ ComesUp(p).run = mem[p].run
         /\ Looked(p) => ComesUp(p).missed
         /\ ~Looked(p) => ComesUp(p) = mem[p]
  <1>1. mem[p] \in Memory
    BY DEF TypeOK
  <1>2. ASSUME NEW m, m = [mem[p] EXCEPT !.missed = TRUE]
        PROVE  m.op = mem[p].op /\ m.version = mem[p].version /\ m.run = mem[p].run /\ m.missed
    BY <1>1, <1>2 DEF Memory
  <1> QED
    BY <1>2 DEF ComesUp

(* Definitions, schedule and switch are left alone.                        *)
LEMMA RunsKeep ==
  ASSUME IInv, NEW p \in Procs, Others(p), agent.state # "unborn",
         UNCHANGED <<agent, job, specs, live, raced, switched>>,
         p \in Clients => ~Writing(p) /\ ~Writing(p)' /\ mem'[p].op # "go_live",
         p \in Clients /\ Apart' /\ Holds(p)' => Holds(p) /\ (Keeps(p) => Keeps(p)'),
         p \in Clients /\ Apart' /\ Holds(p) /\ Keeps(p) /\ ~Holds(p)' => job = Due
  PROVE  Unborn' /\ Absent' /\ Versioned' /\ SpecSound' /\ SwitchSound'
  <1>1. Unborn' /\ Absent'
    BY AbsentFrame DEF IInv, Sound, Unborn
  <1>2. Versioned'
    <2>1. p \in Clients => Numbered(p)'
      BY DEF Numbered, Writing
    <2> QED
      BY <2>1, VersionFrame DEF IInv, Sound, Saved, There
  <1>3. SpecSound'
    BY SpecFrame DEF IInv, Sound
  <1>4. SwitchSound'
    BY SwitchFrame DEF IInv, Sound
  <1> QED
    BY <1>1, <1>2, <1>3, <1>4

(* A pair that is in flight together: nothing but r is launched.           *)
LEMMA PairsKeep ==
  ASSUME OccSound, NEW r \in Runs, blind \subseteq blind',
         \A s \in Runs \ {r} : Alive(s)' => Alive(s),
         \/ Alive(r)' => Alive(r)
         \/ r \in blind'
         \/ \A s \in Runs \ {r} : ~Alive(s)
  PROVE  \A s, t \in Runs : Alive(s)' /\ Alive(t)' /\ s # t => blind' \cap {s, t} # {}
  BY DEF OccSound

LEMMA DryOutcomeKeeps == ASSUME IInv, NEW c \in Clients, NEW r \in Runs, DryOutcome(c, r) PROVE Sound'
  <1> USE ClockApart
  <1>1. /\ TypeOK /\ Placed /\ OccSound /\ There /\ pc[c] = "outcome" /\ Unused(r)
        /\ occ' = [occ EXCEPT ![r] = "running"]
        /\ blind' = IF Blindly(c) THEN blind \cup {r} ELSE blind
        /\ UNCHANGED <<agent, job, specs, runs, live, raced, switched>>
    BY DEF IInv, Sound, DryOutcome
  <1>2. mem[c].op \in {"create_dry", "dry_run"}
    BY <1>1 DEF Placed, At
  <1>3. /\ pc'[c] = "run" /\ \A q \in Procs \ {c} : pc'[q] = pc[q]
    BY <1>1, Goes DEF DryOutcome
  <1>4. mem'[c].op = mem[c].op /\ mem'[c].run = r
    <2>1. mem[c] \in Memory /\ mem'[c] = [mem[c] EXCEPT !.run = r]
      BY <1>1 DEF TypeOK, DryOutcome
    <2> QED
      BY <2>1 DEF Memory
  <1>5. \A q \in Procs \ {c} : mem'[q] = ComesUp(q)
    BY DEF DryOutcome
  <1>6. Others(c)
    BY <1>1, <1>3, <1>5, ComesUpFields DEF Others
  <1>7. Placed'
    <2>1. \A q \in Procs \ {c} : mem'[q].op = mem[q].op
      BY <1>1, <1>5, ComesUpFields
    <2>2. mem[Clock].op = "draft"
      BY <1>1 DEF Placed
    <2>3. \A q \in Procs \ {c} : pc[q] = "idle" \/ (q = Clock /\ pc[q] # "launch") => mem'[q] = mem[q]
      <3>1. ASSUME NEW q \in Procs, pc[q] = "idle" \/ (q = Clock /\ pc[q] # "launch") PROVE ~Looked(q)
        BY <2>2, <3>1 DEF Looked
      <3> QED
        BY <1>1, <1>5, <3>1, ComesUpFields
    <2>4. At(pc'[c], mem'[c].op) /\ pc'[c] # "idle"
      BY <1>2, <1>3, <1>4 DEF At
    <2> QED
      BY <1>1, <1>3, <2>1, <2>3, <2>4 DEF Placed
  <1>8. Unborn' /\ Absent' /\ Versioned' /\ SpecSound' /\ SwitchSound'
    <2>1. ~Writing(c) /\ ~Writing(c)' /\ mem'[c].op # "go_live" /\ agent.state # "unborn"
      BY <1>1, <1>2, <1>3, <1>4 DEF Writing, There
    <2>2. (Holds(c)' <=> Holds(c)) /\ (Keeps(c) => Keeps(c)')
      BY <1>1, <1>2, <1>3, <1>4 DEF Holds, Switching, Keeps, There
    <2> QED
      BY <1>1, <1>6, <2>1, <2>2, RunsKeep
  <1>9. PauseSound'
    <2>1. ~Enabling(c)'
      BY <1>2, <1>3, <1>4 DEF Enabling
    <2> QED
      BY <1>1, <1>3, <1>6, <2>1, PauseFrame DEF IInv, Sound
  <1>10. OccSound'
    <2>1. \A p \in Procs : LookSound(p)'
      <3> SUFFICES ASSUME NEW p \in Procs, Looked(p)' PROVE mem'[p].missed
        BY DEF LookSound
      <3>1. p # c
        BY <1>3 DEF Looked
      <3>2. Looked(p)
        BY <1>1, <1>3, <1>5, <3>1, ComesUpFields DEF Looked
      <3> QED
        BY <1>1, <1>5, <3>1, <3>2, ComesUpFields
    <2>2. \A s \in Runs \ {r} : Alive(s)' <=> Alive(s)
      BY <1>1 DEF Alive, Waiting, InFlight, TypeOK
    <2>3. r \in blind' \/ \A s \in Runs \ {r} : ~Alive(s)
      <3> SUFFICES ASSUME NEW s \in Runs \ {r}, Alive(s) PROVE Blindly(c)
        BY <1>1
      <3>1. CASE Waiting(s)
        BY <3>1 DEF Blindly
      <3>2. CASE InFlight(s)
        <4>1. Looked(c)
          BY <1>1, <1>2 DEF Looked
        <4> QED
          BY <1>1, <3>2, <4>1 DEF OccSound, LookSound, Blindly
      <3> QED
        BY <3>1, <3>2 DEF Alive
    <2>4. \A s, t \in Runs : Alive(s)' /\ Alive(t)' /\ s # t => blind' \cap {s, t} # {}
      BY <1>1, <2>2, <2>3, PairsKeep
    <2>5. ASSUME NEW d \in Clients, pc'[d] = "run" PROVE mem'[d].run \in Runs /\ occ'[mem'[d].run] # "none"
      <3>1. CASE d = c
        BY <1>1, <1>4, <3>1 DEF TypeOK
      <3>2. CASE d # c
        BY <1>1, <1>6, <2>5, <3>2 DEF Others, OccSound, TypeOK
      <3> QED
        BY <3>1, <3>2
    <2> QED
      BY <2>1, <2>4, <2>5 DEF OccSound
  <1> QED
    BY <1>7, <1>8, <1>9, <1>10 DEF Sound

LEMMA DryStartKeeps == ASSUME IInv, NEW c \in Clients, DryStart(c) PROVE Sound'
  <1> USE ClockApart
  <1> DEFINE r == mem[c].run
  <1>1. /\ TypeOK /\ Placed /\ OccSound /\ There /\ pc[c] = "run"
        /\ runs[r].state = "none" /\ runs' = [runs EXCEPT ![r] = [state |-> "queued", by |-> "dry_run"]]
        /\ UNCHANGED <<agent, job, specs, occ, live, raced, switched, blind>>
    BY DEF IInv, Sound, DryStart, Launch, history
  <1>2. mem[c].op \in {"create_dry", "dry_run"} /\ r \in Runs /\ occ[r] # "none"
    BY <1>1 DEF Placed, At, OccSound
  <1>3. pc'[c] = "idle" /\ mem'[c] = Blank /\ Alone(c)
    BY <1>1, Replies DEF DryStart
  <1>4. Others(c)
    BY <1>3, AloneOthers
  <1>5. Placed'
    BY <1>1, <1>3, PlacedMoves DEF At, Blank
  <1>6. Unborn' /\ Absent' /\ Versioned' /\ SpecSound' /\ SwitchSound'
    <2>1. ~Writing(c) /\ ~Writing(c)' /\ mem'[c].op # "go_live" /\ agent.state # "unborn" /\ ~Holds(c)'
      BY <1>1, <1>2, <1>3 DEF Writing, There, Blank, Holds, Switching
    <2>2. Holds(c) /\ Keeps(c) => job = Due
      <3>1. Holds(c) => mem[c].op = "create_dry"
        BY <1>1, <1>2 DEF Holds, Switching, Creates
      <3> QED
        BY <1>1, <3>1 DEF Keeps, Due, TypeOK, Creates
    <2> QED
      BY <1>1, <1>4, <2>1, <2>2, RunsKeep
  <1>7. PauseSound'
    <2>1. ~Enabling(c)' /\ \A s \in Runs : runs'[s].by = "clock" => runs[s].by = "clock"
      BY <1>1, <1>2, <1>3 DEF Enabling, Blank, TypeOK
    <2> QED
      BY <1>1, <1>3, <1>4, <2>1, PauseFrame DEF IInv, Sound, Alone
  <1>8. OccSound'
    <2>1. \A s \in Runs : (InFlight(s)' <=> InFlight(s)) /\ (Alive(s)' <=> Alive(s))
      BY <1>1, <1>2 DEF Alive, Waiting, InFlight, TypeOK
    <2>2. \A p \in Procs : Looked(p)' => Looked(p) /\ mem'[p] = mem[p]
      BY <1>3 DEF Alone, Looked
    <2>3. \A d \in Clients : pc'[d] = "run" => pc[d] = "run" /\ mem'[d].run = mem[d].run
      BY <1>3, <1>4 DEF Others
    <2> QED
      BY <1>1, <2>1, <2>2, <2>3 DEF OccSound, LookSound
  <1> QED
    BY <1>5, <1>6, <1>7, <1>8 DEF Sound

LEMMA RunNowKeeps == ASSUME IInv, NEW c \in Clients, RunNow(c) PROVE Sound'
  <1> USE ClockApart
  <1>1. /\ TypeOK /\ Placed /\ There
        /\ UNCHANGED <<agent, job, specs, runs, occ, live, raced, switched, blind>>
    BY DEF IInv, Sound, RunNow, history
  <1>2. /\ pc[c] = "idle" /\ pc'[c] = "launch" /\ mem[c] = Blank
        /\ mem'[c].op = "run_now" /\ ~mem'[c].missed /\ Alone(c)
    BY <1>1, ComesIn DEF RunNow, AllOps
  <1>3. Others(c)
    BY <1>2, AloneOthers
  <1>4. Placed'
    BY <1>1, <1>2, PlacedMoves DEF At
  <1>5. Unborn' /\ Absent' /\ Versioned' /\ SpecSound' /\ SwitchSound'
    <2>1. ~Writing(c) /\ ~Writing(c)' /\ ~Holds(c) /\ ~Holds(c)' /\ agent.state # "unborn"
      BY <1>1, <1>2 DEF Writing, There, Holds, Switching, Creates
    <2> QED
      BY <1>1, <1>2, <1>3, <2>1, RunsKeep
  <1>6. PauseSound'
    <2>1. ~Enabling(c)'
      BY <1>2 DEF Enabling
    <2> QED
      BY <1>1, <1>2, <1>3, <2>1, PauseFrame DEF IInv, Sound, Alone
  <1>7. OccSound'
    <2>1. ~Looked(c)'
      BY <1>2 DEF Looked
    <2> QED
      BY <1>1, <1>2, <2>1, OccMoves DEF IInv, Sound, There
  <1> QED
    BY <1>4, <1>5, <1>6, <1>7 DEF Sound

LEMMA LaunchNowKeeps == ASSUME IInv, NEW c \in Clients, NEW r \in Runs, LaunchNow(c, r) PROVE Sound'
  <1> USE ClockApart
  <1>1. /\ TypeOK /\ Placed /\ OccSound /\ pc[c] = "launch" /\ blind \subseteq blind'
        /\ \/ /\ There /\ Unused(r) /\ runs' = [runs EXCEPT ![r] = [state |-> "queued", by |-> "person"]]
              /\ r \in blind'
           \/ runs' = runs
        /\ UNCHANGED <<agent, job, specs, occ, live, raced, switched>>
    BY DEF IInv, Sound, LaunchNow, Launch
  <1>2. mem[c].op \in {"plain", "create_live", "go_live", "run_now"}
    BY <1>1 DEF Placed, At
  <1>3. pc'[c] = "idle" /\ mem'[c] = Blank /\ Alone(c)
    BY <1>1, Replies DEF LaunchNow
  <1>4. Others(c)
    BY <1>3, AloneOthers
  <1>5. Placed'
    BY <1>1, <1>3, PlacedMoves DEF At, Blank
  <1>6. Unborn' /\ Absent' /\ Versioned' /\ SpecSound' /\ SwitchSound'
    <2>1. ~Writing(c) /\ ~Writing(c)' /\ mem'[c].op # "go_live" /\ agent.state # "unborn" /\ ~Holds(c)'
      BY <1>1, <1>2, <1>3 DEF Writing, Blank, Holds, Switching, IInv, Sound, Unborn
    <2>2. Keeps(c) => job = Due
      BY <1>1 DEF Keeps
    <2> QED
      BY <1>1, <1>4, <2>1, <2>2, RunsKeep
  <1>7. PauseSound'
    <2>1. ~Enabling(c)' /\ \A s \in Runs : runs'[s].by = "clock" => runs[s].by = "clock"
      BY <1>1, <1>3 DEF Enabling, Blank, TypeOK
    <2> QED
      BY <1>1, <1>3, <1>4, <2>1, PauseFrame DEF IInv, Sound, Alone
  <1>8. OccSound'
    <2>1. \A s \in Runs : (InFlight(s)' <=> InFlight(s)) /\ (s # r => (Alive(s)' <=> Alive(s)))
      BY <1>1 DEF Alive, Waiting, InFlight, TypeOK
    <2>2. \A p \in Procs : Looked(p)' => Looked(p) /\ mem'[p] = mem[p]
      BY <1>3 DEF Alone, Looked
    <2>3. \A d \in Clients : pc'[d] = "run" => pc[d] = "run" /\ mem'[d].run = mem[d].run
      BY <1>3, <1>4 DEF Others
    <2>4. (Alive(r)' => Alive(r)) \/ r \in blind'
      BY <1>1 DEF Alive, Waiting, InFlight
    <2>5. \A s, t \in Runs : Alive(s)' /\ Alive(t)' /\ s # t => blind' \cap {s, t} # {}
      BY <1>1, <2>1, <2>4, PairsKeep
    <2>6. There' = There
      BY <1>1 DEF There
    <2> QED
      BY <1>1, <2>1, <2>2, <2>3, <2>5, <2>6 DEF OccSound, LookSound
  <1> QED
    BY <1>5, <1>6, <1>7, <1>8 DEF Sound

-----------------------------------------------------------------------------
(* The clock, the engine and a crash.                                      *)

(* _fire moves: it stays among its labels, and blank before it launches.   *)
LEMMA ClockMoves ==
  ASSUME Placed, \A q \in Procs \ {Clock} : pc'[q] = pc[q] /\ mem'[q] = mem[q],
         pc'[Clock] \in {"idle", "busy", "launch"}, mem'[Clock] = Blank
  PROVE  Placed'
  BY ClockApart DEF Placed, Blank

LEMMA FireKeeps == ASSUME IInv, Fire PROVE Sound'
  <1> USE ClockApart
  <1>1. /\ TypeOK /\ Placed /\ job /\ There /\ agent.enabled /\ pc[Clock] = "idle"
        /\ UNCHANGED <<agent, job, specs, runs, occ, mem, live, raced, switched, blind>>
    BY DEF IInv, Sound, Fire, history
  <1>2. pc'[Clock] = "busy" /\ Alone(Clock)
    BY <1>1, Goes DEF Fire, Alone
  <1>3. Others(Clock) /\ mem[Clock] = Blank /\ agent.state # "unborn"
    BY <1>1, <1>2, AloneOthers DEF Placed, There
  <1>4. Placed'
    BY <1>1, <1>2, <1>3, ClockMoves DEF Alone
  <1>5. Unborn' /\ Absent' /\ Versioned' /\ SpecSound' /\ SwitchSound'
    BY <1>1, <1>3, RunsKeep
  <1>6. PauseSound'
    <2>1. switched \/ ~Apart
      BY <1>1 DEF IInv, Sound, PauseSound
    <2>2. \A d \in Clients : Enabling(d)' => switched
      BY <1>1, <1>3 DEF IInv, Sound, PauseSound, Enabling, Others
    <2> QED
      BY <1>1, <2>1, <2>2 DEF PauseSound, Apart
  <1>7. OccSound'
    <2>1. \A p \in Procs : Looked(p)' => Looked(p) /\ mem'[p] = mem[p]
      BY <1>1, <1>2 DEF Alone, Looked, Placed
    <2>2. \A d \in Clients : pc'[d] = "run" => pc[d] = "run" /\ mem'[d].run = mem[d].run
      BY <1>3 DEF Others
    <2> QED
      BY <1>1, <2>1, <2>2, OccFrame DEF IInv, Sound, There
  <1> QED
    BY <1>4, <1>5, <1>6, <1>7 DEF Sound

LEMMA FireLooksKeeps == ASSUME IInv, FireLooks PROVE Sound'
  <1> USE ClockApart
  <1>1. /\ TypeOK /\ Placed /\ pc[Clock] = "busy"
        /\ UNCHANGED <<agent, job, specs, runs, occ, mem, live, raced, switched, blind>>
    BY DEF IInv, Sound, FireLooks, history
  <1>2. /\ pc'[Clock] = (IF Busy THEN "idle" ELSE "launch") /\ Alone(Clock)
    BY <1>1, Goes DEF FireLooks, Alone
  <1>3. Others(Clock) /\ mem[Clock] = Blank /\ agent.state # "unborn"
    BY <1>1, <1>2, AloneOthers DEF Placed, IInv, Sound, Unborn
  <1>4. Placed'
    BY <1>1, <1>2, <1>3, ClockMoves DEF Alone
  <1>5. Unborn' /\ Absent' /\ Versioned' /\ SpecSound' /\ SwitchSound'
    BY <1>1, <1>3, RunsKeep
  <1>6. PauseSound'
    <2>1. switched \/ ~Apart
      BY <1>1 DEF IInv, Sound, PauseSound
    <2>2. \A d \in Clients : Enabling(d)' => switched
      BY <1>1, <1>3 DEF IInv, Sound, PauseSound, Enabling, Others
    <2> QED
      BY <1>1, <2>1, <2>2 DEF PauseSound, Apart
  <1>7. OccSound'
    <2>1. \A p \in Procs \ {Clock} : Looked(p)' => Looked(p) /\ mem'[p] = mem[p]
      BY <1>1, <1>2 DEF Alone, Looked
    <2>2. Looked(Clock)' => \A r \in Runs : ~InFlight(r)
      BY <1>1, <1>2 DEF Looked, Placed, Busy, InFlight
    <2>3. \A d \in Clients : pc'[d] = "run" => pc[d] = "run" /\ mem'[d].run = mem[d].run
      BY <1>3 DEF Others
    <2> QED
      BY <1>1, <2>1, <2>2, <2>3, OccFrame DEF IInv, Sound, There
  <1> QED
    BY <1>4, <1>5, <1>6, <1>7 DEF Sound

LEMMA FireLaunchesKeeps == ASSUME IInv, NEW r \in Runs, FireLaunches(r) PROVE Sound'
  <1> USE ClockApart
  <1>1. /\ TypeOK /\ Placed /\ OccSound /\ pc[Clock] = "launch" /\ blind \subseteq blind'
        /\ \/ /\ Unused(r) /\ runs' = [runs EXCEPT ![r] = [state |-> "queued", by |-> "clock"]]
              /\ Blindly(Clock) => r \in blind'
           \/ runs' = runs
        /\ UNCHANGED <<agent, job, specs, occ, live, raced, switched>>
    BY DEF IInv, Sound, FireLaunches, Launch
  <1>2. pc'[Clock] = "idle" /\ mem'[Clock] = Blank /\ Alone(Clock)
    BY <1>1, Replies DEF FireLaunches
  <1>3. Others(Clock) /\ agent.state # "unborn"
    BY <1>1, <1>2, AloneOthers DEF IInv, Sound, Unborn
  <1>4. Placed'
    BY <1>1, <1>2, ClockMoves DEF Alone
  <1>5. Unborn' /\ Absent' /\ Versioned' /\ SpecSound' /\ SwitchSound'
    BY <1>1, <1>3, RunsKeep
  <1>6. PauseSound'
    <2>1. switched \/ ~Apart
      BY <1>1 DEF IInv, Sound, PauseSound
    <2>2. \A d \in Clients : Enabling(d)' => switched
      BY <1>1, <1>3 DEF IInv, Sound, PauseSound, Enabling, Others
    <2> QED
      BY <1>1, <2>1, <2>2 DEF PauseSound, Apart
  <1>7. OccSound'
    <2>1. \A s \in Runs : (InFlight(s)' <=> InFlight(s)) /\ (s # r => (Alive(s)' <=> Alive(s)))
      BY <1>1 DEF Alive, Waiting, InFlight, TypeOK
    <2>2. \A p \in Procs : Looked(p)' => Looked(p) /\ mem'[p] = mem[p]
      BY <1>2 DEF Alone, Looked, Blank
    <2>3. \A d \in Clients : pc'[d] = "run" => pc[d] = "run" /\ mem'[d].run = mem[d].run
      BY <1>3 DEF Others
    <2>4. \/ Alive(r)' => Alive(r)
          \/ r \in blind'
          \/ \A s \in Runs \ {r} : ~Alive(s)
      <3>1. CASE runs' = runs
        BY <1>1, <3>1 DEF Alive, Waiting, InFlight
      <3>2. CASE Blindly(Clock) /\ runs' # runs
        BY <1>1, <3>2
      <3>3. CASE ~Blindly(Clock)
        <4>1. Looked(Clock) /\ ~mem[Clock].missed /\ \A s \in Runs : ~Waiting(s)
          BY <1>1, <3>3 DEF Looked, Blindly
        <4>2. \A s \in Runs : ~InFlight(s)
          BY <1>1, <4>1 DEF OccSound, LookSound
        <4> QED
          BY <4>1, <4>2 DEF Alive
      <3> QED
        BY <3>1, <3>2, <3>3
    <2>5. \A s, t \in Runs : Alive(s)' /\ Alive(t)' /\ s # t => blind' \cap {s, t} # {}
      BY <1>1, <2>1, <2>4, PairsKeep
    <2>6. There' = There
      BY <1>1 DEF There
    <2> QED
      BY <1>1, <2>1, <2>2, <2>3, <2>5, <2>6 DEF OccSound, LookSound
  <1> QED
    BY <1>4, <1>5, <1>6, <1>7 DEF Sound

LEMMA BeginRunKeeps == ASSUME IInv, NEW r \in Runs, BeginRun(r) PROVE Sound'
  <1> USE ClockApart
  <1>1. /\ TypeOK /\ Placed /\ OccSound /\ runs[r].state = "queued"
        /\ runs' = [runs EXCEPT ![r].state = "begun"]
        /\ UNCHANGED <<agent, job, specs, pc, live, raced, switched, blind>>
    BY DEF IInv, Sound, BeginRun, history
  <1>2. agent.state # "unborn"
    BY <1>1 DEF IInv, Sound, Unborn
  <1>3. \/ occ[r] = "none" /\ occ' = [occ EXCEPT ![r] = "running"] /\ \A p \in Procs : mem'[p] = ComesUp(p)
        \/ occ' = occ /\ mem' = mem
    BY DEF BeginRun
  <1>4. \A p \in Procs : /\ mem'[p].op = mem[p].op /\ mem'[p].version = mem[p].version
                         /\ mem'[p].run = mem[p].run /\ (~Looked(p) => mem'[p] = mem[p])
    BY <1>1, <1>3, ComesUpFields
  <1>5. Others(Clock)
    BY <1>1, <1>4 DEF Others
  <1>6. Placed'
    <2>1. \A p \in Procs : pc[p] = "idle" \/ (p = Clock /\ pc[p] # "launch") => ~Looked(p)
      BY <1>1 DEF Placed, Looked
    <2> QED
      BY <1>1, <1>4, <2>1 DEF Placed
  <1>7. Unborn' /\ Absent' /\ Versioned' /\ SpecSound' /\ SwitchSound'
    BY <1>1, <1>2, <1>5, RunsKeep
  <1>8. PauseSound'
    <2>1. \A s \in Runs : runs'[s].by = runs[s].by
      BY <1>1 DEF TypeOK
    <2> QED
      BY <1>1, <1>5, <2>1, PauseFrame DEF IInv, Sound
  <1>9. OccSound'
    <2>1. \A p \in Procs : Looked(p)' <=> Looked(p)
      BY <1>1, <1>4 DEF Looked
    <2>2. \A p \in Procs : LookSound(p)'
      <3>1. CASE occ' = occ /\ mem' = mem
        BY <1>1, <2>1, <3>1 DEF OccSound, LookSound, InFlight
      <3>2. CASE \A p \in Procs : mem'[p] = ComesUp(p)
        BY <1>1, <2>1, <3>2, ComesUpFields DEF LookSound
      <3> QED
        BY <1>3, <3>1, <3>2
    <2>3. \A s \in Runs : Alive(s)' => Alive(s)
      BY <1>1, <1>3 DEF Alive, Waiting, InFlight, TypeOK
    <2>4. \A s, t \in Runs : Alive(s)' /\ Alive(t)' /\ s # t => blind' \cap {s, t} # {}
      BY <1>1, <2>3, PairsKeep
    <2>5. \A s \in Runs : occ[s] # "none" => occ'[s] # "none"
      BY <1>1, <1>3 DEF TypeOK
    <2> QED
      BY <1>1, <1>4, <2>2, <2>4, <2>5 DEF OccSound, There
  <1> QED
    BY <1>6, <1>7, <1>8, <1>9 DEF Sound

LEMMA ProgressKeeps ==
  ASSUME IInv, NEW r \in Runs, NEW to \in {"running", "recovering", "settled"}, Progress(r, to)
  PROVE  Sound'
  <1> USE ClockApart
  <1>1. /\ TypeOK /\ Placed /\ OccSound /\ InFlight(r)
        /\ occ' = [occ EXCEPT ![r] = to]
        /\ UNCHANGED <<agent, job, specs, runs, pc, mem, live, raced, switched, blind>>
    BY DEF IInv, Sound, Progress, InFlight, history, procs
  <1>2. agent.state # "unborn" /\ Others(Clock)
    BY <1>1 DEF IInv, Sound, Unborn, InFlight, Others
  <1>3. Placed'
    BY <1>1 DEF Placed
  <1>4. Unborn' /\ Absent' /\ Versioned' /\ SpecSound' /\ SwitchSound'
    BY <1>1, <1>2, RunsKeep
  <1>5. PauseSound'
    BY <1>1, <1>2, PauseFrame DEF IInv, Sound
  <1>6. OccSound'
    <2>1. \A p \in Procs : LookSound(p)'
      BY <1>1 DEF OccSound, LookSound, Looked
    <2>2. \A s \in Runs : Alive(s)' => Alive(s)
      BY <1>1 DEF Alive, Waiting, InFlight, TypeOK
    <2>3. \A s, t \in Runs : Alive(s)' /\ Alive(t)' /\ s # t => blind' \cap {s, t} # {}
      BY <1>1, <2>2, PairsKeep
    <2>4. \A s \in Runs : occ[s] # "none" => occ'[s] # "none"
      BY <1>1 DEF TypeOK
    <2> QED
      BY <1>1, <2>1, <2>3, <2>4 DEF OccSound, There
  <1> QED
    BY <1>3, <1>4, <1>5, <1>6 DEF Sound

LEMMA RestartKeeps == ASSUME IInv, Restart PROVE Sound'
  <1> USE ClockApart
  <1>1. /\ TypeOK /\ Placed /\ OccSound /\ job' = Due
        /\ runs' = [s \in Runs |-> IF runs[s].state = "queued" THEN [runs[s] EXCEPT !.state = "begun"]
                                   ELSE runs[s]]
        /\ raced \subseteq raced'
        /\ \A c \in Clients : /\ pc[c] = "pause" => "create" \in raced'
                              /\ Defining(c) => "spec" \in raced'
        /\ UNCHANGED <<agent, specs, occ, live, switched, blind>>
    BY DEF IInv, Sound, Restart, Due
  <1>2. \A p \in Procs : pc'[p] = "idle" /\ mem'[p] = Blank
    BY DEF Restart
  <1>3. There' = There /\ Due' = Due /\ Saved' = Saved /\ Published' = Published /\ LiveSet' = LiveSet
    BY <1>1 DEF There, Due, Saved, Published, LiveSet
  <1>4. \A s \in Runs : /\ runs'[s].by = runs[s].by /\ runs'[s].state # "queued"
                        /\ runs[s].state = "none" => runs'[s].state = "none"
    BY <1>1 DEF TypeOK
  <1>5. Placed'
    BY <1>2 DEF Placed, At, Blank
  <1>6. Unborn' /\ Absent'
    BY <1>1, <1>2, <1>3, <1>4 DEF IInv, Sound, Unborn, Absent, Due, There
  <1>7. Versioned'
    BY <1>2, <1>3 DEF IInv, Sound, Versioned, Gapless, Numbered, Blank
  <1>8. SpecSound'
    <2>1. \A c \in Clients : ~Writing(c)'
      BY <1>2 DEF Writing
    <2>2. "spec" \notin raced' => \A c \in Clients : ~Writing(c)
      BY <1>1 DEF Defining, Writing
    <2> QED
      BY <1>1, <1>3, <2>1, <2>2 DEF IInv, Sound, SpecSound
  <1>9. SwitchSound'
    <2>1. \A c \in Clients : ~Holds(c)'
      BY <1>2 DEF Holds, Switching
    <2> QED
      BY <1>1, <1>3, <2>1 DEF SwitchSound
  <1>10. PauseSound'
    <2>1. \A c \in Clients : ~Enabling(c)'
      BY <1>2 DEF Enabling, Blank
    <2>2. ASSUME Apart', ~switched PROVE ~agent.enabled /\ \A s \in Runs : runs[s].by # "clock"
      <3>1. Apart /\ \A c \in Clients : pc[c] # "pause"
        BY <1>1, <2>2 DEF Apart
      <3> QED
        BY <2>2, <3>1 DEF IInv, Sound, PauseSound
    <2> QED
      BY <1>1, <1>2, <1>4, <2>1, <2>2 DEF PauseSound
  <1>11. OccSound'
    <2>1. \A p \in Procs : ~Looked(p)'
      BY <1>2 DEF Looked, Blank
    <2>2. \A s \in Runs : Alive(s)' => Alive(s)
      BY <1>1, <1>4 DEF Alive, Waiting, InFlight
    <2> QED
      BY <1>1, <1>2, <2>1, <2>2 DEF OccSound, LookSound
  <1> QED
    BY <1>5, <1>6, <1>7, <1>8, <1>9, <1>10, <1>11 DEF Sound

LEMMA StutterKeeps == ASSUME IInv, UNCHANGED vars PROVE Sound'
  <1>1. UNCHANGED <<agent, job, specs, runs, occ, pc, mem, live, raced, switched, blind>>
    BY DEF vars, procs, history
  <1> USE ClockApart
  <1>2. Others(Clock)
    BY <1>1 DEF Others
  <1>3. Placed' /\ Unborn' /\ Absent'
    BY <1>1, AbsentFrame DEF IInv, Sound, Placed, Unborn
  <1>4. Versioned' /\ SpecSound' /\ SwitchSound' /\ PauseSound'
    BY <1>1, <1>2, VersionFrame, SpecFrame, SwitchFrame, PauseFrame DEF IInv, Sound, Saved, There
  <1>5. OccSound'
    BY <1>1, OccFrame DEF IInv, Sound, Looked, There
  <1> QED
    BY <1>3, <1>4, <1>5 DEF Sound

-----------------------------------------------------------------------------
(* The theorems.                                                           *)

LEMMA InitIInv == Init => IInv
  <1> SUFFICES ASSUME Init PROVE IInv
    OBVIOUS
  <1> USE ClockApart
  <1>1. TypeOK
    BY InitTypes
  <1>2. /\ \A p \in Procs : pc[p] = "idle" /\ mem[p] = Blank
        /\ \A r \in Runs : runs[r] = [state |-> "none", by |-> "none"] /\ occ[r] = "none"
        /\ agent = [state |-> "unborn", enabled |-> FALSE, recurring |-> FALSE]
        /\ job = FALSE /\ live = 0 /\ switched = FALSE
    BY DEF Init
  <1>3. Saved = {} /\ Published = {} /\ ~There /\ job = Due
    <2>1. Saved = {} /\ Published = {}
      BY DEF Init, Saved, Published
    <2>2. ~There /\ job = Due
      BY <1>2 DEF There, Due
    <2> QED
      BY <2>1, <2>2
  <1>4. Placed /\ Unborn /\ Absent
    BY <1>2, <1>3 DEF Placed, At, Blank, Unborn, Absent
  <1>5. Versioned
    <2>1. Gapless
      <3>1. MaxVersion \in Nat
        BY JobsAssumption
      <3>2. 0 \in 0..MaxVersion /\ Saved = 1..0
        BY <1>3, <3>1
      <3> QED
        BY <3>2 DEF Gapless
    <2> QED
      BY <1>2, <2>1 DEF Versioned, Numbered, Blank
  <1>6. SpecSound
    BY <1>2, <1>3 DEF SpecSound, Writing, LiveSet
  <1>7. SwitchSound
    BY <1>2, <1>3 DEF SwitchSound, Holds, Switching
  <1>8. PauseSound
    BY <1>2 DEF PauseSound, Enabling, Blank
  <1>9. OccSound
    BY <1>2, <1>3 DEF OccSound, LookSound, Alive, Waiting, InFlight
  <1> QED
    BY <1>1, <1>4, <1>5, <1>6, <1>7, <1>8, <1>9 DEF IInv, Sound

LEMMA StepIInv == IInv /\ [Next]_vars => IInv'
  <1> SUFFICES ASSUME IInv, [Next]_vars PROVE IInv'
    OBVIOUS
  <1>1. TypeOK'
    BY StepTypes DEF IInv, Sound, Versioned
  <1> SUFFICES Sound'
    BY <1>1 DEF IInv
  <1>2. ASSUME NEW c \in Clients, Asks(c) PROVE Sound'
    <2>1. ASSUME NEW recurring \in BOOLEAN, CreateAgent(c, recurring) PROVE Sound'
      BY <2>1, CreateKeeps DEF CreateAgent, Creates
    <2>2. ASSUME NEW recurring \in BOOLEAN, NEW op \in Creates, CreateJob(c, op, recurring) PROVE Sound'
      <3> DEFINE next == IF op = "create_live" THEN "version" ELSE "pause"
      <3>1. op # "plain" /\ Create(c, op, recurring, next)
        BY <2>2 DEF CreateJob
      <3>2. next = CASE op = "plain" -> "register" [] op = "create_live" -> "version" [] OTHER -> "pause"
        BY <3>1
      <3> HIDE DEF next
      <3> QED
        BY <3>1, <3>2, CreateKeeps
    <2>3. ASSUME NEW op \in Drafts, PutSpec(c, op) PROVE Sound'
      BY <2>3, PutSpecKeeps
    <2>4. ASSUME NEW op \in {"enable", "disable", "schedule", "unschedule"}, Switch(c, op) PROVE Sound'
      BY <2>4, SwitchedKeeps
    <2>5. CASE DryRun(c)
      BY <2>5, PutSpecKeeps
    <2>6. CASE GoLive(c)
      BY <2>6, GoLiveKeeps
    <2>7. CASE Delete(c)
      BY <2>7, DeleteKeeps
    <2>8. CASE RunNow(c)
      BY <2>8, RunNowKeeps
    <2> QED
      BY <1>2, <2>1, <2>2, <2>3, <2>4, <2>5, <2>6, <2>7, <2>8 DEF Asks
  <1>3. ASSUME NEW c \in Clients, Handles(c) PROVE Sound'
    <2>1. CASE Pause(c) \/ Version(c) \/ Archive(c) \/ Insert(c)
      BY <2>1, PauseKeeps, VersionKeeps, ArchiveKeeps, InsertKeeps
    <2>2. CASE DryStart(c) \/ GoLiveCheck(c) \/ Publish(c) \/ GoLiveEnable(c)
      BY <2>2, DryStartKeeps, GoLiveCheckKeeps, PublishKeeps, GoLiveEnableKeeps
    <2>3. CASE Register(c) \/ Erase(c)
      BY <2>3, RegisterKeeps, EraseKeeps
    <2>4. ASSUME NEW r \in Runs, DryOutcome(c, r) \/ LaunchNow(c, r) PROVE Sound'
      BY <2>4, DryOutcomeKeeps, LaunchNowKeeps
    <2> QED
      BY <1>3, <2>1, <2>2, <2>3, <2>4 DEF Handles
  <1>4. CASE Fire \/ FireLooks \/ \E r \in Runs : FireLaunches(r)
    BY <1>4, FireKeeps, FireLooksKeeps, FireLaunchesKeeps
  <1>5. ASSUME NEW r \in Runs, BeginRun(r) PROVE Sound'
    BY <1>5, BeginRunKeeps
  <1>6. ASSUME NEW r \in Runs, NEW to \in {"running", "recovering", "settled"}, Progress(r, to) PROVE Sound'
    BY <1>6, ProgressKeeps
  <1>7. CASE Restart
    BY <1>7, RestartKeeps
  <1>8. CASE UNCHANGED vars
    BY <1>8, StutterKeeps
  <1> QED
    BY <1>2, <1>3, <1>4, <1>5, <1>6, <1>7, <1>8 DEF Next

(* In every state the types and the inductive invariant hold.              *)
THEOREM Invariance == Spec => []IInv
  BY InitIInv, StepIInv, PTL DEF Spec

(* The row of agents, its definitions, the job, the runs and the requests  *)
(* have their types; no version is numbered past the bound (create_job_spec*)
(* numbers them one after the other).                                      *)
THEOREM TypesKept == Spec => []TypeOK
  BY Invariance, PTL DEF IInv

(* At most one definition of done is live, the one published last: any     *)
(* number of owners may create, draft, publish and delete around each      *)
(* other, so long as no two writes of a definition overlap.                *)
THEOREM LastIsLive == Spec => []LiveIsLast
  <1>1. IInv => LiveIsLast
    <2> SUFFICES ASSUME IInv, "spec" \notin raced, \A c \in Clients : ~Defining(c)
                 PROVE  Published = LiveSet
      BY DEF LiveIsLast, LiveSet
    <2>1. \A c \in Clients : ~Writing(c)
      BY DEF Defining, Writing
    <2> QED
      BY <2>1 DEF IInv, Sound, SpecSound
  <1> QED
    BY <1>1, Invariance, PTL

(* The scheduler's job agrees with the row whenever no request is being    *)
(* handled: switches, schedules, deletions and restarts in any order.      *)
THEOREM ScheduleKept == Spec => []ScheduleMatches
  <1>1. IInv => ScheduleMatches
    <2> SUFFICES ASSUME IInv, Apart, \A c \in Clients : pc[c] = "idle" PROVE job = Due
      BY DEF ScheduleMatches, Apart, Due
    <2>1. \A c \in Clients : ~Holds(c)
      BY DEF Holds, Switching
    <2> QED
      BY <2>1 DEF IInv, Sound, SwitchSound
  <1> QED
    BY <1>1, Invariance, PTL

(* Two occurrences are worked on together only when one of them was        *)
(* launched blindly: the look of _fire and of dry_run_job_spec at what is  *)
(* in flight suffices but for what comes up between it and the launch.     *)
THEOREM OneAtATime == Spec => []OneOccurrence
  <1>1. IInv => OneOccurrence
    BY DEF IInv, Sound, OccSound, OneOccurrence, Alive
  <1> QED
    BY <1>1, Invariance, PTL

(* The clock runs no job that was created for a dry run or as a draft      *)
(* before somebody switched it on.                                         *)
THEOREM PausedKept == Spec => []PausedUntilSwitchedOn
  <1>1. IInv => PausedUntilSwitchedOn
    BY DEF IInv, Sound, PauseSound, PausedUntilSwitchedOn, Apart
  <1> QED
    BY <1>1, Invariance, PTL
=============================================================================
