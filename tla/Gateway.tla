------------------------------ MODULE Gateway ------------------------------
(***************************************************************************)
(* The action gateway (app/gateway.py): the tools/call requests of an      *)
(* agent's runs, the actions table, the people who decide the calls that   *)
(* are held, and the provider that runs them.  A request is one coroutine: *)
(* it records its calls one by one, sends the allowed ones in one message, *)
(* and records the result; it may outlive the container that sent it.      *)
(***************************************************************************)
EXTENDS Guardrails, Integers, Sequences, FiniteSets

CONSTANTS
    Runs,           \* runs of the agent
    Reqs,           \* tools/call requests
    People,         \* members of the organisation
    Calls,          \* calls a batch may hold: a tool, and if its arguments are long
    MaxBatch,       \* bound: calls in a batch
    Overrides,      \* policies the API may be given
    Answers,        \* how the provider may answer in this model, see Upstream
    MaxRestarts     \* bound: crashes of the server

Positions == 1..MaxBatch
Ids == Reqs \X Positions        \* the row of a request's i-th call
Batches == UNION {[1..n -> Calls] : n \in 0..MaxBatch}

ASSUME GatewayAssumption ==
    /\ Runs # {} /\ Calls \subseteq [slug : Slugs, long : BOOLEAN]
    /\ MaxBatch \in Nat /\ MaxRestarts \in Nat
    /\ \A o \in Overrides :
           /\ o.tools \in UNION {[S -> Decisions] : S \in SUBSET {c.slug : c \in Calls}}
           /\ o.categories \in UNION {[S -> Decisions] : S \in SUBSET Categories}
    /\ Answers \subseteq {"ok", "error", "raise"}

VARIABLES
    up,         \* the listener: not bound yet, up (STATE["up"]), or down for good
    kind,       \* of the agent: a routine, or a chat
    overrides,  \* the agent's action_policy
    belongs,    \* what each run is an attempt of: no outcome, a live or dry-run one
    stage,      \* of each run
    policy,     \* of each run: policy_for(agent), as the agent was at its launch
    live,       \* runs with a token in _RUNS
    desk,       \* the outcome of a run: open, awaiting approval, or decided
    pc, req,    \* where each request is, and its local variables
    rows,       \* the actions table
    upc, umem,  \* where each person's request is, and its local variables
    restarts,
    ran,        \* how often the provider ran each call
    altered,    \* calls it ran with other arguments than the agent's
    approved,   \* history: calls a person approved
    late        \* history: calls recorded after their run was over

agentv  == <<up, kind, overrides, belongs, stage, policy, live>>
request == <<pc, req>>
person  == <<upc, umem>>
world   == <<ran, altered>>
history == <<approved, late>>
vars == <<agentv, desk, request, rows, person, world, history, restarts>>

-----------------------------------------------------------------------------
Statuses == {"forwarded", "held", "blocked", "approved", "rejected", "executed", "failed"}
Row   == [status : Statuses \cup {"none"}, decision : Decisions \cup {"none"},
          run : Runs, long : BOOLEAN]
NoRow == [status |-> "none", decision |-> "none",
          run |-> CHOOSE r \in Runs : TRUE, long |-> FALSE]

(* at: the call to record next.  allowed: the calls to send.  open: sent   *)
(* calls whose result is not recorded.  bad: the answer was an error.      *)
Request == [run : Runs, batch : Batches, at : Nat, allowed : SUBSET Positions,
            open : SUBSET Positions, bad : BOOLEAN]
NoRequest == [run |-> CHOOSE r \in Runs : TRUE, batch |-> <<>>, at |-> 1,
              allowed |-> {}, open |-> {}, bad |-> FALSE]

(* listed: the held calls as they were read.  row: the one at hand.        *)
Errand == [listed : SUBSET Ids, approve : BOOLEAN, run : Runs,
           row : Ids \cup {<<>>}, ok : BOOLEAN]
NoErrand == [listed |-> {}, approve |-> FALSE,
             run |-> CHOOSE r \in Runs : TRUE, row |-> <<>>, ok |-> FALSE]

(* Rows, requests and people have their types.                             *)
TypeOK ==
    /\ up \in {"no", "up", "down"} /\ kind \in Kinds /\ overrides \in Overrides /\ restarts \in Nat
    /\ belongs \in [Runs -> {"none", "live", "dry"}]
    /\ stage \in [Runs -> {"new", "queued", "running", "over"}]
    /\ policy \in [Runs -> {PolicyFor(k, o) : k \in Kinds, o \in Overrides}]
    /\ live \in SUBSET Runs
    /\ desk \in [Runs -> {"open", "awaiting", "decided"}]
    /\ pc \in [Reqs -> {"new", "record", "post", "settle", "answered"}]
    /\ req \in [Reqs -> Request]
    /\ rows \in [Ids -> Row]
    /\ upc \in [People -> {"idle", "each", "call", "mark"}]
    /\ umem \in [People -> Errand]
    /\ ran \in [Ids -> Nat]
    /\ altered \in SUBSET Ids /\ approved \in SUBSET Ids /\ late \in SUBSET Ids

Init ==
    /\ up = "no" /\ kind \in Kinds /\ overrides \in Overrides
    /\ belongs \in [Runs -> IF kind = "chat" THEN {"none"} ELSE {"none", "live", "dry"}]
    /\ stage = [r \in Runs |-> "new"]
    /\ policy = [r \in Runs |-> PolicyFor(kind, overrides)]
    /\ live = {} /\ desk = [r \in Runs |-> "open"]
    /\ pc = [q \in Reqs |-> "new"] /\ req = [q \in Reqs |-> NoRequest]
    /\ rows = [i \in Ids |-> NoRow]
    /\ upc = [u \in People |-> "idle"] /\ umem = [u \in People |-> NoErrand]
    /\ restarts = 0
    /\ ran = [i \in Ids |-> 0]
    /\ altered = {} /\ approved = {} /\ late = {}

-----------------------------------------------------------------------------
(* The listener, the agent's policy and its runs.                          *)

(* serve: the listener is marked up once it is bound; it may fail to bind, *)
(* and its task may end.                                                   *)
Serve(to) ==
    /\ \/ up = "no" /\ to = "up"
       \/ up # "down" /\ to = "down"
    /\ up' = to
    /\ UNCHANGED <<kind, overrides, belongs, stage, policy, live, desk, request, rows,
                   person, world, history, restarts>>

(* PUT /guardrails: runs that were launched keep the policy they have, so  *)
(* the model stops when no run is left that would see it.                  *)
PutGuardrails(body) ==
    /\ ValidOverrides(body) /\ \E r \in Runs : stage[r] = "new"
    /\ overrides' = body
    /\ UNCHANGED <<up, kind, belongs, stage, policy, live, desk, request, rows,
                   person, world, history, restarts>>

(* start_run with the agent as it is read now.                             *)
Launch(r) ==
    /\ stage[r] = "new"
    /\ policy' = [policy EXCEPT ![r] = PolicyFor(kind, overrides)]
    /\ stage' = [stage EXCEPT ![r] = "queued"]
    /\ UNCHANGED <<up, kind, overrides, belongs, live, desk, request, rows,
                   person, world, history, restarts>>

(* register: without the gateway a run gets no connectors at all.          *)
Register(r) ==
    /\ stage[r] = "queued"
    /\ stage' = [stage EXCEPT ![r] = "running"]
    /\ live' = IF up = "up" THEN live \cup {r} ELSE live
    /\ UNCHANGED <<up, kind, overrides, belongs, policy, desk, request, rows,
                   person, world, history, restarts>>

(* unregister_run, when the container is gone.                             *)
RunEnds(r) ==
    /\ stage[r] = "running"
    /\ stage' = [stage EXCEPT ![r] = "over"]
    /\ live' = live \ {r}
    /\ UNCHANGED <<up, kind, overrides, belongs, policy, desk, request, rows,
                   person, world, history, restarts>>

-----------------------------------------------------------------------------
(* POST /mcp/<token>.  Searching tools and asking which apps are connected *)
(* go through unrecorded and change nothing: Passed.  The router's execute *)
(* tool holds a batch, any other tool is a batch of one.                   *)

Passed(q, r) ==
    /\ pc[q] = "new" /\ r \in live /\ up = "up"
    /\ pc' = [pc EXCEPT ![q] = "answered"]
    /\ UNCHANGED <<agentv, desk, req, rows, person, world, history, restarts>>

Arrive(q, r, batch) ==
    /\ pc[q] = "new" /\ r \in live /\ up = "up"
    /\ req' = [req EXCEPT ![q] = [[NoRequest EXCEPT !.run = r] EXCEPT !.batch = batch]]
    /\ pc' = [pc EXCEPT ![q] = "record"]
    /\ UNCHANGED <<agentv, desk, rows, person, world, history, restarts>>

StatusOf(decision) ==
    IF decision = "allow" THEN "forwarded"
    ELSE IF decision = "approve" THEN "held" ELSE "blocked"

SentAll(allowed, at, decision) == allowed \cup {at}     \* a mutant
Sent(allowed, at, decision) ==
    IF decision = "allow" THEN allowed \cup {at} ELSE allowed

(* _record: one row per call, with the decision of the run's own policy.   *)
Record(q) ==
    /\ pc[q] = "record" /\ req[q].at \in DOMAIN req[q].batch
    /\ LET m == req[q]
           call == m.batch[m.at]
           decision == Decision(call.slug, policy[m.run])
           status == StatusOf(decision)
       IN  /\ rows' = [rows EXCEPT ![<<q, m.at>>] =
                  [status |-> status, decision |-> decision,
                   run |-> m.run, long |-> call.long]]
           /\ req' = [req EXCEPT ![q] =
                  [[m EXCEPT !.at = @ + 1] EXCEPT !.allowed = Sent(@, m.at, decision)]]
           /\ late' = IF stage[m.run] = "over" THEN late \cup {<<q, m.at>>} ELSE late
    /\ UNCHANGED <<agentv, desk, pc, person, world, approved, restarts>>

(* Nothing is allowed: the agent is told what is held and what is blocked. *)
AllRefused(q) ==
    /\ pc[q] = "record" /\ req[q].at \notin DOMAIN req[q].batch
    /\ req[q].allowed = {}
    /\ pc' = [pc EXCEPT ![q] = "answered"]
    /\ UNCHANGED <<agentv, desk, req, rows, person, world, history, restarts>>

Forward(q) ==
    /\ pc[q] = "record" /\ req[q].at \notin DOMAIN req[q].batch
    /\ req[q].allowed # {}
    /\ pc' = [pc EXCEPT ![q] = "post"]
    /\ UNCHANGED <<agentv, desk, req, rows, person, world, history, restarts>>

(* An exception while a row is written: nothing was sent.                  *)
RecordRaises(q) ==
    /\ pc[q] = "record" /\ "raise" \in Answers
    /\ pc' = [pc EXCEPT ![q] = "answered"]
    /\ UNCHANGED <<agentv, desk, req, rows, person, world, history, restarts>>

(* The provider runs all calls it was sent and says so; or refuses with an *)
(* error, after running some of them; or its answer never comes (a timeout *)
(* of the client), again after some: an exception, the rows stay as they   *)
(* are and the agent is told that nothing was run.                         *)
RanAlso(ids) == [i \in Ids |-> IF i \in ids THEN ran[i] + 1 ELSE ran[i]]
Upstream(q, done, answer) ==
    /\ pc[q] = "post"
    /\ done \subseteq req[q].allowed
    /\ answer = "ok" => done = req[q].allowed
    /\ ran' = RanAlso({<<q, i>> : i \in done})
    /\ IF answer = "raise"
       THEN /\ pc' = [pc EXCEPT ![q] = "answered"]
                    /\ UNCHANGED req
       ELSE /\ pc' = [pc EXCEPT ![q] = "settle"]
            /\ req' = [req EXCEPT ![q] =
                   [[@ EXCEPT !.open = req[q].allowed] EXCEPT !.bad = (answer = "error")]]
    /\ UNCHANGED <<agentv, desk, rows, person, altered, history, restarts>>

OutcomeRosy(bad) == "executed"                          \* a mutant
Outcome(bad) == IF bad THEN "failed" ELSE "executed"
Settle(q, i) ==
    /\ pc[q] = "settle" /\ i \in req[q].open
    /\ rows' = [rows EXCEPT ![<<q, i>>].status = Outcome(req[q].bad)]
    /\ req' = [req EXCEPT ![q].open = @ \ {i}]
    /\ UNCHANGED <<agentv, desk, pc, person, world, history, restarts>>

Answer(q) ==
    /\ pc[q] = "settle" /\ req[q].open = {}
    /\ pc' = [pc EXCEPT ![q] = "answered"]
    /\ UNCHANGED <<agentv, desk, req, rows, person, world, history, restarts>>

Handle(q) ==
    \/ Record(q) \/ RecordRaises(q) \/ AllRefused(q) \/ Forward(q) \/ Answer(q)
    \/ \E done \in SUBSET Positions, answer \in Answers : Upstream(q, done, answer)
    \/ \E i \in Positions : Settle(q, i)

-----------------------------------------------------------------------------
(* The outcome's side: what verify_outcome and review do about held calls  *)
(* (module OutcomeEngine has the rest of both).                            *)

HeldOf(r) == {i \in Ids : rows[i].status = "held" /\ rows[i].run = r}

(* A dry run is never gated.                                               *)
GatedEarly(r) == FALSE                                  \* a mutant
Gated(r) == belongs[r] = "live" /\ HeldOf(r) # {}
Verify(r) ==
    /\ stage[r] = "over" /\ belongs[r] # "none" /\ desk[r] = "open"
    /\ desk' = [desk EXCEPT ![r] = IF Gated(r) THEN "awaiting" ELSE "decided"]
    /\ UNCHANGED <<agentv, request, rows, person, world, history, restarts>>

(* POST /verify on an outcome that is decided.                             *)
VerifyAgain(r) ==
    /\ desk[r] = "decided"
    /\ desk' = [desk EXCEPT ![r] = "open"]
    /\ UNCHANGED <<agentv, request, rows, person, world, history, restarts>>

StartErrand(u, r, ids, approve) ==
    /\ upc[u] = "idle"
    /\ upc' = [upc EXCEPT ![u] = "each"]
    /\ umem' = [umem EXCEPT ![u] =
           [listed |-> ids, approve |-> approve, run |-> r, row |-> <<>>, ok |-> FALSE]]
    /\ UNCHANGED <<agentv, desk, request, rows, world, history, restarts>>

(* POST /review: the held calls are listed first.                          *)
Review(u, r, approve) ==
    /\ desk[r] = "awaiting"
    /\ StartErrand(u, r, HeldOf(r), approve)

(* POST /actions/<id>/decide, for calls of a run without an outcome.       *)
Decide(u, i, approve) ==
    /\ rows[i].status # "none" /\ belongs[rows[i].run] = "none"
    /\ StartErrand(u, rows[i].run, {i}, approve)

-----------------------------------------------------------------------------
(* execute_approved and reject.                                            *)

Leave(u) == /\ upc' = [upc EXCEPT ![u] = "idle"]
            /\ umem' = [umem EXCEPT ![u] = NoErrand]

(* set_action(only_if="held").                                             *)
ClaimableAnyway(row) == row.status \in {"held", "approved"} \* a mutant
Claimable(row)       == row.status = "held"

Claim(u, i) ==
    /\ upc[u] = "each" /\ i \in umem[u].listed /\ umem[u].approve
    /\ Claimable(rows[i])
    /\ rows' = [rows EXCEPT ![i].status = "approved"]
    /\ upc' = [upc EXCEPT ![u] = "call"]
    /\ LET m == umem[u]
       IN  umem' = [umem EXCEPT ![u] = [[m EXCEPT !.listed = m.listed \ {i}] EXCEPT !.row = i]]
    /\ approved' = approved \cup {i}
    /\ UNCHANGED <<agentv, desk, request, world, late, restarts>>

Refuse(u, i) ==
    /\ upc[u] = "each" /\ i \in umem[u].listed /\ ~umem[u].approve
    /\ Claimable(rows[i])
    /\ rows' = [rows EXCEPT ![i].status = "rejected"]
    /\ umem' = [umem EXCEPT ![u].listed = @ \ {i}]
    /\ UNCHANGED <<agentv, desk, request, upc, world, history, restarts>>

(* "action #i is ..., not waiting": the whole request ends with a 409.     *)
Refused(u, i) ==
    /\ upc[u] = "each" /\ i \in umem[u].listed
    /\ ~Claimable(rows[i])
    /\ Leave(u)
    /\ UNCHANGED <<agentv, desk, request, rows, world, history, restarts>>

(* The call is run with the arguments the row has: add_action cuts them at *)
(* 20000 characters, and what no longer parses is read as none at all.     *)
Alters(row) == row.long
RunCall(u, done, ok) ==
    /\ upc[u] = "call"
    /\ ok => done
    /\ LET i == umem[u].row
       IN  /\ ran' = IF done THEN RanAlso({i}) ELSE ran
           /\ altered' = IF done /\ Alters(rows[i]) THEN altered \cup {i} ELSE altered
    /\ upc' = [upc EXCEPT ![u] = "mark"]
    /\ umem' = [umem EXCEPT ![u].ok = ok]
    /\ UNCHANGED <<agentv, desk, request, rows, history, restarts>>

Mark(u) ==
    /\ upc[u] = "mark"
    /\ rows' = [rows EXCEPT ![umem[u].row].status = Outcome(~umem[u].ok)]
    /\ upc' = [upc EXCEPT ![u] = "each"]
    /\ umem' = [umem EXCEPT ![u].row = <<>>]
    /\ UNCHANGED <<agentv, desk, request, world, history, restarts>>

(* The end of the loop: an approval verifies for real, a rejection fails   *)
(* the outcome.                                                            *)
EndErrand(u) ==
    /\ upc[u] = "each" /\ umem[u].listed = {}
    /\ LET r == umem[u].run
       IN desk' = IF belongs[r] = "none" THEN desk
                  ELSE [desk EXCEPT ![r] = IF umem[u].approve THEN "open" ELSE "decided"]
    /\ Leave(u)
    /\ UNCHANGED <<agentv, request, rows, world, history, restarts>>

Decides(u) ==
    \/ \E i \in Ids : Claim(u, i) \/ Refuse(u, i) \/ Refused(u, i)
    \/ \E done, ok \in BOOLEAN : RunCall(u, done, ok)
    \/ Mark(u) \/ EndErrand(u)

(* The server dies: containers are killed, tokens and requests are gone.   *)
Restart ==
    /\ restarts < MaxRestarts /\ restarts' = restarts + 1
    /\ up' = "no" /\ live' = {}
    /\ stage' = [r \in Runs |-> IF stage[r] = "new" THEN "new" ELSE "over"]
    /\ pc' = [q \in Reqs |-> IF pc[q] = "new" THEN "new" ELSE "answered"]
    /\ upc' = [u \in People |-> "idle"] /\ umem' = [u \in People |-> NoErrand]
    /\ UNCHANGED <<kind, overrides, belongs, policy, desk, req, rows, world, history>>

-----------------------------------------------------------------------------
Next ==
    \/ \E to \in {"up", "down"} : Serve(to)
    \/ \E body \in Overrides : PutGuardrails(body)
    \/ \E r \in Runs : Launch(r) \/ Register(r) \/ RunEnds(r) \/ Verify(r) \/ VerifyAgain(r)
    \/ \E q \in Reqs, r \in Runs : Passed(q, r) \/ \E b \in Batches : Arrive(q, r, b)
    \/ \E q \in Reqs : Handle(q)
    \/ \E u \in People, r \in Runs, a \in BOOLEAN : Review(u, r, a)
    \/ \E u \in People, i \in Ids, a \in BOOLEAN : Decide(u, i, a)
    \/ \E u \in People : Decides(u)
    \/ Restart

Spec == Init /\ [][Next]_vars

-----------------------------------------------------------------------------
(* Properties.                                                             *)

(* A call runs at most once, and only if the run's policy allows it or a   *)
(* person approved it (gateway.py, "exactly once, exactly as the agent     *)
(* requested them"), whatever reviewers, requests that outlive their run,  *)
(* and crashes interleave.  Its arguments are the agent's, unless it was   *)
(* held with more of them than the row keeps.                              *)
RunsOnceIfPermitted ==
    \A i \in Ids :
        /\ ran[i] <= 1
        /\ ran[i] = 1 => rows[i].decision = "allow" \/ i \in approved
        /\ i \in altered => rows[i].long /\ i \in approved

(* The audit trail is true: what is held, blocked or rejected has not run, *)
(* what is executed has.                                                   *)
StatusIsTrue ==
    \A i \in Ids :
        /\ rows[i].status \in {"held", "blocked", "rejected"} => ran[i] = 0
        /\ rows[i].status = "executed" => ran[i] = 1

(* A call of a live outcome that is decided is still held only if its      *)
(* request recorded it after its container was gone.                       *)
HeldIsListed ==
    \A i \in Ids :
        LET r == rows[i].run
        IN  rows[i].status = "held" /\ belongs[r] = "live" /\ desk[r] = "decided"
                => i \in late

(* What a connector call goes through, seen from outside.                  *)
Phase(i) ==
    LET s == rows[i].status
    IN  IF s = "none" THEN "unseen"
        ELSE IF s \in {"forwarded", "approved"} THEN "granted"
        ELSE IF s = "held" THEN "waiting"
        ELSE IF s \in {"blocked", "rejected"} THEN "refused" ELSE "closed"
Promise == INSTANCE ConnectorCalls WITH phase <- [i \in Ids |-> Phase(i)]
ImplementsPromise == Promise!Spec
=============================================================================
