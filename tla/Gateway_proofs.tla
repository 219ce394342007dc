--------------------------- MODULE Gateway_proofs ---------------------------
(***************************************************************************)
(* A connector call runs at most once and only with permission, its row    *)
(* tells the truth, and no held call is overlooked: for any number of      *)
(* runs, requests, people and calls, and any policy.                       *)
(***************************************************************************)
EXTENDS Gateway, TLAPS

(* What a row says is what happened to its call.                           *)
Permitted(row) == row.decision \in {"allow", "approve"}
RowTrue(i) ==
    /\ ran[i] \in {0, 1}
    /\ rows[i].status \in {"none", "held", "blocked", "rejected"} => ran[i] = 0
    /\ rows[i].status = "executed" => ran[i] = 1
    /\ rows[i].decision = "none" <=> rows[i].status = "none"
    /\ rows[i].decision = "block" <=> rows[i].status = "blocked"
    /\ rows[i].decision = "allow" => rows[i].status \in {"forwarded", "executed", "failed"}
    /\ rows[i].decision = "approve" => rows[i].status # "forwarded"
    /\ i \in approved <=> /\ rows[i].decision = "approve"
                          /\ rows[i].status \in {"approved", "executed", "failed"}
    /\ i \in altered => rows[i].long /\ i \in approved

(* What a request is about to write is still true of its rows: the calls   *)
(* it has not recorded have none, those it will send wait for that, and    *)
(* those it will call executed have run.                                   *)
RequestSound(q) ==
    \A n \in Positions :
        /\ pc[q] = "new" => rows[<<q, n>>].status = "none"
        /\ pc[q] = "record" /\ n >= req[q].at => rows[<<q, n>>].status = "none"
        /\ pc[q] \in {"record", "post"} /\ n \in req[q].allowed =>
               rows[<<q, n>>].status = "forwarded" /\ ran[<<q, n>>] = 0
        /\ pc[q] = "settle" /\ n \in req[q].open =>
               rows[<<q, n>>].status = "forwarded" /\ (~req[q].bad => ran[<<q, n>>] = 1)

(* Whoever runs a call has claimed it, and it is in no other hands.        *)
InHand(u) == upc[u] \in {"call", "mark"}
PersonSound(u) ==
    /\ InHand(u) => /\ umem[u].row \in Ids
                    /\ rows[umem[u].row].status = "approved"
    /\ upc[u] = "call" => ran[umem[u].row] = 0
    /\ upc[u] = "mark" /\ umem[u].ok => ran[umem[u].row] = 1
OneHand == \A u, v \in People : InHand(u) /\ InHand(v) /\ u # v => umem[u].row # umem[v].row

(* A run whose outcome is on somebody's desk is over, and whoever reviews  *)
(* it has every call on the list that was held in time.                    *)
InTime(r) == HeldOf(r) \ late
DeskSound(r) ==
    /\ desk[r] \in {"awaiting", "decided"} => stage[r] = "over"
    /\ belongs[r] = "live" /\ desk[r] = "decided" => InTime(r) = {}
ReviewSound(u) ==
    upc[u] # "idle" /\ belongs[umem[u].run] # "none" =>
        stage[umem[u].run] = "over" /\ InTime(umem[u].run) \subseteq umem[u].listed

IInv ==
    /\ TypeOK
    /\ \A i \in Ids : RowTrue(i)
    /\ \A q \in Reqs : RequestSound(q)
    /\ \A u \in People : PersonSound(u) /\ ReviewSound(u)
    /\ OneHand
    /\ \A r \in Runs : DeskSound(r)

-----------------------------------------------------------------------------
(* Types.                                                                  *)

LEMMA EmptyBatch == <<>> \in Batches
  <1>1. <<>> \in [1..0 -> Calls]
    OBVIOUS
  <1>2. 0 \in 0..MaxBatch
    BY GatewayAssumption
  <1> QED
    BY <1>1, <1>2 DEF Batches

LEMMA BlankTypes == NoRow \in Row /\ NoRequest \in Request /\ NoErrand \in Errand
  <1>1. (CHOOSE r \in Runs : TRUE) \in Runs
    BY GatewayAssumption
  <1> QED
    BY <1>1, EmptyBatch DEF NoRow, Row, NoRequest, Request, NoErrand, Errand

(* A batch is a function on the first positions.                           *)
LEMMA BatchDomain ==
  ASSUME NEW b \in Batches, NEW n \in DOMAIN b
  PROVE  n \in Positions /\ b[n] \in Calls
  <1>1. PICK k \in 0..MaxBatch : b \in [1..k -> Calls]
    BY DEF Batches
  <1> QED
    BY <1>1, GatewayAssumption DEF Positions

(* The gateway's decision is one of the three, whatever the overrides.     *)
LEMMA DecisionType ==
  ASSUME TypeOK, NEW r \in Runs, NEW call \in Calls
  PROVE  Decision(call.slug, policy[r]) \in Decisions
  <1>1. PICK k \in Kinds, o \in Overrides : policy[r] = PolicyFor(k, o)
    BY DEF TypeOK
  <1>2. call.slug \in Slugs
    BY GatewayAssumption
  <1>3. Category(call.slug) \in Categories
    BY <1>2 DEF Category, Categories, Verbs, Slugs
  <1>4. \A c \in Categories : DefaultPolicy(k)[c] \in Decisions
    BY DEF DefaultPolicy, Decisions
  <1>5. \A c \in DOMAIN o.categories : o.categories[c] \in Decisions
    BY GatewayAssumption
  <1>6. \A s \in DOMAIN o.tools : o.tools[s] \in Decisions
    BY GatewayAssumption
  <1>7. Rule(call.slug, policy[r]) \in Decisions
    BY <1>1, <1>3, <1>4, <1>5, <1>6 DEF Rule, PolicyFor
  <1> QED
    BY <1>7 DEF Decision, Decisions

LEMMA InitType == Init => TypeOK
  BY BlankTypes, GatewayAssumption DEF Init, TypeOK

(* The listener, the agent's policy and its runs.                          *)
LEMMA RunsType ==
  ASSUME TypeOK,
         \/ \E to \in {"up", "down"} : Serve(to)
         \/ \E body \in Overrides : PutGuardrails(body)
         \/ \E r \in Runs : Launch(r) \/ Register(r) \/ RunEnds(r) \/ Verify(r) \/ VerifyAgain(r)
         \/ Restart
  PROVE  TypeOK'
  <1>1. ASSUME NEW to \in {"up", "down"}, Serve(to) PROVE TypeOK'
    BY <1>1 DEF TypeOK, Serve, request, person, world, history
  <1>2. ASSUME NEW body \in Overrides, PutGuardrails(body) PROVE TypeOK'
    BY <1>2 DEF TypeOK, PutGuardrails, request, person, world, history
  <1>3. ASSUME NEW r \in Runs, Launch(r) PROVE TypeOK'
    BY <1>3 DEF TypeOK, Launch, request, person, world, history
  <1>4. ASSUME NEW r \in Runs, Register(r) PROVE TypeOK'
    BY <1>4 DEF TypeOK, Register, request, person, world, history
  <1>5. ASSUME NEW r \in Runs, RunEnds(r) PROVE TypeOK'
    BY <1>5 DEF TypeOK, RunEnds, request, person, world, history
  <1>6. ASSUME NEW r \in Runs, Verify(r) PROVE TypeOK'
    BY <1>6 DEF TypeOK, Verify, agentv, request, person, world, history
  <1>7. ASSUME NEW r \in Runs, VerifyAgain(r) PROVE TypeOK'
    BY <1>7 DEF TypeOK, VerifyAgain, agentv, request, person, world, history
  <1>8. CASE Restart
    BY <1>8, BlankTypes DEF TypeOK, Restart, world, history
  <1> QED
    BY <1>1, <1>2, <1>3, <1>4, <1>5, <1>6, <1>7, <1>8

(* The requests of the agents.                                             *)
LEMMA RequestsType ==
  ASSUME TypeOK, NEW q \in Reqs,
         \/ \E r \in Runs : Passed(q, r) \/ \E b \in Batches : Arrive(q, r, b)
         \/ Handle(q)
  PROVE  TypeOK'
  <1> USE DEF agentv, request, person, world, history
  <1>0. req[q] \in Request
    BY DEF TypeOK
  <1>1. ASSUME NEW r \in Runs, Passed(q, r) PROVE TypeOK'
    BY <1>1 DEF TypeOK, Passed
  <1>2. ASSUME NEW r \in Runs, NEW b \in Batches, Arrive(q, r, b) PROVE TypeOK'
    <2> DEFINE local == [[NoRequest EXCEPT !.run = r] EXCEPT !.batch = b]
    <2>1. [NoRequest EXCEPT !.run = r] \in Request
      BY BlankTypes DEF Request
    <2>2. local \in Request
      BY <2>1 DEF Request
    <2>3. /\ req' = [req EXCEPT ![q] = local] /\ pc' = [pc EXCEPT ![q] = "record"]
          /\ UNCHANGED <<agentv, desk, rows, person, world, history, restarts>>
      BY <1>2 DEF Arrive
    <2> HIDE DEF local
    <2> QED
      BY <2>2, <2>3 DEF TypeOK
  <1>3. CASE Record(q)
    <2> DEFINE m == req[q]
               call == m.batch[m.at]
               decision == Decision(call.slug, policy[m.run])
               row == [status |-> StatusOf(decision), decision |-> decision,
                       run |-> m.run, long |-> call.long]
               local == [[m EXCEPT !.at = @ + 1] EXCEPT !.allowed = Sent(@, m.at, decision)]
    <2>1. m.at \in Positions /\ call \in Calls /\ m.run \in Runs
      BY <1>0, <1>3, BatchDomain DEF Record, Request
    <2>2. decision \in Decisions /\ call.long \in BOOLEAN
      BY <2>1, DecisionType, GatewayAssumption
    <2>3. row \in Row
      BY <2>1, <2>2 DEF Row, StatusOf, Statuses, Decisions
    <2>4. [m EXCEPT !.at = @ + 1] \in Request
      BY <1>0 DEF Request
    <2>5. local \in Request
      BY <2>1, <2>4 DEF Request, Sent
    <2>6. <<q, m.at>> \in Ids
      BY <2>1 DEF Ids
    <2>7. rows' = [rows EXCEPT ![<<q, m.at>>] = row] /\ req' = [req EXCEPT ![q] = local]
      BY <1>3 DEF Record
    <2>8. late' \in SUBSET Ids
      BY <1>3, <2>6 DEF Record, TypeOK
    <2>9. rows' \in [Ids -> Row] /\ req' \in [Reqs -> Request]
      BY <2>3, <2>5, <2>6, <2>7 DEF TypeOK
    <2> HIDE DEF m, call, decision, row, local
    <2> QED
      BY <1>3, <2>8, <2>9 DEF Record, TypeOK
  <1>4. CASE RecordRaises(q) \/ AllRefused(q) \/ Forward(q) \/ Answer(q)
    BY <1>4 DEF TypeOK, RecordRaises, AllRefused, Forward, Answer
  <1>5. ASSUME NEW done \in SUBSET Positions, NEW answer \in Answers, Upstream(q, done, answer)
        PROVE  TypeOK'
    <2> DEFINE local == [[req[q] EXCEPT !.open = req[q].allowed] EXCEPT !.bad = (answer = "error")]
    <2>1. local \in Request
      <3>1. [req[q] EXCEPT !.open = req[q].allowed] \in Request
        BY <1>0 DEF Request
      <3> QED
        BY <3>1 DEF Request
    <2>2. ran' \in [Ids -> Nat]
      BY <1>5 DEF Upstream, RanAlso, TypeOK
    <2>3. req' = req \/ req' = [req EXCEPT ![q] = local]
      BY <1>5 DEF Upstream
    <2>4. req' \in [Reqs -> Request]
      BY <2>1, <2>3 DEF TypeOK
    <2> HIDE DEF local
    <2> QED
      BY <1>5, <2>2, <2>4 DEF Upstream, TypeOK
  <1>6. ASSUME NEW i \in Positions, Settle(q, i) PROVE TypeOK'
    <2>1. <<q, i>> \in Ids
      BY DEF Ids
    <2>2. [rows[<<q, i>>] EXCEPT !.status = Outcome(req[q].bad)] \in Row
      BY <2>1 DEF TypeOK, Row, Outcome, Statuses
    <2>3. [req[q] EXCEPT !.open = @ \ {i}] \in Request
      BY <1>0 DEF Request
    <2> QED
      BY <1>6, <2>1, <2>2, <2>3 DEF Settle, TypeOK
  <1> QED
    BY <1>1, <1>2, <1>3, <1>4, <1>5, <1>6 DEF Handle

(* The people who decide.                                                  *)
LEMMA PeopleType ==
  ASSUME TypeOK, NEW u \in People, PersonSound(u),
         \/ \E r \in Runs, a \in BOOLEAN : Review(u, r, a)
         \/ \E i \in Ids, a \in BOOLEAN : Decide(u, i, a)
         \/ Decides(u)
  PROVE  TypeOK'
  <1> USE DEF agentv, request, person, world, history
  <1>0. umem[u] \in Errand
    BY DEF TypeOK
  <1>1. ASSUME NEW r \in Runs, NEW ids \in SUBSET Ids, NEW a \in BOOLEAN,
               StartErrand(u, r, ids, a)
        PROVE  TypeOK'
    <2>1. [listed |-> ids, approve |-> a, run |-> r, row |-> <<>>, ok |-> FALSE] \in Errand
      BY DEF Errand
    <2> QED
      BY <1>1, <2>1 DEF StartErrand, TypeOK
  <1>2. ASSUME NEW r \in Runs, NEW a \in BOOLEAN, Review(u, r, a) PROVE TypeOK'
    BY <1>1, <1>2 DEF Review, HeldOf
  <1>3. ASSUME NEW i \in Ids, NEW a \in BOOLEAN, Decide(u, i, a) PROVE TypeOK'
    <2>1. rows[i].run \in Runs
      BY DEF TypeOK, Row
    <2> QED
      BY <1>1, <1>3, <2>1 DEF Decide
  <1>4. ASSUME NEW i \in Ids, NEW s \in Statuses PROVE [rows[i] EXCEPT !.status = s] \in Row
    BY DEF TypeOK, Row
  <1>5. ASSUME NEW i \in Ids, Claim(u, i) PROVE TypeOK'
    <2> DEFINE local == [[umem[u] EXCEPT !.listed = umem[u].listed \ {i}] EXCEPT !.row = i]
    <2>1. [umem[u] EXCEPT !.listed = umem[u].listed \ {i}] \in Errand
      BY <1>0 DEF Errand
    <2>2. local \in Errand
      BY <2>1 DEF Errand
    <2>3. /\ umem' = [umem EXCEPT ![u] = local] /\ upc' = [upc EXCEPT ![u] = "call"]
          /\ rows' = [rows EXCEPT ![i].status = "approved"] /\ approved' = approved \cup {i}
          /\ UNCHANGED <<agentv, desk, request, world, late, restarts>>
      BY <1>5 DEF Claim
    <2>4. [rows[i] EXCEPT !.status = "approved"] \in Row
      BY <1>4 DEF Statuses
    <2> HIDE DEF local
    <2> QED
      BY <2>2, <2>3, <2>4 DEF TypeOK
  <1>6. ASSUME NEW i \in Ids, Refuse(u, i) PROVE TypeOK'
    <2> DEFINE local == [umem[u] EXCEPT !.listed = umem[u].listed \ {i}]
    <2>1. local \in Errand
      BY <1>0 DEF Errand
    <2>2. [rows[i] EXCEPT !.status = "rejected"] \in Row
      BY <1>4 DEF Statuses
    <2>3. /\ umem' = [umem EXCEPT ![u] = local]
          /\ rows' = [rows EXCEPT ![i].status = "rejected"]
          /\ UNCHANGED <<agentv, desk, request, upc, world, history, restarts>>
      BY <1>6 DEF Refuse
    <2> HIDE DEF local
    <2> QED
      BY <2>1, <2>2, <2>3 DEF TypeOK
  <1>7. ASSUME NEW i \in Ids, Refused(u, i) PROVE TypeOK'
    BY <1>7, BlankTypes DEF Refused, Leave, TypeOK
  <1>8. ASSUME NEW done \in BOOLEAN, NEW ok \in BOOLEAN, RunCall(u, done, ok),
               umem[u].row \in Ids
        PROVE  TypeOK'
    <2>1. [umem[u] EXCEPT !.ok = ok] \in Errand
      BY <1>0 DEF Errand
    <2> QED
      BY <1>8, <2>1 DEF RunCall, RanAlso, TypeOK
  <1>9. ASSUME Mark(u), umem[u].row \in Ids PROVE TypeOK'
    <2>1. [umem[u] EXCEPT !.row = <<>>] \in Errand
      BY <1>0 DEF Errand
    <2>2. Outcome(~umem[u].ok) \in Statuses
      BY DEF Outcome, Statuses
    <2>3. [rows[umem[u].row] EXCEPT !.status = Outcome(~umem[u].ok)] \in Row
      BY <1>4, <1>9, <2>2
    <2> QED
      BY <1>9, <2>1, <2>3 DEF Mark, TypeOK
  <1>10. CASE EndErrand(u)
    <2>1. desk' = desk \/ \E s \in {"open", "decided"} : desk' = [desk EXCEPT ![umem[u].run] = s]
      BY <1>10 DEF EndErrand
    <2>2. desk' \in [Runs -> {"open", "awaiting", "decided"}]
      BY <2>1 DEF TypeOK
    <2> QED
      BY <1>10, <2>2, BlankTypes DEF EndErrand, Leave, TypeOK
  <1>11. Mark(u) => umem[u].row \in Ids
    BY DEF Mark, PersonSound, InHand
  <1>12. \A done, ok \in BOOLEAN : RunCall(u, done, ok) => umem[u].row \in Ids
    BY DEF RunCall, PersonSound, InHand
  <1> QED
    BY <1>2, <1>3, <1>5, <1>6, <1>7, <1>8, <1>9, <1>10, <1>11, <1>12 DEF Decides

-----------------------------------------------------------------------------
(* The calls.  What a step leaves alone stays sound.                       *)

CallsSound ==
    /\ \A i \in Ids : RowTrue(i)
    /\ \A q \in Reqs : RequestSound(q)
    /\ \A u \in People : PersonSound(u)
    /\ OneHand

(* A request that does not move, while no call that waits for it does.     *)
LEMMA RequestFrame ==
  ASSUME NEW q \in Reqs, RequestSound(q), pc'[q] = pc[q], req'[q] = req[q],
         \A n \in Positions : rows[<<q, n>>].status \in {"none", "forwarded"} =>
             rows'[<<q, n>>].status = rows[<<q, n>>].status /\ ran'[<<q, n>>] = ran[<<q, n>>]
  PROVE  RequestSound(q)'
  BY DEF RequestSound, Positions

(* A person who does not move, while no call in anybody's hands does.      *)
LEMMA PersonFrame ==
  ASSUME NEW u \in People, PersonSound(u), upc'[u] = upc[u],
         umem'[u].row = umem[u].row, umem'[u].ok = umem[u].ok,
         \A i \in Ids : rows[i].status = "approved" =>
             (i = umem[u].row => rows'[i].status = "approved" /\ ran'[i] = ran[i])
  PROVE  PersonSound(u)'
  BY DEF PersonSound, InHand

LEMMA RowFrame ==
  ASSUME NEW i \in Ids, RowTrue(i), rows'[i] = rows[i], ran'[i] = ran[i],
         i \in approved' <=> i \in approved, i \in altered' <=> i \in altered
  PROVE  RowTrue(i)'
  BY DEF RowTrue

(* The runs and their policies, and a crash.                               *)
LEMMA RunsCalls ==
  ASSUME TypeOK, CallsSound,
         \/ \E to \in {"up", "down"} : Serve(to)
         \/ \E body \in Overrides : PutGuardrails(body)
         \/ \E r \in Runs : Launch(r) \/ Register(r) \/ RunEnds(r) \/ Verify(r) \/ VerifyAgain(r)
         \/ Restart
  PROVE  CallsSound'
  <1>1. CASE Restart
    <2>1. UNCHANGED <<rows, ran, altered, approved, req>>
      BY <1>1 DEF Restart, world, history
    <2>2. \A q \in Reqs : pc'[q] \in {"new", "answered"} /\ (pc'[q] = "new" => pc[q] = "new")
      BY <1>1 DEF Restart
    <2>3. \A u \in People : upc'[u] = "idle"
      BY <1>1 DEF Restart
    <2>4. \A i \in Ids : RowTrue(i)'
      BY <2>1, RowFrame DEF CallsSound
    <2>5. \A q \in Reqs : RequestSound(q)'
      BY <2>1, <2>2 DEF CallsSound, RequestSound
    <2>6. (\A u \in People : PersonSound(u)') /\ OneHand'
      BY <2>3 DEF PersonSound, OneHand, InHand
    <2> QED
      BY <2>4, <2>5, <2>6 DEF CallsSound
  <1>2. CASE ~Restart
    <2>1. UNCHANGED <<rows, ran, altered, approved, request, person>>
      BY <1>2 DEF Serve, PutGuardrails, Launch, Register, RunEnds, Verify, VerifyAgain,
                  world, history
    <2> QED
      BY <2>1 DEF request, person, CallsSound, RowTrue, RequestSound, PersonSound, OneHand, InHand
  <1> QED
    BY <1>1, <1>2

(* The requests.  A step of one request touches only its own calls, and    *)
(* none that are in a person's hands.                                      *)
LEMMA RequestsFrame ==
  ASSUME TypeOK, CallsSound, NEW q \in Reqs,
         UNCHANGED <<person, altered, approved>>,
         \A p \in Reqs \ {q} : pc'[p] = pc[p] /\ req'[p] = req[p],
         \A i \in Ids : (i[1] # q \/ rows[i].status = "approved") => rows'[i] = rows[i] /\ ran'[i] = ran[i],
         RequestSound(q)', \A n \in Positions : RowTrue(<<q, n>>)'
  PROVE  CallsSound'
  <1>1. \A i \in Ids : RowTrue(i)'
    <2>1. ASSUME NEW i \in Ids, i[1] # q PROVE RowTrue(i)'
      BY <2>1, RowFrame DEF CallsSound
    <2>2. ASSUME NEW i \in Ids, i[1] = q PROVE \E n \in Positions : i = <<q, n>>
      BY <2>2 DEF Ids
    <2> QED
      BY <2>1, <2>2
  <1>2. \A p \in Reqs : RequestSound(p)'
    <2> SUFFICES ASSUME NEW p \in Reqs, p # q PROVE RequestSound(p)'
      OBVIOUS
    <2>1. \A n \in Positions : <<p, n>> \in Ids /\ <<p, n>>[1] = p
      BY DEF Ids
    <2>2. \A n \in Positions : rows'[<<p, n>>] = rows[<<p, n>>] /\ ran'[<<p, n>>] = ran[<<p, n>>]
      BY <2>1
    <2> QED
      BY <2>2, RequestFrame DEF CallsSound
  <1>3. \A u \in People : PersonSound(u)'
    BY PersonFrame DEF CallsSound, person
  <1>4. OneHand'
    BY DEF CallsSound, OneHand, InHand, person
  <1> QED
    BY <1>1, <1>2, <1>3, <1>4 DEF CallsSound

LEMMA RequestsCalls ==
  ASSUME TypeOK, CallsSound, NEW q \in Reqs,
         \/ \E r \in Runs : Passed(q, r) \/ \E b \in Batches : Arrive(q, r, b)
         \/ Handle(q)
  PROVE  CallsSound'
  <1>0. /\ req[q] \in Request /\ RequestSound(q) /\ \A n \in Positions : <<q, n>> \in Ids
        /\ \A n \in Positions : RowTrue(<<q, n>>)
    BY DEF TypeOK, CallsSound, Ids
  <1>1. ASSUME UNCHANGED <<rows, world, approved, person>>,
               \A p \in Reqs \ {q} : pc'[p] = pc[p] /\ req'[p] = req[p],
               RequestSound(q)'
        PROVE  CallsSound'
    <2>1. \A n \in Positions : RowTrue(<<q, n>>)'
      BY <1>0, <1>1, RowFrame DEF world
    <2> QED
      BY <1>1, <2>1, RequestsFrame DEF world
  <1>2. ASSUME NEW r \in Runs, Passed(q, r) PROVE CallsSound'
    <2>1. pc'[q] = "answered"
      BY <1>2 DEF Passed, TypeOK
    <2>2. RequestSound(q)'
      BY <2>1 DEF RequestSound
    <2> QED
      BY <1>1, <1>2, <2>2 DEF Passed, TypeOK, history
  <1>3. ASSUME NEW r \in Runs, NEW b \in Batches, Arrive(q, r, b) PROVE CallsSound'
    <2> DEFINE local == [[NoRequest EXCEPT !.run = r] EXCEPT !.batch = b]
    <2>0. /\ req' = [req EXCEPT ![q] = local] /\ pc' = [pc EXCEPT ![q] = "record"]
          /\ pc[q] = "new" /\ UNCHANGED <<rows, world, approved, person>>
      BY <1>3 DEF Arrive, history
    <2>a. local.allowed = {} /\ local.at = 1
      BY DEF NoRequest
    <2> HIDE DEF local
    <2>1. pc'[q] = "record" /\ req'[q] = local
      BY <2>0 DEF TypeOK
    <2>3. RequestSound(q)'
      BY <1>0, <2>a, <2>0, <2>1 DEF RequestSound, world
    <2>4. \A p \in Reqs \ {q} : pc'[p] = pc[p] /\ req'[p] = req[p]
      BY <2>0 DEF TypeOK
    <2> QED
      BY <1>1, <2>0, <2>3, <2>4
  <1>4. CASE Record(q)
    <2> DEFINE m == req[q]
               call == m.batch[m.at]
               decision == Decision(call.slug, policy[m.run])
               row == [status |-> StatusOf(decision), decision |-> decision,
                       run |-> m.run, long |-> call.long]
               local == [[m EXCEPT !.at = @ + 1] EXCEPT !.allowed = Sent(@, m.at, decision)]
    <2>1. /\ rows' = [rows EXCEPT ![<<q, m.at>>] = row] /\ req' = [req EXCEPT ![q] = local]
          /\ pc[q] = "record" /\ UNCHANGED <<pc, ran, altered, approved, person>>
      BY <1>4 DEF Record, world
    <2>2. m.at \in Positions /\ call \in Calls /\ m.run \in Runs
      BY <1>0, <1>4, BatchDomain DEF Record, Request
    <2>3. decision \in Decisions
      BY <2>2, DecisionType
    <2>4. local.at = m.at + 1 /\ local.allowed = Sent(m.allowed, m.at, decision)
      BY <1>0 DEF Request
    <2>5. row.status = StatusOf(decision) /\ row.decision = decision
      OBVIOUS
    <2> HIDE DEF call, decision, row, local
    <2>6. PICK k \in Positions : k = req[q].at
      BY <2>2
    <2>7. <<q, k>> \in Ids /\ rows[<<q, k>>].status = "none" /\ RowTrue(<<q, k>>)
      <3>1. k >= req[q].at
        BY <1>0, <2>6 DEF Request
      <3> QED
        BY <1>0, <2>1, <2>6, <3>1 DEF RequestSound
    <2> HIDE DEF m
    <2>a. /\ rows' = [rows EXCEPT ![<<q, k>>] = row]
          /\ local.at = k + 1 /\ local.allowed = Sent(req[q].allowed, k, decision)
      BY <2>1, <2>4, <2>6 DEF m
    <2>8. /\ rows'[<<q, k>>] = row
          /\ \A n \in Positions \ {k} : rows'[<<q, n>>] = rows[<<q, n>>]
      BY <1>0, <2>7, <2>a DEF TypeOK
    <2>9. RowTrue(<<q, k>>)'
      BY <2>1, <2>3, <2>5, <2>7, <2>8 DEF RowTrue, StatusOf, Decisions
    <2>10. \A n \in Positions : RowTrue(<<q, n>>)'
      BY <1>0, <2>1, <2>8, <2>9, RowFrame
    <2>11. RequestSound(q)'
      <3>1. pc'[q] = "record" /\ req'[q] = local /\ ran' = ran
        BY <2>1 DEF TypeOK
      <3>2. \A n \in Positions : n >= local.at => n # k /\ n >= req[q].at
        BY <2>6, <2>a DEF Positions
      <3>3. \A n \in local.allowed : n # k => n \in req[q].allowed
        BY <2>a DEF Sent
      <3>4. k \in local.allowed => decision = "allow" \/ k \in req[q].allowed
        BY <2>a DEF Sent
      <3>5. k \notin req[q].allowed
        BY <1>0, <2>1, <2>7 DEF RequestSound
      <3>6. decision = "allow" => rows'[<<q, k>>].status = "forwarded" /\ ran[<<q, k>>] = 0
        BY <2>5, <2>7, <2>8 DEF StatusOf, RowTrue
      <3> QED
        BY <1>0, <2>1, <2>8, <3>1, <3>2, <3>3, <3>4, <3>5, <3>6 DEF RequestSound
    <2>12. \A i \in Ids : (i[1] # q \/ rows[i].status = "approved") => rows'[i] = rows[i] /\ ran'[i] = ran[i]
      BY <2>1, <2>7, <2>a DEF TypeOK
    <2>13. \A p \in Reqs \ {q} : pc'[p] = pc[p] /\ req'[p] = req[p]
      BY <2>1 DEF TypeOK
    <2> QED
      BY <2>1, <2>10, <2>11, <2>12, <2>13, RequestsFrame
  <1>5. CASE RecordRaises(q) \/ AllRefused(q) \/ Answer(q)
    <2>1. pc'[q] = "answered"
      BY <1>5 DEF RecordRaises, AllRefused, Answer, TypeOK
    <2>2. RequestSound(q)'
      BY <2>1 DEF RequestSound
    <2> QED
      BY <1>1, <1>5, <2>2 DEF RecordRaises, AllRefused, Answer, TypeOK, history
  <1>6. CASE Forward(q)
    <2>1. pc[q] = "record" /\ pc'[q] = "post" /\ UNCHANGED <<req, rows, ran>>
      BY <1>6 DEF Forward, TypeOK, world
    <2>2. RequestSound(q)'
      BY <1>0, <2>1 DEF RequestSound
    <2> QED
      BY <1>1, <1>6, <2>2 DEF Forward, TypeOK, history
  <1>7. ASSUME NEW done \in SUBSET Positions, NEW answer \in Answers, Upstream(q, done, answer)
        PROVE  CallsSound'
    <2> DEFINE ids == {<<q, n>> : n \in done}
    <2>1. /\ pc[q] = "post" /\ done \subseteq req[q].allowed
          /\ ran' = RanAlso(ids) /\ UNCHANGED <<rows, altered, approved, person>>
      BY <1>7 DEF Upstream, history
    <2>2. \A n \in req[q].allowed \cap Positions :
              rows[<<q, n>>].status = "forwarded" /\ ran[<<q, n>>] = 0
      BY <1>0, <2>1 DEF RequestSound
    <2>3. \A i \in Ids : ran'[i] = IF i \in ids THEN ran[i] + 1 ELSE ran[i]
      BY <2>1 DEF RanAlso
    <2>4. \A i \in Ids : (i[1] # q \/ rows[i].status = "approved") => i \notin ids
      BY <2>1, <2>2
    <2>5. \A n \in Positions : RowTrue(<<q, n>>)'
      <3> SUFFICES ASSUME NEW n \in Positions PROVE RowTrue(<<q, n>>)'
        OBVIOUS
      <3>1. CASE n \in done
        <4>1. rows[<<q, n>>].status = "forwarded" /\ ran'[<<q, n>>] = 1
          BY <1>0, <2>1, <2>2, <2>3, <3>1
        <4> QED
          BY <1>0, <2>1, <4>1 DEF RowTrue
      <3>2. CASE n \notin done
        BY <1>0, <2>1, <2>3, <3>2, RowFrame
      <3> QED
        BY <3>1, <3>2
    <2>6. RequestSound(q)'
      <3>1. CASE answer = "raise"
        <4>1. pc'[q] = "answered"
          BY <1>7, <3>1 DEF Upstream, TypeOK
        <4> QED
          BY <4>1 DEF RequestSound
      <3>2. CASE answer # "raise"
        <4> DEFINE local == [[req[q] EXCEPT !.open = req[q].allowed] EXCEPT !.bad = (answer = "error")]
        <4>1. pc' = [pc EXCEPT ![q] = "settle"] /\ req' = [req EXCEPT ![q] = local]
          BY <1>7, <3>2 DEF Upstream
        <4>2. local.open = req[q].allowed /\ local.bad = (answer = "error")
          BY <1>0 DEF Request
        <4>3. answer = "ok" \/ answer = "error"
          BY <3>2, GatewayAssumption
        <4>4. answer = "ok" => done = req[q].allowed
          BY <1>7 DEF Upstream
        <4> HIDE DEF local
        <4>5. pc'[q] = "settle" /\ req'[q] = local
          BY <4>1 DEF TypeOK
        <4>6. \A n \in Positions : n \in done => ran'[<<q, n>>] = 1
          BY <1>0, <2>1, <2>2, <2>3
        <4> QED
          BY <1>0, <2>1, <2>2, <4>2, <4>3, <4>4, <4>5, <4>6 DEF RequestSound
      <3> QED
        BY <3>1, <3>2
    <2>7. \A p \in Reqs \ {q} : pc'[p] = pc[p] /\ req'[p] = req[p]
      BY <1>7 DEF Upstream, TypeOK
    <2> QED
      BY <2>1, <2>3, <2>4, <2>5, <2>6, <2>7, RequestsFrame
  <1>8. ASSUME NEW i \in Positions, Settle(q, i) PROVE CallsSound'
    <2>1. /\ pc[q] = "settle" /\ i \in req[q].open /\ <<q, i>> \in Ids
          /\ rows' = [rows EXCEPT ![<<q, i>>].status = Outcome(req[q].bad)]
          /\ req' = [req EXCEPT ![q].open = @ \ {i}]
          /\ UNCHANGED <<pc, ran, altered, approved, person>>
      BY <1>0, <1>8 DEF Settle, world, history
    <2>2. rows[<<q, i>>].status = "forwarded" /\ (~req[q].bad => ran[<<q, i>>] = 1)
      BY <1>0, <2>1 DEF RequestSound
    <2>3. /\ rows'[<<q, i>>].status = Outcome(req[q].bad)
          /\ rows'[<<q, i>>].decision = rows[<<q, i>>].decision
          /\ rows'[<<q, i>>].long = rows[<<q, i>>].long
          /\ \A j \in Ids : j # <<q, i>> => rows'[j] = rows[j]
      BY <2>1 DEF TypeOK, Row
    <2>4. RowTrue(<<q, i>>)'
      <3>1. Outcome(req[q].bad) = "failed" \/ (Outcome(req[q].bad) = "executed" /\ ran[<<q, i>>] = 1)
        <4>1. req[q].bad \in BOOLEAN
          BY <1>0 DEF Request
        <4>2. CASE req[q].bad = TRUE
          BY <4>2 DEF Outcome
        <4>3. CASE req[q].bad = FALSE
          BY <2>2, <4>3 DEF Outcome
        <4> QED
          BY <4>1, <4>2, <4>3
      <3>2. RowTrue(<<q, i>>)
        BY <1>0
      <3>3. rows[<<q, i>>].decision \in Decisions \cup {"none"}
        BY <2>1 DEF TypeOK, Row
      <3> QED
        BY <2>1, <2>2, <2>3, <3>1, <3>2, <3>3 DEF RowTrue, Decisions
    <2>5. \A n \in Positions : RowTrue(<<q, n>>)'
      <3> SUFFICES ASSUME NEW n \in Positions, n # i PROVE RowTrue(<<q, n>>)'
        BY <2>4
      <3>1. <<q, n>> # <<q, i>>
        OBVIOUS
      <3> QED
        BY <1>0, <2>1, <2>3, <3>1, RowFrame
    <2>6. RequestSound(q)'
      <3>1. req'[q].open = req[q].open \ {i} /\ req'[q].bad = req[q].bad /\ pc'[q] = "settle"
        BY <1>0, <2>1 DEF TypeOK, Request
      <3>2. \A n \in Positions : n # i => rows'[<<q, n>>] = rows[<<q, n>>]
        BY <1>0, <2>3
      <3> QED
        BY <1>0, <2>1, <3>1, <3>2 DEF RequestSound
    <2>7. \A p \in Reqs \ {q} : pc'[p] = pc[p] /\ req'[p] = req[p]
      BY <2>1 DEF TypeOK
    <2>8. \A j \in Ids : (j[1] # q \/ rows[j].status = "approved") => rows'[j] = rows[j] /\ ran'[j] = ran[j]
      BY <2>1, <2>2, <2>3
    <2> QED
      BY <2>1, <2>5, <2>6, <2>7, <2>8, RequestsFrame
  <1> QED
    BY <1>2, <1>3, <1>4, <1>5, <1>6, <1>7, <1>8 DEF Handle

(* A step of a person touches only the call at hand, which no request      *)
(* waits for and nobody else has in hand.                                  *)
LEMMA PeopleFrame ==
  ASSUME TypeOK, CallsSound, NEW u \in People, NEW i \in Ids,
         UNCHANGED request,
         rows[i].status \in {"held", "approved"},
         \A j \in Ids \ {i} : rows'[j] = rows[j] /\ ran'[j] = ran[j],
         \A j \in Ids \ {i} : (j \in approved' <=> j \in approved) /\ (j \in altered' <=> j \in altered),
         \A v \in People \ {u} : upc'[v] = upc[v] /\ umem'[v] = umem[v],
         rows[i].status = "approved" => InHand(u) /\ umem[u].row = i,
         InHand(u)' => umem'[u].row = i,
         RowTrue(i)', PersonSound(u)'
  PROVE  CallsSound'
  <1>1. \A j \in Ids : RowTrue(j)'
    BY RowFrame DEF CallsSound
  <1>2. \A q \in Reqs : RequestSound(q)'
    <2> SUFFICES ASSUME NEW q \in Reqs PROVE RequestSound(q)'
      OBVIOUS
    <2>1. \A n \in Positions : <<q, n>> \in Ids
      BY DEF Ids
    <2>2. \A n \in Positions : rows[<<q, n>>].status \in {"none", "forwarded"} =>
              rows'[<<q, n>>] = rows[<<q, n>>] /\ ran'[<<q, n>>] = ran[<<q, n>>]
      BY <2>1
    <2>3. pc'[q] = pc[q] /\ req'[q] = req[q] /\ RequestSound(q)
      BY DEF request, CallsSound
    <2> QED
      BY <2>2, <2>3, RequestFrame
  <1>3. \A v \in People \ {u} : InHand(v) => umem[v].row \in Ids \ {i}
    <2> SUFFICES ASSUME NEW v \in People \ {u}, InHand(v) PROVE umem[v].row \in Ids \ {i}
      OBVIOUS
    <2>1. umem[v].row \in Ids /\ rows[umem[v].row].status = "approved"
      BY DEF CallsSound, PersonSound
    <2>2. rows[i].status = "approved" => umem[v].row # i
      BY DEF CallsSound, OneHand
    <2> QED
      BY <2>1, <2>2
  <1>4. \A v \in People : PersonSound(v)'
    <2> SUFFICES ASSUME NEW v \in People \ {u} PROVE PersonSound(v)'
      OBVIOUS
    <2>1. upc'[v] = upc[v] /\ umem'[v] = umem[v] /\ PersonSound(v)
      BY DEF CallsSound
    <2>2. InHand(v) => rows'[umem[v].row] = rows[umem[v].row] /\ ran'[umem[v].row] = ran[umem[v].row]
      BY <1>3
    <2> QED
      BY <2>1, <2>2 DEF PersonSound, InHand
  <1>5. OneHand'
    <2>1. \A v \in People \ {u} : InHand(v)' => InHand(v) /\ umem'[v].row # i /\ umem'[v] = umem[v]
      BY <1>3 DEF InHand
    <2> QED
      BY <2>1 DEF CallsSound, OneHand
  <1> QED
    BY <1>1, <1>2, <1>4, <1>5 DEF CallsSound

(* A person who has no call in hand before or after, and decides none.     *)
LEMMA IdleFrame ==
  ASSUME TypeOK, CallsSound, NEW u \in People,
         UNCHANGED <<request, rows, world, approved>>,
         \A v \in People \ {u} : upc'[v] = upc[v] /\ umem'[v] = umem[v],
         ~InHand(u)'
  PROVE  CallsSound'
  <1>1. \A j \in Ids : RowTrue(j)'
    BY RowFrame DEF CallsSound, world
  <1>2. \A q \in Reqs : RequestSound(q)'
    BY DEF CallsSound, RequestSound, request, world
  <1>3. \A v \in People : PersonSound(v)'
    BY DEF CallsSound, PersonSound, InHand, world
  <1>4. OneHand'
    BY DEF CallsSound, OneHand, InHand
  <1> QED
    BY <1>1, <1>2, <1>3, <1>4 DEF CallsSound

LEMMA PeopleCalls ==
  ASSUME TypeOK, CallsSound, NEW u \in People,
         \/ \E r \in Runs, a \in BOOLEAN : Review(u, r, a)
         \/ \E i \in Ids, a \in BOOLEAN : Decide(u, i, a)
         \/ Decides(u)
  PROVE  CallsSound'
  <1>0. umem[u] \in Errand /\ PersonSound(u)
    BY DEF TypeOK, CallsSound
  <1>1. ASSUME NEW r, NEW ids, NEW a, StartErrand(u, r, ids, a) PROVE CallsSound'
    <2>1. upc'[u] = "each" /\ \A v \in People \ {u} : upc'[v] = upc[v] /\ umem'[v] = umem[v]
      BY <1>1 DEF StartErrand, TypeOK
    <2>2. ~InHand(u)'
      BY <2>1 DEF InHand
    <2> QED
      BY <1>1, <2>1, <2>2, IdleFrame DEF StartErrand, history
  <1>2. ASSUME NEW i \in Ids, Claim(u, i) PROVE CallsSound'
    <2> DEFINE local == [[umem[u] EXCEPT !.listed = umem[u].listed \ {i}] EXCEPT !.row = i]
    <2>1. /\ umem' = [umem EXCEPT ![u] = local] /\ upc' = [upc EXCEPT ![u] = "call"]
          /\ rows' = [rows EXCEPT ![i].status = "approved"] /\ approved' = approved \cup {i}
          /\ rows[i].status = "held" /\ UNCHANGED <<request, ran, altered>>
      BY <1>2 DEF Claim, Claimable, world
    <2>2. local.row = i
      BY <1>0 DEF Errand
    <2> HIDE DEF local
    <2>3. /\ rows'[i].status = "approved" /\ rows'[i].decision = rows[i].decision
          /\ rows'[i].long = rows[i].long
          /\ \A j \in Ids \ {i} : rows'[j] = rows[j]
      BY <2>1 DEF TypeOK, Row
    <2>4. upc'[u] = "call" /\ umem'[u].row = i
      BY <2>1, <2>2 DEF TypeOK
    <2>5. \A v \in People \ {u} : upc'[v] = upc[v] /\ umem'[v] = umem[v]
      BY <2>1 DEF TypeOK
    <2>6. RowTrue(i) /\ rows[i].decision \in Decisions \cup {"none"}
      BY DEF CallsSound, TypeOK, Row
    <2>7. rows[i].decision = "approve" /\ ran[i] = 0
      BY <2>1, <2>6 DEF RowTrue, Decisions
    <2>8. RowTrue(i)'
      BY <2>1, <2>3, <2>6, <2>7 DEF RowTrue
    <2>9. PersonSound(u)'
      BY <2>1, <2>3, <2>4, <2>7 DEF PersonSound, InHand
    <2> QED
      BY <2>1, <2>3, <2>4, <2>5, <2>8, <2>9, PeopleFrame
  <1>3. ASSUME NEW i \in Ids, Refuse(u, i) PROVE CallsSound'
    <2>1. /\ rows' = [rows EXCEPT ![i].status = "rejected"] /\ rows[i].status = "held"
          /\ upc[u] = "each" /\ UNCHANGED <<request, upc, ran, altered, approved>>
          /\ umem' = [umem EXCEPT ![u].listed = @ \ {i}]
      BY <1>3 DEF Refuse, Claimable, world, history
    <2>2. /\ rows'[i].status = "rejected" /\ rows'[i].decision = rows[i].decision
          /\ rows'[i].long = rows[i].long
          /\ \A j \in Ids \ {i} : rows'[j] = rows[j]
      BY <2>1 DEF TypeOK, Row
    <2>3. \A v \in People \ {u} : umem'[v] = umem[v]
      BY <2>1 DEF TypeOK
    <2>4. ~InHand(u)' /\ PersonSound(u)'
      BY <2>1 DEF PersonSound, InHand
    <2>5. RowTrue(i) /\ rows[i].decision \in Decisions \cup {"none"}
      BY DEF CallsSound, TypeOK, Row
    <2>6. RowTrue(i)'
      BY <2>1, <2>2, <2>5 DEF RowTrue, Decisions
    <2> QED
      BY <2>1, <2>2, <2>3, <2>4, <2>6, PeopleFrame
  <1>4. ASSUME \/ \E i \in Ids : Refused(u, i)
               \/ EndErrand(u)
        PROVE  CallsSound'
    <2>1. upc'[u] = "idle" /\ \A v \in People \ {u} : upc'[v] = upc[v] /\ umem'[v] = umem[v]
      BY <1>4 DEF Refused, EndErrand, Leave, TypeOK
    <2>2. ~InHand(u)'
      BY <2>1 DEF InHand
    <2> QED
      BY <1>4, <2>1, <2>2, IdleFrame DEF Refused, EndErrand, history
  <1>5. ASSUME NEW done \in BOOLEAN, NEW ok \in BOOLEAN, RunCall(u, done, ok) PROVE CallsSound'
    <2>0. PICK i \in Ids : i = umem[u].row
      BY <1>0, <1>5 DEF RunCall, PersonSound, InHand
    <2>1. /\ upc[u] = "call" /\ upc' = [upc EXCEPT ![u] = "mark"]
          /\ umem' = [umem EXCEPT ![u].ok = ok] /\ (ok => done)
          /\ ran' = IF done THEN RanAlso({i}) ELSE ran
          /\ altered' = IF done /\ Alters(rows[i]) THEN altered \cup {i} ELSE altered
          /\ UNCHANGED <<request, rows, approved>>
      BY <1>5, <2>0 DEF RunCall, history
    <2>2. rows[i].status = "approved" /\ ran[i] = 0 /\ InHand(u)
      BY <1>0, <2>0, <2>1 DEF PersonSound, InHand
    <2>3. \A j \in Ids \ {i} : ran'[j] = ran[j] /\ (j \in altered' <=> j \in altered)
      BY <2>1 DEF RanAlso
    <2>4. /\ done => ran'[i] = 1 /\ (i \in altered' => i \in altered \/ rows[i].long)
          /\ ~done => ran'[i] = 0 /\ (i \in altered' => i \in altered)
      BY <2>1, <2>2 DEF RanAlso, Alters
    <2>5. /\ upc'[u] = "mark" /\ umem'[u].row = i /\ umem'[u].ok = ok
          /\ \A v \in People \ {u} : upc'[v] = upc[v] /\ umem'[v] = umem[v]
      BY <1>0, <2>0, <2>1 DEF TypeOK, Errand
    <2>6. RowTrue(i) /\ rows[i].decision \in Decisions \cup {"none"}
      BY <2>2 DEF CallsSound, TypeOK, Row
    <2>7. rows[i].decision = "approve" /\ i \in approved
      BY <2>2, <2>6 DEF RowTrue, Decisions
    <2>8. RowTrue(i)'
      BY <2>1, <2>2, <2>4, <2>6, <2>7 DEF RowTrue
    <2>9. PersonSound(u)'
      BY <2>1, <2>2, <2>4, <2>5 DEF PersonSound, InHand
    <2> QED
      BY <2>0, <2>1, <2>2, <2>3, <2>5, <2>8, <2>9, PeopleFrame
  <1>6. CASE Mark(u)
    <2>0. PICK i \in Ids : i = umem[u].row
      BY <1>0, <1>6 DEF Mark, PersonSound, InHand
    <2> DEFINE end == Outcome(~umem[u].ok)
    <2>1. /\ upc[u] = "mark" /\ upc' = [upc EXCEPT ![u] = "each"]
          /\ umem' = [umem EXCEPT ![u].row = <<>>]
          /\ rows' = [rows EXCEPT ![i].status = end]
          /\ UNCHANGED <<request, ran, altered, approved>>
      BY <1>6, <2>0 DEF Mark, world, history
    <2>2. rows[i].status = "approved" /\ InHand(u)
      BY <1>0, <2>0, <2>1 DEF PersonSound, InHand
    <2>3. end = "failed" \/ (end = "executed" /\ ran[i] = 1)
      <3>1. umem[u].ok \in BOOLEAN
        BY <1>0 DEF Errand
      <3>2. CASE umem[u].ok = TRUE
        BY <1>0, <2>0, <2>1, <3>2 DEF Outcome, PersonSound
      <3>3. CASE umem[u].ok = FALSE
        BY <3>3 DEF Outcome
      <3> QED
        BY <3>1, <3>2, <3>3
    <2>4. /\ upc'[u] = "each"
          /\ \A v \in People \ {u} : upc'[v] = upc[v] /\ umem'[v] = umem[v]
      BY <2>1 DEF TypeOK
    <2> HIDE DEF end
    <2>5. /\ rows'[i].status = end /\ rows'[i].decision = rows[i].decision
          /\ rows'[i].long = rows[i].long
          /\ \A j \in Ids \ {i} : rows'[j] = rows[j]
      BY <2>1, <2>2 DEF TypeOK, Row
    <2>6. RowTrue(i) /\ rows[i].decision \in Decisions \cup {"none"}
      BY <2>2 DEF CallsSound, TypeOK, Row
    <2>7. RowTrue(i)'
      BY <2>1, <2>2, <2>3, <2>5, <2>6 DEF RowTrue, Decisions
    <2>8. ~InHand(u)' /\ PersonSound(u)'
      BY <2>4 DEF PersonSound, InHand
    <2> QED
      BY <2>0, <2>1, <2>2, <2>4, <2>5, <2>7, <2>8, PeopleFrame
  <1> QED
    BY <1>1, <1>2, <1>3, <1>4, <1>5, <1>6 DEF Review, Decide, Decides

-----------------------------------------------------------------------------
(* The outcome's desk.  A call that becomes held after its run is over is  *)
(* late, so what a reviewer has to see only shrinks.                       *)

LEMMA HeldMoves ==
  ASSUME TypeOK, Next, NEW i \in Ids, rows'[i].status = "held"
  PROVE  \/ rows[i].status = "held" /\ rows'[i].run = rows[i].run
         \/ stage[rows'[i].run] = "over" => i \in late'
  <1>1. ASSUME UNCHANGED rows
        PROVE  rows[i].status = "held" /\ rows'[i].run = rows[i].run
    BY <1>1
  <1>2. ASSUME NEW q \in Reqs, Record(q)
        PROVE  \/ rows[i].status = "held" /\ rows'[i].run = rows[i].run
               \/ stage[rows'[i].run] = "over" => i \in late'
    <2> DEFINE run == req[q].run
               id == <<q, req[q].at>>
               call == req[q].batch[req[q].at]
               decision == Decision(call.slug, policy[run])
               row == [status |-> StatusOf(decision), decision |-> decision,
                       run |-> run, long |-> call.long]
    <2>1. /\ rows' = [rows EXCEPT ![id] = row]
          /\ late' = IF stage[run] = "over" THEN late \cup {id} ELSE late
      BY <1>2 DEF Record
    <2>2. row.run = run
      OBVIOUS
    <2> HIDE DEF run, id, row
    <2>3. i # id => rows'[i] = rows[i]
      BY <2>1 DEF TypeOK
    <2>4. i = id => rows'[i] = row
      BY <2>1 DEF TypeOK
    <2> QED
      BY <2>1, <2>2, <2>3, <2>4
  <1>3. ASSUME NEW j, NEW s, s # "held", rows' = [rows EXCEPT ![j].status = s]
        PROVE  rows[i].status = "held" /\ rows'[i].run = rows[i].run
    BY <1>3 DEF TypeOK, Row
  <1>4. ASSUME NEW q \in Reqs, Handle(q), ~Record(q)
        PROVE  rows[i].status = "held" /\ rows'[i].run = rows[i].run
    <2>1. ASSUME NEW n \in Positions, Settle(q, n)
          PROVE  rows[i].status = "held" /\ rows'[i].run = rows[i].run
      <3>1. Outcome(req[q].bad) # "held"
        BY DEF Outcome
      <3> QED
        BY <1>3, <2>1, <3>1 DEF Settle
    <2> QED
      BY <1>1, <1>4, <2>1 DEF Handle, RecordRaises, AllRefused, Forward, Answer, Upstream
  <1>5. ASSUME NEW u \in People, Decides(u)
        PROVE  rows[i].status = "held" /\ rows'[i].run = rows[i].run
    <2>1. CASE Mark(u)
      <3>1. Outcome(~umem[u].ok) # "held"
        BY DEF Outcome
      <3> QED
        BY <1>3, <2>1, <3>1 DEF Mark
    <2>2. ASSUME NEW j \in Ids, Claim(u, j)
          PROVE  rows[i].status = "held" /\ rows'[i].run = rows[i].run
      <3>1. rows' = [rows EXCEPT ![j].status = "approved"]
        BY <2>2 DEF Claim
      <3> QED
        BY <1>3, <3>1
    <2>3. ASSUME NEW j \in Ids, Refuse(u, j)
          PROVE  rows[i].status = "held" /\ rows'[i].run = rows[i].run
      <3>1. rows' = [rows EXCEPT ![j].status = "rejected"]
        BY <2>3 DEF Refuse
      <3> QED
        BY <1>3, <3>1
    <2>4. (\E j \in Ids : Refused(u, j)) \/ (\E done, ok \in BOOLEAN : RunCall(u, done, ok))
              \/ EndErrand(u) => UNCHANGED rows
      BY DEF Refused, RunCall, EndErrand
    <2> QED
      BY <1>1, <1>5, <2>1, <2>2, <2>3, <2>4 DEF Decides
  <1> QED
    BY <1>1, <1>2, <1>4, <1>5 DEF Next, Serve, PutGuardrails, Launch, Register, RunEnds, Verify,
       VerifyAgain, Passed, Arrive, Review, Decide, StartErrand, Restart

LEMMA LateGrows == ASSUME Next PROVE late \subseteq late' /\ belongs' = belongs
  <1>1. ASSUME NEW q \in Reqs, Handle(q) PROVE late \subseteq late' /\ belongs' = belongs
    BY <1>1 DEF Handle, Record, RecordRaises, AllRefused, Forward, Answer, Upstream, Settle,
                agentv, history
  <1>2. ASSUME NEW u \in People, Decides(u) PROVE late \subseteq late' /\ belongs' = belongs
    BY <1>2 DEF Decides, Claim, Refuse, Refused, RunCall, Mark, EndErrand, agentv, history
  <1> QED
    BY <1>1, <1>2 DEF Next, Serve, PutGuardrails, Launch, Register, RunEnds, Verify,
       VerifyAgain, Passed, Arrive, Review, Decide, StartErrand, Restart, agentv, history

LEMMA OverStays ==
  ASSUME TypeOK, Next, NEW r \in Runs, stage[r] = "over"
  PROVE  stage'[r] = "over"
  <1>1. ASSUME NEW q \in Reqs, Handle(q) PROVE stage'[r] = "over"
    BY <1>1 DEF Handle, Record, RecordRaises, AllRefused, Forward, Answer, Upstream, Settle, agentv
  <1>2. ASSUME NEW u \in People, Decides(u) PROVE stage'[r] = "over"
    BY <1>2 DEF Decides, Claim, Refuse, Refused, RunCall, Mark, EndErrand, agentv
  <1>3. ASSUME NEW s \in Runs, Launch(s) \/ Register(s) \/ RunEnds(s) PROVE stage'[r] = "over"
    BY <1>3 DEF Launch, Register, RunEnds, TypeOK
  <1>4. CASE Restart
    BY <1>4 DEF Restart
  <1> QED
    BY <1>1, <1>2, <1>3, <1>4 DEF Next, Serve, PutGuardrails, Verify,
       VerifyAgain, Passed, Arrive, Review, Decide, StartErrand, agentv

LEMMA InTimeShrinks ==
  ASSUME TypeOK, TypeOK', Next, NEW r \in Runs, stage[r] = "over"
  PROVE  InTime(r)' \subseteq InTime(r)
  <1> SUFFICES ASSUME NEW i \in Ids, rows'[i].status = "held", rows'[i].run = r, i \notin late'
               PROVE  rows[i].status = "held" /\ rows[i].run = r /\ i \notin late
    BY DEF InTime, HeldOf
  <1> QED
    BY HeldMoves, LateGrows

LEMMA DeskStep ==
  ASSUME TypeOK, TypeOK', Next, NEW r \in Runs, DeskSound(r),
         \A u \in People : ReviewSound(u)
  PROVE  DeskSound(r)'
  <1>1. ASSUME desk'[r] = desk[r] PROVE DeskSound(r)'
    BY <1>1, InTimeShrinks, OverStays, LateGrows DEF DeskSound
  <1>2. ASSUME desk'[r] = "open" PROVE DeskSound(r)'
    BY <1>2 DEF DeskSound
  <1>3. ASSUME NEW s \in Runs, Verify(s) PROVE DeskSound(r)'
    <2>1. CASE r = s
      <3>1. stage[r] = "over" /\ stage' = stage /\ belongs' = belongs
        BY <1>3, <2>1 DEF Verify, agentv
      <3>2. desk'[r] = "decided" => ~Gated(r)
        BY <1>3, <2>1 DEF Verify, TypeOK
      <3>3. belongs[r] = "live" /\ ~Gated(r) => InTime(r) = {}
        BY DEF Gated, InTime
      <3> QED
        BY <3>1, <3>2, <3>3, InTimeShrinks DEF DeskSound
    <2> QED
      BY <1>1, <1>3, <2>1 DEF Verify, TypeOK
  <1>4. ASSUME NEW s \in Runs, VerifyAgain(s) PROVE DeskSound(r)'
    BY <1>1, <1>2, <1>4 DEF VerifyAgain, TypeOK
  <1>5. ASSUME NEW u \in People, EndErrand(u) PROVE DeskSound(r)'
    <2> DEFINE s == umem[u].run
    <2>1. CASE r = s /\ belongs[s] # "none"
      <3>1. umem[u].listed = {} /\ upc[u] # "idle"
        BY <1>5 DEF EndErrand
      <3>2. stage[r] = "over" /\ InTime(r) = {}
        BY <2>1, <3>1 DEF ReviewSound
      <3> QED
        BY <3>2, InTimeShrinks, OverStays DEF DeskSound
    <2>2. CASE r # s \/ belongs[s] = "none"
      BY <1>1, <1>5, <2>2 DEF EndErrand, TypeOK
    <2> QED
      BY <2>1, <2>2
  <1>6. ASSUME NEW u \in People, Decides(u), ~EndErrand(u) PROVE desk' = desk
    BY <1>6 DEF Decides, Claim, Refuse, Refused, RunCall, Mark
  <1>7. ASSUME NEW q \in Reqs, Handle(q) PROVE desk' = desk
    BY <1>7 DEF Handle, Record, RecordRaises, AllRefused, Forward, Answer, Upstream, Settle
  <1> QED
    BY <1>1, <1>3, <1>4, <1>5, <1>6, <1>7 DEF Next, Serve, PutGuardrails, Launch, Register,
       RunEnds, Passed, Arrive, Review, Decide, StartErrand, Restart

LEMMA ReviewStep ==
  ASSUME TypeOK, TypeOK', Next, NEW u \in People, ReviewSound(u),
         \A r \in Runs : DeskSound(r)
  PROVE  ReviewSound(u)'
  <1>0. umem[u].run \in Runs
    BY DEF TypeOK, Errand
  <1>1. ASSUME upc'[u] = "idle" PROVE ReviewSound(u)'
    BY <1>1 DEF ReviewSound
  <1>2. ASSUME upc[u] # "idle", umem'[u].run = umem[u].run,
               InTime(umem[u].run)' \cap umem[u].listed \subseteq umem'[u].listed
        PROVE  ReviewSound(u)'
    <2>1. PICK r \in Runs : r = umem[u].run
      BY <1>0
    <2>2. CASE belongs[r] = "none"
      BY <1>2, <2>1, <2>2, LateGrows DEF ReviewSound
    <2>3. CASE belongs[r] # "none"
      <3>1. stage[r] = "over" /\ InTime(r) \subseteq umem[u].listed
        BY <1>2, <2>1, <2>3 DEF ReviewSound
      <3>2. stage'[r] = "over" /\ InTime(r)' \subseteq InTime(r)
        BY <3>1, OverStays, InTimeShrinks
      <3>3. InTime(r)' \cap umem[u].listed \subseteq umem'[u].listed
        BY <1>2, <2>1 DEF InTime, HeldOf
      <3> QED
        BY <1>2, <2>1, <3>1, <3>2, <3>3 DEF ReviewSound, InTime, HeldOf
    <2> QED
      BY <2>2, <2>3
  <1>3. ASSUME upc'[u] = upc[u], umem'[u] = umem[u] PROVE ReviewSound(u)'
    BY <1>1, <1>2, <1>3
  <1>4. ASSUME NEW r \in Runs, NEW ids \in SUBSET Ids, NEW a \in BOOLEAN, StartErrand(u, r, ids, a),
               belongs[r] # "none" => stage[r] = "over" /\ InTime(r) \subseteq ids
        PROVE  ReviewSound(u)'
    <2>1. /\ umem'[u] = [listed |-> ids, approve |-> a, run |-> r, row |-> <<>>, ok |-> FALSE]
          /\ UNCHANGED <<stage, belongs, rows, late>>
      BY <1>4 DEF StartErrand, TypeOK, agentv, history
    <2>2. umem'[u].run = r /\ umem'[u].listed = ids
      BY <2>1
    <2>3. InTime(r)' = InTime(r)
      BY <2>1 DEF InTime, HeldOf
    <2> QED
      BY <1>4, <2>1, <2>2, <2>3 DEF ReviewSound, InTime, HeldOf
  <1>5. ASSUME NEW r \in Runs, NEW a \in BOOLEAN, Review(u, r, a) PROVE ReviewSound(u)'
    <2>1. stage[r] = "over" /\ InTime(r) \subseteq HeldOf(r) /\ HeldOf(r) \in SUBSET Ids
      BY <1>5 DEF Review, DeskSound, InTime, HeldOf
    <2> QED
      BY <1>4, <1>5, <2>1 DEF Review
  <1>6. ASSUME NEW i \in Ids, NEW a \in BOOLEAN, Decide(u, i, a) PROVE ReviewSound(u)'
    <2>1. rows[i].run \in Runs /\ {i} \in SUBSET Ids
      BY DEF TypeOK, Row
    <2> QED
      BY <1>4, <1>6, <2>1 DEF Decide
  <1>7. ASSUME NEW i \in Ids, Claim(u, i) \/ Refuse(u, i) PROVE ReviewSound(u)'
    <2>1. upc[u] = "each" /\ umem'[u].run = umem[u].run /\ umem'[u].listed = umem[u].listed \ {i}
      <3>1. CASE Claim(u, i)
        <4> DEFINE local == [[umem[u] EXCEPT !.listed = umem[u].listed \ {i}] EXCEPT !.row = i]
        <4>1. umem' = [umem EXCEPT ![u] = local] /\ upc[u] = "each"
          BY <3>1 DEF Claim
        <4>2. local.run = umem[u].run /\ local.listed = umem[u].listed \ {i}
          BY DEF TypeOK, Errand
        <4> HIDE DEF local
        <4> QED
          BY <4>1, <4>2 DEF TypeOK
      <3>2. CASE Refuse(u, i)
        BY <3>2 DEF Refuse, TypeOK, Errand
      <3> QED
        BY <1>7, <3>1, <3>2
    <2>2. rows'[i].status # "held"
      BY <1>7 DEF Claim, Refuse, TypeOK, Row
    <2>3. i \notin InTime(umem[u].run)'
      BY <2>2 DEF InTime, HeldOf
    <2> QED
      BY <1>2, <2>1, <2>3
  <1>8. ASSUME (\E i \in Ids : Refused(u, i)) \/ EndErrand(u) PROVE ReviewSound(u)'
    BY <1>1, <1>8 DEF Refused, EndErrand, Leave, TypeOK
  <1>9. ASSUME Mark(u) \/ \E done, ok \in BOOLEAN : RunCall(u, done, ok) PROVE ReviewSound(u)'
    <2>1. upc[u] # "idle" /\ umem'[u].run = umem[u].run /\ umem'[u].listed = umem[u].listed
      BY <1>9 DEF Mark, RunCall, TypeOK, Errand
    <2> QED
      BY <1>2, <2>1
  <1>10. CASE Restart
    BY <1>1, <1>10 DEF Restart
  <1>11. ASSUME NEW v \in People \ {u},
                \/ \E r \in Runs, a \in BOOLEAN : Review(v, r, a)
                \/ \E i \in Ids, a \in BOOLEAN : Decide(v, i, a)
                \/ Decides(v)
         PROVE  ReviewSound(u)'
    <2>1. ASSUME NEW i \in Ids, Claim(v, i) PROVE upc'[u] = upc[u] /\ umem'[u] = umem[u]
      <3> DEFINE local == [[umem[v] EXCEPT !.listed = umem[v].listed \ {i}] EXCEPT !.row = i]
      <3>1. umem' = [umem EXCEPT ![v] = local] /\ upc' = [upc EXCEPT ![v] = "call"]
        BY <2>1 DEF Claim
      <3> HIDE DEF local
      <3> QED
        BY <3>1 DEF TypeOK
    <2>2. (\E i \in Ids : Refuse(v, i) \/ Refused(v, i)) \/ Mark(v) \/ EndErrand(v)
              \/ (\E done, ok \in BOOLEAN : RunCall(v, done, ok))
              => upc'[u] = upc[u] /\ umem'[u] = umem[u]
      BY DEF Refuse, Refused, RunCall, Mark, EndErrand, Leave, TypeOK
    <2>3. (\E r \in Runs, ids \in SUBSET Ids, a \in BOOLEAN : StartErrand(v, r, ids, a))
              => upc'[u] = upc[u] /\ umem'[u] = umem[u]
      BY DEF StartErrand, TypeOK
    <2>4. \A i \in Ids : rows[i].run \in Runs /\ {i} \in SUBSET Ids
      BY DEF TypeOK, Row
    <2>5. \A r \in Runs : HeldOf(r) \in SUBSET Ids
      BY DEF HeldOf
    <2>6. upc'[u] = upc[u] /\ umem'[u] = umem[u]
      BY <1>11, <2>1, <2>2, <2>3, <2>4, <2>5 DEF Review, Decide, Decides
    <2> QED
      BY <1>3, <2>6
  <1>12. ASSUME NEW q \in Reqs, Handle(q) PROVE UNCHANGED person
    BY <1>12 DEF Handle, Record, RecordRaises, AllRefused, Forward, Answer, Upstream, Settle
  <1>13. UNCHANGED person => ReviewSound(u)'
    BY <1>3 DEF person
  <1> QED
    BY <1>5, <1>6, <1>7, <1>8, <1>9, <1>10, <1>11, <1>12, <1>13 DEF Next, Decides, Serve,
       PutGuardrails, Launch, Register, RunEnds, Verify, VerifyAgain, Passed, Arrive

-----------------------------------------------------------------------------
(* The invariant.                                                          *)

LEMMA InitIInv == Init => IInv
  <1> SUFFICES ASSUME Init PROVE IInv
    OBVIOUS
  <1>1. TypeOK
    BY InitType
  <1>2. \A i \in Ids : RowTrue(i)
    BY DEF Init, RowTrue, NoRow
  <1>3. \A q \in Reqs : RequestSound(q)
    BY DEF Init, RequestSound, NoRow, Ids
  <1>4. (\A u \in People : PersonSound(u) /\ ReviewSound(u)) /\ OneHand
    BY DEF Init, PersonSound, ReviewSound, OneHand, InHand
  <1>5. \A r \in Runs : DeskSound(r)
    BY DEF Init, DeskSound
  <1> QED
    BY <1>1, <1>2, <1>3, <1>4, <1>5 DEF IInv

LEMMA NextIInv == IInv /\ [Next]_vars => IInv'
  <1> SUFFICES ASSUME IInv, [Next]_vars PROVE IInv'
    OBVIOUS
  <1>0. TypeOK /\ CallsSound
    BY DEF IInv, CallsSound
  <1>1. CASE Next
    <2>1. TypeOK' /\ CallsSound'
      <3>1. CASE \/ \E to \in {"up", "down"} : Serve(to)
                 \/ \E body \in Overrides : PutGuardrails(body)
                 \/ \E r \in Runs : Launch(r) \/ Register(r) \/ RunEnds(r) \/ Verify(r)
                                        \/ VerifyAgain(r)
                 \/ Restart
        BY <1>0, <3>1, RunsType, RunsCalls
      <3>2. ASSUME NEW q \in Reqs,
                   \/ \E r \in Runs : Passed(q, r) \/ \E b \in Batches : Arrive(q, r, b)
                   \/ Handle(q)
            PROVE  TypeOK' /\ CallsSound'
        BY <1>0, <3>2, RequestsType, RequestsCalls
      <3>3. ASSUME NEW u \in People,
                   \/ \E r \in Runs, a \in BOOLEAN : Review(u, r, a)
                   \/ \E i \in Ids, a \in BOOLEAN : Decide(u, i, a)
                   \/ Decides(u)
            PROVE  TypeOK' /\ CallsSound'
        <4>1. PersonSound(u)
          BY DEF IInv
        <4> QED
          BY <1>0, <3>3, <4>1, PeopleType, PeopleCalls
      <3> QED
        BY <1>1, <3>1, <3>2, <3>3 DEF Next
    <2>2. \A r \in Runs : DeskSound(r)'
      BY <1>0, <1>1, <2>1, DeskStep DEF IInv
    <2>3. \A u \in People : ReviewSound(u)'
      BY <1>0, <1>1, <2>1, ReviewStep DEF IInv
    <2> QED
      BY <2>1, <2>2, <2>3 DEF IInv, CallsSound
  <1>2. CASE UNCHANGED vars
    BY <1>2 DEF vars, agentv, request, person, world, history, IInv, TypeOK, RowTrue,
       RequestSound, PersonSound, ReviewSound, OneHand, InHand, DeskSound, InTime, HeldOf
  <1> QED
    BY <1>1, <1>2

LEMMA Invariant == Spec => []IInv
  BY InitIInv, NextIInv, PTL DEF Spec

(* The state of the gateway keeps its types.                               *)
THEOREM TypesKept == Spec => []TypeOK
  <1>1. IInv => TypeOK
    BY DEF IInv
  <1> QED
    BY <1>1, Invariant, PTL

(* A call runs at most once, and only if the policy allows it or a person  *)
(* approved it; only an approved call can lose its arguments.              *)
THEOREM NoCallTwice == Spec => []RunsOnceIfPermitted
  <1>1. IInv => RunsOnceIfPermitted
    <2> SUFFICES ASSUME IInv, NEW i \in Ids
                 PROVE  /\ ran[i] <= 1
                        /\ ran[i] = 1 => rows[i].decision = "allow" \/ i \in approved
                        /\ i \in altered => rows[i].long /\ i \in approved
      BY DEF RunsOnceIfPermitted
    <2>1. RowTrue(i) /\ rows[i].decision \in Decisions \cup {"none"} /\ rows[i].status \in Statuses \cup {"none"}
      BY DEF IInv, TypeOK, Row
    <2>2. ran[i] = 0 \/ ran[i] = 1
      BY <2>1 DEF RowTrue
    <2>3. ran[i] = 1 => rows[i].status \in {"forwarded", "approved", "executed", "failed"}
      BY <2>1 DEF RowTrue, Statuses
    <2>4. rows[i].decision \in {"block", "none"} => rows[i].status \in {"blocked", "none"}
      BY <2>1 DEF RowTrue
    <2>5. ran[i] = 1 => rows[i].decision = "allow" \/ i \in approved
      BY <2>1, <2>3, <2>4 DEF RowTrue, Decisions
    <2> QED
      BY <2>1, <2>2, <2>5 DEF RowTrue
  <1> QED
    BY <1>1, Invariant, PTL

(* What the audit trail says of a call is what happened to it.             *)
THEOREM TrailIsTrue == Spec => []StatusIsTrue
  <1>1. IInv => StatusIsTrue
    BY DEF IInv, RowTrue, StatusIsTrue
  <1> QED
    BY <1>1, Invariant, PTL

(* No call that was held in time is overlooked when its outcome is decided. *)
THEOREM NoneOverlooked == Spec => []HeldIsListed
  <1>1. IInv => HeldIsListed
    <2> SUFFICES ASSUME IInv, NEW i \in Ids, rows[i].status = "held",
                        belongs[rows[i].run] = "live", desk[rows[i].run] = "decided"
                 PROVE  i \in late
      BY DEF HeldIsListed
    <2>1. rows[i].run \in Runs
      BY DEF IInv, TypeOK, Row
    <2>2. InTime(rows[i].run) = {}
      BY <2>1 DEF IInv, DeskSound
    <2> QED
      BY <2>2 DEF InTime, HeldOf
  <1> QED
    BY <1>1, Invariant, PTL

-----------------------------------------------------------------------------
(* The gateway keeps its promise: each step of it is a step of             *)
(* ConnectorCalls, or none.                                                *)

View == <<[i \in Ids |-> Phase(i)], ran>>

LEMMA Still ==
  ASSUME UNCHANGED <<rows, ran>>
  PROVE  UNCHANGED View
  BY DEF View, Phase

LEMMA PhaseMoves ==
  ASSUME NEW i \in Ids, NEW from, NEW to, \A j \in Ids \ {i} : rows'[j] = rows[j],
         Phase(i) = from, Phase(i)' = to
  PROVE  Promise!Move(i, from, to)
  <1>1. \A j \in Ids \ {i} : Phase(j)' = Phase(j)
    BY DEF Phase
  <1> QED
    BY <1>1 DEF Promise!Move

LEMMA RunsMany ==
  ASSUME NEW S \in SUBSET Ids, UNCHANGED rows, ran' = RanAlso(S),
         \A i \in S : Phase(i) = "granted" /\ ran[i] = 0
  PROVE  Promise!Next
  <1>1. \A i \in Ids : Phase(i)' = Phase(i)
    BY DEF Phase
  <1>2. ran' = [i \in Ids |-> IF i \in S THEN 1 ELSE ran[i]]
    BY DEF RanAlso
  <1>3. Promise!Run(S)
    BY <1>1, <1>2 DEF Promise!Run
  <1> QED
    BY <1>3 DEF Promise!Next

LEMMA HandleRefines ==
  ASSUME IInv, NEW q \in Reqs, Handle(q)
  PROVE  [Promise!Next]_View
  <1>0. /\ req[q] \in Request /\ RequestSound(q) /\ TypeOK
        /\ \A n \in Positions : <<q, n>> \in Ids
    BY DEF IInv, TypeOK, Ids
  <1>1. CASE Record(q)
    <2> DEFINE call == req[q].batch[req[q].at]
               decision == Decision(call.slug, policy[req[q].run])
               row == [status |-> StatusOf(decision), decision |-> decision,
                       run |-> req[q].run, long |-> call.long]
    <2>1. /\ rows' = [rows EXCEPT ![<<q, req[q].at>>] = row]
          /\ pc[q] = "record" /\ UNCHANGED ran
      BY <1>1 DEF Record, world
    <2>2. req[q].at \in Positions
      BY <1>0, <1>1, BatchDomain DEF Record, Request
    <2>3. PICK k \in Positions : k = req[q].at
      BY <2>2
    <2>4. rows[<<q, k>>].status = "none"
      <3>1. k >= req[q].at
        BY <1>0, <2>3 DEF Request
      <3> QED
        BY <1>0, <2>1, <3>1 DEF RequestSound
    <2>5. row.status \in {"forwarded", "held", "blocked"}
      BY DEF StatusOf
    <2> HIDE DEF row
    <2>6. /\ rows'[<<q, k>>] = row
          /\ \A j \in Ids \ {<<q, k>>} : rows'[j] = rows[j]
      BY <1>0, <2>1, <2>3 DEF TypeOK
    <2>7. Phase(<<q, k>>) = "unseen" /\ Phase(<<q, k>>)' \in {"granted", "waiting", "refused"}
      BY <2>4, <2>5, <2>6 DEF Phase
    <2>8. Promise!Ask(<<q, k>>)
      BY <1>0, <2>1, <2>6, <2>7, PhaseMoves DEF Promise!Ask
    <2> QED
      BY <1>0, <2>8 DEF Promise!Next
  <1>2. ASSUME NEW done \in SUBSET Positions, NEW answer \in Answers, Upstream(q, done, answer)
        PROVE  [Promise!Next]_View
    <2> DEFINE S == {<<q, i>> : i \in done}
    <2>1. /\ pc[q] = "post" /\ done \subseteq req[q].allowed
          /\ ran' = RanAlso(S) /\ UNCHANGED rows
      BY <1>2 DEF Upstream
    <2>2. \A n \in done : rows[<<q, n>>].status = "forwarded" /\ ran[<<q, n>>] = 0
      BY <1>0, <2>1 DEF RequestSound
    <2>3. S \in SUBSET Ids /\ \A i \in S : Phase(i) = "granted" /\ ran[i] = 0
      BY <1>0, <2>2 DEF Phase
    <2> QED
      BY <2>1, <2>3, RunsMany
  <1>3. ASSUME NEW i \in Positions, Settle(q, i) PROVE [Promise!Next]_View
    <2>1. /\ rows' = [rows EXCEPT ![<<q, i>>].status = Outcome(req[q].bad)]
          /\ pc[q] = "settle" /\ i \in req[q].open /\ UNCHANGED ran
      BY <1>3 DEF Settle, world
    <2>2. rows[<<q, i>>].status = "forwarded"
      BY <1>0, <2>1 DEF RequestSound
    <2>3. /\ rows'[<<q, i>>].status \in {"executed", "failed"}
          /\ \A j \in Ids \ {<<q, i>>} : rows'[j] = rows[j]
      BY <1>0, <2>1 DEF TypeOK, Row, Outcome
    <2>4. Phase(<<q, i>>) = "granted" /\ Phase(<<q, i>>)' = "closed"
      BY <2>2, <2>3 DEF Phase
    <2>5. Promise!Close(<<q, i>>)
      BY <1>0, <2>1, <2>3, <2>4, PhaseMoves DEF Promise!Close
    <2> QED
      BY <1>0, <2>5 DEF Promise!Next
  <1>4. RecordRaises(q) \/ AllRefused(q) \/ Forward(q) \/ Answer(q) => UNCHANGED <<rows, ran>>
    BY DEF RecordRaises, AllRefused, Forward, Answer, world
  <1> QED
    BY <1>1, <1>2, <1>3, <1>4, Still DEF Handle

LEMMA DecidesRefines ==
  ASSUME IInv, NEW u \in People, Decides(u)
  PROVE  [Promise!Next]_View
  <1>0. TypeOK /\ PersonSound(u)
    BY DEF IInv
  <1>1. ASSUME NEW i \in Ids, NEW s \in {"approved", "rejected"}, rows[i].status = "held",
               rows' = [rows EXCEPT ![i].status = s], UNCHANGED ran
        PROVE  Promise!Next
    <2>1. rows'[i].status = s /\ \A j \in Ids \ {i} : rows'[j] = rows[j]
      BY <1>0, <1>1 DEF TypeOK, Row
    <2>2. Phase(i) = "waiting" /\ Phase(i)' \in {"granted", "refused"}
      BY <1>1, <2>1 DEF Phase
    <2>3. Promise!Decide(i)
      BY <1>1, <2>1, <2>2, PhaseMoves DEF Promise!Decide
    <2> QED
      BY <2>3 DEF Promise!Next
  <1>2. ASSUME NEW i \in Ids, Claim(u, i) PROVE Promise!Next
    <2>1. /\ rows[i].status = "held" /\ rows' = [rows EXCEPT ![i].status = "approved"]
          /\ UNCHANGED ran
      BY <1>2 DEF Claim, Claimable, world
    <2> QED
      BY <1>1, <2>1
  <1>3. ASSUME NEW i \in Ids, Refuse(u, i) PROVE Promise!Next
    <2>1. /\ rows[i].status = "held" /\ rows' = [rows EXCEPT ![i].status = "rejected"]
          /\ UNCHANGED ran
      BY <1>3 DEF Refuse, Claimable, world
    <2> QED
      BY <1>1, <2>1
  <1>4. ASSUME NEW done \in BOOLEAN, NEW ok \in BOOLEAN, RunCall(u, done, ok)
        PROVE  [Promise!Next]_View
    <2>1. PICK i \in Ids : i = umem[u].row
      BY <1>0, <1>4 DEF RunCall, PersonSound, InHand
    <2>2. /\ ran' = IF done THEN RanAlso({i}) ELSE ran
          /\ upc[u] = "call" /\ UNCHANGED rows
      BY <1>4, <2>1 DEF RunCall
    <2>3. rows[i].status = "approved" /\ ran[i] = 0
      BY <1>0, <2>1, <2>2 DEF PersonSound, InHand
    <2>4. Phase(i) = "granted"
      BY <2>3 DEF Phase
    <2>5. CASE done
      BY <2>2, <2>3, <2>4, <2>5, RunsMany
    <2>6. CASE ~done
      BY <2>2, <2>6, Still
    <2> QED
      BY <2>5, <2>6
  <1>5. ASSUME Mark(u) PROVE Promise!Next
    <2>1. PICK i \in Ids : i = umem[u].row
      BY <1>0, <1>5 DEF Mark, PersonSound, InHand
    <2>2. /\ rows' = [rows EXCEPT ![i].status = Outcome(~umem[u].ok)]
          /\ upc[u] = "mark" /\ UNCHANGED ran
      BY <1>5, <2>1 DEF Mark, world
    <2>3. rows[i].status = "approved"
      BY <1>0, <2>1, <2>2 DEF PersonSound, InHand
    <2>4. /\ rows'[i].status \in {"executed", "failed"}
          /\ \A j \in Ids \ {i} : rows'[j] = rows[j]
      BY <1>0, <2>2 DEF TypeOK, Row, Outcome
    <2>5. Phase(i) = "granted" /\ Phase(i)' = "closed"
      BY <2>3, <2>4 DEF Phase
    <2>6. Promise!Close(i)
      BY <2>2, <2>4, <2>5, PhaseMoves DEF Promise!Close
    <2> QED
      BY <2>6 DEF Promise!Next
  <1>6. (\E i \in Ids : Refused(u, i)) \/ EndErrand(u) => UNCHANGED <<rows, ran>>
    BY DEF Refused, EndErrand, world
  <1> QED
    BY <1>2, <1>3, <1>4, <1>5, <1>6, Still DEF Decides

(* Only a granted call runs, at most once, and nothing runs after its      *)
(* books are closed, whatever the gateway, its requests and people do.     *)
THEOREM PromiseKept == Spec => ImplementsPromise
  <1>1. Init => Promise!Init
    BY DEF Init, NoRow, Promise!Init, Phase
  <1>2. IInv /\ [Next]_vars => [Promise!Next]_View
    <2> SUFFICES ASSUME IInv, [Next]_vars PROVE [Promise!Next]_View
      OBVIOUS
    <2>1. ASSUME NEW q \in Reqs, Handle(q) PROVE [Promise!Next]_View
      BY <2>1, HandleRefines
    <2>2. ASSUME NEW u \in People, Decides(u) PROVE [Promise!Next]_View
      BY <2>2, DecidesRefines
    <2>3. ASSUME Next, ~(\E q \in Reqs : Handle(q)), ~(\E u \in People : Decides(u))
          PROVE  UNCHANGED <<rows, ran>>
      BY <2>3 DEF Next, Serve, PutGuardrails, Launch, Register, RunEnds, Verify, VerifyAgain,
         Passed, Arrive, Review, Decide, StartErrand, Restart, world
    <2>4. UNCHANGED vars => UNCHANGED <<rows, ran>>
      BY DEF vars, world
    <2> QED
      BY <2>1, <2>2, <2>3, <2>4, Still
  <1> QED
    BY <1>1, <1>2, Invariant, PTL DEF Spec, ImplementsPromise, Promise!Spec, View
=============================================================================
