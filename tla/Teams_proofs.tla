---------------------------- MODULE Teams_proofs ----------------------------
(***************************************************************************)
(* A team keeps an admin and an invitation is used once, unless the        *)
(* requests that could break it overlapped: for any number of people,      *)
(* clients and invitations.                                                *)
(***************************************************************************)
EXTENDS Teams, FiniteSetTheorems, TLAPS

(* Whoever joins is registered, and an invitation at hand is a real one.   *)
RequestSound(c) ==
    /\ pc[c] = "join" => Registered(mem[c].who)
    /\ pc[c] \in {"join", "spend"} => mem[c].inv \in Invites

(* Members are registered.                                                 *)
MembersKnown == \A p \in People : team[p] # "no" => Registered(p)

(* A write that takes an admin away leaves another one, unless a second    *)
(* write came between its count and itself.                                *)
WriteSafe(c) ==
    pc[c] = "write" /\ ~raced =>
        \/ \E p \in Admins : p # mem[c].who
        \/ mem[c].op # "remove" /\ mem[c].role = "admin"

(* An invitation is in one request's hands, and is not used before that    *)
(* request has let somebody in.                                            *)
Holds(c, i) == pc[c] # "idle" /\ mem[c].inv = i
UseSound(i) ==
    i \notin unsure =>
        /\ uses[i] <= 1
        /\ \A c, d \in Clients : Holds(c, i) /\ Holds(d, i) => c = d
        /\ \A c \in Clients : Holds(c, i) /\ pc[c] # "spend" => uses[i] = 0
        /\ invites[i].status \in {"none", "pending"} =>
               uses[i] = 0 \/ \E c \in Clients : Holds(c, i) /\ pc[c] = "spend"

IInv ==
    /\ TypeOK /\ MembersKnown /\ AdminKept
    /\ \A c \in Clients : RequestSound(c) /\ WriteSafe(c)
    /\ \A i \in Invites : UseSound(i)

LEMMA InitIInv == Init => IInv
  <1> SUFFICES ASSUME Init PROVE IInv
    OBVIOUS
  <1> USE TeamsAssumption
  <1>1. TypeOK
    BY DEF Init, TypeOK, Roles, Orgs, Invitation, Memory, Blank, NoInvite
  <1>2. MembersKnown /\ AdminKept
    BY DEF Init, MembersKnown, Registered, AdminKept, Admins
  <1>3. \A c \in Clients : RequestSound(c) /\ WriteSafe(c)
    BY DEF Init, RequestSound, WriteSafe
  <1>4. \A i \in Invites : UseSound(i)
    BY DEF Init, UseSound, Holds
  <1> QED
    BY <1>1, <1>2, <1>3, <1>4 DEF IInv

-----------------------------------------------------------------------------
(* Types.                                                                  *)

LEMMA BlankType == Blank \in Memory
  BY TeamsAssumption DEF Blank, Memory, Roles, Orgs, NoInvite

(* A session acts in an organisation its user belongs to.                  *)
LEMMA ActsInType ==
  ASSUME TypeOK, NEW p \in People, Resolved(p)
  PROVE  ActsIn(p) \in Orgs /\ active' \in [People -> Orgs \cup {"none"}]
  <1>1. home[p].org \in Orgs /\ active[p] \in Orgs \cup {"none"}
    BY DEF TypeOK, Resolved, Registered
  <1>2. \E o \in Orgs : Belongs(p, o)
    BY DEF Resolved, Homeless, Orgs
  <1>3. (CHOOSE o \in Orgs : Belongs(p, o)) \in Orgs
    BY <1>2
  <1>4. ActsIn(p) \in Orgs
    BY <1>1, <1>3 DEF ActsIn
  <1> QED
    BY <1>4 DEF Resolved, TypeOK

LEMMA ClientsType ==
  ASSUME TypeOK, NEW c \in Clients, RequestSound(c),
         \/ \E p \in People : SignUpFreely(c, p) \/ Register(c, p) \/ GoogleCallback(c, p)
         \/ \E p \in People, i \in Invites : Accept(c, p, i)
         \/ \E p, t \in People, op \in {"remove", "set_role"}, role \in Roles :
                Change(c, p, t, op, role)
         \/ CreateUser(c) \/ Join(c) \/ Spend(c) \/ ReadTarget(c) \/ CountAdmins(c) \/ Write(c)
  PROVE  TypeOK'
  <1> USE DEF tables, procs, history
  <1>0. mem[c] \in Memory
    BY DEF TypeOK
  <1>1. ASSUME NEW p \in People, NEW role \in Roles, NEW i \in Invites \cup {NoInvite},
               NEW o \in Orgs, SignUp(c, p, role, i, o)
        PROVE  TypeOK'
    <2>1. [op |-> "register", who |-> p, inv |-> i, role |-> role, org |-> o] \in Memory
      BY DEF Memory
    <2>2. unsure' \subseteq Invites
      BY <1>1 DEF SignUp, TypeOK
    <2> QED
      BY <1>1, <2>1, <2>2 DEF SignUp, Goto, TypeOK
  <1>2. ASSUME NEW p \in People, SignUpFreely(c, p) \/ Register(c, p) \/ GoogleCallback(c, p)
        PROVE  TypeOK'
    <2>1. \A i \in Invites : invites[i].role \in Roles /\ Lands(i) \in Orgs
      BY DEF TypeOK, Invitation, Lands, Orgs
    <2>2. "admin" \in Roles /\ "own" \in Orgs /\ "team" \in Orgs
      BY DEF Roles, Orgs
    <2> QED
      BY <1>1, <1>2, <2>1, <2>2 DEF SignUpFreely, Register, GoogleCallback
  <1>3. ASSUME NEW p \in People, NEW i \in Invites, Accept(c, p, i) PROVE TypeOK'
    <2> DEFINE local == [op |-> "accept", who |-> p, inv |-> i, role |-> "member", org |-> "team"]
    <2>3. active' \in [People -> Orgs \cup {"none"}]
      BY <1>3, ActsInType DEF Accept
    <2>4. /\ mem' = [mem EXCEPT ![c] = local] /\ pc' = [pc EXCEPT ![c] = "join"]
          /\ unsure' \in {unsure, unsure \cup {i}}
          /\ UNCHANGED <<open, team, own, home, invites, restarts, uses, raced>>
      BY <1>3 DEF Accept, Goto
    <2>5. local \in Memory
      BY DEF Memory, Roles, Orgs
    <2> HIDE DEF local
    <2> QED
      BY <2>3, <2>4, <2>5 DEF TypeOK
  <1>4. ASSUME NEW p \in People, NEW t \in People, NEW op \in {"remove", "set_role"},
               NEW role \in Roles, Change(c, p, t, op, role)
        PROVE  TypeOK'
    <2> DEFINE local == [op |-> op, who |-> t, inv |-> NoInvite, role |-> role, org |-> "team"]
    <2>5. local \in Memory
      BY DEF Memory, Orgs
    <2>3. active' \in [People -> Orgs \cup {"none"}]
      BY <1>4, ActsInType DEF Change
    <2>4. /\ mem' = [mem EXCEPT ![c] = local] /\ pc' = [pc EXCEPT ![c] = "target"]
          /\ UNCHANGED <<open, team, own, home, invites, restarts, history>>
      BY <1>4 DEF Change, Goto
    <2> HIDE DEF local
    <2> QED
      BY <2>3, <2>4, <2>5 DEF TypeOK
  <1>5. CASE CreateUser(c)
    <2>1. [org |-> mem[c].org, role |-> mem[c].role] \in [org : Orgs \cup {"none"}, role : Roles]
      BY <1>0 DEF Memory
    <2>2. mem[c].role \in Roles /\ mem[c].org \in Orgs /\ mem[c].who \in People
      BY <1>0 DEF Memory
    <2>3. home' \in [People -> [org : Orgs \cup {"none"}, role : Roles]]
      BY <1>5, <2>1, <2>2 DEF CreateUser, TypeOK
    <2>4. team' \in [People -> Roles \cup {"no"}] /\ own' \in [People -> BOOLEAN]
      BY <1>5, <2>2 DEF CreateUser, TypeOK
    <2>5. active' \in [People -> Orgs \cup {"none"}]
      BY <1>5, <2>2 DEF CreateUser, TypeOK
    <2>6. uses' \in [Invites -> Nat]
      BY <1>5 DEF CreateUser, TypeOK
    <2>7. pc' \in [Clients -> {"idle", "create", "join", "spend", "target", "count", "write"}]
          /\ mem' \in [Clients -> Memory]
      BY <1>5, BlankType DEF CreateUser, Reply, Goto, TypeOK
    <2> QED
      BY <1>5, <2>3, <2>4, <2>5, <2>6, <2>7 DEF CreateUser, TypeOK
  <1>6. CASE Join(c)
    <2>1. mem[c].who \in People /\ mem[c].inv \in Invites
      BY <1>0, <1>6 DEF Memory, Join, RequestSound
    <2>2. invites[mem[c].inv].role \in Roles /\ "team" \in Orgs
      BY <2>1 DEF TypeOK, Invitation, Orgs
    <2> QED
      BY <1>6, <2>1, <2>2 DEF Join, Goto, TypeOK
  <1>7. CASE Spend(c)
    <2>1. mem[c].inv \in Invites
      BY <1>7 DEF Spend, RequestSound
    <2>2. [invites[mem[c].inv] EXCEPT !.status = "accepted"] \in Invitation
      BY <2>1 DEF TypeOK, Invitation
    <2> QED
      BY <1>7, <2>2, BlankType DEF Spend, Reply, TypeOK
  <1>8. CASE ReadTarget(c) \/ CountAdmins(c)
    BY <1>8, BlankType DEF ReadTarget, CountAdmins, Reply, Goto, TypeOK
  <1>9. CASE Write(c)
    <2>1. mem[c].role \in Roles
      BY <1>0 DEF Memory
    <2>2. team' \in [People -> Roles \cup {"no"}]
      BY <1>9, <2>1 DEF Write, TypeOK
    <2> QED
      BY <1>9, <2>2, BlankType DEF Write, Reply, TypeOK
  <1> QED
    BY <1>2, <1>3, <1>4, <1>5, <1>6, <1>7, <1>8, <1>9

LEMMA OthersType ==
  ASSUME TypeOK, \A c \in Clients : RequestSound(c),
         \/ \E p, to \in People, i \in Invites :
                InviteTeam(p, i, to) \/ \E role \in Roles : Invite(p, i, to, role)
         \/ \E p \in People : Rejoin(p) \/ \E i \in Invites : Revoke(p, i)
         \/ \E p \in People, o \in Orgs : SwitchOrg(p, o)
         \/ \E i \in Invites : Expire(i)
         \/ Restart
  PROVE  TypeOK'
  <1> USE DEF tables, procs, history
  <1>1. ASSUME NEW p \in People, NEW to \in People, NEW i \in Invites, NEW role \in Roles,
               NEW fresh \in BOOLEAN, Issue(p, i, to, role, fresh)
        PROVE  TypeOK'
    <2>1. [status |-> "pending", to |-> to, role |-> role, fresh |-> fresh, expired |-> FALSE]
              \in Invitation
      BY DEF Invitation
    <2>2. active' \in [People -> Orgs \cup {"none"}]
      BY <1>1, ActsInType DEF Issue, AsAdmin
    <2> QED
      BY <1>1, <2>1, <2>2 DEF Issue, TypeOK
  <1>2. ASSUME NEW p \in People, NEW to \in People, NEW i \in Invites,
               InviteTeam(p, i, to) \/ \E role \in Roles : Invite(p, i, to, role)
        PROVE  TypeOK'
    BY <1>1, <1>2 DEF InviteTeam, Invite, Roles
  <1>3. ASSUME NEW p \in People, Rejoin(p) PROVE TypeOK'
    <2>1. home[p].role \in Roles
      BY DEF TypeOK
    <2> QED
      BY <1>3, <2>1 DEF Rejoin, TypeOK
  <1>4. ASSUME NEW p \in People, NEW i \in Invites, Revoke(p, i) PROVE TypeOK'
    <2>1. [invites[i] EXCEPT !.status = "revoked"] \in Invitation
      BY DEF TypeOK, Invitation
    <2>2. active' \in [People -> Orgs \cup {"none"}]
      BY <1>4, ActsInType DEF Revoke, AsAdmin
    <2> QED
      BY <1>4, <2>1, <2>2 DEF Revoke, TypeOK
  <1>5. ASSUME NEW p \in People, NEW o \in Orgs, SwitchOrg(p, o) PROVE TypeOK'
    BY <1>5 DEF SwitchOrg, TypeOK
  <1>6. ASSUME NEW i \in Invites, Expire(i) PROVE TypeOK'
    <2>1. [invites[i] EXCEPT !.expired = TRUE] \in Invitation
      BY DEF TypeOK, Invitation
    <2> QED
      BY <1>6, <2>1 DEF Expire, TypeOK
  <1>7. CASE Restart
    <2>1. unsure' \subseteq Invites
      BY <1>7 DEF Restart, RequestSound, TypeOK
    <2> QED
      BY <1>7, <2>1, BlankType DEF Restart, TypeOK
  <1> QED
    BY <1>2, <1>3, <1>4, <1>5, <1>6, <1>7

-----------------------------------------------------------------------------
(* Members and their admins.  Only a write takes an admin away.            *)

MembersSound ==
    /\ MembersKnown /\ AdminKept
    /\ \A c \in Clients : RequestSound(c) /\ WriteSafe(c)

(* Nobody is lost, and a request that waits to write was there before.     *)
LEMMA MembersFrame ==
  ASSUME TypeOK, MembersSound,
         Admins \subseteq Admins', raced => raced',
         \A p \in People : team'[p] # "no" => home'[p].org # "none",
         \A c \in Clients : pc'[c] = "write" => pc[c] = "write" /\ mem'[c] = mem[c],
         \A c \in Clients : RequestSound(c)'
  PROVE  MembersSound'
  <1>1. MembersKnown'
    BY DEF MembersKnown, Registered
  <1>2. AdminKept'
    BY DEF MembersSound, AdminKept
  <1>3. \A c \in Clients : WriteSafe(c)'
    BY DEF MembersSound, WriteSafe
  <1> QED
    BY <1>1, <1>2, <1>3 DEF MembersSound

LEMMA ClientsMembers ==
  ASSUME TypeOK, TypeOK', MembersSound, NEW c \in Clients,
         \/ \E p \in People : SignUpFreely(c, p) \/ Register(c, p) \/ GoogleCallback(c, p)
         \/ \E p \in People, i \in Invites : Accept(c, p, i)
         \/ \E p, t \in People, op \in {"remove", "set_role"}, role \in Roles :
                Change(c, p, t, op, role)
         \/ CreateUser(c) \/ Join(c) \/ Spend(c) \/ ReadTarget(c) \/ CountAdmins(c) \/ Write(c)
  PROVE  MembersSound'
  <1> USE DEF tables, procs, history
  <1>0. /\ mem[c] \in Memory /\ RequestSound(c) /\ WriteSafe(c) /\ MembersKnown
        /\ \A d \in Clients : RequestSound(d) /\ WriteSafe(d)
    BY DEF TypeOK, MembersSound
  (* A step that neither joins nor changes a member, and writes not next.  *)
  <1>1. ASSUME UNCHANGED <<team, home>>, raced' = raced,
               \A d \in Clients \ {c} : pc'[d] = pc[d] /\ mem'[d] = mem[d],
               pc'[c] # "write", RequestSound(c)'
        PROVE  MembersSound'
    <2>1. Admins' = Admins
      BY <1>1 DEF Admins
    <2>2. \A d \in Clients : RequestSound(d)'
      BY <1>0, <1>1 DEF RequestSound, Registered
    <2> QED
      BY <1>0, <1>1, <2>1, <2>2, MembersFrame DEF MembersKnown, Registered
  <1>2. ASSUME NEW p, NEW role, NEW i, NEW o, SignUp(c, p, role, i, o) PROVE MembersSound'
    <2>1. pc'[c] = "create"
      BY <1>2 DEF SignUp, Goto, TypeOK
    <2> QED
      BY <1>1, <1>2, <2>1 DEF SignUp, Goto, TypeOK, RequestSound
  <1>3. ASSUME NEW p \in People, NEW i \in Invites, Accept(c, p, i) PROVE MembersSound'
    <2>1. pc'[c] = "join" /\ mem'[c].who = p /\ mem'[c].inv = i
      BY <1>3 DEF Accept, Goto, TypeOK
    <2>2. RequestSound(c)'
      BY <1>3, <2>1 DEF RequestSound, Accept, Resolved, Registered
    <2> QED
      BY <1>1, <1>3, <2>1, <2>2 DEF Accept, Goto, TypeOK
  <1>4. ASSUME NEW p, NEW t, NEW op, NEW role, Change(c, p, t, op, role) PROVE MembersSound'
    <2>1. pc'[c] = "target"
      BY <1>4 DEF Change, Goto, TypeOK
    <2> QED
      BY <1>1, <1>4, <2>1 DEF Change, Goto, TypeOK, RequestSound
  <1>5. CASE CreateUser(c)
    <2>1. mem[c].who \in People /\ mem[c].org # "none" /\ mem[c].inv \in Invites \cup {NoInvite}
      BY <1>0 DEF Memory, Orgs
    <2>2. /\ raced' = raced /\ \A d \in Clients \ {c} : pc'[d] = pc[d] /\ mem'[d] = mem[d]
          /\ pc'[c] \in {"idle", "spend"} /\ (pc'[c] = "spend" => mem'[c].inv \in Invites)
      BY <1>5, <2>1 DEF CreateUser, Reply, Goto, TypeOK
    <2>3. \A p \in People : home'[p].org = home[p].org \/ home'[p].org # "none"
      BY <1>5, <2>1 DEF CreateUser, TypeOK
    <2>4. \A p \in People : team'[p] = team[p] \/ (~Registered(p) /\ home'[p].org # "none")
      BY <1>5, <2>1 DEF CreateUser, TypeOK
    <2>5. Admins \subseteq Admins'
      <3>1. \A p \in Admins : team'[p] = team[p]
        BY <1>0, <2>4 DEF Admins, MembersKnown
      <3> QED
        BY <3>1 DEF Admins
    <2>6. \A d \in Clients : RequestSound(d)'
      BY <1>0, <2>2, <2>3 DEF RequestSound, Registered, TypeOK, Memory
    <2>7. \A p \in People : team'[p] # "no" => home'[p].org # "none"
      BY <1>0, <2>3, <2>4 DEF MembersKnown, Registered
    <2> QED
      BY <2>2, <2>5, <2>6, <2>7, MembersFrame
  <1>6. CASE Join(c)
    <2>1. mem[c].who \in People /\ Registered(mem[c].who) /\ mem[c].inv \in Invites
      BY <1>0, <1>6 DEF Memory, Join, RequestSound
    <2>2. \A p \in People : team'[p] = team[p] \/ (team[p] = "no" /\ Registered(p))
      BY <1>6, <2>1 DEF Join, TypeOK
    <2>3. /\ UNCHANGED <<home, raced, mem>> /\ \A d \in Clients \ {c} : pc'[d] = pc[d]
          /\ pc'[c] = "spend"
      BY <1>6 DEF Join, Goto, TypeOK
    <2>4. Admins \subseteq Admins'
      BY <2>2 DEF Admins
    <2>5. \A d \in Clients : RequestSound(d)'
      BY <1>0, <2>1, <2>3 DEF RequestSound, Registered
    <2>6. \A p \in People : team'[p] # "no" => home'[p].org # "none"
      BY <1>0, <2>2, <2>3 DEF MembersKnown, Registered
    <2> QED
      BY <2>3, <2>4, <2>5, <2>6, MembersFrame
  <1>7. CASE Spend(c)
    <2>1. pc'[c] = "idle"
      BY <1>7 DEF Spend, Reply, TypeOK
    <2> QED
      BY <1>1, <1>7, <2>1 DEF Spend, Reply, TypeOK, RequestSound
  <1>8. ASSUME UNCHANGED <<team, home, raced, mem>>, pc' = [pc EXCEPT ![c] = "write"],
               WriteSafe(c)'
        PROVE  MembersSound'
    <2>1. \A d \in Clients \ {c} : pc'[d] = pc[d]
      BY <1>8 DEF TypeOK
    <2>2. Admins' = Admins /\ pc'[c] = "write"
      BY <1>8 DEF Admins, TypeOK
    <2>3. \A d \in Clients : RequestSound(d)' /\ WriteSafe(d)'
      BY <1>0, <1>8, <2>1, <2>2 DEF RequestSound, Registered, WriteSafe
    <2> QED
      BY <1>8, <2>2, <2>3 DEF MembersSound, MembersKnown, Registered, AdminKept
  <1>9. CASE ReadTarget(c)
    <2> DEFINE who == mem[c].who
    <2>1. CASE pc'[c] = "write"
      <3>1. /\ UNCHANGED <<team, home, raced, mem>> /\ pc' = [pc EXCEPT ![c] = "write"]
            /\ ~Departs(mem[c], team[who]) /\ team[who] # "no"
        BY <1>9, <2>1 DEF ReadTarget, Reply, Goto, TypeOK
      <3>2. team[who] = "admin" => mem[c].op # "remove" /\ mem[c].role = "admin"
        BY <3>1 DEF Departs
      <3>3. team[who] # "admin" /\ ~raced => \E p \in Admins : p # who
        BY DEF MembersSound, AdminKept, Admins
      <3>4. WriteSafe(c)'
        BY <3>1, <3>2, <3>3 DEF WriteSafe, Admins
      <3> QED
        BY <1>8, <3>1, <3>4
    <2>2. CASE pc'[c] # "write"
      <3>1. pc'[c] \in {"idle", "count"}
        BY <1>9, <2>2 DEF ReadTarget, Reply, Goto, TypeOK
      <3> QED
        BY <1>1, <1>9, <2>2, <3>1 DEF ReadTarget, Reply, Goto, TypeOK, RequestSound
    <2> QED
      BY <2>1, <2>2
  <1>10. CASE CountAdmins(c)
    <2>1. CASE Cardinality(Admins) <= 1
      <3>1. pc'[c] = "idle"
        BY <1>10, <2>1 DEF CountAdmins, Reply, TypeOK
      <3> QED
        BY <1>1, <1>10, <2>1, <3>1 DEF CountAdmins, Reply, TypeOK, RequestSound
    <2>2. CASE ~(Cardinality(Admins) <= 1)
      <3>1. UNCHANGED <<team, home, raced, mem>> /\ pc' = [pc EXCEPT ![c] = "write"]
        BY <1>10, <2>2 DEF CountAdmins, Goto
      <3>2. Admins # {} /\ Admins # {mem[c].who}
        <4>1. Admins = {} => Cardinality(Admins) = 0
          BY FS_EmptySet
        <4>2. \A x : Cardinality({x}) = 1
          BY FS_Singleton
        <4>3. Admins = {mem[c].who} => Cardinality(Admins) = 1
          BY <4>2
        <4> QED
          BY <2>2, <4>1, <4>3
      <3>3. \E p \in Admins : p # mem[c].who
        BY <3>2
      <3>4. WriteSafe(c)'
        BY <3>1, <3>3 DEF WriteSafe, Admins
      <3> QED
        BY <1>8, <3>1, <3>4
    <2> QED
      BY <2>1, <2>2
  <1>11. CASE Write(c)
    <2>1. /\ pc[c] = "write" /\ UNCHANGED home /\ pc'[c] = "idle"
          /\ \A d \in Clients \ {c} : pc'[d] = pc[d] /\ mem'[d] = mem[d]
      BY <1>11 DEF Write, Reply, TypeOK
    <2>2. (\E d \in Clients \ {c} : pc[d] = "write") => raced'
      BY <1>11 DEF Write
    <2>3. raced => raced'
      BY <1>11 DEF Write
    <2>4. /\ \A p \in People : team'[p] # "no" => team[p] # "no"
          /\ \A p \in People \ {mem[c].who} : team'[p] = team[p]
          /\ mem[c].op # "remove" /\ mem[c].role = "admin" => Admins \subseteq Admins'
      BY <1>11 DEF Write, TypeOK, Admins
    <2>5. AdminKept'
      <3> SUFFICES ASSUME ~raced' PROVE Admins' # {}
        BY DEF AdminKept
      <3>1. CASE \E p \in Admins : p # mem[c].who
        BY <2>4, <3>1 DEF Admins
      <3>2. CASE mem[c].op # "remove" /\ mem[c].role = "admin"
        BY <2>3, <2>4, <3>2 DEF MembersSound, AdminKept
      <3> QED
        BY <1>0, <2>1, <2>3, <3>1, <3>2 DEF WriteSafe
    <2>6. \A d \in Clients : RequestSound(d)' /\ WriteSafe(d)'
      BY <1>0, <2>1, <2>2 DEF RequestSound, Registered, WriteSafe
    <2>7. MembersKnown'
      BY <1>0, <2>1, <2>4 DEF MembersKnown, Registered
    <2> QED
      BY <2>5, <2>6, <2>7 DEF MembersSound
  <1> QED
    BY <1>2, <1>3, <1>4, <1>5, <1>6, <1>7, <1>9, <1>10, <1>11
       DEF SignUpFreely, Register, GoogleCallback

LEMMA OthersMembers ==
  ASSUME TypeOK, TypeOK', MembersSound,
         \/ \E p, to \in People, i \in Invites :
                InviteTeam(p, i, to) \/ \E role \in Roles : Invite(p, i, to, role)
         \/ \E p \in People : Rejoin(p) \/ \E i \in Invites : Revoke(p, i)
         \/ \E p \in People, o \in Orgs : SwitchOrg(p, o)
         \/ \E i \in Invites : Expire(i)
         \/ Restart
  PROVE  MembersSound'
  <1> USE DEF tables, procs, history
  <1>0. MembersKnown /\ \A d \in Clients : RequestSound(d)
    BY DEF MembersSound
  <1>1. ASSUME NEW p \in People, Rejoin(p) PROVE MembersSound'
    <2>1. /\ UNCHANGED <<home, pc, mem, raced>> /\ Registered(p)
          /\ \A x \in People : team'[x] = team[x] \/ (team[x] = "no" /\ x = p)
      BY <1>1 DEF Rejoin, TypeOK, Homeless, Belongs
    <2>2. Admins \subseteq Admins'
      BY <2>1 DEF Admins
    <2> QED
      BY <1>0, <2>1, <2>2, MembersFrame DEF MembersKnown, Registered, RequestSound
  <1>2. CASE Restart
    <2>1. UNCHANGED <<team, home, raced>> /\ \A c \in Clients : pc'[c] = "idle"
      BY <1>2 DEF Restart
    <2>2. Admins' = Admins
      BY <2>1 DEF Admins
    <2> QED
      BY <1>0, <2>1, <2>2, MembersFrame DEF MembersKnown, Registered, RequestSound
  <1>3. ASSUME UNCHANGED <<team, home, pc, mem, raced>> PROVE MembersSound'
    BY <1>3 DEF MembersSound, MembersKnown, AdminKept, RequestSound, WriteSafe, Registered, Admins
  <1> QED
    BY <1>1, <1>2, <1>3 DEF InviteTeam, Invite, Issue, Revoke, SwitchOrg, Expire

-----------------------------------------------------------------------------
(* Invitations.                                                            *)

(* A client that lets go of what it has in hand without using it, or keeps *)
(* it as it is.                                                            *)
LEMMA UseFrame ==
  ASSUME NEW i \in Invites, UseSound(i),
         unsure' = unsure, uses'[i] = uses[i],
         invites'[i].status \in {"none", "pending"} => invites[i].status \in {"none", "pending"},
         \A c \in Clients : Holds(c, i)' => Holds(c, i) /\ pc'[c] = pc[c],
         \A c \in Clients : Holds(c, i) /\ pc[c] = "spend" =>
             (invites'[i].status \in {"none", "pending"} => Holds(c, i)')
  PROVE  UseSound(i)'
  <1>1. \A c \in Clients : Holds(c, i) /\ pc[c] = "spend" /\ Holds(c, i)' => pc'[c] = "spend"
    OBVIOUS
  <1> QED
    BY <1>1 DEF UseSound

(* Another request than the one that takes the invitation.                 *)
LEMMA TakeUse ==
  ASSUME TypeOK, NEW c \in Clients, NEW i \in Invites, UseSound(i), NEW k,
         ~Holds(c, i), UNCHANGED <<uses, invites>>,
         k = i => Acceptable(i),
         unsure' = IF Holding(k, c) THEN unsure \cup ({k} \ {NoInvite}) ELSE unsure,
         \A d \in Clients \ {c} : pc'[d] = pc[d] /\ mem'[d] = mem[d],
         pc'[c] # "idle", pc'[c] # "spend", mem'[c].inv = k
  PROVE  UseSound(i)'
  <1> SUFFICES ASSUME i \notin unsure' PROVE UseSound(i)'
    BY DEF UseSound
  <1>1. \A d \in Clients \ {c} : Holds(d, i)' <=> Holds(d, i)
    BY DEF Holds
  <1>2. i # NoInvite
    BY TeamsAssumption DEF NoInvite
  <1>3. i \notin unsure
    OBVIOUS
  <1>4. CASE k # i
    <2>1. ~Holds(c, i)'
      BY <1>4 DEF Holds
    <2> QED
      BY <1>1, <1>3, <2>1 DEF UseSound
  <1>5. CASE k = i
    <2>1. ~Holding(i, c)
      BY <1>2, <1>5
    <2>2. \A d \in Clients : ~Holds(d, i)
      BY <2>1 DEF Holds, Holding
    <2>3. uses[i] = 0
      BY <1>3, <1>5, <2>2 DEF UseSound, Acceptable
    <2> QED
      BY <1>1, <2>2, <2>3 DEF UseSound
  <1> QED
    BY <1>4, <1>5

LEMMA ClientsUse ==
  ASSUME TypeOK, TypeOK', NEW c \in Clients, RequestSound(c), NEW i \in Invites, UseSound(i),
         \/ \E p \in People : SignUpFreely(c, p) \/ Register(c, p) \/ GoogleCallback(c, p)
         \/ \E p \in People, j \in Invites : Accept(c, p, j)
         \/ \E p, t \in People, op \in {"remove", "set_role"}, role \in Roles :
                Change(c, p, t, op, role)
         \/ CreateUser(c) \/ Join(c) \/ Spend(c) \/ ReadTarget(c) \/ CountAdmins(c) \/ Write(c)
  PROVE  UseSound(i)'
  <1> USE DEF tables, procs, history
  <1>0. mem[c] \in Memory /\ i # NoInvite
    BY TeamsAssumption DEF TypeOK, NoInvite
  (* A step that uses nothing, and keeps or drops what it holds.           *)
  <1>1. ASSUME UNCHANGED <<uses, unsure>>,
               \A d \in Clients \ {c} : pc'[d] = pc[d] /\ mem'[d] = mem[d],
               UNCHANGED invites,
               Holds(c, i)' => Holds(c, i) /\ pc'[c] = pc[c],
               ~(Holds(c, i) /\ pc[c] = "spend")
        PROVE  UseSound(i)'
    <2>1. \A d \in Clients \ {c} : Holds(d, i)' <=> Holds(d, i)
      BY <1>1 DEF Holds
    <2>2. \A d \in Clients : Holds(d, i)' => Holds(d, i) /\ pc'[d] = pc[d]
      BY <1>1, <2>1
    <2>3. \A d \in Clients : Holds(d, i) /\ pc[d] = "spend" => Holds(d, i)'
      BY <1>1, <2>1
    <2> QED
      BY <1>1, <2>2, <2>3, UseFrame
  (* A step that lets somebody in.                                         *)
  <1>2. ASSUME Holds(c, i), pc[c] # "spend", pc'[c] = "spend", Holds(c, i)',
               uses' = [uses EXCEPT ![i] = @ + 1], UNCHANGED <<unsure, invites>>,
               \A d \in Clients \ {c} : pc'[d] = pc[d] /\ mem'[d] = mem[d]
        PROVE  UseSound(i)'
    <2> SUFFICES ASSUME i \notin unsure PROVE UseSound(i)'
      BY <1>2 DEF UseSound
    <2>1. uses[i] = 0 /\ \A d \in Clients \ {c} : ~Holds(d, i)
      BY <1>2 DEF UseSound
    <2>2. uses'[i] = 1
      BY <1>2, <2>1 DEF TypeOK
    <2>3. \A d \in Clients \ {c} : ~Holds(d, i)'
      BY <1>2, <2>1 DEF Holds
    <2> QED
      BY <1>2, <2>2, <2>3 DEF UseSound
  (* The same of another invitation.                                       *)
  <1>3. ASSUME ~Holds(c, i), ~Holds(c, i)', uses'[i] = uses[i],
               invites'[i].status = invites[i].status, unsure' = unsure,
               \A d \in Clients \ {c} : pc'[d] = pc[d] /\ mem'[d] = mem[d]
        PROVE  UseSound(i)'
    <2>1. \A d \in Clients \ {c} : Holds(d, i)' <=> Holds(d, i)
      BY <1>3 DEF Holds
    <2>2. \A d \in Clients : Holds(d, i)' => Holds(d, i) /\ pc'[d] = pc[d]
      BY <1>3, <2>1
    <2>3. \A d \in Clients : Holds(d, i) /\ pc[d] = "spend" => Holds(d, i)'
      BY <1>3, <2>1
    <2> QED
      BY <1>3, <2>2, <2>3, UseFrame
  <1>4. ASSUME NEW p, NEW role, NEW k, NEW o, SignUp(c, p, role, k, o), k = i => Acceptable(i)
        PROVE  UseSound(i)'
    <2> DEFINE local == [op |-> "register", who |-> p, inv |-> k, role |-> role, org |-> o]
    <2>1. pc' = [pc EXCEPT ![c] = "create"] /\ mem' = [mem EXCEPT ![c] = local] /\ pc[c] = "idle"
      BY <1>4 DEF SignUp, Goto
    <2>2. local.inv = k
      OBVIOUS
    <2> HIDE DEF local
    <2>3. /\ pc'[c] = "create" /\ mem'[c].inv = k
          /\ \A d \in Clients \ {c} : pc'[d] = pc[d] /\ mem'[d] = mem[d]
      BY <2>1, <2>2 DEF TypeOK
    <2>4. ~Holds(c, i)
      BY <2>1 DEF Holds
    <2>5. /\ unsure' = IF Holding(k, c) THEN unsure \cup ({k} \ {NoInvite}) ELSE unsure
          /\ UNCHANGED <<uses, invites>>
      BY <1>4 DEF SignUp
    <2> QED
      BY <1>4, <2>3, <2>4, <2>5, TakeUse
  <1>5. ASSUME NEW p \in People, SignUpFreely(c, p) \/ Register(c, p) \/ GoogleCallback(c, p)
        PROVE  UseSound(i)'
    <2>1. \A j \in Invites : Invited(p, j) => Acceptable(j)
      BY DEF Invited, Newest, Waiting, Usable, Acceptable
    <2> QED
      BY <1>0, <1>4, <1>5, <2>1 DEF SignUpFreely, Register, GoogleCallback
  <1>6. ASSUME NEW p \in People, NEW k \in Invites, Accept(c, p, k) PROVE UseSound(i)'
    <2> DEFINE local == [op |-> "accept", who |-> p, inv |-> k, role |-> "member", org |-> "team"]
    <2>1. pc' = [pc EXCEPT ![c] = "join"] /\ mem' = [mem EXCEPT ![c] = local] /\ pc[c] = "idle"
      BY <1>6 DEF Accept, Goto
    <2>2. local.inv = k
      OBVIOUS
    <2> HIDE DEF local
    <2>3. /\ pc'[c] = "join" /\ mem'[c].inv = k
          /\ \A d \in Clients \ {c} : pc'[d] = pc[d] /\ mem'[d] = mem[d]
      BY <2>1, <2>2 DEF TypeOK
    <2>4. ~Holds(c, i)
      BY <2>1 DEF Holds
    <2>5. k # NoInvite
      BY TeamsAssumption DEF NoInvite
    <2>6. /\ unsure' = IF Holding(k, c) THEN unsure \cup ({k} \ {NoInvite}) ELSE unsure
          /\ UNCHANGED <<uses, invites>> /\ Acceptable(k)
      BY <1>6, <2>5 DEF Accept
    <2> QED
      BY <2>3, <2>4, <2>6, TakeUse
  <1>7. ASSUME NEW p \in People, NEW t \in People, NEW op, NEW role, Change(c, p, t, op, role)
        PROVE  UseSound(i)'
    <2> DEFINE local == [op |-> op, who |-> t, inv |-> NoInvite, role |-> role, org |-> "team"]
    <2>1. /\ pc[c] = "idle" /\ mem' = [mem EXCEPT ![c] = local] /\ pc' = [pc EXCEPT ![c] = "target"]
          /\ UNCHANGED <<uses, unsure, invites>>
      BY <1>7 DEF Change, Goto
    <2>2. local.inv = NoInvite
      OBVIOUS
    <2> HIDE DEF local
    <2>3. /\ mem'[c] = local /\ \A d \in Clients \ {c} : pc'[d] = pc[d] /\ mem'[d] = mem[d]
      BY <2>1 DEF TypeOK
    <2> QED
      BY <1>0, <1>3, <2>1, <2>2, <2>3 DEF Holds
  <1>8. CASE CreateUser(c)
    <2>1. pc[c] = "create" /\ UNCHANGED <<unsure, invites>>
          /\ \A d \in Clients \ {c} : pc'[d] = pc[d] /\ mem'[d] = mem[d]
      BY <1>8 DEF CreateUser, Reply, Goto, TypeOK
    <2>2. CASE Registered(mem[c].who) \/ mem[c].inv = NoInvite
      <3>1. pc'[c] = "idle" /\ UNCHANGED uses
        BY <1>8, <2>2 DEF CreateUser, Reply, TypeOK
      <3> QED
        BY <1>1, <2>1, <3>1 DEF Holds
    <2>3. CASE ~Registered(mem[c].who) /\ mem[c].inv # NoInvite
      <3>1. /\ pc'[c] = "spend" /\ UNCHANGED mem
            /\ uses' = [uses EXCEPT ![mem[c].inv] = @ + 1]
        BY <1>8, <2>3 DEF CreateUser, Goto, TypeOK
      <3>2. CASE mem[c].inv = i
        BY <1>2, <2>1, <3>1, <3>2 DEF Holds
      <3>3. CASE mem[c].inv # i
        BY <1>3, <2>1, <3>1, <3>3 DEF Holds, TypeOK
      <3> QED
        BY <3>2, <3>3
    <2> QED
      BY <2>2, <2>3
  <1>9. CASE Join(c)
    <2>1. /\ pc[c] = "join" /\ pc'[c] = "spend" /\ UNCHANGED <<unsure, invites, mem>>
          /\ uses' = [uses EXCEPT ![mem[c].inv] = @ + 1]
          /\ \A d \in Clients \ {c} : pc'[d] = pc[d] /\ mem'[d] = mem[d]
      BY <1>9 DEF Join, Goto, TypeOK
    <2>2. CASE mem[c].inv = i
      BY <1>2, <2>1, <2>2 DEF Holds
    <2>3. CASE mem[c].inv # i
      BY <1>3, <2>1, <2>3 DEF Holds, TypeOK
    <2> QED
      BY <2>2, <2>3
  <1>10. CASE Spend(c)
    <2> DEFINE k == mem[c].inv
    <2>1. /\ pc[c] = "spend" /\ pc'[c] = "idle" /\ UNCHANGED <<unsure, uses>>
          /\ invites' = [invites EXCEPT ![k].status = "accepted"]
          /\ \A d \in Clients \ {c} : pc'[d] = pc[d] /\ mem'[d] = mem[d]
      BY <1>10 DEF Spend, Reply, TypeOK
    <2>2. CASE k = i
      <3>1. invites'[i].status = "accepted"
        BY <2>1, <2>2 DEF TypeOK, Invitation
      <3>2. \A d \in Clients : Holds(d, i)' => Holds(d, i) /\ pc'[d] = pc[d]
        BY <2>1 DEF Holds
      <3> QED
        BY <2>1, <3>1, <3>2, UseFrame
    <2>3. CASE k # i
      BY <1>3, <2>1, <2>3 DEF Holds, TypeOK
    <2> QED
      BY <2>2, <2>3
  <1>11. CASE ReadTarget(c) \/ CountAdmins(c)
    <2>1. /\ pc[c] # "spend" /\ UNCHANGED <<unsure, uses, invites>>
          /\ \A d \in Clients \ {c} : pc'[d] = pc[d] /\ mem'[d] = mem[d]
          /\ pc'[c] = "idle" \/ (mem'[c] = mem[c] /\ pc[c] \in {"target", "count"}
                                 /\ pc'[c] \in {"count", "write"})
      BY <1>11 DEF ReadTarget, CountAdmins, Reply, Goto, TypeOK
    <2>2. CASE pc'[c] = "idle"
      BY <1>1, <2>1, <2>2 DEF Holds
    <2>3. CASE pc'[c] # "idle"
      <3>1. Holds(c, i)' <=> Holds(c, i)
        BY <2>1, <2>3 DEF Holds
      <3>2. \A d \in Clients : Holds(d, i)' <=> Holds(d, i)
        BY <2>1, <3>1 DEF Holds
      <3>3. \A d \in Clients : pc'[d] = "spend" <=> pc[d] = "spend"
        BY <2>1, <2>3
      <3> QED
        BY <2>1, <3>2, <3>3 DEF UseSound
    <2> QED
      BY <2>2, <2>3
  <1>12. CASE Write(c)
    <2>1. pc[c] = "write" /\ pc'[c] = "idle" /\ UNCHANGED <<unsure, uses, invites>>
          /\ \A d \in Clients \ {c} : pc'[d] = pc[d] /\ mem'[d] = mem[d]
      BY <1>12 DEF Write, Reply, TypeOK
    <2> QED
      BY <1>1, <2>1 DEF Holds
  <1> QED
    BY <1>5, <1>6, <1>7, <1>8, <1>9, <1>10, <1>11, <1>12

LEMMA OthersUse ==
  ASSUME TypeOK, TypeOK', NEW i \in Invites, UseSound(i),
         \/ \E p, to \in People, j \in Invites :
                InviteTeam(p, j, to) \/ \E role \in Roles : Invite(p, j, to, role)
         \/ \E p \in People : Rejoin(p) \/ \E j \in Invites : Revoke(p, j)
         \/ \E p \in People, o \in Orgs : SwitchOrg(p, o)
         \/ \E j \in Invites : Expire(j)
         \/ Restart
  PROVE  UseSound(i)'
  <1> USE DEF tables, procs, history
  <1>1. ASSUME UNCHANGED <<pc, mem, uses, unsure>>,
               invites'[i].status \in {"none", "pending"} => invites[i].status \in {"none", "pending"}
        PROVE  UseSound(i)'
    <2>1. \A c \in Clients : Holds(c, i)' <=> Holds(c, i)
      BY <1>1 DEF Holds
    <2> QED
      BY <1>1, <2>1, UseFrame
  <1>2. ASSUME NEW p, NEW to, NEW j \in Invites, NEW role, NEW fresh, Issue(p, j, to, role, fresh)
        PROVE  UseSound(i)'
    BY <1>1, <1>2 DEF Issue, TypeOK
  <1>3. ASSUME NEW p \in People, NEW j \in Invites, Revoke(p, j) PROVE UseSound(i)'
    <2>1. invites'[i].status \in {"revoked", invites[i].status}
      BY <1>3 DEF Revoke, TypeOK, Invitation
    <2> QED
      BY <1>1, <1>3, <2>1 DEF Revoke
  <1>4. ASSUME NEW j \in Invites, Expire(j) PROVE UseSound(i)'
    <2>1. invites'[i].status = invites[i].status
      BY <1>4 DEF Expire, TypeOK, Invitation
    <2> QED
      BY <1>1, <1>4, <2>1 DEF Expire
  <1>5. CASE Restart
    <2> SUFFICES ASSUME i \notin unsure' PROVE UseSound(i)'
      BY DEF UseSound
    <2>1. /\ UNCHANGED <<uses, invites>> /\ i \notin unsure /\ \A c \in Clients : pc'[c] = "idle"
          /\ \A c \in Clients : ~(pc[c] = "spend" /\ mem[c].inv = i)
      BY <1>5 DEF Restart
    <2> QED
      BY <2>1 DEF UseSound, Holds
  <1>6. (\E p \in People : Rejoin(p)) \/ (\E p \in People, o \in Orgs : SwitchOrg(p, o))
            => UNCHANGED <<pc, mem, uses, unsure, invites>>
    BY DEF Rejoin, SwitchOrg
  <1> QED
    BY <1>1, <1>2, <1>3, <1>4, <1>5, <1>6 DEF InviteTeam, Invite

-----------------------------------------------------------------------------
LEMMA NextIInv == IInv /\ [Next]_vars => IInv'
  <1> SUFFICES ASSUME IInv, [Next]_vars PROVE IInv'
    OBVIOUS
  <1>0. TypeOK /\ MembersSound
    BY DEF IInv, MembersSound
  <1>1. ASSUME NEW c \in Clients,
               \/ \E p \in People : SignUpFreely(c, p) \/ Register(c, p) \/ GoogleCallback(c, p)
               \/ \E p \in People, i \in Invites : Accept(c, p, i)
               \/ \E p, t \in People, op \in {"remove", "set_role"}, role \in Roles :
                      Change(c, p, t, op, role)
               \/ CreateUser(c) \/ Join(c) \/ Spend(c)
               \/ ReadTarget(c) \/ CountAdmins(c) \/ Write(c)
        PROVE  IInv'
    <2>1. RequestSound(c) /\ \A i \in Invites : UseSound(i)
      BY DEF IInv
    <2>2. TypeOK'
      BY <1>0, <1>1, <2>1, ClientsType
    <2>3. MembersSound'
      BY <1>0, <1>1, <2>2, ClientsMembers
    <2>4. \A i \in Invites : UseSound(i)'
      BY <1>0, <1>1, <2>1, <2>2, ClientsUse
    <2> QED
      BY <2>2, <2>3, <2>4 DEF IInv, MembersSound
  <1>2. ASSUME \/ \E p, to \in People, i \in Invites :
                      InviteTeam(p, i, to) \/ \E role \in Roles : Invite(p, i, to, role)
               \/ \E p \in People : Rejoin(p) \/ \E i \in Invites : Revoke(p, i)
               \/ \E p \in People, o \in Orgs : SwitchOrg(p, o)
               \/ \E i \in Invites : Expire(i)
               \/ Restart
        PROVE  IInv'
    <2>1. \A i \in Invites : UseSound(i)
      BY DEF IInv
    <2>2. TypeOK'
      BY <1>0, <1>2, OthersType DEF MembersSound
    <2>3. MembersSound'
      BY <1>0, <1>2, <2>2, OthersMembers
    <2>4. \A i \in Invites : UseSound(i)'
      BY <1>0, <1>2, <2>1, <2>2, OthersUse
    <2> QED
      BY <2>2, <2>3, <2>4 DEF IInv, MembersSound
  <1>3. CASE UNCHANGED vars
    BY <1>3 DEF vars, tables, procs, history, IInv, TypeOK, MembersKnown, AdminKept, Admins,
       RequestSound, WriteSafe, UseSound, Holds, Registered
  <1> QED
    BY <1>1, <1>2, <1>3 DEF Next

LEMMA Invariant == Spec => []IInv
  BY InitIInv, NextIInv, PTL DEF Spec

(* Memberships, invitations and requests keep their types.                 *)
THEOREM TypesKept == Spec => []TypeOK
  <1>1. IInv => TypeOK
    BY DEF IInv
  <1> QED
    BY <1>1, Invariant, PTL

(* remove_member and set_member_role: the team keeps an admin, unless two  *)
(* of them overlapped after reading the members.                           *)
THEOREM TeamKeepsAdmin == Spec => []AdminKept
  <1>1. IInv => AdminKept
    BY DEF IInv
  <1> QED
    BY <1>1, Invariant, PTL

(* register, google_callback and accept_invitation: an invitation is used  *)
(* once, unless two requests held it or a crash came before it was marked. *)
THEOREM InvitationUsedOnce == Spec => []UsedOnce
  <1>1. IInv => UsedOnce
    BY DEF IInv, UseSound, UsedOnce
  <1> QED
    BY <1>1, Invariant, PTL
=============================================================================
