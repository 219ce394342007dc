------------------------------- MODULE Teams --------------------------------
(***************************************************************************)
(* Who belongs to ONE team: registering, invitations, members and their    *)
(* roles, and how a session is resolved to a role (app/main.py,            *)
(* app/auth.py, app/db.py).  Everybody else's own workspace is one more    *)
(* organisation, of which they are the only admin.  Requests are           *)
(* coroutines: each step reads or writes one table.                        *)
(***************************************************************************)
EXTENDS Integers, FiniteSets

CONSTANTS
    People,         \* by email; registered or not
    Founder,        \* whose workspace the team is
    Clients,        \* requests that may be handled at the same time
    Invites,        \* 1..n: the invitations that may ever be made, by id
    SignupModes,    \* which values config.SIGNUP_OPEN may have
    MaxRestarts     \* bound: crashes of the server

ASSUME TeamsAssumption ==
    /\ Founder \in People /\ Invites \subseteq Nat \ {0}
    /\ SignupModes \subseteq BOOLEAN /\ MaxRestarts \in Nat

Roles == {"member", "admin"}
Orgs  == {"team", "own"}

VARIABLES
    open,       \* config.SIGNUP_OPEN
    team, own,  \* memberships: the role in the team; is there an own workspace?
    home,       \* users.org_id and users.role; org "none" is not registered
    active,     \* sessions.active_org_id
    invites,    \* the invitations table
    pc, mem,    \* the requests and their local variables
    restarts,
    uses,       \* history: how often each invitation let somebody in
    unsure,     \* history: invitations two requests held, or a crash left
    raced       \* history: two changes of members overlapped

tables  == <<team, own, home, active, invites>>
procs   == <<pc, mem>>
history == <<uses, unsure, raced>>
vars    == <<open, tables, procs, restarts, history>>

-----------------------------------------------------------------------------
NoInvite   == 0
Invitation == [status : {"none", "pending", "accepted", "revoked"}, to : People,
               role : Roles, fresh : BOOLEAN, expired : BOOLEAN]
(* whom and which invitation the request is about, the role and the        *)
(* organisation they are to have.                                          *)
Memory == [op : {"none", "register", "accept", "remove", "set_role"}, who : People,
           inv : Invites \cup {NoInvite}, role : Roles, org : Orgs]
Blank  == [op |-> "none", who |-> Founder, inv |-> NoInvite, role |-> "member", org |-> "own"]

(* Memberships, invitations and requests have their types.                 *)
TypeOK ==
    /\ open \in SignupModes
    /\ team \in [People -> Roles \cup {"no"}] /\ own \in [People -> BOOLEAN]
    /\ home \in [People -> [org : Orgs \cup {"none"}, role : Roles]]
    /\ active \in [People -> Orgs \cup {"none"}]
    /\ invites \in [Invites -> Invitation]
    /\ pc \in [Clients -> {"idle", "create", "join", "spend", "target", "count", "write"}]
    /\ mem \in [Clients -> Memory]
    /\ restarts \in Nat
    /\ uses \in [Invites -> Nat] /\ unsure \subseteq Invites
    /\ raced \in BOOLEAN

Init ==
    /\ open \in SignupModes
    /\ team = [p \in People |-> IF p = Founder THEN "admin" ELSE "no"]
    /\ own = [p \in People |-> FALSE]
    /\ home = [p \in People |-> [org |-> IF p = Founder THEN "team" ELSE "none", role |-> "admin"]]
    /\ active = [p \in People |-> IF p = Founder THEN "team" ELSE "none"]
    /\ invites = [i \in Invites |-> [status |-> "none", to |-> Founder, role |-> "member",
                                     fresh |-> FALSE, expired |-> FALSE]]
    /\ pc = [c \in Clients |-> "idle"] /\ mem = [c \in Clients |-> Blank]
    /\ restarts = 0
    /\ uses = [i \in Invites |-> 0] /\ unsure = {} /\ raced = FALSE

-----------------------------------------------------------------------------
Registered(p) == home[p].org # "none"
Belongs(p, o) == IF o = "team" THEN team[p] # "no" ELSE own[p]
Homeless(p)   == ~Belongs(p, "team") /\ ~Belongs(p, "own")
Admins        == {p \in People : team[p] = "admin"}

Goto(c, label) == pc' = [pc EXCEPT ![c] = label]
Reply(c)       == pc' = [pc EXCEPT ![c] = "idle"] /\ mem' = [mem EXCEPT ![c] = Blank]

(* current_user: the organisation the session acts in, and so the role: as *)
(* stored, or else home, or else the first one.                            *)
ActsIn(p) ==
    CASE active[p] # "none" /\ Belongs(p, active[p])       -> active[p]
      [] Belongs(p, home[p].org)                           -> home[p].org
      [] OTHER -> CHOOSE o \in Orgs : Belongs(p, o)
Resolved(p) ==
    /\ Registered(p) /\ ~Homeless(p)
    /\ active' = [active EXCEPT ![p] = ActsIn(p)]
AsAdmin(p) == Resolved(p) /\ ActsIn(p) = "team" /\ team[p] = "admin"

(* Its safety net: a user in no organisation is put back into their first, *)
(* which is the team: nobody can leave an own workspace.                   *)
Rejoin(p) ==
    /\ Registered(p) /\ Homeless(p)
    /\ team' = [team EXCEPT ![p] = home[p].role]
    /\ UNCHANGED <<open, own, home, active, invites, procs, restarts, history>>

(* switch_org.                                                             *)
SwitchOrg(p, o) ==
    /\ Registered(p) /\ Belongs(p, o)
    /\ active' = [active EXCEPT ![p] = o]
    /\ UNCHANGED <<open, team, own, home, invites, procs, restarts, history>>

-----------------------------------------------------------------------------
(* register and google_callback, for an email that is new.                 *)

Usable(i) == invites[i].status = "pending" /\ ~invites[i].expired
Waiting(p) == {i \in Invites : Usable(i) /\ invites[i].to = p}
Newest(p, i) == i \in Waiting(p) /\ \A j \in Waiting(p) : j <= i

Holding(i, c) == \E d \in Clients \ {c} : pc[d] # "idle" /\ mem[d].inv = i

(* _resolve_signup; the Google callback has its own copy, which has no     *)
(* case for an invitation into a fresh workspace.                          *)
Lands(i) == IF invites[i].fresh THEN "own" ELSE "team"
SignUp(c, p, role, inv, org) ==
    /\ pc[c] = "idle" /\ ~Registered(p)
    /\ mem' = [mem EXCEPT ![c] =
           [op |-> "register", who |-> p, inv |-> inv, role |-> role, org |-> org]]
    /\ unsure' = IF Holding(inv, c) THEN unsure \cup ({inv} \ {NoInvite}) ELSE unsure
    /\ Goto(c, "create")
    /\ UNCHANGED <<open, tables, restarts, uses, raced>>

SignUpFreely(c, p) == open /\ SignUp(c, p, "admin", NoInvite, "own")

Invited(p, i) == ~open /\ Newest(p, i)
Register(c, p) ==
    \E i \in Invites : Invited(p, i) /\ SignUp(c, p, invites[i].role, i, Lands(i))

GoogleCallback(c, p) ==
    \E i \in Invites : Invited(p, i) /\ SignUp(c, p, invites[i].role, i, "team")

(* create_user: the email is unique; the membership comes with the row.    *)
CreateUser(c) ==
    /\ pc[c] = "create"
    /\ LET m == mem[c] IN
       IF Registered(m.who) THEN Reply(c) /\ UNCHANGED <<team, own, home, active, uses>>
       ELSE /\ home' = [home EXCEPT ![m.who] = [org |-> m.org, role |-> m.role]]
            /\ IF m.org = "team" THEN team' = [team EXCEPT ![m.who] = m.role] /\ UNCHANGED own
               ELSE own' = [own EXCEPT ![m.who] = TRUE] /\ UNCHANGED team
            /\ active' = [active EXCEPT ![m.who] = m.org]
            /\ IF m.inv = NoInvite THEN Reply(c) /\ UNCHANGED uses
               ELSE /\ uses' = [uses EXCEPT ![m.inv] = @ + 1]
                    /\ Goto(c, "spend") /\ UNCHANGED mem
    /\ UNCHANGED <<open, invites, restarts, unsure, raced>>

-----------------------------------------------------------------------------
(* accept_invitation: for whoever signed in with the invited email.        *)

UsableTwice(i) == invites[i].status \in {"pending", "accepted"} /\ ~invites[i].expired  \* a mutant
Acceptable(i)  == invites[i].status = "pending" /\ ~invites[i].expired
Accept(c, p, i) ==
    /\ pc[c] = "idle" /\ Resolved(p)
    /\ Acceptable(i) /\ invites[i].to = p
    /\ mem' = [mem EXCEPT ![c] =
           [op |-> "accept", who |-> p, inv |-> i, role |-> "member", org |-> "team"]]
    /\ unsure' = IF Holding(i, c) THEN unsure \cup {i} ELSE unsure
    /\ Goto(c, "join")
    /\ UNCHANGED <<open, team, own, home, invites, restarts, uses, raced>>

(* add_membership: a member stays what they are.                           *)
Join(c) ==
    /\ pc[c] = "join"
    /\ LET m == mem[c]
       IN  /\ team' = IF team[m.who] = "no" THEN [team EXCEPT ![m.who] = invites[m.inv].role] ELSE team
           /\ uses' = [uses EXCEPT ![m.inv] = @ + 1]
           /\ active' = [active EXCEPT ![m.who] = "team"]
    /\ Goto(c, "spend")
    /\ UNCHANGED <<open, own, home, invites, mem, restarts, unsure, raced>>

Spend(c) ==
    /\ pc[c] = "spend"
    /\ invites' = [invites EXCEPT ![mem[c].inv].status = "accepted"]
    /\ Reply(c)
    /\ UNCHANGED <<open, team, own, home, active, restarts, history>>

-----------------------------------------------------------------------------
(* create_invitation and create_signup_invite, revoke_*, and time.  Only   *)
(* an admin's request gets here, and an operator is one.                   *)

Issue(p, i, to, role, fresh) ==
    /\ AsAdmin(p) /\ invites[i].status = "none" /\ \A j \in Invites : j < i => invites[j].status # "none"
    /\ invites' = [invites EXCEPT ![i] = [status |-> "pending", to |-> to, role |-> role,
                                          fresh |-> fresh, expired |-> FALSE]]
    /\ UNCHANGED <<open, team, own, home, procs, restarts, history>>

Invite(p, i, to, role) == Issue(p, i, to, role, FALSE)

(* Into a workspace of their own, for somebody who is new.                 *)
InviteTeam(p, i, to) == ~Registered(to) /\ Issue(p, i, to, "admin", TRUE)

(* Whatever its status: an invitation that was used can be revoked too.    *)
Revoke(p, i) ==
    /\ AsAdmin(p) /\ invites[i].status # "none"
    /\ invites' = [invites EXCEPT ![i].status = "revoked"]
    /\ UNCHANGED <<open, team, own, home, procs, restarts, history>>

Expire(i) ==
    /\ invites[i].status = "pending" /\ ~invites[i].expired
    /\ invites' = [invites EXCEPT ![i].expired = TRUE]
    /\ UNCHANGED <<open, team, own, home, active, procs, restarts, history>>

-----------------------------------------------------------------------------
(* remove_member (leaving included) and set_member_role.                   *)

Change(c, p, t, op, role) ==
    /\ pc[c] = "idle" /\ Resolved(p) /\ ActsIn(p) = "team"
    /\ \/ op = "remove" /\ role = "member" /\ (p = t \/ team[p] = "admin")
       \/ op = "set_role" /\ team[p] = "admin"
    /\ mem' = [mem EXCEPT ![c] =
           [op |-> op, who |-> t, inv |-> NoInvite, role |-> role, org |-> "team"]]
    /\ Goto(c, "target")
    /\ UNCHANGED <<open, team, own, home, invites, restarts, history>>

(* An admin who is to go, or to be a member only, is counted first.        *)
DepartsRemoved(m, seen) == seen = "admin" /\ m.op = "remove"                      \* a mutant
Departs(m, seen) == seen = "admin" /\ (m.op = "remove" \/ m.role # "admin")
ReadTarget(c) ==
    /\ pc[c] = "target"
    /\ LET seen == team[mem[c].who]
       IN  IF seen = "no" THEN Reply(c)
           ELSE Goto(c, IF Departs(mem[c], seen) THEN "count" ELSE "write") /\ UNCHANGED mem
    /\ UNCHANGED <<open, tables, restarts, history>>

CountAdmins(c) ==
    /\ pc[c] = "count"
    /\ IF Cardinality(Admins) <= 1 THEN Reply(c) ELSE Goto(c, "write") /\ UNCHANGED mem
    /\ UNCHANGED <<open, tables, restarts, history>>

Write(c) ==
    /\ pc[c] = "write"
    /\ LET m == mem[c]
       IN  /\ team' = IF m.op = "remove" THEN [team EXCEPT ![m.who] = "no"]
                      ELSE IF team[m.who] = "no" THEN team
                      ELSE [team EXCEPT ![m.who] = m.role]
    /\ raced' = (raced \/ \E d \in Clients \ {c} : pc[d] \in {"count", "write"})
    /\ Reply(c)
    /\ UNCHANGED <<open, own, home, active, invites, restarts, uses, unsure>>

(* The server dies: requests are gone, what they wrote is not.             *)
Restart ==
    /\ restarts < MaxRestarts /\ restarts' = restarts + 1
    /\ unsure' = unsure \cup {mem[c].inv : c \in {d \in Clients : pc[d] = "spend"}}
    /\ pc' = [c \in Clients |-> "idle"] /\ mem' = [c \in Clients |-> Blank]
    /\ UNCHANGED <<open, tables, uses, raced>>

-----------------------------------------------------------------------------
Next ==
    \/ \E c \in Clients :
           \/ \E p \in People : SignUpFreely(c, p) \/ Register(c, p) \/ GoogleCallback(c, p)
           \/ \E p \in People, i \in Invites : Accept(c, p, i)
           \/ \E p, t \in People, op \in {"remove", "set_role"}, role \in Roles :
                  Change(c, p, t, op, role)
           \/ CreateUser(c) \/ Join(c) \/ Spend(c)
           \/ ReadTarget(c) \/ CountAdmins(c) \/ Write(c)
    \/ \E p, to \in People, i \in Invites :
           InviteTeam(p, i, to) \/ \E role \in Roles : Invite(p, i, to, role)
    \/ \E p \in People : Rejoin(p) \/ \E i \in Invites : Revoke(p, i)
    \/ \E p \in People, o \in Orgs : SwitchOrg(p, o)
    \/ \E i \in Invites : Expire(i)
    \/ Restart

Spec == Init /\ [][Next]_vars

-----------------------------------------------------------------------------
(* Properties.                                                             *)

(* "Can't remove the last admin": the team has an admin, whoever leaves,   *)
(* is removed or demoted in whatever order, unless two such requests       *)
(* overlapped after they had read the members.                             *)
AdminKept == raced \/ Admins # {}

(* An invitation lets one person in once, by registering or by accepting,  *)
(* unless two requests held it together or a crash kept it from being      *)
(* marked.                                                                 *)
UsedOnce == \A i \in Invites : uses[i] <= 1 \/ i \in unsure
=============================================================================
