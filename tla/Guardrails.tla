----------------------------- MODULE Guardrails -----------------------------
(***************************************************************************)
(* What a routine may do through its connectors (app/guardrails.py): the   *)
(* category of a tool, the policy of an agent and its decision.  A tool's  *)
(* name is what the patterns of _VERBS tell apart: the categories its      *)
(* first word and its body have words of, whether it has the word DRAFT,   *)
(* and whether it is one of the router's own tools.                        *)
(***************************************************************************)

Verbs      == {"read", "write", "message", "destructive", "money", "admin"}
Categories == Verbs \cup {"code"}
Decisions  == {"allow", "approve", "block"}

Slugs == [meta : {"", "code", "admin"}, first : SUBSET Verbs,
          body : SUBSET Verbs, draft : BOOLEAN]

-----------------------------------------------------------------------------
(* classify: a leading read verb is a read; then the most dangerous word   *)
(* anywhere wins; what nothing matches is a write, never a read.           *)
Category(slug) ==
    IF slug.meta # "" THEN slug.meta
    ELSE IF "read" \in slug.first THEN "read"
    ELSE IF "money" \in slug.body THEN "money"
    ELSE IF "destructive" \in slug.body THEN "destructive"
    ELSE IF "admin" \in slug.body THEN "admin"
    ELSE IF "message" \in slug.body /\ ~slug.draft THEN "message"
    ELSE "write"

(* An agent's policy: the defaults of its kind under its own overrides.    *)
Kinds == {"routine", "chat"}
DefaultPolicy(kind) ==
    [c \in Categories |->
        IF kind = "chat" \/ c \in {"read", "write"} THEN "allow"
        ELSE IF c \in {"code", "admin"} THEN "block" ELSE "approve"]

(* overrides.categories and overrides.tools are partial functions.         *)
PolicyFor(kind, overrides) ==
    [categories |-> [c \in Categories |->
         IF c \in DOMAIN overrides.categories THEN overrides.categories[c]
         ELSE DefaultPolicy(kind)[c]],
     tools |-> overrides.tools]

(* decide: a rule for the tool beats its category.                         *)
Rule(slug, policy) ==
    IF slug \in DOMAIN policy.tools THEN policy.tools[slug]
    ELSE policy.categories[Category(slug)]

(* The gateway's reading of it: a call nobody could inspect and replay is  *)
(* never held.                                                             *)
Decision(slug, policy) ==
    IF Category(slug) \in {"code", "admin"} /\ Rule(slug, policy) = "approve"
    THEN "block" ELSE Rule(slug, policy)

(* normalize: what the API accepts as overrides.                           *)
ValidOverrides(body) ==
    /\ DOMAIN body.categories \subseteq Categories
    /\ \A c \in DOMAIN body.categories : body.categories[c] \in Decisions
    /\ \A s \in DOMAIN body.tools : body.tools[s] \in Decisions
=============================================================================
