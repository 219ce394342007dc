----------------------------- MODULE RateLimit -----------------------------
(***************************************************************************)
(* The token bucket of the programmatic API (app/ratelimit.py): one bucket *)
(* per API key, asked by _agent_from_api_key before anything else is done  *)
(* for the caller.  The code counts tokens and seconds in floating point;  *)
(* here a token is 60 parts, so that per_min parts come in per second and  *)
(* everything is an integer.                                               *)
(***************************************************************************)
EXTENDS Integers

CONSTANTS
    Keys,       \* API keys
    PerMin,     \* config.V1_RATE_PER_MIN
    Burst       \* config.V1_RATE_BURST

VARIABLES
    now,        \* time.monotonic(), in seconds
    tokens,     \* _Bucket.tokens of each key, in parts
    last,       \* _Bucket.last of each key
    seen,       \* keys that have a bucket
    since,      \* history: when somebody began to count a key's calls
    admitted    \* history: its calls that were let in since then

vars == <<now, tokens, last, seen, since, admitted>>

Token    == 60
Enabled  == PerMin > 0
Capacity == Token * (IF Burst > 0 THEN Burst ELSE PerMin)

(* The clock runs on, the buckets hold whole parts.                        *)
TypeOK ==
    /\ now \in Nat
    /\ tokens \in [Keys -> Int] /\ last \in [Keys -> Nat] /\ seen \subseteq Keys
    /\ since \in [Keys -> Nat] /\ admitted \in [Keys -> Nat]

Init ==
    /\ now \in Nat
    /\ tokens = [k \in Keys |-> 0] /\ last = [k \in Keys |-> 0] /\ seen = {}
    /\ since = [k \in Keys |-> now] /\ admitted = [k \in Keys |-> 0]

-----------------------------------------------------------------------------
(* check(key): a new key gets a full bucket; the bucket is refilled for    *)
(* the time since the last call, also by a call that is then refused.      *)
AtMost(a, b) == IF a <= b THEN a ELSE b
Before(k)   == IF k \in seen THEN tokens[k] ELSE Capacity
Elapsed(k)  == IF k \in seen THEN now - last[k] ELSE 0
Refilled(k) == AtMost(Capacity, Before(k) + PerMin * Elapsed(k))

Touch(k, left) ==
    /\ tokens' = [tokens EXCEPT ![k] = left]
    /\ last' = [last EXCEPT ![k] = now] /\ seen' = seen \cup {k}
    /\ UNCHANGED <<now, since>>

Admit(k) ==
    /\ Enabled /\ Refilled(k) >= Token
    /\ Touch(k, Refilled(k) - Token)
    /\ admitted' = [admitted EXCEPT ![k] = @ + 1]

(* 429, and Retry-After.                                                   *)
Limit(k) ==
    /\ Enabled /\ Refilled(k) < Token
    /\ Touch(k, Refilled(k))
    /\ UNCHANGED admitted

TimePasses ==
    /\ now' \in {t \in Nat : t >= now}
    /\ UNCHANGED <<tokens, last, seen, since, admitted>>

(* Somebody begins to count, at any moment.                                *)
Count(k) ==
    /\ since' = [since EXCEPT ![k] = now] /\ admitted' = [admitted EXCEPT ![k] = 0]
    /\ UNCHANGED <<now, tokens, last, seen>>

Next == \/ \E k \in Keys : Admit(k) \/ Limit(k) \/ Count(k)
        \/ TimePasses

Spec == Init /\ [][Next]_vars

-----------------------------------------------------------------------------
(* Properties.                                                             *)

(* "A runaway or buggy client throttles itself": from whatever moment its  *)
(* calls are counted, a key gets in at most a full bucket and what has     *)
(* come in since, however it times its calls.                              *)
Throttled == \A k \in Keys : Token * admitted[k] <= Capacity + PerMin * (now - since[k])
=============================================================================
