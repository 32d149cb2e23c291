----------------------------- MODULE RateLimit -----------------------------
(***************************************************************************)
(* The per-tenant token bucket of api/middleware/rate_limit.py.            *)
(*                                                                         *)
(* Tokens are counted in sixtieths: a second refills rpm of them and a     *)
(* request costs 60.  The code's floats hold the same numbers up to their  *)
(* rounding.  time.monotonic() is read only as now - last_refill, to be    *)
(* multiplied by the refill rate: owed is that product.  take holds no     *)
(* await, so a request is one step.                                        *)
(***************************************************************************)
EXTENDS Integers

CONSTANTS
  Tenants,   \* values of X-Tenant-Id; a request without one is "default"'s
  Burst,     \* burst
  Refill,    \* sixtieths of a token refilled in one tick of the clock
  MaxOwed    \* bound on owed, past which a bucket is full in any case

Cost == 60
Capacity == Burst * 60

ASSUME LimitAssumption ==
  /\ Burst \in Nat \ {0}
  /\ Refill \in Nat \ {0}
  /\ MaxOwed \in Nat /\ MaxOwed >= Capacity

VARIABLES
  created,   \* tenants with a bucket in _buckets
  tokens,    \* _Bucket.tokens
  owed,      \* (now - last_refill) * refill_per_second, up to MaxOwed
  answer,    \* what the tenant's last request got
  excess     \* history: the largest difference between what was served and
             \* what was refilled, over all time windows that end now

vars == <<created, tokens, owed, answer, excess>>

CappedAt(n, bound) == IF n < bound THEN n ELSE bound

Init ==
  /\ created = {}
  /\ tokens = [t \in Tenants |-> 0]
  /\ owed = [t \in Tenants |-> 0]
  /\ answer = [t \in Tenants |-> "none"]
  /\ excess = [t \in Tenants |-> 0]

-----------------------------------------------------------------------------
\* The tokens take finds: a new bucket is full, an old one is refilled.
Available(t) ==
  IF t \in created THEN CappedAt(tokens[t] + owed[t], Capacity) ELSE Capacity

\* last_refill moved by every request, tokens only written when one is served.
Mutant_FractionLost(t) ==
  /\ created' = created \cup {t}
  /\ owed' = [owed EXCEPT ![t] = 0]
  /\ \/ /\ Available(t) >= Cost
        /\ tokens' = [tokens EXCEPT ![t] = Available(t) - Cost]
        /\ answer' = [answer EXCEPT ![t] = "served"]
        /\ excess' = [excess EXCEPT ![t] = @ + Cost]
     \/ /\ Available(t) < Cost
        /\ answer' = [answer EXCEPT ![t] = "refused"]
        /\ UNCHANGED <<tokens, excess>>

\* tokens written by every request, last_refill only when one is served.
Mutant_CreditedTwice(t) ==
  /\ created' = created \cup {t}
  /\ \/ /\ Available(t) >= Cost
        /\ tokens' = [tokens EXCEPT ![t] = Available(t) - Cost]
        /\ owed' = [owed EXCEPT ![t] = 0]
        /\ answer' = [answer EXCEPT ![t] = "served"]
        /\ excess' = [excess EXCEPT ![t] = @ + Cost]
     \/ /\ Available(t) < Cost
        /\ tokens' = [tokens EXCEPT ![t] = Available(t)]
        /\ answer' = [answer EXCEPT ![t] = "refused"]
        /\ UNCHANGED <<owed, excess>>

\* dispatch: find or make the tenant's bucket and take from it; 429 if it
\* holds less than a token.
Request(t) ==
  /\ created' = created \cup {t}
  /\ owed' = [owed EXCEPT ![t] = 0]
  /\ \/ /\ Available(t) >= Cost
        /\ tokens' = [tokens EXCEPT ![t] = Available(t) - Cost]
        /\ answer' = [answer EXCEPT ![t] = "served"]
        /\ excess' = [excess EXCEPT ![t] = @ + Cost]
     \/ /\ Available(t) < Cost
        /\ tokens' = [tokens EXCEPT ![t] = Available(t)]
        /\ answer' = [answer EXCEPT ![t] = "refused"]
        /\ UNCHANGED excess

\* The clock, the same for all buckets.
Tick ==
  /\ owed' = [t \in Tenants |->
       IF t \in created THEN CappedAt(owed[t] + Refill, MaxOwed) ELSE owed[t]]
  /\ excess' = [t \in Tenants |->
       IF excess[t] > Refill THEN excess[t] - Refill ELSE 0]
  /\ UNCHANGED <<created, tokens, answer>>

Next == Tick \/ \E t \in Tenants : Request(t)

Spec == Init /\ [][Next]_vars

-----------------------------------------------------------------------------
TypeOK ==
  /\ created \in SUBSET Tenants
  /\ tokens \in [Tenants -> 0 .. Capacity]
  /\ owed \in [Tenants -> 0 .. MaxOwed]
  /\ answer \in [Tenants -> {"none", "served", "refused"}]
  /\ excess \in [Tenants -> Nat]

(***************************************************************************)
(* In every window of time a tenant is served at most its burst plus what  *)
(* the rate refills in that window, whatever the spacing of its requests,  *)
(* the refused ones included.                                              *)
(***************************************************************************)
WindowBound == \A t \in Tenants : excess[t] <= Capacity

=============================================================================
