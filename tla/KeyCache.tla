------------------------------ MODULE KeyCache ------------------------------
(***************************************************************************)
(* What the control plane said a while ago.  An API key's introspection is *)
(* kept for sixty seconds and asked for when that is over; an account's    *)
(* plan is asked for each time, and the last one stands in for ninety      *)
(* seconds when the control plane does not answer.  Time is in ticks.      *)
(***************************************************************************)
EXTENDS Naturals

CONSTANTS
  Asker,         \* requests in progress
  CacheTtl, Timeout   \* how long an answer is kept, and how long one is waited for

ASSUME CacheAssumption == CacheTtl \in Nat \ {0} /\ Timeout \in Nat

Horizon == CacheTtl + Timeout + 1
Absent == [good |-> FALSE, age |-> Horizon]
Quiet == [at |-> "idle", good |-> FALSE, age |-> 0]

VARIABLES
  flavour,  \* "key" (cmd/vulos-mail's /v1) or "plan" (Manager.planFor)
  good,     \* external: whether the control plane holds the key, or the plan, good now
  was,      \* history: ticks since it last held it good, and bad
  cache,    \* the remembered answer and its age
  ask       \* requests on their way to the control plane and back

cacheVars == <<flavour, good, was, cache, ask>>

CacheInit ==
  /\ flavour \in {"key", "plan"} /\ good \in BOOLEAN
  /\ was = [v \in BOOLEAN |-> IF v = good THEN 0 ELSE Horizon]
  /\ cache = Absent /\ ask = [k \in Asker |-> Quiet]

\* fromCache, and the test in planFor.
FromCache == cache.age < CacheTtl

Aged(n) == IF n < Horizon THEN n + 1 ELSE n

\* No request waits longer than the client's timeout.
CacheTick ==
  /\ \A k \in Asker : ask[k].at = "idle" \/ ask[k].age < Timeout
  /\ was' = [v \in BOOLEAN |-> IF v = good THEN 0 ELSE Aged(was[v])]
  /\ cache' = [cache EXCEPT !.age = Aged(@)]
  /\ ask' = [k \in Asker |-> IF ask[k].at = "idle" THEN Quiet ELSE [ask[k] EXCEPT !.age = @ + 1]]
  /\ UNCHANGED <<flavour, good>>

\* External: a key is revoked or restored, an account suspended or reinstated.
Decide ==
  /\ good' = ~good /\ was' = [was EXCEPT ![~good] = 0]
  /\ UNCHANGED <<flavour, cache, ask>>

\* Mutant of Hit: use keeps an entry young.
HitRenews(k) == ask[k].at = "idle" /\ flavour = "key" /\ FromCache /\ cache' = [cache EXCEPT !.age = 0] /\ UNCHANGED <<flavour, good, was, ask>>

\* Introspect finds the key in the cache; nothing changes.
Hit(k) == ask[k].at = "idle" /\ flavour = "key" /\ FromCache /\ UNCHANGED cacheVars

Send(k) ==
  /\ ask[k].at = "idle" /\ (flavour = "key" => ~FromCache)
  /\ ask' = [ask EXCEPT ![k] = [Quiet EXCEPT !.at = "sent"]]
  /\ UNCHANGED <<flavour, good, was, cache>>

\* External: the control plane decides on what it knows at that moment.
Answer(k) ==
  /\ ask[k].at = "sent"
  /\ ask' = [ask EXCEPT ![k].at = "answered", ![k].good = good]
  /\ UNCHANGED <<flavour, good, was, cache>>

\* remember: the last answer to arrive is kept, stamped with its arrival, also when it
\* was given before the one it replaces.
Remember(k) ==
  /\ ask[k].at = "answered"
  /\ cache' = [good |-> ask[k].good, age |-> 0]
  /\ ask' = [ask EXCEPT ![k] = Quiet]
  /\ UNCHANGED <<flavour, good, was>>

\* No answer in time: the key is refused; a plan falls back on the cache, or is unknown.
Lost(k) ==
  /\ ask[k].at # "idle"
  /\ ask' = [ask EXCEPT ![k] = Quiet]
  /\ UNCHANGED <<flavour, good, was, cache>>

CacheNext == CacheTick \/ Decide \/ \E k \in Asker : Hit(k) \/ Send(k) \/ Answer(k) \/ Remember(k) \/ Lost(k)

CacheSpec == CacheInit /\ [][CacheNext]_cacheVars

-----------------------------------------------------------------------------
CacheTypeOK ==
  /\ good \in BOOLEAN /\ was \in [BOOLEAN -> 0 .. Horizon] /\ cache \in [good : BOOLEAN, age : 0 .. Horizon]
  /\ \A k \in Asker : ask[k] \in [at : {"idle", "sent", "answered"}, good : BOOLEAN, age : 0 .. Timeout]

\* A decision of the control plane takes hold: an answer that may still be used was
\* right less than the cache's time and one timeout ago, so that a revoked key or a
\* suspended account stops working by then, also when answers overtake each other.  It
\* is about remembered answers: a plan that could not be asked for longer than the
\* cache's time counts as unknown, and sending is then allowed.
AnswersAreRecent == FromCache => was[cache.good] < CacheTtl + Timeout
=============================================================================
