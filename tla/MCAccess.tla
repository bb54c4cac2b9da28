------------------------------ MODULE MCAccess ------------------------------
(***************************************************************************)
(* Who is let in: sign-in, signup, the cached answers of the control       *)
(* plane, the address behind proxies that limits are keyed by, and the     *)
(* checks on a sender of mail, side by side.  A behaviour is about one of  *)
(* them, `part', so that their state spaces add up and do not multiply.    *)
(***************************************************************************)
EXTENDS Login, Signup, KeyCache, ClientAddr, EmailAuth

VARIABLE part

LockScope == {"other", "time", "fault"}
MCScope == {LockScope, {"login", "change", "fault"}, {"login", "v1", "time", "fault"}}

\* Two proxies on the allowlist, and an entry that does not parse.
MCConfigured == {{"near", "far"}, {}}

\* A message that its domain signed; with every header of up to three lines, longer ones
\* whose lines end alike, and with everything DNS may say of its sender.
Signed ==
  [raw |-> <<[is |-> "from", crlf |-> TRUE], [is |-> "empty", crlf |-> TRUE], [is |-> "other", crlf |-> TRUE]>>,
   author |-> <<"com", "x">>, mailFrom |-> <<>>, spf |-> FALSE, dkim |-> {<<"com", "x">>}, record |-> "p=reject"]
Domains == {<<"com">>, <<"com", "x">>, <<"com", "x", "a">>, <<"com", "x", "b">>, <<"com", "y">>}
MCArrival ==
  {[Signed EXCEPT !.raw = r] :
     r \in UNION {[1 .. n -> Line] : n \in 1 .. 3} \cup UNION {[1 .. 4 -> {l \in Line : l.crlf = b}] : b \in BOOLEAN}}
  \cup {[Signed EXCEPT !.author = a, !.mailFrom = f, !.spf = s, !.dkim = d, !.record = p] :
          a \in Domains \cup {<<>>}, f \in Domains \cup {<<>>}, s \in BOOLEAN,
          d \in {{}, {<<"com">>}, {<<"com", "x">>}, {<<"com", "x", "a">>}, {<<"com", "x", "b">>, <<"com", "y">>}},
          p \in {"none", "temp", "p=none", "p=quarantine", "p=reject"}}

\* The states that are explored: tokens are drawn in one order, and where passwords are
\* changed nobody is locked out and one session goes away.
OneOrder == (CHOOSE t \in Token : TRUE) \in Unused => Unused = Token
FewEnds ==
  "change" \in scope => Cardinality(gone) <= 1 /\ \A k \in Key : Len(fails[k]) < MaxFailures

vars == <<idVars, loginVars, signupVars, cacheVars, addrVars, authVars, part>>

Init ==
  /\ part \in {"login", "signup", "cache", "address", "sender"}
  /\ IdInit /\ LoginInit /\ SignupInit /\ CacheInit
  /\ part # "login" => scope = LockScope
  /\ part # "cache" => flavour = "key" /\ good
  /\ IF part = "address" THEN AddrInit ELSE wire = [peer |-> Nowhere, xff |-> <<>>, first |-> 0] /\ source = Nowhere /\ hops = 0
  /\ IF part = "sender" THEN AuthInit ELSE inbound = [msg |-> Signed, raw |-> Signed.raw, fate |-> "new"]

Next ==
  \/ part = "login" /\ LoginNext /\ UNCHANGED <<signupVars, cacheVars, addrVars, authVars, part>>
  \/ part = "signup" /\ SignupNext /\ UNCHANGED <<loginVars, cacheVars, addrVars, authVars, part>>
  \/ part = "cache" /\ CacheNext /\ UNCHANGED <<idVars, loginVars, signupVars, addrVars, authVars, part>>
  \/ part = "address" /\ AddrNext /\ UNCHANGED <<idVars, loginVars, signupVars, cacheVars, authVars, part>>
  \/ part = "sender" /\ AuthNext /\ UNCHANGED <<idVars, loginVars, signupVars, cacheVars, addrVars, part>>

Spec == Init /\ [][Next]_vars /\ LoginFairness
=============================================================================
