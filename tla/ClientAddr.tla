----------------------------- MODULE ClientAddr -----------------------------
(***************************************************************************)
(* The address that limits are keyed by, behind proxies.  A request comes  *)
(* from an address with any X-Forwarded-For header; proxies on its way     *)
(* record whom they got it from.  Those of the allowlist are believed.     *)
(***************************************************************************)
EXTENDS Naturals, Sequences

CONSTANTS
  Address,
  Nowhere,     \* a hop that is empty
  Configured,  \* the entries of VULOS_TRUSTED_PROXIES, each as the addresses it covers
  MaxForged,   \* bound on the hops that a client writes itself
  MaxHops      \* bound on proxies

ASSUME ProxyAssumption ==
  Nowhere \notin Address /\ Configured \subseteq SUBSET Address /\ MaxForged \in Nat /\ MaxHops \in Nat

VARIABLES
  wire,    \* RemoteAddr, the hops of X-Forwarded-For, and how many are on its first line
  source,  \* history: who handed the request to the proxies that are trusted
  hops

addrVars == <<wire, source, hops>>

\* Any header, on any number of lines.
Headers ==
  {[xff |-> h, first |-> k] : h \in UNION {[1 .. n -> Address \cup {Nowhere}] : n \in 0 .. MaxForged}, k \in 0 .. MaxForged}
Sendable(h) == h.first <= Len(h.xff) /\ (h.first = 0 => h.xff = <<>>)
Carrying(p, h) == [peer |-> p, xff |-> h.xff, first |-> h.first]

\* An entry that does not parse covers nothing.
ParseTrustedProxies == UNION Configured
IpTrusted(a) == a \in ParseTrustedProxies

\* Mutant of FirstUntrusted: the list is read from the client's end.
FirstUntrustedLeft(list, peer) ==
  LET far == {i \in DOMAIN list : list[i] # Nowhere /\ ~IpTrusted(list[i])}
  IN  IF far = {} THEN peer ELSE list[CHOOSE i \in far : \A j \in far : i <= j]

\* The walk from the right, over empty hops and trusted ones.
FirstUntrusted(list, peer) ==
  LET far == {i \in DOMAIN list : list[i] # Nowhere /\ ~IpTrusted(list[i])}
  IN  IF far = {} THEN peer ELSE list[CHOOSE i \in far : \A j \in far : i >= j]

\* Header.Get returns the first line of the header and no other.
ClientIP(w) ==
  IF ~IpTrusted(w.peer) \/ w.first = 0 THEN w.peer ELSE FirstUntrusted(SubSeq(w.xff, 1, w.first), w.peer)

\* Signup has a copy of its own of the three.
SignupClientIP(w) == ClientIP(w)

-----------------------------------------------------------------------------
AddrInit ==
  /\ \E a \in Address, h \in Headers : Sendable(h) /\ wire = Carrying(a, h) /\ source = a
  /\ hops = 0

\* External: a trusted proxy adds its peer, to one list of all hops or on a line of its own.
TrustedProxy(p, ownLine) ==
  /\ hops < MaxHops /\ IpTrusted(p)
  /\ wire' = [peer |-> p, xff |-> Append(wire.xff, wire.peer),
              first |-> IF ownLine /\ wire.first # 0 THEN wire.first ELSE Len(wire.xff) + 1]
  /\ hops' = hops + 1 /\ UNCHANGED source

\* External: anyone else passes on what he likes.
Relay(p, h) ==
  /\ hops < MaxHops /\ ~IpTrusted(p) /\ Sendable(h)
  /\ wire' = Carrying(p, h) /\ source' = p
  /\ hops' = hops + 1

AddrNext ==
  \/ \E p \in Address, own \in BOOLEAN : TrustedProxy(p, own)
  \/ \E p \in Address, h \in Headers : Relay(p, h)

AddrSpec == AddrInit /\ [][AddrNext]_addrVars

-----------------------------------------------------------------------------
\* Whatever a client and the relays before the trusted proxies write into the header,
\* sign-in and signup count it under the address from which it reached the first of
\* the trusted proxies; unless that address is on the allowlist itself, or the
\* header has more lines than the one that is read.
KeyIsGenuine == wire.first = Len(wire.xff) /\ ~IpTrusted(source) => ClientIP(wire) = source /\ SignupClientIP(wire) = source
=============================================================================
