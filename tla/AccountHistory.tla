--------------------------- MODULE AccountHistory ---------------------------
(***************************************************************************)
(* What the account log promises its callers, with no files and no crashes *)
(* in sight: one history of numbered events that only ever grows at its    *)
(* end, and a set of acknowledged records that all belong to it.           *)
(***************************************************************************)
EXTENDS Naturals

CONSTANT Event

VARIABLES n,       \* the number of the last event of the history
          hist,    \* the history: records [seq, ev], one per number
          acked    \* the records whose writer was told "stored"

vars == <<n, hist, acked>>

Rec(s, e) == [seq |-> s, ev |-> e]

Init ==
  /\ n = 0
  /\ hist = {}
  /\ acked = {}

\* The next number and the event become part of the history for good.
Commit(e) ==
  /\ n' = n + 1
  /\ hist' = hist \cup {Rec(n + 1, e)}
  /\ UNCHANGED acked

\* Only the newest record can still be waiting for its acknowledgement.
Ack(e) ==
  /\ Rec(n, e) \in hist
  /\ acked' = acked \cup {Rec(n, e)}
  /\ UNCHANGED <<n, hist>>

Next == \E e \in Event : Commit(e) \/ Ack(e)

Spec == Init /\ [][Next]_vars
=============================================================================
