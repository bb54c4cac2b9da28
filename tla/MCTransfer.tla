----------------------------- MODULE MCTransfer -----------------------------
(* Three accounts, two of them away.  The third submits over SMTP to an        *)
(* address elsewhere and to one that does not exist, the second writes from    *)
(* the web to the first and to itself, and a server elsewhere sends to the     *)
(* first and the third.  Any two of the three messages are on their way in     *)
(* the states that are explored.                                               *)
EXTENDS Transfer, TLC

CONSTANTS a1, a2, a3, m1, m2, m3

Senders == (m1 :> a3) @@ (m2 :> a2) @@ (m3 :> Out)
Recipients == (m1 :> {Out, Nobody}) @@ (m2 :> {a1, a2}) @@ (m3 :> {a1, a3})

Plans == (a1 :> 1) @@ (a2 :> 2) @@ (a3 :> 2)

Begun ==
  {m \in Submitted : sub[m].at # "new"} \cup {m \in Inbound : conn[m].msg # NoMsg}
    \cup {msg.root : msg \in Everything}

TwoAtATime == Cardinality(Begun) <= 2
=============================================================================
