------------------------------- MODULE Lists --------------------------------
(***************************************************************************)
(* What the code does to a slice that the library's operators leave out of *)
(* a prover's reach: entries are filtered into a fresh slice, one entry is *)
(* cut out, numbers are sorted.  ListProofs has what they return.          *)
(***************************************************************************)
EXTENDS Naturals, Sequences, FiniteSets

\* The entries of s that are members of S, in their order.
KeepIn(s, S) ==
  LET kept[i \in 0 .. Len(s)] ==
        IF i = 0 THEN <<>>
        ELSE IF s[i] \in S THEN Append(kept[i - 1], s[i]) ELSE kept[i - 1]
  IN  kept[Len(s)]

\* s without its p-th entry.
CutOut(s, p) == [k \in 1 .. Len(s) - 1 |-> IF k < p THEN s[k] ELSE s[k + 1]]

\* The numbers of S in ascending order: the k-th has k - 1 below it.
InOrder(S) == [k \in 1 .. Cardinality(S) |-> CHOOSE x \in S : Cardinality({y \in S : y < x}) = k - 1]
=============================================================================
