----------------------------- MODULE MCUidView ------------------------------
(* Messages may be exchanged for one another, and so may mailboxes.          *)
EXTENDS UidView, TLC

Alike == Permutations(Msg) \cup Permutations(Label)
=============================================================================
