--------------------------- MODULE MCImapSession ----------------------------
(***************************************************************************)
(* Sessions on a changing account, first without IDLE and with more UIDs,  *)
(* then with it, and message sets and flags in one session, side by side:  *)
(* a behaviour is about one part.  Messages may be exchanged for one       *)
(* another.                                                                *)
(***************************************************************************)
EXTENDS ImapSession, ImapStore, TLC

VARIABLE part

MCInbox == {1, 3}
MCWanted == {{}, {"seen", "junk"}, {"flagged", "deleted"}}

Alike == Permutations(Msg) \cup Permutations(Gor)

\* The states that are explored: how many UIDs a mailbox hands out, in its first life
\* and in a later one, and what comes together with IDLE.
FewUids ==
  \A l \in Label : view[l].next <= IF life[l] > 0 THEN 2 ELSE IF part = "idle" THEN 3 ELSE MaxUid + 1
LittleAtATime ==
  part = "idle" =>
    \A s \in Sess :
      LET running == Cardinality({g \in Gor : gor[s][g].at # "off"})
          first == \A l \in Label : life[l] = 0
      IN  /\ (running = 0 /\ Cardinality(born) <= 1) \/ (meant[s] = {} /\ marked[s] = {})
          /\ running <= 1 \/ first
          /\ Cardinality(born) <= 1 \/ (running <= 1 /\ first)

MCInit == SInit /\ StoreInit /\ part \in {"session", "idle", "store"}

MCNext ==
  \/ part = "session" /\ SNext /\ UNCHANGED <<storeVars, part>>
  \/ part = "idle" /\ (SNext \/ Idling) /\ UNCHANGED <<storeVars, part>>
  \/ part = "store" /\ StoreNext /\ UNCHANGED <<vars, part>>

MCSpec == MCInit /\ [][MCNext]_<<vars, storeVars, part>>
=============================================================================
