----------------------------- MODULE MCOutQueue -----------------------------
(* Messages of one tenant to one destination domain: they meet in one         *)
(* reputation gate and one warmup ramp, and may be exchanged for one another. *)
EXTENDS OutQueue, TLC

CONSTANTS t1, d1

SameTenant == [m \in Msg |-> t1]
SameDomain == [m \in Msg |-> d1]
Alike == Permutations(Msg)

ShortRamp == <<1, 2>>
OneADay == <<1>>
=============================================================================
