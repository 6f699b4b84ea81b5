------------------------- MODULE MCPositionLedger -------------------------
(* Instances of PositionLedger: one key, long or short, and prices on      *)
(* which averaging is exact.                                               *)
EXTENDS PositionLedger, TLC

MCLong  == [k \in {"long"} |-> 1]
MCShort == [k \in {"short"} |-> -1]
MCKeys  == DOMAIN KeySign
MCSymmetry == Permutations(Txns)
=============================================================================
