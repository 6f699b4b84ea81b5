--------------------------- MODULE MCHyperVault ---------------------------
(* The instance of HyperVault that TLC checks: three accounts, each of which *)
(* may also be owner and manager, and a handful of tokens.                 *)
EXTENDS HyperVault

MCWallet == [a \in 1..3 |-> 4 - a]
=============================================================================
