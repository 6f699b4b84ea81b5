------------------------ MODULE MCSettlementBridge ------------------------
(* Instances of SettlementBridge.  Account 1 trades; account 2 owns and    *)
(* manages the vault.                                                      *)
EXTENDS SettlementBridge

MCOne == [u \in {1} |-> 1]
MCNil == [u \in {1} |-> 0]
MCDeposits     == [u \in 1..2 |-> IF u = 1 THEN 1 ELSE 0]
MCWallet       == [u \in 1..2 |-> 0]
MCPositionUser == [p \in {"p1", "p2"} |-> 1]
MCOnePosition  == [p \in {"p1"} |-> 1]
=============================================================================
