---------------------------- MODULE MCHedgeLoop ----------------------------
(* Instances of HedgeLoop.                                                *)
EXTENDS HedgeLoop

\* Two outcomes of one market, and a third one in a second market.
MCOneMarket  == [o \in 1..2 |-> 1]
MCTwoMarkets == [o \in 1..3 |-> IF o = 3 THEN 2 ELSE 1]
=============================================================================
