---------------------------- MODULE RiskFormulas ----------------------------
(***************************************************************************)
(* The formulas of engine/src/services/risk-formulas.ts and the test for   *)
(* liquidation of liquidation-service.ts.                                  *)
(*                                                                         *)
(* Decimals are integers in a small unit, so divisions round down; a ratio *)
(* is a number of RatioScale-ths.  A side is 1 for LONG and -1 for SHORT.  *)
(***************************************************************************)
EXTENDS Integers

CONSTANTS
    RatioScale,
    liquidationBufferRatio, freeCollateralBuffer    \* RISK_PARAMETERS

ASSUME RiskAssumption ==
    /\ RatioScale \in Nat \ {0}
    /\ liquidationBufferRatio \in Nat /\ freeCollateralBuffer \in Nat

Share(amount, ratio) == (amount * ratio) \div RatioScale

calculatePositionNotional(size, price) == size * price

calculateInitialMargin(notional, leverage) == notional \div leverage

\* Where the margin would be lost, and the buffer before it.
calculateLiquidationPrice(side, entry, leverage) ==
    entry - side * ((entry \div leverage) - Share(entry, liquidationBufferRatio))

isPositionLiquidatable(side, mark, threshold) == side * (mark - threshold) <= 0

calculateUnrealizedPnl(side, entry, mark, size) == side * (mark - entry) * size

calculateEquity(settledBalance, totalUnrealizedPnl) == settledBalance + totalUnrealizedPnl

calculateFreeCollateral(equity, usedMargin) ==
    LET free == equity - usedMargin - freeCollateralBuffer
    IN  IF free > 0 THEN free ELSE 0

\* In RatioScale-ths; all of the account when there is no equity.
calculateMarginRatio(usedMargin, equity) ==
    IF equity > 0 THEN (usedMargin * RatioScale) \div equity ELSE RatioScale

calculateAccountMetrics(settledBalance, usedMargin, totalUnrealizedPnl) ==
    LET equity == calculateEquity(settledBalance, totalUnrealizedPnl)
    IN  [equity |-> equity,
         freeCollateral |-> calculateFreeCollateral(equity, usedMargin),
         marginRatio |-> calculateMarginRatio(usedMargin, equity)]
=============================================================================
