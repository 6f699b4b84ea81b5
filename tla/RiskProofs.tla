------------------------------ MODULE RiskProofs ------------------------------
(***************************************************************************)
(* Facts about the formulas of RiskFormulas, for all sizes, prices and     *)
(* leverages and any settings of the risk parameters.                      *)
(***************************************************************************)
EXTENDS RiskFormulas, TLAPS

\* Rounding a quotient down keeps it above every integer below it.
LEMMA QuotientBound ==
    ASSUME NEW n \in Nat, NEW d \in Nat \ {0}, NEW k \in Int, k * d <= n
    PROVE  k <= n \div d
OBVIOUS

\* A quotient that rounds down is at most what it is of.
LEMMA QuotientIsBelow ==
    ASSUME NEW n \in Nat, NEW d \in Nat \ {0}
    PROVE  (n \div d) \in Nat /\ (n \div d) * d <= n
OBVIOUS

\* The buffer is a natural number.
LEMMA BufferIsNatural ==
    ASSUME NEW entry \in Nat
    PROVE  Share(entry, liquidationBufferRatio) \in Nat
<1>1. entry * liquidationBufferRatio \in Nat
  BY RiskAssumption
<1> QED
  BY <1>1, RiskAssumption, QuotientIsBelow DEF Share

\* The margin of a position is at least that of its parts.
LEMMA MarginOfSize ==
    ASSUME NEW size \in Nat, NEW entry \in Nat, NEW leverage \in Nat \ {0}
    PROVE  /\ calculateInitialMargin(calculatePositionNotional(size, entry), leverage) \in Nat
           /\ size * (entry \div leverage)
                 <= calculateInitialMargin(calculatePositionNotional(size, entry), leverage)
<1> DEFINE part == entry \div leverage
<1>1. part \in Nat /\ part * leverage <= entry
  BY QuotientIsBelow
<1>2. size * entry \in Nat /\ size * part \in Nat
  BY <1>1
<1> HIDE DEF part
<1>3. size * (part * leverage) <= size * entry
  BY <1>1
<1>4. (size * part) * leverage <= size * entry
  BY <1>1, <1>3
<1>5. size * part <= (size * entry) \div leverage
  BY <1>2, <1>4, QuotientBound
<1>6. (size * entry) \div leverage \in Nat
  BY <1>2, QuotientIsBelow
<1> QED
  BY <1>5, <1>6 DEF calculateInitialMargin, calculatePositionNotional, part

\* Liquidation comes in time: at every mark at which a position is not yet
\* liquidatable, on either side and at any leverage, its margin exceeds its
\* loss by more than the buffer on its size.
THEOREM MarginCoversUnliquidated ==
    ASSUME NEW side \in {1, -1}, NEW size \in Nat \ {0}, NEW entry \in Nat, NEW mark \in Nat,
           NEW leverage \in Nat \ {0},
           ~isPositionLiquidatable(side, mark, calculateLiquidationPrice(side, entry, leverage))
    PROVE  calculateInitialMargin(calculatePositionNotional(size, entry), leverage)
              + calculateUnrealizedPnl(side, entry, mark, size)
                > size * Share(entry, liquidationBufferRatio)
<1> DEFINE part   == entry \div leverage
           buffer == Share(entry, liquidationBufferRatio)
           margin == calculateInitialMargin(calculatePositionNotional(size, entry), leverage)
           move   == side * (mark - entry)
<1>1. part \in Nat /\ buffer \in Nat /\ move \in Int
  BY QuotientIsBelow, BufferIsNatural
<1>2. margin \in Nat /\ size * part <= margin
  BY MarginOfSize
<1>3. side * (mark - (entry - side * (part - buffer))) > 0
  <2>1. ~(side * (mark - (entry - side * (part - buffer))) <= 0)
    BY DEF isPositionLiquidatable, calculateLiquidationPrice
  <2> HIDE DEF part, buffer
  <2> QED
    BY <1>1, <2>1
<1>4. move > buffer - part
  <2> HIDE DEF part, buffer
  <2>1. CASE side = 1
    BY <1>1, <1>3, <2>1
  <2>2. CASE side = -1
    BY <1>1, <1>3, <2>2
  <2> QED
    BY <2>1, <2>2
<1>5. size * move >= size * (buffer - part) + size
  <2> HIDE DEF part, buffer, move
  <2>1. move - (buffer - part) - 1 \in Nat
    BY <1>1, <1>4
  <2>2. size * (move - (buffer - part) - 1) \in Nat
    BY <2>1
  <2>3. size * (move - (buffer - part) - 1) = size * move - size * (buffer - part) - size
    BY <1>1
  <2> QED
    BY <1>1, <2>2, <2>3
<1>6. size * (buffer - part) = size * buffer - size * part
  BY <1>1
<1>7. calculateUnrealizedPnl(side, entry, mark, size) = size * move
  BY <1>1 DEF calculateUnrealizedPnl
<1> HIDE DEF part, buffer, margin, move
<1>8. margin + size * move > size * buffer
  BY <1>1, <1>2, <1>5, <1>6
<1> QED
  BY <1>7, <1>8 DEF margin, buffer

\* Averaging (the update of openPosition) neither makes nor loses money: at every
\* mark the PnL of the averaged position and that of its two parts are less than
\* a unit of price on its size apart, which is what rounding the entry costs.
THEOREM AveragingKeepsPnl ==
    ASSUME NEW side \in {1, -1}, NEW held \in Nat \ {0}, NEW added \in Nat \ {0},
           NEW entry \in Nat, NEW price \in Nat, NEW mark \in Nat
    PROVE  LET size     == held + added
               average  == (entry * held + price * added) \div size
               together == calculateUnrealizedPnl(side, average, mark, size)
               apart    == calculateUnrealizedPnl(side, entry, mark, held)
                              + calculateUnrealizedPnl(side, price, mark, added)
           IN  together - apart < size /\ apart - together < size
<1> DEFINE size    == held + added
           paid    == entry * held + price * added
           average == paid \div size
           rest    == paid % size
<1>1. size \in Nat \ {0} /\ paid \in Nat
  BY DEF size, paid
<1> HIDE DEF size, paid
<1>2. average \in Nat /\ rest \in 0..(size - 1) /\ paid = average * size + rest
  BY <1>1
<1> HIDE DEF average, rest
<1>3. calculateUnrealizedPnl(side, average, mark, size) = side * (mark * size - average * size)
  BY <1>1, <1>2 DEF calculateUnrealizedPnl
<1>4. calculateUnrealizedPnl(side, entry, mark, held)
        + calculateUnrealizedPnl(side, price, mark, added) = side * (mark * size - paid)
  BY DEF calculateUnrealizedPnl, size, paid
<1> DEFINE worth == mark * size
           cost  == average * size
<1>5. worth \in Nat /\ cost \in Nat
  BY <1>1, <1>2
<1> HIDE DEF worth, cost
<1>6. paid = cost + rest
  BY <1>2 DEF cost
<1>7. /\ side * (worth - cost) - side * (worth - paid) < size
      /\ side * (worth - paid) - side * (worth - cost) < size
  <2>1. CASE side = 1
    BY <1>1, <1>2, <1>5, <1>6, <2>1
  <2>2. CASE side = -1
    BY <1>1, <1>2, <1>5, <1>6, <2>2
  <2> QED BY <2>1, <2>2
<1> QED BY <1>3, <1>4, <1>7 DEF worth, cost, average, paid, size
=============================================================================
