-------------------------- MODULE MarkPricePolicy --------------------------
(***************************************************************************)
(* How a quote of the venue becomes a mark price: applyMarkPricePolicy of   *)
(* packages/engine/src/prices/mark-price-policy.ts.  Prices are ticks of    *)
(* 1/One; the venue may also quote values outside 0..One, and NULL stands   *)
(* for a field that is missing or not a number.                             *)
(***************************************************************************)
EXTENDS Integers

CONSTANTS
    One,                \* the price 1
    MaxMidpointSpread,  \* MARKET_PRICE_DEFAULTS.maxMidpointSpread
    MaxMarkPriceJump,   \* MARKET_PRICE_DEFAULTS.maxMarkPriceJump
    NULL

ASSUME PolicyAssumption ==
    /\ One \in Nat \ {0}
    /\ MaxMidpointSpread \in Nat
    /\ MaxMarkPriceJump \in Nat \ {0}
    /\ NULL \notin Int

Price == Int \cup {NULL}

\* An event of the feed, for one asset, and what the feed remembers of it.
Event  == [bestBid : Price, bestAsk : Price, lastTradePrice : Price]
Latest == [bestBid : Price, bestAsk : Price, lastTradePrice : Price, markPrice : Price]

NoQuote == [bestBid |-> NULL, bestAsk |-> NULL, lastTradePrice |-> NULL, markPrice |-> NULL]

Or(price, other) == IF price # NULL THEN price ELSE other

isValidBinaryPrice(price) == price \in 0..One

\* Mutant: a book is not checked for prices outside 0..One.
midpointOfAnyBook(bid, ask) ==
    IF /\ bid # NULL /\ ask # NULL
       /\ bid <= ask
       /\ ask - bid <= MaxMidpointSpread
    THEN (bid + ask) \div 2
    ELSE NULL

\* The middle of a consistent book that is not too wide.
calculateMidpoint(bid, ask) ==
    IF /\ isValidBinaryPrice(bid) /\ isValidBinaryPrice(ask)
       /\ bid <= ask
       /\ ask - bid <= MaxMidpointSpread
    THEN (bid + ask) \div 2
    ELSE NULL

\* Mutant: a jump that is too large is let through whole.
clampNothing(candidate, previous) == candidate

\* Mutant: a jump that is too large is refused instead of shortened.
refuseJump(candidate, previous) ==
    IF ~isValidBinaryPrice(previous) THEN candidate
    ELSE IF candidate - previous \in -MaxMarkPriceJump .. MaxMarkPriceJump THEN candidate
    ELSE previous

\* At most MaxMarkPriceJump away from the previous mark, in the candidate's
\* direction.
clampMarkPrice(candidate, previous) ==
    LET up   == previous + MaxMarkPriceJump
        down == previous - MaxMarkPriceJump
    IN  IF ~isValidBinaryPrice(previous) THEN candidate
        ELSE IF candidate > up   THEN IF up > One THEN One ELSE up
        ELSE IF candidate < down THEN IF down < 0 THEN 0 ELSE down
        ELSE candidate

\* The candidate: a fresh book, a fresh trade, the remembered book, the
\* remembered mark, in this order.
rawMarkPrice(existing, event, midpoint) ==
    LET freshBook  == /\ isValidBinaryPrice(event.bestBid)
                      /\ isValidBinaryPrice(event.bestAsk)
        freshTrade == isValidBinaryPrice(event.lastTradePrice)
        remembered == isValidBinaryPrice(existing.markPrice)
    IN  Or(IF freshBook THEN midpoint ELSE NULL,
           Or(IF freshTrade THEN event.lastTradePrice ELSE NULL,
              Or(midpoint, IF remembered THEN existing.markPrice ELSE NULL)))

\* The quote after the event: what the event does not say is remembered.
applyMarkPricePolicy(existing, event) ==
    LET bid      == Or(event.bestBid, existing.bestBid)
        ask      == Or(event.bestAsk, existing.bestAsk)
        midpoint == calculateMidpoint(bid, ask)
        raw      == rawMarkPrice(existing, event, midpoint)
    IN  [bestBid |-> bid, bestAsk |-> ask,
         lastTradePrice |-> Or(event.lastTradePrice, existing.lastTradePrice),
         markPrice |-> IF raw = NULL THEN NULL ELSE clampMarkPrice(raw, existing.markPrice)]
=============================================================================
