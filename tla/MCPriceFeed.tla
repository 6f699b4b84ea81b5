---------------------------- MODULE MCPriceFeed ----------------------------
\* The instance of PriceFeed for TLC: prices in tenths, the two outcomes of a
\* market, quotes on both sides of every test of the policy, and messages of
\* one event and of two.
EXTENDS PriceFeed

Quote(bid, ask, trade) == [bestBid |-> bid, bestAsk |-> ask, lastTradePrice |-> trade]

High      == Quote(8, 10, NULL)      \* a book at 9
Low       == Quote(0, 2, NULL)       \* a book at 1, four jumps away
Distorted == Quote(0, 10, 4)         \* too wide: the trade counts
Outside   == Quote(10, 12, 12)       \* no binary prices
Nothing   == Quote(NULL, NULL, NULL)

Of(asset, quote) == [asset |-> asset, event |-> quote]

MCAssets == {"yes", "no"}

MCMessages ==
    {<<Of("yes", quote)>> : quote \in {High, Low, Distorted, Outside, Nothing}}
    \cup {<<Of("yes", Low), Of("yes", Outside)>>, <<Of("no", High), Of("yes", Low)>>}
=============================================================================
