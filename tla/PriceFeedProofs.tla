--------------------------- MODULE PriceFeedProofs ---------------------------
(***************************************************************************)
(* Proofs about PriceFeed, for any assets, messages, handlers and failures, *)
(* and any settings of the mark price policy.                               *)
(*                                                                         *)
(* Marks stay in [0, 1] because every quote the feed remembers, has under   *)
(* way or has stored comes from the policy.  The store follows the feed     *)
(* because the last of an asset's writes is what the feed remembers of it,  *)
(* and moves smoothly because these writes are a chain of the policy's      *)
(* steps.  What is remembered is what was said last, because the events of  *)
(* an asset wait in one handler at most, unless they were overtaken.        *)
(***************************************************************************)
EXTENDS PriceFeed, SequenceTheorems, FiniteSetTheorems, WellFoundedInduction, TLAPS

\* The types of quotes, writes and events.
BinQuote == [bestBid : Price, bestAsk : Price, lastTradePrice : Price, markPrice : Mark]
Write    == [asset : Assets, by : Handlers, quote : BinQuote]
FeedItem == [asset : Assets, event : Event]

\* A mark is not lost from one quote to the next, and moves by one jump at most.
Near(quote, next) ==
    quote.markPrice # NULL =>
       /\ next.markPrice # NULL
       /\ next.markPrice - quote.markPrice \in -MaxMarkPriceJump .. MaxMarkPriceJump

---------------------------------------------------------------------------
(* The policy.                                                             *)

\* A midpoint lies in [0, 1], whatever the book.
LEMMA MidpointIsMark ==
    ASSUME NEW bid \in Price, NEW ask \in Price
    PROVE  calculateMidpoint(bid, ask) \in Mark
  BY PolicyAssumption DEF calculateMidpoint, isValidBinaryPrice, Mark, Price

\* The clamp keeps a mark in [0, 1], and next to the mark before it.
LEMMA ClampKeepsClose ==
    ASSUME NEW candidate \in 0..One, NEW previous \in Mark
    PROVE  /\ clampMarkPrice(candidate, previous) \in 0..One
           /\ previous # NULL =>
                 clampMarkPrice(candidate, previous) - previous
                     \in -MaxMarkPriceJump .. MaxMarkPriceJump
  BY PolicyAssumption DEF clampMarkPrice, isValidBinaryPrice, Mark

\* Whatever an event quotes, the policy's mark is in [0, 1] or missing.
LEMMA PolicyIsBinary ==
    ASSUME NEW existing \in BinQuote, NEW event \in Event
    PROVE  applyMarkPricePolicy(existing, event) \in BinQuote
<1> DEFINE bid == Or(event.bestBid, existing.bestBid)
           ask == Or(event.bestAsk, existing.bestAsk)
           midpoint == calculateMidpoint(bid, ask)
           raw == rawMarkPrice(existing, event, midpoint)
<1>1. bid \in Price /\ ask \in Price /\ Or(event.lastTradePrice, existing.lastTradePrice) \in Price
  BY DEF BinQuote, Event, Or
<1>2. midpoint \in Mark
  BY <1>1, MidpointIsMark
<1>3. raw \in Mark
  <2> HIDE DEF midpoint
  <2> QED
    BY <1>2 DEF rawMarkPrice, Or, isValidBinaryPrice, Mark, BinQuote
<1>4. existing.markPrice \in Mark
  BY DEF BinQuote
<1>5. (IF raw = NULL THEN NULL ELSE clampMarkPrice(raw, existing.markPrice)) \in Mark
  <2> HIDE DEF raw
  <2> QED
    BY <1>3, <1>4, ClampKeepsClose DEF Mark
<1> HIDE DEF bid, ask, raw
<1> QED
  BY <1>1, <1>5 DEF applyMarkPricePolicy, BinQuote, bid, ask, raw

\* The policy never loses a mark, and moves it by one jump at most.
THEOREM PolicyMovesSmoothly ==
    ASSUME NEW existing \in BinQuote, NEW event \in Event, existing.markPrice # NULL
    PROVE  LET mark == applyMarkPricePolicy(existing, event).markPrice
           IN  /\ mark # NULL
               /\ mark - existing.markPrice \in -MaxMarkPriceJump .. MaxMarkPriceJump
<1> DEFINE bid == Or(event.bestBid, existing.bestBid)
           ask == Or(event.bestAsk, existing.bestAsk)
           midpoint == calculateMidpoint(bid, ask)
           raw == rawMarkPrice(existing, event, midpoint)
<1>1. bid \in Price /\ ask \in Price
  BY DEF BinQuote, Event, Or
<1>2. midpoint \in Mark
  BY <1>1, MidpointIsMark
<1>3. existing.markPrice \in 0..One
  BY DEF BinQuote, Mark
<1>4. raw \in 0..One
  <2> HIDE DEF midpoint
  <2> QED
    BY <1>2, <1>3, PolicyAssumption DEF rawMarkPrice, Or, isValidBinaryPrice, Mark
<1>5. clampMarkPrice(raw, existing.markPrice) \in 0..One
      /\ clampMarkPrice(raw, existing.markPrice) - existing.markPrice
            \in -MaxMarkPriceJump .. MaxMarkPriceJump
  <2> HIDE DEF raw
  <2> QED
    BY <1>3, <1>4, ClampKeepsClose, PolicyAssumption DEF Mark
<1>6. applyMarkPricePolicy(existing, event).markPrice = clampMarkPrice(raw, existing.markPrice)
  <2>1. raw # NULL
    BY <1>4, PolicyAssumption
  <2> HIDE DEF raw
  <2> QED
    BY <2>1 DEF applyMarkPricePolicy, raw, midpoint, bid, ask
<1> QED
  BY <1>5, <1>6, PolicyAssumption

---------------------------------------------------------------------------
(* The feed.                                                               *)

\* What is remembered, under way and stored; events waiting are events.
FeedInv ==
    /\ latestByAsset \in [Assets -> BinQuote]
    /\ handler \in [Handlers -> [busy : BOOLEAN, rest : Seq(FeedItem)]]
    /\ writes \in Seq(Write)
    /\ store \in [Assets -> [stored : BOOLEAN, quote : BinQuote]]

\* The last of an asset's writes in a queue carries what is remembered of it.
Tracks(queue, latest) ==
    \A i \in DOMAIN queue :
        (\A j \in DOMAIN queue : j > i => queue[j].asset # queue[i].asset)
            => queue[i].quote = latest[queue[i].asset]

\* The store is up to date where nothing is under way and nothing was lost.
UpToDate(queue, latest, stored, lost) ==
    \A a \in Assets :
        \/ \E i \in DOMAIN queue : queue[i].asset = a
        \/ a \in lost
        \/ stored[a].quote = latest[a]

\* The inductive invariant.
FollowInv ==
    /\ FeedInv
    /\ Tracks(writes, latestByAsset)
    /\ UpToDate(writes, latestByAsset, store, gap)

\* NoQuote is a quote.
LEMMA NoQuoteIsBinary == NoQuote \in BinQuote
  BY DEF NoQuote, BinQuote, Price, Mark

\* A step of a handler leaves remembered quotes and the queue alone, or makes
\* one new quote, remembers it and queues it.
LEMMA RunEffect ==
    ASSUME FeedInv, NEW h \in Handlers, NEW events \in Seq(FeedItem),
           NEW queue \in Seq(Write), Run(h, events, queue)
    PROVE  /\ handler' \in [Handlers -> [busy : BOOLEAN, rest : Seq(FeedItem)]]
           /\ \/ writes' = queue /\ latestByAsset' = latestByAsset
              \/ \E w \in Write :
                    /\ writes' = Append(queue, w)
                    /\ latestByAsset' = [latestByAsset EXCEPT ![w.asset] = w.quote]
                    /\ Near(latestByAsset[w.asset], w.quote)
<1>1. CASE /\ handler' = [handler EXCEPT ![h] = Idle]
           /\ writes' = queue
           /\ UNCHANGED latestByAsset
  <2>1. Idle \in [busy : BOOLEAN, rest : Seq(FeedItem)]
    BY DEF Idle
  <2> QED
    BY <1>1, <2>1 DEF FeedInv
<1>2. ASSUME NEW i \in Known(events),
             handler' = [handler EXCEPT ![h] =
                            [busy |-> TRUE, rest |-> SubSeq(events, i + 1, Len(events))]],
             remember(events[i], applyMarkPricePolicy(latestByAsset[events[i].asset],
                                                      events[i].event)),
             setSnapshot(h, events[i], applyMarkPricePolicy(latestByAsset[events[i].asset],
                                                            events[i].event), queue)
      PROVE  /\ handler' \in [Handlers -> [busy : BOOLEAN, rest : Seq(FeedItem)]]
             /\ \E w \in Write :
                   /\ writes' = Append(queue, w)
                   /\ latestByAsset' = [latestByAsset EXCEPT ![w.asset] = w.quote]
                   /\ Near(latestByAsset[w.asset], w.quote)
  <2> DEFINE merged == applyMarkPricePolicy(latestByAsset[events[i].asset], events[i].event)
             w == [asset |-> events[i].asset, by |-> h, quote |-> merged]
  <2>1. i \in 1..Len(events) /\ events[i] \in FeedItem
    BY DEF Known
  <2>2. SubSeq(events, i + 1, Len(events)) \in Seq(FeedItem)
    BY <2>1
  <2>3. merged \in BinQuote
    BY <2>1, PolicyIsBinary DEF FeedInv, FeedItem
  <2>4. w \in Write
    BY <2>1, <2>3 DEF Write, FeedItem
  <2>5. /\ writes' = Append(queue, w)
        /\ latestByAsset' = [latestByAsset EXCEPT ![w.asset] = w.quote]
    BY <1>2 DEF remember, setSnapshot
  <2>6. handler' \in [Handlers -> [busy : BOOLEAN, rest : Seq(FeedItem)]]
    BY <1>2, <2>2 DEF FeedInv
  <2>7. Near(latestByAsset[w.asset], w.quote)
    BY <2>1, PolicyMovesSmoothly DEF Near, FeedInv, FeedItem
  <2> HIDE DEF w
  <2> QED
    BY <2>4, <2>5, <2>6, <2>7
<1> QED
  BY <1>1, <1>2 DEF Run

\* The first write of a queue leaves: the others track as before.
LEMMA TailTracks ==
    ASSUME NEW queue \in Seq(Write), queue # <<>>, NEW latest, Tracks(queue, latest)
    PROVE  Tracks(Tail(queue), latest)
<1> SUFFICES ASSUME NEW i \in DOMAIN Tail(queue),
                    \A j \in DOMAIN Tail(queue) : j > i => Tail(queue)[j].asset # Tail(queue)[i].asset
             PROVE  Tail(queue)[i].quote = latest[Tail(queue)[i].asset]
  BY DEF Tracks
<1>1. /\ i + 1 \in DOMAIN queue /\ Tail(queue)[i] = queue[i + 1]
      /\ \A j \in DOMAIN queue : j > i + 1 => j - 1 \in DOMAIN Tail(queue)
                                              /\ Tail(queue)[j - 1] = queue[j]
  OBVIOUS
<1>2. \A j \in DOMAIN queue : j > i + 1 => queue[j].asset # queue[i + 1].asset
  BY <1>1
<1> QED
  BY <1>1, <1>2 DEF Tracks

\* A quote that is remembered and queued at once is tracked.
LEMMA AppendTracks ==
    ASSUME NEW queue \in Seq(Write), NEW w \in Write,
           NEW latest \in [Assets -> BinQuote], Tracks(queue, latest)
    PROVE  Tracks(Append(queue, w), [latest EXCEPT ![w.asset] = w.quote])
<1> DEFINE longer == Append(queue, w)
           newer == [latest EXCEPT ![w.asset] = w.quote]
<1> SUFFICES ASSUME NEW i \in DOMAIN longer,
                    \A j \in DOMAIN longer : j > i => longer[j].asset # longer[i].asset
             PROVE  longer[i].quote = newer[longer[i].asset]
  BY DEF Tracks
<1>0. w.asset \in Assets /\ newer[w.asset] = w.quote
  BY DEF Write
<1>1. CASE i = Len(queue) + 1
  BY <1>0, <1>1
<1>2. CASE i # Len(queue) + 1
  <2>1. i \in DOMAIN queue /\ longer[i] = queue[i]
    BY <1>2
  <2>2. longer[Len(queue) + 1] = w /\ Len(queue) + 1 \in DOMAIN longer /\ Len(queue) + 1 > i
    BY <2>1
  <2>3. queue[i].asset # w.asset
    BY <2>1, <2>2
  <2>4. \A j \in DOMAIN queue : j > i => queue[j].asset # queue[i].asset
    BY <2>1
  <2>5. queue[i] \in Write /\ queue[i].asset \in Assets
    <3>1. queue[i] \in Write
      BY <2>1
    <3> QED
      BY <3>1 DEF Write
  <2> QED
    BY <2>1, <2>3, <2>4, <2>5 DEF Tracks
<1> QED
  BY <1>1, <1>2

\* A handler's step keeps the invariant, for any queue it finds.
LEMMA RunKeepsFollow ==
    ASSUME FeedInv, NEW h \in Handlers, NEW events \in Seq(FeedItem),
           NEW queue \in Seq(Write), Run(h, events, queue),
           Tracks(queue, latestByAsset),
           NEW stored \in [Assets -> [stored : BOOLEAN, quote : BinQuote]], NEW lost,
           UpToDate(queue, latestByAsset, stored, lost)
    PROVE  /\ latestByAsset' \in [Assets -> BinQuote]
           /\ handler' \in [Handlers -> [busy : BOOLEAN, rest : Seq(FeedItem)]]
           /\ writes' \in Seq(Write)
           /\ Tracks(writes', latestByAsset')
           /\ UpToDate(writes', latestByAsset', stored, lost)
<1>1. CASE writes' = queue /\ latestByAsset' = latestByAsset
  BY <1>1, RunEffect DEF FeedInv
<1>2. ASSUME NEW w \in Write, writes' = Append(queue, w),
             latestByAsset' = [latestByAsset EXCEPT ![w.asset] = w.quote]
      PROVE  /\ latestByAsset' \in [Assets -> BinQuote]
             /\ writes' \in Seq(Write)
             /\ Tracks(writes', latestByAsset')
             /\ UpToDate(writes', latestByAsset', stored, lost)
  <2>1. w.asset \in Assets /\ w.quote \in BinQuote
    BY DEF Write
  <2>2. latestByAsset \in [Assets -> BinQuote]
    BY DEF FeedInv
  <2>3. latestByAsset' \in [Assets -> BinQuote] /\ writes' \in Seq(Write)
    BY <1>2, <2>1, <2>2
  <2>4. Tracks(writes', latestByAsset')
    BY <1>2, <2>2, AppendTracks
  <2>5. UpToDate(writes', latestByAsset', stored, lost)
    <3> SUFFICES ASSUME NEW a \in Assets
                 PROVE  \/ \E i \in DOMAIN writes' : writes'[i].asset = a
                        \/ a \in lost
                        \/ stored[a].quote = latestByAsset'[a]
      BY DEF UpToDate
    <3>1. CASE a = w.asset
      <4>1. Len(queue) + 1 \in DOMAIN writes' /\ writes'[Len(queue) + 1] = w
        BY <1>2
      <4> QED
        BY <3>1, <4>1
    <3>2. CASE a # w.asset
      <4>1. latestByAsset'[a] = latestByAsset[a]
        BY <1>2, <2>2, <3>2
      <4>2. \A i \in DOMAIN queue : i \in DOMAIN writes' /\ writes'[i] = queue[i]
        BY <1>2
      <4> QED
        BY <4>1, <4>2 DEF UpToDate
    <3> QED
      BY <3>1, <3>2
  <2> QED
    BY <2>3, <2>4, <2>5
<1> QED
  BY <1>1, <1>2, RunEffect

\* Redis has executed the first write: the rest of the queue and what is now
\* stored are up to date still.
LEMMA WriteKeepsUpToDate ==
    ASSUME FollowInv, writes # <<>>,
           NEW stored, stored = [store EXCEPT ![Head(writes).asset] =
                                    [stored |-> TRUE, quote |-> Head(writes).quote]]
    PROVE  /\ Tail(writes) \in Seq(Write)
           /\ stored \in [Assets -> [stored : BOOLEAN, quote : BinQuote]]
           /\ Tracks(Tail(writes), latestByAsset)
           /\ UpToDate(Tail(writes), latestByAsset, stored, gap \ {Head(writes).asset})
<1> DEFINE w == Head(writes)
<1>1. /\ writes \in Seq(Write) /\ store \in [Assets -> [stored : BOOLEAN, quote : BinQuote]]
      /\ Tracks(writes, latestByAsset) /\ UpToDate(writes, latestByAsset, store, gap)
  BY DEF FollowInv, FeedInv
<1>2. w \in Write /\ w = writes[1] /\ 1 \in DOMAIN writes
  BY <1>1
<1>3. w.asset \in Assets /\ w.quote \in BinQuote
  BY <1>2 DEF Write
<1>4. stored \in [Assets -> [stored : BOOLEAN, quote : BinQuote]]
  BY <1>1, <1>3
<1>5. /\ Tail(writes) \in Seq(Write)
      /\ \A i \in DOMAIN writes : i # 1 => i - 1 \in DOMAIN Tail(writes)
                                          /\ Tail(writes)[i - 1] = writes[i]
  BY <1>1
<1>6. Tracks(Tail(writes), latestByAsset)
  BY <1>1, TailTracks
<1>7. ASSUME NEW a \in Assets
      PROVE  \/ \E i \in DOMAIN Tail(writes) : Tail(writes)[i].asset = a
             \/ a \in gap \ {w.asset}
             \/ stored[a].quote = latestByAsset[a]
  <2>1. CASE \E i \in DOMAIN writes : i # 1 /\ writes[i].asset = a
    BY <1>5, <2>1
  <2>2. CASE (\A i \in DOMAIN writes : i # 1 => writes[i].asset # a) /\ a = w.asset
    <3>1. \A j \in DOMAIN writes : j > 1 => writes[j].asset # writes[1].asset
      BY <1>2, <2>2
    <3>2. w.quote = latestByAsset[a]
      BY <1>1, <1>2, <2>2, <3>1 DEF Tracks
    <3>3. stored[a].quote = w.quote
      BY <1>1, <2>2
    <3> QED
      BY <3>2, <3>3
  <2>3. CASE (\A i \in DOMAIN writes : i # 1 => writes[i].asset # a) /\ a # w.asset
    <3>1. \A i \in DOMAIN writes : writes[i].asset # a
      BY <1>2, <2>3
    <3>2. stored[a] = store[a]
      BY <1>1, <2>3
    <3> QED
      BY <1>1, <2>3, <3>1, <3>2 DEF UpToDate
  <2> QED
    BY <2>1, <2>2, <2>3
<1> QED
  BY <1>4, <1>5, <1>6, <1>7 DEF UpToDate

\* FollowInv holds at first.
LEMMA InitFollows == Init => FollowInv
<1> SUFFICES ASSUME Init PROVE FollowInv
  OBVIOUS
<1>1. [stored |-> FALSE, quote |-> NoQuote] \in [stored : BOOLEAN, quote : BinQuote]
  BY NoQuoteIsBinary
<1>2. Idle \in [busy : BOOLEAN, rest : Seq(FeedItem)]
  BY DEF Idle
<1>3. FeedInv
  BY <1>1, <1>2, NoQuoteIsBinary DEF Init, FeedInv, None
<1>4. Tracks(writes, latestByAsset)
  BY DEF Init, Tracks
<1>5. UpToDate(writes, latestByAsset, store, gap)
  BY DEF Init, UpToDate, None
<1> QED
  BY <1>3, <1>4, <1>5 DEF FollowInv

\* Steps that touch neither quotes nor the queue nor the store.
LEMMA OthersFollow ==
    ASSUME FollowInv, UNCHANGED <<latestByAsset, handler, writes, store, gap>>
    PROVE  FollowInv'
BY DEF FollowInv, FeedInv, Tracks, UpToDate

\* A message keeps FollowInv.
LEMMA MessageFollows ==
    ASSUME FollowInv, NEW h \in Handlers, NEW m \in Messages, message(h, m)
    PROVE  FollowInv'
<1>1. m \in Seq(FeedItem)
  BY FeedAssumption DEF FeedItem
<1>2. FeedInv /\ writes \in Seq(Write) /\ Tracks(writes, latestByAsset)
      /\ UpToDate(writes, latestByAsset, store, gap)
      /\ store \in [Assets -> [stored : BOOLEAN, quote : BinQuote]]
  BY DEF FollowInv, FeedInv
<1>3. Run(h, m, writes) /\ store' = store /\ gap' = gap
  BY DEF message
<1>4. /\ latestByAsset' \in [Assets -> BinQuote]
      /\ handler' \in [Handlers -> [busy : BOOLEAN, rest : Seq(FeedItem)]]
      /\ writes' \in Seq(Write)
      /\ Tracks(writes', latestByAsset')
      /\ UpToDate(writes', latestByAsset', store, gap)
  BY <1>1, <1>2, <1>3, RunKeepsFollow
<1> QED
  BY <1>2, <1>3, <1>4 DEF FollowInv, FeedInv

\* A write that Redis executes keeps FollowInv.
LEMMA WrittenFollows ==
    ASSUME FollowInv, written
    PROVE  FollowInv'
<1> DEFINE w == Head(writes)
           stored == [store EXCEPT ![w.asset] = [stored |-> TRUE, quote |-> w.quote]]
<1>1. writes # <<>> /\ store' = stored /\ gap' = gap \ {w.asset}
      /\ Run(w.by, handler[w.by].rest, Tail(writes))
  BY DEF written
<1>2. FeedInv /\ w \in Write
  BY <1>1 DEF FollowInv, FeedInv
<1>3. w.by \in Handlers /\ handler[w.by].rest \in Seq(FeedItem)
  BY <1>2 DEF FeedInv, Write
<1>4. /\ Tail(writes) \in Seq(Write)
      /\ stored \in [Assets -> [stored : BOOLEAN, quote : BinQuote]]
      /\ Tracks(Tail(writes), latestByAsset)
      /\ UpToDate(Tail(writes), latestByAsset, stored, gap \ {w.asset})
  BY <1>1, WriteKeepsUpToDate
<1> HIDE DEF stored
<1>5. /\ latestByAsset' \in [Assets -> BinQuote]
      /\ handler' \in [Handlers -> [busy : BOOLEAN, rest : Seq(FeedItem)]]
      /\ writes' \in Seq(Write)
      /\ Tracks(writes', latestByAsset')
      /\ UpToDate(writes', latestByAsset', stored, gap \ {w.asset})
  BY <1>1, <1>2, <1>3, <1>4, RunKeepsFollow
<1> QED
  BY <1>1, <1>4, <1>5 DEF FollowInv, FeedInv

\* A write that was lost leaves a gap; one that got through does not.
LEMMA WriteFailsFollows ==
    ASSUME FollowInv, writeFails
    PROVE  FollowInv'
<1> DEFINE w == Head(writes)
           stored == [store EXCEPT ![w.asset] = [stored |-> TRUE, quote |-> w.quote]]
<1>1. writes # <<>> /\ writes' = Tail(writes) /\ latestByAsset' = latestByAsset
      /\ handler' = [handler EXCEPT ![w.by] = Idle]
      /\ \/ store' = stored /\ gap' = gap \ {w.asset}
         \/ store' = store /\ gap' = gap \cup {w.asset}
  BY DEF writeFails
<1>2. FeedInv /\ Tracks(writes, latestByAsset) /\ UpToDate(writes, latestByAsset, store, gap)
  BY DEF FollowInv
<1>3. /\ Tail(writes) \in Seq(Write)
      /\ stored \in [Assets -> [stored : BOOLEAN, quote : BinQuote]]
      /\ Tracks(Tail(writes), latestByAsset)
      /\ UpToDate(Tail(writes), latestByAsset, stored, gap \ {w.asset})
  BY <1>1, WriteKeepsUpToDate
<1>4. handler' \in [Handlers -> [busy : BOOLEAN, rest : Seq(FeedItem)]]
  <2>1. Idle \in [busy : BOOLEAN, rest : Seq(FeedItem)]
    BY DEF Idle
  <2> QED
    BY <1>1, <1>2, <2>1 DEF FeedInv
<1>5. UpToDate(Tail(writes), latestByAsset, store, gap \cup {w.asset})
  <2> SUFFICES ASSUME NEW a \in Assets, a \notin gap, a # w.asset,
                      store[a].quote # latestByAsset[a]
               PROVE  \E i \in DOMAIN Tail(writes) : Tail(writes)[i].asset = a
    BY DEF UpToDate
  <2>1. PICK i \in DOMAIN writes : writes[i].asset = a
    BY <1>2 DEF UpToDate
  <2>2. writes \in Seq(Write) /\ w = writes[1]
    BY <1>1, <1>2 DEF FeedInv
  <2>3. i # 1
    BY <2>1, <2>2
  <2>4. i - 1 \in DOMAIN Tail(writes) /\ Tail(writes)[i - 1] = writes[i]
    BY <2>2, <2>3
  <2> QED
    BY <2>1, <2>4
<1>6. FeedInv'
  <2>1. store' \in [Assets -> [stored : BOOLEAN, quote : BinQuote]]
    BY <1>1, <1>2, <1>3 DEF FeedInv
  <2>2. writes' \in Seq(Write)
    BY <1>1, <1>3
  <2> QED
    BY <1>1, <1>2, <1>4, <2>1, <2>2 DEF FeedInv
<1>7. Tracks(writes', latestByAsset')
  BY <1>1, <1>3
<1>8. UpToDate(writes', latestByAsset', store', gap')
  <2> HIDE DEF stored
  <2> QED
    BY <1>1, <1>3, <1>5
<1> QED
  BY <1>6, <1>7, <1>8 DEF FollowInv

\* A crash keeps FollowInv.
LEMMA CrashFollows ==
    ASSUME FollowInv, crash
    PROVE  FollowInv'
<1>1. FeedInv'
  <2>1. Idle \in [busy : BOOLEAN, rest : Seq(FeedItem)]
    BY DEF Idle
  <2> QED
    BY <2>1, NoQuoteIsBinary DEF FollowInv, FeedInv, crash
<1>2. Tracks(writes', latestByAsset')
  BY DEF crash, Tracks
<1>3. UpToDate(writes', latestByAsset', store', gap')
  BY DEF crash, UpToDate
<1> QED
  BY <1>1, <1>2, <1>3 DEF FollowInv

\* Every step keeps FollowInv.
LEMMA NextFollows == FollowInv /\ [Next]_vars => FollowInv'
<1> SUFFICES ASSUME FollowInv, [Next]_vars PROVE FollowInv'
  OBVIOUS
<1>1. CASE discoveryFails \/ open \/ close \/ reconnect \/ UNCHANGED vars
  BY <1>1, OthersFollow DEF discoveryFails, open, close, reconnect, vars, process, history
<1>2. CASE \E tokens \in SUBSET Assets : start(tokens)
  BY <1>2, OthersFollow DEF start, history
<1>3. CASE \E h \in Handlers, m \in Messages : message(h, m)
  BY <1>3, MessageFollows
<1>4. CASE written
  BY <1>4, WrittenFollows
<1>5. CASE writeFails
  BY <1>5, WriteFailsFollows
<1>6. CASE crash
  BY <1>6, CrashFollows
<1> QED
  BY <1>1, <1>2, <1>3, <1>4, <1>5, <1>6 DEF Next

\* FollowInv always holds.
LEMMA Follows == Spec => []FollowInv
BY InitFollows, NextFollows, PTL DEF Spec

\* Whatever the venue quotes, no mark that the feed remembers, writes or has
\* stored leaves [0, 1].
THEOREM MarksStayBinary == Spec => []MarksAreBinary
<1>1. FollowInv => MarksAreBinary
  <2> SUFFICES ASSUME FollowInv PROVE MarksAreBinary
    OBVIOUS
  <2>1. \A i \in DOMAIN writes : writes[i] \in Write
    BY DEF FollowInv, FeedInv
  <2>2. \A i \in DOMAIN writes : writes[i].quote.markPrice \in Mark
    BY <2>1 DEF Write, BinQuote
  <2>3. \A a \in Assets : latestByAsset[a] \in BinQuote /\ store[a].quote \in BinQuote
    BY DEF FollowInv, FeedInv
  <2>4. \A a \in Assets : latestByAsset[a].markPrice \in Mark /\ store[a].quote.markPrice \in Mark
    BY <2>3 DEF BinQuote
  <2> QED
    BY <2>2, <2>4 DEF MarksAreBinary
<1> QED
  BY <1>1, Follows, PTL

\* The snapshot that stays in Redis is the feed's last, however many handlers
\* write: unless a write is under way or was lost.
THEOREM StoreKeepsUp == Spec => []StoreFollowsFeed
<1>1. FollowInv => StoreFollowsFeed
  BY DEF FollowInv, UpToDate, StoreFollowsFeed
<1> QED
  BY <1>1, Follows, PTL

---------------------------------------------------------------------------
(* A reader of the store sees marks move smoothly: the snapshot of an asset *)
(* and its writes under way are a chain, in which each quote is what the    *)
(* policy made of the one before.  Where a write is lost, or the worker     *)
(* starts again, the first link is missing: the asset is in gap.            *)

\* The links of the chain within a queue, ...
Chained(queue) ==
    \A i, j \in DOMAIN queue :
        /\ i < j /\ queue[i].asset = queue[j].asset
        /\ \A k \in DOMAIN queue : i < k /\ k < j => queue[k].asset # queue[j].asset
        => Near(queue[i].quote, queue[j].quote)

\* ... and the link from the store to it.
Attached(queue, stored, lost) ==
    \A j \in DOMAIN queue :
        /\ queue[j].asset \notin lost
        /\ \A k \in DOMAIN queue : k < j => queue[k].asset # queue[j].asset
        => Near(stored[queue[j].asset].quote, queue[j].quote)

\* The inductive invariant.
SmoothInv == FollowInv /\ Chained(writes) /\ Attached(writes, store, gap)

\* A quote that is made from what is remembered goes on the end of the chain.
LEMMA AppendChains ==
    ASSUME NEW queue \in Seq(Write), NEW w \in Write,
           NEW latest \in [Assets -> BinQuote], Tracks(queue, latest),
           Near(latest[w.asset], w.quote), Chained(queue),
           NEW stored \in [Assets -> [stored : BOOLEAN, quote : BinQuote]], NEW lost,
           UpToDate(queue, latest, stored, lost), Attached(queue, stored, lost)
    PROVE  Chained(Append(queue, w)) /\ Attached(Append(queue, w), stored, lost)
<1> DEFINE longer == Append(queue, w)
           n == Len(queue) + 1
<1>1. /\ n \in Nat /\ DOMAIN queue = 1..(n - 1) /\ DOMAIN longer = 1..n
      /\ longer[n] = w /\ \A i \in DOMAIN queue : longer[i] = queue[i]
  OBVIOUS
<1> HIDE DEF longer, n
<1>2. Chained(longer)
  <2> SUFFICES ASSUME NEW i \in DOMAIN longer, NEW j \in DOMAIN longer,
                      i < j, longer[i].asset = longer[j].asset,
                      \A k \in DOMAIN longer : i < k /\ k < j => longer[k].asset # longer[j].asset
               PROVE  Near(longer[i].quote, longer[j].quote)
    BY DEF Chained
  <2>1. i \in DOMAIN queue /\ longer[i] = queue[i]
    BY <1>1
  <2>2. CASE j = n
    <3>1. \A k \in DOMAIN queue : k > i => queue[k].asset # queue[i].asset
      BY <1>1, <2>1, <2>2
    <3>2. queue[i].quote = latest[queue[i].asset]
      BY <2>1, <3>1 DEF Tracks
    <3> QED
      BY <1>1, <2>1, <2>2, <3>2
  <2>3. CASE j # n
    <3>1. j \in DOMAIN queue /\ longer[j] = queue[j]
      BY <1>1, <2>3
    <3>2. \A k \in DOMAIN queue : i < k /\ k < j => queue[k].asset # queue[j].asset
      BY <1>1, <3>1
    <3> QED
      BY <2>1, <3>1, <3>2 DEF Chained
  <2> QED
    BY <2>2, <2>3
<1>3. Attached(longer, stored, lost)
  <2> SUFFICES ASSUME NEW j \in DOMAIN longer, longer[j].asset \notin lost,
                      \A k \in DOMAIN longer : k < j => longer[k].asset # longer[j].asset
               PROVE  Near(stored[longer[j].asset].quote, longer[j].quote)
    BY DEF Attached
  <2>1. CASE j = n
    <3>1. \A k \in DOMAIN queue : queue[k].asset # w.asset
      BY <1>1, <2>1
    <3>2. w.asset \in Assets
      BY DEF Write
    <3>3. stored[w.asset].quote = latest[w.asset]
      BY <1>1, <2>1, <3>1, <3>2 DEF UpToDate
    <3> QED
      BY <1>1, <2>1, <3>3
  <2>2. CASE j # n
    <3>1. j \in DOMAIN queue /\ longer[j] = queue[j]
      BY <1>1, <2>2
    <3>2. \A k \in DOMAIN queue : k < j => queue[k].asset # queue[j].asset
      BY <1>1, <3>1
    <3> QED
      BY <3>1, <3>2 DEF Attached
  <2> QED
    BY <2>1, <2>2
<1> QED
  BY <1>2, <1>3 DEF longer

\* The first write leaves the chain: what follows it in its asset hangs on it,
\* if it got to the store, and on nothing, if it did not.
LEMMA TailChains ==
    ASSUME NEW queue \in Seq(Write), queue # <<>>, Chained(queue),
           NEW stored \in [Assets -> [stored : BOOLEAN, quote : BinQuote]], NEW lost,
           Attached(queue, stored, lost)
    PROVE  /\ Chained(Tail(queue))
           /\ Attached(Tail(queue), [stored EXCEPT ![Head(queue).asset] =
                                        [stored |-> TRUE, quote |-> Head(queue).quote]],
                       lost \ {Head(queue).asset})
           /\ Attached(Tail(queue), stored, lost \cup {Head(queue).asset})
<1> DEFINE rest == Tail(queue)
           w == Head(queue)
           newer == [stored EXCEPT ![w.asset] = [stored |-> TRUE, quote |-> w.quote]]
<1>1. /\ w = queue[1] /\ 1 \in DOMAIN queue
      /\ \A i \in DOMAIN rest : i \in Nat /\ i > 0 /\ i + 1 \in DOMAIN queue /\ rest[i] = queue[i + 1]
      /\ \A i \in DOMAIN queue : i \in Nat /\ i > 0
      /\ \A i \in DOMAIN queue : i # 1 => i - 1 \in DOMAIN rest /\ rest[i - 1] = queue[i]
  OBVIOUS
<1>2. ASSUME NEW i \in DOMAIN queue PROVE queue[i].asset \in Assets
  <2>1. queue[i] \in Write
    OBVIOUS
  <2> QED
    BY <2>1 DEF Write
<1>3. /\ newer[w.asset].quote = w.quote
      /\ \A a \in Assets : a # w.asset => newer[a] = stored[a]
  BY <1>1, <1>2
<1> HIDE DEF rest, w, newer
<1>4. Chained(rest)
  <2> SUFFICES ASSUME NEW i \in DOMAIN rest, NEW j \in DOMAIN rest,
                      i < j, rest[i].asset = rest[j].asset,
                      \A k \in DOMAIN rest : i < k /\ k < j => rest[k].asset # rest[j].asset
               PROVE  Near(rest[i].quote, rest[j].quote)
    BY DEF Chained
  <2>1. /\ i + 1 \in DOMAIN queue /\ j + 1 \in DOMAIN queue /\ i + 1 < j + 1
        /\ rest[i] = queue[i + 1] /\ rest[j] = queue[j + 1]
    BY <1>1
  <2>2. ASSUME NEW k \in DOMAIN queue, i + 1 < k, k < j + 1
        PROVE  queue[k].asset # queue[j + 1].asset
    <3>1. k - 1 \in DOMAIN rest /\ rest[k - 1] = queue[k] /\ i < k - 1 /\ k - 1 < j
      BY <1>1, <2>2
    <3> QED
      BY <2>1, <3>1
  <2> QED
    BY <2>1, <2>2 DEF Chained
<1>5. ASSUME NEW j \in DOMAIN rest,
             \A k \in DOMAIN rest : k < j => rest[k].asset # rest[j].asset
      PROVE  /\ rest[j].asset = w.asset => Near(w.quote, rest[j].quote)
             /\ rest[j].asset # w.asset /\ rest[j].asset \notin lost
                   => Near(stored[rest[j].asset].quote, rest[j].quote)
  <2>1. j + 1 \in DOMAIN queue /\ 1 < j + 1 /\ rest[j] = queue[j + 1]
    BY <1>1
  <2>2. ASSUME NEW k \in DOMAIN queue, 1 < k, k < j + 1
        PROVE  queue[k].asset # queue[j + 1].asset
    <3>1. k - 1 \in DOMAIN rest /\ rest[k - 1] = queue[k] /\ k - 1 < j
      BY <1>1, <2>2
    <3> QED
      BY <1>5, <2>1, <3>1
  <2>3. CASE rest[j].asset = w.asset
    BY <1>1, <2>1, <2>2, <2>3 DEF Chained
  <2>4. CASE rest[j].asset # w.asset /\ rest[j].asset \notin lost
    <3>1. \A k \in DOMAIN queue : k < j + 1 => queue[k].asset # queue[j + 1].asset
      BY <1>1, <2>1, <2>2, <2>4
    <3> QED
      BY <2>1, <2>4, <3>1 DEF Attached
  <2> QED
    BY <2>3, <2>4
<1>6. \A j \in DOMAIN rest : rest[j].asset \in Assets
  BY <1>1, <1>2
<1>7. Attached(rest, newer, lost \ {w.asset})
  <2> SUFFICES ASSUME NEW j \in DOMAIN rest, rest[j].asset \notin lost \ {w.asset},
                      \A k \in DOMAIN rest : k < j => rest[k].asset # rest[j].asset
               PROVE  Near(newer[rest[j].asset].quote, rest[j].quote)
    BY DEF Attached
  <2> QED
    BY <1>3, <1>5, <1>6
<1>8. Attached(rest, stored, lost \cup {w.asset})
  <2> SUFFICES ASSUME NEW j \in DOMAIN rest, rest[j].asset \notin lost \cup {w.asset},
                      \A k \in DOMAIN rest : k < j => rest[k].asset # rest[j].asset
               PROVE  Near(stored[rest[j].asset].quote, rest[j].quote)
    BY DEF Attached
  <2> QED
    BY <1>5
<1> QED
  BY <1>4, <1>7, <1>8 DEF rest, w, newer

\* A handler's step keeps the chain, for any queue it finds.
LEMMA RunKeepsChain ==
    ASSUME FeedInv, NEW h \in Handlers, NEW events \in Seq(FeedItem),
           NEW queue \in Seq(Write), Run(h, events, queue),
           Tracks(queue, latestByAsset), Chained(queue),
           NEW stored \in [Assets -> [stored : BOOLEAN, quote : BinQuote]], NEW lost,
           UpToDate(queue, latestByAsset, stored, lost), Attached(queue, stored, lost)
    PROVE  Chained(writes') /\ Attached(writes', stored, lost)
<1>1. CASE writes' = queue
  BY <1>1
<1>2. CASE \E w \in Write : writes' = Append(queue, w) /\ Near(latestByAsset[w.asset], w.quote)
  <2>1. latestByAsset \in [Assets -> BinQuote]
    BY DEF FeedInv
  <2>2. PICK w \in Write : writes' = Append(queue, w) /\ Near(latestByAsset[w.asset], w.quote)
    BY <1>2
  <2>3. Chained(Append(queue, w)) /\ Attached(Append(queue, w), stored, lost)
    BY <2>1, <2>2, AppendChains
  <2> QED
    BY <2>2, <2>3
<1> QED
  BY <1>1, <1>2, RunEffect

\* The chain holds at first.
LEMMA InitSmooth == Init => SmoothInv
<1> SUFFICES ASSUME Init PROVE SmoothInv
  OBVIOUS
<1>1. writes = <<>>
  BY DEF Init
<1> QED
  BY <1>1, InitFollows DEF SmoothInv, Chained, Attached

\* Every step keeps the chain.
LEMMA NextSmooth == SmoothInv /\ [Next]_vars => SmoothInv'
<1> SUFFICES ASSUME SmoothInv, [Next]_vars PROVE SmoothInv'
  OBVIOUS
<1>0. FollowInv' /\ FollowInv
  BY NextFollows DEF SmoothInv
<1>1. CASE UNCHANGED <<writes, store, gap>>
  BY <1>0, <1>1 DEF SmoothInv, Chained, Attached
<1>2. ASSUME NEW h \in Handlers, NEW m \in Messages, message(h, m)
      PROVE  SmoothInv'
  <2>1. m \in Seq(FeedItem)
    BY FeedAssumption DEF FeedItem
  <2>2. Run(h, m, writes) /\ store' = store /\ gap' = gap
    BY <1>2 DEF message
  <2>3. Chained(writes') /\ Attached(writes', store, gap)
    BY <2>1, <2>2, <1>0, RunKeepsChain DEF SmoothInv, FollowInv, FeedInv
  <2> QED
    BY <1>0, <2>2, <2>3 DEF SmoothInv
<1>3. CASE written
  <2> DEFINE w == Head(writes)
             stored == [store EXCEPT ![w.asset] = [stored |-> TRUE, quote |-> w.quote]]
             lost == gap \ {w.asset}
  <2>1. writes # <<>> /\ store' = stored /\ gap' = lost
        /\ Run(w.by, handler[w.by].rest, Tail(writes))
    BY <1>3 DEF written
  <2>2. FeedInv /\ w \in Write
    BY <1>0, <2>1 DEF FollowInv, FeedInv
  <2>3. w.by \in Handlers /\ handler[w.by].rest \in Seq(FeedItem)
    BY <2>2 DEF FeedInv, Write
  <2>4. /\ Tail(writes) \in Seq(Write)
        /\ stored \in [Assets -> [stored : BOOLEAN, quote : BinQuote]]
        /\ Tracks(Tail(writes), latestByAsset)
        /\ UpToDate(Tail(writes), latestByAsset, stored, lost)
    BY <1>0, <2>1, WriteKeepsUpToDate
  <2>5. Chained(Tail(writes)) /\ Attached(Tail(writes), stored, lost)
    BY <2>1, <2>2, TailChains DEF SmoothInv, FeedInv
  <2> HIDE DEF stored, lost
  <2>6. Chained(writes') /\ Attached(writes', stored, lost)
    BY <2>1, <2>2, <2>3, <2>4, <2>5, RunKeepsChain
  <2> QED
    BY <1>0, <2>1, <2>6 DEF SmoothInv
<1>4. CASE writeFails
  <2> DEFINE w == Head(writes)
             stored == [store EXCEPT ![w.asset] = [stored |-> TRUE, quote |-> w.quote]]
  <2>1. writes # <<>> /\ writes' = Tail(writes)
        /\ \/ store' = stored /\ gap' = gap \ {w.asset}
           \/ store' = store /\ gap' = gap \cup {w.asset}
    BY <1>4 DEF writeFails
  <2>2. /\ Chained(Tail(writes))
        /\ Attached(Tail(writes), stored, gap \ {w.asset})
        /\ Attached(Tail(writes), store, gap \cup {w.asset})
    BY <1>0, <2>1, TailChains DEF SmoothInv, FollowInv, FeedInv
  <2> HIDE DEF stored
  <2> QED
    BY <1>0, <2>1, <2>2 DEF SmoothInv
<1>5. CASE crash
  <2>1. writes' = <<>>
    BY <1>5 DEF crash
  <2> QED
    BY <1>0, <2>1 DEF SmoothInv, Chained, Attached
<1>6. CASE discoveryFails \/ open \/ close \/ reconnect
           \/ (\E tokens \in SUBSET Assets : start(tokens)) \/ UNCHANGED vars
  BY <1>1, <1>6 DEF discoveryFails, open, close, reconnect, start, vars, history
<1> QED
  BY <1>2, <1>3, <1>4, <1>5, <1>6 DEF Next

\* The first write under way is near what the store has of its asset.
LEMMA FirstIsNear ==
    ASSUME SmoothInv, writes # <<>>, NEW a \in Assets \ gap,
           NEW newer, newer = [store EXCEPT ![Head(writes).asset] =
                                  [stored |-> TRUE, quote |-> Head(writes).quote]]
    PROVE  newer[a] = store[a] \/ Near(store[a].quote, newer[a].quote)
<1>1. /\ writes \in Seq(Write) /\ Attached(writes, store, gap)
      /\ store \in [Assets -> [stored : BOOLEAN, quote : BinQuote]]
  BY DEF SmoothInv, FollowInv, FeedInv
<1>2. Head(writes) = writes[1] /\ 1 \in DOMAIN writes /\ \A k \in DOMAIN writes : ~(k < 1)
  BY <1>1
<1>3. CASE a = Head(writes).asset
  <2>1. Near(store[a].quote, Head(writes).quote)
    BY <1>1, <1>2, <1>3 DEF Attached
  <2>2. newer[a].quote = Head(writes).quote
    BY <1>1, <1>3
  <2> QED
    BY <2>1, <2>2
<1>4. CASE a # Head(writes).asset
  BY <1>1, <1>4
<1> QED
  BY <1>3, <1>4

\* A reader of the store sees the mark move by at most MaxMarkPriceJump, and
\* never disappear, except where a write was lost or the worker started again.
THEOREM StoreIsSmooth == Spec => StoreMovesSmoothly
<1> DEFINE Smooth ==
        \A a \in Assets \ gap :
            store[a].quote.markPrice # NULL =>
               /\ store'[a].quote.markPrice # NULL
               /\ store'[a].quote.markPrice - store[a].quote.markPrice
                     \in -MaxMarkPriceJump .. MaxMarkPriceJump
<1>1. SmoothInv /\ [Next]_vars => [Smooth]_store
  <2> SUFFICES ASSUME SmoothInv, [Next]_vars, store' # store PROVE Smooth
    OBVIOUS
  <2>1. written \/ writeFails
    BY DEF Next, discoveryFails, open, close, reconnect, start, message, crash, vars
  <2>2. /\ writes # <<>>
        /\ store' = [store EXCEPT ![Head(writes).asset] =
                        [stored |-> TRUE, quote |-> Head(writes).quote]]
    BY <2>1 DEF written, writeFails
  <2> SUFFICES ASSUME NEW a \in Assets \ gap, store[a].quote.markPrice # NULL
               PROVE  /\ store'[a].quote.markPrice # NULL
                      /\ store'[a].quote.markPrice - store[a].quote.markPrice
                            \in -MaxMarkPriceJump .. MaxMarkPriceJump
    OBVIOUS
  <2>3. store'[a] = store[a] \/ Near(store[a].quote, store'[a].quote)
    BY <2>2, FirstIsNear
  <2>4. store[a].quote.markPrice \in 0..One
    <3>1. store[a].quote \in BinQuote
      BY DEF SmoothInv, FollowInv, FeedInv
    <3> QED
      BY <3>1 DEF BinQuote, Mark
  <2>5. CASE store'[a] = store[a]
    BY <2>4, <2>5, PolicyAssumption
  <2>6. CASE Near(store[a].quote, store'[a].quote)
    BY <2>6 DEF Near
  <2> QED
    BY <2>3, <2>5, <2>6
<1>2. Spec => []SmoothInv
  BY InitSmooth, NextSmooth, PTL DEF Spec
<1> QED
  BY <1>1, <1>2, PTL DEF Spec, StoreMovesSmoothly

---------------------------------------------------------------------------
(* What the feed remembers of a quote is what the venue said last: what has *)
(* been heard of an asset is what is remembered, overlaid with the events   *)
(* that wait in the one handler that has some.                              *)

\* A set of naturals that is not empty has a smallest member.
LEMMA SmallestNat ==
    ASSUME NEW T, T \subseteq Nat, T # {}
    PROVE  \E x \in T : \A y \in T : x <= y
<1> DEFINE Below == {0..k : k \in T}
<1>1. Below \subseteq FiniteSubsetsOf(Nat) /\ Below # {}
  <2>1. ASSUME NEW k \in T PROVE 0..k \in FiniteSubsetsOf(Nat)
    BY FS_Interval DEF FiniteSubsetsOf
  <2> QED
    BY <2>1
<1>2. PICK b \in Below : \A c \in Below : ~(<<c, b>> \in StrictSubsetOrdering(Nat))
  <2> HIDE DEF Below
  <2> QED
    BY <1>1, FS_StrictSubsetOrderingWellFounded, WFMin
<1>3. PICK x \in T : b = 0..x
  BY <1>2
<1>4. ASSUME NEW y \in T, y < x PROVE FALSE
  <2>1. 0..y \in SUBSET Nat /\ 0..x \in SUBSET Nat /\ 0..y \subseteq 0..x /\ x \in 0..x /\ x \notin 0..y
    BY <1>4
  <2>2. <<0..y, 0..x>> \in StrictSubsetOrdering(Nat)
    BY <2>1 DEF StrictSubsetOrdering
  <2> QED
    BY <1>2, <1>3, <2>2
<1> QED
  BY <1>4

\* A set of indices that is not empty has a last one, ...
LEMMA LastExists ==
    ASSUME NEW n \in Nat, NEW S \in SUBSET (1..n), S # {}
    PROVE  Max(S) \in S /\ \A y \in S : Max(S) >= y
<1> DEFINE Bounds == {k \in Nat : \A y \in S : k >= y}
<1>1. Bounds \subseteq Nat /\ n \in Bounds
  OBVIOUS
<1> HIDE DEF Bounds
<1>2. PICK x \in Bounds : \A k \in Bounds : x <= k
  BY <1>1, SmallestNat
<1>3. x \in Nat /\ \A y \in S : x >= y
  BY <1>2 DEF Bounds
<1>4. x \in S
  <2> SUFFICES ASSUME x \notin S PROVE FALSE
    OBVIOUS
  <2>1. x # 0
    <3>1. PICK y \in S : y \in 1..n
      OBVIOUS
    <3> QED
      BY <1>3, <3>1
  <2>2. x - 1 \in Nat /\ \A y \in S : x - 1 >= y
    BY <1>3, <2>1
  <2>3. x - 1 \in Bounds
    BY <2>2 DEF Bounds
  <2> QED
    BY <1>2, <1>3, <2>3
<1> QED
  BY <1>3, <1>4 DEF Max

\* ... and only one.
LEMMA LastIs ==
    ASSUME NEW S \in SUBSET Int, NEW x \in S, \A y \in S : x >= y
    PROVE  Max(S) = x
<1>1. \A y \in S : (\A z \in S : y >= z) => y = x
  OBVIOUS
<1> QED
  BY <1>1 DEF Max

Fields == {"bestBid", "bestAsk", "lastTradePrice"}

\* The first event of an asset in a message, at i, may say a field; the rest of
\* the message is heard after it.
LEMMA LastSaidOfRest ==
    ASSUME NEW events \in Seq(FeedItem), NEW i \in DOMAIN events, NEW a, NEW before,
           NEW field \in Fields, \A j \in DOMAIN events : j < i => events[j].asset # a
    PROVE  LastSaid(events, a, field, before) =
               LastSaid(SubSeq(events, i + 1, Len(events)), a, field,
                        IF events[i].asset = a THEN Or(events[i].event[field], before) ELSE before)
<1> DEFINE n == Len(events)
           rest == SubSeq(events, i + 1, n)
           S == {j \in DOMAIN events : events[j].asset = a /\ events[j].event[field] # NULL}
           R == {j \in DOMAIN rest : rest[j].asset = a /\ rest[j].event[field] # NULL}
<1>1. /\ n \in Nat /\ i \in 1..n /\ DOMAIN events = 1..n
      /\ DOMAIN rest = 1..(n - i)
      /\ \A j \in 1..(n - i) : rest[j] = events[i + j]
  OBVIOUS
<1> HIDE DEF n, rest
<1>2. S \in SUBSET (1..n) /\ R \in SUBSET (1..(n - i)) /\ n - i \in Nat
  BY <1>1
<1>3. \A j \in R : i + j \in S /\ rest[j] = events[i + j]
  BY <1>1
<1>4. \A j \in S : j = i \/ (j > i /\ j - i \in R)
  <2> SUFFICES ASSUME NEW j \in S, j # i PROVE j > i /\ j - i \in R
    OBVIOUS
  <2>1. j \in 1..n /\ j > i
    BY <1>1
  <2>2. j - i \in 1..(n - i) /\ i + (j - i) = j
    BY <1>1, <2>1
  <2>3. rest[j - i] = events[j]
    BY <1>1, <2>2
  <2> QED
    BY <1>1, <2>1, <2>2, <2>3
<1>5. i \in S <=> events[i].asset = a /\ events[i].event[field] # NULL
  OBVIOUS
<1>6. LastSaid(events, a, field, before) = IF S = {} THEN before ELSE events[Max(S)].event[field]
  BY DEF LastSaid
<1>7. \A old : LastSaid(rest, a, field, old) = IF R = {} THEN old ELSE rest[Max(R)].event[field]
  BY DEF LastSaid
<1> HIDE DEF S, R
<1>8. CASE R # {}
  <2>1. Max(R) \in R /\ \A y \in R : Max(R) >= y
    BY <1>2, <1>8, LastExists
  <2>2. PICK r : r = Max(R)
    OBVIOUS
  <2>3. r \in R /\ r \in Nat /\ \A y \in R : r >= y
    <3>1. r \in R /\ \A y \in R : r >= y
      BY <2>1, <2>2
    <3>2. R \subseteq Nat
      BY <1>2
    <3> QED
      BY <3>1, <3>2
  <2>4. i + r \in S /\ \A y \in S : i + r >= y
    <3>1. ASSUME NEW y \in S PROVE i + r >= y
      <4>1. CASE y = i
        BY <1>1, <2>3, <4>1
      <4>2. CASE y > i /\ y - i \in R
        <5>1. r >= y - i /\ y \in Int
          BY <1>2, <2>3, <4>2
        <5> QED
          BY <1>1, <2>3, <5>1
      <4> QED
        BY <1>4, <4>1, <4>2
    <3> QED
      BY <1>3, <2>3, <3>1
  <2>5. S \in SUBSET Int
    BY <1>2
  <2>6. Max(S) = i + r
    BY <2>4, <2>5, LastIs
  <2>7. rest[r] = events[i + r]
    BY <1>3, <2>3
  <2> QED
    BY <1>6, <1>7, <1>8, <2>2, <2>4, <2>6, <2>7 DEF rest, n
<1>9. CASE R = {} /\ i \in S
  <2>1. \A y \in S : i >= y
    BY <1>1, <1>4, <1>9
  <2>2. S \in SUBSET Int
    BY <1>2
  <2>3. Max(S) = i
    BY <1>9, <2>1, <2>2, LastIs
  <2>4. LastSaid(events, a, field, before) = events[i].event[field]
    BY <1>6, <1>9, <2>3
  <2>5. Or(events[i].event[field], before) = events[i].event[field]
    BY <1>5, <1>9 DEF Or
  <2> QED
    BY <1>5, <1>7, <1>9, <2>4, <2>5 DEF rest, n
<1>10. CASE R = {} /\ i \notin S
  <2>1. S = {}
    BY <1>4, <1>10
  <2>2. (IF events[i].asset = a THEN Or(events[i].event[field], before) ELSE before) = before
    BY <1>5, <1>10 DEF Or
  <2> QED
    BY <1>6, <1>7, <1>10, <2>1, <2>2 DEF rest, n
<1> QED
  BY <1>8, <1>9, <1>10

\* What is remembered after an event, as far as it is quoted.
Quotes(quote) == [bestBid |-> quote.bestBid, bestAsk |-> quote.bestAsk,
                  lastTradePrice |-> quote.lastTradePrice]

\* The policy remembers what an event says, and what it does not say as before.
LEMMA PolicyRemembers ==
    ASSUME NEW quote, NEW event
    PROVE  LET merged == applyMarkPricePolicy(quote, event)
           IN  /\ merged.bestBid = Or(event.bestBid, quote.bestBid)
               /\ merged.bestAsk = Or(event.bestAsk, quote.bestAsk)
               /\ merged.lastTradePrice = Or(event.lastTradePrice, quote.lastTradePrice)
BY DEF applyMarkPricePolicy

\* A message is heard as its first event of an asset and the rest.
LEMMA SaidOfRest ==
    ASSUME NEW events \in Seq(FeedItem), NEW i \in DOMAIN events, NEW a, NEW quote,
           \A j \in DOMAIN events : j < i => events[j].asset # a
    PROVE  Said(events, a, Quotes(quote)) =
               Said(SubSeq(events, i + 1, Len(events)), a,
                    Quotes(IF events[i].asset = a
                           THEN applyMarkPricePolicy(quote, events[i].event) ELSE quote))
<1> DEFINE rest == SubSeq(events, i + 1, Len(events))
           next == IF events[i].asset = a
                   THEN applyMarkPricePolicy(quote, events[i].event) ELSE quote
<1>1. /\ next.bestBid = IF events[i].asset = a
                        THEN Or(events[i].event.bestBid, quote.bestBid) ELSE quote.bestBid
      /\ next.bestAsk = IF events[i].asset = a
                        THEN Or(events[i].event.bestAsk, quote.bestAsk) ELSE quote.bestAsk
      /\ next.lastTradePrice = IF events[i].asset = a
                               THEN Or(events[i].event.lastTradePrice, quote.lastTradePrice)
                               ELSE quote.lastTradePrice
  BY PolicyRemembers
<1>2. \A field \in Fields : \A before :
          LastSaid(events, a, field, before) =
             LastSaid(rest, a, field,
                      IF events[i].asset = a THEN Or(events[i].event[field], before) ELSE before)
  BY LastSaidOfRest
<1> HIDE DEF rest, next
<1>3. LastSaid(events, a, "bestBid", quote.bestBid) = LastSaid(rest, a, "bestBid", next.bestBid)
  BY <1>1, <1>2 DEF Fields
<1>4. LastSaid(events, a, "bestAsk", quote.bestAsk) = LastSaid(rest, a, "bestAsk", next.bestAsk)
  BY <1>1, <1>2 DEF Fields
<1>5. LastSaid(events, a, "lastTradePrice", quote.lastTradePrice)
         = LastSaid(rest, a, "lastTradePrice", next.lastTradePrice)
  BY <1>1, <1>2 DEF Fields
<1> QED
  BY <1>3, <1>4, <1>5 DEF Said, Quotes, rest, next

\* A message that has no event of an asset leaves what was heard of it.
LEMMA NothingSaid ==
    ASSUME NEW events, NEW a, a \notin AssetsOf(events), NEW before \in Event
    PROVE  Said(events, a, before) = before
<1>1. \A field \in Fields : \A old : LastSaid(events, a, field, old) = old
  BY DEF LastSaid, AssetsOf
<1>2. before = [bestBid |-> before.bestBid, bestAsk |-> before.bestAsk,
                lastTradePrice |-> before.lastTradePrice]
  BY DEF Event
<1> QED
  BY <1>1, <1>2 DEF Said, Fields

\* What has been heard is an event.
LEMMA SaidIsEvent ==
    ASSUME NEW events \in Seq(FeedItem), NEW a, NEW before \in Event
    PROVE  Said(events, a, before) \in Event
<1>1. ASSUME NEW field \in Fields, NEW old \in Price
      PROVE  LastSaid(events, a, field, old) \in Price
  <2> DEFINE S == {i \in DOMAIN events : events[i].asset = a /\ events[i].event[field] # NULL}
  <2>1. Len(events) \in Nat /\ S \in SUBSET (1..Len(events)) /\ DOMAIN events = 1..Len(events)
    OBVIOUS
  <2>2. LastSaid(events, a, field, old) = IF S = {} THEN old ELSE events[Max(S)].event[field]
    BY DEF LastSaid
  <2> HIDE DEF S
  <2>3. CASE S # {}
    <3>1. PICK m : m = Max(S)
      OBVIOUS
    <3>2. m \in DOMAIN events
      BY <2>1, <2>3, <3>1, LastExists
    <3>3. events[m] \in FeedItem
      BY <3>2
    <3>4. events[m].event[field] \in Price
      BY <3>3 DEF FeedItem, Event, Fields
    <3> QED
      BY <2>2, <2>3, <3>1, <3>4
  <2> QED
    BY <2>2, <2>3
<1> QED
  BY <1>1 DEF Said, Event, Fields

\* A sequence over a set is one over a larger set.
LEMMA SeqOfMore ==
    ASSUME NEW S, NEW T, S \subseteq T, NEW s \in Seq(S)
    PROVE  s \in Seq(T)
<1>1. PICK n \in Nat : s \in [1..n -> S]
  BY SeqDef
<1>2. s \in [1..n -> T]
  BY <1>1
<1> QED
  BY <1>2, SeqDef

\* What has been heard of an asset is what is remembered, overlaid with the
\* events of it that wait, all in one handler.
InOrder(a) ==
    /\ \A g, h \in Handlers : /\ a \in AssetsOf(handler[g].rest)
                              /\ a \in AssetsOf(handler[h].rest)
                              => g = h
    /\ \A h \in Handlers : a \in AssetsOf(handler[h].rest)
                              => heard[a] = Said(handler[h].rest, a, Quoted(a))
    /\ (\A h \in Handlers : a \notin AssetsOf(handler[h].rest)) => heard[a] = Quoted(a)

\* Before the feed is started, nothing is connected, subscribed to or waits.
NotStarted ==
    /\ assetMetadata = {} /\ socket = "none" /\ reconnectTimer = FALSE
    /\ \A h \in Handlers : handler[h].rest = <<>>

\* The inductive invariant.
HeardInv ==
    /\ boot \in {"discovering", "failed", "started"}
    /\ assetMetadata \subseteq Assets
    /\ socket \in {"none", "connecting", "open"}
    /\ reconnectTimer \in BOOLEAN
    /\ faults \in 0..MaxFaults
    /\ heard \in [Assets -> Event]
    /\ unordered \subseteq Assets
    /\ gap \subseteq Assets
    /\ boot # "started" => NotStarted
    /\ \A h \in Handlers : ~handler[h].busy => handler[h].rest = <<>>
    /\ \A a \in assetMetadata \ unordered : InOrder(a)
    /\ \A a \in Assets \ assetMetadata : heard[a] = NothingHeard /\ Quoted(a) = NothingHeard

FeedAll == FollowInv /\ HeardInv

\* A handler's step in detail: it is done, or it takes its first event whose
\* token is known.
LEMMA RunDetail ==
    ASSUME FeedInv, NEW h \in Handlers, NEW events \in Seq(FeedItem), NEW queue \in Seq(Write),
           Run(h, events, queue)
    PROVE  /\ \A g \in Handlers : g # h => handler'[g] = handler[g]
           /\ ~handler'[h].busy => handler'[h].rest = <<>>
           /\ \/ /\ Known(events) = {}
                 /\ handler'[h].rest = <<>> /\ latestByAsset' = latestByAsset
              \/ \E i \in Known(events) :
                    /\ \A j \in Known(events) : i <= j
                    /\ handler'[h].rest = SubSeq(events, i + 1, Len(events))
                    /\ latestByAsset' = [latestByAsset EXCEPT ![events[i].asset] =
                           applyMarkPricePolicy(latestByAsset[events[i].asset], events[i].event)]
<1>1. CASE /\ Known(events) = {}
           /\ handler' = [handler EXCEPT ![h] = Idle]
           /\ latestByAsset' = latestByAsset
  BY <1>1 DEF FeedInv, Idle
<1>2. ASSUME NEW i \in Known(events), \A j \in Known(events) : i <= j,
             handler' = [handler EXCEPT ![h] =
                            [busy |-> TRUE, rest |-> SubSeq(events, i + 1, Len(events))]],
             remember(events[i], applyMarkPricePolicy(latestByAsset[events[i].asset],
                                                      events[i].event))
      PROVE  /\ \A g \in Handlers : g # h => handler'[g] = handler[g]
             /\ handler'[h].busy /\ handler'[h].rest = SubSeq(events, i + 1, Len(events))
             /\ latestByAsset' = [latestByAsset EXCEPT ![events[i].asset] =
                    applyMarkPricePolicy(latestByAsset[events[i].asset], events[i].event)]
  BY <1>2 DEF FeedInv, remember
<1>3. CASE \E i \in Known(events) :
              /\ \A j \in Known(events) : i <= j
              /\ handler' = [handler EXCEPT ![h] =
                                [busy |-> TRUE, rest |-> SubSeq(events, i + 1, Len(events))]]
              /\ remember(events[i], applyMarkPricePolicy(latestByAsset[events[i].asset],
                                                          events[i].event))
  <2>1. PICK i \in Known(events) :
              /\ \A j \in Known(events) : i <= j
              /\ handler' = [handler EXCEPT ![h] =
                                [busy |-> TRUE, rest |-> SubSeq(events, i + 1, Len(events))]]
              /\ remember(events[i], applyMarkPricePolicy(latestByAsset[events[i].asset],
                                                          events[i].event))
    BY <1>3
  <2>2. /\ \A g \in Handlers : g # h => handler'[g] = handler[g]
        /\ handler'[h].busy /\ handler'[h].rest = SubSeq(events, i + 1, Len(events))
        /\ latestByAsset' = [latestByAsset EXCEPT ![events[i].asset] =
               applyMarkPricePolicy(latestByAsset[events[i].asset], events[i].event)]
    BY <1>2, <2>1
  <2> QED
    BY <2>1, <2>2
<1> QED
  BY <1>1, <1>3 DEF Run

\* A handler's step keeps an asset in order, if what has been heard of it is
\* what is remembered overlaid with the events the handler works on; and if
\* these have no event of it.
LEMMA RunKeepsOrder ==
    ASSUME FeedInv, NEW h \in Handlers, NEW events \in Seq(FeedItem), NEW queue \in Seq(Write),
           Run(h, events, queue), NEW a \in assetMetadata, a \in Assets,
           \/ /\ heard'[a] = Said(events, a, Quoted(a))
              /\ \A g \in Handlers : g # h => a \notin AssetsOf(handler[g].rest)
           \/ /\ a \notin AssetsOf(events) /\ a \notin AssetsOf(handler[h].rest)
              /\ heard'[a] = heard[a] /\ InOrder(a)
    PROVE  InOrder(a)'
<1> DEFINE others == \A g \in Handlers : g # h => a \notin AssetsOf(handler[g].rest)
<1>0. PICK rest : rest = handler'[h].rest
  OBVIOUS
<1>1. \A g \in Handlers : g # h => handler'[g] = handler[g]
  BY RunDetail
<1>2. Quoted(a) \in Event /\ Quoted(a) = Quotes(latestByAsset[a])
  BY DEF FeedInv, BinQuote, Event, Quoted, Quotes
<1>3. Quoted(a)' = Quotes(latestByAsset'[a])
  BY DEF Quoted, Quotes
<1>4. /\ a \in AssetsOf(rest) => a \in AssetsOf(events)
      /\ a \notin AssetsOf(events) => Quoted(a)' = Quoted(a)
      /\ Said(events, a, Quoted(a)) = Said(rest, a, Quoted(a)')
  <2>1. CASE Known(events) = {} /\ rest = <<>> /\ latestByAsset' = latestByAsset
    <3>1. a \notin AssetsOf(events) /\ a \notin AssetsOf(rest)
      BY <2>1 DEF Known, AssetsOf
    <3>2. Quoted(a)' = Quoted(a)
      BY <2>1 DEF Quoted
    <3> QED
      BY <1>2, <3>1, <3>2, NothingSaid
  <2>2. CASE \E i \in Known(events) :
                    /\ \A j \in Known(events) : i <= j
                    /\ rest = SubSeq(events, i + 1, Len(events))
                    /\ latestByAsset' = [latestByAsset EXCEPT ![events[i].asset] =
                           applyMarkPricePolicy(latestByAsset[events[i].asset], events[i].event)]
    <3>1. PICK i \in Known(events) :
                    /\ \A j \in Known(events) : i <= j
                    /\ rest = SubSeq(events, i + 1, Len(events))
                    /\ latestByAsset' = [latestByAsset EXCEPT ![events[i].asset] =
                           applyMarkPricePolicy(latestByAsset[events[i].asset], events[i].event)]
      BY <2>2
    <3>2. /\ i \in DOMAIN events
          /\ \A j \in DOMAIN events : j < i => events[j].asset # a
      <4>1. i \in DOMAIN events /\ Known(events) \subseteq Int
        BY DEF Known
      <4>2. ASSUME NEW j \in DOMAIN events, j < i, events[j].asset = a PROVE FALSE
        <5>1. j \in Known(events)
          BY <4>2 DEF Known
        <5> QED
          BY <3>1, <4>1, <4>2, <5>1
      <4> QED
        BY <4>1, <4>2
    <3>3. latestByAsset \in [Assets -> BinQuote]
      BY DEF FeedInv
    <3>4. latestByAsset'[a] = IF events[i].asset = a
                              THEN applyMarkPricePolicy(latestByAsset[a], events[i].event)
                              ELSE latestByAsset[a]
      BY <3>1, <3>3
    <3>5. Said(events, a, Quoted(a)) = Said(rest, a, Quoted(a)')
      BY <1>2, <1>3, <3>1, <3>2, <3>4, SaidOfRest
    <3>6. a \notin AssetsOf(events) => events[i].asset # a
      BY <3>2 DEF AssetsOf
    <3>7. a \notin AssetsOf(events) => Quoted(a)' = Quoted(a)
      BY <3>4, <3>6, <1>2, <1>3
    <3>8. \A k \in DOMAIN rest : i + k \in DOMAIN events /\ rest[k] = events[i + k]
      BY <3>1, <3>2
    <3>9. a \in AssetsOf(rest) => a \in AssetsOf(events)
      BY <3>8 DEF AssetsOf
    <3> QED
      BY <3>5, <3>7, <3>9
  <2> QED
    BY <1>0, <2>1, <2>2, RunDetail
<1>5. CASE heard'[a] = Said(events, a, Quoted(a)) /\ others
  <2>1. heard'[a] = Said(rest, a, Quoted(a)')
    BY <1>4, <1>5
  <2>2. \A g \in Handlers : a \in AssetsOf(handler'[g].rest) => g = h
    BY <1>1, <1>5
  <2>3. a \notin AssetsOf(rest) => heard'[a] = Quoted(a)'
    <3>1. latestByAsset' \in [Assets -> BinQuote]
      <4>1. \/ latestByAsset' = latestByAsset
            \/ \E w \in Write : latestByAsset' = [latestByAsset EXCEPT ![w.asset] = w.quote]
        BY RunEffect
      <4> QED
        BY <4>1 DEF FeedInv, Write
    <3>2. Quoted(a)' \in Event
      BY <3>1 DEF BinQuote, Event, Quoted
    <3> QED
      BY <2>1, <3>2, NothingSaid
  <2> QED
    BY <1>0, <2>1, <2>2, <2>3 DEF InOrder
<1>6. CASE /\ a \notin AssetsOf(events) /\ a \notin AssetsOf(handler[h].rest)
           /\ heard'[a] = heard[a] /\ InOrder(a)
  <2>1. a \notin AssetsOf(rest) /\ Quoted(a)' = Quoted(a)
    BY <1>4, <1>6
  <2>2. \A g \in Handlers : /\ a \in AssetsOf(handler'[g].rest) <=> a \in AssetsOf(handler[g].rest)
                            /\ a \in AssetsOf(handler[g].rest) => handler'[g] = handler[g]
    BY <1>0, <1>1, <1>6, <2>1
  <2> QED
    BY <1>6, <2>1, <2>2 DEF InOrder
<1> QED
  BY <1>5, <1>6

\* A quote that is not subscribed to is not touched by a handler's step.
LEMMA RunSparesOthers ==
    ASSUME FeedInv, NEW h \in Handlers, NEW events \in Seq(FeedItem), NEW queue \in Seq(Write),
           Run(h, events, queue), NEW a \in Assets \ assetMetadata
    PROVE  Quoted(a)' = Quoted(a)
<1>1. CASE latestByAsset' = latestByAsset
  BY <1>1 DEF Quoted
<1>2. CASE \E i \in Known(events) :
              latestByAsset' = [latestByAsset EXCEPT ![events[i].asset] =
                  applyMarkPricePolicy(latestByAsset[events[i].asset], events[i].event)]
  BY <1>2 DEF Known, FeedInv, Quoted
<1> QED
  BY <1>1, <1>2, RunDetail

\* HeardInv holds at first.
LEMMA InitHears == Init => HeardInv
<1> SUFFICES ASSUME Init PROVE HeardInv
  OBVIOUS
<1>1. NothingHeard \in Event
  BY DEF NothingHeard, Event, Price
<1>2. \A a \in Assets : heard[a] = NothingHeard /\ Quoted(a) = NothingHeard
  BY DEF Init, Quoted, NothingHeard, NoQuote
<1>3. \A h \in Handlers : handler[h].rest = <<>>
  BY DEF Init, Idle
<1>4. heard \in [Assets -> Event] /\ faults \in 0..MaxFaults
  BY <1>1, FeedAssumption DEF Init
<1>5. NotStarted
  BY <1>3 DEF Init, NotStarted
<1>6. /\ boot = "discovering" /\ assetMetadata = {} /\ socket = "none"
      /\ reconnectTimer = FALSE /\ unordered = {} /\ gap = {}
  BY DEF Init
<1> QED
  BY <1>2, <1>3, <1>4, <1>5, <1>6 DEF HeardInv

\* Steps that touch neither quotes nor handlers.
LEMMA OthersHear ==
    ASSUME FeedAll, discoveryFails \/ (\E tokens \in SUBSET Assets : start(tokens))
                    \/ open \/ close \/ reconnect \/ UNCHANGED vars
    PROVE  HeardInv'
<1>1. /\ UNCHANGED <<latestByAsset, handler, heard, unordered, gap>>
      /\ \A a \in Assets : Quoted(a)' = Quoted(a) /\ (InOrder(a) => InOrder(a)')
  <2>1. UNCHANGED <<latestByAsset, handler, heard, unordered, gap>>
    BY DEF discoveryFails, start, open, close, reconnect, vars, history
  <2> QED
    BY <2>1 DEF Quoted, InOrder
<1>2. faults' \in 0..MaxFaults
  BY FeedAssumption DEF FeedAll, HeardInv, Fault, discoveryFails, start, open, close, reconnect, vars
<1>3. CASE \E tokens \in SUBSET Assets : start(tokens)
  <2>1. PICK tokens \in SUBSET Assets : start(tokens)
    BY <1>3
  <2>2. /\ boot' = "started" /\ assetMetadata' = tokens /\ assetMetadata = {}
        /\ socket' \in {"none", "connecting"} /\ reconnectTimer' = reconnectTimer
        /\ \A h \in Handlers : handler[h].rest = <<>>
    BY <2>1 DEF start, FeedAll, HeardInv, NotStarted
  <2>3. \A a \in Assets : InOrder(a)
    BY <2>2 DEF InOrder, AssetsOf, FeedAll, HeardInv
  <2> QED
    BY <1>1, <1>2, <2>2, <2>3 DEF FeedAll, HeardInv
<1>4. CASE discoveryFails \/ open \/ close \/ reconnect \/ UNCHANGED vars
  <2>1. /\ boot' \in {"discovering", "failed", "started"} /\ assetMetadata' = assetMetadata
        /\ socket' \in {"none", "connecting", "open"} /\ reconnectTimer' \in BOOLEAN
        /\ boot' # "started" => NotStarted'
    BY <1>1, <1>4 DEF FeedAll, HeardInv, NotStarted, discoveryFails, open, close, reconnect, vars, process
  <2> QED
    BY <1>1, <1>2, <2>1 DEF FeedAll, HeardInv
<1> QED
  BY <1>3, <1>4

\* A message is heard.
LEMMA MessageHears ==
    ASSUME FeedAll, NEW h \in Handlers, NEW m \in Messages, message(h, m)
    PROVE  HeardInv'
<1>1. m \in Seq(FeedItem)
  BY FeedAssumption DEF FeedItem
<1>2. FeedInv /\ writes \in Seq(Write) /\ HeardInv
  BY DEF FeedAll, FollowInv, FeedInv
<1>3. /\ Run(h, m, writes) /\ socket = "open" /\ ~handler[h].busy
      /\ UNCHANGED <<boot, assetMetadata, socket, reconnectTimer, faults, gap>>
  BY DEF message, process
<1>4. boot = "started"
  BY <1>2, <1>3 DEF HeardInv, NotStarted
<1>5. /\ unordered' = unordered \cup (Waiting \cap AssetsOf(m))
      /\ heard' = [a \in Assets |-> IF a \in unordered' THEN NothingHeard
                                    ELSE IF a \in assetMetadata THEN Said(m, a, heard[a])
                                    ELSE heard[a]]
  BY DEF message, Hear
<1>6. NothingHeard \in Event
  BY DEF NothingHeard, Event, Price
<1>7. heard' \in [Assets -> Event]
  <2>1. \A a \in Assets : heard[a] \in Event /\ Said(m, a, heard[a]) \in Event
    BY <1>1, <1>2, SaidIsEvent DEF HeardInv
  <2> QED
    BY <1>5, <1>6, <2>1
<1>8. unordered' \subseteq Assets
  BY <1>2, <1>5 DEF HeardInv, Waiting
<1>9. \A g \in Handlers : ~handler'[g].busy => handler'[g].rest = <<>>
  BY <1>1, <1>2, <1>3, RunDetail DEF HeardInv
<1>10. ASSUME NEW a \in assetMetadata \ unordered' PROVE InOrder(a)'
  <2>1. a \in Assets /\ InOrder(a) /\ heard'[a] = Said(m, a, heard[a]) /\ heard[a] \in Event
    BY <1>2, <1>5, <1>10 DEF HeardInv
  <2>2. handler[h].rest = <<>>
    BY <1>2, <1>3 DEF HeardInv
  <2>3. CASE a \in AssetsOf(m)
    <3>1. \A g \in Handlers : a \notin AssetsOf(handler[g].rest)
      BY <1>5, <1>10, <2>3 DEF Waiting
    <3>2. heard'[a] = Said(m, a, Quoted(a))
      BY <2>1, <3>1 DEF InOrder
    <3> QED
      BY <1>1, <1>2, <1>3, <1>10, <2>1, <3>1, <3>2, RunKeepsOrder
  <2>4. CASE a \notin AssetsOf(m)
    <3>1. heard'[a] = heard[a]
      BY <2>1, <2>4, NothingSaid
    <3>2. a \notin AssetsOf(handler[h].rest)
      BY <2>2 DEF AssetsOf
    <3> QED
      BY <1>1, <1>2, <1>3, <1>10, <2>1, <2>4, <3>1, <3>2, RunKeepsOrder
  <2> QED
    BY <2>3, <2>4
<1>11. ASSUME NEW a \in Assets \ assetMetadata
       PROVE  heard'[a] = NothingHeard /\ Quoted(a)' = NothingHeard
  <2>1. Quoted(a)' = Quoted(a)
    BY <1>1, <1>2, <1>3, RunSparesOthers
  <2>2. heard'[a] \in {NothingHeard, heard[a]}
    BY <1>5
  <2> QED
    BY <1>2, <2>1, <2>2 DEF HeardInv
<1> QED
  BY <1>2, <1>3, <1>4, <1>7, <1>8, <1>9, <1>10, <1>11 DEF HeardInv

\* A write that Redis executes lets its handler go on.
LEMMA WrittenHears ==
    ASSUME FeedAll, written
    PROVE  HeardInv'
<1> DEFINE h == Head(writes).by
           events == handler[h].rest
<1>1. /\ Run(h, events, Tail(writes)) /\ writes # <<>>
      /\ gap' = gap \ {Head(writes).asset}
      /\ UNCHANGED <<boot, assetMetadata, socket, reconnectTimer, faults, heard, unordered>>
  BY DEF written, process
<1>2. FeedInv /\ HeardInv /\ writes \in Seq(Write)
  BY DEF FeedAll, FollowInv, FeedInv
<1>3. h \in Handlers /\ Tail(writes) \in Seq(Write)
  <2>1. Head(writes) \in Write
    BY <1>1, <1>2
  <2> QED
    BY <1>1, <1>2, <2>1 DEF Write
<1>4. events \in Seq(FeedItem)
  BY <1>2, <1>3 DEF FeedInv
<1> HIDE DEF h, events
<1>5. \A g \in Handlers : ~handler'[g].busy => handler'[g].rest = <<>>
  BY <1>1, <1>2, <1>3, <1>4, RunDetail DEF HeardInv
<1>6. ASSUME boot' # "started" PROVE NotStarted'
  <2>1. NotStarted
    BY <1>1, <1>2, <1>6 DEF HeardInv
  <2>2. Known(events) = {}
    BY <2>1 DEF Known, NotStarted
  <2>3. handler'[h].rest = <<>> /\ \A g \in Handlers : g # h => handler'[g] = handler[g]
    BY <1>1, <1>2, <1>3, <1>4, <2>2, RunDetail
  <2> QED
    BY <1>1, <2>1, <2>3 DEF NotStarted
<1>7. ASSUME NEW a \in assetMetadata \ unordered PROVE InOrder(a)'
  <2>1. a \in Assets /\ InOrder(a) /\ heard'[a] = heard[a]
    BY <1>1, <1>2, <1>7 DEF HeardInv
  <2>2. CASE a \in AssetsOf(events)
    <3>1. /\ heard'[a] = Said(events, a, Quoted(a))
          /\ \A g \in Handlers : g # h => a \notin AssetsOf(handler[g].rest)
      BY <1>3, <2>1, <2>2 DEF InOrder, events
    <3> QED
      BY <1>1, <1>2, <1>3, <1>4, <1>7, <2>1, <3>1, RunKeepsOrder
  <2>3. CASE a \notin AssetsOf(events)
    <3>1. a \notin AssetsOf(handler[h].rest)
      BY <2>3 DEF events
    <3> QED
      BY <1>1, <1>2, <1>3, <1>4, <1>7, <2>1, <2>3, <3>1, RunKeepsOrder
  <2> QED
    BY <2>2, <2>3
<1>8. ASSUME NEW a \in Assets \ assetMetadata
      PROVE  heard'[a] = NothingHeard /\ Quoted(a)' = NothingHeard
  <2>1. Quoted(a)' = Quoted(a)
    BY <1>1, <1>2, <1>3, <1>4, RunSparesOthers
  <2> QED
    BY <1>1, <1>2, <2>1 DEF HeardInv
<1> QED
  BY <1>1, <1>2, <1>5, <1>6, <1>7, <1>8 DEF HeardInv

\* A write that fails drops the rest of its handler's message.
LEMMA WriteFailsHears ==
    ASSUME FeedAll, writeFails
    PROVE  HeardInv'
<1> DEFINE h == Head(writes).by
<1>1. /\ writes # <<>> /\ handler' = [handler EXCEPT ![h] = Idle]
      /\ unordered' = unordered \cup AssetsOf(handler[h].rest)
      /\ gap' \in {gap \ {Head(writes).asset}, gap \cup {Head(writes).asset}}
      /\ heard' = [a \in Assets |-> IF a \in unordered' THEN NothingHeard ELSE heard[a]]
      /\ faults < MaxFaults /\ faults' = faults + 1
      /\ UNCHANGED <<boot, assetMetadata, socket, reconnectTimer, latestByAsset>>
  BY DEF writeFails, Fault, process
<1>2. FeedInv /\ HeardInv
  BY DEF FeedAll, FollowInv
<1>3. h \in Handlers /\ Head(writes).asset \in Assets
  <2>1. Head(writes) \in Write
    BY <1>1, <1>2 DEF FeedInv
  <2> QED
    BY <2>1 DEF Write
<1> HIDE DEF h
<1>4. /\ handler'[h].rest = <<>> /\ ~handler'[h].busy
      /\ \A g \in Handlers : g # h => handler'[g] = handler[g]
  BY <1>1, <1>2, <1>3 DEF FeedInv, Idle
<1>5. NothingHeard \in Event
  BY DEF NothingHeard, Event, Price
<1>6. heard' \in [Assets -> Event] /\ faults' \in 0..MaxFaults
  BY <1>1, <1>2, <1>5, FeedAssumption DEF HeardInv
<1>7. unordered' \subseteq Assets /\ gap' \subseteq Assets
  <2>1. handler[h].rest \in Seq(FeedItem)
    BY <1>2, <1>3 DEF FeedInv
  <2>2. \A i \in DOMAIN handler[h].rest : handler[h].rest[i] \in FeedItem
    BY <2>1
  <2>3. AssetsOf(handler[h].rest) \subseteq Assets
    BY <2>2 DEF AssetsOf, FeedItem
  <2> QED
    BY <1>1, <1>2, <1>3, <2>3 DEF HeardInv
<1>8. boot' # "started" => NotStarted'
  BY <1>1, <1>2, <1>4 DEF HeardInv, NotStarted
<1>9. ASSUME NEW a \in assetMetadata \ unordered' PROVE InOrder(a)'
  <2>1. a \in Assets /\ InOrder(a) /\ heard'[a] = heard[a] /\ a \notin AssetsOf(handler[h].rest)
    BY <1>1, <1>2, <1>9 DEF HeardInv
  <2>2. a \notin AssetsOf(handler'[h].rest) /\ Quoted(a)' = Quoted(a)
    BY <1>1, <1>4 DEF AssetsOf, Quoted
  <2>3. \A g \in Handlers : /\ a \in AssetsOf(handler'[g].rest) <=> a \in AssetsOf(handler[g].rest)
                            /\ a \in AssetsOf(handler[g].rest) => handler'[g] = handler[g]
    BY <1>4, <2>1, <2>2
  <2> QED
    BY <2>1, <2>2, <2>3 DEF InOrder
<1>10. ASSUME NEW a \in Assets \ assetMetadata
       PROVE  heard'[a] = NothingHeard /\ Quoted(a)' = NothingHeard
  <2>1. Quoted(a)' = Quoted(a)
    BY <1>1 DEF Quoted
  <2> QED
    BY <1>1, <1>2, <2>1 DEF HeardInv
<1>11. \A g \in Handlers : ~handler'[g].busy => handler'[g].rest = <<>>
  BY <1>2, <1>4 DEF HeardInv
<1> QED
  BY <1>1, <1>2, <1>6, <1>7, <1>8, <1>9, <1>10, <1>11 DEF HeardInv

\* A crash forgets everything.
LEMMA CrashHears ==
    ASSUME FeedAll, crash
    PROVE  HeardInv'
<1>1. /\ boot' = "discovering" /\ assetMetadata' = {} /\ socket' = "none"
      /\ reconnectTimer' = FALSE /\ latestByAsset' = [a \in Assets |-> NoQuote]
      /\ handler' = [h \in Handlers |-> Idle]
      /\ heard' = [a \in Assets |-> NothingHeard] /\ unordered' = {} /\ gap' = Assets
      /\ faults < MaxFaults /\ faults' = faults + 1
  BY DEF crash, Fault
<1>2. NothingHeard \in Event
  BY DEF NothingHeard, Event, Price
<1>3. heard' \in [Assets -> Event] /\ faults' \in 0..MaxFaults
  BY <1>1, <1>2, FeedAssumption DEF FeedAll, HeardInv
<1>4. \A h \in Handlers : handler'[h].rest = <<>>
  BY <1>1 DEF Idle
<1>5. NotStarted'
  BY <1>1, <1>4 DEF NotStarted
<1>6. \A a \in Assets : heard'[a] = NothingHeard /\ Quoted(a)' = NothingHeard
  BY <1>1 DEF Quoted, NothingHeard, NoQuote
<1> QED
  BY <1>1, <1>3, <1>4, <1>5, <1>6 DEF HeardInv

\* Every step keeps what is heard in order.
LEMMA NextHears == FeedAll /\ [Next]_vars => FeedAll'
<1> SUFFICES ASSUME FeedAll, [Next]_vars PROVE FeedAll'
  OBVIOUS
<1>1. FollowInv'
  BY NextFollows DEF FeedAll
<1>2. HeardInv'
  BY OthersHear, MessageHears, WrittenHears, WriteFailsHears, CrashHears DEF Next
<1> QED
  BY <1>1, <1>2 DEF FeedAll

\* What is heard is in order always.
LEMMA AllHeard == Spec => []FeedAll
<1>1. Init => FeedAll
  BY InitFollows, InitHears DEF FeedAll
<1> QED
  BY <1>1, NextHears, PTL DEF Spec

\* The feed's variables are well typed, for any assets, messages and failures.
THEOREM FeedTypes == Spec => []TypeOK
<1>1. FeedAll => TypeOK
  <2> SUFFICES ASSUME FeedAll PROVE TypeOK
    OBVIOUS
  <2>1. Mark \subseteq Price
    BY PolicyAssumption DEF Mark, Price
  <2>2. BinQuote \subseteq Latest
    BY <2>1 DEF BinQuote, Latest
  <2>3. writes \in Seq([asset : Assets, by : Handlers, quote : Latest])
    <3>1. Write \subseteq [asset : Assets, by : Handlers, quote : Latest]
      BY <2>2 DEF Write
    <3>2. writes \in Seq(Write)
      BY DEF FeedAll, FollowInv, FeedInv
    <3> QED
      BY <3>1, <3>2, SeqOfMore
  <2>4. latestByAsset \in [Assets -> Latest] /\ store \in [Assets -> [stored : BOOLEAN, quote : Latest]]
    BY <2>2 DEF FeedAll, FollowInv, FeedInv
  <2>5. handler \in [Handlers -> [busy : BOOLEAN, rest : Seq([asset : Assets, event : Event])]]
    BY DEF FeedAll, FollowInv, FeedInv, FeedItem
  <2> QED
    BY <2>3, <2>4, <2>5 DEF TypeOK, FeedAll, HeardInv
<1> QED
  BY <1>1, AllHeard, PTL

\* The feed remembers the fields of a quote that arrived last, unless events
\* waiting in a message of several were overtaken or lost with it.
THEOREM LastIsHeard == Spec => []LatestIsLastHeard
<1>1. FeedAll => LatestIsLastHeard
  <2> SUFFICES ASSUME FeedAll, NEW a \in Assets \ (unordered \cup Waiting)
               PROVE  Quoted(a) = heard[a]
    BY DEF LatestIsLastHeard
  <2>1. CASE a \in assetMetadata
    <3>1. \A h \in Handlers : a \notin AssetsOf(handler[h].rest)
      BY <2>1 DEF Waiting
    <3>2. InOrder(a)
      BY <2>1 DEF FeedAll, HeardInv
    <3> QED
      BY <3>1, <3>2 DEF InOrder
  <2>2. CASE a \notin assetMetadata
    BY <2>2 DEF FeedAll, HeardInv
  <2> QED
    BY <2>1, <2>2
<1> QED
  BY <1>1, AllHeard, PTL
=============================================================================
