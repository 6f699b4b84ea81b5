----------------------------- MODULE PriceFeed -----------------------------
(***************************************************************************)
(* The price feed of the worker process, from market discovery at start-up  *)
(* to the snapshots in Redis: packages/engine/src/prices and the bootstrap  *)
(* in packages/engine/src/worker.ts.                                        *)
(*                                                                         *)
(* A message of the venue carries one or several events.  Its handler works *)
(* on them one after the other and awaits the store after each; while it    *)
(* waits, handlers of later messages run.  A handler is thus what is left   *)
(* of its message, and a write under way that it waits for.  Writes leave   *)
(* on one Redis connection, which keeps their order.                        *)
(***************************************************************************)
EXTENDS MarkPricePolicy, Sequences, SequencesExt, FiniteSets

CONSTANTS
    Assets,      \* outcome token ids
    Handlers,    \* bound: messages being worked on at the same time
    Messages,    \* bound: what the venue may send, sequences of [asset, event]
    MaxFaults    \* bound: dropped sockets, failed writes, crashes

ASSUME FeedAssumption ==
    /\ MaxFaults \in Nat
    /\ Messages \subseteq Seq([asset : Assets, event : Event])

VARIABLES
    boot,            \* the worker: looking for markets, without any, or past that
    assetMetadata,   \* the assets it has subscribed to
    socket,
    reconnectTimer,  \* whether a reconnect is scheduled
    latestByAsset,
    handler,         \* handler -> what is left of its message
    writes,          \* the writes under way, first to reach Redis first
    store,           \* the current snapshots in Redis
    faults,
    \* What the properties speak about; the program has no such variables.
    heard,           \* the fields last quoted, in the order of arrival
    unordered,       \* assets of which an event was overtaken or lost
    gap              \* assets whose stored mark is not the one before the next

process == <<boot, assetMetadata, socket, reconnectTimer>>
history == <<heard, unordered, gap>>
vars == <<process, latestByAsset, handler, writes, store, faults, history>>

Idle == [busy |-> FALSE, rest |-> <<>>]
None == [stored |-> FALSE, quote |-> NoQuote]

Quoted(a) == [bestBid |-> latestByAsset[a].bestBid, bestAsk |-> latestByAsset[a].bestAsk,
              lastTradePrice |-> latestByAsset[a].lastTradePrice]
NothingHeard == [bestBid |-> NULL, bestAsk |-> NULL, lastTradePrice |-> NULL]

Init ==
    /\ boot = "discovering"
    /\ assetMetadata = {}
    /\ socket = "none"
    /\ reconnectTimer = FALSE
    /\ latestByAsset = [a \in Assets |-> NoQuote]
    /\ handler = [h \in Handlers |-> Idle]
    /\ writes = <<>>
    /\ store = [a \in Assets |-> None]
    /\ faults = 0
    /\ heard = [a \in Assets |-> NothingHeard]
    /\ unordered = {}
    /\ gap = {}

Fault ==
    /\ faults < MaxFaults
    /\ faults' = faults + 1

---------------------------------------------------------------------------
(* Start-up and the connection.                                            *)

\* listMarkets rejects: the error is logged, and that is all.
discoveryFails ==
    /\ boot = "discovering"
    /\ boot' = "failed"
    /\ Fault
    /\ UNCHANGED <<assetMetadata, socket, reconnectTimer, latestByAsset, handler, writes,
                   store, history>>

\* listMarkets answers: the feed is created for the tokens of its markets and
\* started.  Without any token connect does nothing.
start(tokens) ==
    /\ boot = "discovering"
    /\ boot' = "started"
    /\ assetMetadata' = tokens
    /\ socket' = IF tokens = {} THEN "none" ELSE "connecting"
    /\ UNCHANGED <<reconnectTimer, latestByAsset, handler, writes, store, faults, history>>

\* The "open" listener subscribes to all tokens.
open ==
    /\ socket = "connecting"
    /\ socket' = "open"
    /\ UNCHANGED <<boot, assetMetadata, reconnectTimer, latestByAsset, handler, writes,
                   store, faults, history>>

\* Mutant: only a connection that had been open is replaced.
closeOfOpenReconnects ==
    /\ socket \in {"connecting", "open"}
    /\ socket' = "none"
    /\ reconnectTimer' = (socket = "open")
    /\ Fault
    /\ UNCHANGED <<boot, assetMetadata, latestByAsset, handler, writes, store, history>>

\* The "close" listener, after a connection or an attempt at one:
\* scheduleReconnect.  Handlers of messages that have arrived go on.
close ==
    /\ socket \in {"connecting", "open"}
    /\ socket' = "none"
    /\ reconnectTimer' = TRUE
    /\ Fault
    /\ UNCHANGED <<boot, assetMetadata, latestByAsset, handler, writes, store, history>>

\* The timer of scheduleReconnect: connect.
reconnect ==
    /\ reconnectTimer
    /\ reconnectTimer' = FALSE
    /\ socket' = "connecting"
    /\ UNCHANGED <<boot, assetMetadata, latestByAsset, handler, writes, store, faults, history>>

---------------------------------------------------------------------------
(* Messages.                                                               *)

\* Mutant: the event is remembered instead of the merged quote.
rememberEvent(e, merged) == latestByAsset' = [latestByAsset EXCEPT ![e.asset] = e.event]

\* latestByAsset.set
remember(e, merged) == latestByAsset' = [latestByAsset EXCEPT ![e.asset] = merged]

\* Mutant: the store is given the event as it came.
setSnapshotOfEvent(h, e, merged, queue) ==
    writes' = Append(queue, [asset |-> e.asset, by |-> h,
                             quote |-> e.event @@ [markPrice |-> merged.markPrice]])

\* marketPriceStore.setSnapshot: one MULTI on the connection.
setSnapshot(h, e, merged, queue) ==
    writes' = Append(queue, [asset |-> e.asset, by |-> h, quote |-> merged])

Known(events) == {i \in DOMAIN events : events[i].asset \in assetMetadata}

\* Mutant: the events of a message are taken from its end.
RunLastFirst(h, events, queue) ==
    \/ /\ Known(events) = {}
       /\ handler' = [handler EXCEPT ![h] = Idle]
       /\ writes' = queue
       /\ UNCHANGED latestByAsset
    \/ \E i \in Known(events) :
          LET e      == events[i]
              merged == applyMarkPricePolicy(latestByAsset[e.asset], e.event)
          IN  /\ \A j \in Known(events) : j <= i
              /\ handler' = [handler EXCEPT ![h] = [busy |-> TRUE, rest |-> SubSeq(events, 1, i - 1)]]
              /\ remember(e, merged)
              /\ setSnapshot(h, e, merged, queue)

\* A handler runs until its next await: it works on the first of its events
\* whose token it knows, or it is done.
Run(h, events, queue) ==
    \/ /\ Known(events) = {}
       /\ handler' = [handler EXCEPT ![h] = Idle]
       /\ writes' = queue
       /\ UNCHANGED latestByAsset
    \/ \E i \in Known(events) :
          LET e      == events[i]
              merged == applyMarkPricePolicy(latestByAsset[e.asset], e.event)
          IN  /\ \A j \in Known(events) : i <= j
              /\ handler' = [handler EXCEPT ![h] =
                                [busy |-> TRUE, rest |-> SubSeq(events, i + 1, Len(events))]]
              /\ remember(e, merged)
              /\ setSnapshot(h, e, merged, queue)

AssetsOf(events) == {events[i].asset : i \in DOMAIN events}

Waiting == assetMetadata \cap UNION {AssetsOf(handler[h].rest) : h \in Handlers}

\* What a message leaves of a field quoted before: the last of its events of the
\* asset that says the field, if any does.
LastSaid(events, a, field, before) ==
    LET saying == {i \in DOMAIN events : events[i].asset = a /\ events[i].event[field] # NULL}
    IN  IF saying = {} THEN before ELSE events[Max(saying)].event[field]

Said(events, a, before) ==
    [bestBid |-> LastSaid(events, a, "bestBid", before.bestBid),
     bestAsk |-> LastSaid(events, a, "bestAsk", before.bestAsk),
     lastTradePrice |-> LastSaid(events, a, "lastTradePrice", before.lastTradePrice)]

Hear(events) ==
    /\ unordered' = unordered \cup (Waiting \cap AssetsOf(events))
    /\ heard' = [a \in Assets |->
                    IF a \in unordered' THEN NothingHeard
                    ELSE IF a \in assetMetadata THEN Said(events, a, heard[a])
                    ELSE heard[a]]

\* The "message" listener.
message(h, m) ==
    /\ socket = "open"
    /\ ~handler[h].busy
    /\ Known(m) # {}
    /\ Run(h, m, writes)
    /\ Hear(m)
    /\ UNCHANGED <<process, store, faults, gap>>

\* Redis executes the first of the writes and answers; its handler goes on.
written ==
    /\ writes # <<>>
    /\ LET w == Head(writes)
       IN  /\ store' = [store EXCEPT ![w.asset] = [stored |-> TRUE, quote |-> w.quote]]
           /\ gap' = gap \ {w.asset}
           /\ Run(w.by, handler[w.by].rest, Tail(writes))
    /\ UNCHANGED <<process, faults, heard, unordered>>

\* The connection is lost before or after Redis has executed the first of the
\* writes: its promise rejects, and the handler drops the rest of its message.
writeFails ==
    /\ writes # <<>>
    /\ LET w == Head(writes)
       IN  /\ writes' = Tail(writes)
           /\ handler' = [handler EXCEPT ![w.by] = Idle]
           /\ unordered' = unordered \cup AssetsOf(handler[w.by].rest)
           /\ \/ /\ store' = [store EXCEPT ![w.asset] = [stored |-> TRUE, quote |-> w.quote]]
                 /\ gap' = gap \ {w.asset}
              \/ /\ gap' = gap \cup {w.asset}
                 /\ UNCHANGED store
    /\ heard' = [a \in Assets |-> IF a \in unordered' THEN NothingHeard ELSE heard[a]]
    /\ Fault
    /\ UNCHANGED <<process, latestByAsset>>

\* The worker dies and is started again: all it remembers of the quotes is lost.
crash ==
    /\ boot' = "discovering"
    /\ assetMetadata' = {}
    /\ socket' = "none"
    /\ reconnectTimer' = FALSE
    /\ latestByAsset' = [a \in Assets |-> NoQuote]
    /\ handler' = [h \in Handlers |-> Idle]
    /\ writes' = <<>>
    /\ heard' = [a \in Assets |-> NothingHeard]
    /\ unordered' = {}
    /\ gap' = Assets
    /\ Fault
    /\ UNCHANGED store

Next ==
    \/ discoveryFails
    \/ \E tokens \in SUBSET Assets : start(tokens)
    \/ open \/ close \/ reconnect
    \/ \E h \in Handlers, m \in Messages : message(h, m)
    \/ written \/ writeFails
    \/ crash

Spec == Init /\ [][Next]_vars

\* Discovery and connection attempts return, the timer fires, Redis answers.
FairSpec ==
    /\ Spec
    /\ WF_vars(discoveryFails \/ \E tokens \in SUBSET Assets : start(tokens))
    /\ WF_vars(open)
    /\ WF_vars(reconnect)
    /\ WF_vars(written)

---------------------------------------------------------------------------
(* Properties.                                                             *)

TypeOK ==
    /\ boot \in {"discovering", "failed", "started"}
    /\ assetMetadata \subseteq Assets
    /\ socket \in {"none", "connecting", "open"}
    /\ reconnectTimer \in BOOLEAN
    /\ latestByAsset \in [Assets -> Latest]
    /\ handler \in [Handlers -> [busy : BOOLEAN, rest : Seq([asset : Assets, event : Event])]]
    /\ writes \in Seq([asset : Assets, by : Handlers, quote : Latest])
    /\ store \in [Assets -> [stored : BOOLEAN, quote : Latest]]
    /\ faults \in 0..MaxFaults
    /\ heard \in [Assets -> Event]
    /\ unordered \subseteq Assets
    /\ gap \subseteq Assets

Mark == 0..One \cup {NULL}

\* Whatever the venue quotes, prices below 0 and above 1 included, no mark
\* that the feed remembers, writes or has stored leaves [0, 1].
MarksAreBinary ==
    /\ \A a \in Assets : latestByAsset[a].markPrice \in Mark
    /\ \A i \in DOMAIN writes : writes[i].quote.markPrice \in Mark
    /\ \A a \in Assets : store[a].quote.markPrice \in Mark

\* With several handlers writing, the snapshot that stays in Redis is the
\* last one of the feed: an asset without a write under way, and whose last
\* write has not been lost, is stored as the feed remembers it.
StoreFollowsFeed ==
    \A a \in Assets :
        \/ \E i \in DOMAIN writes : writes[i].asset = a
        \/ a \in gap
        \/ store[a].quote = latestByAsset[a]

\* The feed remembers the fields of a quote that arrived last, unless events
\* waiting in a message of several were overtaken or lost with it: handlers
\* that overlap reorder nothing else.
LatestIsLastHeard ==
    \A a \in Assets \ (unordered \cup Waiting) : Quoted(a) = heard[a]

\* A reader of the store sees the mark move by at most MaxMarkPriceJump, and
\* never disappear, except where a write was lost or the worker started again.
StoreMovesSmoothly ==
    [][\A a \in Assets \ gap :
          store[a].quote.markPrice # NULL =>
             /\ store'[a].quote.markPrice # NULL
             /\ store'[a].quote.markPrice - store[a].quote.markPrice
                   \in -MaxMarkPriceJump .. MaxMarkPriceJump]_store

\* The feed always connects again, unless discovery failed when the worker
\* started or found no token: then it stays down until the next restart.
FeedComesBack ==
    \/ []<>(socket = "open")
    \/ <>[](boot = "failed")
    \/ <>[](boot = "started" /\ assetMetadata = {})

\* What a quote on its own says the mark should be.
Target(event) == rawMarkPrice(NoQuote, event, calculateMidpoint(event.bestBid, event.bestAsk))

Says(a, event) ==
    \E h \in Handlers, m \in Messages :
        /\ a \in assetMetadata /\ message(h, m)
        /\ \E i \in DOMAIN m : m[i].asset = a
        /\ \A i \in DOMAIN m : m[i].asset = a => m[i].event = event

SaysOther(a, event) ==
    \E h \in Handlers, m \in Messages :
        /\ message(h, m)
        /\ \E i \in DOMAIN m : m[i].asset = a /\ m[i].event # event

\* A move that lasts is followed, in steps: when the venue goes on quoting one
\* usable price for an asset and nothing else, the stored mark gets there.
MarkFollowsLastingMove ==
    \A a \in Assets, event \in {e.event : e \in UNION {Range(m) : m \in Messages}} :
        /\ Target(event) # NULL
        /\ []<><<Says(a, event)>>_vars
        /\ <>[][~SaysOther(a, event)]_vars
        => <>[](store[a].quote.markPrice = Target(event))
=============================================================================
