----------------------------- MODULE HedgeLoop -----------------------------
(***************************************************************************)
(* Exposure snapshots and the hedge worker (engine/src/services/exposure-  *)
(* service.ts, hedge-execution-service.ts, polymarket-hedge-client.ts and  *)
(* workers/hedge-worker.ts).  A timer starts a cycle, whether or not the   *)
(* last one has ended: the cycle reads the exposure once, decides which    *)
(* markets to hedge, and works through them with awaits in between, while  *)
(* users go on trading.                                                    *)
(***************************************************************************)
EXTENDS Integers, Sequences, FiniteSets

CONSTANTS
    NumMarkets,     \* markets are 1..NumMarkets, the order of their ids
    NumOutcomes,    \* outcomes are 1..NumOutcomes, likewise
    MarketOf,       \* MarketOf[o]: the market of outcome o
    Tokens,         \* the outcomes with a token; positions may have none
    MaxNotional,    \* bound: notional of one side of an outcome
    MinNet,         \* minNetNotional
    MinRatio,       \* minImbalanceRatio, in percent
    MaxHedge,       \* maxHedgeNotional
    Cycles,         \* cycles that may be under way at once
    Replies,        \* what the venue may answer
    MaxTrades,      \* bound: changes of the exposure in a behaviour
    MaxOrders,      \* bound: no cycle creates an order once there are so many
    MaxFaults       \* bound: failures of the environment in a behaviour

Markets  == 1..NumMarkets
Outcomes == 1..NumOutcomes
Sides    == {"LONG", "SHORT"}
Statuses == {"PENDING", "SUBMITTED", "PARTIALLY_FILLED", "FILLED", "FAILED"}

ASSUME HedgeAssumption ==
    /\ NumMarkets \in Nat \ {0}
    /\ NumOutcomes \in Nat /\ MarketOf \in [Outcomes -> Markets]
    /\ Tokens \subseteq Outcomes
    /\ MinNet \in Nat /\ MinRatio \in 0..100 /\ MaxHedge \in Nat \ {0}
    /\ IsFiniteSet(Cycles)
    /\ Replies \subseteq (Statuses \ {"PENDING"}) \cup {"OTHER"}
    /\ {MaxNotional, MaxTrades, MaxOrders, MaxFaults} \subseteq Nat

VARIABLES
    exposure,   \* exposure[o][side]: notional of the active positions
    orders,     \* the HedgeOrder rows, in order of creation
    cycle,      \* cycle[c]: where a cycle stands and what it holds
    resting,    \* resting[o]: how many orders of outcome o rest at the venue
    trades, faults

vars == <<exposure, orders, cycle, resting, trades, faults>>

\* Mutant: a filled order counts as open.
openWithFilled == {"PENDING", "SUBMITTED", "PARTIALLY_FILLED", "FILLED"}

OPEN_HEDGE_STATUSES == {"PENDING", "SUBMITTED", "PARTIALLY_FILLED"}

Idle == [pc |-> "idle", todo |-> <<>>, order |-> 0, result |-> "FAILED"]

\* The worker starts on a database with any positions and no hedge orders.
Init ==
    /\ exposure \in [Outcomes -> [Sides -> 0..MaxNotional]]
    /\ orders = <<>>
    /\ cycle = [c \in Cycles |-> Idle]
    /\ resting = [o \in Outcomes |-> 0]
    /\ trades = 0 /\ faults = 0

---------------------------------------------------------------------------
(* Exposure, and the decision what to hedge.                               *)

Opposite(side) == IF side = "LONG" THEN "SHORT" ELSE "LONG"

\* The net notional of an outcome on one side, zero if the other outweighs it.
outcomeNet(o, side) ==
    IF exposure[o][side] > exposure[o][Opposite(side)]
    THEN exposure[o][side] - exposure[o][Opposite(side)] ELSE 0

\* The notional of a market on one side, summed over its outcomes up to each.
notionalUpTo(m, side) ==
    LET upTo[o \in 0..NumOutcomes] ==
            IF o = 0 THEN 0
            ELSE upTo[o - 1] + (IF MarketOf[o] = m THEN exposure[o][side] ELSE 0)
    IN  upTo

marketNotional(m, side) == notionalUpTo(m, side)[NumOutcomes]

netNotional(m)   == marketNotional(m, "LONG") - marketNotional(m, "SHORT")
grossNotional(m) == marketNotional(m, "LONG") + marketNotional(m, "SHORT")

absoluteNetNotional(m) == IF netNotional(m) >= 0 THEN netNotional(m) ELSE -netNotional(m)

Breaches(m) ==
    /\ absoluteNetNotional(m) >= MinNet
    /\ absoluteNetNotional(m) * 100 >= MinRatio * grossNotional(m)
    /\ netNotional(m) # 0

targetSideForExposure(m) == IF netNotional(m) > 0 THEN "SHORT" ELSE "LONG"

\* Mutant: an outcome on the hedge's own side is looked for.
hedgeableOnSameSide(m, side) ==
    {o \in Tokens : MarketOf[o] = m /\ outcomeNet(o, side) > 0}

\* The outcomes with a token that a hedge on this side would reduce.
hedgeableOutcomes(m, side) ==
    {o \in Tokens : MarketOf[o] = m /\ outcomeNet(o, Opposite(side)) > 0}

\* The one with the largest net notional, the first of them in a tie.
selectOutcomeForExposure(m, side) ==
    CHOOSE o \in hedgeableOutcomes(m, side) :
        \A other \in hedgeableOutcomes(m, side) :
            \/ outcomeNet(o, Opposite(side)) > outcomeNet(other, Opposite(side))
            \/ /\ outcomeNet(o, Opposite(side)) = outcomeNet(other, Opposite(side))
               /\ o <= other

\* Mutant: the order is not capped.
targetWithoutCap(m) == absoluteNetNotional(m)

targetNotionalForExposure(m) ==
    IF absoluteNetNotional(m) > MaxHedge THEN MaxHedge ELSE absoluteNetNotional(m)

Hedgeable(m) ==
    Breaches(m) /\ hedgeableOutcomes(m, targetSideForExposure(m)) # {}

candidate(m) ==
    LET side == targetSideForExposure(m)
    IN  [outcome |-> selectOutcomeForExposure(m, side), side |-> side,
         target |-> targetNotionalForExposure(m)]

\* One candidate per market that breaches its thresholds.
buildHedgeCandidates == [m \in {k \in Markets : Hedgeable(k)} |-> candidate(m)]

---------------------------------------------------------------------------
(* A cycle.                                                                *)

At(c, pc) == cycle[c].pc = pc

Advance(c, x) == cycle' = [cycle EXCEPT ![c] = x]

GoTo(c, pc) == Advance(c, [cycle[c] EXCEPT !.pc = pc])

\* The markets of the snapshot that are left, in the order of their ids.
Market(c) == CHOOSE m \in DOMAIN cycle[c].todo : \A k \in DOMAIN cycle[c].todo : m <= k

Candidate(c) == cycle[c].todo[Market(c)]

\* The loop turns to the next candidate, or the cycle ends.
NextCandidate(c) ==
    LET rest == [m \in DOMAIN cycle[c].todo \ {Market(c)} |-> cycle[c].todo[m]]
    IN  Advance(c, [Idle EXCEPT !.pc = IF rest = <<>> THEN "idle" ELSE "find", !.todo = rest])

Fault ==
    /\ faults < MaxFaults
    /\ faults' = faults + 1

\* The timer fires: the snapshot is read and the candidates are built.
startCycle(c) ==
    /\ At(c, "idle")
    /\ \E todo \in {buildHedgeCandidates} :
          /\ todo # <<>>
          /\ Advance(c, [Idle EXCEPT !.pc = "find", !.todo = todo])
    /\ UNCHANGED <<exposure, orders, resting, trades, faults>>

OpenOrders(o) ==
    {i \in DOMAIN orders : orders[i].outcome = o /\ orders[i].status \in OPEN_HEDGE_STATUSES}

\* Mutant: only open orders of the same side count.
findOpenOfSide(c) ==
    LET o    == Candidate(c).outcome
        open == {i \in OpenOrders(o) : orders[i].side = Candidate(c).side}
    IN  /\ At(c, "find")
        /\ IF open # {} \/ Len(orders) >= MaxOrders
           THEN NextCandidate(c) ELSE GoTo(c, "create")
        /\ UNCHANGED <<exposure, orders, resting, trades, faults>>

\* hedgeOrder.findFirst: an outcome with an open order is skipped.
findOpenOrder(c) ==
    LET o == Candidate(c).outcome
    IN  /\ At(c, "find")
        /\ \/ OpenOrders(o) # {} /\ NextCandidate(c)
           \/ /\ OpenOrders(o) = {}
              /\ Len(orders) < MaxOrders
              /\ GoTo(c, "create")
           \/ /\ Len(orders) >= MaxOrders    \* bound
              /\ NextCandidate(c)
        /\ UNCHANGED <<exposure, orders, resting, trades, faults>>

createOrder(c) ==
    /\ At(c, "create")
    /\ orders' = Append(orders, [outcome |-> Candidate(c).outcome, side |-> Candidate(c).side,
                                 target |-> Candidate(c).target, status |-> "PENDING"])
    /\ Advance(c, [cycle[c] EXCEPT !.pc = "send", !.order = Len(orders) + 1])
    /\ UNCHANGED <<exposure, resting, trades, faults>>

\* Mutant: a partial fill is not recognised.
normalizeForgetsPartial(reply) ==
    IF reply \in {"SUBMITTED", "FILLED", "FAILED"} THEN reply ELSE "FAILED"

normalizeExecutionStatus(reply) ==
    IF reply \in {"SUBMITTED", "FILLED", "PARTIALLY_FILLED", "FAILED"} THEN reply ELSE "FAILED"

\* The order rests at the venue.
Rests(c) == resting' = [resting EXCEPT ![Candidate(c).outcome] = @ + 1]

\* The venue takes the order; it rests there unless it is filled or refused.
VenueTakes(c, reply) ==
    IF reply \in {"SUBMITTED", "PARTIALLY_FILLED"} THEN Rests(c) ELSE UNCHANGED resting

Answers(c, reply) ==
    Advance(c, [cycle[c] EXCEPT !.pc = "update", !.result = normalizeExecutionStatus(reply)])

\* executeHedge: the venue answers; or it answers with a status the client does
\* not know although the order rests there; or it refuses the request with an HTTP
\* error; or it takes it and the answer is lost, or cannot be read.  The second
\* and the last are failures: the order will be recorded as failed.
executeHedge(c) ==
    /\ At(c, "send")
    /\ \/ \E reply \in Replies : VenueTakes(c, reply) /\ Answers(c, reply) /\ UNCHANGED faults
       \/ "OTHER" \in Replies /\ Rests(c) /\ Answers(c, "OTHER") /\ Fault
       \/ GoTo(c, "fail") /\ UNCHANGED <<resting, faults>>
       \/ \E reply \in Replies : VenueTakes(c, reply) /\ GoTo(c, "fail") /\ Fault
    /\ UNCHANGED <<exposure, orders, trades>>

\* hedgeOrder.update with the result.
recordResult(c) ==
    /\ At(c, "update")
    /\ orders' = [orders EXCEPT ![cycle[c].order].status = cycle[c].result]
    /\ NextCandidate(c)
    /\ UNCHANGED <<exposure, resting, trades, faults>>

\* Mutant: an order that failed is left as it is.
leavePending(c) ==
    /\ At(c, "fail")
    /\ NextCandidate(c)
    /\ UNCHANGED <<exposure, orders, resting, trades, faults>>

\* The catch block: whatever threw, the order is marked failed.
markFailed(c) ==
    /\ At(c, "fail")
    /\ orders' = [orders EXCEPT ![cycle[c].order].status = "FAILED"]
    /\ NextCandidate(c)
    /\ UNCHANGED <<exposure, resting, trades, faults>>

\* The database fails an await: inside the try block the order is marked
\* failed next; anywhere else the rest of the cycle is dropped.
AwaitFails(c) ==
    /\ cycle[c].pc \in {"find", "create", "update", "fail"}
    /\ IF At(c, "update") THEN GoTo(c, "fail") ELSE Advance(c, Idle)
    /\ Fault
    /\ UNCHANGED <<exposure, orders, resting, trades>>

\* The worker process dies and is started again.
Crash ==
    /\ \E c \in Cycles : cycle[c] # Idle
    /\ Fault
    /\ cycle' = [c \in Cycles |-> Idle]
    /\ UNCHANGED <<exposure, orders, resting, trades>>

\* Users open and close positions.
trade(o, side, n) ==
    /\ trades < MaxTrades
    /\ trades' = trades + 1
    /\ n # exposure[o][side]
    /\ exposure' = [exposure EXCEPT ![o][side] = n]
    /\ UNCHANGED <<orders, cycle, resting, faults>>

Step(c) ==
    findOpenOrder(c) \/ createOrder(c) \/ executeHedge(c) \/ recordResult(c) \/ markFailed(c)

Next ==
    \/ \E c \in Cycles : startCycle(c) \/ Step(c) \/ AwaitFails(c)
    \/ Crash
    \/ \E o \in Outcomes, side \in Sides, n \in 0..MaxNotional : trade(o, side, n)

Spec == Init /\ [][Next]_vars

\* Fairness: the timer fires again and again, and awaits return.
FairSpec ==
    /\ Spec
    /\ \A c \in Cycles : WF_vars(startCycle(c) \/ Step(c))

---------------------------------------------------------------------------
(* Properties.                                                             *)

\* The type of every variable; an order never exceeds the cap.
TypeOK ==
    /\ exposure \in [Outcomes -> [Sides -> 0..MaxNotional]]
    /\ \A i \in DOMAIN orders :
          orders[i] \in [outcome : Tokens, side : Sides, target : 1..MaxHedge, status : Statuses]
    /\ \A c \in Cycles :
          /\ cycle[c].pc \in {"idle", "find", "create", "send", "update", "fail"}
          /\ cycle[c].order \in 0..Len(orders)
          /\ cycle[c].pc = "idle" <=> cycle[c].todo = <<>>
    /\ resting \in [Outcomes -> Nat]
    /\ trades \in 0..MaxTrades /\ faults \in 0..MaxFaults

\* A market that breaches its thresholds always has an outcome to hedge, when
\* all its positions have tokens: netting per market and netting per outcome
\* agree on the direction, whatever the split.
BreachIsHedgeable ==
    \A m \in Markets :
        /\ Breaches(m)
        /\ \A o \in Outcomes \ Tokens : MarketOf[o] = m => exposure[o] = [side \in Sides |-> 0]
        => Hedgeable(m)

\* An outcome has at most one open order for each cycle that may be under way,
\* crashes and failing awaits included: one while cycles do not overlap.  (Nothing
\* keeps the timer from starting a cycle while another one is between its search
\* and its create.)
OneOpenOrderPerCycle == \A o \in Outcomes : Cardinality(OpenOrders(o)) <= Cardinality(Cycles)

\* A market has at most one open order (engine README: "skips duplicate markets
\* that already have open hedge orders").  The code does not ensure it even
\* without overlap, because it looks for open orders of the outcome it has
\* selected, and the selection moves.
OneOpenOrderPerMarket ==
    \A i, j \in DOMAIN orders :
        /\ i # j
        /\ orders[i].status \in OPEN_HEDGE_STATUSES /\ orders[j].status \in OPEN_HEDGE_STATUSES
        => MarketOf[orders[i].outcome] # MarketOf[orders[j].outcome]

\* The exposure of a market calls for a hedge on a side.
Calls(m, side) == Hedgeable(m) /\ targetSideForExposure(m) = side

\* The venue holds more resting orders of an outcome than cycles may overlap
\* only after failures: one more for each answer lost, unreadable or of an unknown
\* status, and for each update that fails.
RestingNeedsFailures ==
    \A o \in Outcomes : resting[o] <= Cardinality(Cycles) + faults

Orphans == {i \in DOMAIN orders : /\ orders[i].status = "PENDING"
                                  /\ \A c \in Cycles : cycle[c].order # i}

\* A pending order is being worked on, except for those of the cycles that a
\* failure ended: refused requests never leave an outcome blocked.
OrphansNeedFailures == Cardinality(Orphans) <= Cardinality(Cycles) * faults

\* An order of the outcome to hedge is open at the venue, or was left pending.
Blocked(m, side) ==
    \E i \in DOMAIN orders :
        /\ orders[i].outcome = selectOutcomeForExposure(m, side)
        /\ orders[i].status \in {"SUBMITTED", "PARTIALLY_FILLED"} \/ i \in Orphans

\* A breach that lasts is answered by an order on the right side that the venue
\* accepts, whatever orders there were before it, unless the outcome to hedge is
\* blocked: a failing await, a refused request or a crash only delays the answer.
\* Past the bound on orders nothing is claimed.
BreachIsAnswered ==
    \A m \in Markets, side \in Sides, n \in 0..(MaxOrders - 1) :
        Len(orders) = n /\ Calls(m, side) ~>
            \/ Len(orders) >= MaxOrders
            \/ \E i \in DOMAIN orders :
                  /\ i > n
                  /\ MarketOf[orders[i].outcome] = m /\ orders[i].side = side
                  /\ orders[i].status \in {"SUBMITTED", "PARTIALLY_FILLED", "FILLED"}
            \/ ~Calls(m, side)
            \/ Blocked(m, side)
=============================================================================
