---------------------------- MODULE HedgeProofs ----------------------------
(***************************************************************************)
(* Proofs about HedgeLoop, for any markets, outcomes, exposures and        *)
(* thresholds, and for any number of cycles under way at once.             *)
(*                                                                         *)
(* The invariant HedgeInv says what a cycle holds at each await: from      *)
(* create to the end of its turn it is the only one that works on its      *)
(* order, and that order is pending.  Beside it, three counts are bounded: *)
(* the open orders of an outcome with the cycles about to create one, the  *)
(* resting orders by those on record as open, and the orphans.             *)
(***************************************************************************)
EXTENDS HedgeLoop, FiniteSetTheorems, WellFoundedInduction, TLAPS

---------------------------------------------------------------------------
(* Sums over the outcomes.                                                 *)

\* A set of natural numbers has a smallest one.
LEMMA SmallestNat ==
    ASSUME NEW T, T \subseteq Nat, T # {}
    PROVE  \E x \in T : \A y \in T : x <= y
<1> DEFINE Below == {0..k : k \in T}
<1>1. Below \subseteq FiniteSubsetsOf(Nat) /\ Below # {}
  <2>1. ASSUME NEW k \in T PROVE 0..k \in FiniteSubsetsOf(Nat)
    BY FS_Interval DEF FiniteSubsetsOf
  <2> QED BY <2>1
<1>2. PICK b \in Below : \A c \in Below : ~(<<c, b>> \in StrictSubsetOrdering(Nat))
  <2> HIDE DEF Below
  <2> QED BY <1>1, FS_StrictSubsetOrderingWellFounded, WFMin
<1>3. PICK x \in T : b = 0..x
  BY <1>2
<1>4. ASSUME NEW y \in T, y < x PROVE FALSE
  <2>1. 0..y \in SUBSET Nat /\ 0..x \in SUBSET Nat /\ 0..y \subseteq 0..x /\ x \in 0..x /\ x \notin 0..y
    BY <1>4
  <2>2. <<0..y, 0..x>> \in StrictSubsetOrdering(Nat)
    BY <2>1 DEF StrictSubsetOrdering
  <2> QED BY <1>2, <1>3, <2>2
<1> QED BY <1>4

\* h sums up g over 1..n, one number after the other.
Totals(h, g, n) == h = [o \in 0..n |-> IF o = 0 THEN 0 ELSE h[o - 1] + g[o]]

\* There are such totals: the smallest n without any would not be the smallest.
LEMMA TotalsExist ==
    ASSUME NEW g, NEW N \in Nat, \A o \in 1..N : g[o] \in Int
    PROVE  \E h \in [0..N -> Int] : Totals(h, g, N)
<1> DEFINE Bad == {n \in 0..N : ~\E h \in [0..n -> Int] : Totals(h, g, n)}
<1>1. SUFFICES ASSUME Bad # {} PROVE FALSE
  BY <1>1
<1>2. PICK n \in Bad : \A m \in Bad : n <= m
  <2>1. Bad \subseteq Nat
    OBVIOUS
  <2> HIDE DEF Bad
  <2> QED BY <1>1, <2>1, SmallestNat
<1>3. n # 0
  <2>1. [o \in 0..0 |-> 0] \in [0..0 -> Int] /\ Totals([o \in 0..0 |-> 0], g, 0)
    BY DEF Totals
  <2> QED BY <2>1
<1>4. n - 1 \in 0..N /\ n - 1 \notin Bad
  BY <1>2, <1>3
<1>5. PICK h \in [0..(n - 1) -> Int] : Totals(h, g, n - 1)
  BY <1>4
<1> DEFINE k == [o \in 0..n |-> IF o = n THEN h[n - 1] + g[n] ELSE h[o]]
<1>6. k \in [0..n -> Int]
  BY <1>3, <1>5
<1>7. ASSUME NEW o \in 0..n
      PROVE  k[o] = IF o = 0 THEN 0 ELSE k[o - 1] + g[o]
  <2>1. CASE o = n
    BY <1>3, <2>1
  <2>2. CASE o # n
    <3>1. o \in 0..(n - 1) /\ h[o] = IF o = 0 THEN 0 ELSE h[o - 1] + g[o]
      BY <1>5, <2>2 DEF Totals
    <3> QED BY <3>1, <2>2
  <2> QED BY <2>1, <2>2
<1>8. Totals(k, g, n)
  <2> HIDE DEF k
  <2>1. k = [o \in 0..n |-> k[o]]
    BY <1>6
  <2> QED BY <2>1, <1>7 DEF Totals
<1> HIDE DEF k
<1> QED BY <1>6, <1>8, <1>2

\* The notional of outcome o if it belongs to market m, zero otherwise.
Part(m, side) == [o \in Outcomes |-> IF MarketOf[o] = m THEN exposure[o][side] ELSE 0]

Exposures == [Outcomes -> [Sides -> 0..MaxNotional]]

\* What the recursive definition of notionalUpTo computes.
LEMMA NotionalsAddUp ==
    ASSUME HedgeAssumption, exposure \in Exposures, NEW m, NEW side \in Sides
    PROVE  /\ notionalUpTo(m, side) \in [0..NumOutcomes -> Int]
           /\ notionalUpTo(m, side)[0] = 0
           /\ \A o \in Outcomes : notionalUpTo(m, side)[o] =
                 notionalUpTo(m, side)[o - 1] + (IF MarketOf[o] = m THEN exposure[o][side] ELSE 0)
<1> DEFINE Is(f) == f = [o \in 0..NumOutcomes |->
                           IF o = 0 THEN 0
                           ELSE f[o - 1] + (IF MarketOf[o] = m THEN exposure[o][side] ELSE 0)]
<1>1. NumOutcomes \in Nat /\ \A o \in 1..NumOutcomes : Part(m, side)[o] \in Int
  BY DEF HedgeAssumption, Exposures, Part, Outcomes
<1>2. PICK h \in [0..NumOutcomes -> Int] : Totals(h, Part(m, side), NumOutcomes)
  BY <1>1, TotalsExist
<1>3. \A o \in 0..NumOutcomes : o # 0 =>
         Part(m, side)[o] = IF MarketOf[o] = m THEN exposure[o][side] ELSE 0
  BY <1>1 DEF Part, Outcomes
<1>4. Is(h)
  BY <1>2, <1>3 DEF Totals
<1>5. notionalUpTo(m, side) = CHOOSE f : Is(f)
  BY DEF notionalUpTo
<1>6. Is(notionalUpTo(m, side))
  <2> HIDE DEF Is
  <2> QED BY <1>4, <1>5
<1> DEFINE up == notionalUpTo(m, side)
<1>7. \A o \in 0..NumOutcomes :
         up[o] = IF o = 0 THEN 0
                 ELSE up[o - 1] + (IF MarketOf[o] = m THEN exposure[o][side] ELSE 0)
  BY <1>6
<1>8. up = [o \in 0..NumOutcomes |-> up[o]]
  BY <1>6
<1> HIDE DEF up, Is
<1>9. up[0] = 0
  BY <1>1, <1>7
<1>10. \A o \in Outcomes : up[o] = up[o - 1] + (IF MarketOf[o] = m THEN exposure[o][side] ELSE 0)
  BY <1>1, <1>7 DEF Outcomes
<1>11. up \in [0..NumOutcomes -> Int]
  <2> DEFINE Bad == {o \in 0..NumOutcomes : up[o] \notin Int}
  <2>1. SUFFICES ASSUME Bad # {} PROVE FALSE
    BY <1>8
  <2>2. PICK o \in Bad : \A n \in Bad : o <= n
    <3>1. Bad \subseteq Nat
      BY <1>1
    <3> HIDE DEF Bad
    <3> QED BY <2>1, <3>1, SmallestNat
  <2>3. o # 0
    BY <1>9, <2>2
  <2>4. o \in Outcomes /\ o - 1 \in 0..NumOutcomes /\ o - 1 \notin Bad
    BY <2>2, <2>3, <1>1 DEF Outcomes
  <2>5. up[o - 1] \in Int /\ Part(m, side)[o] \in Int
    BY <2>4, <1>1 DEF Outcomes
  <2> QED BY <2>2, <2>4, <2>5, <1>10, <1>3
<1> QED BY <1>9, <1>10, <1>11 DEF up

---------------------------------------------------------------------------
(* A breach has an outcome to hedge.                                       *)

\* The notionals are integers.
LEMMA NotionalIsInt ==
    ASSUME HedgeAssumption, exposure \in Exposures, NEW m
    PROVE  /\ marketNotional(m, "LONG") \in Int
           /\ marketNotional(m, "SHORT") \in Int
           /\ netNotional(m) \in Int
<1>1. marketNotional(m, "LONG") \in Int /\ marketNotional(m, "SHORT") \in Int
  BY NotionalsAddUp DEF marketNotional, HedgeAssumption, Sides
<1> QED BY <1>1 DEF netNotional

\* If a market is heavier on one side, so is one of its outcomes.
LEMMA SomeOutcomeOutweighs ==
    ASSUME HedgeAssumption, exposure \in Exposures, NEW m, NEW side \in Sides,
           marketNotional(m, side) > marketNotional(m, Opposite(side))
    PROVE  \E o \in Outcomes : /\ MarketOf[o] = m
                               /\ exposure[o][side] > exposure[o][Opposite(side)]
<1> DEFINE up   == notionalUpTo(m, side)
           down == notionalUpTo(m, Opposite(side))
           Ahead == {o \in 0..NumOutcomes : up[o] > down[o]}
<1>1. Opposite(side) \in Sides /\ NumOutcomes \in Nat
  BY DEF Opposite, Sides, HedgeAssumption
<1>2. /\ up \in [0..NumOutcomes -> Int] /\ up[0] = 0
      /\ \A o \in Outcomes : up[o] = up[o - 1] + (IF MarketOf[o] = m THEN exposure[o][side] ELSE 0)
  BY NotionalsAddUp
<1>3. /\ down \in [0..NumOutcomes -> Int] /\ down[0] = 0
      /\ \A o \in Outcomes : down[o] =
            down[o - 1] + (IF MarketOf[o] = m THEN exposure[o][Opposite(side)] ELSE 0)
  BY <1>1, NotionalsAddUp
<1>4. NumOutcomes \in Ahead
  BY <1>1 DEF marketNotional
<1> HIDE DEF up, down
<1>5. PICK o \in Ahead : \A n \in Ahead : o <= n
  <2>1. Ahead \subseteq Nat
    BY <1>1
  <2> HIDE DEF Ahead
  <2> QED BY <1>4, <2>1, SmallestNat
<1>6. o # 0
  BY <1>2, <1>3, <1>5
<1>7. o \in Outcomes /\ o - 1 \in 0..NumOutcomes /\ o - 1 \notin Ahead
  BY <1>1, <1>5, <1>6 DEF Outcomes
<1>8. exposure[o][side] \in Nat /\ exposure[o][Opposite(side)] \in Nat
  BY <1>1, <1>7 DEF Exposures, HedgeAssumption
<1>9. up[o] \in Int /\ up[o - 1] \in Int /\ down[o] \in Int /\ down[o - 1] \in Int
  BY <1>2, <1>3, <1>5, <1>7
<1>10. up[o] > down[o] /\ ~(up[o - 1] > down[o - 1])
  BY <1>5, <1>7
<1>11. MarketOf[o] = m
  BY <1>2, <1>3, <1>7, <1>9, <1>10
<1>12. exposure[o][side] > exposure[o][Opposite(side)]
  BY <1>2, <1>3, <1>7, <1>8, <1>9, <1>10, <1>11
<1> QED BY <1>7, <1>11, <1>12

\* The candidates of a snapshot are well typed: the selection finds an outcome.
CandidateType == [outcome : Tokens, side : Sides, target : 1..MaxHedge]

\* Of the outcomes to hedge one is the first of the largest.
LEMMA SelectionExists ==
    ASSUME HedgeAssumption, exposure \in Exposures, NEW m, NEW side \in Sides,
           hedgeableOutcomes(m, side) # {}
    PROVE  selectOutcomeForExposure(m, side) \in hedgeableOutcomes(m, side)
<1> DEFINE H == hedgeableOutcomes(m, side)
           net(o) == outcomeNet(o, Opposite(side))
           Gaps == {MaxNotional - net(o) : o \in H}
<1>1. /\ H \subseteq Outcomes /\ Outcomes \subseteq Nat
      /\ \A o \in H : net(o) \in 0..MaxNotional /\ MaxNotional - net(o) \in Nat
  <2>1. H \subseteq Outcomes /\ Outcomes \subseteq Nat
    <3>1. Tokens \subseteq Outcomes /\ NumOutcomes \in Nat
      BY DEF HedgeAssumption
    <3>2. Outcomes \subseteq Nat
      BY <3>1 DEF Outcomes
    <3> QED BY <3>1, <3>2 DEF hedgeableOutcomes
  <2>2. ASSUME NEW o \in H PROVE net(o) \in 0..MaxNotional /\ MaxNotional - net(o) \in Nat
    <3>1. \A s \in Sides : exposure[o][s] \in 0..MaxNotional
      BY <2>1 DEF Exposures
    <3>2. Opposite(side) \in Sides /\ Opposite(Opposite(side)) \in Sides /\ MaxNotional \in Nat
      BY DEF Opposite, Sides, HedgeAssumption
    <3> QED BY <3>1, <3>2 DEF outcomeNet
  <2> QED BY <2>1, <2>2
<1> HIDE DEF H, net
<1>2. PICK gap \in Gaps : \A g \in Gaps : gap <= g
  <2>1. Gaps \subseteq Nat /\ Gaps # {}
    BY <1>1 DEF H
  <2> HIDE DEF Gaps
  <2> QED BY <2>1, SmallestNat
<1> DEFINE Best == {o \in H : MaxNotional - net(o) = gap}
<1>3. PICK o \in Best : \A n \in Best : o <= n
  <2>1. Best \subseteq Nat /\ Best # {}
    BY <1>1, <1>2
  <2> HIDE DEF Best
  <2> QED BY <2>1, SmallestNat
<1>4. ASSUME NEW other \in H
      PROVE  \/ net(o) > net(other)
             \/ net(o) = net(other) /\ o <= other
  <2>1. MaxNotional - net(o) <= MaxNotional - net(other)
    BY <1>2, <1>3
  <2>2. net(o) \in Nat /\ net(other) \in Nat /\ MaxNotional \in Nat
    BY <1>1, <1>3 DEF HedgeAssumption
  <2>3. net(o) = net(other) => other \in Best
    BY <1>3
  <2> QED BY <2>1, <2>2, <2>3, <1>3
<1>5. o \in H
  BY <1>3
<1> HIDE DEF Best, Gaps
<1>6. \E x \in hedgeableOutcomes(m, side) : \A other \in hedgeableOutcomes(m, side) :
            \/ outcomeNet(x, Opposite(side)) > outcomeNet(other, Opposite(side))
            \/ /\ outcomeNet(x, Opposite(side)) = outcomeNet(other, Opposite(side))
               /\ x <= other
  BY <1>4, <1>5 DEF H, net
<1> QED BY <1>6 DEF selectOutcomeForExposure

\* A market that is to be hedged has a well-typed candidate.
LEMMA CandidateIsTyped ==
    ASSUME HedgeAssumption, exposure \in Exposures, NEW m, Hedgeable(m)
    PROVE  candidate(m) \in CandidateType
<1>1. netNotional(m) \in Int /\ netNotional(m) # 0
  BY NotionalIsInt DEF Hedgeable, Breaches
<1>2. targetNotionalForExposure(m) \in 1..MaxHedge
  BY <1>1 DEF targetNotionalForExposure, absoluteNetNotional, HedgeAssumption
<1>3. targetSideForExposure(m) \in Sides
  BY DEF targetSideForExposure, Sides
<1>4. selectOutcomeForExposure(m, targetSideForExposure(m)) \in Tokens
  BY <1>3, SelectionExists DEF Hedgeable, hedgeableOutcomes
<1> QED BY <1>2, <1>3, <1>4 DEF candidate, CandidateType

\* A breach has an outcome to hedge, when all positions of the market have tokens.
LEMMA BreachIsAnswerable ==
    ASSUME HedgeAssumption, exposure \in Exposures
    PROVE  BreachIsHedgeable
<1> SUFFICES ASSUME NEW m \in Markets, Breaches(m),
                    \A o \in Outcomes \ Tokens :
                       MarketOf[o] = m => exposure[o] = [side \in Sides |-> 0]
             PROVE  Hedgeable(m)
  BY DEF BreachIsHedgeable
<1> DEFINE side == targetSideForExposure(m)
<1>1. netNotional(m) \in Int /\ netNotional(m) # 0
  BY NotionalIsInt DEF Breaches
<1>2. side \in Sides /\ Opposite(side) \in Sides /\ Opposite(Opposite(side)) = side
  BY DEF targetSideForExposure, Opposite, Sides
<1>3. marketNotional(m, Opposite(side)) > marketNotional(m, side)
  BY <1>1, NotionalIsInt DEF netNotional, targetSideForExposure, Opposite
<1> HIDE DEF side
<1>4. PICK o \in Outcomes : /\ MarketOf[o] = m
                            /\ exposure[o][Opposite(side)] > exposure[o][side]
  BY <1>2, <1>3, SomeOutcomeOutweighs
<1>5. exposure[o][Opposite(side)] \in Nat /\ exposure[o][side] \in Nat
  BY <1>2 DEF Exposures, HedgeAssumption
<1>6. o \in Tokens
  <2>1. o \notin Tokens => exposure[o][Opposite(side)] = 0 /\ exposure[o][side] = 0
    BY <1>2, <1>4
  <2> QED BY <2>1, <1>4
<1>7. outcomeNet(o, Opposite(side)) > 0
  BY <1>2, <1>4, <1>5 DEF outcomeNet
<1>8. o \in hedgeableOutcomes(m, side)
  BY <1>4, <1>6, <1>7 DEF hedgeableOutcomes
<1> QED BY <1>8 DEF Hedgeable, side

---------------------------------------------------------------------------
(* What a cycle holds at each await.                                       *)

\* The types of orders and cycles.
OrderType == [outcome : Tokens, side : Sides, target : 1..MaxHedge, status : Statuses]
Snapshots == UNION {[S -> CandidateType] : S \in SUBSET Markets}
CycleType == [pc : {"idle", "find", "create", "send", "update", "fail"}, todo : Snapshots,
              order : Nat, result : Statuses \ {"PENDING"}]

\* The awaits at which a cycle works on an order it has created.
Working == {"send", "update", "fail"}

\* The first market of a snapshot, as in Market(c).
FirstOf(todo) == CHOOSE m \in DOMAIN todo : \A k \in DOMAIN todo : m <= k

\* Between its create and the end of its turn a cycle holds a pending order of
\* its candidate.
CycleOK(x) ==
    /\ x.pc = "idle" <=> x.todo = <<>>
    /\ x.pc \notin Working => x.order = 0
    /\ x.pc \in Working => /\ x.order \in DOMAIN orders
                           /\ orders[x.order].status = "PENDING"
                           /\ orders[x.order].outcome = x.todo[FirstOf(x.todo)].outcome

\* The inductive invariant.
HedgeInv ==
    /\ exposure \in Exposures
    /\ orders \in Seq(OrderType)
    /\ cycle \in [Cycles -> CycleType]
    /\ resting \in [Outcomes -> Nat]
    /\ trades \in 0..MaxTrades /\ faults \in 0..MaxFaults
    /\ \A c \in Cycles : CycleOK(cycle[c])
    /\ \A c, d \in Cycles : cycle[c].order # 0 /\ cycle[c].order = cycle[d].order => c = d

\* A snapshot with markets left has a first one.
LEMMA FirstIsThere ==
    ASSUME NEW todo \in Snapshots, todo # <<>>
    PROVE  /\ FirstOf(todo) \in DOMAIN todo
           /\ todo[FirstOf(todo)] \in CandidateType
<1>1. PICK S \in SUBSET Markets : todo \in [S -> CandidateType]
  BY DEF Snapshots
<1>2. S # {} /\ DOMAIN todo = S
  BY <1>1
<1>3. S \subseteq Nat
  BY HedgeAssumption DEF Markets
<1>4. \E m \in DOMAIN todo : \A k \in DOMAIN todo : m <= k
  BY <1>2, <1>3, SmallestNat
<1>5. FirstOf(todo) \in DOMAIN todo
  BY <1>4 DEF FirstOf
<1> QED BY <1>1, <1>5

\* The candidate of a cycle is that of the first market it has left.
LEMMA CandidateIs ==
    ASSUME HedgeInv, NEW c \in Cycles, ~At(c, "idle")
    PROVE  /\ Market(c) = FirstOf(cycle[c].todo)
           /\ Candidate(c) = cycle[c].todo[FirstOf(cycle[c].todo)]
           /\ Candidate(c) \in CandidateType
<1>1. cycle[c] \in CycleType /\ CycleOK(cycle[c])
  BY DEF HedgeInv
<1>2. cycle[c].todo \in Snapshots /\ cycle[c].todo # <<>>
  BY <1>1 DEF CycleType, CycleOK, At
<1>3. Market(c) = FirstOf(cycle[c].todo)
  BY DEF Market, FirstOf
<1> QED BY <1>2, <1>3, FirstIsThere DEF Candidate

\* A cycle without work.
LEMMA IdleIs ==
    /\ Idle \in CycleType /\ CycleOK(Idle) /\ Idle.order = 0 /\ Idle.pc = "idle"
    /\ Idle.todo = <<>> /\ Idle.result = "FAILED"
<1>1. <<>> \in [{} -> CandidateType]
  OBVIOUS
<1>2. <<>> \in Snapshots
  BY <1>1 DEF Snapshots
<1> QED BY <1>2 DEF Idle, CycleType, CycleOK, Working, Statuses

\* Where the loop is after a turn: at the next candidate, or at its end.
Turned(n) == n \in CycleType /\ CycleOK(n) /\ n.order = 0 /\ n.pc \in {"idle", "find"}

\* A cycle with a snapshot begins with its first candidate, if there is one.
LEMMA BeginsTurn ==
    ASSUME NEW todo \in Snapshots
    PROVE  Turned([Idle EXCEPT !.pc = IF todo = <<>> THEN "idle" ELSE "find", !.todo = todo])
<1> DEFINE pc == IF todo = <<>> THEN "idle" ELSE "find"
           n == [Idle EXCEPT !.pc = pc, !.todo = todo]
<1>1. pc \in {"idle", "find"} /\ (pc = "idle" <=> todo = <<>>)
  OBVIOUS
<1> HIDE DEF pc
<1>2. n \in CycleType /\ n.pc = pc /\ n.todo = todo /\ n.order = 0
  BY <1>1, IdleIs DEF CycleType
<1> HIDE DEF n
<1>3. CycleOK(n)
  BY <1>1, <1>2 DEF CycleOK, Working
<1>4. Turned(n)
  BY <1>1, <1>2, <1>3 DEF Turned
<1> QED BY <1>4 DEF n, pc

\* The next candidate.
LEMMA TurnsTo ==
    ASSUME HedgeInv, NEW c \in Cycles, ~At(c, "idle"), NextCandidate(c)
    PROVE  \E n : Advance(c, n) /\ Turned(n)
<1> DEFINE rest == [m \in DOMAIN cycle[c].todo \ {Market(c)} |-> cycle[c].todo[m]]
<1>1. cycle[c].todo \in Snapshots
  BY DEF HedgeInv, CycleType
<1>2. PICK S \in SUBSET Markets : cycle[c].todo \in [S -> CandidateType]
  BY <1>1 DEF Snapshots
<1>3. S \ {Market(c)} \in SUBSET Markets /\ rest \in [S \ {Market(c)} -> CandidateType]
  BY <1>2
<1>4. Advance(c, [Idle EXCEPT !.pc = IF rest = <<>> THEN "idle" ELSE "find", !.todo = rest])
  BY DEF NextCandidate
<1> HIDE DEF rest
<1>5. rest \in Snapshots
  BY <1>3 DEF Snapshots
<1> QED BY <1>4, <1>5, BeginsTurn

\* A step that moves cycle c and changes no other's order.
LEMMA MoveKeeps ==
    ASSUME HedgeInv, NEW c \in Cycles, NEW n \in CycleType, Advance(c, n),
           orders' \in Seq(OrderType), resting' \in [Outcomes -> Nat],
           exposure' = exposure, trades' = trades, faults' \in 0..MaxFaults,
           CycleOK(n)',
           n.order \in {0, cycle[c].order} \/ n.order \notin DOMAIN orders,
           \A i \in DOMAIN orders : i \in DOMAIN orders' /\ (i # cycle[c].order => orders'[i] = orders[i])
    PROVE  HedgeInv'
<1>1. cycle \in [Cycles -> CycleType]
  BY DEF HedgeInv
<1>2. cycle' \in [Cycles -> CycleType] /\ \A d \in Cycles : cycle'[d] = IF d = c THEN n ELSE cycle[d]
  BY <1>1 DEF Advance
<1>3. \A d \in Cycles : /\ cycle[d] \in CycleType
                        /\ cycle[d].pc \in Working => cycle[d].order \in DOMAIN orders
                        /\ cycle[d].pc \notin Working => cycle[d].order = 0
  BY <1>1 DEF HedgeInv, CycleOK
<1>4. orders \in Seq(OrderType) /\ 0 \notin DOMAIN orders
  BY DEF HedgeInv
<1>5. ASSUME NEW d \in Cycles PROVE CycleOK(cycle[d])'
  <2>1. CASE d = c
    BY <1>2, <2>1 DEF CycleOK
  <2>2. CASE d # c
    <3>1. cycle'[d] = cycle[d] /\ CycleOK(cycle[d])
      BY <1>2, <2>2 DEF HedgeInv
    <3>2. cycle[d].pc \in Working => cycle[d].order # cycle[c].order
      BY <1>3, <1>4, <2>2 DEF HedgeInv
    <3> QED BY <3>1, <3>2 DEF CycleOK
  <2> QED BY <2>1, <2>2
<1>6. ASSUME NEW d \in Cycles, NEW e \in Cycles, cycle'[d].order # 0, cycle'[d].order = cycle'[e].order
      PROVE  d = e
  <2>1. \A a \in Cycles : cycle[a].order # 0 => cycle[a].order \in DOMAIN orders
    BY <1>3
  <2>2. \A a, b \in Cycles : cycle[a].order # 0 /\ cycle[a].order = cycle[b].order => a = b
    BY DEF HedgeInv
  <2> QED BY <1>2, <1>6, <2>1, <2>2
<1>7. exposure' \in Exposures /\ trades' \in 0..MaxTrades
  BY DEF HedgeInv, Exposures
<1> QED BY <1>2, <1>5, <1>6, <1>7 DEF HedgeInv

\* The same without a change of the orders.
LEMMA OrdersStayKeeps ==
    ASSUME HedgeInv, NEW c \in Cycles, NEW n \in CycleType, Advance(c, n),
           CycleOK(n), n.order \in {0, cycle[c].order},
           orders' = orders, resting' \in [Outcomes -> Nat],
           exposure' = exposure, trades' = trades, faults' \in 0..MaxFaults
    PROVE  HedgeInv'
<1>1. CycleOK(n)'
  BY DEF CycleOK
<1>2. orders \in Seq(OrderType)
  BY DEF HedgeInv
<1> QED BY <1>1, <1>2, MoveKeeps

\* A cycle goes on with its candidate and its order.
LEMMA GoesTo ==
    ASSUME HedgeInv, NEW c \in Cycles, ~At(c, "idle"), NEW n, n.pc # "idle",
           n.pc \in Working <=> cycle[c].pc \in Working,
           n.order = cycle[c].order, n.todo = cycle[c].todo
    PROVE  CycleOK(n)
BY DEF HedgeInv, CycleOK, At

\* GoTo is such a step.
LEMMA GoToIs ==
    ASSUME HedgeInv, NEW c \in Cycles, NEW pc, GoTo(c, pc)
    PROVE  Advance(c, [cycle[c] EXCEPT !.pc = pc, !.result = cycle[c].result])
<1>1. cycle[c] \in CycleType
  BY DEF HedgeInv
<1>2. [cycle[c] EXCEPT !.pc = pc, !.result = cycle[c].result] = [cycle[c] EXCEPT !.pc = pc]
  BY <1>1 DEF CycleType
<1> QED BY <1>2 DEF GoTo

\* What the venue may answer, and what becomes of it.
LEMMA VenueType ==
    ASSUME HedgeInv, NEW c \in Cycles, ~At(c, "idle"), NEW reply \in Replies, VenueTakes(c, reply)
    PROVE  /\ resting' \in [Outcomes -> Nat]
           /\ normalizeExecutionStatus(reply) \in Statuses \ {"PENDING"}
           /\ reply \in {"SUBMITTED", "PARTIALLY_FILLED"} =>
                 normalizeExecutionStatus(reply) \in {"SUBMITTED", "PARTIALLY_FILLED"}
           /\ \A o \in Outcomes :
                 \/ resting'[o] = resting[o]
                 \/ /\ resting'[o] = resting[o] + 1 /\ o = Candidate(c).outcome
                    /\ reply \in {"SUBMITTED", "PARTIALLY_FILLED"}
<1>1. resting \in [Outcomes -> Nat]
  BY DEF HedgeInv
<1>2. Candidate(c).outcome \in Outcomes
  BY CandidateIs, HedgeAssumption DEF CandidateType
<1> DEFINE o == Candidate(c).outcome
<1>3. resting' = resting \/ resting' = [resting EXCEPT ![o] = resting[o] + 1]
  BY DEF VenueTakes, Rests
<1> HIDE DEF o
<1>4. o \in Outcomes
  BY <1>2 DEF o
<1>5. resting' \in [Outcomes -> Nat]
  BY <1>1, <1>3, <1>4
<1>6. normalizeExecutionStatus(reply) \in Statuses \ {"PENDING"}
  BY DEF normalizeExecutionStatus, Statuses
<1>7. \A q \in Outcomes : \/ resting'[q] = resting[q]
                          \/ /\ resting'[q] = resting[q] + 1 /\ q = o
                             /\ reply \in {"SUBMITTED", "PARTIALLY_FILLED"}
  BY <1>1, <1>4 DEF VenueTakes, Rests, o
<1> QED BY <1>5, <1>6, <1>7 DEF normalizeExecutionStatus, o

---------------------------------------------------------------------------
(* What each step does.                                                    *)

\* The timer starts a cycle with a snapshot's candidates.
LEMMA StartEffect ==
    ASSUME HedgeInv, NEW c \in Cycles, startCycle(c)
    PROVE  \E n : Advance(c, n) /\ Turned(n) /\ cycle[c].order = 0 /\ cycle[c].pc = "idle"
<1> DEFINE S == {k \in Markets : Hedgeable(k)}
<1>1. \A m \in S : candidate(m) \in CandidateType
  BY CandidateIsTyped, HedgeAssumption DEF HedgeInv
<1>2. buildHedgeCandidates \in [S -> CandidateType]
  <2> HIDE DEF S
  <2>1. [m \in S |-> candidate(m)] \in [S -> CandidateType]
    BY <1>1
  <2> QED BY <2>1 DEF buildHedgeCandidates, S
<1>3. S \in SUBSET Markets
  OBVIOUS
<1> HIDE DEF S
<1>4. buildHedgeCandidates \in Snapshots
  BY <1>2, <1>3 DEF Snapshots
<1> DEFINE todo == buildHedgeCandidates
<1> HIDE DEF todo
<1>5. todo # <<>> /\ Advance(c, [Idle EXCEPT !.pc = "find", !.todo = todo]) /\ At(c, "idle")
  BY DEF startCycle, todo
<1>6. Turned([Idle EXCEPT !.pc = "find", !.todo = todo])
  <2>1. Turned([Idle EXCEPT !.pc = IF todo = <<>> THEN "idle" ELSE "find", !.todo = todo])
    BY <1>4, BeginsTurn DEF todo
  <2> QED BY <2>1, <1>5
<1>7. cycle[c].order = 0
  BY <1>5 DEF HedgeInv, CycleOK, Working, At
<1> QED BY <1>5, <1>6, <1>7 DEF At

\* The search skips the candidate or goes on to the create.
LEMMA FindEffect ==
    ASSUME HedgeInv, NEW c \in Cycles, findOpenOrder(c)
    PROVE  /\ cycle[c].pc = "find" /\ cycle[c].order = 0
           /\ \E n : /\ Advance(c, n)
                     /\ \/ Turned(n)
                        \/ /\ n \in CycleType /\ CycleOK(n) /\ n.order = 0 /\ n.pc = "create"
                           /\ n.todo = cycle[c].todo /\ OpenOrders(Candidate(c).outcome) = {}
<1>1. cycle[c].pc = "find" /\ ~At(c, "idle") /\ cycle[c].order = 0 /\ cycle[c].result \in Statuses \ {"PENDING"}
  BY DEF findOpenOrder, At, HedgeInv, CycleOK, Working, CycleType
<1>2. CASE NextCandidate(c)
  BY <1>1, <1>2, TurnsTo
<1>3. CASE OpenOrders(Candidate(c).outcome) = {} /\ GoTo(c, "create")
  <2>0. PICK n : n = [cycle[c] EXCEPT !.pc = "create", !.result = cycle[c].result]
    OBVIOUS
  <2>1. Advance(c, n)
    BY <1>3, <2>0, GoToIs
  <2>2. /\ n \in CycleType /\ CycleOK(n) /\ n.order = cycle[c].order
        /\ n.pc = "create" /\ n.todo = cycle[c].todo
    <3>1. /\ n \in CycleType /\ n.order = cycle[c].order
          /\ n.pc = "create" /\ n.todo = cycle[c].todo
      BY <1>1, <2>0 DEF HedgeInv, CycleType
    <3>2. n.pc \in Working <=> cycle[c].pc \in Working
      BY <1>1, <3>1 DEF Working
    <3> QED BY <1>1, <3>1, <3>2, GoesTo
  <2> QED BY <1>1, <1>3, <2>1, <2>2
<1> QED BY <1>1, <1>2, <1>3 DEF findOpenOrder

\* The create adds a pending order, which the cycle holds from then on.
LEMMA CreateEffect ==
    ASSUME HedgeInv, NEW c \in Cycles, createOrder(c)
    PROVE  /\ cycle[c].pc = "create" /\ cycle[c].order = 0
           /\ \E n, order :
                 /\ Advance(c, n) /\ n \in CycleType /\ CycleOK(n)'
                 /\ n.pc = "send" /\ n.order = Len(orders) + 1
                 /\ order \in OrderType /\ order.status = "PENDING"
                 /\ order.outcome = Candidate(c).outcome
                 /\ orders' = Append(orders, order)
<1>1. cycle[c].pc = "create" /\ ~At(c, "idle") /\ cycle[c].order = 0
  BY DEF createOrder, At, HedgeInv, CycleOK, Working
<1>2. cycle[c] \in CycleType /\ CycleOK(cycle[c]) /\ orders \in Seq(OrderType)
  BY DEF HedgeInv
<1> DEFINE n == [cycle[c] EXCEPT !.pc = "send", !.order = Len(orders) + 1]
           order == [outcome |-> Candidate(c).outcome, side |-> Candidate(c).side,
                     target |-> Candidate(c).target, status |-> "PENDING"]
<1>3. /\ Candidate(c) \in CandidateType
      /\ Candidate(c) = cycle[c].todo[FirstOf(cycle[c].todo)]
  BY <1>1, CandidateIs
<1>4. order \in OrderType /\ order.status = "PENDING" /\ order.outcome = Candidate(c).outcome
  BY <1>3 DEF CandidateType, OrderType, Statuses
<1>5. Advance(c, n) /\ orders' = Append(orders, order)
  BY DEF createOrder
<1>6. /\ n \in CycleType /\ n.pc = "send" /\ n.order = Len(orders) + 1 /\ n.todo = cycle[c].todo
  <2> DEFINE k == Len(orders) + 1
  <2>1. k \in Nat
    BY <1>2
  <2> HIDE DEF k
  <2>2. LET x == [cycle[c] EXCEPT !.pc = "send", !.order = k]
        IN  x \in CycleType /\ x.pc = "send" /\ x.order = k /\ x.todo = cycle[c].todo
    BY <1>2, <2>1 DEF CycleType
  <2> QED BY <2>2 DEF k
<1> HIDE DEF n, order
<1>7. PICK x, row : x = n /\ row = order
  OBVIOUS
<1>8. x.order \in DOMAIN orders' /\ orders'[x.order] = row
  BY <1>2, <1>4, <1>5, <1>6, <1>7
<1>9. cycle[c].todo # <<>>
  BY <1>1, <1>2 DEF CycleOK
<1>10. row.outcome = x.todo[FirstOf(x.todo)].outcome /\ row.status = "PENDING" /\ x.todo # <<>>
  BY <1>3, <1>4, <1>6, <1>7, <1>9
<1>11. x.pc = "send"
  BY <1>6, <1>7
<1>12. CycleOK(x)'
  BY <1>8, <1>10, <1>11 DEF CycleOK, Working
<1> QED BY <1>1, <1>4, <1>5, <1>6, <1>7, <1>12

\* The venue's answer, a refusal or a lost answer: the order stays pending.  One
\* that rests will be recorded so, or a failure is counted.
LEMMA ExecuteEffect ==
    ASSUME HedgeInv, NEW c \in Cycles, executeHedge(c)
    PROVE  /\ cycle[c].pc = "send" /\ resting' \in [Outcomes -> Nat]
           /\ \E n :
                 /\ Advance(c, n) /\ n \in CycleType /\ CycleOK(n)
                 /\ n.order = cycle[c].order /\ n.pc \in {"update", "fail"}
                 /\ \A o \in Outcomes :
                       \/ resting'[o] = resting[o]
                       \/ /\ resting'[o] = resting[o] + 1 /\ o = Candidate(c).outcome
                          /\ \/ n.pc = "update" /\ n.result \in {"SUBMITTED", "PARTIALLY_FILLED"}
                             \/ faults' = faults + 1
           /\ faults' = faults \/ Fault
<1>1. cycle[c].pc = "send" /\ ~At(c, "idle") /\ cycle[c].result \in Statuses \ {"PENDING"}
  BY DEF executeHedge, At, HedgeInv, CycleType
<1>2. resting \in [Outcomes -> Nat]
  BY DEF HedgeInv
<1> DEFINE upd(r) == [cycle[c] EXCEPT !.pc = "update", !.result = r]
           fail   == [cycle[c] EXCEPT !.pc = "fail", !.result = cycle[c].result]
<1>3. ASSUME NEW r \in Statuses \ {"PENDING"}
      PROVE  /\ upd(r) \in CycleType /\ CycleOK(upd(r)) /\ upd(r).order = cycle[c].order
             /\ upd(r).pc = "update" /\ upd(r).result = r
  <2>1. /\ upd(r) \in CycleType /\ upd(r).order = cycle[c].order
        /\ upd(r).pc = "update" /\ upd(r).todo = cycle[c].todo /\ upd(r).result = r
    BY DEF HedgeInv, CycleType
  <2> HIDE DEF upd
  <2>2. upd(r).pc \in Working <=> cycle[c].pc \in Working
    BY <1>1, <2>1 DEF Working
  <2> QED BY <1>1, <2>1, <2>2, GoesTo
<1>4. /\ fail \in CycleType /\ CycleOK(fail) /\ fail.order = cycle[c].order
      /\ fail.pc = "fail"
  <2>1. /\ fail \in CycleType /\ fail.order = cycle[c].order
        /\ fail.pc = "fail" /\ fail.todo = cycle[c].todo
    BY <1>1 DEF HedgeInv, CycleType
  <2> HIDE DEF fail
  <2>2. fail.pc \in Working <=> cycle[c].pc \in Working
    BY <1>1, <2>1 DEF Working
  <2> QED BY <1>1, <2>1, <2>2, GoesTo
<1>5. GoTo(c, "fail") => Advance(c, fail)
  BY GoToIs
<1> HIDE DEF upd, fail
<1>6. ASSUME NEW reply \in Replies, VenueTakes(c, reply),
             Advance(c, upd(normalizeExecutionStatus(reply))), UNCHANGED faults
      PROVE  resting' \in [Outcomes -> Nat] /\
             \E n : /\ Advance(c, n) /\ n \in CycleType /\ CycleOK(n)
                    /\ n.order = cycle[c].order /\ n.pc \in {"update", "fail"}
                    /\ \A o \in Outcomes :
                       \/ resting'[o] = resting[o]
                       \/ /\ resting'[o] = resting[o] + 1 /\ o = Candidate(c).outcome
                          /\ \/ n.pc = "update" /\ n.result \in {"SUBMITTED", "PARTIALLY_FILLED"}
                             \/ faults' = faults + 1
  BY <1>1, <1>3, <1>6, VenueType
<1>7. ASSUME NEW reply \in Replies, VenueTakes(c, reply), Advance(c, fail), Fault
      PROVE  resting' \in [Outcomes -> Nat] /\
             \E n : /\ Advance(c, n) /\ n \in CycleType /\ CycleOK(n)
                    /\ n.order = cycle[c].order /\ n.pc \in {"update", "fail"}
                    /\ \A o \in Outcomes :
                       \/ resting'[o] = resting[o]
                       \/ /\ resting'[o] = resting[o] + 1 /\ o = Candidate(c).outcome
                          /\ \/ n.pc = "update" /\ n.result \in {"SUBMITTED", "PARTIALLY_FILLED"}
                             \/ faults' = faults + 1
  BY <1>1, <1>4, <1>7, VenueType DEF Fault
<1>8. CASE GoTo(c, "fail") /\ UNCHANGED <<resting, faults>>
  BY <1>1, <1>2, <1>4, <1>5, <1>8
<1>9. CASE \E reply \in Replies : /\ VenueTakes(c, reply)
                                  /\ Advance(c, upd(normalizeExecutionStatus(reply)))
                                  /\ UNCHANGED faults
  BY <1>1, <1>6, <1>9
<1>10. CASE \E reply \in Replies : VenueTakes(c, reply) /\ GoTo(c, "fail") /\ Fault
  BY <1>1, <1>5, <1>7, <1>10
<1>11. CASE "OTHER" \in Replies /\ Rests(c) /\ Advance(c, upd("FAILED")) /\ Fault
  <2>1. /\ upd("FAILED") \in CycleType /\ CycleOK(upd("FAILED"))
        /\ upd("FAILED").order = cycle[c].order /\ upd("FAILED").pc = "update"
    BY <1>3 DEF Statuses
  <2>2. Candidate(c).outcome \in Outcomes
    BY <1>1, CandidateIs, HedgeAssumption DEF CandidateType
  <2> DEFINE o == Candidate(c).outcome
  <2>3. resting' = [resting EXCEPT ![o] = resting[o] + 1]
    BY <1>11 DEF Rests
  <2> HIDE DEF o
  <2>4. /\ resting' \in [Outcomes -> Nat]
        /\ \A q \in Outcomes : resting'[q] = resting[q] \/ (resting'[q] = resting[q] + 1 /\ q = o)
    BY <1>2, <2>2, <2>3 DEF o
  <2> QED BY <1>1, <1>11, <2>1, <2>4 DEF Fault, o
<1>12. \A reply : Answers(c, reply) <=> Advance(c, upd(normalizeExecutionStatus(reply)))
  BY DEF Answers, upd
<1>13. normalizeExecutionStatus("OTHER") = "FAILED"
  BY DEF normalizeExecutionStatus
<1>14. faults' = faults \/ Fault
  BY DEF executeHedge
<1>15. CASE \E reply \in Replies : VenueTakes(c, reply) /\ Answers(c, reply) /\ UNCHANGED faults
  BY <1>9, <1>12, <1>15
<1>16. CASE "OTHER" \in Replies /\ Rests(c) /\ Answers(c, "OTHER") /\ Fault
  BY <1>11, <1>12, <1>13, <1>16
<1> QED BY <1>1, <1>8, <1>10, <1>14, <1>15, <1>16 DEF executeHedge

\* An update of the order the cycle holds, and the next candidate.
LEMMA UpdateEffect ==
    ASSUME HedgeInv, NEW c \in Cycles, recordResult(c) \/ markFailed(c)
    PROVE  /\ cycle[c].pc \in {"update", "fail"}
           /\ \E n : Advance(c, n) /\ Turned(n)
           /\ orders' = [orders EXCEPT ![cycle[c].order].status =
                            IF cycle[c].pc = "update" THEN cycle[c].result ELSE "FAILED"]
<1>1. cycle[c].pc \in {"update", "fail"} /\ ~At(c, "idle") /\ NextCandidate(c)
  BY DEF recordResult, markFailed, At
<1>2. \E n : Advance(c, n) /\ Turned(n)
  BY <1>1, TurnsTo
<1> QED BY <1>1, <1>2 DEF recordResult, markFailed, At

\* What an update does to the orders.
LEMMA UpdatedOrders ==
    ASSUME HedgeInv, NEW c \in Cycles, cycle[c].pc \in Working, NEW status \in Statuses,
           orders' = [orders EXCEPT ![cycle[c].order].status = status]
    PROVE  /\ orders' \in Seq(OrderType) /\ DOMAIN orders' = DOMAIN orders
           /\ cycle[c].order \in DOMAIN orders
           /\ \A i \in DOMAIN orders :
                 /\ orders'[i].outcome = orders[i].outcome
                 /\ i # cycle[c].order => orders'[i] = orders[i]
                 /\ i = cycle[c].order => orders'[i].status = status
<1>1. orders \in Seq(OrderType) /\ cycle[c].order \in DOMAIN orders
  BY DEF HedgeInv, CycleOK
<1> DEFINE k == cycle[c].order
           row == [orders[k] EXCEPT !.status = status]
<1>2. orders[k] \in OrderType
  BY <1>1
<1>3. row \in OrderType /\ row.outcome = orders[k].outcome /\ row.status = status
  BY <1>2 DEF OrderType
<1>4. orders' = [orders EXCEPT ![k] = row]
  OBVIOUS
<1> HIDE DEF k, row
<1> QED BY <1>1, <1>2, <1>3, <1>4 DEF k

---------------------------------------------------------------------------
(* The invariant is inductive.                                             *)

\* HedgeInv holds at first.
LEMMA HedgeInit == Init => HedgeInv
<1> SUFFICES ASSUME Init PROVE HedgeInv
  OBVIOUS
<1>1. exposure \in Exposures /\ orders \in Seq(OrderType) /\ resting \in [Outcomes -> Nat]
  BY DEF Init, Exposures
<1>2. trades \in 0..MaxTrades /\ faults \in 0..MaxFaults
  BY HedgeAssumption DEF Init
<1>3. cycle \in [Cycles -> CycleType] /\ \A c \in Cycles : cycle[c] = Idle
  BY IdleIs DEF Init
<1>4. \A c \in Cycles : CycleOK(cycle[c]) /\ cycle[c].order = 0
  BY <1>3, IdleIs
<1> QED BY <1>1, <1>2, <1>3, <1>4 DEF HedgeInv

\* A failure is one of MaxFaults.
LEMMA FaultCounts ==
    ASSUME HedgeInv, Fault \/ faults' = faults
    PROVE  faults' \in 0..MaxFaults
BY HedgeAssumption DEF HedgeInv, Fault

\* A turn that ends keeps the invariant, whatever the orders' statuses become.
LEMMA TurnKeeps ==
    ASSUME HedgeInv, NEW c \in Cycles, NEW n, Advance(c, n), Turned(n),
           orders' \in Seq(OrderType), \A i \in DOMAIN orders : i \in DOMAIN orders',
           \A i \in DOMAIN orders : i # cycle[c].order => orders'[i] = orders[i],
           UNCHANGED <<exposure, resting, trades>>, faults' \in 0..MaxFaults
    PROVE  HedgeInv'
<1>1. n \in CycleType /\ n.order = 0 /\ CycleOK(n) /\ n.pc \in {"idle", "find"}
  BY DEF Turned
<1>2. CycleOK(n)'
  BY <1>1 DEF CycleOK, Working
<1>3. resting' \in [Outcomes -> Nat]
  BY DEF HedgeInv
<1> QED BY <1>1, <1>2, <1>3, MoveKeeps

\* A failing await drops the rest of the cycle, or sends it to the catch block.
LEMMA AwaitFailsEffect ==
    ASSUME HedgeInv, NEW c \in Cycles, AwaitFails(c)
    PROVE  /\ Fault /\ cycle[c].pc \notin {"idle", "send"}
           /\ \E n : /\ Advance(c, n)
                     /\ \/ n = Idle
                        \/ /\ cycle[c].pc = "update" /\ n.pc = "fail" /\ n \in CycleType
                           /\ CycleOK(n) /\ n.order = cycle[c].order
<1>1. Fault /\ cycle[c].pc \notin {"idle", "send"}
  BY DEF AwaitFails
<1>2. CASE cycle[c].pc # "update"
  BY <1>1, <1>2 DEF AwaitFails, At
<1>3. CASE cycle[c].pc = "update"
  <2>1. PICK n : n = [cycle[c] EXCEPT !.pc = "fail", !.result = cycle[c].result]
    OBVIOUS
  <2>2. Advance(c, n)
    BY <1>3, <2>1, GoToIs DEF AwaitFails, At
  <2>3. /\ n \in CycleType /\ n.order = cycle[c].order
        /\ n.pc = "fail" /\ n.todo = cycle[c].todo
    BY <2>1 DEF HedgeInv, CycleType
  <2>4. n.pc \in Working <=> cycle[c].pc \in Working
    BY <1>3, <2>3 DEF Working
  <2>5. CycleOK(n)
    BY <1>3, <2>3, <2>4, GoesTo DEF At
  <2> QED BY <1>1, <1>3, <2>2, <2>3, <2>5
<1> QED BY <1>2, <1>3

\* Every step keeps HedgeInv.
LEMMA HedgeStep == HedgeInv /\ [Next]_vars => HedgeInv'
<1> SUFFICES ASSUME HedgeInv, [Next]_vars PROVE HedgeInv'
  OBVIOUS
<1>0. orders \in Seq(OrderType) /\ resting \in [Outcomes -> Nat]
  BY DEF HedgeInv
<1>1. ASSUME NEW c \in Cycles, startCycle(c) PROVE HedgeInv'
  <2>1. PICK n : Advance(c, n) /\ Turned(n)
    BY <1>1, StartEffect
  <2>2. UNCHANGED <<exposure, orders, resting, trades, faults>>
    BY <1>1 DEF startCycle
  <2> QED BY <1>0, <2>1, <2>2, TurnKeeps, FaultCounts
<1>2. ASSUME NEW c \in Cycles, findOpenOrder(c) PROVE HedgeInv'
  <2>1. UNCHANGED <<exposure, orders, resting, trades, faults>>
    BY <1>2 DEF findOpenOrder
  <2>2. PICK n : /\ Advance(c, n)
                 /\ Turned(n) \/ (n \in CycleType /\ CycleOK(n) /\ n.order = 0)
    BY <1>2, FindEffect
  <2>3. n \in CycleType /\ CycleOK(n) /\ n.order = 0
    BY <2>2 DEF Turned
  <2> QED BY <1>0, <2>1, <2>2, <2>3, OrdersStayKeeps, FaultCounts
<1>3. ASSUME NEW c \in Cycles, createOrder(c) PROVE HedgeInv'
  <2>1. UNCHANGED <<exposure, resting, trades, faults>>
    BY <1>3 DEF createOrder
  <2>2. PICK n, order : /\ Advance(c, n) /\ n \in CycleType /\ CycleOK(n)'
                        /\ n.order = Len(orders) + 1 /\ order \in OrderType
                        /\ orders' = Append(orders, order)
    BY <1>3, CreateEffect
  <2>3. /\ orders' \in Seq(OrderType) /\ n.order \notin DOMAIN orders
        /\ \A i \in DOMAIN orders : i \in DOMAIN orders' /\ orders'[i] = orders[i]
    BY <1>0, <2>2
  <2> QED BY <1>0, <2>1, <2>2, <2>3, MoveKeeps, FaultCounts
<1>4. ASSUME NEW c \in Cycles, executeHedge(c) PROVE HedgeInv'
  <2>1. UNCHANGED <<exposure, orders, trades>>
    BY <1>4 DEF executeHedge
  <2>2. PICK n : Advance(c, n) /\ n \in CycleType /\ CycleOK(n) /\ n.order = cycle[c].order
    BY <1>4, ExecuteEffect
  <2>3. resting' \in [Outcomes -> Nat] /\ (faults' = faults \/ Fault)
    BY <1>4, ExecuteEffect
  <2> QED BY <2>1, <2>2, <2>3, OrdersStayKeeps, FaultCounts
<1>5. ASSUME NEW c \in Cycles, recordResult(c) \/ markFailed(c) PROVE HedgeInv'
  <2>1. UNCHANGED <<exposure, resting, trades, faults>>
    BY <1>5 DEF recordResult, markFailed
  <2> DEFINE status == IF cycle[c].pc = "update" THEN cycle[c].result ELSE "FAILED"
  <2>2. status \in Statuses
    BY <1>5 DEF HedgeInv, CycleType, Statuses
  <2>3. cycle[c].pc \in Working /\ orders' = [orders EXCEPT ![cycle[c].order].status = status]
    BY <1>5, UpdateEffect DEF Working
  <2>4. PICK n : Advance(c, n) /\ Turned(n)
    BY <1>5, UpdateEffect
  <2> HIDE DEF status
  <2>5. /\ orders' \in Seq(OrderType) /\ DOMAIN orders' = DOMAIN orders
        /\ \A i \in DOMAIN orders : i # cycle[c].order => orders'[i] = orders[i]
    BY <2>2, <2>3, UpdatedOrders
  <2> QED BY <2>1, <2>4, <2>5, TurnKeeps, FaultCounts
<1>6. ASSUME NEW c \in Cycles, AwaitFails(c) PROVE HedgeInv'
  <2>1. UNCHANGED <<exposure, orders, resting, trades>>
    BY <1>6 DEF AwaitFails
  <2>2. Fault /\ \E n : /\ Advance(c, n) /\ n \in CycleType /\ CycleOK(n)
                        /\ n.order \in {0, cycle[c].order}
    BY <1>6, AwaitFailsEffect, IdleIs
  <2> QED BY <1>0, <2>1, <2>2, OrdersStayKeeps, FaultCounts
<1>7. CASE Crash
  <2>1. UNCHANGED <<exposure, orders, resting, trades>> /\ Fault /\ cycle' = [c \in Cycles |-> Idle]
    BY <1>7 DEF Crash
  <2>2. faults' \in 0..MaxFaults
    BY <2>1, FaultCounts
  <2>3. cycle' \in [Cycles -> CycleType] /\ \A c \in Cycles : cycle'[c] = Idle
    BY <2>1, IdleIs
  <2>4. CycleOK(Idle)'
    BY IdleIs DEF CycleOK, Idle, Working
  <2>5. \A c \in Cycles : CycleOK(cycle[c])' /\ cycle'[c].order = 0
    BY <2>3, <2>4, IdleIs DEF CycleOK
  <2> QED BY <1>0, <2>1, <2>2, <2>3, <2>5 DEF HedgeInv, Exposures
<1>8. ASSUME NEW o \in Outcomes, NEW side \in Sides, NEW n \in 0..MaxNotional, trade(o, side, n)
      PROVE  HedgeInv'
  <2>1. /\ UNCHANGED <<orders, cycle, resting, faults>>
        /\ exposure' = [exposure EXCEPT ![o][side] = n]
        /\ trades < MaxTrades /\ trades' = trades + 1
    BY <1>8 DEF trade
  <2>2. exposure' \in Exposures
    <3>1. exposure[o] \in [Sides -> 0..MaxNotional]
      BY DEF HedgeInv, Exposures
    <3>2. [exposure[o] EXCEPT ![side] = n] \in [Sides -> 0..MaxNotional]
      BY <3>1
    <3> QED BY <2>1, <3>2 DEF HedgeInv, Exposures
  <2>3. trades' \in 0..MaxTrades
    BY <2>1, HedgeAssumption DEF HedgeInv
  <2>4. \A c \in Cycles : CycleOK(cycle[c])'
    BY <2>1 DEF HedgeInv, CycleOK
  <2> QED BY <2>1, <2>2, <2>3, <2>4 DEF HedgeInv, Exposures
<1>9. CASE UNCHANGED vars
  BY <1>9 DEF vars, HedgeInv, CycleOK, Exposures
<1> QED BY <1>1, <1>2, <1>3, <1>4, <1>5, <1>6, <1>7, <1>8, <1>9 DEF Next, Step

\* The inductive invariant of the hedge loop, for any number of cycles under
\* way at once.
THEOREM HedgeIsSound == Spec => []HedgeInv
<1> QED BY HedgeInit, HedgeStep, PTL DEF Spec

\* Exposure, orders, cycles and what rests at the venue are well typed, and no
\* order exceeds the cap (buildHedgeCandidates selects an outcome whenever it
\* makes a candidate).
THEOREM HedgeTypes == Spec => []TypeOK
<1>1. HedgeInv => TypeOK
  <2> SUFFICES ASSUME HedgeInv PROVE TypeOK
    OBVIOUS
  <2>1. \A i \in DOMAIN orders : orders[i] \in OrderType
    BY DEF HedgeInv
  <2>2. ASSUME NEW c \in Cycles
        PROVE  /\ cycle[c].pc \in {"idle", "find", "create", "send", "update", "fail"}
               /\ cycle[c].order \in 0..Len(orders)
               /\ cycle[c].pc = "idle" <=> cycle[c].todo = <<>>
    <3>1. cycle[c] \in CycleType /\ CycleOK(cycle[c]) /\ orders \in Seq(OrderType)
      BY DEF HedgeInv
    <3>2. cycle[c].order = 0 \/ cycle[c].order \in DOMAIN orders
      BY <3>1 DEF CycleOK
    <3> QED BY <3>1, <3>2 DEF CycleType, CycleOK
  <2> QED BY <2>1, <2>2 DEF HedgeInv, TypeOK, Exposures, OrderType
<1> QED BY <1>1, HedgeIsSound, PTL

\* Netting per market and netting per outcome agree: a breach always has an
\* outcome whose position a hedge reduces (exposure-service.ts sums both from the
\* same rows, buildHedgeCandidates decides by both).
THEOREM BreachesAreHedgeable == Spec => []BreachIsHedgeable
<1>1. HedgeInv => BreachIsHedgeable
  BY HedgeAssumption, BreachIsAnswerable DEF HedgeInv
<1> QED BY <1>1, HedgeIsSound, PTL

---------------------------------------------------------------------------
(* Open orders.                                                            *)

\* Cycle x has found no open order of outcome o and is about to create one.
Creates(x, o) == x.pc = "create" /\ x.todo[FirstOf(x.todo)].outcome = o

Creators(o) == {c \in Cycles : Creates(cycle[c], o)}

\* Every open order of an outcome, and every one about to be created, has been
\* begun by a cycle of its own.
OpenBound ==
    \A o \in Outcomes :
        Cardinality(OpenOrders(o)) + Cardinality(Creators(o)) <= Cardinality(Cycles)

\* The sets that are counted are finite.
LEMMA CountsAreFinite ==
    ASSUME HedgeInv, NEW o
    PROVE  /\ IsFiniteSet(DOMAIN orders)
           /\ IsFiniteSet(OpenOrders(o)) /\ Cardinality(OpenOrders(o)) \in Nat
           /\ IsFiniteSet(Creators(o)) /\ Cardinality(Creators(o)) \in Nat
           /\ IsFiniteSet(Cycles) /\ Cardinality(Cycles) \in Nat
           /\ Cardinality(Creators(o)) <= Cardinality(Cycles)
<1>1. IsFiniteSet(DOMAIN orders)
  <2>1. Len(orders) \in Nat /\ DOMAIN orders = 1..Len(orders)
    BY DEF HedgeInv
  <2> QED BY <2>1, FS_Interval
<1>2. IsFiniteSet(Cycles)
  BY HedgeAssumption
<1>3. OpenOrders(o) \in SUBSET DOMAIN orders /\ Creators(o) \in SUBSET Cycles
  BY DEF OpenOrders, Creators
<1> QED BY <1>1, <1>2, <1>3, FS_Subset, FS_CardinalityType

\* The bound survives a step that opens nothing and brings no cycle to a create.
LEMMA FewerOpenKeeps ==
    ASSUME HedgeInv, NEW o,
           Cardinality(OpenOrders(o)) + Cardinality(Creators(o)) <= Cardinality(Cycles),
           OpenOrders(o)' \subseteq OpenOrders(o), Creators(o)' \subseteq Creators(o)
    PROVE  (Cardinality(OpenOrders(o)) + Cardinality(Creators(o)) <= Cardinality(Cycles))'
<1>1. /\ Cardinality(OpenOrders(o)') <= Cardinality(OpenOrders(o))
      /\ Cardinality(Creators(o)') <= Cardinality(Creators(o))
      /\ Cardinality(OpenOrders(o)') \in Nat /\ Cardinality(Creators(o)') \in Nat
  BY CountsAreFinite, FS_Subset, FS_CardinalityType
<1> QED BY <1>1, CountsAreFinite

\* Of the cycles only the one that moves may come to a create.
LEMMA CreatorsMove ==
    ASSUME HedgeInv, NEW c \in Cycles, NEW n, Advance(c, n), NEW o
    PROVE  /\ ~Creates(n, o) => Creators(o)' = Creators(o) \ {c}
           /\ Creators(o)' \subseteq Creators(o) \cup {c}
<1>1. \A d \in Cycles : cycle'[d] = IF d = c THEN n ELSE cycle[d]
  BY DEF HedgeInv, Advance
<1> QED BY <1>1 DEF Creators, Creates

\* Updates only close orders.
LEMMA OpenOrdersShrink ==
    ASSUME HedgeInv, NEW c \in Cycles, recordResult(c) \/ markFailed(c), NEW o
    PROVE  OpenOrders(o)' \subseteq OpenOrders(o)
<1> DEFINE status == IF cycle[c].pc = "update" THEN cycle[c].result ELSE "FAILED"
<1>1. status \in Statuses
  BY DEF HedgeInv, CycleType, Statuses
<1>2. cycle[c].pc \in Working /\ orders' = [orders EXCEPT ![cycle[c].order].status = status]
  BY UpdateEffect DEF Working
<1> HIDE DEF status
<1>3. /\ DOMAIN orders' = DOMAIN orders
      /\ \A i \in DOMAIN orders : /\ orders'[i].outcome = orders[i].outcome
                                  /\ i # cycle[c].order => orders'[i] = orders[i]
  BY <1>1, <1>2, UpdatedOrders
<1>4. orders[cycle[c].order].status = "PENDING"
  BY <1>2 DEF HedgeInv, CycleOK
<1> QED BY <1>3, <1>4 DEF OpenOrders, OPEN_HEDGE_STATUSES

\* Every step keeps the bound.
LEMMA OpenStep == HedgeInv /\ OpenBound /\ [Next]_vars => OpenBound'
<1> SUFFICES ASSUME HedgeInv, OpenBound, [Next]_vars, NEW o \in Outcomes
             PROVE  (Cardinality(OpenOrders(o)) + Cardinality(Creators(o)) <= Cardinality(Cycles))'
  BY DEF OpenBound
<1>0. Cardinality(OpenOrders(o)) + Cardinality(Creators(o)) <= Cardinality(Cycles)
  BY DEF OpenBound
<1>1. SUFFICES ASSUME ~(OpenOrders(o)' \subseteq OpenOrders(o) /\ Creators(o)' \subseteq Creators(o))
               PROVE  (Cardinality(OpenOrders(o)) + Cardinality(Creators(o)) <= Cardinality(Cycles))'
  BY <1>0, FewerOpenKeeps
<1>2. orders' = orders => OpenOrders(o)' = OpenOrders(o)
  BY DEF OpenOrders
<1>3. ASSUME NEW c \in Cycles, NEW n, Advance(c, n), n.pc # "create"
      PROVE  Creators(o)' = Creators(o) \ {c}
  BY <1>3, CreatorsMove DEF Creates
<1>4. ASSUME NEW c \in Cycles, startCycle(c) PROVE FALSE
  <2>1. \E n : Advance(c, n) /\ n.pc # "create"
    BY <1>4, StartEffect DEF Turned
  <2> QED BY <1>1, <1>2, <1>3, <1>4, <2>1 DEF startCycle
<1>5. ASSUME NEW c \in Cycles, findOpenOrder(c)
      PROVE  (Cardinality(OpenOrders(o)) + Cardinality(Creators(o)) <= Cardinality(Cycles))'
  <2>0. orders' = orders
    BY <1>5 DEF findOpenOrder
  <2>1. PICK n : /\ Advance(c, n)
                 /\ \/ n.pc # "create"
                    \/ n.todo = cycle[c].todo /\ OpenOrders(Candidate(c).outcome) = {}
    BY <1>5, FindEffect DEF Turned
  <2>2. Creates(n, o)
    BY <2>0, <2>1, <1>1, <1>2, CreatorsMove
  <2>3. Candidate(c).outcome = o
    <3>1. ~At(c, "idle")
      BY <1>5 DEF findOpenOrder, At
    <3> QED BY <2>1, <2>2, <3>1, CandidateIs DEF Creates
  <2>4. OpenOrders(o)' = {}
    BY <1>2, <2>0, <2>1, <2>2, <2>3 DEF Creates
  <2>5. Creators(o)' \in SUBSET Cycles
    BY DEF Creators
  <2>6. Cardinality(Creators(o)') <= Cardinality(Cycles) /\ Cardinality(Creators(o)') \in Nat
    BY <2>5, CountsAreFinite, FS_Subset, FS_CardinalityType
  <2>7. Cardinality(OpenOrders(o)') = 0
    BY <2>4, FS_EmptySet
  <2> QED BY <2>6, <2>7, CountsAreFinite
<1>6. ASSUME NEW c \in Cycles, createOrder(c)
      PROVE  (Cardinality(OpenOrders(o)) + Cardinality(Creators(o)) <= Cardinality(Cycles))'
  <2>1. PICK n, order : /\ Advance(c, n) /\ n.pc = "send"
                        /\ order.outcome = Candidate(c).outcome
                        /\ orders' = Append(orders, order)
    BY <1>6, CreateEffect
  <2>2. cycle[c].pc = "create" /\ ~At(c, "idle")
    BY <1>6, CreateEffect DEF At
  <2>3. Creators(o)' = Creators(o) \ {c}
    BY <1>3, <2>1
  <2>4. orders \in Seq(OrderType)
    BY DEF HedgeInv
  <2>5. OpenOrders(o)' \subseteq OpenOrders(o) \cup
            (IF order.outcome = o THEN {Len(orders) + 1} ELSE {})
    BY <2>1, <2>4 DEF OpenOrders
  <2>6. order.outcome = o
    BY <1>1, <2>3, <2>5
  <2>7. c \in Creators(o)
    BY <2>1, <2>2, <2>6, CandidateIs DEF Creators, Creates
  <2>8. Cardinality(Creators(o)') = Cardinality(Creators(o)) - 1
    BY <2>3, <2>7, CountsAreFinite, FS_RemoveElement
  <2>9. /\ Cardinality(OpenOrders(o)') \in Nat
        /\ Cardinality(OpenOrders(o)') <= Cardinality(OpenOrders(o)) + 1
    <3> DEFINE more == OpenOrders(o) \cup {Len(orders) + 1}
    <3>1. IsFiniteSet(more) /\ Cardinality(more) <= Cardinality(OpenOrders(o)) + 1
      <4> DEFINE new == Len(orders) + 1
                 old == OpenOrders(o)
      <4>1. IsFiniteSet(old) /\ Cardinality(old) \in Nat
        BY CountsAreFinite
      <4> HIDE DEF new, old
      <4>2. /\ IsFiniteSet(old \cup {new})
            /\ Cardinality(old \cup {new}) = IF new \in old THEN Cardinality(old) ELSE Cardinality(old) + 1
        BY <4>1, FS_AddElement
      <4>3. Cardinality(old \cup {new}) <= Cardinality(old) + 1
        BY <4>1, <4>2
      <4> QED BY <4>2, <4>3 DEF new, old
    <3>2. OpenOrders(o)' \in SUBSET more
      BY <2>5, <2>6
    <3> HIDE DEF more
    <3>3. /\ Cardinality(OpenOrders(o)') \in Nat
          /\ Cardinality(OpenOrders(o)') <= Cardinality(more) /\ Cardinality(more) \in Nat
      BY <3>1, <3>2, FS_Subset, FS_CardinalityType
    <3> QED BY <3>1, <3>3, CountsAreFinite
  <2> QED BY <1>0, <2>8, <2>9, CountsAreFinite
<1>7. ASSUME NEW c \in Cycles, executeHedge(c) PROVE FALSE
  <2>1. \E n : Advance(c, n) /\ n.pc # "create"
    BY <1>7, ExecuteEffect
  <2> QED BY <1>1, <1>2, <1>3, <1>7, <2>1 DEF executeHedge
<1>8. ASSUME NEW c \in Cycles, recordResult(c) \/ markFailed(c) PROVE FALSE
  <2>1. \E n : Advance(c, n) /\ n.pc # "create"
    BY <1>8, UpdateEffect DEF Turned
  <2> QED BY <1>1, <1>3, <1>8, <2>1, OpenOrdersShrink
<1>9. ASSUME NEW c \in Cycles, AwaitFails(c) PROVE FALSE
  <2>1. \E n : Advance(c, n) /\ n.pc # "create"
    BY <1>9, AwaitFailsEffect, IdleIs
  <2> QED BY <1>1, <1>2, <1>3, <1>9, <2>1 DEF AwaitFails
<1>10. CASE Crash
  <2>1. Creators(o)' = {}
    BY <1>10, IdleIs DEF Crash, Creators, Creates
  <2> QED BY <1>1, <1>2, <1>10, <2>1 DEF Crash
<1>11. CASE UNCHANGED <<orders, cycle>>
  BY <1>1, <1>2, <1>11 DEF Creators
<1> QED BY <1>4, <1>5, <1>6, <1>7, <1>8, <1>9, <1>10, <1>11 DEF Next, Step, trade, vars

\* The bound holds at first.
LEMMA OpenInit == Init => OpenBound
<1> SUFFICES ASSUME Init, NEW o \in Outcomes
             PROVE  Cardinality(OpenOrders(o)) + Cardinality(Creators(o)) <= Cardinality(Cycles)
  BY DEF OpenBound
<1>1. OpenOrders(o) = {} /\ Creators(o) = {}
  BY IdleIs DEF Init, OpenOrders, Creators, Creates
<1> QED BY <1>1, FS_EmptySet, FS_CardinalityType, HedgeAssumption

\* However many cycles overlap, they open at most one order of an outcome each:
\* one that begins its search later finds what the others have created.
THEOREM OneOrderPerCycle == Spec => []OneOpenOrderPerCycle
<1>2. HedgeInv /\ OpenBound => OneOpenOrderPerCycle
  <2> SUFFICES ASSUME HedgeInv, OpenBound, NEW o \in Outcomes
               PROVE  Cardinality(OpenOrders(o)) <= Cardinality(Cycles)
    BY DEF OneOpenOrderPerCycle
  <2> QED BY CountsAreFinite DEF OpenBound
<1>3. Spec => [](HedgeInv /\ OpenBound)
  BY OpenInit, OpenStep, HedgeInit, HedgeStep, PTL DEF Spec
<1> QED BY <1>2, <1>3, PTL

---------------------------------------------------------------------------
(* Resting orders.                                                         *)

\* The order of cycle x does not rest at the venue, or x will not record that
\* it does.
Unsure(x) ==
    \/ x.pc \in {"send", "fail"}
    \/ x.pc = "update" /\ x.result \notin {"SUBMITTED", "PARTIALLY_FILLED"}

\* The open orders of outcome o that may rest at the venue.
Rested(o) ==
    {i \in OpenOrders(o) : \A c \in Cycles : cycle[c].order = i => ~Unsure(cycle[c])}

\* What rests at the venue is on record as open, but for one order per failure.
RestBound == \A o \in Outcomes : resting[o] <= faults + Cardinality(Rested(o))

\* They are finitely many.
LEMMA RestedIsFinite ==
    ASSUME HedgeInv, NEW o
    PROVE  /\ IsFiniteSet(Rested(o)) /\ Cardinality(Rested(o)) \in Nat
           /\ Cardinality(Rested(o)) <= Cardinality(OpenOrders(o))
<1>1. Rested(o) \in SUBSET OpenOrders(o)
  BY DEF Rested
<1> QED BY <1>1, CountsAreFinite, FS_Subset, FS_CardinalityType

\* The bound survives a step that loses no order, or one and fails; and one after
\* which one more rests, if it is one more on record or the step fails.
LEMMA RestKeeps ==
    ASSUME HedgeInv, HedgeInv', NEW o \in Outcomes, resting[o] <= faults + Cardinality(Rested(o)),
           \/ /\ resting'[o] = resting[o] /\ faults' >= faults
              /\ Rested(o) \subseteq Rested(o)'
           \/ /\ resting'[o] = resting[o] /\ faults' = faults + 1
              /\ \E i : Rested(o) \subseteq Rested(o)' \cup {i}
           \/ /\ resting'[o] = resting[o] + 1 /\ faults' = faults + 1
              /\ Rested(o) \subseteq Rested(o)'
           \/ /\ resting'[o] = resting[o] + 1 /\ faults' >= faults
              /\ \E i : i \notin Rested(o) /\ Rested(o) \cup {i} \subseteq Rested(o)'
    PROVE  (resting[o] <= faults + Cardinality(Rested(o)))'
<1> DEFINE R == Rested(o)
<1>1. PICK S : S = Rested(o)'
  OBVIOUS
<1>2. IsFiniteSet(R) /\ Cardinality(R) \in Nat
  BY RestedIsFinite
<1>3. IsFiniteSet(S) /\ Cardinality(S) \in Nat
  <2>1. orders' \in Seq(OrderType)
    BY DEF HedgeInv
  <2>2. PICK len : len \in Nat /\ DOMAIN orders' = 1..len
    BY <2>1
  <2>3. S \in SUBSET (1..len)
    BY <1>1, <2>2 DEF Rested, OpenOrders
  <2>4. IsFiniteSet(1..len)
    BY <2>2, FS_Interval
  <2> QED BY <2>3, <2>4, FS_Subset, FS_CardinalityType
<1>4. /\ resting[o] \in Nat /\ resting'[o] \in Nat /\ faults \in Nat /\ faults' \in Nat
      /\ resting[o] <= faults + Cardinality(R)
  BY HedgeAssumption DEF HedgeInv
<1> HIDE DEF R
<1>5. R \subseteq S => Cardinality(R) <= Cardinality(S)
  BY <1>3, FS_Subset
<1>6. ASSUME NEW i, R \subseteq S \cup {i} PROVE Cardinality(R) <= Cardinality(S) + 1
  <2>1. IsFiniteSet(S \cup {i}) /\ Cardinality(S \cup {i}) \in {Cardinality(S), Cardinality(S) + 1}
    BY <1>3, FS_AddElement
  <2>2. Cardinality(R) <= Cardinality(S \cup {i})
    BY <1>6, <2>1, FS_Subset
  <2> QED BY <1>2, <1>3, <2>1, <2>2
<1>7. ASSUME NEW i, i \notin R, R \cup {i} \subseteq S PROVE Cardinality(R) + 1 <= Cardinality(S)
  <2>1. IsFiniteSet(R \cup {i}) /\ Cardinality(R \cup {i}) = Cardinality(R) + 1
    BY <1>2, <1>7, FS_AddElement
  <2> QED BY <1>3, <1>7, <2>1, FS_Subset
<1>8. resting'[o] <= faults' + Cardinality(S)
  <2>1. CASE resting'[o] = resting[o] /\ faults' >= faults /\ R \subseteq S
    BY <1>2, <1>3, <1>4, <1>5, <2>1
  <2>2. CASE resting'[o] = resting[o] /\ faults' = faults + 1 /\ \E i : R \subseteq S \cup {i}
    <3>1. Cardinality(R) <= Cardinality(S) + 1
      BY <1>6, <2>2
    <3>2. resting'[o] = resting[o] /\ faults' = faults + 1
      BY <2>2
    <3> QED BY <1>2, <1>3, <1>4, <3>1, <3>2
  <2>3. CASE resting'[o] = resting[o] + 1 /\ faults' = faults + 1 /\ R \subseteq S
    BY <1>2, <1>3, <1>4, <1>5, <2>3
  <2>4. CASE /\ resting'[o] = resting[o] + 1 /\ faults' >= faults
             /\ \E i : i \notin R /\ R \cup {i} \subseteq S
    <3>1. Cardinality(R) + 1 <= Cardinality(S)
      BY <1>7, <2>4
    <3>2. resting'[o] = resting[o] + 1 /\ faults' >= faults
      BY <2>4
    <3> QED BY <1>2, <1>3, <1>4, <3>1, <3>2
  <2> QED BY <1>1, <2>1, <2>2, <2>3, <2>4 DEF R
<1> QED BY <1>1, <1>8

\* Only the cycle that moves changes what it holds.
LEMMA RestedMoves ==
    ASSUME HedgeInv, NEW c \in Cycles, NEW n, Advance(c, n), NEW o, NEW i \in Rested(o),
           i \in OpenOrders(o)', n.order = i => ~Unsure(n)
    PROVE  i \in Rested(o)'
<1>1. \A d \in Cycles : cycle'[d] = IF d = c THEN n ELSE cycle[d]
  BY DEF HedgeInv, Advance
<1> QED BY <1>1 DEF Rested, Unsure

\* Every step keeps the bound.
LEMMA RestStep == HedgeInv /\ HedgeInv' /\ RestBound /\ [Next]_vars => RestBound'
<1> SUFFICES ASSUME HedgeInv, HedgeInv', RestBound, [Next]_vars, NEW o \in Outcomes
             PROVE  (resting[o] <= faults + Cardinality(Rested(o)))'
  BY DEF RestBound
<1>0. resting[o] <= faults + Cardinality(Rested(o))
  BY DEF RestBound
<1>1. /\ \A i \in Rested(o) : i \in DOMAIN orders /\ i # 0 /\ i \in OpenOrders(o)
      /\ orders' = orders => OpenOrders(o)' = OpenOrders(o)
      /\ faults \in Nat /\ (faults' = faults \/ Fault => faults' >= faults)
  BY HedgeAssumption DEF Rested, OpenOrders, HedgeInv, Fault
<1>2. ASSUME NEW c \in Cycles, startCycle(c) \/ findOpenOrder(c)
      PROVE  (resting[o] <= faults + Cardinality(Rested(o)))'
  <2>1. UNCHANGED <<orders, resting, faults>>
    BY <1>2 DEF startCycle, findOpenOrder
  <2>2. PICK n : Advance(c, n) /\ n.order = 0
    BY <1>2, StartEffect, FindEffect DEF Turned
  <2>3. Rested(o) \subseteq Rested(o)'
    BY <1>1, <2>1, <2>2, RestedMoves
  <2> QED BY <1>0, <1>1, <2>1, <2>3, RestKeeps
<1>3. ASSUME NEW c \in Cycles, createOrder(c)
      PROVE  (resting[o] <= faults + Cardinality(Rested(o)))'
  <2>1. UNCHANGED <<resting, faults>>
    BY <1>3 DEF createOrder
  <2>2. PICK n, order : Advance(c, n) /\ n.order = Len(orders) + 1 /\ orders' = Append(orders, order)
    BY <1>3, CreateEffect
  <2>3. orders \in Seq(OrderType)
    BY DEF HedgeInv
  <2>4. ASSUME NEW i \in Rested(o) PROVE i \in OpenOrders(o)' /\ n.order # i
    BY <1>1, <2>2, <2>3 DEF OpenOrders
  <2>5. Rested(o) \subseteq Rested(o)'
    BY <2>2, <2>4, RestedMoves
  <2> QED BY <1>0, <1>1, <2>1, <2>5, RestKeeps
<1>4. ASSUME NEW c \in Cycles, executeHedge(c)
      PROVE  (resting[o] <= faults + Cardinality(Rested(o)))'
  <2>1. orders' = orders /\ cycle[c].pc = "send" /\ faults' >= faults
    BY <1>1, <1>4, ExecuteEffect DEF executeHedge
  <2>2. PICK n :
           /\ Advance(c, n) /\ n.order = cycle[c].order
           /\ \/ resting'[o] = resting[o]
              \/ /\ resting'[o] = resting[o] + 1 /\ o = Candidate(c).outcome
                 /\ \/ n.pc = "update" /\ n.result \in {"SUBMITTED", "PARTIALLY_FILLED"}
                    \/ faults' = faults + 1
    BY <1>4, ExecuteEffect
  <2>3. cycle[c].order \notin Rested(o)
    BY <2>1 DEF Rested, Unsure
  <2>4. Rested(o) \subseteq Rested(o)'
    BY <1>1, <2>1, <2>2, <2>3, RestedMoves
  <2>5. CASE resting'[o] = resting[o]
    BY <1>0, <2>1, <2>4, <2>5, RestKeeps
  <2>6. CASE resting'[o] = resting[o] + 1 /\ faults' = faults + 1
    BY <1>0, <2>4, <2>6, RestKeeps
  <2>7. CASE /\ resting'[o] = resting[o] + 1 /\ o = Candidate(c).outcome
             /\ n.pc = "update" /\ n.result \in {"SUBMITTED", "PARTIALLY_FILLED"}
    <3> DEFINE k == cycle[c].order
    <3>1. /\ k \in DOMAIN orders /\ orders[k].status = "PENDING"
          /\ orders[k].outcome = cycle[c].todo[FirstOf(cycle[c].todo)].outcome
      BY <2>1 DEF HedgeInv, CycleOK, Working
    <3>2. orders[k].outcome = o
      BY <2>1, <2>7, <3>1, CandidateIs DEF At
    <3>3. k \in OpenOrders(o)'
      BY <1>1, <2>1, <3>1, <3>2 DEF OpenOrders, OPEN_HEDGE_STATUSES
    <3>4. ASSUME NEW d \in Cycles, cycle'[d].order = k PROVE ~Unsure(cycle'[d])
      <4>1. cycle'[d] = IF d = c THEN n ELSE cycle[d]
        BY <2>2 DEF HedgeInv, Advance
      <4>2. d = c
        <5>1. k # 0
          BY <3>1 DEF HedgeInv
        <5> QED BY <4>1, <3>4, <5>1 DEF HedgeInv
      <4> QED BY <2>7, <4>1, <4>2 DEF Unsure
    <3>5. k \in Rested(o)'
      BY <3>3, <3>4 DEF Rested, Unsure
    <3> HIDE DEF k
    <3> QED BY <1>0, <2>1, <2>3, <2>4, <2>7, <3>5, RestKeeps DEF k
  <2> QED BY <2>2, <2>5, <2>6, <2>7
<1>5. ASSUME NEW c \in Cycles, recordResult(c) \/ markFailed(c)
      PROVE  (resting[o] <= faults + Cardinality(Rested(o)))'
  <2>1. UNCHANGED <<resting, faults>>
    BY <1>5 DEF recordResult, markFailed
  <2>2. PICK n : Advance(c, n) /\ n.order = 0
    BY <1>5, UpdateEffect DEF Turned
  <2> DEFINE status == IF cycle[c].pc = "update" THEN cycle[c].result ELSE "FAILED"
  <2>3. status \in Statuses
    BY DEF HedgeInv, CycleType, Statuses
  <2>4. cycle[c].pc \in {"update", "fail"} /\ orders' = [orders EXCEPT ![cycle[c].order].status = status]
    BY <1>5, UpdateEffect
  <2>5. cycle[c].order \in Rested(o) => status \in {"SUBMITTED", "PARTIALLY_FILLED"}
    BY <2>4 DEF Rested, Unsure
  <2> HIDE DEF status
  <2>6. /\ DOMAIN orders' = DOMAIN orders
        /\ \A i \in DOMAIN orders :
              /\ orders'[i].outcome = orders[i].outcome
              /\ i # cycle[c].order => orders'[i] = orders[i]
              /\ i = cycle[c].order => orders'[i].status = status
    BY <2>3, <2>4, UpdatedOrders DEF Working
  <2>7. ASSUME NEW i \in Rested(o) PROVE i \in OpenOrders(o)'
    BY <1>1, <2>5, <2>6 DEF OpenOrders, OPEN_HEDGE_STATUSES
  <2>8. Rested(o) \subseteq Rested(o)'
    BY <1>1, <2>2, <2>7, RestedMoves
  <2> QED BY <1>0, <1>1, <2>1, <2>8, RestKeeps
<1>6. ASSUME NEW c \in Cycles, AwaitFails(c)
      PROVE  (resting[o] <= faults + Cardinality(Rested(o)))'
  <2>1. UNCHANGED <<orders, resting>> /\ faults' = faults + 1
    BY <1>6 DEF AwaitFails, Fault
  <2>2. PICK n : Advance(c, n) /\ n.order \in {0, cycle[c].order}
    BY <1>6, AwaitFailsEffect, IdleIs
  <2>3. ASSUME NEW i \in Rested(o), i # cycle[c].order PROVE i \in Rested(o)'
    BY <1>1, <2>1, <2>2, <2>3, RestedMoves
  <2>4. Rested(o) \subseteq Rested(o)' \cup {cycle[c].order}
    BY <2>3
  <2> QED BY <1>0, <2>1, <2>4, RestKeeps
<1>7. CASE Crash
  <2>1. UNCHANGED <<orders, resting>> /\ faults' = faults + 1 /\ \A c \in Cycles : cycle'[c] = Idle
    BY <1>7 DEF Crash, Fault
  <2>2. \A i \in Rested(o) : i \in Rested(o)'
    BY <1>1, <2>1, IdleIs DEF Rested, Unsure
  <2>3. Rested(o) \subseteq Rested(o)'
    BY <2>2
  <2> QED BY <1>0, <1>1, <2>1, <2>3, RestKeeps
<1>8. CASE UNCHANGED <<orders, cycle, resting, faults>>
  <2>1. Rested(o)' = Rested(o)
    BY <1>8 DEF Rested, OpenOrders, Unsure
  <2> QED BY <1>0, <1>8, <2>1
<1> QED BY <1>2, <1>3, <1>4, <1>5, <1>6, <1>7, <1>8 DEF Next, Step, trade, vars

\* However many cycles overlap, what rests at the venue beyond one order for each
\* of them is due to failures: an answer or an update that was lost.
THEOREM DuplicatesAreFailures == Spec => []RestingNeedsFailures
<1>1. Init => RestBound
  <2> SUFFICES ASSUME Init, NEW o \in Outcomes
               PROVE  resting[o] <= faults + Cardinality(Rested(o))
    BY DEF RestBound
  <2>1. Rested(o) = {} /\ resting[o] = 0 /\ faults = 0
    BY DEF Init, Rested, OpenOrders
  <2> QED BY <2>1, FS_EmptySet
<1>2. HedgeInv /\ OpenBound /\ RestBound => RestingNeedsFailures
  <2> SUFFICES ASSUME HedgeInv, OpenBound, RestBound, NEW o \in Outcomes
               PROVE  resting[o] <= Cardinality(Cycles) + faults
    BY DEF RestingNeedsFailures
  <2>1. resting[o] \in Nat /\ faults \in Nat
    BY HedgeAssumption DEF HedgeInv
  <2> QED BY <2>1, CountsAreFinite, RestedIsFinite DEF OpenBound, RestBound
<1>3. Init => OpenBound
  BY OpenInit
<1>4. Spec => [](HedgeInv /\ OpenBound /\ RestBound)
  BY <1>1, <1>3, OpenStep, RestStep, HedgeInit, HedgeStep, PTL DEF Spec
<1> QED BY <1>2, <1>4, PTL

---------------------------------------------------------------------------
(* Orphans.                                                                *)

\* The bound survives a step after which only orders that cycles held may have
\* become orphans, if it is a failure, and none if it is not.
LEMMA OrphansKeep ==
    ASSUME HedgeInv, OrphansNeedFailures,
           \/ Orphans' \subseteq Orphans /\ (faults' = faults \/ Fault)
           \/ Orphans' \subseteq Orphans \cup {cycle[c].order : c \in Cycles} /\ Fault
    PROVE  OrphansNeedFailures'
<1> DEFINE C == Cardinality(Cycles)
<1>1. /\ IsFiniteSet(Orphans) /\ Cardinality(Orphans) \in Nat
      /\ IsFiniteSet(Cycles) /\ C \in Nat /\ faults \in Nat
  <2>1. Orphans \in SUBSET DOMAIN orders
    BY DEF Orphans
  <2> QED BY <2>1, CountsAreFinite, FS_Subset, FS_CardinalityType, HedgeAssumption DEF HedgeInv
<1>2. Cardinality(Orphans) <= C * faults
  BY DEF OrphansNeedFailures
<1>3. PICK S : S = Orphans'
  OBVIOUS
<1> HIDE DEF C
<1>4. C * faults \in Nat /\ C * (faults + 1) = C * faults + C
  BY <1>1
<1>5. faults' = faults \/ Fault => C * faults <= C * faults'
  BY <1>1, <1>4 DEF Fault
<1>6. CASE S \subseteq Orphans /\ (faults' = faults \/ Fault)
  <2>1. Cardinality(S) <= Cardinality(Orphans) /\ Cardinality(S) \in Nat
    BY <1>1, <1>6, FS_Subset, FS_CardinalityType
  <2>2. C * faults' \in Nat
    BY <1>1, <1>6 DEF Fault
  <2>3. Cardinality(S) <= C * faults'
    BY <1>1, <1>2, <1>4, <1>5, <1>6, <2>1, <2>2
  <2> QED BY <1>3, <2>3 DEF OrphansNeedFailures, C
<1>7. CASE S \subseteq Orphans \cup {cycle[c].order : c \in Cycles} /\ Fault
  <2> DEFINE Held == {cycle[c].order : c \in Cycles}
             f == [c \in Cycles |-> cycle[c].order]
  <2>1. f \in Surjection(Cycles, Held)
    BY DEF Surjection
  <2>2. IsFiniteSet(Held) /\ Cardinality(Held) <= C /\ Cardinality(Held) \in Nat
    BY <1>1, <2>1, FS_Surjection, FS_CardinalityType DEF C
  <2> HIDE DEF Held, f
  <2>3. /\ IsFiniteSet(Orphans \cup Held)
        /\ Cardinality(Orphans \cup Held) <= Cardinality(Orphans) + Cardinality(Held)
    <3>1. IsFiniteSet(Orphans \cap Held) /\ Cardinality(Orphans \cap Held) \in Nat
      BY <1>1, FS_Subset, FS_CardinalityType
    <3>2. /\ IsFiniteSet(Orphans \cup Held)
          /\ Cardinality(Orphans \cup Held) =
                Cardinality(Orphans) + Cardinality(Held) - Cardinality(Orphans \cap Held)
      BY <1>1, <2>2, FS_Union
    <3> QED BY <1>1, <2>2, <3>1, <3>2
  <2>4. /\ Cardinality(S) <= Cardinality(Orphans \cup Held)
        /\ Cardinality(S) \in Nat /\ Cardinality(Orphans \cup Held) \in Nat
    BY <1>7, <2>3, FS_Subset, FS_CardinalityType DEF Held
  <2>5. faults' = faults + 1
    BY <1>7 DEF Fault
  <2>6. Cardinality(S) <= C * faults + C
    BY <1>1, <1>2, <1>4, <2>2, <2>3, <2>4
  <2>7. Cardinality(S) <= C * faults'
    BY <1>4, <2>5, <2>6
  <2> QED BY <1>3, <2>7 DEF OrphansNeedFailures, C
<1> QED BY <1>3, <1>6, <1>7

\* Every step keeps it.
LEMMA OrphansStep == HedgeInv /\ OrphansNeedFailures /\ [Next]_vars => OrphansNeedFailures'
<1> SUFFICES ASSUME HedgeInv, OrphansNeedFailures, [Next]_vars PROVE OrphansNeedFailures'
  OBVIOUS
<1>0. ASSUME NEW c \in Cycles, NEW n, Advance(c, n), n.order \in {0, cycle[c].order},
             orders' = orders, n.order = cycle[c].order \/ cycle[c].order = 0
      PROVE  Orphans' \subseteq Orphans
  <2>1. \A d \in Cycles : cycle'[d] = IF d = c THEN n ELSE cycle[d]
    BY <1>0 DEF HedgeInv, Advance
  <2>2. \A i \in DOMAIN orders : i # 0
    BY DEF HedgeInv
  <2> QED BY <1>0, <2>1, <2>2 DEF Orphans
<1>1. ASSUME NEW c \in Cycles, startCycle(c) \/ findOpenOrder(c) PROVE OrphansNeedFailures'
  <2>1. UNCHANGED <<orders, faults>>
    BY <1>1 DEF startCycle, findOpenOrder
  <2>2. \E n : Advance(c, n) /\ n.order = 0 /\ cycle[c].order = 0
    BY <1>1, StartEffect, FindEffect DEF Turned
  <2> QED BY <1>0, <2>1, <2>2, OrphansKeep
<1>2. ASSUME NEW c \in Cycles, createOrder(c) PROVE OrphansNeedFailures'
  <2>1. faults' = faults /\ orders \in Seq(OrderType)
    BY <1>2 DEF createOrder, HedgeInv
  <2>2. PICK n, order : /\ Advance(c, n) /\ n.order = Len(orders) + 1 /\ cycle[c].order = 0
                        /\ orders' = Append(orders, order)
    BY <1>2, CreateEffect
  <2>3. \A d \in Cycles : cycle'[d] = IF d = c THEN n ELSE cycle[d]
    BY <2>2 DEF HedgeInv, Advance
  <2>4. ASSUME NEW i \in Orphans' PROVE i \in Orphans
    <3>1. i \in DOMAIN orders' /\ i # n.order
      BY <2>3 DEF Orphans
    <3>2. i \in DOMAIN orders /\ orders'[i] = orders[i] /\ i # 0
      BY <2>1, <2>2, <3>1
    <3> QED BY <2>2, <2>3, <3>2 DEF Orphans
  <2> QED BY <2>1, <2>4, OrphansKeep
<1>3. ASSUME NEW c \in Cycles, executeHedge(c) PROVE OrphansNeedFailures'
  <2>1. orders' = orders /\ (faults' = faults \/ Fault)
    BY <1>3, ExecuteEffect DEF executeHedge
  <2>2. \E n : Advance(c, n) /\ n.order = cycle[c].order
    BY <1>3, ExecuteEffect
  <2> QED BY <1>0, <2>1, <2>2, OrphansKeep
<1>4. ASSUME NEW c \in Cycles, recordResult(c) \/ markFailed(c) PROVE OrphansNeedFailures'
  <2>1. faults' = faults
    BY <1>4 DEF recordResult, markFailed
  <2>2. PICK n : Advance(c, n)
    BY <1>4, UpdateEffect
  <2> DEFINE status == IF cycle[c].pc = "update" THEN cycle[c].result ELSE "FAILED"
  <2>3. status \in Statuses /\ status # "PENDING"
    BY DEF HedgeInv, CycleType, Statuses
  <2>4. cycle[c].pc \in Working /\ orders' = [orders EXCEPT ![cycle[c].order].status = status]
    BY <1>4, UpdateEffect DEF Working
  <2> HIDE DEF status
  <2>5. /\ DOMAIN orders' = DOMAIN orders
        /\ \A i \in DOMAIN orders :
              /\ i # cycle[c].order => orders'[i] = orders[i]
              /\ i = cycle[c].order => orders'[i].status = status
    BY <2>3, <2>4, UpdatedOrders
  <2>6. \A d \in Cycles : cycle'[d] = IF d = c THEN n ELSE cycle[d]
    BY <2>2 DEF HedgeInv, Advance
  <2>7. Orphans' \subseteq Orphans
    BY <2>3, <2>5, <2>6 DEF Orphans
  <2> QED BY <2>1, <2>7, OrphansKeep
<1>5. ASSUME NEW c \in Cycles, AwaitFails(c) PROVE OrphansNeedFailures'
  <2>1. orders' = orders /\ Fault
    BY <1>5 DEF AwaitFails
  <2>2. PICK n : Advance(c, n)
    BY <1>5, AwaitFailsEffect
  <2>3. \A d \in Cycles : cycle'[d] = IF d = c THEN n ELSE cycle[d]
    BY <2>2 DEF HedgeInv, Advance
  <2>4. Orphans' \subseteq Orphans \cup {cycle[d].order : d \in Cycles}
    BY <2>1, <2>3 DEF Orphans
  <2> QED BY <2>1, <2>4, OrphansKeep
<1>6. CASE Crash
  <2>1. orders' = orders /\ Fault
    BY <1>6 DEF Crash
  <2>2. Orphans' \subseteq Orphans \cup {cycle[d].order : d \in Cycles}
    BY <2>1 DEF Orphans
  <2> QED BY <2>1, <2>2, OrphansKeep
<1>7. CASE UNCHANGED <<orders, cycle, faults>>
  BY <1>7 DEF OrphansNeedFailures, Orphans
<1> QED BY <1>1, <1>2, <1>3, <1>4, <1>5, <1>6, <1>7 DEF Next, Step, trade, vars

\* A pending order that no cycle works on is left from one of those that a failure
\* ended: refusals and errors of the venue leave none, however cycles overlap.
THEOREM OrphansAreFailures == Spec => []OrphansNeedFailures
<1>1. Init => OrphansNeedFailures
  <2> SUFFICES ASSUME Init PROVE OrphansNeedFailures
    OBVIOUS
  <2>1. Orphans = {} /\ faults = 0
    BY DEF Init, Orphans
  <2>2. Cardinality(Cycles) * 0 = 0
    BY HedgeAssumption, FS_CardinalityType
  <2> QED BY <2>1, <2>2, FS_EmptySet DEF OrphansNeedFailures
<1> QED BY <1>1, OrphansStep, HedgeInit, HedgeStep, PTL DEF Spec
=============================================================================
