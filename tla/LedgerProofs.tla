---------------------------- MODULE LedgerProofs ----------------------------
(***************************************************************************)
(* Proofs about PositionLedger.                                            *)
(*                                                                         *)
(* LedgerInv holds for any number of transactions and syncs: it says of    *)
(* each transaction what it has read and which rows it has locked at each  *)
(* of its statements. Who looks for a live settlement holds the account's  *)
(* row, so nobody else can add one before it commits; and a transaction    *)
(* takes the account's row before a position's only when it creates the    *)
(* account, which keeps all others from getting that far.                  *)
(*                                                                         *)
(* Orders and closes take no lock before they write, so a row may no       *)
(* longer be what its next writer has read. ReadInv says what remains true *)
(* of what was read, and what the UPDATE makes of the row as it is then;   *)
(* RowInv follows for every committed row, in full for those whose last    *)
(* writer had read the row it replaced. OpenInv counts the open rows of a  *)
(* key against the orders that make one, PendingInv the liquidations of a  *)
(* row against the scans that queue one, and ExactInv says whose sums of   *)
(* the rows are those it will leave: of all but who was overtaken.         *)
(***************************************************************************)
EXTENDS PositionLedger, RiskProofs, FiniteSetTheorems, WellFoundedInduction

\* The types of the rows.
LiquidationRows == [position : Positions, markPrice : Prices, status : {"QUEUED", "SETTLED"}]
SettlementRows  == [position : Positions, pnl : Int \ {0},
                    status : {"PENDING", "CONFIRMED", "FAILED"}]

\* The operations that write a position.
Updates == {"open", "close", "scan", "finalize"}

\* The type of what a transaction holds.
TxnType ==
    [op : Updates \cup {"none", "sync"},
     pc : {"idle", "ensureAccount", "findOpen", "readPosition", "findLiquidation", "readChain",
           "writeSettled", "writePosition", "readAccount", "readMargin", "writeAccount",
           "queueSettlement", "commit"},
     p : Positions \cup {0}, key : Keys, size : Nat, price : Prices \cup {0},
     leverage : Leverages \cup {1}, margin : Margins \cup {NoMargin}, liq : Nat,
     pending : BOOLEAN, read : Rows, write : Rows,
     pnl : Int, settled : Balances \cup {0}, used : Nat, unrealized : Int,
     queues : BOOLEAN, locks : SUBSET (Positions \cup {Account})]

\* The statements of each operation.
InStep(x) ==
    \/ x.op = "none" /\ x.pc = "idle"
    \/ x.op = "open" /\ x.pc \in {"ensureAccount", "findOpen"}
    \/ x.op \in {"close", "finalize"} /\ x.pc \in {"readPosition", "queueSettlement"}
    \/ x.op = "scan" /\ x.pc = "findLiquidation"
    \/ x.op = "sync" /\ x.pc \in {"ensureAccount", "readChain", "writeSettled"}
    \/ x.op \in Updates /\ x.pc = "writePosition"
    \/ x.op # "none" /\ x.pc \in {"readAccount", "readMargin", "writeAccount", "commit"}

\* The statements by the locks held there: none, at most the account's, or its position's too.
Unlocked == {"idle", "ensureAccount", "readPosition", "findLiquidation"}
Early    == {"findOpen", "readChain", "writeSettled", "writePosition"}
Late     == {"readAccount", "readMargin", "writeAccount", "queueSettlement", "commit"}

\* The rows it has locked.
Locked(x) ==
    /\ x.pc \in Unlocked => x.locks = {}
    /\ x.pc \in Early => x.locks \subseteq {Account}
    /\ x.pc \in Late => x.locks \subseteq {x.p, Account}
    /\ x.pc \in Late /\ x.op = "sync" => x.locks = {Account}
    /\ x.pc \in Late /\ x.op # "sync" => x.p \in x.locks
    /\ x.pc \in {"queueSettlement", "commit"} => Account \in x.locks

\* The account's row is locked before a position's only by who creates it, and
\* as long as there is none nobody else gets past ensureAccount.
Creates(x) ==
    /\ ~account.exists =>
          /\ x.op \notin Updates \ {"open"}
          /\ x.pc \in {"idle", "ensureAccount"} \/ Account \in x.locks
    /\ x.pc \in Early /\ Account \in x.locks => ~account.exists

\* No live settlement names position p.
Unsettled(p) ==
    \A i \in DOMAIN settlements :
        settlements[i].position = p => settlements[i].status \notin DEDUPE_STATUSES

\* What it has been given and what it has read.
Holds(x) ==
    /\ x.op \in Updates /\ x.pc \notin {"ensureAccount", "findOpen"} => x.p \in Positions
    /\ x.op = "sync" => x.p = 0
    /\ x.op = "open" => x.size \in Sizes /\ x.leverage \in Leverages
    /\ x.op = "open" /\ x.pc = "writePosition" => x.read.size + x.size <= MaxSize
    /\ x.op = "close" /\ x.pc # "readPosition" => x.size <= x.read.size
    /\ x.op \in Updates => x.price \in Prices
    /\ x.op = "finalize" => x.liq \in DOMAIN liquidations
    /\ x.queues => x.pc = "commit" /\ x.op \in Updates /\ x.pnl # 0 /\ Unsettled(x.p)

\* All that is known of one transaction.
TxnOK(x) == x \in TxnType /\ InStep(x) /\ Locked(x) /\ Creates(x) /\ Holds(x)

\* No two transactions hold the same lock.
Exclusive ==
    \A t, u \in Actors : \A lock \in txn[t].locks : lock \in txn[u].locks => t = u

\* The types of the rows; without an account there is nothing else.
RowsOK ==
    /\ position \in [Positions -> Rows]
    /\ liquidations \in Seq(LiquidationRows)
    /\ settlements \in Seq(SettlementRows)
    /\ account \in [exists : BOOLEAN, settledBalance : Balances \cup {0}, usedMargin : Nat,
                    totalUnrealizedPnl : Int, equity : Int, freeCollateral : Nat,
                    marginRatio : Nat]
    /\ ~account.exists => /\ \A p \in Positions : position[p].status = "NONE"
                          /\ liquidations = <<>>

\* The inductive invariant, for any number of transactions and syncs.
LedgerInv ==
    /\ RowsOK
    /\ chainBalance \in Balances
    /\ txn = [t \in Actors |-> txn[t]]
    /\ \A t \in Actors : TxnOK(txn[t])
    /\ Exclusive
    /\ OneLiveSettlement

---------------------------------------------------------------------------
(* Sums.                                                                   *)

\* A set of natural numbers has a smallest one.
LEMMA SmallestNat ==
    ASSUME NEW T, T \subseteq Nat, T # {}
    PROVE  \E x \in T : \A y \in T : x <= y
<1> DEFINE Below == {0..k : k \in T}
<1>1. Below \subseteq FiniteSubsetsOf(Nat) /\ Below # {}
  <2>1. ASSUME NEW k \in T PROVE 0..k \in FiniteSubsetsOf(Nat)
    BY FS_Interval DEF FiniteSubsetsOf
  <2> QED BY <2>1
<1>2. PICK b \in Below : \A c \in Below : ~(<<c, b>> \in StrictSubsetOrdering(Nat))
  <2> HIDE DEF Below
  <2> QED BY <1>1, FS_StrictSubsetOrderingWellFounded, WFMin
<1>3. PICK x \in T : b = 0..x
  BY <1>2
<1>4. ASSUME NEW y \in T, y < x PROVE FALSE
  <2>1. 0..y \in SUBSET Nat /\ 0..x \in SUBSET Nat /\ 0..y \subseteq 0..x /\ x \in 0..x /\ x \notin 0..y
    BY <1>4
  <2>2. <<0..y, 0..x>> \in StrictSubsetOrdering(Nat)
    BY <2>1 DEF StrictSubsetOrdering
  <2> QED BY <1>2, <1>3, <2>2
<1> QED BY <1>4

\* Some element of a set.
Pick(s) == CHOOSE x \in s : TRUE

\* A partial sum over the subsets of the domain.
Sums(h, g, s) == h[s] = IF s = {} THEN 0 ELSE g[Pick(s)] + h[s \ {Pick(s)}]

\* There is a function that sums up every subset, by the smallest size without one.
LEMMA SumExists ==
    ASSUME NEW S, IsFiniteSet(S), NEW g \in [S -> Int]
    PROVE  \E h \in [SUBSET S -> Int] : \A s \in SUBSET S : Sums(h, g, s)
<1> DEFINE Good(n) == \E h \in [SUBSET S -> Int] :
                         \A s \in SUBSET S : Cardinality(s) <= n => Sums(h, g, s)
           Bad == {n \in Nat : ~Good(n)}
<1>0. \A s \in SUBSET S : IsFiniteSet(s) /\ Cardinality(s) \in Nat /\ (s = {} <=> Cardinality(s) = 0)
  BY FS_Subset, FS_CardinalityType, FS_EmptySet
<1>1. Good(0)
  <2>1. [s \in SUBSET S |-> 0] \in [SUBSET S -> Int]
    OBVIOUS
  <2>2. \A s \in SUBSET S : Cardinality(s) <= 0 => s = {}
    BY <1>0
  <2> QED BY <2>1, <2>2 DEF Sums
<1>2. ASSUME NEW n \in Nat, Good(n) PROVE Good(n + 1)
  <2>1. PICK h \in [SUBSET S -> Int] : \A s \in SUBSET S : Cardinality(s) <= n => Sums(h, g, s)
    BY <1>2
  <2> DEFINE k == [s \in SUBSET S |-> IF s = {} THEN 0 ELSE g[Pick(s)] + h[s \ {Pick(s)}]]
  <2>2. \A s \in SUBSET S : s # {} => Pick(s) \in s
    BY DEF Pick
  <2>3. k \in [SUBSET S -> Int]
    <3>1. ASSUME NEW s \in SUBSET S, s # {} PROVE g[Pick(s)] + h[s \ {Pick(s)}] \in Int
      <4>1. Pick(s) \in S /\ s \ {Pick(s)} \in SUBSET S
        BY <3>1, <2>2
      <4> QED BY <4>1, <2>1
    <3> QED BY <3>1
  <2>4. ASSUME NEW s \in SUBSET S, Cardinality(s) <= n + 1 PROVE Sums(k, g, s)
    <3>1. CASE s = {}
      BY <3>1 DEF Sums
    <3>2. CASE s # {}
      <4> DEFINE r == s \ {Pick(s)}
      <4>1. r \in SUBSET S /\ Cardinality(r) = Cardinality(s) - 1
        BY <3>2, <2>2, <1>0, FS_RemoveElement
      <4>2. Cardinality(r) <= n
        BY <4>1, <2>4, <1>0
      <4>3. Sums(h, g, r)
        BY <4>1, <4>2, <2>1
      <4>4. k[r] = h[r]
        BY <4>1, <4>3 DEF Sums
      <4> QED BY <3>2, <4>4, <4>1 DEF Sums
    <3> QED BY <3>1, <3>2
  <2> HIDE DEF k
  <2> QED BY <2>3, <2>4
<1>3. \A n \in Nat : Good(n)
  <2> HIDE DEF Good
  <2>1. SUFFICES ASSUME Bad # {} PROVE FALSE
    OBVIOUS
  <2>2. PICK n \in Bad : \A m \in Bad : n <= m
    BY <2>1, SmallestNat
  <2>3. n # 0 /\ n \in Nat
    BY <1>1, <2>2
  <2>4. n - 1 \in Nat /\ n - 1 \notin Bad
    BY <2>2, <2>3
  <2>5. Good((n - 1) + 1)
    BY <2>4, <1>2
  <2> QED BY <2>5, <2>3, <2>2
<1>4. PICK h \in [SUBSET S -> Int] : \A s \in SUBSET S : Cardinality(s) <= Cardinality(S) => Sums(h, g, s)
  BY <1>3, <1>0
<1>5. \A s \in SUBSET S : Cardinality(s) <= Cardinality(S)
  BY FS_Subset
<1> QED BY <1>4, <1>5

\* The fold that adds up a function is such a sum.
LEMMA SumIsThat ==
    ASSUME NEW S, IsFiniteSet(S), NEW g \in [S -> Int]
    PROVE  \E h : /\ h = [s \in SUBSET S |-> IF s = {} THEN 0 ELSE g[Pick(s)] + h[s \ {Pick(s)}]]
                  /\ SumFunction(g) = h[S]
<1> DEFINE Is(h) == h = [s \in SUBSET S |-> IF s = {} THEN 0 ELSE g[Pick(s)] + h[s \ {Pick(s)}]]
<1>1. PICK h \in [SUBSET S -> Int] : \A s \in SUBSET S : Sums(h, g, s)
  BY SumExists
<1>2. Is(h)
  BY <1>1 DEF Sums
<1>3. SumFunction(g) = (CHOOSE f : Is(f))[S]
  BY DEF SumFunction, SumFunctionOnSet, FoldFunctionOnSet, MapThenFoldSet, Pick
<1> QED BY <1>2, <1>3

\* The sum over an empty set, and over a set of one.
LEMMA SumOfNone ==
    ASSUME NEW g \in [{} -> Int]
    PROVE  SumFunction(g) = 0
<1>1. IsFiniteSet({})
  BY FS_EmptySet
<1>2. PICK h : /\ h = [s \in SUBSET {} |-> IF s = {} THEN 0 ELSE g[Pick(s)] + h[s \ {Pick(s)}]]
               /\ SumFunction(g) = h[{}]
  BY <1>1, SumIsThat
<1> QED BY <1>2

\* The sum over one element.
LEMMA SumOfOne ==
    ASSUME NEW a, NEW g \in [{a} -> Int]
    PROVE  SumFunction(g) = g[a]
<1>1. IsFiniteSet({a})
  BY FS_Singleton
<1>2. PICK h : /\ h = [s \in SUBSET {a} |-> IF s = {} THEN 0 ELSE g[Pick(s)] + h[s \ {Pick(s)}]]
               /\ SumFunction(g) = h[{a}]
  BY <1>1, SumIsThat
<1>3. Pick({a}) = a /\ {a} # {} /\ {a} \ {a} = {}
  BY DEF Pick
<1>4. h[{}] = 0
  BY <1>2
<1>5. h[{a}] = g[a] + h[{}]
  BY <1>2, <1>3
<1> QED BY <1>2, <1>4, <1>5

\* A sum of integers is an integer, one of natural numbers a natural number.
LEMMA SumType ==
    ASSUME NEW S, IsFiniteSet(S), NEW g \in [S -> Int]
    PROVE  /\ SumFunction(g) \in Int
           /\ (\A x \in S : g[x] \in Nat) => SumFunction(g) \in Nat
<1>1. PICK h : /\ h = [s \in SUBSET S |-> IF s = {} THEN 0 ELSE g[Pick(s)] + h[s \ {Pick(s)}]]
               /\ SumFunction(g) = h[S]
  BY SumIsThat
<1> DEFINE OK(s) == h[s] \in Int /\ ((\A x \in S : g[x] \in Nat) => h[s] \in Nat)
           Bad == {Cardinality(s) : s \in {s \in SUBSET S : ~OK(s)}}
<1>2. \A s \in SUBSET S : IsFiniteSet(s) /\ Cardinality(s) \in Nat
  BY FS_Subset, FS_CardinalityType
<1>3. SUFFICES ASSUME Bad # {} PROVE FALSE
  <2> HIDE DEF OK
  <2>1. ASSUME Bad = {} PROVE OK(S)
    <3>1. S \in SUBSET S
      OBVIOUS
    <3> QED BY <3>1, <2>1
  <2> QED BY <2>1, <1>1 DEF OK
<1>4. PICK n \in Bad : \A m \in Bad : n <= m
  <2> HIDE DEF OK
  <2>1. Bad \subseteq Nat
    BY <1>2
  <2> HIDE DEF Bad
  <2> QED BY <1>3, <2>1, SmallestNat
<1>5. PICK s \in SUBSET S : ~OK(s) /\ n = Cardinality(s)
  <2> HIDE DEF OK
  <2> QED BY <1>4
<1>6. s # {}
  BY <1>5, <1>1
<1>7. Pick(s) \in s
  BY <1>6 DEF Pick
<1> DEFINE r == s \ {Pick(s)}
<1>8. r \in SUBSET S /\ Cardinality(r) = Cardinality(s) - 1
  BY <1>7, <1>2, FS_RemoveElement
<1>9. OK(r)
  <2> HIDE DEF OK, r
  <2>1. Cardinality(r) \notin Bad
    BY <1>8, <1>4, <1>5, <1>2
  <2> QED BY <2>1, <1>8
<1>10. h[s] = g[Pick(s)] + h[r]
  BY <1>1, <1>6
<1> QED BY <1>5, <1>7, <1>9, <1>10
---------------------------------------------------------------------------
(* What the transactions hold.                                             *)

\* The account's lock is none of the positions'.
LEMMA AccountIsNoPosition ==
    ASSUME LedgerAssumption
    PROVE  Account \notin Positions
BY DEF LedgerAssumption, Account

\* The row and the transaction everything begins with are well typed.
LEMMA NoRowIsRow ==
    ASSUME LedgerAssumption
    PROVE  NoRow \in Rows /\ NoRow.status = "NONE" /\ NoRow.size = 0
<1>1. NoKey \in Keys
  BY DEF LedgerAssumption, NoKey
<1> QED BY <1>1 DEF NoRow, Rows, LedgerAssumption

\* A liquidation that exists is a well-typed row.
LEMMA LiquidationIsRow ==
    ASSUME RowsOK, NEW l \in DOMAIN liquidations
    PROVE  /\ l \in Nat /\ liquidations[l] \in LiquidationRows
           /\ liquidations[l].position \in Positions /\ liquidations[l].markPrice \in Prices
<1>1. liquidations \in Seq(LiquidationRows)
  BY DEF RowsOK
<1>2. l \in 1..Len(liquidations)
  BY <1>1
<1>3. l \in Nat /\ liquidations[l] \in LiquidationRows
  BY <1>1, <1>2
<1> QED BY <1>3 DEF LiquidationRows

\* A transaction that is over leaves nothing behind.
LEMMA NoTxnOK ==
    ASSUME LedgerAssumption
    PROVE  TxnOK(NoTxn) /\ NoTxn.locks = {} /\ NoTxn.op = "none" /\ NoTxn.pc = "idle"
<1>1. NoKey \in Keys
  BY DEF LedgerAssumption, NoKey
<1>2. NoTxn \in TxnType
  BY <1>1, NoRowIsRow DEF NoTxn, TxnType, LedgerAssumption
<1> QED BY <1>2 DEF TxnOK, InStep, Locked, Creates, Holds, NoTxn, Updates, Unlocked, Early, Late

\* A step that only moves transaction t.
LEMMA TxnMoves ==
    ASSUME LedgerAssumption, LedgerInv, NEW t \in Actors, NEW n, TxnOK(n), Advance(t, n),
           UNCHANGED <<rows, chainBalance>>,
           \A lock \in n.locks \ txn[t].locks : Free(t, lock)
    PROVE  LedgerInv'
<1>1. \A u \in Actors : txn'[u] = IF u = t THEN n ELSE txn[u]
  BY DEF LedgerInv, Advance
<1>2. txn' = [u \in Actors |-> txn'[u]]
  BY DEF LedgerInv, Advance
<1>3. RowsOK' /\ OneLiveSettlement' /\ (chainBalance \in Balances)'
  BY DEF LedgerInv, RowsOK, OneLiveSettlement, rows
<1>4. ASSUME NEW u \in Actors PROVE TxnOK(txn[u])'
  <2>1. \A x : TxnOK(x) => /\ x \in TxnType /\ InStep(x) /\ Locked(x) /\ Creates(x)' /\ Holds(x)'
    BY DEF TxnOK, Creates, Holds, Unsettled, rows
  <2>2. TxnOK(txn'[u])
    BY <1>1 DEF LedgerInv
  <2> QED BY <2>1, <2>2 DEF TxnOK, Locked, InStep
<1>5. Exclusive'
  <2>1. \A u \in Actors : \A lock \in n.locks : lock \in txn[u].locks => u = t
    BY DEF LedgerInv, Exclusive, Free
  <2> QED BY <1>1, <2>1 DEF Exclusive, LedgerInv
<1> QED BY <1>2, <1>3, <1>4, <1>5 DEF LedgerInv

\* Such a step, and what it leaves t with.
Moves(t) ==
    \E n : /\ TxnOK(n) /\ Advance(t, n)
           /\ \A lock \in n.locks \ txn[t].locks : Free(t, lock)
           /\ UNCHANGED <<rows, chainBalance>>

\* The invariant survives a step that changes one transaction only.
LEMMA MovesKeep ==
    ASSUME LedgerAssumption, LedgerInv, NEW t \in Actors, Moves(t)
    PROVE  LedgerInv'
BY TxnMoves DEF Moves

\* The invariant survives the end of a transaction that leaves no trace.
LEMMA EndMoves ==
    ASSUME LedgerAssumption, NEW t \in Actors, End(t), UNCHANGED <<rows, chainBalance>>
    PROVE  Moves(t)
BY NoTxnOK DEF Moves, End

\* Who begins holds only what it was given.
LEMMA BeginMoves ==
    ASSUME LedgerAssumption, LedgerInv, NEW t \in Actors, Request(t) \/ syncWallet(t)
    PROVE  Moves(t)
<1>1. NoTxn \in TxnType /\ NoTxn.locks = {} /\ NoTxn.queues = FALSE /\ NoTxn.p = 0
  BY NoTxnOK DEF TxnOK, NoTxn
<1>0. NoTxn \in TxnType
  BY <1>1
<1>2. ASSUME NEW k \in Keys, NEW size \in Sizes, NEW price \in Prices, NEW leverage \in Leverages,
             NEW margin \in Margins \cup {NoMargin},
             openPosition(t, k, size, price, leverage, margin)
      PROVE  Moves(t)
  <2> DEFINE n == [NoTxn EXCEPT !.op = "open", !.pc = "ensureAccount", !.key = k, !.size = size,
                                !.price = price, !.leverage = leverage, !.margin = margin]
  <2>0. size \in Nat
    BY DEF LedgerAssumption
  <2>1. n \in TxnType
    BY <1>0, <2>0 DEF TxnType, Updates
  <2>2. /\ n.op = "open" /\ n.pc = "ensureAccount" /\ n.size = size /\ n.leverage = leverage
        /\ n.locks = {} /\ n.queues = FALSE /\ n.price = price
    BY <1>1 DEF TxnType
  <2>3. Advance(t, n) /\ UNCHANGED <<rows, chainBalance>>
    BY <1>2 DEF openPosition, Begin
  <2> HIDE DEF n
  <2>4. TxnOK(n)
    BY <2>1, <2>2 DEF TxnOK, InStep, Locked, Creates, Holds, Updates, Unlocked, Early, Late
  <2> QED BY <2>2, <2>3, <2>4 DEF Moves
<1>3. ASSUME NEW p \in Positions, NEW price \in Prices, NEW size \in Sizes,
             closePosition(t, p, size, price)
      PROVE  Moves(t)
  <2> DEFINE n == [NoTxn EXCEPT !.op = "close", !.pc = "readPosition", !.p = p,
                                !.size = size, !.price = price]
  <2>0. size \in Nat
    BY DEF LedgerAssumption
  <2>1. n \in TxnType
    BY <1>0, <2>0 DEF TxnType, Updates
  <2>2. /\ n.op = "close" /\ n.pc = "readPosition" /\ n.p = p
        /\ n.locks = {} /\ n.queues = FALSE /\ n.price = price
    BY <1>1 DEF TxnType
  <2>3. Advance(t, n) /\ UNCHANGED <<rows, chainBalance>> /\ account.exists
    BY <1>3 DEF closePosition, Begin, LedgerInv, RowsOK
  <2> HIDE DEF n
  <2>4. TxnOK(n)
    BY <2>1, <2>2, <2>3
       DEF TxnOK, InStep, Locked, Creates, Holds, Updates, Unlocked, Early, Late
  <2> QED BY <2>2, <2>3, <2>4 DEF Moves
<1>4. ASSUME NEW p \in Positions, NEW price \in Prices, scanPosition(t, p, price)
      PROVE  Moves(t)
  <2> DEFINE n == [NoTxn EXCEPT !.op = "scan", !.pc = "findLiquidation", !.p = p,
                                !.price = price, !.read = position[p]]
  <2>1. n \in TxnType
    BY <1>0 DEF TxnType, Updates, LedgerInv, RowsOK
  <2>2. /\ n.op = "scan" /\ n.pc = "findLiquidation" /\ n.p = p
        /\ n.locks = {} /\ n.queues = FALSE /\ n.price = price
    BY <1>1 DEF TxnType
  <2>3. Advance(t, n) /\ UNCHANGED <<rows, chainBalance>> /\ account.exists
    BY <1>4 DEF scanPosition, Begin, LedgerInv, RowsOK
  <2> HIDE DEF n
  <2>4. TxnOK(n)
    BY <2>1, <2>2, <2>3
       DEF TxnOK, InStep, Locked, Creates, Holds, Updates, Unlocked, Early, Late
  <2> QED BY <2>2, <2>3, <2>4 DEF Moves
<1>5. ASSUME NEW l \in DOMAIN liquidations, finalizeLiquidation(t, l)
      PROVE  Moves(t)
  <2> DEFINE pending == liquidations[l].status \in PENDING_LIQUIDATION_STATUSES
             n == [NoTxn EXCEPT !.op = "finalize", !.pc = "readPosition",
                        !.p = liquidations[l].position, !.liq = l,
                        !.price = liquidations[l].markPrice, !.pending = pending]
  <2>1. /\ l \in Nat /\ liquidations[l] \in LiquidationRows
        /\ liquidations[l].position \in Positions /\ liquidations[l].markPrice \in Prices
    BY LiquidationIsRow DEF LedgerInv
  <2>2. n \in TxnType
    <3>1. ASSUME NEW b \in BOOLEAN, NEW p \in Positions, NEW price \in Prices, NEW i \in Nat
          PROVE  [NoTxn EXCEPT !.op = "finalize", !.pc = "readPosition", !.p = p, !.liq = i,
                               !.price = price, !.pending = b] \in TxnType
      <4> DEFINE m == [NoTxn EXCEPT !.op = "finalize", !.pc = "readPosition", !.p = p, !.liq = i,
                                    !.price = price]
      <4>1. m \in TxnType
        BY <1>0 DEF TxnType, Updates
      <4>2. [m EXCEPT !.pending = b] \in TxnType
        <5> HIDE DEF m
        <5> QED BY <4>1 DEF TxnType
      <4> QED BY <4>2
    <3>2. pending \in BOOLEAN
      OBVIOUS
    <3> HIDE DEF pending
    <3> QED BY <2>1, <3>1, <3>2
  <2>3. /\ n.op = "finalize" /\ n.pc = "readPosition" /\ n.p = liquidations[l].position
        /\ n.locks = {} /\ n.queues = FALSE /\ n.price = liquidations[l].markPrice /\ n.liq = l
    BY <1>1 DEF TxnType
  <2>4. Advance(t, n) /\ UNCHANGED <<rows, chainBalance>> /\ account.exists
    BY <1>5 DEF finalizeLiquidation, Begin, LedgerInv, RowsOK
  <2> HIDE DEF n
  <2>5. TxnOK(n)
    BY <2>1, <2>2, <2>3, <2>4
       DEF TxnOK, InStep, Locked, Creates, Holds, Updates, Unlocked, Early, Late, LiquidationRows
  <2> QED BY <2>3, <2>4, <2>5 DEF Moves
<1>6. ASSUME syncWallet(t)
      PROVE  Moves(t)
  <2> DEFINE n == [NoTxn EXCEPT !.op = "sync", !.pc = "ensureAccount"]
  <2>1. n \in TxnType
    BY <1>0 DEF TxnType
  <2>2. /\ n.op = "sync" /\ n.pc = "ensureAccount" /\ n.p = 0
        /\ n.locks = {} /\ n.queues = FALSE
    BY <1>1 DEF TxnType
  <2>3. Advance(t, n) /\ UNCHANGED <<rows, chainBalance>>
    BY <1>6 DEF syncWallet, Begin
  <2> HIDE DEF n
  <2>4. TxnOK(n)
    BY <2>1, <2>2 DEF TxnOK, InStep, Locked, Creates, Holds, Updates, Unlocked, Early, Late
  <2> QED BY <2>2, <2>3, <2>4 DEF Moves
<1> QED BY <1>2, <1>3, <1>4, <1>5, <1>6 DEF Request

\* What the other transactions know survives a commit.
LEMMA HoldersAreOK ==
    ASSUME LedgerInv, NEW t \in Actors
    PROVE  TxnOK(txn[t]) /\ txn[t] \in TxnType
BY DEF LedgerInv, TxnOK

\* The account's row is locked only when it has to be created.
LEMMA EnsureMoves ==
    ASSUME LedgerAssumption, LedgerInv, NEW t \in Actors, ensureAccount(t)
    PROVE  Moves(t)
<1> DEFINE pc    == IF txn[t].op = "sync" THEN "readChain" ELSE "findOpen"
           locks == IF account.exists THEN {} ELSE {Account}
           n     == [txn[t] EXCEPT !.locks = locks, !.pc = pc]
<1>1. TxnOK(txn[t]) /\ txn[t] \in TxnType /\ txn[t].pc = "ensureAccount"
  BY HoldersAreOK DEF ensureAccount, At
<1>2. pc \in {"readChain", "findOpen"} /\ locks \in SUBSET (Positions \cup {Account})
  OBVIOUS
<1>3. n \in TxnType
  <2> HIDE DEF pc, locks
  <2> QED BY <1>1, <1>2 DEF TxnType
<1>4. /\ n.pc = pc /\ n.locks = locks /\ n.op = txn[t].op /\ n.p = txn[t].p /\ n.size = txn[t].size
      /\ n.leverage = txn[t].leverage /\ n.queues = txn[t].queues /\ n.price = txn[t].price
      /\ n.read = txn[t].read /\ n.liq = txn[t].liq
  <2> HIDE DEF pc, locks
  <2> QED BY <1>1 DEF TxnType
<1>5. /\ \/ Advance(t, n) /\ (account.exists \/ Free(t, Account))
         \/ End(t)
      /\ UNCHANGED <<rows, chainBalance>>
  BY DEF ensureAccount
<1> HIDE DEF n
<1>6. txn[t].op \in {"open", "sync"} /\ ~txn[t].queues
  BY <1>1 DEF TxnOK, InStep, Updates, Holds
<1>7. InStep(n) /\ Locked(n) /\ Creates(n)
  BY <1>4, <1>6 DEF InStep, Locked, Creates, Updates, Unlocked, Early, Late
<1>8. Holds(n)
  BY <1>1, <1>4, <1>6 DEF Holds, TxnOK, Updates
<1>9. CASE End(t)
  BY <1>5, <1>9, EndMoves
<1>10. CASE Advance(t, n) /\ (account.exists \/ Free(t, Account))
  BY <1>3, <1>4, <1>5, <1>7, <1>8, <1>10 DEF Moves, TxnOK
<1> QED BY <1>5, <1>9, <1>10

\* An order averages a row it has seen open, or takes a row nobody uses.
LEMMA FindOpenMoves ==
    ASSUME LedgerAssumption, LedgerInv, NEW t \in Actors, findOpenPosition(t)
    PROVE  Moves(t)
<1>1. /\ TxnOK(txn[t]) /\ txn[t] \in TxnType /\ txn[t].pc = "findOpen"
      /\ UNCHANGED <<rows, chainBalance>>
  BY HoldersAreOK DEF findOpenPosition, At
<1>2. txn[t].op = "open" /\ ~txn[t].queues /\ txn[t].locks \subseteq {Account}
  BY <1>1 DEF TxnOK, InStep, Updates, Holds, Locked, Early
<1>3. ASSUME NEW p \in Positions, NEW row \in Rows, row.size + txn[t].size <= MaxSize,
             Advance(t, [txn[t] EXCEPT !.p = p, !.read = row, !.pc = "writePosition"])
      PROVE  Moves(t)
  <2> DEFINE n == [txn[t] EXCEPT !.p = p, !.read = row, !.pc = "writePosition"]
  <2>1. n \in TxnType
    BY <1>1 DEF TxnType
  <2>2. /\ n.pc = "writePosition" /\ n.locks = txn[t].locks /\ n.op = txn[t].op /\ n.p = p
        /\ n.size = txn[t].size /\ n.leverage = txn[t].leverage /\ n.queues = txn[t].queues
        /\ n.read = row /\ n.price = txn[t].price
    BY <1>1 DEF TxnType
  <2>3. Advance(t, n)
    BY <1>3
  <2> HIDE DEF n
  <2>4. InStep(n) /\ Locked(n)
    BY <1>2, <2>2 DEF InStep, Locked, Updates, Unlocked, Early, Late
  <2>5. Creates(n)
    BY <1>1, <1>2, <2>2 DEF Creates, Updates, Early, TxnOK
  <2>6. Holds(n)
    BY <1>1, <1>2, <1>3, <2>2 DEF Holds, TxnOK
  <2> QED BY <1>1, <2>1, <2>2, <2>3, <2>4, <2>5, <2>6 DEF Moves, TxnOK
<1>4. \A p \in Positions : position[p] \in Rows
  BY DEF LedgerInv, RowsOK
<1>5. NoRow \in Rows /\ NoRow.size + txn[t].size <= MaxSize
  <2>1. txn[t].size \in Sizes
    BY <1>1, <1>2 DEF TxnOK, Holds
  <2>2. txn[t].size \in 1..MaxSize /\ MaxSize \in Nat
    BY <2>1 DEF LedgerAssumption
  <2>3. 0 + txn[t].size <= MaxSize
    BY <2>2
  <2> QED BY <2>3, NoRowIsRow
<1> QED BY <1>1, <1>3, <1>4, <1>5, EndMoves DEF findOpenPosition

\* PnL is an integer.
LEMMA RealizedIsInt ==
    ASSUME LedgerAssumption, NEW k \in Keys, NEW entry \in Nat, NEW price \in Nat, NEW size \in Nat
    PROVE  calculateRealizedPnl(k, entry, price, size) \in Int
<1>1. KeySign[k] \in Int
  BY DEF LedgerAssumption
<1>2. price - entry \in Int
  OBVIOUS
<1>3. KeySign[k] * (price - entry) \in Int
  BY <1>1, <1>2
<1> QED BY <1>3 DEF calculateRealizedPnl

\* A close and the end of a liquidation read the row before they wait for it.
LEMMA ReadMoves ==
    ASSUME LedgerAssumption, LedgerInv, NEW t \in Actors,
           readOpenPosition(t) \/ readLiquidatedPosition(t)
    PROVE  Moves(t)
<1> DEFINE x == txn[t]
           row == position[x.p]
           size == IF x.op = "close" THEN x.size ELSE row.size
           pnl == calculateRealizedPnl(row.key, row.entryPrice, x.price, size)
           n == [txn[t] EXCEPT !.read = row, !.pc = "writePosition", !.pnl = pnl]
<1>1. /\ TxnOK(txn[t]) /\ txn[t] \in TxnType /\ txn[t].pc = "readPosition"
      /\ txn[t].op \in {"close", "finalize"}
      /\ UNCHANGED <<rows, chainBalance>>
  BY HoldersAreOK DEF readOpenPosition, readLiquidatedPosition, At
<1>2. ~txn[t].queues /\ txn[t].locks = {} /\ txn[t].p \in Positions /\ txn[t].price \in Prices
  BY <1>1 DEF TxnOK, Updates, Holds, Locked, Unlocked
<1>3. row \in Rows
  BY <1>2 DEF LedgerInv, RowsOK
<1>4. pnl \in Int
  <2>1. row.key \in Keys /\ row.entryPrice \in Nat /\ row.size \in Nat /\ x.size \in Nat
    BY <1>1, <1>3 DEF Rows, TxnType, LedgerAssumption
  <2>2. size \in Nat /\ x.price \in Nat
    BY <2>1, <1>2 DEF LedgerAssumption
  <2> HIDE DEF size, row, x
  <2> QED BY <2>1, <2>2, RealizedIsInt
<1>5. (Advance(t, n) /\ (x.op = "close" => x.size <= row.size)) \/ End(t)
  BY <1>1 DEF readOpenPosition, readLiquidatedPosition
<1>6. CASE Advance(t, n) /\ (x.op = "close" => x.size <= row.size)
  <2> HIDE DEF row, pnl
  <2>1. n \in TxnType
    BY <1>1, <1>3, <1>4 DEF TxnType
  <2>2. /\ n.pc = "writePosition" /\ n.locks = {} /\ n.op = txn[t].op /\ n.p = txn[t].p
        /\ n.size = txn[t].size /\ n.leverage = txn[t].leverage /\ n.queues = txn[t].queues
        /\ n.read = row /\ n.price = txn[t].price /\ n.liq = txn[t].liq
    BY <1>1, <1>2 DEF TxnType
  <2> HIDE DEF n
  <2>3. InStep(n) /\ Locked(n) /\ Creates(n)
    BY <1>1, <1>2, <2>2 DEF InStep, Locked, Updates, Unlocked, Early, Late, Creates, TxnOK
  <2>4. Holds(n)
    BY <1>1, <1>2, <1>6, <2>2 DEF Holds, TxnOK
  <2> QED BY <1>1, <1>6, <2>1, <2>2, <2>3, <2>4 DEF Moves, TxnOK
<1> QED BY <1>1, <1>5, <1>6, EndMoves

\* The values of the constants are numbers.
LEMMA ConstantsAreNats ==
    ASSUME LedgerAssumption
    PROVE  /\ \A size \in Sizes : size \in Nat \ {0}
           /\ \A leverage \in Leverages \cup {1} : leverage \in Nat \ {0}
           /\ \A price \in Prices \cup {0} : price \in Nat
<1>1. Leverages \subseteq Nat \ {0} /\ Prices \subseteq Nat
  BY DEF LedgerAssumption
<1>2. MaxSize \in Nat /\ Sizes \subseteq 1..MaxSize
  BY DEF LedgerAssumption
<1>3. ASSUME NEW size \in Sizes PROVE size \in Nat \ {0}
  BY <1>2
<1>4. ASSUME NEW leverage \in Leverages \cup {1} PROVE leverage \in Nat \ {0}
  BY <1>1
<1>5. ASSUME NEW price \in Prices \cup {0} PROVE price \in Nat
  BY <1>1
<1> QED BY <1>3, <1>4, <1>5

\* The columns of a well-typed row are numbers.
LEMMA RowNumbers ==
    ASSUME LedgerAssumption, NEW row \in Rows
    PROVE  /\ row.size \in 0..MaxSize /\ row.size \in Nat /\ row.entryPrice \in Nat
           /\ row.leverage \in Nat \ {0} /\ row.key \in Keys /\ row.realizedPnl \in Int
<1>1. /\ row.size \in 0..MaxSize /\ row.entryPrice \in Nat /\ row.key \in Keys
      /\ row.realizedPnl \in Int /\ row.leverage \in Leverages \cup {1}
  BY DEF Rows
<1>2. row.leverage \in Nat \ {0}
  BY <1>1, ConstantsAreNats
<1>3. row.size \in Nat
  BY <1>1 DEF LedgerAssumption
<1> QED BY <1>1, <1>2, <1>3

\* The PnL formulas yield integers.
LEMMA UnrealizedIsInt ==
    ASSUME LedgerAssumption, NEW k \in Keys, NEW entry \in Nat, NEW price \in Nat, NEW size \in Nat
    PROVE  calculateUnrealizedPnl(KeySign[k], entry, price, size) \in Int
<1>1. KeySign[k] \in Int
  BY DEF LedgerAssumption
<1>2. KeySign[k] * (price - entry) \in Int
  BY <1>1
<1> QED BY <1>2 DEF calculateUnrealizedPnl

\* The average of two prices is a price.
LEMMA AverageIsNat ==
    ASSUME NEW a \in Nat, NEW b \in Nat, NEW c \in Nat, NEW d \in Nat, NEW size \in Nat \ {0}
    PROVE  (a * b + c * d) \div size \in Nat
<1>1. a * b + c * d \in Nat
  OBVIOUS
<1> QED BY <1>1, QuotientIsBelow

\* What is written to a row, and from what was read of it.
LEMMA OpenedIsRow ==
    ASSUME LedgerAssumption, NEW t \in Actors, TxnOK(txn[t]), At(t, "writePosition"),
           txn[t].op = "open", NEW row \in Rows
    PROVE  /\ OpenedColumns(t, row) \in Rows
           /\ OpenedColumns(t, row).size > 0
           /\ OpenedColumns(t, row).leverage = txn[t].leverage
           /\ ~NamesMargin(txn[t]) =>
                 OpenedColumns(t, row).initialMargin =
                    calculateInitialMargin(
                       calculatePositionNotional(OpenedColumns(t, row).size,
                                                 OpenedColumns(t, row).entryPrice), txn[t].leverage)
           /\ OpenedColumns(t, row).status = IF txn[t].read.status = "NONE" THEN "OPEN" ELSE row.status
           /\ OpenedColumns(t, row).key = IF txn[t].read.status = "NONE" THEN txn[t].key ELSE row.key
<1> DEFINE old    == txn[t].read
           size   == old.size + txn[t].size
           entry  == (old.entryPrice * old.size + txn[t].price * txn[t].size) \div size
           base   == IF old.status = "NONE"
                     THEN [NoRow EXCEPT !.key = txn[t].key, !.status = "OPEN"] ELSE row
           margin == OrderMargin(t, size, entry)
           pnl    == calculateUnrealizedPnl(KeySign[txn[t].key], entry, txn[t].price, size)
           lev    == txn[t].leverage
<1>1. /\ txn[t] \in TxnType /\ txn[t].key \in Keys /\ old \in Rows
      /\ lev \in Leverages /\ txn[t].size \in Sizes /\ txn[t].price \in Prices
      /\ size <= MaxSize
  BY DEF TxnOK, TxnType, Holds, At, Updates
<1>2. /\ old.size \in Nat /\ old.entryPrice \in Nat /\ lev \in Nat \ {0}
      /\ txn[t].size \in Nat \ {0} /\ txn[t].price \in Nat
  <2> HIDE DEF old, lev
  <2>1. lev \in Nat \ {0} /\ txn[t].price \in Nat
    BY <1>1 DEF LedgerAssumption
  <2>2. txn[t].size \in Nat \ {0}
    BY <1>1, ConstantsAreNats
  <2> QED BY <1>1, <2>1, <2>2, RowNumbers
<1>3. size \in Nat \ {0} /\ size \in 0..MaxSize
  BY <1>1, <1>2 DEF LedgerAssumption
<1>4. entry \in Nat
  <2>1. ASSUME NEW a \in Nat, NEW b \in Nat, NEW c \in Nat, NEW d \in Nat, NEW s \in Nat \ {0}
        PROVE  (a * b + c * d) \div s \in Nat
    BY AverageIsNat
  <2> HIDE DEF size, old
  <2> QED BY <2>1, <1>2, <1>3
<1> HIDE DEF size, entry
<1>5. margin \in Nat
  <2>1. NamesMargin(txn[t]) => txn[t].margin \in Nat
    BY <1>1 DEF NamesMargin, TxnType, LedgerAssumption
  <2> QED BY <1>2, <1>3, <1>4, <2>1, MarginOfSize DEF OrderMargin
<1>6. pnl \in Int
  BY <1>1, <1>2, <1>3, <1>4, UnrealizedIsInt
<1>7. /\ base \in Rows
      /\ base.status = IF old.status = "NONE" THEN "OPEN" ELSE row.status
      /\ base.key = IF old.status = "NONE" THEN txn[t].key ELSE row.key
  <2>1. [NoRow EXCEPT !.key = txn[t].key, !.status = "OPEN"] \in Rows
    BY <1>1, NoRowIsRow DEF Rows
  <2>2. /\ [NoRow EXCEPT !.key = txn[t].key, !.status = "OPEN"].status = "OPEN"
        /\ [NoRow EXCEPT !.key = txn[t].key, !.status = "OPEN"].key = txn[t].key
    BY NoRowIsRow DEF Rows
  <2> QED BY <2>1, <2>2
<1> DEFINE n == [base EXCEPT !.size = size, !.entryPrice = entry, !.leverage = lev,
                             !.initialMargin = margin, !.unrealizedPnl = pnl]
<1>8. OpenedColumns(t, row) = n
  BY DEF OpenedColumns, size, entry
<1> HIDE DEF base, margin, pnl, lev
<1>9. n \in Rows
  <2>1. lev \in Leverages \cup {1}
    BY <1>1
  <2> QED BY <2>1, <1>3, <1>4, <1>5, <1>6, <1>7 DEF Rows
<1>10. /\ n.size = size /\ n.entryPrice = entry /\ n.leverage = lev /\ n.initialMargin = margin
       /\ n.status = base.status /\ n.key = base.key
  BY <1>7 DEF Rows
<1> HIDE DEF n
<1>11. lev = txn[t].leverage
  BY DEF lev
<1>12. ~NamesMargin(txn[t]) =>
         margin = calculateInitialMargin(calculatePositionNotional(size, entry), txn[t].leverage)
  BY DEF margin, OrderMargin
<1>13. size > 0
  BY <1>3
<1> QED BY <1>7, <1>8, <1>9, <1>10, <1>11, <1>12, <1>13

\* A close, a finalized liquidation and a scan leave a well-typed row.
LEMMA ClosedIsRow ==
    ASSUME LedgerAssumption, NEW t \in Actors, TxnOK(txn[t]), At(t, "writePosition"),
           txn[t].op = "close", NEW row \in Rows
    PROVE  /\ ClosedColumns(t, row) \in Rows
           /\ ClosedColumns(t, row).leverage = row.leverage
           /\ ClosedColumns(t, row).entryPrice = row.entryPrice
           /\ ClosedColumns(t, row).key = row.key
           /\ ClosedColumns(t, row).initialMargin =
                 calculateInitialMargin(
                    calculatePositionNotional(ClosedColumns(t, row).size,
                                              txn[t].read.entryPrice), txn[t].read.leverage)
           /\ ClosedColumns(t, row).status =
                 IF ClosedColumns(t, row).size > 0 THEN "OPEN" ELSE "CLOSED"
<1> DEFINE old    == txn[t].read
           rest   == old.size - txn[t].size
           status == IF rest = 0 THEN "CLOSED" ELSE "OPEN"
           margin == calculateInitialMargin(calculatePositionNotional(rest, old.entryPrice),
                                            old.leverage)
           pnl    == calculateUnrealizedPnl(KeySign[old.key], old.entryPrice, txn[t].price, rest)
           total  == old.realizedPnl + txn[t].pnl
<1>1. /\ txn[t] \in TxnType /\ old \in Rows /\ txn[t].pnl \in Int /\ txn[t].size \in Nat
      /\ txn[t].price \in Prices /\ txn[t].size <= old.size
  BY DEF TxnOK, TxnType, Holds, At, Updates
<1>2. /\ old.size \in 0..MaxSize /\ old.entryPrice \in Nat /\ old.leverage \in Nat \ {0}
      /\ txn[t].price \in Nat /\ old.key \in Keys /\ old.realizedPnl \in Int
  <2> HIDE DEF old
  <2>1. txn[t].price \in Nat
    BY <1>1 DEF LedgerAssumption
  <2> QED BY <1>1, <2>1, RowNumbers
<1>3. rest \in 0..MaxSize /\ rest \in Nat
  BY <1>1, <1>2 DEF LedgerAssumption
<1>4. status \in {"CLOSED", "OPEN"} /\ total \in Int /\ (status = IF rest > 0 THEN "OPEN" ELSE "CLOSED")
  BY <1>1, <1>2, <1>3
<1> HIDE DEF rest
<1>5. margin \in Nat
  BY <1>2, <1>3, MarginOfSize
<1>6. pnl \in Int
  BY <1>2, <1>3, UnrealizedIsInt
<1> DEFINE n == [row EXCEPT !.size = rest, !.status = status, !.initialMargin = margin,
                            !.unrealizedPnl = pnl, !.realizedPnl = total]
<1>7. ClosedColumns(t, row) = n
  BY DEF ClosedColumns, rest
<1> HIDE DEF status, margin, pnl, total
<1>8. n \in Rows
  BY <1>3, <1>4, <1>5, <1>6 DEF Rows
<1>9. /\ n.size = rest /\ n.entryPrice = row.entryPrice /\ n.leverage = row.leverage
      /\ n.initialMargin = margin /\ n.status = status /\ n.key = row.key
  BY DEF Rows
<1> HIDE DEF n
<1> QED BY <1>4, <1>7, <1>8, <1>9 DEF margin

\* A finalized liquidation leaves a well-typed row.
LEMMA LiquidatedIsRow ==
    ASSUME LedgerAssumption, NEW t \in Actors, TxnOK(txn[t]), NEW row \in Rows
    PROVE  /\ LiquidatedColumns(t, row) \in Rows
           /\ LiquidatedColumns(t, row).size = 0
           /\ LiquidatedColumns(t, row).status = "LIQUIDATED"
           /\ LiquidatedColumns(t, row).key = row.key
<1> DEFINE total == txn[t].read.realizedPnl + txn[t].pnl
<1>1. total \in Int
  BY DEF TxnOK, TxnType, Rows
<1>2. 0 \in 0..MaxSize /\ 0 \in Nat /\ 0 \in Int
  BY DEF LedgerAssumption
<1> HIDE DEF total
<1>3. [row EXCEPT !.size = 0, !.initialMargin = 0, !.unrealizedPnl = 0, !.status = "LIQUIDATED",
                  !.realizedPnl = total] \in Rows
  BY <1>1, <1>2 DEF Rows
<1>4. LiquidatedColumns(t, row) = [row EXCEPT !.size = 0, !.initialMargin = 0,
         !.unrealizedPnl = 0, !.status = "LIQUIDATED", !.realizedPnl = total]
  BY DEF LiquidatedColumns, total
<1> QED BY <1>3, <1>4 DEF Rows

\* A scan leaves a well-typed row.
LEMMA ScannedIsRow ==
    ASSUME NEW row \in Rows
    PROVE  /\ ScannedColumns(row) \in Rows
           /\ ScannedColumns(row).size = row.size
           /\ ScannedColumns(row).status = "LIQUIDATING"
           /\ ScannedColumns(row).key = row.key
BY DEF ScannedColumns, Rows

\* Every UPDATE of a position leaves a well-typed row.
LEMMA UpdatedIsRow ==
    ASSUME LedgerAssumption, NEW t \in Actors, TxnOK(txn[t]), At(t, "writePosition"), NEW row \in Rows
    PROVE  Columns(t, row) \in Rows
<1>1. txn[t].op \in {"open", "close", "scan", "finalize"}
  BY DEF TxnOK, InStep, At, Updates
<1>2. CASE txn[t].op = "open"
  BY <1>2, OpenedIsRow DEF Columns
<1>3. CASE txn[t].op = "close"
  BY <1>3, ClosedIsRow DEF Columns
<1>4. CASE txn[t].op = "scan"
  BY <1>4, ScannedIsRow DEF Columns
<1>5. CASE txn[t].op = "finalize"
  BY <1>5, LiquidatedIsRow DEF Columns
<1> QED BY <1>1, <1>2, <1>3, <1>4, <1>5

\* A pending liquidation ends a scan's transaction.
LEMMA FindLiquidationMoves ==
    ASSUME LedgerAssumption, LedgerInv, NEW t \in Actors, findLiquidation(t)
    PROVE  Moves(t)
<1> DEFINE n == [txn[t] EXCEPT !.pc = "writePosition"]
<1>1. /\ TxnOK(txn[t]) /\ txn[t] \in TxnType /\ txn[t].pc = "findLiquidation"
      /\ UNCHANGED <<rows, chainBalance>> /\ (Advance(t, n) \/ End(t))
  BY HoldersAreOK DEF findLiquidation, At
<1>2. txn[t].op = "scan" /\ txn[t].locks = {} /\ ~txn[t].queues
  BY <1>1 DEF TxnOK, InStep, Locked, Updates, Unlocked, Holds
<1>3. n \in TxnType
  BY <1>1 DEF TxnType
<1>4. /\ n.pc = "writePosition" /\ n.locks = {} /\ n.op = "scan" /\ n.p = txn[t].p
      /\ n.queues = txn[t].queues /\ n.price = txn[t].price
  BY <1>1, <1>2 DEF TxnType
<1> HIDE DEF n
<1>5. InStep(n) /\ Locked(n) /\ Creates(n)
  BY <1>1, <1>2, <1>4 DEF InStep, Locked, Updates, Unlocked, Early, Late, Creates, TxnOK
<1>6. Holds(n)
  BY <1>1, <1>2, <1>4 DEF Holds, TxnOK, Updates
<1> QED BY <1>1, <1>3, <1>4, <1>5, <1>6, EndMoves DEF Moves, TxnOK

\* The row is locked from its UPDATE on.
LEMMA WriteMoves ==
    ASSUME LedgerAssumption, LedgerInv, NEW t \in Actors, writePosition(t)
    PROVE  Moves(t)
<1> DEFINE row == Columns(t, position[txn[t].p])
           locks == txn[t].locks \cup {txn[t].p}
           n == [txn[t] EXCEPT !.write = row, !.locks = locks, !.pc = "readAccount"]
<1>1. /\ TxnOK(txn[t]) /\ txn[t] \in TxnType /\ At(t, "writePosition") /\ Free(t, txn[t].p)
      /\ UNCHANGED <<rows, chainBalance>>
  BY HoldersAreOK DEF writePosition
<1>2. Advance(t, n)
  BY <1>1 DEF writePosition, TxnType
<1>3. /\ txn[t].op \in Updates /\ txn[t].locks \subseteq {Account} /\ ~txn[t].queues
      /\ txn[t].p \in Positions
  BY <1>1 DEF TxnOK, InStep, Locked, Updates, Early, Holds, At
<1>4. row \in Rows
  BY <1>1, <1>3, UpdatedIsRow DEF LedgerInv, RowsOK
<1>5. locks \in SUBSET (Positions \cup {Account})
  BY <1>3
<1> HIDE DEF row
<1>6. n \in TxnType
  <2> HIDE DEF locks
  <2> QED BY <1>1, <1>4, <1>5 DEF TxnType
<1>7. /\ n.pc = "readAccount" /\ n.locks = locks /\ n.op = txn[t].op /\ n.p = txn[t].p
      /\ n.size = txn[t].size /\ n.leverage = txn[t].leverage /\ n.queues = txn[t].queues
      /\ n.read = txn[t].read /\ n.price = txn[t].price /\ n.liq = txn[t].liq
  <2> HIDE DEF locks
  <2> QED BY <1>1 DEF TxnType
<1> HIDE DEF n
<1>8. InStep(n) /\ Locked(n)
  BY <1>3, <1>7 DEF InStep, Locked, Updates, Unlocked, Early, Late
<1>9. Creates(n)
  BY <1>1, <1>3, <1>7, AccountIsNoPosition DEF Creates, TxnOK, At, Early, Updates
<1>10. Holds(n)
  BY <1>1, <1>3, <1>7 DEF Holds, TxnOK, Updates, At
<1> QED BY <1>1, <1>2, <1>6, <1>7, <1>8, <1>9, <1>10 DEF Moves, TxnOK

\* What is read of the chain and of the account.
LEMMA SettledMoves ==
    ASSUME LedgerAssumption, LedgerInv, NEW t \in Actors, readSettledBalance(t) \/ readAccount(t)
    PROVE  Moves(t)
<1> DEFINE pc == IF At(t, "readChain") THEN "writeSettled" ELSE "readMargin"
           settled == IF At(t, "readChain") THEN chainBalance
                      ELSE IF txn[t].op = "sync" THEN txn[t].settled ELSE account.settledBalance
           n == [txn[t] EXCEPT !.settled = settled, !.pc = pc]
<1>1. /\ TxnOK(txn[t]) /\ txn[t] \in TxnType
      /\ UNCHANGED <<rows, chainBalance>>
      /\ \/ txn[t].pc = "readChain" /\ pc = "writeSettled"
         \/ txn[t].pc = "readAccount" /\ pc = "readMargin"
  BY HoldersAreOK DEF readSettledBalance, readAccount, At
<1>2. Advance(t, n)
  BY DEF readSettledBalance, readAccount, At
<1>3. ~txn[t].queues /\ (txn[t].pc = "readChain" => txn[t].op = "sync")
  BY <1>1 DEF TxnOK, InStep, Updates, Holds
<1>4. settled \in Balances \cup {0}
  BY <1>1 DEF LedgerInv, RowsOK, TxnType
<1> HIDE DEF settled, pc
<1>5. n \in TxnType
  BY <1>1, <1>4 DEF TxnType
<1>6. /\ n.pc = pc /\ n.locks = txn[t].locks /\ n.op = txn[t].op /\ n.p = txn[t].p
      /\ n.size = txn[t].size /\ n.leverage = txn[t].leverage /\ n.queues = txn[t].queues
      /\ n.read = txn[t].read /\ n.price = txn[t].price /\ n.liq = txn[t].liq
  BY <1>1 DEF TxnType
<1> HIDE DEF n
<1>7. InStep(n) /\ Locked(n) /\ Creates(n)
  BY <1>1, <1>3, <1>6 DEF InStep, Locked, Updates, Unlocked, Early, Late, Creates, TxnOK
<1>8. Holds(n)
  BY <1>1, <1>3, <1>6 DEF Holds, TxnOK, Updates
<1> QED BY <1>1, <1>2, <1>5, <1>6, <1>7, <1>8 DEF Moves, TxnOK

\* A sync locks the account's row from its first write on.
LEMMA SyncWriteMoves ==
    ASSUME LedgerAssumption, LedgerInv, NEW t \in Actors, syncSettledBalance(t)
    PROVE  Moves(t)
<1> DEFINE n == [txn[t] EXCEPT !.locks = {Account}, !.pc = "readAccount"]
<1>1. /\ TxnOK(txn[t]) /\ txn[t] \in TxnType /\ txn[t].pc = "writeSettled" /\ Free(t, Account)
      /\ UNCHANGED <<rows, chainBalance>> /\ Advance(t, n)
  BY HoldersAreOK DEF syncSettledBalance, At
<1>2. txn[t].op = "sync" /\ ~txn[t].queues /\ txn[t].p = 0
  BY <1>1 DEF TxnOK, InStep, Updates, Holds
<1>3. n \in TxnType
  BY <1>1 DEF TxnType
<1>4. /\ n.pc = "readAccount" /\ n.locks = {Account} /\ n.op = "sync" /\ n.p = 0
      /\ n.queues = txn[t].queues
  BY <1>1, <1>2 DEF TxnType
<1> HIDE DEF n
<1>5. InStep(n) /\ Locked(n) /\ Creates(n) /\ Holds(n)
  BY <1>2, <1>4 DEF InStep, Locked, Updates, Unlocked, Early, Late, Creates, Holds
<1> QED BY <1>1, <1>3, <1>4, <1>5 DEF Moves, TxnOK

\* The sums of the rows it sees.
LEMMA MarginMoves ==
    ASSUME LedgerAssumption, LedgerInv, NEW t \in Actors, readMargin(t)
    PROVE  Moves(t)
<1> DEFINE margins == [p \in ActiveRows(t) |-> Sees(t, p).initialMargin]
           pnls    == [p \in ActiveRows(t) |-> Sees(t, p).unrealizedPnl]
           used    == SumFunction(margins)
           pnl     == SumFunction(pnls)
           n == [txn[t] EXCEPT !.used = used, !.unrealized = pnl, !.pc = "writeAccount"]
<1>1. /\ TxnOK(txn[t]) /\ txn[t] \in TxnType /\ txn[t].pc = "readMargin"
      /\ UNCHANGED <<rows, chainBalance>> /\ Advance(t, n)
  BY HoldersAreOK DEF readMargin, At
<1>2. ~txn[t].queues /\ txn[t].op # "none"
  BY <1>1 DEF TxnOK, InStep, Updates, Holds
<1>3. used \in Nat /\ pnl \in Int
  <2>1. IsFiniteSet(ActiveRows(t))
    BY FS_Subset DEF LedgerAssumption, ActiveRows
  <2>2. \A p \in Positions : Sees(t, p) \in Rows
    BY <1>1 DEF Sees, LedgerInv, RowsOK, TxnType
  <2>3. \A p \in ActiveRows(t) : Sees(t, p).initialMargin \in Nat /\ Sees(t, p).unrealizedPnl \in Int
    BY <2>2 DEF ActiveRows, Rows
  <2>4. margins \in [ActiveRows(t) -> Int] /\ pnls \in [ActiveRows(t) -> Int]
    BY <2>3
  <2>5. \A p \in ActiveRows(t) : margins[p] \in Nat
    BY <2>3
  <2> HIDE DEF margins, pnls
  <2> QED BY <2>1, <2>4, <2>5, SumType
<1> HIDE DEF used, pnl
<1>4. n \in TxnType
  BY <1>1, <1>3 DEF TxnType
<1>5. /\ n.pc = "writeAccount" /\ n.locks = txn[t].locks /\ n.op = txn[t].op /\ n.p = txn[t].p
      /\ n.size = txn[t].size /\ n.leverage = txn[t].leverage /\ n.queues = txn[t].queues
      /\ n.read = txn[t].read /\ n.price = txn[t].price /\ n.liq = txn[t].liq
  BY <1>1 DEF TxnType
<1> HIDE DEF n
<1>6. InStep(n) /\ Locked(n) /\ Creates(n)
  BY <1>1, <1>2, <1>5 DEF InStep, Locked, Updates, Unlocked, Early, Late, Creates, TxnOK
<1>7. Holds(n)
  BY <1>1, <1>2, <1>5 DEF Holds, TxnOK, Updates
<1> QED BY <1>1, <1>4, <1>5, <1>6, <1>7 DEF Moves, TxnOK

\* The account's row is locked from its UPDATE on.
LEMMA AccountMoves ==
    ASSUME LedgerAssumption, LedgerInv, NEW t \in Actors, writeAccount(t)
    PROVE  Moves(t)
<1> DEFINE locks == txn[t].locks \cup {Account}
           pc == IF txn[t].op \in {"close", "finalize"} THEN "queueSettlement" ELSE "commit"
           n == [txn[t] EXCEPT !.locks = locks, !.pc = pc]
<1>1. /\ TxnOK(txn[t]) /\ txn[t] \in TxnType /\ txn[t].pc = "writeAccount" /\ Free(t, Account)
      /\ UNCHANGED <<rows, chainBalance>>
  BY HoldersAreOK DEF writeAccount, At
<1>2. Advance(t, n)
  BY <1>1 DEF writeAccount, TxnType
<1>3. ~txn[t].queues /\ txn[t].op # "none"
  BY <1>1 DEF TxnOK, InStep, Updates, Holds
<1>4. locks \in SUBSET (Positions \cup {Account}) /\ pc \in {"queueSettlement", "commit"}
  BY <1>1 DEF TxnType
<1>5. n \in TxnType
  <2> HIDE DEF locks, pc
  <2> QED BY <1>1, <1>4 DEF TxnType
<1>6. /\ n.pc = pc /\ n.locks = locks /\ n.op = txn[t].op /\ n.p = txn[t].p
      /\ n.size = txn[t].size /\ n.leverage = txn[t].leverage /\ n.queues = txn[t].queues
      /\ n.read = txn[t].read /\ n.price = txn[t].price /\ n.liq = txn[t].liq
  <2> HIDE DEF locks, pc
  <2> QED BY <1>1 DEF TxnType
<1> HIDE DEF n
<1>7. InStep(n)
  BY <1>1, <1>3, <1>6 DEF InStep, Updates, TxnOK
<1>8. Locked(n)
  BY <1>1, <1>3, <1>6 DEF Locked, Unlocked, Early, Late, TxnOK
<1>9. Creates(n) /\ Holds(n)
  BY <1>1, <1>3, <1>6 DEF Creates, Early, Holds, TxnOK, Updates
<1> QED BY <1>1, <1>2, <1>5, <1>6, <1>7, <1>8, <1>9 DEF Moves, TxnOK

\* A settlement is queued only when none is live.
LEMMA QueueMoves ==
    ASSUME LedgerAssumption, LedgerInv, NEW t \in Actors, queueSettlement(t)
    PROVE  Moves(t)
<1> DEFINE live == {i \in DOMAIN settlements :
                       /\ settlements[i].position = txn[t].p
                       /\ settlements[i].status \in DEDUPE_STATUSES}
           queues == txn[t].pnl # 0 /\ live = {}
           n == [txn[t] EXCEPT !.queues = queues, !.pc = "commit"]
<1>1. /\ TxnOK(txn[t]) /\ txn[t] \in TxnType /\ txn[t].pc = "queueSettlement"
      /\ UNCHANGED <<rows, chainBalance>> /\ Advance(t, n)
  BY HoldersAreOK DEF queueSettlement, At
<1>2. txn[t].op \in {"close", "finalize"}
  BY <1>1 DEF TxnOK, InStep, Updates
<1>3. queues \in BOOLEAN /\ (queues => txn[t].pnl # 0 /\ Unsettled(txn[t].p))
  BY DEF Unsettled
<1> HIDE DEF queues
<1>4. n \in TxnType
  BY <1>1, <1>3 DEF TxnType
<1>5. /\ n.pc = "commit" /\ n.locks = txn[t].locks /\ n.op = txn[t].op /\ n.p = txn[t].p
      /\ n.size = txn[t].size /\ n.leverage = txn[t].leverage /\ n.queues = queues
      /\ n.read = txn[t].read /\ n.price = txn[t].price /\ n.liq = txn[t].liq
      /\ n.pnl = txn[t].pnl
  BY <1>1 DEF TxnType
<1> HIDE DEF n
<1>6. InStep(n) /\ Locked(n) /\ Creates(n)
  BY <1>1, <1>2, <1>5 DEF InStep, Locked, Updates, Unlocked, Early, Late, Creates, TxnOK
<1>7. Holds(n)
  BY <1>1, <1>2, <1>3, <1>5 DEF Holds, TxnOK, Updates
<1> QED BY <1>1, <1>4, <1>5, <1>6, <1>7 DEF Moves, TxnOK

\* The account's metrics are numbers, the free collateral a natural one.
LEMMA MetricsAreNumbers ==
    ASSUME NEW settled \in Int, NEW used \in Nat, NEW pnl \in Int
    PROVE  LET metrics == calculateAccountMetrics(settled, used, pnl)
           IN  /\ metrics.equity \in Int /\ metrics.freeCollateral \in Nat
               /\ metrics.marginRatio \in Nat
<1> DEFINE equity == calculateEquity(settled, pnl)
<1>1. equity \in Int
  BY DEF calculateEquity
<1> HIDE DEF equity
<1>2. calculateFreeCollateral(equity, used) \in Nat
  BY <1>1, RiskAssumption DEF calculateFreeCollateral
<1>3. calculateMarginRatio(used, equity) \in Nat
  <2>1. used * RatioScale \in Nat
    BY RiskAssumption
  <2>2. CASE equity > 0
    <3>1. equity \in Nat \ {0}
      BY <1>1, <2>2
    <3> QED BY <2>1, <2>2, <3>1, QuotientIsBelow DEF calculateMarginRatio
  <2>3. CASE ~(equity > 0)
    BY <2>3, RiskAssumption DEF calculateMarginRatio
  <2> QED BY <2>2, <2>3
<1> QED BY <1>1, <1>2, <1>3 DEF calculateAccountMetrics, equity

\* The account is a row whatever a transaction has summed up.
LEMMA AccountIsRow ==
    ASSUME LedgerAssumption, NEW kept \in Balances \cup {0}, NEW settled \in Balances \cup {0},
           NEW used \in Nat, NEW pnl \in Int
    PROVE  /\ AccountRow(kept, used, pnl, calculateAccountMetrics(settled, used, pnl))
                 \in [exists : BOOLEAN, settledBalance : Balances \cup {0}, usedMargin : Nat,
                      totalUnrealizedPnl : Int, equity : Int, freeCollateral : Nat,
                      marginRatio : Nat]
           /\ AccountRow(kept, used, pnl, calculateAccountMetrics(settled, used, pnl)).exists
<1> DEFINE metrics == calculateAccountMetrics(settled, used, pnl)
<1>1. settled \in Int
  BY DEF LedgerAssumption
<1>2. metrics.equity \in Int /\ metrics.freeCollateral \in Nat /\ metrics.marginRatio \in Nat
  BY <1>1, MetricsAreNumbers
<1> HIDE DEF metrics
<1>3. /\ AccountRow(kept, used, pnl, metrics)
            \in [exists : BOOLEAN, settledBalance : Balances \cup {0}, usedMargin : Nat,
                 totalUnrealizedPnl : Int, equity : Int, freeCollateral : Nat, marginRatio : Nat]
      /\ AccountRow(kept, used, pnl, metrics).exists
  BY <1>2 DEF AccountRow
<1> QED BY <1>3 DEF metrics

\* The committed rows are rows.
LEMMA CommitRows ==
    ASSUME LedgerAssumption, LedgerInv, NEW t \in Actors, commit(t)
    PROVE  RowsOK' /\ account.exists'
<1> DEFINE x == txn[t]
<1>1. TxnOK(x) /\ x \in TxnType /\ x.pc = "commit" /\ RowsOK
  BY HoldersAreOK DEF commit, At, LedgerInv
<1>2. /\ x.op \in Updates => x.p \in Positions
      /\ x.op \in Updates \cup {"sync"} /\ (x.op \in Updates => x.price \in Prices)
      /\ x.op = "finalize" => x.liq \in DOMAIN liquidations
      /\ x.queues => x.op \in Updates /\ x.pnl # 0
  <2> HIDE DEF x
  <2>1. InStep(x) /\ Holds(x) /\ x.pc = "commit" /\ x.op \in Updates \cup {"none", "sync"}
    BY <1>1 DEF TxnOK, TxnType
  <2>2. x.op \in Updates \cup {"sync"}
    BY <2>1 DEF InStep
  <2> QED BY <2>1, <2>2 DEF Holds
<1>3. /\ x.write \in Rows /\ x.settled \in Balances \cup {0} /\ x.used \in Nat
      /\ x.unrealized \in Int /\ x.pnl \in Int
  BY <1>1 DEF TxnType
<1>4. position' \in [Positions -> Rows]
  BY <1>1, <1>2, <1>3 DEF commit, RowsOK, Updates
<1>5. /\ account' \in [exists : BOOLEAN, settledBalance : Balances \cup {0}, usedMargin : Nat,
                       totalUnrealizedPnl : Int, equity : Int, freeCollateral : Nat,
                       marginRatio : Nat]
      /\ account'.exists
  <2> DEFINE kept == IF x.op = "sync" THEN x.settled ELSE account.settledBalance
  <2>1. kept \in Balances \cup {0}
    BY <1>1, <1>3 DEF RowsOK
  <2>2. account' = AccountRow(kept, x.used, x.unrealized,
                              calculateAccountMetrics(x.settled, x.used, x.unrealized))
    BY DEF commit
  <2> HIDE DEF kept, x
  <2> QED BY <2>1, <2>2, <1>3, AccountIsRow
<1>6. liquidations' \in Seq(LiquidationRows)
  <2>1. CASE x.op = "scan"
    <3>1. [position |-> x.p, markPrice |-> x.price, status |-> "QUEUED"] \in LiquidationRows
      BY <1>2, <2>1 DEF LiquidationRows, Updates
    <3>2. liquidations' = Append(liquidations, [position |-> x.p, markPrice |-> x.price,
                                                status |-> "QUEUED"])
      BY <2>1 DEF commit
    <3> QED BY <3>1, <3>2, <1>1 DEF RowsOK
  <2>2. CASE x.op = "finalize"
    <3>1. liquidations' = [liquidations EXCEPT ![x.liq].status = "SETTLED"]
      BY <2>2 DEF commit
    <3> DEFINE row == [liquidations[x.liq] EXCEPT !.status = "SETTLED"]
    <3>2. x.liq \in 1..Len(liquidations) /\ liquidations \in Seq(LiquidationRows)
      BY <1>1, <1>2, <2>2 DEF RowsOK
    <3>3. row \in LiquidationRows
      <4>1. liquidations[x.liq] \in LiquidationRows
        BY <3>2
      <4> QED BY <4>1 DEF LiquidationRows
    <3>4. liquidations' = [liquidations EXCEPT ![x.liq] = row]
      BY <3>1, <3>2
    <3> HIDE DEF row
    <3> QED BY <3>2, <3>3, <3>4
  <2>3. CASE x.op \notin {"scan", "finalize"}
    BY <2>3, <1>1 DEF commit, RowsOK
  <2> QED BY <2>1, <2>2, <2>3
<1>7. settlements' \in Seq(SettlementRows)
  <2>1. CASE x.queues
    <3>1. [position |-> x.p, pnl |-> x.pnl, status |-> "PENDING"] \in SettlementRows
      BY <1>2, <1>3, <2>1 DEF SettlementRows
    <3>2. settlements' = Append(settlements, [position |-> x.p, pnl |-> x.pnl,
                                              status |-> "PENDING"])
      BY <2>1 DEF commit
    <3> QED BY <3>1, <3>2, <1>1 DEF RowsOK
  <2>2. CASE ~x.queues
    BY <2>2, <1>1 DEF commit, RowsOK
  <2> QED BY <2>1, <2>2
<1> QED BY <1>4, <1>5, <1>6, <1>7 DEF RowsOK

\* A commit adds a settlement of a position only when none of it is live.
LEMMA CommitSettles ==
    ASSUME LedgerAssumption, LedgerInv, NEW t \in Actors, commit(t)
    PROVE  /\ OneLiveSettlement'
           /\ \A p : Unsettled(p) /\ ~(txn[t].queues /\ txn[t].p = p) => Unsettled(p)'
<1> DEFINE x == txn[t]
           row == [position |-> x.p, pnl |-> x.pnl, status |-> "PENDING"]
<1>1. TxnOK(x) /\ settlements \in Seq(SettlementRows) /\ OneLiveSettlement
  BY HoldersAreOK DEF LedgerInv, RowsOK
<1>2. CASE ~x.queues
  <2>1. settlements' = settlements
    BY <1>2 DEF commit
  <2> QED BY <1>1, <2>1 DEF OneLiveSettlement, Unsettled
<1>3. CASE x.queues
  <2>1. settlements' = Append(settlements, row) /\ Unsettled(x.p)
    BY <1>1, <1>3 DEF commit, TxnOK, Holds
  <2> DEFINE end == Len(settlements) + 1
  <2>2. /\ DOMAIN settlements' = DOMAIN settlements \cup {end} /\ settlements'[end] = row
        /\ \A i \in DOMAIN settlements : settlements'[i] = settlements[i]
    <3> HIDE DEF row
    <3> QED BY <1>1, <2>1
  <2> HIDE DEF end
  <2>3. row.position = x.p
    OBVIOUS
  <2> QED BY <1>1, <1>3, <2>1, <2>2, <2>3 DEF OneLiveSettlement, Unsettled
<1> QED BY <1>2, <1>3

\* No commit takes a liquidation row away.
LEMMA LiquidationsStay ==
    ASSUME LedgerAssumption, LedgerInv, NEW t \in Actors, commit(t)
    PROVE  DOMAIN liquidations \subseteq DOMAIN liquidations'
<1>1. liquidations \in Seq(LiquidationRows)
  BY DEF LedgerInv, RowsOK
<1>2. CASE txn[t].op = "scan"
  <2>1. \E row : liquidations' = Append(liquidations, row)
    BY <1>2 DEF commit
  <2> QED BY <1>1, <2>1
<1>3. CASE txn[t].op = "finalize"
  BY <1>1, <1>3 DEF commit
<1>4. CASE txn[t].op \notin {"scan", "finalize"}
  BY <1>1, <1>4 DEF commit
<1> QED BY <1>2, <1>3, <1>4

\* Nobody else was about to queue a settlement or to create the account: they
\* would hold the account's row.
LEMMA CommitKeeps ==
    ASSUME LedgerAssumption, LedgerInv, NEW t \in Actors, commit(t)
    PROVE  LedgerInv'
<1>1. /\ TxnOK(txn[t]) /\ txn[t].pc = "commit" /\ Account \in txn[t].locks
      /\ txn' = [txn EXCEPT ![t] = NoTxn]
  BY HoldersAreOK DEF commit, At, TxnOK, Locked, End, Advance
<1>2. \A u \in Actors : txn'[u] = IF u = t THEN NoTxn ELSE txn[u]
  BY <1>1 DEF LedgerInv
<1>3. \A u \in Actors \ {t} : Account \notin txn[u].locks
  BY <1>1 DEF LedgerInv, Exclusive
<1>4. RowsOK' /\ account.exists'
  BY CommitRows
<1>5. ASSUME NEW u \in Actors \ {t} PROVE TxnOK(txn[u])'
  <2>1. TxnOK(txn[u]) /\ txn'[u] = txn[u]
    BY <1>2, HoldersAreOK
  <2>2. Creates(txn[u])'
    BY <1>3, <1>4, <2>1 DEF Creates
  <2>3. ~txn[u].queues
    BY <1>3, <2>1 DEF TxnOK, Holds, Locked
  <2>4. Holds(txn[u])'
    BY <2>1, <2>3, LiquidationsStay DEF TxnOK, Holds
  <2> QED BY <2>1, <2>2, <2>4 DEF TxnOK, InStep, Locked
<1>6. TxnOK(txn[t])'
  <2>1. txn'[t] = NoTxn
    BY <1>2
  <2>2. TxnOK(NoTxn) /\ NoTxn.locks = {} /\ NoTxn.pc = "idle" /\ NoTxn.op = "none"
    BY NoTxnOK
  <2>3. Creates(NoTxn)'
    BY <1>4, <2>2 DEF Creates, Early
  <2>4. Holds(NoTxn)'
    BY <2>2 DEF Holds, TxnOK, Updates
  <2> QED BY <2>1, <2>2, <2>3, <2>4 DEF TxnOK, InStep, Locked
<1>7. Exclusive'
  <2>1. NoTxn.locks = {}
    BY NoTxnOK
  <2> QED BY <1>2, <2>1 DEF Exclusive, LedgerInv
<1>8. (txn = [u \in Actors |-> txn[u]])'
  BY <1>1 DEF LedgerInv
<1>9. (chainBalance \in Balances)'
  BY DEF commit, LedgerInv
<1> QED BY <1>4, <1>5, <1>6, <1>7, <1>8, <1>9, CommitSettles DEF LedgerInv

\* A verdict makes no settlement live.
LEMMA ResolveKeeps ==
    ASSUME LedgerAssumption, LedgerInv, NEW i \in DOMAIN settlements, resolveSettlement(i)
    PROVE  LedgerInv'
<1>1. settlements \in Seq(SettlementRows) /\ i \in 1..Len(settlements)
      /\ settlements[i] \in SettlementRows
  BY DEF LedgerInv, RowsOK
<1>2. PICK verdict \in {"CONFIRMED", "FAILED"} :
         settlements' = [settlements EXCEPT ![i].status = verdict]
  BY DEF resolveSettlement
<1> DEFINE row == [settlements[i] EXCEPT !.status = verdict]
<1>3. row \in SettlementRows /\ row.position = settlements[i].position /\ row.status = verdict
  BY <1>1 DEF SettlementRows
<1>4. settlements' = [settlements EXCEPT ![i] = row]
  BY <1>1, <1>2
<1> HIDE DEF row
<1>5. settlements' \in Seq(SettlementRows)
  BY <1>1, <1>3, <1>4
<1>6. /\ DOMAIN settlements' = DOMAIN settlements
      /\ \A j \in DOMAIN settlements :
            /\ settlements'[j].position = settlements[j].position
            /\ settlements'[j].status \in DEDUPE_STATUSES => settlements[j].status \in DEDUPE_STATUSES
  <2>1. settlements[i].status \in DEDUPE_STATUSES
    BY DEF resolveSettlement, DEDUPE_STATUSES
  <2> QED BY <1>1, <1>3, <1>4, <2>1
<1>7. OneLiveSettlement'
  BY <1>6 DEF LedgerInv, OneLiveSettlement
<1>8. \A p : Unsettled(p) => Unsettled(p)'
  BY <1>6 DEF Unsettled
<1>9. UNCHANGED <<position, liquidations, account, chainBalance, txn>>
  BY DEF resolveSettlement
<1>10. ASSUME NEW u \in Actors PROVE TxnOK(txn[u])'
  <2>1. TxnOK(txn[u])
    BY HoldersAreOK
  <2> QED BY <2>1, <1>8, <1>9 DEF TxnOK, InStep, Locked, Creates, Holds
<1>11. RowsOK'
  BY <1>5, <1>9 DEF LedgerInv, RowsOK
<1> QED BY <1>7, <1>9, <1>10, <1>11 DEF LedgerInv, Exclusive

---------------------------------------------------------------------------
(* The invariant, and what follows from it.                                *)

\* The row of an order that nothing else has followed.
LEMMA OpenRowIsRow ==
    ASSUME LedgerAssumption, NEW k \in Keys, NEW size \in Sizes, NEW price \in Prices,
           NEW leverage \in Leverages
    PROVE  LET row == OpenRow(k, size, price, leverage)
           IN  /\ row \in Rows
               /\ row.status = "OPEN" /\ row.size = size /\ row.leverage = leverage
               /\ row.entryPrice = price /\ row.key = k /\ row.unrealizedPnl = 0
               /\ row.initialMargin =
                     calculateInitialMargin(calculatePositionNotional(size, price), leverage)
<1> DEFINE margin == calculateInitialMargin(calculatePositionNotional(size, price), leverage)
<1>1. size \in Nat \ {0} /\ price \in Nat /\ leverage \in Nat \ {0}
  BY ConstantsAreNats
<1>2. margin \in Nat
  BY <1>1, MarginOfSize
<1>3. size \in 0..MaxSize /\ leverage \in Leverages \cup {1}
  BY <1>1 DEF LedgerAssumption
<1>4. NoRow \in Rows /\ NoRow.unrealizedPnl = 0
  BY NoRowIsRow DEF NoRow
<1>5. OpenRow(k, size, price, leverage) =
         [NoRow EXCEPT !.key = k, !.status = "OPEN", !.size = size, !.entryPrice = price,
                       !.leverage = leverage, !.initialMargin = margin]
  BY DEF OpenRow
<1> DEFINE row == [NoRow EXCEPT !.key = k, !.status = "OPEN", !.size = size, !.entryPrice = price,
                       !.leverage = leverage, !.initialMargin = margin]
<1> HIDE DEF margin
<1>6. row \in Rows
  BY <1>1, <1>2, <1>3, <1>4 DEF Rows
<1>7. /\ row.status = "OPEN" /\ row.size = size /\ row.leverage = leverage
      /\ row.entryPrice = price /\ row.key = k /\ row.unrealizedPnl = 0
      /\ row.initialMargin = margin
  BY <1>4 DEF Rows
<1> QED BY <1>5, <1>6, <1>7 DEF margin

\* The invariant holds at first, with and without a position.
LEMMA LedgerInit ==
    ASSUME LedgerAssumption, Init
    PROVE  LedgerInv
<1>1. NoRow \in Rows /\ NoRow.status = "NONE" /\ TxnOK(NoTxn) /\ NoTxn.locks = {}
  BY NoRowIsRow, NoTxnOK
<1>2. liquidations = <<>> /\ settlements = <<>>
  BY DEF Init
<1>3. position \in [Positions -> Rows] /\ account \in
             [exists : BOOLEAN, settledBalance : Balances \cup {0}, usedMargin : Nat,
              totalUnrealizedPnl : Int, equity : Int, freeCollateral : Nat, marginRatio : Nat]
      /\ (~account.exists => \A p \in Positions : position[p].status = "NONE")
  <2>1. CASE position = [p \in Positions |-> NoRow] /\ account = NoAccount
    BY <1>1, <2>1 DEF NoAccount
  <2>2. CASE ~(position = [p \in Positions |-> NoRow] /\ account = NoAccount)
    <3>1. PICK first \in Positions, k \in Keys, size \in Sizes, price \in Prices,
               leverage \in Leverages :
             LET row == OpenRow(k, size, price, leverage)
             IN  /\ position = [p \in Positions |-> IF p = first THEN row ELSE NoRow]
                 /\ account = AccountRow(chainBalance, row.initialMargin, 0,
                                  calculateAccountMetrics(chainBalance, row.initialMargin, 0))
      BY <2>2 DEF Init
    <3> DEFINE row == OpenRow(k, size, price, leverage)
    <3>2. row \in Rows
      BY OpenRowIsRow
    <3>3. row.initialMargin \in Nat /\ chainBalance \in Balances \cup {0} /\ 0 \in Int
      BY <3>2 DEF Rows, Init
    <3>4. /\ position = [p \in Positions |-> IF p = first THEN row ELSE NoRow]
          /\ account = AccountRow(chainBalance, row.initialMargin, 0,
                                  calculateAccountMetrics(chainBalance, row.initialMargin, 0))
      BY <3>1
    <3> HIDE DEF row
    <3> QED BY <1>1, <3>2, <3>3, <3>4, AccountIsRow
  <2> QED BY <2>1, <2>2
<1>4. RowsOK
  BY <1>2, <1>3 DEF RowsOK
<1>5. txn = [t \in Actors |-> NoTxn] /\ chainBalance \in Balances
  BY DEF Init
<1> QED BY <1>1, <1>2, <1>4, <1>5 DEF LedgerInv, Exclusive, OneLiveSettlement

\* Every step keeps the invariant.
LEMMA LedgerStep ==
    ASSUME LedgerAssumption, LedgerInv, [Next]_vars
    PROVE  LedgerInv'
<1>1. CASE UNCHANGED vars
  <2>1. UNCHANGED <<position, liquidations, settlements, account, chainBalance, txn>>
    BY <1>1 DEF vars, rows
  <2>2. \A t \in Actors : TxnOK(txn[t]) => TxnOK(txn[t])'
    BY <2>1 DEF TxnOK, InStep, Locked, Creates, Holds, Unsettled
  <2> QED BY <2>1, <2>2 DEF LedgerInv, RowsOK, Exclusive, OneLiveSettlement
<1>2. ASSUME NEW t \in Actors, Request(t) \/ syncWallet(t) \/ Statement(t) \/ rollback(t)
      PROVE  LedgerInv'
  <2>1. CASE commit(t)
    BY <2>1, CommitKeeps
  <2>2. CASE rollback(t)
    BY <2>2, EndMoves, MovesKeep DEF rollback
  <2>3. CASE Request(t) \/ syncWallet(t)
    BY <2>3, BeginMoves, MovesKeep
  <2>4. CASE Statement(t) /\ ~commit(t)
    <3>1. Moves(t)
      BY <2>4, EnsureMoves, FindOpenMoves, ReadMoves, FindLiquidationMoves, WriteMoves,
         SettledMoves, SyncWriteMoves, MarginMoves, AccountMoves, QueueMoves DEF Statement
    <3> QED BY <3>1, MovesKeep
  <2> QED BY <1>2, <2>1, <2>2, <2>3, <2>4
<1>3. ASSUME NEW i \in DOMAIN settlements, resolveSettlement(i)
      PROVE  LedgerInv'
  BY <1>3, ResolveKeeps
<1>4. CASE chainMoves
  <2>1. UNCHANGED <<position, liquidations, settlements, account, txn>> /\ chainBalance' \in Balances
    BY <1>4 DEF chainMoves, rows
  <2>2. \A t \in Actors : TxnOK(txn[t]) => TxnOK(txn[t])'
    BY <2>1 DEF TxnOK, InStep, Locked, Creates, Holds, Unsettled
  <2> QED BY <2>1, <2>2 DEF LedgerInv, RowsOK, Exclusive, OneLiveSettlement
<1> QED BY <1>1, <1>2, <1>3, <1>4 DEF Next

\* However many transactions and syncs interleave: what each has read and which
\* rows it has locked at each of its statements (position-service.ts,
\* liquidation-service.ts, account-service.ts and vault-sync-service.ts).
THEOREM LedgerIsSound == Spec => []LedgerInv
<1>1. Init => LedgerInv
  BY LedgerInit, LedgerAssumption
<1>2. LedgerInv /\ [Next]_vars => LedgerInv'
  BY LedgerStep, LedgerAssumption
<1> QED BY <1>1, <1>2, PTL DEF Spec

\* The types of the history variables.
HistoryType ==
    /\ overwritten \subseteq Positions /\ named \subseteq Positions
    /\ overtaken \subseteq Actors /\ behind \in BOOLEAN

\* A step keeps them.
LEMMA HistoryStep ==
    ASSUME LedgerAssumption, LedgerInv, HistoryType, [Next]_vars
    PROVE  HistoryType'
<1>1. CASE UNCHANGED history
  BY <1>1 DEF history, HistoryType
<1>2. ASSUME NEW t \in Actors, commit(t)
      PROVE  HistoryType'
  <2>1. TxnOK(txn[t]) /\ txn[t] \in TxnType /\ txn[t].pc = "commit"
    BY <1>2, HoldersAreOK DEF commit, At
  <2>2. txn[t].op # "sync" => txn[t].p \in Positions
    BY <2>1 DEF TxnOK, TxnType, InStep, Holds
  <2> QED BY <1>2, <2>2 DEF commit, Remember, HistoryType, NamesMargin
<1>3. ASSUME NEW t \in Actors, rollback(t)
      PROVE  HistoryType'
  BY <1>3 DEF rollback, HistoryType
<1>4. ASSUME NEW t \in Actors, Request(t) \/ syncWallet(t) \/ Statement(t), ~commit(t)
      PROVE  UNCHANGED history
  BY <1>4 DEF Request, openPosition, closePosition, scanPosition, finalizeLiquidation, syncWallet,
     Statement, ensureAccount, findOpenPosition, readOpenPosition, findLiquidation,
     readLiquidatedPosition, writePosition, readSettledBalance, syncSettledBalance, readAccount,
     readMargin, writeAccount, queueSettlement
<1>5. (\E i \in DOMAIN settlements : resolveSettlement(i)) \/ chainMoves => UNCHANGED history
  BY DEF resolveSettlement, chainMoves
<1>6. UNCHANGED vars => UNCHANGED history
  BY DEF vars
<1> QED BY <1>1, <1>2, <1>3, <1>4, <1>5, <1>6 DEF Next

\* The rows and what transactions hold keep their types, so no order or close
\* makes a size negative or larger than an order may.
THEOREM LedgerTypes == Spec => []TypeOK
<1>1. ASSUME LedgerInv, HistoryType PROVE TypeOK
  <2>1. \A t \in Actors : txn[t].locks \subseteq Positions \cup {Account} /\ txn[t].write \in Rows
    BY <1>1, HoldersAreOK DEF TxnType
  <2>2. \A l \in DOMAIN liquidations : liquidations[l] \in LiquidationRows
    BY <1>1, LiquidationIsRow DEF LedgerInv
  <2>3. \A i \in DOMAIN settlements : settlements[i] \in SettlementRows
    BY <1>1 DEF LedgerInv, RowsOK
  <2> QED BY <1>1, <2>1, <2>2, <2>3
          DEF TypeOK, LedgerInv, RowsOK, LiquidationRows, SettlementRows, HistoryType
<1>2. Init => LedgerInv /\ HistoryType
  BY LedgerInit, LedgerAssumption DEF Init, HistoryType
<1>3. LedgerInv /\ HistoryType /\ [Next]_vars => (LedgerInv /\ HistoryType)'
  BY LedgerStep, HistoryStep, LedgerAssumption
<1> QED BY <1>1, <1>2, <1>3, PTL DEF Spec

\* A position never has two live settlements, however closes, ends of
\* liquidations and verdicts interleave: queueSettlementRequest is called with the
\* account's row locked (settlement-service.ts).
THEOREM SettlementsAreSingle == Spec => []OneLiveSettlement
<1>1. LedgerInv => OneLiveSettlement
  BY DEF LedgerInv
<1> QED BY <1>1, LedgerIsSound, PTL

\* Transactions never wait for one another in a circle: the holder of the
\* account's row is never kept waiting, and without one no holder of a
\* position's row is.
THEOREM WaitsEnd == Spec => []NoLockCycle
<1>1. ASSUME LedgerInv, ~Quiet, \A t \in Actors : ~At(t, "idle") => Waits(t)
      PROVE  FALSE
  <2>0. /\ \A t \in Actors : TxnOK(txn[t])
        /\ Exclusive
    BY <1>1 DEF LedgerInv
  <2>1. ASSUME NEW t \in Actors, Account \in txn[t].locks PROVE FALSE
    <3>1. ~At(t, "idle")
      BY <2>0, <2>1 DEF TxnOK, Locked, Unlocked, At
    <3>2. Free(t, Account)
      BY <2>0, <2>1 DEF Exclusive, Free
    <3>3. At(t, "writePosition") /\ ~Free(t, txn[t].p)
      BY <1>1, <3>1, <3>2 DEF Waits
    <3>4. PICK u \in Actors \ {t} : txn[t].p \in txn[u].locks
      BY <3>3 DEF Free
    <3>5. ~account.exists
      BY <2>0, <2>1, <3>3 DEF TxnOK, Creates, Early, At
    <3>6. txn[u].pc \notin {"idle", "ensureAccount"}
      BY <2>0, <3>4 DEF TxnOK, Locked, Unlocked
    <3>7. Account \in txn[u].locks
      BY <2>0, <3>5, <3>6 DEF TxnOK, Creates
    <3> QED BY <2>0, <2>1, <3>4, <3>7 DEF Exclusive
  <2>2. \A t \in Actors : Free(t, Account)
    BY <2>1 DEF Free
  <2>3. PICK t \in Actors : ~At(t, "idle")
    BY <1>1 DEF Quiet
  <2>4. PICK u \in Actors : txn[t].p \in txn[u].locks
    BY <1>1, <2>2, <2>3 DEF Waits, Free
  <2>5. txn[u].pc \in Late
    <3>1. txn[u].locks \subseteq {Account} => txn[t].p = Account
      BY <2>4
    <3> QED BY <2>0, <2>1, <2>4 DEF TxnOK, TxnType, Locked, Unlocked, Early, Late
  <2>6. ~At(u, "idle") /\ ~At(u, "writePosition")
    BY <2>5 DEF Late, At
  <2> QED BY <1>1, <2>2, <2>6 DEF Waits
<1>2. LedgerInv => NoLockCycle
  BY <1>1 DEF NoLockCycle
<1> QED BY <1>2, LedgerIsSound, PTL

---------------------------------------------------------------------------
(* What transactions have read, and what they are about to write.          *)

\* Liquidation l has not been finalized.
IsPending(l) == liquidations[l].status \in PENDING_LIQUIDATION_STATUSES

\* Position p is open for key k.
IsOpen(p, k) == position[p].status = "OPEN" /\ position[p].key = k

\* The statements after which the transaction has decided what to write.
Found == {"writePosition"} \cup Late

\* The order of transaction x makes a new row.
IsFresh(x) == x.op = "open" /\ x.pc \in Found /\ x.read.status = "NONE"

\* Size and status of a row agree.
SizeRule(row) == row.size > 0 <=> row.status \in {"OPEN", "LIQUIDATING"}

\* The margin of an open row is the one its size, price and leverage ask for.
MarginRule(row) ==
    row.status = "OPEN" =>
        row.initialMargin =
           calculateInitialMargin(calculatePositionNotional(row.size, row.entryPrice), row.leverage)

\* What it has read, whatever has become of the row since.
Reads(x) ==
    /\ IsFresh(x) => position[x.p].status = "NONE"
    /\ x.op \in Updates /\ x.p \in Positions /\ ~IsFresh(x) => position[x.p].status # "NONE"
    /\ x.op = "open" /\ x.pc \notin Found => x.p = 0
    /\ x.op = "open" /\ x.pc \in Found => x.read.status \in {"NONE", "OPEN"}
    /\ x.op = "close" /\ x.pc \in Found => x.read.status = "OPEN" /\ x.read.key = position[x.p].key
    /\ x.op = "scan" => x.read.status = "OPEN"
    /\ x.op = "finalize" => x.p = liquidations[x.liq].position

\* What it is about to commit: to a row it has locked.
Writes(x) ==
    x.pc \in Late /\ x.op \in Updates =>
        /\ x.write.status # "NONE"
        /\ x.write.key = IF IsFresh(x) THEN x.key ELSE position[x.p].key
        /\ x.write.status = "OPEN" =>
              x.write.size > 0 /\ (IsFresh(x) \/ x.op = "close" \/ position[x.p].status = "OPEN")
        /\ x.write.status = "LIQUIDATING" => x.op = "scan" \/ position[x.p].status = "LIQUIDATING"
        /\ x.op = "finalize" => x.write.status = "LIQUIDATED"
        /\ x.read = position[x.p] /\ (x.read.status = "OPEN" => x.read.size > 0) => SizeRule(x.write)
        /\ x.read = position[x.p] /\ ~NamesMargin(x) => MarginRule(x.write)

\* No two orders make the same row.
OrdersApart ==
    \A t, u \in Actors : IsFresh(txn[t]) /\ IsFresh(txn[u]) /\ txn[t].p = txn[u].p => t = u

\* The invariant about them.
ReadInv ==
    /\ \A t \in Actors : /\ Reads(txn[t]) /\ Writes(txn[t])
                         /\ txn[t].op \in Updates => t \in Txns
    /\ OrdersApart
    /\ \A l \in DOMAIN liquidations : position[liquidations[l].position].status # "NONE"

\* A step that only moves transaction t.
LEMMA ReadInvMoves ==
    ASSUME LedgerInv, ReadInv, NEW t \in Actors, NEW n, Advance(t, n), UNCHANGED rows,
           Reads(n), Writes(n), n.op \in Updates => t \in Txns,
           IsFresh(n) => \/ IsFresh(txn[t]) /\ n.p = txn[t].p
                         \/ \A u \in Actors : txn[u].p # n.p
    PROVE  ReadInv'
<1>1. \A u \in Actors : txn'[u] = IF u = t THEN n ELSE txn[u]
  BY DEF LedgerInv, Advance
<1>2. position' = position /\ liquidations' = liquidations
  BY DEF rows
<1>3. ASSUME NEW u \in Actors
      PROVE  Reads(txn[u])' /\ Writes(txn[u])' /\ (txn'[u].op \in Updates => u \in Txns)
  <2>1. Reads(txn'[u]) /\ Writes(txn'[u]) /\ (txn'[u].op \in Updates => u \in Txns)
    BY <1>1 DEF ReadInv
  <2>2. Reads(txn[u])'
    BY <1>2, <2>1 DEF Reads, IsFresh
  <2>3. Writes(txn[u])'
    BY <1>2, <2>1 DEF Writes, IsFresh, SizeRule, MarginRule, NamesMargin
  <2> QED BY <2>1, <2>2, <2>3
<1>4. OrdersApart'
  <2>1. ASSUME NEW u \in Actors, NEW v \in Actors, IsFresh(txn'[u]), IsFresh(txn'[v]),
               txn'[u].p = txn'[v].p
        PROVE  u = v
    <3> HIDE DEF IsFresh
    <3> QED BY <1>1, <2>1 DEF ReadInv, OrdersApart
  <2> QED BY <2>1 DEF OrdersApart, IsFresh
<1>5. (\A l \in DOMAIN liquidations : position[liquidations[l].position].status # "NONE")'
  BY <1>2 DEF ReadInv
<1> QED BY <1>3, <1>4, <1>5 DEF ReadInv

---------------------------------------------------------------------------
(* What a transaction does at each of its steps.                           *)

\* What a statement leaves alone that neither reads nor writes a position.
Same(x, n) ==
    /\ n.op = x.op /\ n.p = x.p /\ n.key = x.key /\ n.read = x.read /\ n.write = x.write
    /\ n.liq = x.liq /\ n.margin = x.margin
    /\ n.op \in Updates => (n.pc \in Found <=> x.pc \in Found) /\ (n.pc \in Late <=> x.pc \in Late)

\* Who begins has read nothing yet, but for a scan's query.
Begins(t, n) ==
    /\ n.pc \in {"ensureAccount", "readPosition", "findLiquidation"}
    /\ n.op \in Updates => t \in Txns
    /\ n.op = "open" => n.p = 0
    /\ n.op = "close" => position[n.p].status # "NONE"
    /\ n.op = "scan" => n.read = position[n.p] /\ position[n.p].status = "OPEN"
    /\ n.op = "finalize" => n.liq \in DOMAIN liquidations /\ n.p = liquidations[n.liq].position

\* An order finds an open position of its key, or takes an id nobody has.
Orders(x, n) ==
    /\ x.op = "open" /\ x.pc = "findOpen"
    /\ n.op = "open" /\ n.pc = "writePosition" /\ n.key = x.key /\ n.p \in Positions
    /\ \/ n.read = position[n.p] /\ IsOpen(n.p, x.key)
       \/ n.read = NoRow /\ Fresh(n.p) /\ \A q \in Positions : ~IsOpen(q, x.key)

\* A close and the end of a liquidation read the row.
ReadsRow(x, n) ==
    /\ x.op \in {"close", "finalize"} /\ x.pc = "readPosition"
    /\ n.op = x.op /\ n.pc = "writePosition" /\ n.p = x.p /\ n.liq = x.liq
    /\ n.read = position[n.p]
    /\ n.op = "close" => position[n.p].status = "OPEN"

\* A scan finds no pending liquidation of its position.
Looks(x, n) ==
    /\ x.op = "scan" /\ x.pc = "findLiquidation"
    /\ n.op = "scan" /\ n.pc = "writePosition" /\ n.p = x.p /\ n.read = x.read
    /\ \A l \in DOMAIN liquidations : liquidations[l].position = x.p => ~IsPending(l)

\* The UPDATE of the position.
WritesRow(t, n) ==
    /\ At(t, "writePosition") /\ txn[t].op \in Updates
    /\ n.op = txn[t].op /\ n.pc = "readAccount" /\ n.p = txn[t].p /\ n.key = txn[t].key
    /\ n.read = txn[t].read /\ n.liq = txn[t].liq /\ n.margin = txn[t].margin
    /\ n.write = Columns(t, position[txn[t].p])

\* All of these, and the end without a trace.
Steps(t, n) ==
    \/ n = NoTxn \/ Begins(t, n) \/ Same(txn[t], n) \/ Orders(txn[t], n) \/ ReadsRow(txn[t], n)
    \/ Looks(txn[t], n) \/ WritesRow(t, n)

\* The statements that only move a transaction on leave what it has read.
LEMMA MinorSame ==
    ASSUME LedgerAssumption, LedgerInv, NEW t \in Actors,
           \/ ensureAccount(t) \/ readSettledBalance(t) \/ syncSettledBalance(t)
           \/ readAccount(t) \/ readMargin(t) \/ writeAccount(t) \/ queueSettlement(t)
    PROVE  UNCHANGED rows /\ \E n : Advance(t, n) /\ (n = NoTxn \/ Same(txn[t], n))
<1>1. UNCHANGED rows
  BY DEF ensureAccount, readSettledBalance, syncSettledBalance, readAccount, readMargin,
         writeAccount, queueSettlement
<1>2. txn[t] \in TxnType /\ InStep(txn[t])
  BY HoldersAreOK DEF TxnOK
<1>3. ASSUME NEW locks, NEW pc \in {"readChain", "findOpen"}, At(t, "ensureAccount")
      PROVE  Same(txn[t], [txn[t] EXCEPT !.locks = locks, !.pc = pc])
  BY <1>2, <1>3 DEF TxnType, Same, Found, Late, At
<1>4. ASSUME NEW settled, At(t, "readChain")
      PROVE  Same(txn[t], [txn[t] EXCEPT !.settled = settled, !.pc = "writeSettled"])
  BY <1>2, <1>4 DEF TxnType, Same, Found, Late, At
<1>5. ASSUME NEW locks, At(t, "writeSettled")
      PROVE  Same(txn[t], [txn[t] EXCEPT !.locks = locks, !.pc = "readAccount"])
  <2>1. txn[t].op = "sync"
    BY <1>2, <1>5 DEF InStep, Updates, At
  <2> QED BY <1>2, <2>1 DEF TxnType, Same, Updates
<1>6. ASSUME NEW settled, At(t, "readAccount")
      PROVE  Same(txn[t], [txn[t] EXCEPT !.settled = settled, !.pc = "readMargin"])
  BY <1>2, <1>6 DEF TxnType, Same, Found, Late, At
<1>7. ASSUME NEW used, NEW pnl, At(t, "readMargin")
      PROVE  Same(txn[t], [txn[t] EXCEPT !.used = used, !.unrealized = pnl, !.pc = "writeAccount"])
  BY <1>2, <1>7 DEF TxnType, Same, Found, Late, At
<1>8. ASSUME NEW locks, NEW pc \in {"queueSettlement", "commit"}, At(t, "writeAccount")
      PROVE  Same(txn[t], [txn[t] EXCEPT !.locks = locks, !.pc = pc])
  BY <1>2, <1>8 DEF TxnType, Same, Found, Late, At
<1>9. ASSUME NEW queues, At(t, "queueSettlement")
      PROVE  Same(txn[t], [txn[t] EXCEPT !.queues = queues, !.pc = "commit"])
  BY <1>2, <1>9 DEF TxnType, Same, Found, Late, At
<1>10. CASE ensureAccount(t)
  BY <1>1, <1>3, <1>10 DEF ensureAccount, End
<1>11. CASE readSettledBalance(t)
  BY <1>1, <1>4, <1>11 DEF readSettledBalance
<1>12. CASE syncSettledBalance(t)
  BY <1>1, <1>5, <1>12 DEF syncSettledBalance
<1>13. CASE readAccount(t)
  <2> DEFINE settled == IF txn[t].op = "sync" THEN txn[t].settled ELSE account.settledBalance
  <2>1. Advance(t, [txn[t] EXCEPT !.settled = settled, !.pc = "readMargin"]) /\ At(t, "readAccount")
    BY <1>13, <1>2 DEF readAccount, TxnType
  <2> HIDE DEF settled
  <2> QED BY <1>1, <1>6, <2>1
<1>14. CASE readMargin(t)
  BY <1>1, <1>7, <1>14 DEF readMargin
<1>15. CASE writeAccount(t)
  <2> DEFINE locks == txn[t].locks \cup {Account}
             pc == IF txn[t].op \in {"close", "finalize"} THEN "queueSettlement" ELSE "commit"
  <2>1. Advance(t, [txn[t] EXCEPT !.locks = locks, !.pc = pc]) /\ At(t, "writeAccount")
    BY <1>15, <1>2 DEF writeAccount, TxnType
  <2>2. pc \in {"queueSettlement", "commit"}
    OBVIOUS
  <2> HIDE DEF locks, pc
  <2> QED BY <1>1, <1>8, <2>1, <2>2
<1>16. CASE queueSettlement(t)
  BY <1>1, <1>9, <1>16 DEF queueSettlement
<1> QED BY <1>10, <1>11, <1>12, <1>13, <1>14, <1>15, <1>16

\* A request and a sync begin.
LEMMA BeginSteps ==
    ASSUME LedgerAssumption, LedgerInv, NEW t \in Actors, Request(t) \/ syncWallet(t)
    PROVE  UNCHANGED rows /\ \E n : Advance(t, n) /\ Begins(t, n)
<1>1. NoTxn \in TxnType /\ NoTxn.p = 0
  BY NoTxnOK DEF TxnOK, NoTxn
<1>2. UNCHANGED rows
  BY DEF Request, openPosition, closePosition, scanPosition, finalizeLiquidation, syncWallet
<1>3. ASSUME NEW k, NEW size, NEW price, NEW leverage, NEW margin,
             openPosition(t, k, size, price, leverage, margin)
      PROVE  \E n : Advance(t, n) /\ Begins(t, n)
  <2> DEFINE n == [NoTxn EXCEPT !.op = "open", !.pc = "ensureAccount", !.key = k, !.size = size,
                                !.price = price, !.leverage = leverage, !.margin = margin]
  <2>1. n.op = "open" /\ n.pc = "ensureAccount" /\ n.p = 0
    BY <1>1 DEF TxnType
  <2>2. Advance(t, n) /\ t \in Txns
    BY <1>3 DEF openPosition, Begin
  <2> HIDE DEF n
  <2> QED BY <2>1, <2>2 DEF Begins
<1>4. ASSUME NEW p \in Positions, NEW size, NEW price, closePosition(t, p, size, price)
      PROVE  \E n : Advance(t, n) /\ Begins(t, n)
  <2> DEFINE n == [NoTxn EXCEPT !.op = "close", !.pc = "readPosition", !.p = p,
                                !.size = size, !.price = price]
  <2>1. n.op = "close" /\ n.pc = "readPosition" /\ n.p = p
    BY <1>1 DEF TxnType
  <2>2. Advance(t, n) /\ t \in Txns /\ position[p].status # "NONE"
    BY <1>4 DEF closePosition, Begin
  <2> HIDE DEF n
  <2> QED BY <2>1, <2>2 DEF Begins
<1>5. ASSUME NEW p \in Positions, NEW price, scanPosition(t, p, price)
      PROVE  \E n : Advance(t, n) /\ Begins(t, n)
  <2> DEFINE n == [NoTxn EXCEPT !.op = "scan", !.pc = "findLiquidation", !.p = p,
                                !.price = price, !.read = position[p]]
  <2>1. n.op = "scan" /\ n.pc = "findLiquidation" /\ n.p = p /\ n.read = position[p]
    BY <1>1 DEF TxnType
  <2>2. Advance(t, n) /\ t \in Txns /\ position[p].status = "OPEN"
    BY <1>5 DEF scanPosition, Begin
  <2> HIDE DEF n
  <2> QED BY <2>1, <2>2 DEF Begins
<1>6. ASSUME NEW l \in DOMAIN liquidations, finalizeLiquidation(t, l)
      PROVE  \E n : Advance(t, n) /\ Begins(t, n)
  <2> DEFINE pending == liquidations[l].status \in PENDING_LIQUIDATION_STATUSES
             n == [NoTxn EXCEPT !.op = "finalize", !.pc = "readPosition",
                      !.p = liquidations[l].position, !.liq = l,
                      !.price = liquidations[l].markPrice, !.pending = pending]
  <2>1. Advance(t, n) /\ t \in Txns
    BY <1>6 DEF finalizeLiquidation, Begin
  <2> HIDE DEF pending
  <2>2. n.op = "finalize" /\ n.pc = "readPosition" /\ n.p = liquidations[l].position /\ n.liq = l
    BY <1>1 DEF TxnType
  <2> HIDE DEF n
  <2> QED BY <2>1, <2>2 DEF Begins
<1>7. ASSUME syncWallet(t)
      PROVE  \E n : Advance(t, n) /\ Begins(t, n)
  <2> DEFINE n == [NoTxn EXCEPT !.op = "sync", !.pc = "ensureAccount"]
  <2>1. n.op = "sync" /\ n.pc = "ensureAccount"
    BY <1>1 DEF TxnType
  <2>2. Advance(t, n)
    BY <1>7 DEF syncWallet, Begin
  <2> HIDE DEF n
  <2> QED BY <2>1, <2>2 DEF Begins, Updates
<1> QED BY <1>2, <1>3, <1>4, <1>5, <1>6, <1>7 DEF Request

\* The reads and the write of a position.
LEMMA RowSteps ==
    ASSUME LedgerAssumption, LedgerInv, NEW t \in Actors,
           \/ findOpenPosition(t) \/ readOpenPosition(t) \/ readLiquidatedPosition(t)
           \/ findLiquidation(t) \/ writePosition(t)
    PROVE  UNCHANGED rows /\ \E n : Advance(t, n) /\ Steps(t, n)
<1>1. UNCHANGED rows
  BY DEF findOpenPosition, readOpenPosition, readLiquidatedPosition, findLiquidation, writePosition
<1>2. txn[t] \in TxnType /\ InStep(txn[t])
  BY HoldersAreOK DEF TxnOK
<1>3. End(t) => \E n : Advance(t, n) /\ Steps(t, n)
  BY DEF End, Steps
<1>4. CASE findOpenPosition(t)
  <2>1. At(t, "findOpen") /\ txn[t].op = "open" /\ txn[t].pc = "findOpen"
    BY <1>2, <1>4 DEF findOpenPosition, InStep, At, Updates
  <2>2. ASSUME NEW p \in Positions, NEW row,
               \/ row = position[p] /\ IsOpen(p, txn[t].key)
               \/ row = NoRow /\ Fresh(p) /\ \A q \in Positions : ~IsOpen(q, txn[t].key),
               Advance(t, [txn[t] EXCEPT !.p = p, !.read = row, !.pc = "writePosition"])
        PROVE  \E n : Advance(t, n) /\ Steps(t, n)
    <3> DEFINE n == [txn[t] EXCEPT !.p = p, !.read = row, !.pc = "writePosition"]
    <3>1. n.op = "open" /\ n.pc = "writePosition" /\ n.p = p /\ n.read = row /\ n.key = txn[t].key
      BY <1>2, <2>1 DEF TxnType
    <3>2. Advance(t, n)
      BY <2>2
    <3> HIDE DEF n
    <3>3. Orders(txn[t], n)
      BY <2>1, <2>2, <3>1 DEF Orders
    <3> QED BY <3>2, <3>3 DEF Steps
  <2> DEFINE open == {p \in Positions : position[p].status = "OPEN" /\ position[p].key = txn[t].key}
  <2>3. ASSUME NEW p \in open,
               Advance(t, [txn[t] EXCEPT !.p = p, !.read = position[p], !.pc = "writePosition"])
        PROVE  \E n : Advance(t, n) /\ Steps(t, n)
    BY <2>2, <2>3 DEF IsOpen
  <2>4. ASSUME NEW p \in Positions, open = {}, Fresh(p),
               Advance(t, [txn[t] EXCEPT !.p = p, !.read = NoRow, !.pc = "writePosition"])
        PROVE  \E n : Advance(t, n) /\ Steps(t, n)
    BY <2>2, <2>4 DEF IsOpen
  <2> QED BY <1>3, <1>4, <2>3, <2>4 DEF findOpenPosition
<1>5. CASE readOpenPosition(t) \/ readLiquidatedPosition(t)
  <2> DEFINE x == txn[t]
             row == position[x.p]
             size == IF x.op = "close" THEN x.size ELSE row.size
             pnl == calculateRealizedPnl(row.key, row.entryPrice, x.price, size)
             n == [txn[t] EXCEPT !.read = row, !.pc = "writePosition", !.pnl = pnl]
  <2>1. /\ txn[t].op \in {"close", "finalize"} /\ txn[t].pc = "readPosition"
        /\ \/ Advance(t, n) /\ (txn[t].op = "close" => row.status = "OPEN")
           \/ End(t)
    BY <1>5, <1>2 DEF readOpenPosition, readLiquidatedPosition, At, TxnType
  <2>2. ASSUME Advance(t, n), txn[t].op = "close" => row.status = "OPEN"
        PROVE  \E m : Advance(t, m) /\ Steps(t, m)
    <3> HIDE DEF pnl
    <3>1. n.op = txn[t].op /\ n.pc = "writePosition" /\ n.p = txn[t].p /\ n.read = row /\ n.liq = txn[t].liq
      BY <1>2 DEF TxnType
    <3>2. Advance(t, n)
      BY <2>2
    <3> HIDE DEF n
    <3>3. ReadsRow(txn[t], n)
      BY <2>1, <2>2, <3>1 DEF ReadsRow
    <3> QED BY <3>2, <3>3 DEF Steps
  <2> HIDE DEF n
  <2> QED BY <1>1, <1>3, <2>1, <2>2
<1>6. CASE findLiquidation(t)
  <2> DEFINE n == [txn[t] EXCEPT !.pc = "writePosition"]
             pending == {l \in DOMAIN liquidations :
                       /\ liquidations[l].position = txn[t].p
                       /\ liquidations[l].status \in PENDING_LIQUIDATION_STATUSES}
  <2>1. /\ txn[t].op = "scan" /\ txn[t].pc = "findLiquidation"
        /\ (pending = {} /\ Advance(t, n)) \/ End(t)
    BY <1>2, <1>6 DEF findLiquidation, At, InStep, Updates
  <2>2. n.op = "scan" /\ n.pc = "writePosition" /\ n.p = txn[t].p /\ n.read = txn[t].read
    BY <1>2, <2>1 DEF TxnType
  <2>3. pending = {} => \A l \in DOMAIN liquidations : liquidations[l].position = txn[t].p => ~IsPending(l)
    BY DEF IsPending
  <2> HIDE DEF n, pending
  <2>4. pending = {} => Looks(txn[t], n)
    BY <2>1, <2>2, <2>3 DEF Looks
  <2> QED BY <1>1, <1>3, <2>1, <2>4 DEF Steps
<1>7. CASE writePosition(t)
  <2> DEFINE new == Columns(t, position[txn[t].p])
             locks == txn[t].locks \cup {txn[t].p}
             n == [txn[t] EXCEPT !.write = new, !.locks = locks, !.pc = "readAccount"]
  <2>1. Advance(t, n) /\ At(t, "writePosition") /\ txn[t].op \in Updates
    BY <1>2, <1>7 DEF writePosition, TxnType, InStep, At
  <2> HIDE DEF new, locks
  <2>2. /\ n.op = txn[t].op /\ n.pc = "readAccount" /\ n.p = txn[t].p /\ n.key = txn[t].key
        /\ n.read = txn[t].read /\ n.liq = txn[t].liq /\ n.margin = txn[t].margin /\ n.write = new
    BY <1>2 DEF TxnType
  <2> HIDE DEF n
  <2>3. WritesRow(t, n)
    BY <2>1, <2>2 DEF WritesRow, new
  <2> QED BY <1>1, <2>1, <2>3 DEF Steps
<1> QED BY <1>1, <1>4, <1>5, <1>6, <1>7

\* Whatever a transaction does but commit is one of these steps.
LEMMA StepsOfOne ==
    ASSUME LedgerAssumption, LedgerInv, NEW t \in Actors, ~commit(t),
           Request(t) \/ syncWallet(t) \/ Statement(t) \/ rollback(t)
    PROVE  UNCHANGED rows /\ \E n : Advance(t, n) /\ Steps(t, n)
<1>1. CASE Request(t) \/ syncWallet(t)
  BY <1>1, BeginSteps DEF Steps
<1>2. CASE rollback(t)
  BY <1>2 DEF rollback, End, Steps
<1>3. CASE Statement(t)
  BY <1>3, MinorSame, RowSteps DEF Statement, Steps
<1> QED BY <1>1, <1>2, <1>3

---------------------------------------------------------------------------
(* The invariant about reads and writes.                                   *)

\* A transaction that is over knows nothing.
LEMMA NoTxnKnows ==
    ASSUME LedgerAssumption
    PROVE  Reads(NoTxn) /\ Writes(NoTxn) /\ NoTxn.op \notin Updates /\ ~IsFresh(NoTxn)
<1>1. NoTxn.op = "none" /\ NoTxn.pc = "idle"
  BY NoTxnOK
<1> QED BY <1>1 DEF Reads, Writes, IsFresh, Updates, Late

\* What the UPDATE writes, of the row as it is.
LEMMA WriteKnows ==
    ASSUME LedgerAssumption, LedgerInv, ReadInv, NEW t \in Actors, NEW n, WritesRow(t, n)
    PROVE  Reads(n) /\ Writes(n)
<1> DEFINE x == txn[t]
           row == position[txn[t].p]
<1>1. /\ TxnOK(txn[t]) /\ txn[t] \in TxnType /\ At(t, "writePosition") /\ txn[t].op \in Updates
      /\ Reads(txn[t]) /\ txn[t].pc = "writePosition" /\ txn[t].p \in Positions
  <2>1. /\ TxnOK(txn[t]) /\ txn[t] \in TxnType /\ At(t, "writePosition") /\ txn[t].op \in Updates
        /\ Reads(txn[t]) /\ txn[t].pc = "writePosition"
    BY HoldersAreOK DEF WritesRow, ReadInv, At
  <2> QED BY <2>1 DEF TxnOK, Holds
<1>2. row \in Rows
  BY <1>1 DEF LedgerInv, RowsOK
<1>3. /\ n.op = txn[t].op /\ n.pc = "readAccount" /\ n.p = txn[t].p /\ n.key = txn[t].key
      /\ n.read = txn[t].read /\ n.liq = txn[t].liq /\ n.margin = txn[t].margin
      /\ n.write = Columns(t, row)
  BY DEF WritesRow
<1>4. (IsFresh(n) <=> IsFresh(txn[t])) /\ (NamesMargin(n) <=> NamesMargin(txn[t]))
  BY <1>1, <1>3 DEF IsFresh, NamesMargin, Found, Late
<1>5. Reads(n)
  BY <1>1, <1>3, <1>4 DEF Reads, Found, Late
<1>6. ASSUME txn[t].op = "open" PROVE Writes(n)
  <2>1. n.write = OpenedColumns(t, row)
    BY <1>3, <1>6 DEF Columns
  <2>2. /\ IsFresh(txn[t]) <=> txn[t].read.status = "NONE"
        /\ txn[t].read.status \in {"NONE", "OPEN"}
        /\ ~IsFresh(txn[t]) => row.status # "NONE"
    BY <1>1, <1>6 DEF IsFresh, Found, Reads
  <2> HIDE DEF row
  <2>3. /\ n.write.size > 0 /\ n.write.leverage = txn[t].leverage
        /\ ~NamesMargin(txn[t]) =>
              n.write.initialMargin =
                 calculateInitialMargin(
                    calculatePositionNotional(n.write.size, n.write.entryPrice), n.write.leverage)
        /\ n.write.status = IF txn[t].read.status = "NONE" THEN "OPEN" ELSE row.status
        /\ n.write.key = IF txn[t].read.status = "NONE" THEN txn[t].key ELSE row.key
    BY <1>1, <1>2, <1>6, <2>1, OpenedIsRow
  <2>4. SizeRule(n.write) \/ n.read # row
    BY <1>3, <2>2, <2>3 DEF SizeRule
  <2>5. NamesMargin(n) \/ MarginRule(n.write)
    BY <1>4, <2>3 DEF MarginRule
  <2> QED BY <1>3, <1>4, <1>6, <2>2, <2>3, <2>4, <2>5 DEF Writes, row
<1>7. ASSUME txn[t].op = "close" PROVE Writes(n)
  <2>1. n.write = ClosedColumns(t, row)
    BY <1>3, <1>7 DEF Columns
  <2> HIDE DEF row
  <2>2. /\ n.write \in Rows /\ n.write.key = row.key
        /\ n.write.leverage = row.leverage /\ n.write.entryPrice = row.entryPrice
        /\ n.write.initialMargin = calculateInitialMargin(
              calculatePositionNotional(n.write.size, txn[t].read.entryPrice), txn[t].read.leverage)
        /\ n.write.status = IF n.write.size > 0 THEN "OPEN" ELSE "CLOSED"
    BY <1>1, <1>2, <1>7, <2>1, ClosedIsRow
  <2>3. SizeRule(n.write) /\ (n.read = row => MarginRule(n.write))
    BY <1>3, <2>2 DEF SizeRule, MarginRule
  <2>4. ~IsFresh(n)
    BY <1>3, <1>7 DEF IsFresh
  <2> QED BY <1>3, <1>7, <2>2, <2>3, <2>4 DEF Writes, row
<1>8. ASSUME txn[t].op = "scan" PROVE Writes(n)
  <2>1. n.write = ScannedColumns(row) /\ txn[t].read.status = "OPEN"
    BY <1>1, <1>3, <1>8 DEF Columns, Reads
  <2> HIDE DEF row
  <2>2. n.write.size = row.size /\ n.write.status = "LIQUIDATING" /\ n.write.key = row.key
    BY <1>2, <2>1, ScannedIsRow
  <2>3. MarginRule(n.write)
    BY <2>2 DEF MarginRule
  <2>4. n.read = row /\ (n.read.status = "OPEN" => n.read.size > 0) => SizeRule(n.write)
    BY <1>3, <2>1, <2>2 DEF SizeRule
  <2>5. ~IsFresh(n)
    BY <1>3, <1>8 DEF IsFresh
  <2> QED BY <1>3, <1>8, <2>2, <2>3, <2>4, <2>5 DEF Writes, row
<1>9. ASSUME txn[t].op = "finalize" PROVE Writes(n)
  <2>1. n.write = LiquidatedColumns(t, row)
    BY <1>3, <1>9 DEF Columns
  <2> HIDE DEF row
  <2>2. n.write.size = 0 /\ n.write.status = "LIQUIDATED" /\ n.write.key = row.key
    BY <1>1, <1>2, <2>1, LiquidatedIsRow
  <2>3. MarginRule(n.write) /\ SizeRule(n.write)
    BY <2>2 DEF MarginRule, SizeRule
  <2>4. ~IsFresh(n)
    BY <1>3, <1>9 DEF IsFresh
  <2> QED BY <1>3, <1>9, <2>2, <2>3, <2>4 DEF Writes, row
<1> QED BY <1>1, <1>5, <1>6, <1>7, <1>8, <1>9 DEF Updates

\* The invariant survives what a transaction does before it commits.
LEMMA ReadSteps ==
    ASSUME LedgerAssumption, LedgerInv, ReadInv, NEW t \in Actors, NEW n, Advance(t, n),
           UNCHANGED rows, Steps(t, n)
    PROVE  ReadInv'
<1> DEFINE x == txn[t]
<1>1. /\ TxnOK(x) /\ x \in TxnType /\ Reads(x) /\ Writes(x) /\ (x.op \in Updates => t \in Txns)
      /\ \A p \in Positions : position[p] \in Rows
      /\ 0 \notin Positions
  BY HoldersAreOK, AccountIsNoPosition DEF ReadInv, LedgerInv, RowsOK, Account
<1>2. CASE n = NoTxn
  BY <1>2, NoTxnKnows, ReadInvMoves
<1>3. CASE Begins(t, n)
  <2>1. n.pc \notin Found /\ n.pc \notin Late /\ ~IsFresh(n)
    BY <1>3 DEF Begins, Found, Late, IsFresh
  <2>2. n.op = "finalize" => position[n.p].status # "NONE"
    BY <1>3 DEF Begins, ReadInv
  <2>3. Reads(n) /\ Writes(n)
    BY <1>1, <1>3, <2>1, <2>2 DEF Begins, Reads, Writes, Updates
  <2> QED BY <1>3, <2>1, <2>3, ReadInvMoves DEF Begins
<1>4. CASE Same(txn[t], n)
  <2>1. IsFresh(n) <=> IsFresh(x)
    BY <1>4 DEF Same, IsFresh, Updates
  <2>2. Reads(n)
    BY <1>1, <1>4, <2>1 DEF Same, Reads, Updates
  <2>3. Writes(n)
    BY <1>1, <1>4, <2>1 DEF Same, Writes, NamesMargin
  <2> QED BY <1>1, <1>4, <2>1, <2>2, <2>3, ReadInvMoves DEF Same
<1>5. CASE Orders(txn[t], n)
  <2>1. t \in Txns /\ n.op = "open" /\ n.pc = "writePosition" /\ n.p \in Positions
    BY <1>1, <1>5 DEF Orders, Updates
  <2>2. NoRow.status = "NONE"
    BY NoRowIsRow
  <2>3. \/ n.read = position[n.p] /\ n.read.status = "OPEN" /\ ~IsFresh(n)
        \/ n.read.status = "NONE" /\ position[n.p].status = "NONE" /\ \A u \in Actors : txn[u].p # n.p
    BY <1>5, <2>2 DEF Orders, IsOpen, Fresh, IsFresh
  <2>4. Reads(n) /\ Writes(n)
    BY <2>1, <2>3 DEF Reads, Writes, Found, Late, IsFresh
  <2> QED BY <2>1, <2>3, <2>4, ReadInvMoves
<1>6. CASE ReadsRow(txn[t], n)
  <2>1. t \in Txns /\ n.op \in {"close", "finalize"} /\ n.pc = "writePosition" /\ ~IsFresh(n)
    BY <1>1, <1>6 DEF ReadsRow, Updates, IsFresh
  <2>2. x.p \in Positions /\ position[x.p].status # "NONE"
    BY <1>1, <1>6 DEF ReadsRow, Reads, TxnOK, Holds, IsFresh, Updates
  <2>3. Reads(n)
    BY <1>1, <1>6, <2>1, <2>2 DEF ReadsRow, Reads
  <2>4. Writes(n)
    BY <2>1 DEF Writes, Late
  <2> QED BY <2>1, <2>3, <2>4, ReadInvMoves
<1>7. CASE Looks(txn[t], n)
  <2>1. t \in Txns /\ n.op = "scan" /\ n.pc = "writePosition" /\ ~IsFresh(n) /\ ~IsFresh(x)
    BY <1>1, <1>7 DEF Looks, Updates, IsFresh
  <2>2. Reads(n)
    BY <1>1, <1>7, <2>1 DEF Looks, Reads, Updates
  <2>3. Writes(n)
    BY <2>1 DEF Writes, Late
  <2> QED BY <2>1, <2>2, <2>3, ReadInvMoves
<1>8. CASE WritesRow(t, n)
  <2>1. Reads(n) /\ Writes(n)
    BY <1>8, WriteKnows
  <2>2. n.op = x.op /\ n.p = x.p /\ (IsFresh(n) => IsFresh(x)) /\ x.op \in Updates
    BY <1>8 DEF WritesRow, IsFresh, At, Found
  <2> QED BY <1>1, <2>1, <2>2, ReadInvMoves
<1> QED BY <1>2, <1>3, <1>4, <1>5, <1>6, <1>7, <1>8 DEF Steps

\* What a commit does to the position rows.
LEMMA CommitWrites ==
    ASSUME LedgerAssumption, LedgerInv, NEW t \in Actors, commit(t)
    PROVE  /\ TxnOK(txn[t]) /\ txn[t] \in TxnType /\ txn[t].pc = "commit"
           /\ txn[t].op \in Updates \cup {"sync"}
           /\ txn[t].op \in Updates => txn[t].p \in Positions
           /\ \A u \in Actors : txn'[u] = IF u = t THEN NoTxn ELSE txn[u]
           /\ \A q \in Positions :
                 position'[q] = IF txn[t].op \in Updates /\ q = txn[t].p THEN txn[t].write
                                ELSE position[q]
<1>1. TxnOK(txn[t]) /\ txn[t] \in TxnType /\ txn[t].pc = "commit"
  BY HoldersAreOK DEF commit, At
<1>2. txn[t].op \in Updates \cup {"sync"}
  BY <1>1 DEF TxnOK, InStep, TxnType
<1>3. txn[t].op \in Updates => txn[t].p \in Positions
  BY <1>1 DEF TxnOK, Holds
<1>4. \A u \in Actors : txn'[u] = IF u = t THEN NoTxn ELSE txn[u]
  BY DEF commit, End, Advance, LedgerInv
<1>5. position' = IF txn[t].op = "sync" THEN position
                  ELSE [position EXCEPT ![txn[t].p] = txn[t].write]
  BY DEF commit
<1>6. \A q \in Positions :
         position'[q] = IF txn[t].op \in Updates /\ q = txn[t].p THEN txn[t].write ELSE position[q]
  BY <1>2, <1>5 DEF LedgerInv, RowsOK, Updates
<1> QED BY <1>1, <1>2, <1>3, <1>4, <1>6

\* And to the liquidations: a scan adds one, an end of one settles it.
LEMMA CommitLiquidations ==
    ASSUME LedgerAssumption, LedgerInv, NEW t \in Actors, commit(t)
    PROVE  /\ \A l \in DOMAIN liquidations :
                 /\ l \in DOMAIN liquidations'
                 /\ liquidations'[l].position = liquidations[l].position
                 /\ IsPending(l)' <=> IsPending(l) /\ ~(txn[t].op = "finalize" /\ txn[t].liq = l)
           /\ txn[t].op # "scan" => DOMAIN liquidations' = DOMAIN liquidations
           /\ txn[t].op = "scan" =>
                 \E end : /\ DOMAIN liquidations' = DOMAIN liquidations \cup {end}
                          /\ end \notin DOMAIN liquidations
                          /\ liquidations'[end].position = txn[t].p /\ IsPending(end)'
<1> DEFINE x == txn[t]
<1>1. liquidations \in Seq(LiquidationRows) /\ TxnOK(x)
  BY HoldersAreOK DEF LedgerInv, RowsOK
<1>2. CASE x.op = "scan"
  <2> DEFINE row == [position |-> x.p, markPrice |-> x.price, status |-> "QUEUED"]
  <2>0. PICK end \in Nat : end = Len(liquidations) + 1
    BY <1>1
  <2>1. liquidations' = Append(liquidations, row)
    BY <1>2 DEF commit
  <2>2. row.position = x.p /\ row.status \in PENDING_LIQUIDATION_STATUSES
    BY DEF PENDING_LIQUIDATION_STATUSES
  <2> HIDE DEF row
  <2>3. /\ DOMAIN liquidations' = DOMAIN liquidations \cup {end} /\ liquidations'[end] = row
        /\ end \notin DOMAIN liquidations
        /\ \A l \in DOMAIN liquidations : liquidations'[l] = liquidations[l]
    BY <1>1, <2>0, <2>1
  <2> QED BY <1>2, <2>2, <2>3 DEF IsPending
<1>3. CASE x.op = "finalize"
  <2>1. /\ liquidations' = [liquidations EXCEPT ![x.liq].status = "SETTLED"]
        /\ x.liq \in DOMAIN liquidations
    BY <1>1, <1>3 DEF commit, TxnOK, Holds
  <2>2. liquidations[x.liq] \in LiquidationRows
    BY <2>1, LiquidationIsRow DEF LedgerInv
  <2>3. /\ DOMAIN liquidations' = DOMAIN liquidations
        /\ \A l \in DOMAIN liquidations :
              /\ liquidations'[l].position = liquidations[l].position
              /\ liquidations'[l].status = IF l = x.liq THEN "SETTLED" ELSE liquidations[l].status
    BY <2>1, <2>2 DEF LiquidationRows
  <2> QED BY <1>3, <2>3 DEF IsPending, PENDING_LIQUIDATION_STATUSES
<1>4. CASE x.op \notin {"scan", "finalize"}
  <2>1. liquidations' = liquidations
    BY <1>4 DEF commit
  <2> QED BY <1>4, <2>1 DEF IsPending
<1> QED BY <1>2, <1>3, <1>4

\* A commit to a position: the others have not locked it, nor is it new to them.
LEMMA ReadCommit ==
    ASSUME LedgerAssumption, LedgerInv, ReadInv, NEW t \in Actors, commit(t)
    PROVE  ReadInv'
<1> DEFINE x == txn[t]
<1>1. /\ TxnOK(x) /\ x \in TxnType /\ x.pc = "commit" /\ Reads(x) /\ Writes(x)
      /\ x.op \in Updates \cup {"sync"}
      /\ x.op \in Updates => x.p \in Positions
      /\ \A u \in Actors : txn'[u] = IF u = t THEN NoTxn ELSE txn[u]
      /\ \A q \in Positions :
            position'[q] = IF x.op \in Updates /\ q = x.p THEN x.write ELSE position[q]
  BY CommitWrites DEF ReadInv
<1>2. x.op \in Updates =>
         /\ x.write.status # "NONE"
         /\ ~IsFresh(x) => x.write.key = position[x.p].key
         /\ IsFresh(x) <=> position[x.p].status = "NONE"
  BY <1>1 DEF Writes, Late, Reads
<1>3. ASSUME NEW q \in Positions, position[q].status # "NONE"
      PROVE  position'[q].status # "NONE" /\ position'[q].key = position[q].key
  BY <1>1, <1>2, <1>3
<1>4. ASSUME NEW u \in Actors, u # t
      PROVE  Reads(txn[u])' /\ Writes(txn[u])' /\ (txn'[u].op \in Updates => u \in Txns)
  <2> DEFINE y == txn[u]
  <2>1. TxnOK(y) /\ y \in TxnType /\ Reads(y) /\ Writes(y) /\ txn'[u] = txn[u]
    BY <1>1, <1>4, HoldersAreOK DEF ReadInv
  <2>2. y.op \in Updates /\ y.pc \in Found => y.p \in Positions
    BY <2>1 DEF TxnOK, Holds, Found, Late
  <2>3. ASSUME IsFresh(y) PROVE position'[y.p].status = "NONE"
    <3>1. y.p \in Positions /\ position[y.p].status = "NONE"
      BY <2>1, <2>2, <2>3 DEF IsFresh, Reads, Updates
    <3>2. x.op \in Updates => x.p # y.p
      BY <1>2, <1>4, <2>3, <3>1 DEF ReadInv, OrdersApart
    <3> QED BY <1>1, <3>1, <3>2
  <2>4. ASSUME y.op \in Updates, y.p \in Positions, ~IsFresh(y)
        PROVE  position'[y.p].status # "NONE" /\ position'[y.p].key = position[y.p].key
    BY <1>3, <2>1, <2>4 DEF Reads
  <2>5. ASSUME y.op = "close", y.pc \in Found
        PROVE  y.read.status = "OPEN" /\ y.read.key = position'[y.p].key
    <3>1. y.op \in Updates /\ y.p \in Positions /\ ~IsFresh(y)
      BY <2>2, <2>5 DEF Updates, IsFresh
    <3> QED BY <2>1, <2>4, <2>5, <3>1 DEF Reads
  <2>6. ASSUME y.op = "finalize" PROVE y.p = liquidations'[y.liq].position
    <3>1. y.liq \in DOMAIN liquidations
      BY <2>1, <2>6 DEF TxnOK, Holds
    <3> QED BY <2>1, <2>6, <3>1, CommitLiquidations DEF Reads
  <2>7. Reads(txn[u])'
    <3>1. /\ y.op = "open" /\ y.pc \notin Found => y.p = 0
          /\ y.op = "open" /\ y.pc \in Found => y.read.status \in {"NONE", "OPEN"}
          /\ y.op = "scan" => y.read.status = "OPEN"
      BY <2>1 DEF Reads
    <3> HIDE DEF y
    <3>2. /\ IsFresh(y) => position'[y.p].status = "NONE"
          /\ y.op \in Updates /\ y.p \in Positions /\ ~IsFresh(y) => position'[y.p].status # "NONE"
          /\ y.op = "close" /\ y.pc \in Found => y.read.status = "OPEN" /\ y.read.key = position'[y.p].key
          /\ y.op = "finalize" => y.p = liquidations'[y.liq].position
      BY <2>3, <2>4, <2>5, <2>6
    <3>3. txn'[u] = y
      BY <2>1 DEF y
    <3> QED BY <3>1, <3>2, <3>3 DEF Reads, IsFresh
  <2>8. ASSUME y.pc \in Late, y.op \in Updates PROVE position'[y.p] = position[y.p]
    <3>1. y.p \in y.locks /\ y.p \in Positions
      BY <2>1, <2>2, <2>8 DEF TxnOK, Locked, Found, Updates
    <3>2. x.op \in Updates => x.p \in x.locks
      BY <1>1 DEF TxnOK, Locked, Late, Updates
    <3>3. x.op \in Updates => x.p # y.p
      BY <1>4, <3>1, <3>2 DEF LedgerInv, Exclusive
    <3> QED BY <1>1, <3>1, <3>3
  <2>9. Writes(txn[u])'
    <3>1. CASE ~(y.pc \in Late /\ y.op \in Updates)
      BY <2>1, <3>1 DEF Writes
    <3>2. CASE y.pc \in Late /\ y.op \in Updates
      <4>1. position'[y.p] = position[y.p] /\ Writes(y)
        BY <2>1, <2>8, <3>2
      <4> QED BY <2>1, <3>2, <4>1 DEF Writes, IsFresh, SizeRule, MarginRule, NamesMargin
    <3> QED BY <3>1, <3>2
  <2>10. y.op \in Updates => u \in Txns
    BY DEF ReadInv
  <2> QED BY <2>1, <2>7, <2>9, <2>10
<1>5. Reads(txn[t])' /\ Writes(txn[t])' /\ ~(txn'[t].op \in Updates)
  <2>1. txn'[t] = NoTxn /\ NoTxn.op = "none" /\ NoTxn.pc = "idle"
    BY <1>1, NoTxnOK
  <2> QED BY <2>1 DEF Reads, Writes, IsFresh, Updates, Late
<1>6. OrdersApart'
  <2>1. ASSUME NEW u \in Actors, NEW v \in Actors, IsFresh(txn'[u]), IsFresh(txn'[v]),
               txn'[u].p = txn'[v].p
        PROVE  u = v
    <3> HIDE DEF IsFresh
    <3> QED BY <1>1, <2>1, NoTxnKnows DEF ReadInv, OrdersApart
  <2> QED BY <2>1 DEF OrdersApart, IsFresh
<1>7. ASSUME NEW l \in DOMAIN liquidations'
      PROVE  position'[liquidations'[l].position].status # "NONE"
  <2>1. CASE l \in DOMAIN liquidations
    <3>1. /\ liquidations[l].position \in Positions
          /\ liquidations'[l].position = liquidations[l].position
          /\ position[liquidations[l].position].status # "NONE"
      BY <2>1, LiquidationIsRow, CommitLiquidations DEF LedgerInv, ReadInv
    <3> QED BY <1>3, <3>1
  <2>2. CASE l \notin DOMAIN liquidations
    <3>0. txn[t].op = "scan"
      BY <1>7, <2>2, CommitLiquidations
    <3>1. x.op = "scan" /\ liquidations'[l].position = x.p /\ x.p \in Positions
      <4>1. PICK end : /\ DOMAIN liquidations' = DOMAIN liquidations \cup {end}
                       /\ liquidations'[end].position = txn[t].p
        BY <3>0, CommitLiquidations
      <4>2. l = end
        BY <1>7, <2>2, <4>1
      <4> QED BY <1>1, <3>0, <4>1, <4>2 DEF Updates
    <3> QED BY <1>1, <1>2, <3>1 DEF Updates
  <2> QED BY <2>1, <2>2
<1>8. ASSUME NEW u \in Actors
      PROVE  Reads(txn[u])' /\ Writes(txn[u])' /\ (txn'[u].op \in Updates => u \in Txns)
  BY <1>4, <1>5
<1> QED BY <1>6, <1>7, <1>8 DEF ReadInv

\* It holds at first.
LEMMA ReadInit ==
    ASSUME LedgerAssumption, Init
    PROVE  ReadInv
<1>1. \A t \in Actors : txn[t] = NoTxn
  BY DEF Init
<1>2. liquidations = <<>>
  BY DEF Init
<1> QED BY <1>1, <1>2, NoTxnKnows DEF ReadInv, OrdersApart

\* Every step keeps it.
LEMMA ReadStep ==
    ASSUME LedgerAssumption, LedgerInv, ReadInv, [Next]_vars
    PROVE  ReadInv'
<1>1. ASSUME UNCHANGED <<position, liquidations, txn>>
      PROVE  ReadInv'
  <2>1. ASSUME NEW t \in Actors
        PROVE  Reads(txn[t])' /\ Writes(txn[t])' /\ (txn[t].op \in Updates => t \in Txns)'
    <3>1. Reads(txn[t]) /\ Writes(txn[t]) /\ (txn[t].op \in Updates => t \in Txns)
      BY DEF ReadInv
    <3>2. Reads(txn[t])'
      BY <1>1, <3>1 DEF Reads, IsFresh
    <3>3. Writes(txn[t])'
      BY <1>1, <3>1 DEF Writes, IsFresh, SizeRule, MarginRule, NamesMargin
    <3> QED BY <1>1, <3>1, <3>2, <3>3
  <2>2. OrdersApart'
    BY <1>1 DEF ReadInv, OrdersApart, IsFresh
  <2> QED BY <1>1, <2>1, <2>2 DEF ReadInv
<1>2. ASSUME NEW t \in Actors, Request(t) \/ syncWallet(t) \/ Statement(t) \/ rollback(t)
      PROVE  ReadInv'
  BY <1>2, StepsOfOne, ReadSteps, ReadCommit
<1>3. (\E i \in DOMAIN settlements : resolveSettlement(i)) \/ chainMoves \/ UNCHANGED vars
         => UNCHANGED <<position, liquidations, txn>>
  BY DEF resolveSettlement, chainMoves, vars, rows
<1> QED BY <1>1, <1>2, <1>3 DEF Next

---------------------------------------------------------------------------
(* Status, size and margin of the committed rows.                          *)

\* The rules of the rows: of all, and of those that are as their writer meant them.
RowInv ==
    /\ \A p \in Positions : position[p].status = "OPEN" => position[p].size > 0
    /\ \A p \in Positions \ overwritten : SizeRule(position[p])
    /\ \A p \in Positions \ (overwritten \cup named) : MarginRule(position[p])

\* It holds at first.
LEMMA RowInit ==
    ASSUME LedgerAssumption, Init
    PROVE  RowInv
<1>1. NoRow.status = "NONE" /\ NoRow.size = 0
  BY NoRowIsRow
<1>2. SizeRule(NoRow) /\ MarginRule(NoRow)
  BY <1>1 DEF SizeRule, MarginRule
<1>3. ASSUME NEW p \in Positions
      PROVE  /\ SizeRule(position[p]) /\ MarginRule(position[p])
             /\ position[p].status = "OPEN" => position[p].size > 0
  <2>1. CASE position = [q \in Positions |-> NoRow]
    BY <1>1, <1>2, <2>1
  <2>2. CASE position # [q \in Positions |-> NoRow]
    <3>1. PICK first \in Positions, k \in Keys, size \in Sizes, price \in Prices,
               leverage \in Leverages :
             position = [q \in Positions |->
                            IF q = first THEN OpenRow(k, size, price, leverage) ELSE NoRow]
      BY <2>2 DEF Init
    <3> DEFINE row == OpenRow(k, size, price, leverage)
    <3>2. size > 0
      BY ConstantsAreNats
    <3>3. /\ row.status = "OPEN" /\ row.size = size /\ row.leverage = leverage
          /\ row.entryPrice = price
          /\ row.initialMargin =
                calculateInitialMargin(calculatePositionNotional(size, price), leverage)
      BY OpenRowIsRow
    <3>4. position[p] = row \/ position[p] = NoRow
      BY <3>1
    <3> HIDE DEF row
    <3>5. SizeRule(row) /\ MarginRule(row) /\ row.size > 0
      BY <3>2, <3>3 DEF SizeRule, MarginRule
    <3> QED BY <1>1, <1>2, <3>4, <3>5
  <2> QED BY <2>1, <2>2
<1> QED BY <1>3 DEF RowInv

\* A commit remembers when it has not replaced the row it had read.
LEMMA RowCommit ==
    ASSUME LedgerAssumption, LedgerInv, ReadInv, RowInv, NEW t \in Actors, commit(t)
    PROVE  RowInv'
<1> DEFINE x == txn[t]
<1>1. /\ Writes(x) /\ x.pc = "commit" /\ x.op \in Updates \cup {"sync"}
      /\ x.op \in Updates => x.p \in Positions
      /\ \A q \in Positions :
            position'[q] = IF x.op \in Updates /\ q = x.p THEN x.write ELSE position[q]
  BY CommitWrites DEF ReadInv
<1>2. CASE x.op = "sync"
  <2>1. overwritten' = overwritten /\ named' = named \ {x.p}
    BY <1>2 DEF commit, Remember, NamesMargin
  <2>2. x.p \notin Positions /\ \A q \in Positions : position'[q] = position[q]
    <3>1. x.p = 0
      BY <1>2, CommitWrites DEF TxnOK, Holds
    <3> QED BY <1>1, <1>2, <3>1, AccountIsNoPosition DEF Updates, Account
  <2> QED BY <2>1, <2>2 DEF RowInv, SizeRule, MarginRule
<1>3. CASE x.op \in Updates
  <2>1. /\ x.write.status = "OPEN" => x.write.size > 0
        /\ x.read = position[x.p] /\ (x.read.status = "OPEN" => x.read.size > 0) => SizeRule(x.write)
        /\ x.read = position[x.p] /\ ~NamesMargin(x) => MarginRule(x.write)
    BY <1>1, <1>3 DEF Writes, Late
  <2>2. x.read = position[x.p] => SizeRule(x.write)
    BY <1>1, <1>3, <2>1 DEF RowInv
  <2>3. /\ overwritten' = IF x.read = position[x.p] THEN overwritten \ {x.p} ELSE overwritten \cup {x.p}
        /\ named' = IF NamesMargin(x) THEN named \cup {x.p} ELSE named \ {x.p}
    BY <1>3 DEF commit, Remember, Updates
  <2>4. ASSUME NEW q \in Positions
        PROVE  /\ position'[q].status = "OPEN" => position'[q].size > 0
               /\ q \notin overwritten' => SizeRule(position'[q])
               /\ q \notin overwritten' \cup named' => MarginRule(position'[q])
    <3>1. CASE q = x.p
      BY <1>1, <1>3, <2>1, <2>2, <2>3, <3>1
    <3>2. CASE q # x.p
      BY <1>1, <2>3, <3>2 DEF RowInv
    <3> QED BY <3>1, <3>2
  <2> QED BY <2>4 DEF RowInv, SizeRule, MarginRule
<1> QED BY <1>1, <1>2, <1>3

\* Who does not commit does not touch the history, but for a rollback.
LEMMA HistoryKeeps ==
    ASSUME NEW t \in Actors, ~commit(t),
           Request(t) \/ syncWallet(t) \/ Statement(t) \/ rollback(t)
    PROVE  /\ UNCHANGED <<overwritten, named, behind>>
           /\ overtaken' \in {overtaken, overtaken \ {t}}
<1>1. CASE rollback(t)
  BY <1>1 DEF rollback
<1>2. CASE Request(t) \/ syncWallet(t) \/ Statement(t)
  BY <1>2 DEF Request, openPosition, closePosition, scanPosition, finalizeLiquidation, syncWallet,
     Statement, ensureAccount, findOpenPosition, readOpenPosition, findLiquidation,
     readLiquidatedPosition, writePosition, readSettledBalance, syncSettledBalance, readAccount,
     readMargin, writeAccount, queueSettlement, history
<1> QED BY <1>1, <1>2

\* Nothing else writes a row.
LEMMA OnlyCommits ==
    ASSUME LedgerAssumption, LedgerInv, [Next]_vars, \A t \in Actors : ~commit(t)
    PROVE  /\ UNCHANGED <<position, liquidations, account, overwritten, named, behind>>
           /\ \/ UNCHANGED <<txn, overtaken>>
              \/ \E t \in Actors : /\ \E n : Advance(t, n) /\ Steps(t, n)
                                   /\ overtaken' \in {overtaken, overtaken \ {t}}
<1>1. ASSUME NEW t \in Actors, Request(t) \/ syncWallet(t) \/ Statement(t) \/ rollback(t)
      PROVE  /\ UNCHANGED <<position, liquidations, account>>
             /\ \E n : Advance(t, n) /\ Steps(t, n)
  BY <1>1, StepsOfOne DEF rows
<1>2. ASSUME NEW t \in Actors, Request(t) \/ syncWallet(t) \/ Statement(t) \/ rollback(t)
      PROVE  /\ UNCHANGED <<overwritten, named, behind>>
             /\ overtaken' \in {overtaken, overtaken \ {t}}
  BY <1>2, HistoryKeeps
<1>3. (\E i \in DOMAIN settlements : resolveSettlement(i)) \/ chainMoves \/ UNCHANGED vars
         => UNCHANGED <<position, liquidations, account, overwritten, named, behind, txn, overtaken>>
  BY DEF resolveSettlement, chainMoves, vars, rows, history
<1> QED BY <1>1, <1>2, <1>3 DEF Next

\* Every step keeps the rules of the rows.
LEMMA RowStep ==
    ASSUME LedgerAssumption, LedgerInv, ReadInv, RowInv, [Next]_vars
    PROVE  RowInv'
<1>1. CASE \E t \in Actors : commit(t)
  BY <1>1, RowCommit
<1>2. CASE \A t \in Actors : ~commit(t)
  <2>1. UNCHANGED <<position, overwritten, named>>
    BY <1>2, OnlyCommits
  <2> QED BY <2>1 DEF RowInv, SizeRule, MarginRule
<1> QED BY <1>1, <1>2

\* What holds of reads, writes and rows, however requests overlap.
LEMMA RowsAreSound == Spec => [](LedgerInv /\ ReadInv /\ RowInv)
<1>1. Init => LedgerInv /\ ReadInv /\ RowInv
  BY LedgerInit, ReadInit, RowInit, LedgerAssumption
<1>2. LedgerInv /\ ReadInv /\ RowInv /\ [Next]_vars => (LedgerInv /\ ReadInv /\ RowInv)'
  BY LedgerStep, ReadStep, RowStep, LedgerAssumption
<1> QED BY <1>1, <1>2, PTL DEF Spec

---------------------------------------------------------------------------
(* How many positions may be open for a key, and how many liquidations may *)
(* be pending for a position.                                              *)

\* Transaction x may yet leave its position open for key k.
Makes(x, k) ==
    /\ x.pc \in Found
    /\ \/ IsFresh(x) /\ x.key = k
       \/ x.op = "close" /\ x.read.key = k

\* The positions that are open for key k, or may be once more.
MayOpen(k) == {p \in Positions : IsOpen(p, k) \/ \E u \in Txns : txn[u].p = p /\ Makes(txn[u], k)}

\* There are no more of them than transactions overlap.
OpenInv == \A k \in Keys : Cardinality(MayOpen(k)) <= Cardinality(Txns)

\* A set of positions each of which some transaction has is no larger than they are many.
LEMMA FewImages ==
    ASSUME LedgerAssumption, NEW f, NEW T, \A p \in T : \E u \in Txns : f[u].p = p
    PROVE  Cardinality(T) <= Cardinality(Txns)
<1> DEFINE U == {u \in Txns : f[u].p \in T}
           g == [u \in U |-> f[u].p]
<1>1. IsFiniteSet(Txns)
  BY DEF LedgerAssumption
<1>2. IsFiniteSet(U) /\ Cardinality(U) <= Cardinality(Txns)
  BY <1>1, FS_Subset
<1>3. g \in Surjection(U, T)
  BY DEF Surjection
<1>4. Cardinality(T) <= Cardinality(U) /\ IsFiniteSet(T)
  <2> HIDE DEF g, U
  <2> QED BY <1>2, <1>3, FS_Surjection
<1>5. Cardinality(T) \in Nat /\ Cardinality(U) \in Nat /\ Cardinality(Txns) \in Nat
  BY <1>1, <1>2, <1>4, FS_CardinalityType
<1> QED BY <1>2, <1>4, <1>5

\* The bound survives a step that adds nothing to the set.
LEMMA OpenSubset ==
    ASSUME LedgerAssumption, OpenInv, NEW k \in Keys, MayOpen(k)' \subseteq MayOpen(k)
    PROVE  Cardinality(MayOpen(k)') <= Cardinality(Txns)
<1>1. MayOpen(k) \subseteq Positions /\ IsFiniteSet(Positions) /\ IsFiniteSet(Txns)
  BY DEF MayOpen, LedgerAssumption
<1>2. IsFiniteSet(MayOpen(k))
  BY <1>1, FS_Subset
<1>3. IsFiniteSet(MayOpen(k)') /\ Cardinality(MayOpen(k)') <= Cardinality(MayOpen(k))
  BY <1>2, FS_Subset
<1>4. /\ Cardinality(MayOpen(k)') \in Nat /\ Cardinality(MayOpen(k)) \in Nat
      /\ Cardinality(Txns) \in Nat /\ Cardinality(MayOpen(k)) <= Cardinality(Txns)
  BY <1>1, <1>2, <1>3, FS_CardinalityType DEF OpenInv
<1> QED BY <1>3, <1>4

\* What a transaction does before it commits: only an order that has found no open
\* position of its key adds one.
LEMMA OpenSteps ==
    ASSUME LedgerAssumption, LedgerInv, OpenInv, NEW t \in Actors, NEW n, Advance(t, n),
           UNCHANGED position, Steps(t, n)
    PROVE  OpenInv'
<1> DEFINE x == txn[t]
<1>1. \A u \in Actors : txn'[u] = IF u = t THEN n ELSE txn[u]
  BY DEF LedgerInv, Advance
<1>2. Txns \subseteq Actors /\ NoTxn.op = "none" /\ NoTxn.pc = "idle" /\ NoRow.status = "NONE"
  BY NoTxnOK, NoRowIsRow DEF Actors
<1>3. ASSUME NEW k \in Keys, NEW p \in MayOpen(k)'
      PROVE  \/ p \in MayOpen(k)
             \/ t \in Txns /\ n.p = p /\ Makes(n, k)
  <2>1. p \in Positions /\ (IsOpen(p, k)' <=> IsOpen(p, k))
    BY <1>3 DEF MayOpen, IsOpen
  <2>2. CASE IsOpen(p, k)
    BY <2>1, <2>2 DEF MayOpen
  <2>3. CASE ~IsOpen(p, k)
    <3>1. PICK u \in Txns : txn'[u].p = p /\ Makes(txn'[u], k)
      BY <1>3, <2>1, <2>3 DEF MayOpen, Makes, IsFresh
    <3>2. CASE u = t
      BY <1>1, <1>2, <3>1, <3>2
    <3>3. CASE u # t
      <4>1. txn[u].p = p /\ Makes(txn[u], k)
        BY <1>1, <1>2, <3>1, <3>3
      <4> QED BY <2>1, <4>1 DEF MayOpen
    <3> QED BY <3>2, <3>3
  <2> QED BY <2>2, <2>3
<1>4. ASSUME NEW k \in Keys, t \in Txns, n.p \in Positions, Makes(n, k), n.p \notin MayOpen(k)
      PROVE  n.key = k /\ \A q \in Positions : ~IsOpen(q, k)
  <2>1. n # NoTxn /\ ~Begins(t, n) /\ ~Looks(x, n)
    BY <1>2, <1>4 DEF Makes, Begins, Looks, Found, Late, IsFresh
  <2>2. ~Same(txn[t], n)
    <3>1. ASSUME Same(txn[t], n) PROVE Makes(txn[t], k) /\ txn[t].p = n.p
      BY <1>4, <3>1 DEF Same, Makes, IsFresh, Updates
    <3> QED BY <1>4, <3>1 DEF MayOpen
  <2>3. ~WritesRow(t, n)
    <3>1. ASSUME WritesRow(t, n) PROVE Makes(txn[t], k) /\ txn[t].p = n.p
      BY <1>4, <3>1 DEF WritesRow, Makes, IsFresh, At, Found
    <3> QED BY <1>4, <3>1 DEF MayOpen
  <2>4. ~ReadsRow(txn[t], n)
    <3>1. ASSUME ReadsRow(txn[t], n) PROVE IsOpen(n.p, k)
      BY <1>4, <3>1 DEF ReadsRow, Makes, IsFresh, IsOpen
    <3> QED BY <1>4, <3>1 DEF MayOpen
  <2>5. Orders(txn[t], n)
    BY <2>1, <2>2, <2>3, <2>4 DEF Steps
  <2>6. n.key = k /\ IsFresh(n)
    BY <1>4, <2>5 DEF Orders, Makes
  <2> QED BY <2>5, <2>6 DEF Orders, IsFresh, IsOpen
<1>5. ASSUME NEW k \in Keys
      PROVE  Cardinality(MayOpen(k)') <= Cardinality(Txns)
  <2>1. CASE MayOpen(k)' \subseteq MayOpen(k)
    BY <2>1, OpenSubset
  <2>2. CASE ~(MayOpen(k)' \subseteq MayOpen(k))
    <3>1. PICK p \in MayOpen(k)' : p \notin MayOpen(k)
      BY <2>2
    <3>2. p \in Positions
      BY <3>1 DEF MayOpen
    <3>3. \A q \in Positions : ~IsOpen(q, k)
      BY <1>3, <1>4, <3>1, <3>2
    <3>4. ASSUME NEW q \in MayOpen(k)'
          PROVE  \E u \in Txns : txn'[u].p = q
      <4>1. q \in Positions /\ ~IsOpen(q, k)'
        BY <3>3, <3>4 DEF MayOpen, IsOpen
      <4> QED BY <3>4, <4>1 DEF MayOpen
    <3> QED BY <3>4, FewImages
  <2> QED BY <2>1, <2>2
<1> QED BY <1>5 DEF OpenInv

\* A commit opens no position that might not have been opened.
LEMMA OpenCommit ==
    ASSUME LedgerAssumption, LedgerInv, ReadInv, OpenInv, NEW t \in Actors, commit(t)
    PROVE  OpenInv'
<1> DEFINE x == txn[t]
<1>1. /\ Reads(x) /\ Writes(x) /\ x.pc = "commit" /\ x.op \in Updates \cup {"sync"}
      /\ x.op \in Updates => x.p \in Positions /\ t \in Txns
      /\ \A u \in Actors : txn'[u] = IF u = t THEN NoTxn ELSE txn[u]
      /\ \A q \in Positions :
            position'[q] = IF x.op \in Updates /\ q = x.p THEN x.write ELSE position[q]
  BY CommitWrites DEF ReadInv
<1>2. Txns \subseteq Actors /\ NoTxn.op = "none" /\ NoTxn.pc = "idle"
  BY NoTxnOK DEF Actors
<1>3. ASSUME NEW k \in Keys, NEW p \in MayOpen(k)'
      PROVE  p \in MayOpen(k)
  <2>1. p \in Positions
    BY <1>3 DEF MayOpen
  <2>2. CASE IsOpen(p, k)'
    <3>1. CASE ~(x.op \in Updates /\ p = x.p)
      <4>1. position'[p] = position[p]
        BY <1>1, <2>1, <3>1
      <4>2. IsOpen(p, k)
        BY <2>2, <4>1 DEF IsOpen
      <4> QED BY <2>1, <4>2 DEF MayOpen
    <3>2. CASE x.op \in Updates /\ p = x.p
      <4>1. x.write.status = "OPEN" /\ x.write.key = k
        BY <1>1, <2>1, <2>2, <3>2 DEF IsOpen
      <4>2. /\ x.write.key = IF IsFresh(x) THEN x.key ELSE position[x.p].key
            /\ IsFresh(x) \/ x.op = "close" \/ position[x.p].status = "OPEN"
        BY <1>1, <3>2, <4>1 DEF Writes, Late
      <4>3. CASE IsFresh(x)
        <5>1. Makes(x, k)
          BY <4>1, <4>2, <4>3 DEF Makes, IsFresh
        <5> QED BY <1>1, <2>1, <3>2, <5>1 DEF MayOpen
      <4>4. CASE ~IsFresh(x) /\ x.op = "close"
        <5>1. Makes(x, k)
          BY <1>1, <4>1, <4>2, <4>4 DEF Makes, Reads, Found, Late
        <5> QED BY <1>1, <2>1, <3>2, <5>1 DEF MayOpen
      <4>5. CASE ~IsFresh(x) /\ position[x.p].status = "OPEN"
        <5>1. IsOpen(p, k)
          BY <3>2, <4>1, <4>2, <4>5 DEF IsOpen
        <5> QED BY <2>1, <5>1 DEF MayOpen
      <4> QED BY <4>2, <4>3, <4>4, <4>5
    <3> QED BY <3>1, <3>2
  <2>3. CASE ~IsOpen(p, k)'
    <3>1. PICK u \in Txns : txn'[u].p = p /\ Makes(txn'[u], k)
      BY <1>3, <2>3 DEF MayOpen, Makes, IsFresh
    <3>2. u # t
      BY <1>1, <1>2, <3>1 DEF Makes, Found, Late
    <3>3. txn[u].p = p /\ Makes(txn[u], k)
      BY <1>1, <1>2, <3>1, <3>2
    <3> QED BY <2>1, <3>3 DEF MayOpen
  <2> QED BY <2>2, <2>3
<1>4. \A k \in Keys : Cardinality(MayOpen(k)') <= Cardinality(Txns)
  BY <1>3, OpenSubset
<1> QED BY <1>4 DEF OpenInv

\* There is at most one position at first.
LEMMA OpenInit ==
    ASSUME LedgerAssumption, Init
    PROVE  OpenInv
<1>1. NoRow.status = "NONE" /\ NoTxn.pc = "idle" /\ \A t \in Txns : txn[t] = NoTxn
  BY NoRowIsRow, NoTxnOK DEF Init, Actors
<1>2. PICK first : \A p \in Positions : p # first => position[p].status = "NONE"
  BY <1>1 DEF Init
<1>3. ASSUME NEW k \in Keys
      PROVE  Cardinality(MayOpen(k)) <= Cardinality(Txns)
  <2>1. MayOpen(k) \subseteq {first}
    BY <1>1, <1>2 DEF MayOpen, IsOpen, Makes, Found, Late
  <2>2. IsFiniteSet({first}) /\ Cardinality({first}) = 1
    BY FS_Singleton
  <2>3. IsFiniteSet(MayOpen(k)) /\ Cardinality(MayOpen(k)) <= 1
    BY <2>1, <2>2, FS_Subset
  <2>4. Cardinality(Txns) \in Nat /\ Cardinality(Txns) # 0
    BY FS_CardinalityType, FS_EmptySet DEF LedgerAssumption
  <2>5. Cardinality(MayOpen(k)) \in Nat
    BY <2>3, FS_CardinalityType
  <2> QED BY <2>3, <2>4, <2>5
<1> QED BY <1>3 DEF OpenInv

\* Every step keeps the bound.
LEMMA OpenStep ==
    ASSUME LedgerAssumption, LedgerInv, ReadInv, OpenInv, [Next]_vars
    PROVE  OpenInv'
<1>1. CASE \E t \in Actors : commit(t)
  BY <1>1, OpenCommit
<1>2. CASE \A t \in Actors : ~commit(t)
  <2>1. CASE UNCHANGED <<position, txn>>
    <3>1. \A k \in Keys : MayOpen(k)' = MayOpen(k)
      BY <2>1 DEF MayOpen, IsOpen, Makes, IsFresh
    <3>2. \A k \in Keys : Cardinality(MayOpen(k)') <= Cardinality(Txns)
      BY <3>1, OpenSubset
    <3> QED BY <3>2 DEF OpenInv
  <2>2. CASE ~UNCHANGED <<position, txn>>
    <3>1. UNCHANGED position /\ \E t \in Actors : \E n : Advance(t, n) /\ Steps(t, n)
      BY <1>2, <2>2, OnlyCommits
    <3> QED BY <3>1, OpenSteps
  <2> QED BY <2>1, <2>2
<1> QED BY <1>1, <1>2

\* Requests and scans overlap as they please.  An open position has a size; one
\* whose last writer had read the row it replaced has a size exactly while it is
\* open or being liquidated; and no more positions are open for a key than
\* transactions overlap (position-service.ts).
THEOREM StatusIsSize == Spec => []StatusTellsSize
<1>1. ASSUME RowInv, OpenInv PROVE StatusTellsSize
  <2>1. ASSUME NEW k \in Keys
        PROVE  Cardinality({p \in Positions : position[p].status = "OPEN" /\ position[p].key = k})
                  <= Cardinality(Txns)
    <3> DEFINE open == {p \in Positions : position[p].status = "OPEN" /\ position[p].key = k}
    <3>1. open \subseteq MayOpen(k) /\ MayOpen(k) \subseteq Positions
      BY DEF MayOpen, IsOpen
    <3>2. IsFiniteSet(Positions) /\ IsFiniteSet(Txns)
      BY LedgerAssumption DEF LedgerAssumption
    <3> HIDE DEF open
    <3>3. IsFiniteSet(MayOpen(k))
      BY <3>1, <3>2, FS_Subset
    <3>4. IsFiniteSet(open) /\ Cardinality(open) <= Cardinality(MayOpen(k))
      BY <3>1, <3>3, FS_Subset
    <3>5. Cardinality(MayOpen(k)) <= Cardinality(Txns)
      BY <1>1 DEF OpenInv
    <3>6. Cardinality(open) <= Cardinality(Txns)
      BY <3>2, <3>3, <3>4, <3>5, FS_CardinalityType
    <3> QED BY <3>6 DEF open
  <2> QED BY <1>1, <2>1 DEF StatusTellsSize, RowInv, SizeRule
<1>2. Init => OpenInv
  BY OpenInit, LedgerAssumption
<1>3. LedgerInv /\ ReadInv /\ OpenInv /\ [Next]_vars => OpenInv'
  BY OpenStep, LedgerAssumption
<1> QED BY <1>1, <1>2, <1>3, RowsAreSound, PTL DEF Spec

\* The pending liquidations of position p, and the scans about to add one.
Pending(p)  == {l \in DOMAIN liquidations : liquidations[l].position = p /\ IsPending(l)}
Scanners(p) == {u \in Txns : txn[u].op = "scan" /\ txn[u].pc \in Found /\ txn[u].p = p}

\* A position being liquidated has one, and no position more than transactions overlap.
PendingInv ==
    /\ \A p \in Positions : position[p].status = "LIQUIDATING" => Pending(p) # {}
    /\ \A p \in Positions : Cardinality(Pending(p)) + Cardinality(Scanners(p)) <= Cardinality(Txns)

\* These sets are finite.
LEMMA PendingIsFinite ==
    ASSUME LedgerAssumption, LedgerInv, NEW p
    PROVE  /\ IsFiniteSet(Pending(p)) /\ IsFiniteSet(Scanners(p)) /\ IsFiniteSet(Txns)
           /\ Cardinality(Pending(p)) \in Nat /\ Cardinality(Scanners(p)) \in Nat
           /\ Cardinality(Txns) \in Nat
<1>1. DOMAIN liquidations = 1..Len(liquidations) /\ Len(liquidations) \in Nat
  BY DEF LedgerInv, RowsOK
<1>2. IsFiniteSet(DOMAIN liquidations)
  BY <1>1, FS_Interval
<1>3. Pending(p) \subseteq DOMAIN liquidations /\ Scanners(p) \subseteq Txns /\ IsFiniteSet(Txns)
  BY DEF Pending, Scanners, LedgerAssumption
<1>4. IsFiniteSet(Pending(p)) /\ IsFiniteSet(Scanners(p))
  BY <1>2, <1>3, FS_Subset
<1> QED BY <1>3, <1>4, FS_CardinalityType

\* The bound survives a step that adds nothing to these sets.
LEMMA PendingSubset ==
    ASSUME LedgerAssumption, LedgerInv, PendingInv, NEW p \in Positions,
           Pending(p)' \subseteq Pending(p), Scanners(p)' \subseteq Scanners(p)
    PROVE  Cardinality(Pending(p)') + Cardinality(Scanners(p)') <= Cardinality(Txns)
<1>1. /\ IsFiniteSet(Pending(p)) /\ IsFiniteSet(Scanners(p))
      /\ Cardinality(Pending(p)) \in Nat /\ Cardinality(Scanners(p)) \in Nat
      /\ Cardinality(Txns) \in Nat
  BY PendingIsFinite
<1>2. /\ IsFiniteSet(Pending(p)') /\ Cardinality(Pending(p)') <= Cardinality(Pending(p))
      /\ IsFiniteSet(Scanners(p)') /\ Cardinality(Scanners(p)') <= Cardinality(Scanners(p))
  BY <1>1, FS_Subset
<1>3. Cardinality(Pending(p)') \in Nat /\ Cardinality(Scanners(p)') \in Nat
  BY <1>2, FS_CardinalityType
<1>4. Cardinality(Pending(p)) + Cardinality(Scanners(p)) <= Cardinality(Txns)
  BY DEF PendingInv
<1> QED BY <1>1, <1>2, <1>3, <1>4

\* What a transaction does before it commits: only a scan that has found no pending
\* liquidation of its position will add one.
LEMMA PendingSteps ==
    ASSUME LedgerAssumption, LedgerInv, PendingInv, NEW t \in Actors, NEW n, Advance(t, n),
           UNCHANGED <<position, liquidations>>, Steps(t, n)
    PROVE  PendingInv'
<1> DEFINE x == txn[t]
<1>1. \A u \in Actors : txn'[u] = IF u = t THEN n ELSE txn[u]
  BY DEF LedgerInv, Advance
<1>2. Txns \subseteq Actors /\ NoTxn.op = "none"
  BY NoTxnOK DEF Actors
<1>3. \A p \in Positions : Pending(p)' = Pending(p)
  BY DEF Pending, IsPending
<1>4. ASSUME NEW p \in Positions, NEW u \in Scanners(p)', u \notin Scanners(p)
      PROVE  Looks(x, n) /\ x.p = p
  <2>1. u = t /\ n.op = "scan" /\ n.pc \in Found /\ n.p = p /\ t \in Txns
    BY <1>1, <1>2, <1>4 DEF Scanners
  <2>2. ~Same(x, n)
    BY <1>4, <2>1 DEF Same, Scanners, Updates
  <2>3. ~WritesRow(t, n)
    BY <1>4, <2>1 DEF WritesRow, Scanners, At, Found
  <2>4. n # NoTxn /\ ~Begins(t, n) /\ ~Orders(x, n) /\ ~ReadsRow(x, n)
    BY <1>2, <2>1 DEF Begins, Orders, ReadsRow, Found, Late
  <2>5. Looks(x, n)
    BY <2>2, <2>3, <2>4 DEF Steps
  <2> QED BY <2>1, <2>5 DEF Looks
<1>5. ASSUME NEW p \in Positions
      PROVE  Cardinality(Pending(p)') + Cardinality(Scanners(p)') <= Cardinality(Txns)
  <2>1. CASE Scanners(p)' \subseteq Scanners(p)
    BY <1>3, <2>1, PendingSubset
  <2>2. CASE ~(Scanners(p)' \subseteq Scanners(p))
    <3>1. Looks(x, n) /\ x.p = p
      BY <1>4, <2>2
    <3>2. Pending(p)' = {}
      BY <1>3, <3>1 DEF Looks, Pending
    <3>3. Scanners(p)' \subseteq Txns /\ IsFiniteSet(Txns) /\ Cardinality(Txns) \in Nat
      BY PendingIsFinite DEF Scanners
    <3>4. IsFiniteSet(Scanners(p)') /\ Cardinality(Scanners(p)') <= Cardinality(Txns)
      BY <3>3, FS_Subset
    <3>5. Cardinality(Scanners(p)') \in Nat /\ Cardinality(Pending(p)') = 0
      BY <3>2, <3>4, FS_CardinalityType, FS_EmptySet
    <3> QED BY <3>3, <3>4, <3>5
  <2> QED BY <2>1, <2>2
<1>6. \A p \in Positions : position'[p].status = "LIQUIDATING" => Pending(p)' # {}
  BY <1>3 DEF PendingInv
<1> QED BY <1>5, <1>6 DEF PendingInv

\* A scan's commit trades one for the other; the end of a liquidation names the
\* position that is liquidated.
LEMMA PendingCommit ==
    ASSUME LedgerAssumption, LedgerInv, ReadInv, PendingInv, NEW t \in Actors, commit(t)
    PROVE  PendingInv'
<1> DEFINE x == txn[t]
<1>1. /\ TxnOK(x) /\ Reads(x) /\ Writes(x) /\ x.pc = "commit" /\ x.op \in Updates \cup {"sync"}
      /\ x.op \in Updates => x.p \in Positions /\ t \in Txns
      /\ \A u \in Actors : txn'[u] = IF u = t THEN NoTxn ELSE txn[u]
      /\ \A q \in Positions :
            position'[q] = IF x.op \in Updates /\ q = x.p THEN x.write ELSE position[q]
  BY CommitWrites DEF ReadInv
<1>2. Txns \subseteq Actors /\ NoTxn.op = "none"
  BY NoTxnOK DEF Actors
<1>3. /\ \A l \in DOMAIN liquidations :
            /\ l \in DOMAIN liquidations'
            /\ liquidations'[l].position = liquidations[l].position
            /\ IsPending(l)' <=> IsPending(l) /\ ~(x.op = "finalize" /\ x.liq = l)
      /\ x.op # "scan" => DOMAIN liquidations' = DOMAIN liquidations
  BY CommitLiquidations
<1>4. ASSUME NEW p \in Positions
      PROVE  Scanners(p)' \subseteq Scanners(p) \ {t}
  BY <1>1, <1>2 DEF Scanners
<1>5. ASSUME NEW p \in Positions, ~(x.op = "scan" /\ p = x.p)
      PROVE  Pending(p)' \subseteq Pending(p)
  <2>1. CASE x.op # "scan"
    BY <1>3, <2>1 DEF Pending
  <2>2. CASE x.op = "scan"
    <3>1. PICK end : /\ DOMAIN liquidations' = DOMAIN liquidations \cup {end}
                     /\ liquidations'[end].position = x.p
      BY <2>2, CommitLiquidations
    <3> QED BY <1>3, <1>5, <2>2, <3>1 DEF Pending
  <2> QED BY <2>1, <2>2
<1>6. ASSUME NEW p \in Positions
      PROVE  Cardinality(Pending(p)') + Cardinality(Scanners(p)') <= Cardinality(Txns)
  <2>1. CASE ~(x.op = "scan" /\ p = x.p)
    <3>1. Pending(p)' \subseteq Pending(p) /\ Scanners(p)' \subseteq Scanners(p)
      BY <1>4, <1>5, <2>1
    <3> QED BY <3>1, PendingSubset
  <2>2. CASE x.op = "scan" /\ p = x.p
    <3>1. PICK end : /\ DOMAIN liquidations' = DOMAIN liquidations \cup {end}
                     /\ end \notin DOMAIN liquidations
      BY <2>2, CommitLiquidations
    <3>2. Pending(p)' \subseteq Pending(p) \cup {end} /\ end \notin Pending(p)
      BY <1>3, <2>2, <3>1 DEF Pending
    <3>3. t \in Scanners(p)
      BY <1>1, <2>2 DEF Scanners, Found, Late, Updates
    <3>4. /\ IsFiniteSet(Pending(p)) /\ IsFiniteSet(Scanners(p))
          /\ Cardinality(Pending(p)) \in Nat /\ Cardinality(Scanners(p)) \in Nat
          /\ Cardinality(Txns) \in Nat
      BY PendingIsFinite
    <3>5. /\ IsFiniteSet(Pending(p) \cup {end})
          /\ Cardinality(Pending(p) \cup {end}) = Cardinality(Pending(p)) + 1
      BY <3>2, <3>4, FS_AddElement
    <3>6. /\ IsFiniteSet(Scanners(p) \ {t})
          /\ Cardinality(Scanners(p) \ {t}) = Cardinality(Scanners(p)) - 1
      BY <3>3, <3>4, FS_RemoveElement
    <3>7. /\ IsFiniteSet(Pending(p)') /\ Cardinality(Pending(p)') <= Cardinality(Pending(p)) + 1
      BY <3>2, <3>5, FS_Subset
    <3>8. /\ IsFiniteSet(Scanners(p)') /\ Cardinality(Scanners(p)') <= Cardinality(Scanners(p)) - 1
      BY <1>4, <3>6, FS_Subset
    <3>9. Cardinality(Pending(p)') \in Nat /\ Cardinality(Scanners(p)') \in Nat
      BY <3>7, <3>8, FS_CardinalityType
    <3>10. Cardinality(Pending(p)) + Cardinality(Scanners(p)) <= Cardinality(Txns)
      BY DEF PendingInv
    <3> QED BY <3>4, <3>7, <3>8, <3>9, <3>10
  <2> QED BY <2>1, <2>2
<1>7. ASSUME NEW p \in Positions, position'[p].status = "LIQUIDATING"
      PROVE  Pending(p)' # {}
  <2>1. CASE x.op = "scan" /\ p = x.p
    <3>1. PICK end : /\ DOMAIN liquidations' = DOMAIN liquidations \cup {end}
                     /\ liquidations'[end].position = x.p /\ IsPending(end)'
      BY <2>1, CommitLiquidations
    <3> QED BY <2>1, <3>1 DEF Pending
  <2>2. CASE ~(x.op = "scan" /\ p = x.p)
    <3>1. position[p].status = "LIQUIDATING" /\ ~(x.op = "finalize" /\ p = x.p)
      <4>1. CASE x.op \in Updates /\ p = x.p
        <5>1. x.write.status = "LIQUIDATING"
          BY <1>1, <1>7, <4>1
        <5>2. /\ x.op = "scan" \/ position[x.p].status = "LIQUIDATING"
              /\ x.op = "finalize" => x.write.status = "LIQUIDATED"
          BY <1>1, <4>1, <5>1 DEF Writes, Late
        <5> QED BY <2>2, <4>1, <5>1, <5>2
      <4>2. CASE ~(x.op \in Updates /\ p = x.p)
        BY <1>1, <1>7, <4>2 DEF Updates
      <4> QED BY <4>1, <4>2
    <3>2. PICK l \in Pending(p) : TRUE
      BY <3>1 DEF PendingInv
    <3>3. ~(x.op = "finalize" /\ x.liq = l)
      BY <1>1, <3>1, <3>2 DEF Reads, Pending
    <3> QED BY <1>3, <3>2, <3>3 DEF Pending
  <2> QED BY <2>1, <2>2
<1> QED BY <1>6, <1>7 DEF PendingInv

\* There are none at first.
LEMMA PendingInit ==
    ASSUME LedgerAssumption, Init
    PROVE  PendingInv
<1>1. /\ liquidations = <<>> /\ NoTxn.op = "none" /\ NoRow.status = "NONE"
      /\ \A t \in Txns : txn[t] = NoTxn
  BY NoTxnOK, NoRowIsRow DEF Init, Actors
<1>2. \A p \in Positions : Pending(p) = {} /\ Scanners(p) = {}
  BY <1>1 DEF Pending, Scanners
<1>3. Cardinality(Txns) \in Nat /\ Cardinality({}) = 0
  BY FS_CardinalityType, FS_EmptySet DEF LedgerAssumption
<1>4. \A p \in Positions : position[p].status # "LIQUIDATING"
  <2>1. CASE position = [q \in Positions |-> NoRow]
    BY <1>1, <2>1
  <2>2. CASE position # [q \in Positions |-> NoRow]
    <3>1. PICK first \in Positions, k \in Keys, size \in Sizes, price \in Prices,
               leverage \in Leverages :
             position = [q \in Positions |->
                            IF q = first THEN OpenRow(k, size, price, leverage) ELSE NoRow]
      BY <2>2 DEF Init
    <3>2. OpenRow(k, size, price, leverage).status = "OPEN"
      BY OpenRowIsRow
    <3> QED BY <1>1, <3>1, <3>2
  <2> QED BY <2>1, <2>2
<1>5. ASSUME NEW p \in Positions
      PROVE  Cardinality(Pending(p)) + Cardinality(Scanners(p)) <= Cardinality(Txns)
  <2>1. Cardinality(Pending(p)) = 0 /\ Cardinality(Scanners(p)) = 0
    BY <1>2, <1>3
  <2> QED BY <1>3, <2>1
<1> QED BY <1>4, <1>5 DEF PendingInv

\* Every step keeps the bound.
LEMMA PendingStep ==
    ASSUME LedgerAssumption, LedgerInv, ReadInv, PendingInv, [Next]_vars
    PROVE  PendingInv'
<1>1. CASE \E t \in Actors : commit(t)
  BY <1>1, PendingCommit
<1>2. CASE \A t \in Actors : ~commit(t)
  <2>0. UNCHANGED <<position, liquidations>>
    BY <1>2, OnlyCommits
  <2>1. CASE UNCHANGED txn
    BY <2>0, <2>1 DEF PendingInv, Pending, Scanners, IsPending
  <2>2. CASE ~UNCHANGED txn
    <3>1. \E t \in Actors : \E n : Advance(t, n) /\ Steps(t, n)
      BY <1>2, <2>2, OnlyCommits
    <3> QED BY <2>0, <3>1, PendingSteps
  <2> QED BY <2>1, <2>2
<1> QED BY <1>1, <1>2

\* However scans, closes and ends of liquidations overlap: a position that is being
\* liquidated has a pending liquidation to end it, and no more of them than
\* transactions overlap (liquidation-service.ts).
THEOREM LiquidationsAreNamed == Spec => []LiquidationIsPending
<1>1. ASSUME LedgerInv, PendingInv, NEW p \in Positions
      PROVE  LET pending == {l \in DOMAIN liquidations :
                                /\ liquidations[l].position = p
                                /\ liquidations[l].status \in PENDING_LIQUIDATION_STATUSES}
             IN  /\ position[p].status = "LIQUIDATING" => pending # {}
                 /\ Cardinality(pending) <= Cardinality(Txns)
  <2> DEFINE pending == {l \in DOMAIN liquidations :
                            /\ liquidations[l].position = p
                            /\ liquidations[l].status \in PENDING_LIQUIDATION_STATUSES}
  <2>1. pending = Pending(p)
    BY DEF Pending, IsPending
  <2>2. /\ Cardinality(Pending(p)) \in Nat /\ Cardinality(Scanners(p)) \in Nat
        /\ Cardinality(Txns) \in Nat
    BY <1>1, PendingIsFinite, LedgerAssumption
  <2>3. /\ Cardinality(Pending(p)) + Cardinality(Scanners(p)) <= Cardinality(Txns)
        /\ position[p].status = "LIQUIDATING" => Pending(p) # {}
    BY <1>1 DEF PendingInv
  <2>4. Cardinality(Pending(p)) <= Cardinality(Txns)
    BY <2>2, <2>3
  <2> QED BY <2>1, <2>3, <2>4
<1>2. LedgerInv /\ PendingInv => LiquidationIsPending
  BY <1>1 DEF LiquidationIsPending
<1>3. Init => PendingInv
  BY PendingInit, LedgerAssumption
<1>4. LedgerInv /\ ReadInv /\ PendingInv /\ [Next]_vars => PendingInv'
  BY PendingStep, LedgerAssumption
<1> QED BY <1>2, <1>3, <1>4, RowsAreSound, PTL DEF Spec

---------------------------------------------------------------------------
(* Margin and loss.                                                        *)

\* However a position was averaged, re-levered and closed in part, and whatever its
\* orders named: at a mark at which no scan would liquidate it, the margin that the
\* engine computed from the row it replaced covers what the position has lost
\* (risk-formulas.ts, position-service.ts).
THEOREM MarginIsEnough == Spec => []MarginCoversLoss
<1>1. ASSUME LedgerInv, RowInv, NEW p \in Positions \ (overwritten \cup named), NEW mark \in Prices,
             position[p].status = "OPEN",
             ~isPositionLiquidatable(KeySign[position[p].key], mark, Threshold(position[p]))
      PROVE  position[p].initialMargin
                + calculateUnrealizedPnl(KeySign[position[p].key], position[p].entryPrice, mark,
                                         position[p].size) > 0
  <2> DEFINE row == position[p]
             side == KeySign[row.key]
             margin == calculateInitialMargin(calculatePositionNotional(row.size, row.entryPrice),
                                              row.leverage)
             pnl == calculateUnrealizedPnl(side, row.entryPrice, mark, row.size)
             share == Share(row.entryPrice, liquidationBufferRatio)
  <2>1. row \in Rows /\ row.status = "OPEN" /\ row.size > 0 /\ MarginRule(row)
    BY <1>1 DEF LedgerInv, RowsOK, RowInv
  <2>2. /\ row.size \in Nat /\ row.entryPrice \in Nat /\ row.leverage \in Nat \ {0}
        /\ row.key \in Keys /\ mark \in Nat
    BY <2>1, RowNumbers, LedgerAssumption, ConstantsAreNats
  <2>3. side \in {1, -1}
    BY <2>2, LedgerAssumption DEF LedgerAssumption
  <2>4. row.size > 0 /\ row.initialMargin = margin
    BY <2>1 DEF MarginRule
  <2>5. margin + pnl > row.size * share
    <3>1. row.size \in Nat \ {0}
      BY <2>2, <2>4
    <3>2. ~isPositionLiquidatable(side, mark,
              calculateLiquidationPrice(side, row.entryPrice, row.leverage))
      BY <1>1 DEF Threshold
    <3> HIDE DEF row, side
    <3> QED BY <2>2, <2>3, <3>1, <3>2, MarginCoversUnliquidated
  <2>6. margin \in Nat /\ pnl \in Int /\ share \in Nat
    <3>1. margin \in Nat
      <4> HIDE DEF row
      <4> QED BY <2>2, MarginOfSize
    <3>2. pnl \in Int
      <4> HIDE DEF row
      <4> QED BY <2>2, UnrealizedIsInt, LedgerAssumption
    <3>3. share \in Nat
      <4> HIDE DEF row
      <4> QED BY <2>2, BufferIsNatural
    <3> QED BY <3>1, <3>2, <3>3
  <2>7. row.size * share \in Nat
    <3> HIDE DEF row, share
    <3> QED BY <2>2, <2>6
  <2>8. margin + pnl > 0
    <3> DEFINE product == row.size * share
    <3>1. product \in Nat /\ margin + pnl > product
      BY <2>5, <2>7
    <3> HIDE DEF margin, pnl, product
    <3> QED BY <2>6, <3>1
  <2> QED BY <2>4, <2>8
<1>2. LedgerInv /\ RowInv => MarginCoversLoss
  BY <1>1 DEF MarginCoversLoss
<1> QED BY <1>2, RowsAreSound, PTL

---------------------------------------------------------------------------
(* Sums of the account, and those overtaken by another's commit.           *)

\* What transaction t has summed up is what it sees.
HasSummed(t) ==
    /\ txn[t].used = SumFunction([p \in ActiveRows(t) |-> Sees(t, p).initialMargin])
    /\ txn[t].unrealized = SumFunction([p \in ActiveRows(t) |-> Sees(t, p).unrealizedPnl])

\* The account's sums are those of the committed rows, and those a transaction has
\* read are those of the rows as it will leave them, unless it was overtaken.
ExactInv ==
    /\ MarginIsExact
    /\ \A t \in Actors : txn[t].pc \in Summed /\ t \notin overtaken => HasSummed(t)

\* What a transaction sees does not depend on the account's lock.
LEMMA SeesStays ==
    ASSUME LedgerAssumption, NEW t \in Actors,
           position' = position, txn'[t].write = txn[t].write,
           txn'[t].locks \ {Account} = txn[t].locks \ {Account}
    PROVE  /\ ActiveRows(t)' = ActiveRows(t)
           /\ \A p \in Positions : Sees(t, p)' = Sees(t, p)
<1>1. \A p \in Positions : Sees(t, p)' = Sees(t, p)
  <2>1. \A p \in Positions : p \in txn'[t].locks <=> p \in txn[t].locks
    BY AccountIsNoPosition
  <2> QED BY <2>1 DEF Sees
<1>2. ActiveRows(t)' = ActiveRows(t)
  BY <1>1 DEF ActiveRows
<1> QED BY <1>1, <1>2

\* So what it has summed up stays what it sees, until a row changes.
LEMMA SummedStays ==
    ASSUME LedgerAssumption, NEW t \in Actors, HasSummed(t),
           position' = position, txn'[t].write = txn[t].write,
           txn'[t].locks \ {Account} = txn[t].locks \ {Account},
           txn'[t].used = txn[t].used, txn'[t].unrealized = txn[t].unrealized
    PROVE  HasSummed(t)'
<1>1. /\ ActiveRows(t)' = ActiveRows(t)
      /\ \A p \in Positions : Sees(t, p)' = Sees(t, p)
  BY SeesStays
<1>2. ActiveRows(t) \subseteq Positions
  BY DEF ActiveRows
<1>3. /\ [p \in ActiveRows(t) |-> Sees(t, p).initialMargin]' =
            [p \in ActiveRows(t) |-> Sees(t, p).initialMargin]
      /\ [p \in ActiveRows(t) |-> Sees(t, p).unrealizedPnl]' =
            [p \in ActiveRows(t) |-> Sees(t, p).unrealizedPnl]
  BY <1>1, <1>2
<1> QED BY <1>3 DEF HasSummed

\* A step of one transaction leaves the sums of the account and of the others.
LEMMA OtherSumsKeep ==
    ASSUME LedgerAssumption, LedgerInv, ExactInv, NEW t \in Actors, NEW n, Advance(t, n),
           UNCHANGED <<rows, behind>>, overtaken' \in {overtaken, overtaken \ {t}},
           txn'[t].pc \in Summed /\ t \notin overtaken' => HasSummed(t)'
    PROVE  ExactInv'
<1>1. position' = position /\ account' = account
  BY DEF rows
<1>2. CommittedMargin' = CommittedMargin /\ CommittedPnl' = CommittedPnl
  BY <1>1 DEF CommittedMargin, CommittedPnl, ActivePositions
<1>3. ASSUME NEW u \in Actors, u # t, txn'[u].pc \in Summed, u \notin overtaken'
      PROVE  HasSummed(u)'
  <2>1. txn'[u] = txn[u]
    BY <1>3 DEF Advance, LedgerInv
  <2>2. HasSummed(u)
    BY <1>3, <2>1 DEF ExactInv
  <2> QED BY <1>1, <2>1, <2>2, SummedStays
<1>4. MarginIsExact'
  BY <1>1, <1>2 DEF ExactInv, MarginIsExact
<1> QED BY <1>3, <1>4 DEF ExactInv

\* A step that leaves its transaction summing nothing keeps the sums.
LEMMA UnsummedKeeps ==
    ASSUME LedgerAssumption, LedgerInv, ExactInv, NEW t \in Actors, NEW n, Advance(t, n),
           UNCHANGED <<rows, behind>>, overtaken' \in {overtaken, overtaken \ {t}},
           n.pc \notin Summed
    PROVE  ExactInv'
<1>1. txn'[t].pc \notin Summed
  BY DEF Advance, LedgerInv
<1> QED BY <1>1, OtherSumsKeep

\* The sums a transaction holds stay true until it commits.
LEMMA SummedKeeps ==
    ASSUME LedgerAssumption, LedgerInv, ExactInv, NEW t \in Actors, NEW n,
           Advance(t, n), UNCHANGED <<rows, behind>>, overtaken' = overtaken,
           n.write = txn[t].write, n.locks \ {Account} = txn[t].locks \ {Account},
           t \notin overtaken =>
              /\ n.used = SumFunction([p \in ActiveRows(t) |-> Sees(t, p).initialMargin])
              /\ n.unrealized = SumFunction([p \in ActiveRows(t) |-> Sees(t, p).unrealizedPnl])
    PROVE  ExactInv'
<1>1. txn'[t] = n
  BY DEF Advance, LedgerInv
<1>2. position' = position
  BY DEF rows
<1>3. /\ ActiveRows(t)' = ActiveRows(t)
      /\ \A p \in Positions : Sees(t, p)' = Sees(t, p)
  BY <1>1, <1>2, SeesStays
<1>4. ActiveRows(t) \subseteq Positions
  BY DEF ActiveRows
<1>5. /\ [p \in ActiveRows(t) |-> Sees(t, p).initialMargin]' =
            [p \in ActiveRows(t) |-> Sees(t, p).initialMargin]
      /\ [p \in ActiveRows(t) |-> Sees(t, p).unrealizedPnl]' =
            [p \in ActiveRows(t) |-> Sees(t, p).unrealizedPnl]
  BY <1>3, <1>4
<1>6. t \notin overtaken => HasSummed(t)'
  BY <1>1, <1>5 DEF HasSummed
<1> QED BY <1>6, OtherSumsKeep

\* The rows as a transaction sees them are those it commits; who has summed up those
\* before is overtaken.
LEMMA CommitExact ==
    ASSUME LedgerAssumption, LedgerInv, ExactInv, NEW t \in Actors, commit(t)
    PROVE  ExactInv'
<1> DEFINE x == txn[t]
<1>1. /\ TxnOK(x) /\ x \in TxnType /\ x.pc = "commit"
      /\ x.op \in Updates \cup {"sync"}
      /\ x.locks \subseteq {x.p, Account}
      /\ x.op = "sync" => x.locks = {Account}
      /\ x.op \in Updates => x.p \in x.locks /\ x.p \in Positions
  <2>1. TxnOK(x) /\ x \in TxnType /\ x.pc = "commit"
    BY HoldersAreOK DEF commit, At
  <2>2. x.op \in Updates \cup {"sync"}
    BY <2>1 DEF TxnOK, InStep, TxnType
  <2> QED BY <2>1, <2>2 DEF TxnOK, Locked, Holds, Late, Updates
<1>2. \A p \in Positions : position'[p] = Sees(t, p)
  <2>1. CASE x.op = "sync"
    BY <1>1, <2>1, AccountIsNoPosition DEF commit, Sees
  <2>2. CASE x.op \in Updates
    <3>1. position' = [position EXCEPT ![x.p] = x.write]
      BY <2>2 DEF commit, Updates
    <3>2. \A p \in Positions : p \in x.locks <=> p = x.p
      BY <1>1, <2>2, AccountIsNoPosition
    <3> QED BY <3>1, <3>2, <1>1, <2>2 DEF Sees, LedgerInv, RowsOK
  <2> QED BY <1>1, <2>1, <2>2
<1>3. ActivePositions' = ActiveRows(t)
  BY <1>2 DEF ActivePositions, ActiveRows
<1>4. ActiveRows(t) \subseteq Positions
  BY DEF ActiveRows
<1>5. /\ [p \in ActivePositions |-> position[p].initialMargin]' =
            [p \in ActiveRows(t) |-> Sees(t, p).initialMargin]
      /\ [p \in ActivePositions |-> position[p].unrealizedPnl]' =
            [p \in ActiveRows(t) |-> Sees(t, p).unrealizedPnl]
  BY <1>2, <1>3, <1>4
<1>6. t \notin overtaken => x.used = CommittedMargin' /\ x.unrealized = CommittedPnl'
  BY <1>1, <1>5 DEF ExactInv, HasSummed, Summed, CommittedMargin, CommittedPnl
<1>7. account'.usedMargin = x.used /\ account'.totalUnrealizedPnl = x.unrealized
  BY DEF commit, AccountRow
<1>8. /\ behind' = (t \in overtaken)
      /\ overtaken' = IF x.op = "sync" THEN overtaken \ {t}
                      ELSE (overtaken \cup {u \in Actors : txn[u].pc \in Summed}) \ {t}
  BY DEF commit, Remember
<1>9. MarginIsExact'
  BY <1>6, <1>7, <1>8 DEF MarginIsExact
<1>10. ASSUME NEW u \in Actors, txn'[u].pc \in Summed, u \notin overtaken'
       PROVE  HasSummed(u)'
  <2>1. txn'[t].pc \notin Summed
    BY CommitWrites, NoTxnOK DEF Summed
  <2>2. u # t /\ txn'[u] = txn[u]
    BY <1>10, <2>1, CommitWrites
  <2>3. x.op = "sync" /\ u \notin overtaken
    BY <1>8, <1>10, <2>2
  <2>4. position' = position
    BY <2>3 DEF commit
  <2>5. HasSummed(u)
    BY <1>10, <2>2, <2>3 DEF ExactInv
  <2> QED BY <2>2, <2>4, <2>5, SummedStays
<1> QED BY <1>9, <1>10 DEF ExactInv

\* Nothing is summed before the rows are read.
LEMMA EarlyUnsummed ==
    ASSUME LedgerAssumption, LedgerInv, NEW t \in Actors,
           \/ Request(t) \/ syncWallet(t) \/ rollback(t) \/ ensureAccount(t) \/ findOpenPosition(t)
           \/ readOpenPosition(t) \/ findLiquidation(t) \/ readLiquidatedPosition(t)
           \/ writePosition(t) \/ readSettledBalance(t) \/ syncSettledBalance(t) \/ readAccount(t)
    PROVE  UNCHANGED rows /\ \E n : Advance(t, n) /\ n.pc \notin Summed
<1>1. txn[t] \in TxnType /\ NoTxn \in TxnType /\ NoTxn.pc = "idle"
  BY HoldersAreOK, NoTxnOK DEF TxnOK
<1>2. CASE Request(t) \/ syncWallet(t)
  <2>1. PICK n : UNCHANGED rows /\ Advance(t, n) /\ Begins(t, n)
    BY <1>2, BeginSteps
  <2> QED BY <2>1 DEF Begins, Summed
<1>3. CASE rollback(t)
  BY <1>1, <1>3 DEF rollback, End, Summed
<1>4. CASE ensureAccount(t) \/ readSettledBalance(t) \/ syncSettledBalance(t) \/ readAccount(t)
  <2>1. UNCHANGED rows
    BY <1>4 DEF ensureAccount, readSettledBalance, syncSettledBalance, readAccount
  <2>2. ASSUME NEW locks, NEW pc \in {"readChain", "findOpen", "readAccount"}
        PROVE  [txn[t] EXCEPT !.locks = locks, !.pc = pc].pc \notin Summed
    BY <1>1 DEF TxnType, Summed
  <2>3. ASSUME NEW settled, NEW pc \in {"writeSettled", "readMargin"}
        PROVE  [txn[t] EXCEPT !.settled = settled, !.pc = pc].pc \notin Summed
    BY <1>1 DEF TxnType, Summed
  <2>4. CASE ensureAccount(t)
    BY <1>1, <2>1, <2>2, <2>4 DEF ensureAccount, End, Summed
  <2>5. CASE readSettledBalance(t)
    BY <2>1, <2>3, <2>5 DEF readSettledBalance
  <2>6. CASE syncSettledBalance(t)
    BY <2>1, <2>2, <2>6 DEF syncSettledBalance
  <2>7. CASE readAccount(t)
    <3> DEFINE settled == IF txn[t].op = "sync" THEN txn[t].settled ELSE account.settledBalance
    <3>1. Advance(t, [txn[t] EXCEPT !.settled = settled, !.pc = "readMargin"])
      BY <1>1, <2>7 DEF readAccount, TxnType
    <3> HIDE DEF settled
    <3> QED BY <2>1, <2>3, <3>1
  <2> QED BY <1>4, <2>4, <2>5, <2>6, <2>7
<1>5. CASE findOpenPosition(t) \/ readOpenPosition(t) \/ findLiquidation(t)
           \/ readLiquidatedPosition(t)
  <2>1. UNCHANGED rows
    BY <1>5 DEF findOpenPosition, readOpenPosition, findLiquidation, readLiquidatedPosition
  <2>2. ASSUME NEW p, NEW row
        PROVE  [txn[t] EXCEPT !.p = p, !.read = row, !.pc = "writePosition"].pc \notin Summed
    BY <1>1 DEF TxnType, Summed
  <2>3. ASSUME NEW pnl, NEW row
        PROVE  [txn[t] EXCEPT !.read = row, !.pc = "writePosition", !.pnl = pnl].pc \notin Summed
    BY <1>1 DEF TxnType, Summed
  <2>4. [txn[t] EXCEPT !.pc = "writePosition"].pc \notin Summed /\ NoTxn.pc \notin Summed
    BY <1>1 DEF TxnType, Summed
  <2>5. CASE findOpenPosition(t)
    BY <2>1, <2>2, <2>4, <2>5 DEF findOpenPosition, End
  <2>6. CASE readOpenPosition(t)
    BY <2>1, <2>3, <2>4, <2>6 DEF readOpenPosition, End
  <2>7. CASE findLiquidation(t)
    BY <2>1, <2>4, <2>7 DEF findLiquidation, End
  <2>8. CASE readLiquidatedPosition(t)
    BY <2>1, <2>3, <2>4, <2>8 DEF readLiquidatedPosition, End
  <2> QED BY <1>5, <2>5, <2>6, <2>7, <2>8
<1>6. CASE writePosition(t)
  <2> DEFINE row == Columns(t, position[txn[t].p])
             locks == txn[t].locks \cup {txn[t].p}
  <2>1. /\ Advance(t, [txn[t] EXCEPT !.write = row, !.locks = locks, !.pc = "readAccount"])
        /\ UNCHANGED rows
    BY <1>1, <1>6 DEF writePosition, TxnType
  <2> HIDE DEF row, locks
  <2>2. [txn[t] EXCEPT !.write = row, !.locks = locks, !.pc = "readAccount"].pc \notin Summed
    BY <1>1 DEF TxnType, Summed
  <2> QED BY <2>1, <2>2
<1> QED BY <1>2, <1>3, <1>4, <1>5, <1>6

\* Every step keeps ExactInv.
LEMMA ExactStep ==
    ASSUME LedgerAssumption, LedgerInv, ExactInv, [Next]_vars
    PROVE  ExactInv'
<1>1. ASSUME UNCHANGED <<position, account, txn, overtaken, behind>>
      PROVE  ExactInv'
  <2>1. CommittedMargin' = CommittedMargin /\ CommittedPnl' = CommittedPnl
    BY <1>1 DEF CommittedMargin, CommittedPnl, ActivePositions
  <2>2. \A t \in Actors : ActiveRows(t)' = ActiveRows(t) /\ \A p : Sees(t, p)' = Sees(t, p)
    BY <1>1 DEF ActiveRows, Sees
  <2>3. ASSUME NEW t \in Actors
        PROVE  /\ [p \in ActiveRows(t) |-> Sees(t, p).initialMargin]' =
                     [p \in ActiveRows(t) |-> Sees(t, p).initialMargin]
               /\ [p \in ActiveRows(t) |-> Sees(t, p).unrealizedPnl]' =
                     [p \in ActiveRows(t) |-> Sees(t, p).unrealizedPnl]
    BY <2>2
  <2>4. \A t \in Actors : HasSummed(t) => HasSummed(t)'
    BY <1>1, <2>3 DEF HasSummed
  <2>5. MarginIsExact'
    BY <1>1, <2>1 DEF ExactInv, MarginIsExact
  <2> QED BY <1>1, <2>4, <2>5 DEF ExactInv
<1>2. ASSUME NEW t \in Actors, Request(t) \/ syncWallet(t) \/ Statement(t) \/ rollback(t)
      PROVE  ExactInv'
  <2>1. txn[t] \in TxnType
    BY HoldersAreOK
  <2>2. CASE readMargin(t)
    <3> DEFINE used == SumFunction([p \in ActiveRows(t) |-> Sees(t, p).initialMargin])
               pnl  == SumFunction([p \in ActiveRows(t) |-> Sees(t, p).unrealizedPnl])
               n    == [txn[t] EXCEPT !.used = used, !.unrealized = pnl, !.pc = "writeAccount"]
    <3>1. Advance(t, n) /\ UNCHANGED <<rows, behind, overtaken>>
      BY <2>2 DEF readMargin, history
    <3>2. n.write = txn[t].write /\ n.locks = txn[t].locks /\ n.used = used /\ n.unrealized = pnl
      <4> HIDE DEF used, pnl
      <4> QED BY <2>1 DEF TxnType
    <3> HIDE DEF n
    <3> QED BY <3>1, <3>2, SummedKeeps
  <2>3. CASE writeAccount(t)
    <3> DEFINE locks == txn[t].locks \cup {Account}
               pc == IF txn[t].op \in {"close", "finalize"} THEN "queueSettlement" ELSE "commit"
               n == [txn[t] EXCEPT !.locks = locks, !.pc = pc]
    <3>1. Advance(t, n) /\ UNCHANGED <<rows, behind, overtaken>> /\ txn[t].pc \in Summed
      BY <2>1, <2>3 DEF writeAccount, TxnType, At, Summed, history
    <3>2. /\ n.write = txn[t].write /\ n.locks \ {Account} = txn[t].locks \ {Account}
          /\ n.used = txn[t].used /\ n.unrealized = txn[t].unrealized
      <4>1. locks \ {Account} = txn[t].locks \ {Account}
        OBVIOUS
      <4> HIDE DEF locks, pc
      <4> QED BY <2>1, <4>1 DEF TxnType
    <3> HIDE DEF n
    <3> QED BY <3>1, <3>2, SummedKeeps DEF ExactInv, HasSummed
  <2>4. CASE queueSettlement(t)
    <3> DEFINE live == {i \in DOMAIN settlements :
                           /\ settlements[i].position = txn[t].p
                           /\ settlements[i].status \in DEDUPE_STATUSES}
               queues == txn[t].pnl # 0 /\ live = {}
               n == [txn[t] EXCEPT !.queues = queues, !.pc = "commit"]
    <3>1. Advance(t, n) /\ UNCHANGED <<rows, behind, overtaken>> /\ txn[t].pc \in Summed
      BY <2>4 DEF queueSettlement, At, Summed, history
    <3>2. /\ n.write = txn[t].write /\ n.locks = txn[t].locks
          /\ n.used = txn[t].used /\ n.unrealized = txn[t].unrealized
      <4> HIDE DEF queues
      <4> QED BY <2>1 DEF TxnType
    <3> HIDE DEF n
    <3> QED BY <3>1, <3>2, SummedKeeps DEF ExactInv, HasSummed
  <2>5. CASE commit(t)
    BY <2>5, CommitExact
  <2>6. CASE ~(readMargin(t) \/ writeAccount(t) \/ queueSettlement(t) \/ commit(t))
    <3>1. PICK n : UNCHANGED rows /\ Advance(t, n) /\ n.pc \notin Summed
      BY <1>2, <2>6, EarlyUnsummed DEF Statement
    <3>2. behind' = behind /\ overtaken' \in {overtaken, overtaken \ {t}}
      BY <1>2, <2>6, HistoryKeeps
    <3> QED BY <3>1, <3>2, UnsummedKeeps
  <2> QED BY <2>2, <2>3, <2>4, <2>5, <2>6
<1>3. ASSUME NEW i \in DOMAIN settlements, resolveSettlement(i)
      PROVE  ExactInv'
  BY <1>1, <1>3 DEF resolveSettlement, history
<1>4. CASE chainMoves
  BY <1>1, <1>4 DEF chainMoves, rows, history
<1>5. CASE UNCHANGED vars
  BY <1>1, <1>5 DEF vars, rows, history
<1> QED BY <1>2, <1>3, <1>4, <1>5 DEF Next

\* ExactInv holds at first.
LEMMA ExactInit ==
    ASSUME LedgerAssumption, Init
    PROVE  ExactInv
<1>1. NoTxn.pc = "idle" /\ NoRow.status = "NONE"
  BY NoTxnOK, NoRowIsRow
<1>2. \A t \in Actors : txn[t].pc \notin Summed
  BY <1>1 DEF Init, Summed
<1>3. account.usedMargin = CommittedMargin /\ account.totalUnrealizedPnl = CommittedPnl
  <2>1. CASE position = [p \in Positions |-> NoRow] /\ account = NoAccount
    <3>1. ActivePositions = {}
      BY <1>1, <2>1 DEF ActivePositions, ACTIVE_POSITION_STATUSES
    <3>2. /\ [p \in ActivePositions |-> position[p].initialMargin] \in [{} -> Int]
          /\ [p \in ActivePositions |-> position[p].unrealizedPnl] \in [{} -> Int]
      BY <3>1
    <3>3. CommittedMargin = 0 /\ CommittedPnl = 0
      BY <3>2, SumOfNone DEF CommittedMargin, CommittedPnl
    <3> QED BY <2>1, <3>3 DEF NoAccount
  <2>2. CASE ~(position = [p \in Positions |-> NoRow] /\ account = NoAccount)
    <3>1. PICK first \in Positions, k \in Keys, size \in Sizes, price \in Prices,
               leverage \in Leverages :
             LET row == OpenRow(k, size, price, leverage)
             IN  /\ position = [p \in Positions |-> IF p = first THEN row ELSE NoRow]
                 /\ account = AccountRow(chainBalance, row.initialMargin, 0,
                                  calculateAccountMetrics(chainBalance, row.initialMargin, 0))
      BY <2>2 DEF Init
    <3> DEFINE row == OpenRow(k, size, price, leverage)
               margins == [p \in ActivePositions |-> position[p].initialMargin]
               pnls == [p \in ActivePositions |-> position[p].unrealizedPnl]
    <3>2. row \in Rows /\ row.status = "OPEN" /\ row.unrealizedPnl = 0
      BY OpenRowIsRow
    <3>3. row.initialMargin \in Int
      BY <3>2 DEF Rows
    <3>4. /\ position = [p \in Positions |-> IF p = first THEN row ELSE NoRow]
          /\ account.usedMargin = row.initialMargin /\ account.totalUnrealizedPnl = 0
      BY <3>1 DEF AccountRow
    <3> HIDE DEF row
    <3>5. ActivePositions = {first}
      BY <1>1, <3>2, <3>4 DEF ActivePositions, ACTIVE_POSITION_STATUSES
    <3>6. /\ margins \in [{first} -> Int] /\ margins[first] = row.initialMargin
          /\ pnls \in [{first} -> Int] /\ pnls[first] = 0
      BY <3>2, <3>3, <3>4, <3>5
    <3> HIDE DEF margins, pnls
    <3>7. SumFunction(margins) = row.initialMargin /\ SumFunction(pnls) = 0
      BY <3>6, SumOfOne
    <3> QED BY <3>4, <3>7 DEF CommittedMargin, CommittedPnl, margins, pnls
  <2> QED BY <2>1, <2>2
<1> QED BY <1>2, <1>3 DEF ExactInv, MarginIsExact

\* The account's used margin and unrealized PnL are those of its active positions
\* (syncMarginAccount in account-service.ts), unless the last to write it was overtaken
\* between its sums and its write; the next write that is not makes them so again.
THEOREM AccountIsExact == Spec => []MarginIsExact
<1>1. Init => LedgerInv /\ ExactInv
  BY LedgerInit, ExactInit, LedgerAssumption
<1>2. LedgerInv /\ ExactInv /\ [Next]_vars => (LedgerInv /\ ExactInv)'
  BY LedgerStep, ExactStep, LedgerAssumption
<1>3. ExactInv => MarginIsExact
  BY DEF ExactInv
<1> QED BY <1>1, <1>2, <1>3, PTL DEF Spec
=============================================================================
