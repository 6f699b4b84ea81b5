-------------------------- MODULE PositionLedger --------------------------
(***************************************************************************)
(* Positions, liquidations, queued settlements and the margin account of   *)
(* one user (engine/src/services/position-service.ts, liquidation-         *)
(* service.ts, account-service.ts, vault-sync-service.ts).                 *)
(*                                                                         *)
(* Every operation is a database transaction at READ COMMITTED: each of    *)
(* its statements reads what is committed at that moment, overlaid with    *)
(* the transaction's own writes; an UPDATE by id waits for the row's lock, *)
(* then writes the columns it names and holds the lock until the end.  The *)
(* values it writes were computed from what it read before.                *)
(*                                                                         *)
(* The sign of a key stands for LONG or SHORT.  An order may name its own  *)
(* initial margin; an order or a close that names no mark price takes its  *)
(* own price for it, as every one does here.                               *)
(* The columns that are only reported (notional, maintenance margin, the   *)
(* stored liquidation price, the penalty) are left out.                    *)
(*                                                                         *)
(* Four history variables, which no operation reads, remember where        *)
(* transactions overtook one another.                                      *)
(***************************************************************************)
EXTENDS RiskFormulas, Sequences, FiniteSets, Functions

CONSTANTS
    Positions,      \* ids of the position rows there may ever be
    KeySign,        \* KeySign[k]: 1 if key k (market, outcome, side) is LONG, -1 if SHORT
    Prices,         \* entry, exit and mark prices
    Sizes,          \* sizes of orders
    MaxSize,        \* bound: size of a position
    Leverages,      \* leverages of orders
    Margins,        \* initial margins that orders name themselves
    TokenKeys,      \* the keys whose positions have an outcome token
    Txns,           \* transactions of requests and scans under way at once
    Syncs,          \* vault sync transactions under way at once
    MaxOps,         \* bound: requests, rollbacks and chain moves of a behaviour
    Balances        \* values of the user's on-chain balance

Keys   == DOMAIN KeySign
Actors == Txns \cup Syncs

ASSUME LedgerAssumption ==
    /\ Positions \subseteq Nat \ {0} /\ IsFiniteSet(Positions)
    /\ Keys # {} /\ \A k \in Keys : KeySign[k] \in {1, -1}
    /\ Prices \subseteq Nat
    /\ MaxSize \in Nat /\ Sizes \subseteq 1..MaxSize
    /\ Leverages \subseteq Nat \ {0}
    /\ Margins \subseteq Nat
    /\ Txns # {} /\ IsFiniteSet(Txns)
    /\ Balances \subseteq Nat

VARIABLES
    position,       \* position[p]: the committed row
    liquidations,   \* the liquidation rows, in order of creation
    settlements,    \* the settlement rows, in order of creation
    account,        \* the margin account row
    chainBalance,   \* settledBalance of the user in the vault
    txn,            \* txn[t]: the transaction t is running
    ops,            \* requests, rollbacks and chain moves so far
    overwritten,    \* positions last written by one who had read another row than it replaced
    named,          \* positions whose margin is the one their order named
    overtaken,      \* transactions that have summed up rows that changed since
    behind          \* whether the account was last written by one of those

rows    == <<position, liquidations, settlements, account>>
history == <<overwritten, named, overtaken, behind>>
vars    == <<rows, history, chainBalance, txn, ops>>

NoKey  == CHOOSE k \in Keys : TRUE
NoRow  == [key |-> NoKey, status |-> "NONE", size |-> 0, entryPrice |-> 0,
           leverage |-> 1, initialMargin |-> 0, unrealizedPnl |-> 0, realizedPnl |-> 0]
NoMargin == -1      \* an order that names no margin
NoTxn  == [op |-> "none", pc |-> "idle", p |-> 0, key |-> NoKey, size |-> 0, price |-> 0,
           leverage |-> 1, margin |-> NoMargin, liq |-> 0, pending |-> FALSE,
           read |-> NoRow, write |-> NoRow, pnl |-> 0, settled |-> 0, used |-> 0,
           unrealized |-> 0, queues |-> FALSE, locks |-> {}]

ACTIVE_POSITION_STATUSES     == {"OPEN", "CLOSING", "LIQUIDATING"}
PENDING_LIQUIDATION_STATUSES == {"QUEUED", "IN_PROGRESS"}
DEDUPE_STATUSES              == {"PENDING", "SUBMITTED", "CONFIRMED"}

NoAccount == [exists |-> FALSE, settledBalance |-> 0, usedMargin |-> 0,
              totalUnrealizedPnl |-> 0, equity |-> 0, freeCollateral |-> 0, marginRatio |-> 0]

\* The account with these columns and the metrics that follow from them.
AccountRow(settledBalance, usedMargin, totalUnrealizedPnl, metrics) ==
    [exists |-> TRUE, settledBalance |-> settledBalance, usedMargin |-> usedMargin,
     totalUnrealizedPnl |-> totalUnrealizedPnl, equity |-> metrics.equity,
     freeCollateral |-> metrics.freeCollateral, marginRatio |-> metrics.marginRatio]

\* What an order leaves behind that nothing else has followed.
OpenRow(k, size, price, leverage) ==
    [NoRow EXCEPT !.key = k, !.status = "OPEN", !.size = size, !.entryPrice = price,
                  !.leverage = leverage,
                  !.initialMargin = calculateInitialMargin(
                                        calculatePositionNotional(size, price), leverage)]

\* The user is new to the engine, or the engine has been restarted with a user
\* who has traded once.
Init ==
    /\ chainBalance \in Balances
    /\ \/ position = [p \in Positions |-> NoRow] /\ account = NoAccount
       \/ \E first \in Positions, k \in Keys, size \in Sizes, price \in Prices,
             leverage \in Leverages :
             LET row == OpenRow(k, size, price, leverage)
             IN  /\ \A p \in Positions : first <= p
                 /\ position = [p \in Positions |-> IF p = first THEN row ELSE NoRow]
                 /\ account = AccountRow(chainBalance, row.initialMargin, 0,
                                  calculateAccountMetrics(chainBalance, row.initialMargin, 0))
    /\ liquidations = <<>>
    /\ settlements = <<>>
    /\ txn = [t \in Actors |-> NoTxn]
    /\ ops = 0
    /\ overwritten = {} /\ named = {} /\ overtaken = {} /\ behind = FALSE

---------------------------------------------------------------------------
(* Transactions.  A lock is the id of a position row, or Account: that of  *)
(* the margin account's row, or of the entry its creation makes in the     *)
(* unique index (and the user's with it).                                  *)

Account == 0

At(t, pc) == txn[t].pc = pc

Advance(t, x) == txn' = [txn EXCEPT ![t] = x]

Begin(t, x) == At(t, "idle") /\ Advance(t, x)

\* An exception, or nothing to do: the transaction ends without a trace.
End(t) == Advance(t, NoTxn)

Free(t, lock) == \A other \in Actors \ {t} : lock \notin txn[other].locks

\* What transaction t sees of the position rows.
Sees(t, p) == IF p \in txn[t].locks THEN txn[t].write ELSE position[p]

NewOp ==
    /\ ops < MaxOps
    /\ ops' = ops + 1

---------------------------------------------------------------------------
(* openPosition                                                            *)

openPosition(t, k, size, price, leverage, margin) ==
    /\ t \in Txns
    /\ Begin(t, [NoTxn EXCEPT !.op = "open", !.pc = "ensureAccount", !.key = k, !.size = size,
                              !.price = price, !.leverage = leverage, !.margin = margin])
    /\ NewOp
    /\ UNCHANGED <<rows, history, chainBalance>>

\* Mutant: the row that is there is locked, as by an update.
ensureByUpdate(t) ==
    /\ At(t, "ensureAccount")
    /\ Free(t, Account)
    /\ Advance(t, [txn[t] EXCEPT !.locks = {Account},
                   !.pc = IF txn[t].op = "sync" THEN "readChain" ELSE "findOpen"])
    /\ UNCHANGED <<rows, history, chainBalance, ops>>

\* Two upserts: an account that is there is left as it is; one that is not is
\* created, with zeros.  Who finds another transaction about to create it waits
\* for that one, then goes on or fails on the unique key.
ensureAccount(t) ==
    /\ At(t, "ensureAccount")
    /\ \/ /\ account.exists \/ Free(t, Account)
          /\ Advance(t, [txn[t] EXCEPT !.locks = IF account.exists THEN {} ELSE {Account},
                         !.pc = IF txn[t].op = "sync" THEN "readChain" ELSE "findOpen"])
       \/ ~account.exists /\ ~Free(t, Account) /\ End(t)
    /\ UNCHANGED <<rows, history, chainBalance, ops>>

\* A row id nobody uses: the one a create would get.
Fresh(p) ==
    /\ position[p].status = "NONE"
    /\ \A t \in Actors : txn[t].p # p
    /\ \A q \in Positions : q < p => position[q].status # "NONE" \/ \E t \in Actors : txn[t].p = q

\* position.findFirst for an open position of the same key.
findOpenPosition(t) ==
    LET open == {p \in Positions : position[p].status = "OPEN" /\ position[p].key = txn[t].key}
    IN  /\ At(t, "findOpen")
        /\ \/ \E p \in open :
                 /\ position[p].size + txn[t].size <= MaxSize
                 /\ Advance(t, [txn[t] EXCEPT !.p = p, !.read = position[p], !.pc = "writePosition"])
           \/ /\ open = {}
              /\ \E p \in Positions :
                    /\ Fresh(p)
                    /\ Advance(t, [txn[t] EXCEPT !.p = p, !.read = NoRow, !.pc = "writePosition"])
           \/ /\ \A p \in Positions : ~Fresh(p)     \* bound: no row id is left
              /\ End(t)
           \/ /\ \A p \in open : position[p].size + txn[t].size > MaxSize
              /\ open # {}
              /\ End(t)
        /\ UNCHANGED <<rows, history, chainBalance, ops>>

\* Whether the margin of a new position is the one its order names.
NamesMargin(x) == x.op = "open" /\ x.read.status = "NONE" /\ x.margin # NoMargin

\* Mutant: the margin follows the leverage the position had.
orderMarginBefore(t, size, entry) ==
    IF NamesMargin(txn[t]) THEN txn[t].margin
    ELSE calculateInitialMargin(calculatePositionNotional(size, entry),
             IF txn[t].read = NoRow THEN txn[t].leverage ELSE txn[t].read.leverage)

\* What averaging writes follows from the order's leverage, whatever it names.
OrderMargin(t, size, entry) ==
    IF NamesMargin(txn[t]) THEN txn[t].margin
    ELSE calculateInitialMargin(calculatePositionNotional(size, entry), txn[t].leverage)

\* The row openPosition writes: a whole one when it creates it; the status and
\* the realized PnL are not among its columns when it averages.
OpenedColumns(t, row) ==
    LET old   == txn[t].read
        size  == old.size + txn[t].size
        entry == (old.entryPrice * old.size + txn[t].price * txn[t].size) \div size
        base  == IF old.status = "NONE"
                 THEN [NoRow EXCEPT !.key = txn[t].key, !.status = "OPEN"] ELSE row
    IN  [base EXCEPT !.size = size, !.entryPrice = entry, !.leverage = txn[t].leverage,
                     !.initialMargin = OrderMargin(t, size, entry),
                     !.unrealizedPnl = calculateUnrealizedPnl(KeySign[txn[t].key], entry,
                                                              txn[t].price, size)]

---------------------------------------------------------------------------
(* closePosition                                                           *)

calculateRealizedPnl(key, entry, exit, size) == KeySign[key] * (exit - entry) * size

closePosition(t, p, size, price) ==
    /\ t \in Txns
    /\ position[p].status # "NONE"
    /\ Begin(t, [NoTxn EXCEPT !.op = "close", !.pc = "readPosition", !.p = p,
                              !.size = size, !.price = price])
    /\ NewOp
    /\ UNCHANGED <<rows, history, chainBalance>>

\* Mutant: any positive size is accepted.
readWithoutSizeCheck(t) ==
    LET row == position[txn[t].p]
    IN  /\ At(t, "readPosition") /\ txn[t].op = "close"
        /\ IF row.status = "OPEN"
           THEN Advance(t, [txn[t] EXCEPT !.read = row, !.pc = "writePosition",
                            !.pnl = calculateRealizedPnl(row.key, row.entryPrice,
                                                         txn[t].price, txn[t].size)])
           ELSE End(t)
        /\ UNCHANGED <<rows, history, chainBalance, ops>>

\* position.findUnique and the checks on what it returned.
readOpenPosition(t) ==
    LET row == position[txn[t].p]
    IN  /\ At(t, "readPosition") /\ txn[t].op = "close"
        /\ IF row.status = "OPEN" /\ txn[t].size <= row.size
           THEN Advance(t, [txn[t] EXCEPT !.read = row, !.pc = "writePosition",
                            !.pnl = calculateRealizedPnl(row.key, row.entryPrice,
                                                         txn[t].price, txn[t].size)])
           ELSE End(t)
        /\ UNCHANGED <<rows, history, chainBalance, ops>>

ClosedColumns(t, row) ==
    LET old  == txn[t].read
        rest == old.size - txn[t].size
    IN  [row EXCEPT !.size = rest, !.status = IF rest = 0 THEN "CLOSED" ELSE "OPEN",
                    !.initialMargin = calculateInitialMargin(
                               calculatePositionNotional(rest, old.entryPrice), old.leverage),
                    !.unrealizedPnl = calculateUnrealizedPnl(KeySign[old.key], old.entryPrice,
                                                             txn[t].price, rest),
                    !.realizedPnl = old.realizedPnl + txn[t].pnl]

---------------------------------------------------------------------------
(* scanAndQueueLiquidations, one position at a time: the scan's query runs *)
(* before, and outside, the transaction that follows for each position.    *)

Threshold(row) == calculateLiquidationPrice(KeySign[row.key], row.entryPrice, row.leverage)

scanPosition(t, p, mark) ==
    LET row == position[p]
    IN  /\ t \in Txns
        /\ row.status = "OPEN"
        /\ row.key \in TokenKeys        \* a mark is found by the outcome's token
        /\ isPositionLiquidatable(KeySign[row.key], mark, Threshold(row))
        /\ Begin(t, [NoTxn EXCEPT !.op = "scan", !.pc = "findLiquidation", !.p = p,
                                  !.price = mark, !.read = row])
        /\ NewOp
        /\ UNCHANGED <<rows, history, chainBalance>>

\* liquidation.findFirst: a pending one ends the transaction.
findLiquidation(t) ==
    LET pending == {l \in DOMAIN liquidations :
                       /\ liquidations[l].position = txn[t].p
                       /\ liquidations[l].status \in PENDING_LIQUIDATION_STATUSES}
    IN  /\ At(t, "findLiquidation")
        /\ IF pending = {} THEN Advance(t, [txn[t] EXCEPT !.pc = "writePosition"]) ELSE End(t)
        /\ UNCHANGED <<rows, history, chainBalance, ops>>

ScannedColumns(row) == [row EXCEPT !.status = "LIQUIDATING"]

---------------------------------------------------------------------------
(* finalizeLiquidation                                                     *)

\* liquidation.findUnique; its status is looked at after the next read.
finalizeLiquidation(t, l) ==
    /\ t \in Txns
    /\ Begin(t, [NoTxn EXCEPT !.op = "finalize", !.pc = "readPosition",
                              !.p = liquidations[l].position, !.liq = l,
                              !.price = liquidations[l].markPrice,
                              !.pending = liquidations[l].status \in PENDING_LIQUIDATION_STATUSES])
    /\ NewOp
    /\ UNCHANGED <<rows, history, chainBalance>>

\* position.findUnique, then the check of the liquidation's status as read.
readLiquidatedPosition(t) ==
    LET row == position[txn[t].p]
    IN  /\ At(t, "readPosition") /\ txn[t].op = "finalize"
        /\ IF txn[t].pending
           THEN Advance(t, [txn[t] EXCEPT !.read = row, !.pc = "writePosition",
                            !.pnl = calculateRealizedPnl(row.key, row.entryPrice,
                                                         txn[t].price, row.size)])
           ELSE End(t)
        /\ UNCHANGED <<rows, history, chainBalance, ops>>

\* Mutant: the position stays marked.
liquidatedKeepsStatus(t, row) ==
    [row EXCEPT !.size = 0, !.initialMargin = 0, !.unrealizedPnl = 0,
                !.realizedPnl = txn[t].read.realizedPnl + txn[t].pnl]

\* Mutant: the size is left as it was.
liquidatedKeepsSize(t, row) ==
    [row EXCEPT !.initialMargin = 0, !.unrealizedPnl = 0, !.status = "LIQUIDATED",
                !.realizedPnl = txn[t].read.realizedPnl + txn[t].pnl]

LiquidatedColumns(t, row) ==
    [row EXCEPT !.size = 0, !.initialMargin = 0, !.unrealizedPnl = 0, !.status = "LIQUIDATED",
                !.realizedPnl = txn[t].read.realizedPnl + txn[t].pnl]

---------------------------------------------------------------------------
(* What the transactions share: the UPDATE of the position, the refresh of *)
(* the margin account (syncMarginAccount), and the end.                    *)

\* The row as the UPDATE leaves it.
Columns(t, row) ==
    CASE txn[t].op = "open"     -> OpenedColumns(t, row)
      [] txn[t].op = "close"    -> ClosedColumns(t, row)
      [] txn[t].op = "scan"     -> ScannedColumns(row)
      [] txn[t].op = "finalize" -> LiquidatedColumns(t, row)

\* position.update, or create: it waits for the row's lock and overwrites the
\* columns it names, whatever the row has become since it was read.
writePosition(t) ==
    LET p == txn[t].p
    IN  /\ At(t, "writePosition")
        /\ Free(t, p)
        /\ Advance(t, [txn[t] EXCEPT !.write = Columns(t, position[p]),
                                     !.locks = @ \cup {p}, !.pc = "readAccount"])
        /\ UNCHANGED <<rows, history, chainBalance, ops>>

\* Mutant: the refresh starts from the balance the account had.
readAccountOfOldBalance(t) ==
    /\ At(t, "readAccount")
    /\ Advance(t, [txn[t] EXCEPT !.settled = account.settledBalance, !.pc = "readMargin"])
    /\ UNCHANGED <<rows, history, chainBalance, ops>>

\* syncMarginAccount reads the account, which a sync has just written.
readAccount(t) ==
    /\ At(t, "readAccount")
    /\ Advance(t, [txn[t] EXCEPT !.settled = IF txn[t].op = "sync" THEN @
                                             ELSE account.settledBalance,
                                 !.pc = "readMargin"])
    /\ UNCHANGED <<rows, history, chainBalance, ops>>

\* Mutant: the rows are summed up as they were before.
activeBefore(t) == {p \in Positions : position[p].status \in ACTIVE_POSITION_STATUSES}

ActiveRows(t) == {p \in Positions : Sees(t, p).status \in ACTIVE_POSITION_STATUSES}

\* Then the active positions.
readMargin(t) ==
    /\ At(t, "readMargin")
    /\ Advance(t, [txn[t] EXCEPT
            !.used = SumFunction([p \in ActiveRows(t) |-> Sees(t, p).initialMargin]),
            !.unrealized = SumFunction([p \in ActiveRows(t) |-> Sees(t, p).unrealizedPnl]),
            !.pc = "writeAccount"])
    /\ UNCHANGED <<rows, history, chainBalance, ops>>

\* syncMarginAccount writes the account; it waits for the row's lock.
writeAccount(t) ==
    /\ At(t, "writeAccount")
    /\ Free(t, Account)
    /\ Advance(t, [txn[t] EXCEPT !.locks = @ \cup {Account},
                   !.pc = IF txn[t].op \in {"close", "finalize"}
                          THEN "queueSettlement" ELSE "commit"])
    /\ UNCHANGED <<rows, history, chainBalance, ops>>

\* Mutant: only a settlement that is still PENDING counts as live.
queueUnlessPending(t) ==
    LET live == {i \in DOMAIN settlements :
                    /\ settlements[i].position = txn[t].p
                    /\ settlements[i].status = "PENDING"}
    IN  /\ At(t, "queueSettlement")
        /\ Advance(t, [txn[t] EXCEPT !.queues = txn[t].pnl # 0 /\ live = {}, !.pc = "commit"])
        /\ UNCHANGED <<rows, history, chainBalance, ops>>

\* queueSettlementRequest: nothing for a zero PnL or when the position has a
\* live settlement already; otherwise a row (and a job, see SettlementBridge).
queueSettlement(t) ==
    LET live == {i \in DOMAIN settlements :
                    /\ settlements[i].position = txn[t].p
                    /\ settlements[i].status \in DEDUPE_STATUSES}
    IN  /\ At(t, "queueSettlement")
        /\ Advance(t, [txn[t] EXCEPT !.queues = txn[t].pnl # 0 /\ live = {}, !.pc = "commit"])
        /\ UNCHANGED <<rows, history, chainBalance, ops>>

\* The statements after the sums have been read.
Summed == {"writeAccount", "queueSettlement", "commit"}

\* What the history variables remember of a commit.
Remember(t) ==
    LET x == txn[t]
    IN  /\ overwritten' = IF x.op = "sync" THEN overwritten
                          ELSE IF x.read = position[x.p] THEN overwritten \ {x.p}
                          ELSE overwritten \cup {x.p}
        /\ named' = IF NamesMargin(x) THEN named \cup {x.p} ELSE named \ {x.p}
        /\ overtaken' = IF x.op = "sync" THEN overtaken \ {t}
                        ELSE (overtaken \cup {u \in Actors : txn[u].pc \in Summed}) \ {t}
        /\ behind' = (t \in overtaken)

\* The transaction commits: its writes become visible all at once.
commit(t) ==
    LET x == txn[t]
    IN  /\ At(t, "commit")
        /\ position' = IF x.op = "sync" THEN position ELSE [position EXCEPT ![x.p] = x.write]
        /\ account' = AccountRow(IF x.op = "sync" THEN x.settled ELSE account.settledBalance,
                          x.used, x.unrealized,
                          calculateAccountMetrics(x.settled, x.used, x.unrealized))
        /\ liquidations' =
              CASE x.op = "scan" ->
                     Append(liquidations,
                            [position |-> x.p, markPrice |-> x.price, status |-> "QUEUED"])
                [] x.op = "finalize" -> [liquidations EXCEPT ![x.liq].status = "SETTLED"]
                [] OTHER -> liquidations
        /\ settlements' =
              IF x.queues
              THEN Append(settlements, [position |-> x.p, pnl |-> x.pnl, status |-> "PENDING"])
              ELSE settlements
        /\ End(t)
        /\ Remember(t)
        /\ UNCHANGED <<chainBalance, ops>>

\* The transaction times out or its process dies: the database rolls back.
rollback(t) ==
    /\ ~At(t, "idle")
    /\ End(t)
    /\ NewOp
    /\ overtaken' = overtaken \ {t}
    /\ UNCHANGED <<rows, overwritten, named, behind, chainBalance>>

---------------------------------------------------------------------------
(* syncWallet                                                              *)

syncWallet(t) ==
    /\ t \in Syncs
    /\ Begin(t, [NoTxn EXCEPT !.op = "sync", !.pc = "ensureAccount"])
    /\ UNCHANGED <<rows, history, chainBalance, ops>>

\* The on-chain balance is read inside the transaction.
readSettledBalance(t) ==
    /\ At(t, "readChain")
    /\ Advance(t, [txn[t] EXCEPT !.settled = chainBalance, !.pc = "writeSettled"])
    /\ UNCHANGED <<rows, history, chainBalance, ops>>

\* syncSettledBalance: the account row is locked from here on.
syncSettledBalance(t) ==
    /\ At(t, "writeSettled")
    /\ Free(t, Account)
    /\ Advance(t, [txn[t] EXCEPT !.locks = {Account}, !.pc = "readAccount"])
    /\ UNCHANGED <<rows, history, chainBalance, ops>>

---------------------------------------------------------------------------
(* What happens outside these services.                                    *)

\* The settlement worker reaches a verdict on a queued settlement.
resolveSettlement(i) ==
    /\ settlements[i].status = "PENDING"
    /\ \E verdict \in {"CONFIRMED", "FAILED"} :
          settlements' = [settlements EXCEPT ![i].status = verdict]
    /\ UNCHANGED <<position, liquidations, account, history, chainBalance, txn, ops>>

\* The vault's balance changes: a deposit, a withdrawal, a settlement.
chainMoves ==
    /\ NewOp
    /\ \E b \in Balances \ {chainBalance} : chainBalance' = b
    /\ UNCHANGED <<rows, history, txn>>

Request(t) ==
    \/ \E k \in Keys, size \in Sizes, price \in Prices, leverage \in Leverages,
          margin \in Margins \cup {NoMargin} :
          openPosition(t, k, size, price, leverage, margin)
    \/ \E p \in Positions, price \in Prices :
          \/ \E size \in Sizes : closePosition(t, p, size, price)
          \/ scanPosition(t, p, price)
    \/ \E l \in DOMAIN liquidations : finalizeLiquidation(t, l)

Statement(t) ==
    \/ ensureAccount(t) \/ findOpenPosition(t) \/ readOpenPosition(t) \/ findLiquidation(t)
    \/ readLiquidatedPosition(t) \/ writePosition(t) \/ readSettledBalance(t)
    \/ syncSettledBalance(t) \/ readAccount(t) \/ readMargin(t) \/ writeAccount(t)
    \/ queueSettlement(t) \/ commit(t)

Next ==
    \/ \E t \in Actors : Request(t) \/ syncWallet(t) \/ Statement(t) \/ rollback(t)
    \/ \E i \in DOMAIN settlements : resolveSettlement(i)
    \/ chainMoves

Spec == Init /\ [][Next]_vars

\* Fairness: the database answers, a transaction ends, and the sync interval
\* fires again and again.
FairSpec ==
    /\ Spec
    /\ \A t \in Actors : WF_vars(Statement(t))
    /\ \A t \in Syncs : WF_vars(syncWallet(t))

---------------------------------------------------------------------------
(* Properties.                                                             *)

Rows == [key : Keys, status : {"NONE", "OPEN", "LIQUIDATING", "LIQUIDATED", "CLOSED"},
         size : 0..MaxSize, entryPrice : Nat, leverage : Leverages \cup {1},
         initialMargin : Nat, unrealizedPnl : Int, realizedPnl : Int]

\* The type of the rows and of what a transaction holds.
TypeOK ==
    /\ position \in [Positions -> Rows]
    /\ \A l \in DOMAIN liquidations :
          liquidations[l] \in [position : Positions, markPrice : Prices,
                               status : {"QUEUED", "SETTLED"}]
    /\ \A i \in DOMAIN settlements :
          settlements[i] \in [position : Positions, pnl : Int \ {0},
                              status : {"PENDING", "CONFIRMED", "FAILED"}]
    /\ account \in [exists : BOOLEAN, settledBalance : Balances \cup {0}, usedMargin : Nat,
                    totalUnrealizedPnl : Int, equity : Int, freeCollateral : Nat,
                    marginRatio : Nat]
    /\ chainBalance \in Balances
    /\ \A t \in Actors :
          /\ txn[t].locks \subseteq Positions \cup {Account}
          /\ txn[t].write \in Rows
    /\ overwritten \subseteq Positions /\ named \subseteq Positions
    /\ overtaken \subseteq Actors /\ behind \in BOOLEAN

ActivePositions == {p \in Positions : position[p].status \in ACTIVE_POSITION_STATUSES}

CommittedMargin == SumFunction([p \in ActivePositions |-> position[p].initialMargin])

CommittedPnl == SumFunction([p \in ActivePositions |-> position[p].unrealizedPnl])

Quiet == \A t \in Actors : At(t, "idle")

\* However closes, liquidations and verdicts interleave, a position never has
\* two live settlements: both callers of queueSettlementRequest have updated the
\* position's row and the account's when they look for one, so either row's lock
\* orders their checks.
OneLiveSettlement ==
    \A i, j \in DOMAIN settlements :
        /\ i # j
        /\ settlements[i].position = settlements[j].position
        => \/ settlements[i].status \notin DEDUPE_STATUSES
           \/ settlements[j].status \notin DEDUPE_STATUSES

Waits(t) ==
    \/ At(t, "writePosition") /\ ~Free(t, txn[t].p)
    \/ At(t, "writeAccount") /\ ~Free(t, Account)
    \/ At(t, "writeSettled") /\ ~Free(t, Account)
    \/ At(t, "ensureAccount") /\ ~account.exists /\ ~Free(t, Account)

\* Transactions take the position's lock before the account's, so they never
\* wait for one another in a circle.
NoLockCycle == Quiet \/ \E t \in Actors : ~At(t, "idle") /\ ~Waits(t)

\* Orders and closes of one key take no lock until they write, so two orders may
\* create a position each and a close may write over a liquidation.  Even so an open
\* position has a size; one whose last writer had read the row it replaced has a
\* size exactly while it is open or being liquidated, whatever went wrong with it
\* before; and no more positions are open for a key than transactions overlap.
StatusTellsSize ==
    /\ \A p \in Positions : position[p].status = "OPEN" => position[p].size > 0
    /\ \A p \in Positions \ overwritten :
          position[p].size > 0 <=> position[p].status \in {"OPEN", "LIQUIDATING"}
    /\ \A k \in Keys :
          Cardinality({p \in Positions : position[p].status = "OPEN" /\ position[p].key = k})
             <= Cardinality(Txns)

\* However scans, closes and ends of liquidations overlap: a position that is being
\* liquidated has a pending liquidation to end it, and it has no more of them than
\* transactions overlap.
LiquidationIsPending ==
    \A p \in Positions :
        LET pending == {l \in DOMAIN liquidations :
                           /\ liquidations[l].position = p
                           /\ liquidations[l].status \in PENDING_LIQUIDATION_STATUSES}
        IN  /\ position[p].status = "LIQUIDATING" => pending # {}
            /\ Cardinality(pending) <= Cardinality(Txns)

\* The account's used margin and unrealized PnL are those of its active positions,
\* but after a write by one whose sums another's commit had overtaken; the next one
\* whose sums are not puts it right again.
MarginIsExact ==
    ~behind => /\ account.usedMargin = CommittedMargin
               /\ account.totalUnrealizedPnl = CommittedPnl

\* However a position was averaged, re-levered and closed in part, and whatever
\* margin its order named before: at a mark at which no scan would liquidate it, its
\* margin covers what it has lost, if the engine has computed it from the row it
\* replaced.
MarginCoversLoss ==
    \A p \in Positions \ (overwritten \cup named), mark \in Prices :
        LET row == position[p]
        IN  /\ row.status = "OPEN"
            /\ ~isPositionLiquidatable(KeySign[row.key], mark, Threshold(row))
            => row.initialMargin
                   + calculateUnrealizedPnl(KeySign[row.key], row.entryPrice, mark, row.size) > 0

\* Whatever lost updates concurrent transactions leave in the margin account,
\* the sync interval repairs them, for a user who was unknown at first too.
AccountConverges ==
    <>[](/\ account.exists
         /\ account.usedMargin = CommittedMargin
         /\ account.settledBalance = chainBalance
         /\ account.equity = chainBalance + CommittedPnl
         /\ account.freeCollateral + CommittedMargin >= account.equity)

\* The PnL a closed or liquidated position realized is queued for settlement
\* (README: "on-chain settlement of realized PnL after close or liquidation").
\* The code does not ensure it: a second partial close is deduplicated
\* against the settlement of the first.
RealizedPnlIsQueued ==
    \A p \in Positions :
        position[p].status \in {"CLOSED", "LIQUIDATED"} =>
            position[p].realizedPnl =
                SumFunction([i \in {i \in DOMAIN settlements : settlements[i].position = p}
                                |-> settlements[i].pnl])
=============================================================================
