------------------------- MODULE SettlementBridge -------------------------
(***************************************************************************)
(* How a realized PnL becomes a call of HyperVault.settle and how the      *)
(* vault's balance comes back into the engine's account mirror             *)
(* (engine/src/services/settlement-service.ts, vault-sync-service.ts,      *)
(* hypervault-client.ts, workers/settlement-worker.ts, worker.ts).         *)
(*                                                                         *)
(* The vault is the contract of module HyperVault.  The engine is a set of *)
(* fibres, chains of awaits that interleave at every database, queue and   *)
(* RPC call: job slots of the BullMQ worker, ticks of the reconcile        *)
(* interval and ticks of the sync interval.  The queue, the chain and the  *)
(* database lie outside the engine and fail independently of it.           *)
(***************************************************************************)
EXTENDS Integers, Sequences, FiniteSets, FiniteSetsExt

CONSTANTS
    NumAccounts, InitialWallet, MaxPnl, MaxFee,     \* of HyperVault
    Deposits,           \* Deposits[u]: what u has in the vault at the start
    Liquidity,          \* protocol liquidity at the start
    NumSettlements,     \* settlement ids are 1..NumSettlements
    PositionUser,       \* PositionUser[p]: the owner of position p
    Slots,              \* job slots of the settlement worker
    Ticks,              \* reconcile ticks that may be under way at once
    Polls,              \* vault sync ticks that may be under way at once
    MaxAttempts,        \* attempts of a job (5 in the code)
    BatchLimit,         \* rows one reconcile tick takes (50 in the code)
    MaxFaults,          \* bound: failures of the environment in a behaviour
    LocksMayExpire      \* whether a job's lock can expire under a live worker

VARIABLES
    owner, manager, paused, settledBalance, totalSettledBalance,
    vaultUsdc, wallet,  \* the contract
    row,        \* row[s]: the settlement's database row
    request,    \* request[s]: how far the code that queues s has come
    job,        \* job[s]: the settlement's BullMQ job
    txs,        \* every settle transaction ever broadcast, in nonce order
    fibre,      \* fibre[f]: where a chain of awaits stands and what it holds
    mirror,     \* mirror[u]: MarginAccount.settledBalance
    faults      \* environment failures so far

Chain == INSTANCE HyperVault

Users       == Chain!Accounts
Settlements == 1..NumSettlements
Positions   == DOMAIN PositionUser
Fibres      == Slots \cup Ticks \cup Polls
Pnls        == (-MaxPnl..MaxPnl) \ {0}

contract == <<owner, manager, paused, settledBalance, totalSettledBalance, vaultUsdc, wallet>>
engine   == <<row, request, job, fibre, mirror>>
vars     == <<contract, engine, txs, faults>>

ASSUME BridgeAssumption ==
    /\ NumAccounts \in Nat \ {0} /\ MaxPnl \in Nat /\ MaxFee \in Nat
    /\ InitialWallet \in [Users -> Nat]
    /\ Deposits \in [Users -> Nat] /\ Liquidity \in Nat
    /\ NumSettlements \in Nat
    /\ Positions # {} /\ PositionUser \in [Positions -> Users]
    /\ IsFiniteSet(Slots) /\ "nobody" \notin Slots
    /\ Slots \cap Ticks = {} /\ Slots \cap Polls = {} /\ Ticks \cap Polls = {}
    /\ MaxAttempts \in Nat \ {0} /\ BatchLimit \in Nat /\ MaxFaults \in Nat
    /\ LocksMayExpire \in BOOLEAN

NoRow == [status |-> "NONE", position |-> CHOOSE p \in Positions : TRUE,
          pnl |-> 0, hash |-> 0]
NoJob == [st |-> "none", attempts |-> 0, stalls |-> 0, holder |-> "nobody"]
Idle  == [pc |-> "idle", s |-> 0, u |-> 0, hash |-> 0, balance |-> 0, batch |-> {}]

\* The statuses under which a position's settlement blocks another one.
DEDUPE_STATUSES == {"PENDING", "SUBMITTED", "CONFIRMED"}

user(s) == PositionUser[row[s].position]

\* The engine starts with accounts that have deposited and are mirrored.
Init ==
    /\ owner = NumAccounts /\ manager = NumAccounts /\ paused = FALSE
    /\ settledBalance = Deposits
    /\ totalSettledBalance = MapThenSumSet(LAMBDA u : Deposits[u], Users)
    /\ vaultUsdc = totalSettledBalance + Liquidity
    /\ wallet = InitialWallet
    /\ row = [s \in Settlements |-> NoRow]
    /\ request = [s \in Settlements |-> "none"]
    /\ job = [s \in Settlements |-> NoJob]
    /\ txs = <<>>
    /\ fibre = [f \in Fibres |-> Idle]
    /\ mirror = Deposits
    /\ faults = 0

---------------------------------------------------------------------------
(* Failures are choices of the environment, up to MaxFaults of them.       *)

Fault ==
    /\ faults < MaxFaults
    /\ faults' = faults + 1

---------------------------------------------------------------------------
(* queueSettlementRequest: the row, then the queue job.  Its callers, the  *)
(* position and liquidation services, run it in a database transaction     *)
(* that has updated the position, and so hold its row lock until they end. *)

InTransaction(s) == request[s] \in {"created", "queued"}

Committed(s) == request[s] = "done" /\ row[s].status # "NONE"

\* settlement.findFirst over the position's live settlements.
AlreadyQueued(p) ==
    \E t \in Settlements :
        Committed(t) /\ row[t].position = p /\ row[t].status \in DEDUPE_STATUSES

Locked(p) == \E t \in Settlements : InTransaction(t) /\ row[t].position = p

queueSettlementRequest(s, p, pnl) ==
    /\ request[s] = "none"
    /\ \A t \in 1..(s - 1) : request[t] # "none"
    /\ ~Locked(p)
    /\ ~AlreadyQueued(p)
    /\ row' = [row EXCEPT ![s] =
                  [status |-> "PENDING", position |-> p, pnl |-> pnl, hash |-> 0]]
    /\ request' = [request EXCEPT ![s] = "created"]
    /\ UNCHANGED <<contract, job, fibre, mirror, txs, faults>>

\* settlementQueue.add: the worker may see the job at once, though the
\* transaction has not committed the row yet.
AddJob(s) ==
    /\ request[s] = "created"
    /\ request' = [request EXCEPT ![s] = "queued"]
    /\ job' = [job EXCEPT ![s].st = "wait"]
    /\ UNCHANGED <<contract, row, fibre, mirror, txs, faults>>

Commit(s) ==
    /\ request[s] = "queued"
    /\ request' = [request EXCEPT ![s] = "done"]
    /\ UNCHANGED <<contract, row, job, fibre, mirror, txs, faults>>

\* The transaction fails, times out or dies with its process.
Abort(s) ==
    /\ InTransaction(s)
    /\ request' = [request EXCEPT ![s] = "done"]
    /\ row' = [row EXCEPT ![s] = NoRow]
    /\ UNCHANGED <<contract, job, fibre, mirror, txs, faults>>

---------------------------------------------------------------------------
(* Fibres: how each of them goes on, ends its item, or throws.             *)

At(f, pc) == fibre[f].pc = pc

GoTo(f, pc) == fibre' = [fibre EXCEPT ![f].pc = pc]

\* The job of a slot that lost its lock is no longer its own to move.
Holds(f) == fibre[f].s # 0 /\ job[fibre[f].s].holder = f

\* Mutant: one attempt too many.
oneAttemptMore(j) ==
    [j EXCEPT !.attempts = @ + 1,
              !.st = IF j.attempts < MaxAttempts THEN "wait" ELSE "failed",
              !.holder = "nobody"]

JobAfterThrow(j) ==
    [j EXCEPT !.attempts = @ + 1,
              !.st = IF j.attempts + 1 < MaxAttempts THEN "wait" ELSE "failed",
              !.holder = "nobody"]

\* A slot completes its job; an interval tick turns to the rest of its batch.
Finish(f) ==
    /\ fibre' = [fibre EXCEPT ![f] =
                    [Idle EXCEPT !.pc = IF fibre[f].batch = {} THEN "idle" ELSE "pick",
                                 !.batch = fibre[f].batch]]
    /\ job' = IF f \in Slots /\ Holds(f)
              THEN [job EXCEPT ![fibre[f].s].st = "completed", ![fibre[f].s].holder = "nobody"]
              ELSE job

\* An exception fails the job's attempt, or drops the rest of a tick.
Throw(f) ==
    /\ fibre' = [fibre EXCEPT ![f] = Idle]
    /\ job' = IF f \in Slots /\ Holds(f)
              THEN [job EXCEPT ![fibre[f].s] = JobAfterThrow(@)]
              ELSE job

---------------------------------------------------------------------------
(* The settlement worker.                                                  *)

\* A free slot takes a waiting job.  A transaction lives for 5 seconds at
\* most, so the back-off keeps the last attempt from starting before it ends.
TakeJob(f, s) ==
    /\ f \in Slots /\ At(f, "idle")
    /\ job[s].st = "wait"
    /\ request[s] = "queued" => job[s].attempts + 1 < MaxAttempts
    /\ job' = [job EXCEPT ![s].st = "active", ![s].holder = f]
    /\ fibre' = [fibre EXCEPT ![f] = [Idle EXCEPT !.pc = "process", !.s = s]]
    /\ UNCHANGED <<contract, row, request, mirror, txs, faults>>

\* Mutant: whatever is not final yet is broadcast.
processResubmits(f) ==
    LET s == fibre[f].s
    IN  /\ At(f, "process")
        /\ \/ ~Committed(s) /\ Throw(f)
           \/ Committed(s) /\ row[s].status \in {"FAILED", "CONFIRMED"} /\ Finish(f)
           \/ Committed(s) /\ row[s].status \in {"PENDING", "SUBMITTED"}
                           /\ GoTo(f, "broadcast") /\ UNCHANGED job
        /\ UNCHANGED <<contract, row, request, mirror, txs, faults>>

\* Mutant: a row that is not there is taken for one that is done with.
processIgnoresMissing(f) ==
    LET s == fibre[f].s
    IN  /\ At(f, "process")
        /\ \/ ~Committed(s) /\ Finish(f)
           \/ Committed(s) /\ row[s].status \in {"FAILED", "CONFIRMED"} /\ Finish(f)
           \/ Committed(s) /\ row[s].status = "PENDING" /\ GoTo(f, "submit") /\ UNCHANGED job
           \/ Committed(s) /\ row[s].status = "SUBMITTED" /\ GoTo(f, "reconcile") /\ UNCHANGED job
        /\ UNCHANGED <<contract, row, request, mirror, txs, faults>>

\* processSettlement reads the row and decides.
processSettlement(f) ==
    LET s == fibre[f].s
    IN  /\ At(f, "process")
        /\ \/ ~Committed(s) /\ Throw(f)
           \/ Committed(s) /\ row[s].status \in {"FAILED", "CONFIRMED"} /\ Finish(f)
           \/ Committed(s) /\ row[s].status = "PENDING" /\ GoTo(f, "submit") /\ UNCHANGED job
           \/ Committed(s) /\ row[s].status = "SUBMITTED" /\ GoTo(f, "reconcile") /\ UNCHANGED job
        /\ UNCHANGED <<contract, row, request, mirror, txs, faults>>

\* submitSettlement reads the row again; only a pending one is broadcast.
submitSettlement(f) ==
    /\ At(f, "submit")
    /\ GoTo(f, IF row[fibre[f].s].status = "PENDING" THEN "broadcast" ELSE "reconcile")
    /\ UNCHANGED <<contract, row, request, job, mirror, txs, faults>>

\* The call would succeed on the chain as it is now.
WouldSettle(u, pnl) == ~paused /\ pnl <= Chain!protocolLiquidity

NewTx(s) == [s |-> s, user |-> user(s), pnl |-> row[s].pnl, st |-> "mempool"]

\* chainClient.submitSettlement: gas estimation throws when the call would
\* revert, and the answer to a broadcast can be lost.
writeContract(f) ==
    LET s == fibre[f].s
    IN  /\ At(f, "broadcast")
        /\ \/ /\ ~WouldSettle(user(s), row[s].pnl)
              /\ Throw(f) /\ UNCHANGED <<txs, faults>>
           \/ /\ WouldSettle(user(s), row[s].pnl)
              /\ txs' = Append(txs, NewTx(s))
              /\ fibre' = [fibre EXCEPT ![f].pc = "record", ![f].hash = Len(txs) + 1]
              /\ UNCHANGED <<job, faults>>
           \/ /\ WouldSettle(user(s), row[s].pnl)
              /\ txs' = Append(txs, NewTx(s))
              /\ Throw(f) /\ Fault
        /\ UNCHANGED <<contract, row, request, mirror>>

\* Mutant: the hash is recorded only once the transaction is mined.
recordOnlyMined(f) ==
    LET s == fibre[f].s
    IN  /\ At(f, "record")
        /\ IF txs[fibre[f].hash].st = "mempool"
           THEN Throw(f) /\ UNCHANGED row
           ELSE /\ row' = [row EXCEPT ![s].status = "SUBMITTED", ![s].hash = fibre[f].hash]
                /\ GoTo(f, "reconcile") /\ UNCHANGED job
        /\ UNCHANGED <<contract, request, mirror, txs, faults>>

\* The hash is recorded, whatever the row says by now.
recordSubmission(f) ==
    LET s == fibre[f].s
    IN  /\ At(f, "record")
        /\ row' = [row EXCEPT ![s].status = "SUBMITTED", ![s].hash = fibre[f].hash]
        /\ GoTo(f, "reconcile")
        /\ UNCHANGED <<contract, request, job, mirror, txs, faults>>

---------------------------------------------------------------------------
(* reconcileSettlement, for a job or for a tick.                           *)

\* The row is read: only a submitted one with a hash goes any further.
reconcileSettlement(f) ==
    LET s == fibre[f].s
    IN  /\ At(f, "reconcile")
        /\ IF row[s].status = "SUBMITTED" /\ row[s].hash # 0
           THEN /\ fibre' = [fibre EXCEPT ![f].pc = "receipt", ![f].hash = row[s].hash]
                /\ UNCHANGED job
           ELSE Finish(f)
        /\ UNCHANGED <<contract, row, request, mirror, txs, faults>>

receiptMatchesSettlement(t, s) == t.user = user(s) /\ t.pnl = row[s].pnl

\* Mutant: a transaction that was mined counts as confirmed.
receiptIgnoresRevert(f) ==
    LET s == fibre[f].s
        t == txs[fibre[f].hash]
    IN  /\ At(f, "receipt")
        /\ IF t.st \in {"mempool", "dropped"} THEN Finish(f)
           ELSE GoTo(f, "confirm") /\ UNCHANGED job
        /\ UNCHANGED <<contract, row, request, mirror, txs, faults>>

\* Mutant: a reverted receipt is taken for one that is still to come.
receiptTakesRevertForPending(f) ==
    LET s == fibre[f].s
        t == txs[fibre[f].hash]
    IN  /\ At(f, "receipt")
        /\ \/ t.st # "confirmed" /\ Finish(f)
           \/ t.st = "confirmed" /\ GoTo(f, "confirm") /\ UNCHANGED job
        /\ UNCHANGED <<contract, row, request, mirror, txs, faults>>

\* Mutant: a receipt that is not there yet counts as a failure.
receiptTakesPendingForReverted(f) ==
    LET s == fibre[f].s
        t == txs[fibre[f].hash]
    IN  /\ At(f, "receipt")
        /\ GoTo(f, IF t.st = "confirmed" /\ receiptMatchesSettlement(t, s) THEN "confirm" ELSE "fail")
        /\ UNCHANGED <<contract, row, request, job, mirror, txs, faults>>

\* getSettlementReceipt and the decision that follows from it.
getSettlementReceipt(f) ==
    LET s == fibre[f].s
        t == txs[fibre[f].hash]
    IN  /\ At(f, "receipt")
        /\ \/ t.st \in {"mempool", "dropped"} /\ Finish(f)
           \/ /\ t.st = "confirmed" /\ receiptMatchesSettlement(t, s)
              /\ GoTo(f, "confirm") /\ UNCHANGED job
           \/ /\ t.st = "reverted" \/ (t.st = "confirmed" /\ ~receiptMatchesSettlement(t, s))
              /\ GoTo(f, "fail") /\ UNCHANGED job
        /\ UNCHANGED <<contract, row, request, mirror, txs, faults>>

\* settlement.update to CONFIRMED, by id, and then the wallet's sync.
markConfirmed(f) ==
    LET s == fibre[f].s
    IN  /\ At(f, "confirm")
        /\ row' = [row EXCEPT ![s].status = "CONFIRMED"]
        /\ fibre' = [fibre EXCEPT ![f].pc = "readBalance", ![f].u = user(s)]
        /\ UNCHANGED <<contract, request, job, mirror, txs, faults>>

\* settlement.update to FAILED, by id.
markSettlementFailed(f) ==
    /\ At(f, "fail")
    /\ row' = [row EXCEPT ![fibre[f].s].status = "FAILED"]
    /\ Finish(f)
    /\ UNCHANGED <<contract, request, mirror, txs, faults>>

---------------------------------------------------------------------------
(* syncWallet: the chain is read, then the mirror is written.              *)

readSettledBalance(f) ==
    /\ At(f, "readBalance")
    /\ fibre' = [fibre EXCEPT ![f].pc = "writeMirror",
                              ![f].balance = settledBalance[fibre[f].u]]
    /\ UNCHANGED <<contract, row, request, job, mirror, txs, faults>>

syncSettledBalance(f) ==
    /\ At(f, "writeMirror")
    /\ mirror' = [mirror EXCEPT ![fibre[f].u] = fibre[f].balance]
    /\ Finish(f)
    /\ UNCHANGED <<contract, row, request, txs, faults>>

\* The database or the RPC node fails an await before it has any effect.
AwaitFails(f) ==
    /\ fibre[f].pc \notin {"idle", "pick"}
    /\ Throw(f)
    /\ Fault
    /\ UNCHANGED <<contract, row, request, mirror, txs>>

---------------------------------------------------------------------------
(* The intervals of worker.ts.                                             *)

\* reconcileSubmittedSettlements: at most BatchLimit submitted rows, in no
\* order the query fixes.
reconcileSubmittedSettlements(f) ==
    LET submitted == {s \in Settlements : Committed(s) /\ row[s].status = "SUBMITTED"}
    IN  /\ f \in Ticks /\ At(f, "idle")
        /\ submitted # {}
        /\ \E batch \in SUBSET submitted :
              /\ Cardinality(batch) = BatchLimit \/ batch = submitted
              /\ Cardinality(batch) <= BatchLimit
              /\ fibre' = [fibre EXCEPT ![f] = [Idle EXCEPT !.pc = "pick", !.batch = batch]]
        /\ UNCHANGED <<contract, row, request, job, mirror, txs, faults>>

\* Mutant: only users with a settlement under way are synced.
syncUnsettledWallets(f) ==
    LET unsettled == {user(s) : s \in {t \in Settlements :
                                          row[t].status \in {"PENDING", "SUBMITTED"}}}
    IN  /\ f \in Polls /\ At(f, "idle")
        /\ unsettled # {}
        /\ fibre' = [fibre EXCEPT ![f] = [Idle EXCEPT !.pc = "pick", !.batch = unsettled]]
        /\ UNCHANGED <<contract, row, request, job, mirror, txs, faults>>

\* syncAllWallets: every user, whether its mirror is stale or not.
syncAllWallets(f) ==
    /\ f \in Polls /\ At(f, "idle")
    /\ fibre' = [fibre EXCEPT ![f] = [Idle EXCEPT !.pc = "pick", !.batch = Users]]
    /\ UNCHANGED <<contract, row, request, job, mirror, txs, faults>>

\* The next item of a tick's batch.
NextItem(f) ==
    /\ At(f, "pick")
    /\ \E i \in fibre[f].batch :
          LET left == fibre[f].batch \ {i}
          IN  fibre' = [fibre EXCEPT ![f] =
                           IF f \in Ticks
                           THEN [@ EXCEPT !.pc = "reconcile", !.s = i, !.batch = left]
                           ELSE [@ EXCEPT !.pc = "readBalance", !.u = i, !.batch = left]]
    /\ UNCHANGED <<contract, row, request, job, mirror, txs, faults>>

---------------------------------------------------------------------------
(* BullMQ, the chain and the process, which the engine does not control.   *)

JobAfterStall(j) ==
    [j EXCEPT !.stalls = @ + 1, !.holder = "nobody",
              !.st = IF j.stalls = 0 THEN "wait" ELSE "failed"]

\* The stalled-job checker finds a job nobody works on any more.
RecoverStalledJob(s) ==
    /\ job[s].st = "active" /\ fibre[job[s].holder].s # s
    /\ job' = [job EXCEPT ![s] = JobAfterStall(@)]
    /\ UNCHANGED <<contract, row, request, fibre, mirror, txs, faults>>

\* The lock of a job expires while its slot is still at work.
LoseLock(s) ==
    /\ LocksMayExpire
    /\ job[s].st = "active" /\ fibre[job[s].holder].s = s
    /\ job' = [job EXCEPT ![s] = JobAfterStall(@)]
    /\ Fault
    /\ UNCHANGED <<contract, row, request, fibre, mirror, txs>>

\* The worker process dies and is started again: every await is lost.
Crash ==
    /\ \E f \in Fibres : fibre[f] # Idle
    /\ Fault
    /\ fibre' = [f \in Fibres |-> Idle]
    /\ UNCHANGED <<contract, row, request, job, mirror, txs>>

InMempool(i) == txs[i].st = "mempool"

\* A block takes the next transaction of the manager: settle runs or reverts.
Mine(i) ==
    /\ InMempool(i) /\ \A k \in 1..(i - 1) : ~InMempool(k)
    /\ IF WouldSettle(txs[i].user, txs[i].pnl)
       THEN /\ Chain!settle(manager, txs[i].user, txs[i].pnl)
            /\ txs' = [txs EXCEPT ![i].st = "confirmed"]
       ELSE /\ txs' = [txs EXCEPT ![i].st = "reverted"]
            /\ UNCHANGED contract
    /\ UNCHANGED <<engine, faults>>

\* The network forgets a transaction for good.
Drop(i) ==
    /\ InMempool(i)
    /\ Fault
    /\ txs' = [txs EXCEPT ![i].st = "dropped"]
    /\ UNCHANGED <<contract, engine>>

\* Meanwhile users deposit and withdraw, and the owner moves protocol liquidity
\* and pauses the vault or lets it go on.
OthersUseVault ==
    /\ \/ \E u \in Users : Chain!deposit(u, 1, 1) \/ Chain!withdraw(u, 1, 1)
       \/ Chain!setPaused(owner, ~paused)
       \/ Chain!fundProtocolLiquidity(owner, 1, 1)
       \/ Chain!withdrawProtocolLiquidity(owner, owner, 1, 1)
    /\ UNCHANGED <<engine, txs, faults>>

---------------------------------------------------------------------------
Request(s) ==
    \/ \E p \in Positions, pnl \in Pnls : queueSettlementRequest(s, p, pnl)
    \/ AddJob(s) \/ Commit(s) \/ Abort(s)

\* What a fibre does next once it has started.
Continue(f) ==
    \/ processSettlement(f) \/ submitSettlement(f) \/ writeContract(f)
    \/ recordSubmission(f) \/ reconcileSettlement(f) \/ getSettlementReceipt(f)
    \/ markConfirmed(f) \/ markSettlementFailed(f)
    \/ readSettledBalance(f) \/ syncSettledBalance(f) \/ NextItem(f)

Start(f) == reconcileSubmittedSettlements(f) \/ syncAllWallets(f)

Next ==
    \/ \E s \in Settlements : Request(s) \/ RecoverStalledJob(s) \/ LoseLock(s)
    \/ \E f \in Slots, s \in Settlements : TakeJob(f, s)
    \/ \E f \in Fibres : Continue(f) \/ Start(f) \/ AwaitFails(f)
    \/ \E i \in DOMAIN txs : Mine(i) \/ Drop(i)
    \/ Crash
    \/ OthersUseVault

Spec == Init /\ [][Next]_vars

\* Fairness: awaits return, jobs that wait are taken, timers fire again and
\* again, transactions end, the stalled checker runs, and a transaction in
\* the mempool is mined unless the network drops it.
FairSpec ==
    /\ Spec
    /\ \A s \in Settlements :
          WF_vars(AddJob(s) \/ Commit(s) \/ Abort(s)) /\ WF_vars(RecoverStalledJob(s))
    /\ \A f \in Slots : WF_vars(\E s \in Settlements : TakeJob(f, s))
    /\ \A f \in Fibres : WF_vars(Continue(f)) /\ WF_vars(Start(f))
    /\ WF_vars(\E i \in DOMAIN txs : Mine(i))

---------------------------------------------------------------------------
(* Properties.                                                             *)

TxsOf(s) == {i \in DOMAIN txs : txs[i].s = s}

Statuses == {"NONE", "PENDING", "SUBMITTED", "CONFIRMED", "FAILED"}

Steps == {"idle", "pick", "process", "submit", "broadcast", "record", "reconcile",
          "receipt", "confirm", "fail", "readBalance", "writeMirror"}

\* The type of every variable the engine keeps, and of the transactions.
TypeOK ==
    /\ row \in [Settlements -> [status : Statuses, position : Positions,
                                pnl : Pnls \cup {0}, hash : 0..Len(txs)]]
    /\ request \in [Settlements -> {"none", "created", "queued", "done"}]
    /\ job \in [Settlements -> [st : {"none", "wait", "active", "completed", "failed"},
                                attempts : 0..MaxAttempts, stalls : 0..2,
                                holder : Slots \cup {"nobody"}]]
    /\ \A i \in DOMAIN txs :
          txs[i] \in [s : Settlements, user : Users, pnl : Pnls,
                      st : {"mempool", "confirmed", "reverted", "dropped"}]
    /\ \A f \in Fibres :
          /\ fibre[f].pc \in Steps
          /\ fibre[f].s \in Settlements \cup {0}
          /\ fibre[f].hash \in 0..Len(txs)
    /\ mirror \in [Users -> Nat]
    /\ faults \in 0..MaxFaults

\* A settlement is called confirmed only when the vault has applied it: with
\* any interleaving of jobs and ticks, and even when an expired lock lets two
\* fibres work on one job, some transaction of this settlement succeeded.
ConfirmedIsOnChain ==
    \A s \in Settlements :
        row[s].status = "CONFIRMED" => \E i \in TxsOf(s) : txs[i].st = "confirmed"

\* The verdict of the row is the fate of the transaction it names.
VerdictMatchesRecordedTx ==
    \A s \in Settlements :
        /\ row[s].status = "CONFIRMED" => txs[row[s].hash].st = "confirmed"
        /\ row[s].status = "FAILED" => txs[row[s].hash].st = "reverted"

\* The engine pays for a settlement a second time only after something went
\* wrong: its transactions beyond the first are never more than the failures.
\* (Per settlement: one crash may cost every slot's settlement a transaction.)
RetriesNeedFailures ==
    \A s \in Settlements : Cardinality(TxsOf(s)) <= 1 + faults

\* Once a hash is on record no other transaction is sent for its settlement,
\* and a verdict is final.
RecordIsFinal ==
    [][\A s \in Settlements :
          /\ row[s].hash # 0 => row'[s].hash = row[s].hash /\ TxsOf(s)' = TxsOf(s)
          /\ row[s].status \in {"CONFIRMED", "FAILED"} => row'[s] = row[s]]_vars

\* What settlements promise (see Clearing), read off rows and transactions.
Verdict(s) ==
    IF ~Committed(s) THEN "none"
    ELSE IF row[s].status = "CONFIRMED" THEN "done"
    ELSE IF row[s].status = "FAILED" THEN "refused"
    ELSE "due"

Promise == INSTANCE Clearing WITH
    Dues    <- Settlements,
    verdict <- [s \in Settlements |-> Verdict(s)],
    applied <- [s \in Settlements |-> Cardinality({i \in TxsOf(s) : txs[i].st = "confirmed"})],
    mishaps <- faults

\* Rows, jobs and transactions implement the promise: with crashes, retries
\* and ticks in any order, the vault moves again for a settlement only after a
\* failure and never after its verdict, and the verdict tells what it did.
\* (Claimed while job locks do not expire.)
ImplementsClearing == Promise!ClearingSpec

\* Submitted rows that name a transaction the network has dropped.
Orphaned == {s \in Settlements : /\ Committed(s) /\ row[s].status = "SUBMITTED"
                                 /\ row[s].hash # 0 /\ txs[row[s].hash].st = "dropped"}

\* A submitted settlement is resolved although a tick takes only so many rows, in
\* no order, and gives up the rest of them when one throws: neither a crash nor a
\* lost answer nor other rows leave it behind.  That is, unless the network drops
\* the transaction it names, or those of as many rows as a tick takes: these stay
\* submitted for ever, and may fill every batch.
SubmittedIsResolved ==
    \A s \in Settlements :
        row[s].status = "SUBMITTED" ~>
            \/ row[s].status \in {"CONFIRMED", "FAILED"}
            \/ s \in Orphaned
            \/ Cardinality(Orphaned) >= BatchLimit

\* No settlement is applied to the vault twice (README: "no duplicate
\* settlements").  The code does not ensure it: a broadcast whose hash is not
\* recorded is repeated by the job's next attempt.
NoDuplicateSettlement ==
    \A s \in Settlements : Cardinality({i \in TxsOf(s) : txs[i].st = "confirmed"}) <= 1

\* A settlement that is queued is submitted, unless all its attempts have
\* failed: although its job may run before the row is committed, or die with
\* the worker, the queue does not lose it.  (Nothing takes a pending row up
\* again once its job has failed for good.)
QueuedIsTried ==
    \A s \in Settlements :
        Committed(s) /\ row[s].status = "PENDING" ~>
            row[s].status # "PENDING" \/ job[s].st = "failed"

\* Once the vault's balances stay as they are, the mirror of every account
\* converges to them, in spite of syncs that overlap and write balances they
\* read earlier.
MirrorConverges ==
    <>[][FALSE]_settledBalance => <>[](\A u \in Users : mirror[u] = settledBalance[u])

=============================================================================
