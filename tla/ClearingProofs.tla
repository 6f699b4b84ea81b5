--------------------------- MODULE ClearingProofs ---------------------------
(***************************************************************************)
(* Proofs about SettlementBridge that need job locks that do not expire    *)
(* under a live worker: the row's verdict is the fate of the transaction   *)
(* it names, a hash and a verdict on record are final, and rows, jobs and  *)
(* transactions implement Clearing.                                        *)
(*                                                                         *)
(* OwnerInv says why: the slot at work on a settlement is the holder of    *)
(* its job, so nothing else sends a transaction of it or records a hash,   *)
(* and a row is PENDING until its slot has recorded the last one sent.     *)
(***************************************************************************)
EXTENDS SettlementProofs

\* Transaction i is the newest of settlement s.
IsLastOf(i, s) == i \in TxsOf(s) /\ \A k \in TxsOf(s) : k <= i

\* A slot at work on a settlement holds its job.
OwnsJob(f) == fibre[f].s # 0 => job[fibre[f].s].holder = f

\* Until the hash is recorded the row is PENDING.
BeforeRecord(f) ==
    /\ fibre[f].pc \in {"submit", "broadcast", "record"} => row[fibre[f].s].status = "PENDING"
    /\ fibre[f].pc = "record" => IsLastOf(fibre[f].hash, fibre[f].s)

\* A receipt is asked for, and a verdict given, of the hash on record.
AfterRead(f) ==
    fibre[f].pc \in {"receipt", "confirm", "fail"} => fibre[f].hash = row[fibre[f].s].hash

\* The hash on record is that of the last transaction, and decides.
VerdictOf(s) ==
    /\ row[s].hash # 0 => IsLastOf(row[s].hash, s)
    /\ row[s].status = "CONFIRMED" => txs[row[s].hash].st = "confirmed"
    /\ row[s].status = "FAILED" => txs[row[s].hash].st = "reverted"

\* Transactions are mined in the order of their nonces.
InOrder ==
    \A i, k \in DOMAIN txs :
        k < i /\ txs[i].st \in {"confirmed", "reverted"} => txs[k].st # "mempool"

\* The additional facts, together.
OwnerInv ==
    /\ \A f \in Slots : OwnsJob(f) /\ BeforeRecord(f)
    /\ \A f \in Fibres : AfterRead(f)
    /\ \A s \in Settlements : VerdictOf(s)
    /\ InOrder

---------------------------------------------------------------------------
(* What a step may do to a row, a transaction, a fibre or a job.           *)

\* What a step may do to a settlement's row.
LEMMA RowMoves ==
    ASSUME BridgeInv, [Next]_vars, NEW s \in Settlements
    PROVE  \/ row'[s] = row[s]
           \/ ~Committed(s) /\ row'[s].hash = 0 /\ row'[s].status \in {"NONE", "PENDING"}
           \/ \E f \in Slots : /\ fibre[f].pc = "record" /\ fibre[f].s = s
                               /\ row'[s].status = "SUBMITTED" /\ row'[s].hash = fibre[f].hash
                               /\ fibre'[f].pc = "reconcile"
           \/ \E f \in Fibres : /\ fibre[f].pc = "confirm" /\ fibre[f].s = s
                                /\ row'[s].status = "CONFIRMED" /\ row'[s].hash = row[s].hash
           \/ \E f \in Fibres : /\ fibre[f].pc = "fail" /\ fibre[f].s = s
                                /\ row'[s].status = "FAILED" /\ row'[s].hash = row[s].hash
<1> USE DEF contract, engine
<1>0. row \in [Settlements -> RowType]
  BY DEF BridgeInv, Typed
<1>1. ASSUME NEW r \in Settlements, Request(r)
      PROVE  \/ row'[s] = row[s]
             \/ ~Committed(s) /\ row'[s].hash = 0 /\ row'[s].status \in {"NONE", "PENDING"}
  BY <1>0, <1>1, Basics
  DEF Request, queueSettlementRequest, AddJob, Commit, Abort, Committed, InTransaction
<1>2. ASSUME NEW f \in Fibres, recordSubmission(f)
      PROVE  \/ row'[s] = row[s]
             \/ /\ f \in Slots /\ fibre[f].pc = "record" /\ fibre[f].s = s
                /\ row'[s].status = "SUBMITTED" /\ row'[s].hash = fibre[f].hash
                /\ fibre'[f].pc = "reconcile"
  <2>1. fibre[f].s \in Settlements /\ f \in Slots /\ fibre[f].hash \in Nat
    BY <1>2 DEF recordSubmission, At, BridgeInv, Typed, FibreType, FibreOK, JobSteps
  <2> QED
    BY <1>2, <2>1, RecordEffect, GoToEffect DEF recordSubmission, At, Steps
<1>3. ASSUME NEW f \in Fibres, markConfirmed(f)
      PROVE  \/ row'[s] = row[s]
             \/ /\ fibre[f].pc = "confirm" /\ fibre[f].s = s
                /\ row'[s].status = "CONFIRMED" /\ row'[s].hash = row[s].hash
  <2>1. fibre[f].s \in Settlements
    BY <1>3 DEF markConfirmed, At, BridgeInv, Typed, FibreType, FibreOK, TxSteps
  <2> QED
    BY <1>3, <2>1, StatusEffect DEF markConfirmed, At, Statuses
<1>4. ASSUME NEW f \in Fibres, markSettlementFailed(f)
      PROVE  \/ row'[s] = row[s]
             \/ /\ fibre[f].pc = "fail" /\ fibre[f].s = s
                /\ row'[s].status = "FAILED" /\ row'[s].hash = row[s].hash
  <2>1. fibre[f].s \in Settlements
    BY <1>4 DEF markSettlementFailed, At, BridgeInv, Typed, FibreType, FibreOK, TxSteps
  <2> QED
    BY <1>4, <2>1, StatusEffect DEF markSettlementFailed, At, Statuses
<1>5. ASSUME NEW f \in Fibres, Continue(f)
      PROVE  \/ row'[s] = row[s]
             \/ recordSubmission(f) \/ markConfirmed(f) \/ markSettlementFailed(f)
  BY <1>5 DEF Continue, processSettlement, submitSettlement, writeContract, reconcileSettlement,
     getSettlementReceipt, readSettledBalance, syncSettledBalance, NextItem
<1>6. \/ row' = row
      \/ \E r \in Settlements : Request(r)
      \/ \E f \in Fibres : Continue(f)
  BY DEF Next, RecoverStalledJob, LoseLock, TakeJob, Start, reconcileSubmittedSettlements,
     syncAllWallets, AwaitFails, Mine, Drop, Crash, OthersUseVault, vars
<1> QED
  BY <1>1, <1>2, <1>3, <1>4, <1>5, <1>6

\* What a step may do to the transactions.
LEMMA TxsMove ==
    ASSUME BridgeInv, [Next]_vars, NEW s \in Settlements
    PROVE  \/ TxsOf(s)' = TxsOf(s)
           \/ /\ \E f \in Slots : fibre[f].pc = "broadcast" /\ fibre[f].s = s
              /\ TxsOf(s)' = TxsOf(s) \cup {Len(txs) + 1}
<1> USE DEF contract, engine
<1>0. txs \in Seq(TxType)
  BY DEF BridgeInv, Typed
<1>1. ASSUME NEW f \in Fibres, writeContract(f), txs' # txs
      PROVE  \/ TxsOf(s)' = TxsOf(s)
             \/ /\ f \in Slots /\ fibre[f].pc = "broadcast" /\ fibre[f].s = s
                /\ TxsOf(s)' = TxsOf(s) \cup {Len(txs) + 1}
  <2>1. txs' = Append(txs, NewTx(fibre[f].s)) /\ fibre[f].pc = "broadcast" /\ f \in Slots
    BY <1>1 DEF writeContract, At, BridgeInv, FibreOK, JobSteps
  <2>2. /\ DOMAIN txs' = DOMAIN txs \cup {Len(txs) + 1}
        /\ txs'[Len(txs) + 1].s = fibre[f].s
        /\ \A i \in DOMAIN txs : txs'[i] = txs[i]
        /\ Len(txs) + 1 \notin DOMAIN txs
    BY <1>0, <2>1 DEF NewTx
  <2> QED
    BY <2>1, <2>2 DEF TxsOf
<1>2. ASSUME NEW i \in DOMAIN txs, Mine(i) \/ Drop(i)
      PROVE  TxsOf(s)' = TxsOf(s)
  <2>1. DOMAIN txs' = DOMAIN txs
    BY <1>0, <1>2 DEF Mine, Drop
  <2>2. \A k \in DOMAIN txs : txs'[k].s = txs[k].s
    BY GrowsStep DEF Grows
  <2> QED
    BY <2>1, <2>2 DEF TxsOf
<1>3. ASSUME txs' = txs
      PROVE  TxsOf(s)' = TxsOf(s)
  BY <1>3 DEF TxsOf
<1>4. ASSUME NEW f \in Fibres, Continue(f), txs' # txs
      PROVE  writeContract(f)
  BY <1>4 DEF Continue, processSettlement, submitSettlement, recordSubmission, reconcileSettlement,
     getSettlementReceipt, markConfirmed, markSettlementFailed, readSettledBalance,
     syncSettledBalance, NextItem
<1>5. \/ txs' = txs
      \/ \E f \in Fibres : Continue(f)
      \/ \E i \in DOMAIN txs : Mine(i) \/ Drop(i)
  BY DEF Next, Request, queueSettlementRequest, AddJob, Commit, Abort, RecoverStalledJob, LoseLock,
     TakeJob, Start, reconcileSubmittedSettlements, syncAllWallets, AwaitFails, Crash,
     OthersUseVault, vars
<1> QED
  BY <1>1, <1>2, <1>3, <1>4, <1>5

\* A fibre stays, is free for the next item, takes a job, or goes on with its
\* item and holds what that step reads.
Stays(f)  == fibre'[f] = fibre[f]
Leaves(f) == fibre'[f].pc \in {"idle", "pick"} /\ fibre'[f].s = 0
Takes(f)  == /\ f \in Slots /\ fibre'[f].pc = "process"
             /\ fibre'[f].s \in Settlements /\ job'[fibre'[f].s].holder = f
Tries(f)  == /\ f \in Slots /\ fibre'[f].s = fibre[f].s /\ fibre[f].s \in Settlements
             /\ row' = row
             /\ \/ fibre'[f].pc \in {"submit", "broadcast"} /\ row[fibre[f].s].status = "PENDING"
                \/ /\ fibre[f].pc = "broadcast" /\ fibre'[f].pc = "record"
                   /\ fibre'[f].hash = Len(txs) + 1
                   /\ TxsOf(fibre[f].s)' = TxsOf(fibre[f].s) \cup {Len(txs) + 1}
Reads(f)  == /\ fibre'[f].s = fibre[f].s /\ fibre[f].s \in Settlements
             /\ row' = row
             /\ \/ fibre'[f].pc = "receipt" /\ fibre'[f].hash = row[fibre[f].s].hash
                \/ /\ fibre[f].pc = "receipt" /\ fibre'[f].pc \in {"confirm", "fail"}
                   /\ fibre'[f].hash = fibre[f].hash
Syncs(f)  == /\ fibre'[f].pc \in {"reconcile", "readBalance", "writeMirror"}
             /\ f \in Slots => fibre'[f].s = fibre[f].s

\* A step moves each fibre in one of these ways, or leaves it alone.
LEMMA FibreMoves ==
    ASSUME BridgeInv, [Next]_vars, NEW g \in Fibres
    PROVE  Stays(g) \/ Leaves(g) \/ Takes(g) \/ Tries(g) \/ Reads(g) \/ Syncs(g)
<1> USE DEF contract, engine
<1>0. /\ Typed /\ FibreOK(g)
      /\ fibre[g].s # 0 => fibre[g].s \in Settlements
  BY DEF BridgeInv, Typed, FibreType
<1>1. ASSUME Finish(g) \/ Throw(g)
      PROVE  Leaves(g)
  BY <1>1, LeaveEffect DEF Leaves
<1>2. ASSUME NEW f \in Slots, NEW s \in Settlements, TakeJob(f, s)
      PROVE  Stays(g) \/ Takes(g)
  BY <1>2, TakeEffect DEF Stays, Takes, Fibres
<1>3. ASSUME Continue(g)
      PROVE  Leaves(g) \/ Tries(g) \/ Reads(g) \/ Syncs(g)
  <2>1. CASE processSettlement(g)
    <3>1. g \in Slots /\ fibre[g].s \in Settlements
      BY <1>0, <2>1 DEF processSettlement, At, FibreOK, JobSteps
    <3>2. CASE GoTo(g, "submit") /\ row[fibre[g].s].status = "PENDING"
      BY <2>1, <3>1, <3>2, GoToEffect DEF processSettlement, Tries, Steps
    <3>3. CASE GoTo(g, "reconcile")
      BY <2>1, <3>1, <3>3, GoToEffect DEF processSettlement, Syncs, Steps
    <3> QED
      BY <1>1, <2>1, <3>2, <3>3 DEF processSettlement
  <2>2. CASE submitSettlement(g)
    <3>1. g \in Slots /\ fibre[g].s \in Settlements
      BY <1>0, <2>2 DEF submitSettlement, At, FibreOK, JobSteps
    <3>2. CASE GoTo(g, "broadcast") /\ row[fibre[g].s].status = "PENDING"
      BY <2>2, <3>1, <3>2, GoToEffect DEF submitSettlement, Tries, Steps
    <3>3. CASE GoTo(g, "reconcile")
      BY <2>2, <3>1, <3>3, GoToEffect DEF submitSettlement, Syncs, Steps
    <3> QED
      BY <2>2, <3>2, <3>3 DEF submitSettlement
  <2>3. CASE writeContract(g)
    <3>1. g \in Slots /\ fibre[g].s \in Settlements /\ fibre[g].pc = "broadcast" /\ row' = row
      BY <1>0, <2>3 DEF writeContract, At, FibreOK, JobSteps
    <3>2. CASE Throw(g)
      BY <1>1, <3>2
    <3>3. CASE /\ txs' = Append(txs, NewTx(fibre[g].s))
               /\ fibre' = [fibre EXCEPT ![g].pc = "record", ![g].hash = Len(txs) + 1]
      <4>0. Len(txs) + 1 \in Nat
        BY <1>0 DEF Typed
      <4>1. /\ fibre'[g].pc = "record" /\ fibre'[g].s = fibre[g].s
            /\ fibre'[g].hash = Len(txs) + 1
        BY <3>3, <4>0, HashEffect DEF Steps
      <4>2. /\ DOMAIN txs' = DOMAIN txs \cup {Len(txs) + 1}
            /\ txs'[Len(txs) + 1].s = fibre[g].s
            /\ \A i \in DOMAIN txs : txs'[i] = txs[i]
            /\ Len(txs) + 1 \notin DOMAIN txs
        BY <1>0, <3>3 DEF Typed, NewTx
      <4>3. TxsOf(fibre[g].s)' = TxsOf(fibre[g].s) \cup {Len(txs) + 1}
        BY <4>1, <4>2 DEF TxsOf
      <4> QED
        BY <3>1, <4>1, <4>3 DEF Tries
    <3> QED
      BY <2>3, <3>2, <3>3 DEF writeContract
  <2>4. CASE recordSubmission(g)
    BY <2>4, GoToEffect DEF recordSubmission, Syncs, Steps
  <2>5. CASE reconcileSettlement(g)
    <3>1. fibre[g].s \in Settlements /\ row' = row
      BY <1>0, <2>5 DEF reconcileSettlement, At, FibreOK
    <3>2. row[fibre[g].s].hash \in Nat
      BY <1>0, <3>1 DEF Typed, RowType
    <3>3. CASE fibre' = [fibre EXCEPT ![g].pc = "receipt", ![g].hash = row[fibre[g].s].hash]
      <4>1. /\ fibre'[g].pc = "receipt" /\ fibre'[g].s = fibre[g].s
            /\ fibre'[g].hash = row[fibre[g].s].hash
        BY <3>2, <3>3, HashEffect DEF Steps
      <4> QED
        BY <3>1, <4>1 DEF Reads
    <3> QED
      BY <1>1, <2>5, <3>3 DEF reconcileSettlement
  <2>6. CASE getSettlementReceipt(g)
    <3>1. fibre[g].s \in Settlements /\ row' = row /\ fibre[g].pc = "receipt"
      BY <1>0, <2>6 DEF getSettlementReceipt, At, FibreOK, TxSteps
    <3>2. CASE GoTo(g, "confirm") \/ GoTo(g, "fail")
      BY <3>1, <3>2, GoToEffect DEF Reads, Steps
    <3> QED
      BY <1>1, <2>6, <3>2 DEF getSettlementReceipt
  <2>7. CASE markConfirmed(g)
    <3>1. fibre[g].s \in Settlements
      BY <1>0, <2>7 DEF markConfirmed, At, FibreOK, TxSteps
    <3>2. user(fibre[g].s) \in Users
      BY <1>0, <3>1, Basics DEF user, Typed, RowType
    <3> QED
      BY <2>7, <3>2, UserEffect DEF markConfirmed, Syncs, Steps
  <2>8. CASE markSettlementFailed(g) \/ syncSettledBalance(g)
    BY <1>1, <2>8 DEF markSettlementFailed, syncSettledBalance
  <2>9. CASE readSettledBalance(g)
    <3>1. fibre[g].u \in Users
      BY <1>0, <2>9 DEF readSettledBalance, At, Typed, FibreType, FibreOK
    <3>2. settledBalance[fibre[g].u] \in Nat
      BY <1>0, <3>1 DEF Typed
    <3> QED
      BY <2>9, <3>2, BalanceEffect DEF readSettledBalance, Syncs, Steps
  <2>10. CASE NextItem(g)
    BY <2>10, ItemEffect DEF Syncs
  <2> QED
    BY <1>3, <2>1, <2>2, <2>3, <2>4, <2>5, <2>6, <2>7, <2>8, <2>9, <2>10 DEF Continue
<1>4. ASSUME NEW f \in Fibres, Continue(f), f # g
      PROVE  Stays(g)
  <2>1. CASE Finish(f) \/ Throw(f)
    BY <1>4, <2>1, LeaveEffect DEF Stays
  <2>2. ASSUME NEW x, fibre' = [fibre EXCEPT ![f] = x]
        PROVE  Stays(g)
    BY <1>0, <1>4, <2>2 DEF Stays, Typed
  <2>3. CASE ~(Finish(f) \/ Throw(f))
    BY <1>4, <2>2, <2>3
    DEF Continue, processSettlement, submitSettlement, writeContract, recordSubmission,
        reconcileSettlement, getSettlementReceipt, markConfirmed, markSettlementFailed,
        readSettledBalance, syncSettledBalance, NextItem, GoTo
  <2> QED
    BY <2>1, <2>3
<1>5. ASSUME NEW f \in Fibres, Start(f)
      PROVE  Stays(g) \/ Leaves(g)
  BY <1>5, StartEffect DEF Stays, Leaves
<1>6. ASSUME NEW f \in Fibres, AwaitFails(f)
      PROVE  Stays(g) \/ Leaves(g)
  BY <1>1, <1>6, LeaveEffect DEF AwaitFails, Stays
<1>7. CASE Crash
  BY <1>7, Basics DEF Crash, Leaves
<1>8. ASSUME fibre' = fibre
      PROVE  Stays(g)
  BY <1>8 DEF Stays
<1>9. \/ fibre' = fibre \/ Crash
      \/ \E f \in Slots, s \in Settlements : TakeJob(f, s)
      \/ \E f \in Fibres : Continue(f) \/ Start(f) \/ AwaitFails(f)
  BY DEF Next, Request, queueSettlementRequest, AddJob, Commit, Abort, RecoverStalledJob, LoseLock,
     Mine, Drop, OthersUseVault, vars
<1> QED
  BY <1>2, <1>3, <1>4, <1>5, <1>6, <1>7, <1>8, <1>9

\* What a step may do to a settlement's job.
LEMMA JobMoves ==
    ASSUME ~LocksMayExpire, BridgeInv, [Next]_vars, NEW s \in Settlements
    PROVE  \/ job'[s].holder = job[s].holder
           \/ job[s].st # "active"
           \/ fibre[job[s].holder].s # s
           \/ \E f \in Slots : fibre[f].s = s /\ job[s].holder = f /\ fibre'[f].s = 0
<1> USE DEF contract, engine
<1>0. job \in [Settlements -> JobType]
  BY DEF BridgeInv, Typed
<1>1. ASSUME NEW f \in Fibres, Finish(f) \/ Throw(f)
      PROVE  \/ job'[s] = job[s]
             \/ f \in Slots /\ fibre[f].s = s /\ job[s].holder = f /\ fibre'[f].s = 0
  BY <1>1, LeaveEffect
<1>2. ASSUME NEW f \in Fibres, Continue(f) \/ AwaitFails(f)
      PROVE  job' = job \/ Finish(f) \/ Throw(f)
  BY <1>2
  DEF Continue, AwaitFails, processSettlement, submitSettlement, writeContract, recordSubmission,
      reconcileSettlement, getSettlementReceipt, markConfirmed, markSettlementFailed,
      readSettledBalance, syncSettledBalance, NextItem
<1>3. ASSUME NEW r \in Settlements, AddJob(r)
      PROVE  job'[s] = job[s] \/ job[s].st # "active"
  <2>1. job[r].st # "active"
    BY <1>3 DEF AddJob, BridgeInv, JobOK
  <2> QED
    BY <1>0, <1>3, <2>1 DEF AddJob
<1>4. ASSUME NEW f \in Slots, NEW r \in Settlements, TakeJob(f, r)
      PROVE  job'[s] = job[s] \/ job[s].st # "active"
  BY <1>4, TakeEffect
<1>5. ASSUME NEW r \in Settlements, RecoverStalledJob(r)
      PROVE  job'[s] = job[s] \/ fibre[job[s].holder].s # s
  BY <1>0, <1>5 DEF RecoverStalledJob
<1>6. \/ job' = job
      \/ \E r \in Settlements : AddJob(r) \/ RecoverStalledJob(r)
      \/ \E f \in Slots, r \in Settlements : TakeJob(f, r)
      \/ \E f \in Fibres : Continue(f) \/ AwaitFails(f)
  BY DEF Next, Request, queueSettlementRequest, Commit, Abort, LoseLock, Start,
     reconcileSubmittedSettlements, syncAllWallets, Mine, Drop, Crash, OthersUseVault, vars
<1> QED
  BY <1>1, <1>2, <1>3, <1>4, <1>5, <1>6

---------------------------------------------------------------------------
(* The owner of a settlement.                                              *)

\* A step keeps a settlement with the one slot that works on it.
LEMMA OwnsStep ==
    ASSUME ~LocksMayExpire, BridgeInv, OwnerInv, [Next]_vars, NEW f \in Slots
    PROVE  OwnsJob(f)'
<1>1. f \in Fibres /\ f # "nobody" /\ OwnsJob(f)
  BY BridgeAssumption DEF Fibres, OwnerInv
<1>2. fibre[f].s # 0 => fibre[f].s \in Settlements
  BY <1>1 DEF BridgeInv, Typed, FibreType
<1>3. ASSUME fibre'[f].s = fibre[f].s, fibre[f].s # 0
      PROVE  job'[fibre[f].s].holder = f
  <2>1. job[fibre[f].s].holder = f /\ job[fibre[f].s].st = "active"
    BY <1>1, <1>2, <1>3 DEF OwnsJob, BridgeInv, JobOK
  <2> QED
    BY <1>2, <1>3, <2>1, JobMoves
<1> QED
  BY <1>1, <1>3, FibreMoves DEF Stays, Leaves, Takes, Tries, Reads, Syncs, OwnsJob

\* Two slots are never at work on one settlement.
LEMMA OneOwner ==
    ASSUME OwnerInv, NEW f \in Slots, NEW g \in Slots, fibre[f].s = fibre[g].s, fibre[f].s # 0
    PROVE  f = g
BY DEF OwnerInv, OwnsJob

\* A hash on record stays, no transaction of its settlement follows, and a
\* verdict is final.
LEMMA RecordKept ==
    ASSUME BridgeInv, OwnerInv, [Next]_vars, NEW s \in Settlements, row[s].hash # 0
    PROVE  /\ row'[s].hash = row[s].hash
           /\ TxsOf(s)' = TxsOf(s)
           /\ row[s].status \in {"CONFIRMED", "FAILED"} => row'[s].status = row[s].status
<1>1. RowOK(s) /\ VerdictOf(s) /\ row[s] \in RowType
  BY DEF BridgeInv, Typed, OwnerInv
<1>2. Committed(s) /\ row[s].status \notin {"NONE", "PENDING"}
  BY <1>1 DEF RowOK, Committed, InTransaction, BridgeInv, Typed
<1>3. ASSUME NEW f \in Slots, fibre[f].s = s, fibre[f].pc \in {"broadcast", "record"}
      PROVE  FALSE
  BY <1>2, <1>3 DEF OwnerInv, BeforeRecord
<1>4. TxsOf(s)' = TxsOf(s)
  BY <1>3, TxsMove
<1>5. ASSUME NEW f \in Fibres, fibre[f].s = s, fibre[f].pc \in {"confirm", "fail"}
      PROVE  /\ fibre[f].pc = "confirm" => txs[row[s].hash].st = "confirmed"
             /\ fibre[f].pc = "fail" => txs[row[s].hash].st = "reverted"
  BY <1>5 DEF OwnerInv, AfterRead, BridgeInv, FibreOK
<1> QED
  BY <1>1, <1>2, <1>3, <1>4, <1>5, RowMoves DEF VerdictOf

\* A step keeps what is true of a settlement before its hash is on record.
LEMMA BeforeRecordStep ==
    ASSUME ~LocksMayExpire, BridgeInv, OwnerInv, [Next]_vars, NEW f \in Slots
    PROVE  BeforeRecord(f)'
<1>1. f \in Fibres /\ BeforeRecord(f) /\ OwnsJob(f) /\ FibreOK(f) /\ Typed
  BY DEF Fibres, OwnerInv, BridgeInv
<1>2. CASE Stays(f) /\ fibre[f].pc \in {"submit", "broadcast", "record"}
  <2>1. PICK s \in Settlements : s = fibre[f].s /\ s = fibre'[f].s
    BY <1>1, <1>2 DEF Stays, FibreOK, JobSteps, Typed, FibreType
  <2>2. row[s].status = "PENDING" /\ Committed(s) /\ s # 0 /\ RowOK(s)
    BY <1>1, <1>2, <2>1, Basics DEF BeforeRecord, FibreOK, TxSteps, BridgeInv
  <2>3. ASSUME NEW g \in Slots, fibre[g].s = s
        PROVE  g = f
    BY <2>1, <2>2, <2>3, OneOwner
  <2>4. ASSUME NEW g \in Fibres, fibre[g].s = s
        PROVE  fibre[g].pc \notin {"confirm", "fail"}
    BY <2>2, <2>4 DEF BridgeInv, FibreOK, RowOK
  <2>5. row'[s].status = "PENDING"
    <3>1. ASSUME NEW g \in Slots, fibre[g].s = s
          PROVE  ~(fibre[g].pc = "record" /\ fibre'[g].pc = "reconcile")
      BY <1>2, <2>3, <3>1 DEF Stays
    <3> QED
      BY <2>2, <2>4, <3>1, RowMoves
  <2>6. fibre[f].pc = "record" => TxsOf(s)' = TxsOf(s)
    BY <2>3, TxsMove
  <2>7. fibre[f].pc = "record" => \A h : h = fibre[f].hash => IsLastOf(h, s)'
    BY <1>1, <2>1, <2>6 DEF BeforeRecord, IsLastOf
  <2> QED
    BY <1>2, <2>1, <2>5, <2>7 DEF BeforeRecord, Stays
<1>3. CASE Tries(f)
  <2>1. PICK s \in Settlements : s = fibre[f].s /\ s = fibre'[f].s
    BY <1>3 DEF Tries
  <2>2. row'[s].status = "PENDING"
    BY <1>1, <1>3, <2>1 DEF Tries, BeforeRecord
  <2>3. ASSUME fibre'[f].pc = "record", NEW h, h = Len(txs) + 1
        PROVE  IsLastOf(h, s)'
    <3>1. TxsOf(s)' = TxsOf(s) \cup {h}
      BY <1>3, <2>1, <2>3 DEF Tries, TxsOf
    <3>2. \A k \in TxsOf(s) : k <= h
      BY <1>1, <2>3 DEF TxsOf, Typed
    <3> QED
      BY <1>1, <2>3, <3>1, <3>2 DEF IsLastOf, Typed
  <2> QED
    BY <1>3, <2>1, <2>2, <2>3 DEF Tries, BeforeRecord
<1>4. CASE fibre'[f].pc \notin {"submit", "broadcast", "record"}
  BY <1>4 DEF BeforeRecord
<1> QED
  BY <1>1, <1>2, <1>3, <1>4, FibreMoves DEF Stays, Leaves, Takes, Reads, Syncs

\* A step keeps what a reconciling fibre has read of the chain.
LEMMA AfterReadStep ==
    ASSUME BridgeInv, OwnerInv, [Next]_vars, NEW f \in Fibres
    PROVE  AfterRead(f)'
<1>1. AfterRead(f) /\ FibreOK(f) /\ Typed
  BY DEF OwnerInv, BridgeInv
<1>2. CASE Stays(f) /\ fibre[f].pc \in {"receipt", "confirm", "fail"}
  <2>1. fibre[f].s \in Settlements /\ row[fibre[f].s].hash # 0
    BY <1>1, <1>2 DEF FibreOK, TxSteps, Typed, FibreType
  <2>2. row'[fibre[f].s].hash = row[fibre[f].s].hash
    BY <2>1, RecordKept
  <2> QED
    BY <1>1, <1>2, <2>2 DEF AfterRead, Stays
<1>3. CASE Reads(f)
  BY <1>1, <1>3 DEF Reads, AfterRead
<1>4. CASE fibre'[f].pc \notin {"receipt", "confirm", "fail"}
  BY <1>4 DEF AfterRead
<1> QED
  BY <1>2, <1>3, <1>4, FibreMoves DEF Stays, Leaves, Takes, Tries, Syncs

\* A verdict, once recorded, stays that of the recorded transaction.
LEMMA VerdictStep ==
    ASSUME BridgeInv, OwnerInv, [Next]_vars, NEW s \in Settlements
    PROVE  VerdictOf(s)'
<1>1. VerdictOf(s) /\ RowOK(s) /\ Grows /\ Typed
  BY GrowsStep DEF OwnerInv, BridgeInv
<1>2. CASE row[s].hash # 0
  <2>1. /\ row'[s].hash = row[s].hash /\ row[s].hash \in DOMAIN txs
        /\ TxsOf(s)' = TxsOf(s)
    BY <1>1, <1>2, RecordKept DEF RowOK
  <2>2. IsLastOf(row[s].hash, s)
    BY <1>1, <1>2 DEF VerdictOf
  <2>3. (row[s].hash # 0 => IsLastOf(row[s].hash, s))'
    BY <2>1, <2>2 DEF IsLastOf
  <2>4. /\ row'[s].status = "CONFIRMED" => txs[row[s].hash].st = "confirmed"
        /\ row'[s].status = "FAILED" => txs[row[s].hash].st = "reverted"
    <3>1. ASSUME NEW f \in Fibres, fibre[f].s = s, fibre[f].pc \in {"confirm", "fail"}
          PROVE  /\ fibre[f].pc = "confirm" => txs[row[s].hash].st = "confirmed"
                 /\ fibre[f].pc = "fail" => txs[row[s].hash].st = "reverted"
      BY <3>1 DEF OwnerInv, AfterRead, BridgeInv, FibreOK
    <3> QED
      BY <1>1, <3>1, RowMoves DEF VerdictOf
  <2> QED
    BY <1>1, <2>1, <2>3, <2>4 DEF VerdictOf, Grows
<1>3. CASE row[s].hash = 0
  <2>1. row[s].status \in {"NONE", "PENDING"}
    BY <1>1, <1>3 DEF RowOK
  <2>2. ASSUME NEW f \in Fibres, fibre[f].s = s
        PROVE  fibre[f].pc \notin {"confirm", "fail"}
    BY <1>3, <2>2 DEF BridgeInv, FibreOK
  <2>3. ASSUME NEW f \in Slots, fibre[f].pc = "record", fibre[f].s = s,
               row'[s].status = "SUBMITTED", row'[s].hash = fibre[f].hash
        PROVE  VerdictOf(s)'
    <3>1. s # 0 /\ IsLastOf(fibre[f].hash, s)
      BY <2>3, Basics DEF OwnerInv, BeforeRecord
    <3>2. TxsOf(s)' = TxsOf(s)
      BY <2>3, <3>1, OneOwner, TxsMove
    <3>3. (row[s].hash # 0 => IsLastOf(row[s].hash, s))'
      BY <2>3, <3>1, <3>2 DEF IsLastOf
    <3> QED
      BY <2>3, <3>3 DEF VerdictOf
  <2> QED
    BY <1>3, <2>1, <2>2, <2>3, RowMoves DEF VerdictOf
<1> QED
  BY <1>2, <1>3

\* Transactions are mined in the order of their nonces.
LEMMA OrderStep == BridgeInv /\ InOrder /\ [Next]_vars => InOrder'
<1> SUFFICES ASSUME BridgeInv, InOrder, [Next]_vars
             PROVE  InOrder'
  OBVIOUS
<1> USE DEF contract, engine
<1>0. txs \in Seq(TxType)
  BY DEF BridgeInv, Typed
<1>1. ASSUME NEW f \in Fibres, txs' = Append(txs, NewTx(fibre[f].s))
      PROVE  InOrder'
  <2>1. /\ DOMAIN txs' = DOMAIN txs \cup {Len(txs) + 1}
        /\ txs'[Len(txs) + 1].st = "mempool"
        /\ \A i \in DOMAIN txs : txs'[i] = txs[i] /\ i < Len(txs) + 1
    BY <1>0, <1>1 DEF NewTx
  <2> QED
    BY <1>0, <2>1 DEF InOrder
<1>2. ASSUME NEW i \in DOMAIN txs, NEW st \in {"confirmed", "reverted", "dropped"},
             txs' = [txs EXCEPT ![i].st = st],
             st # "dropped" => \A k \in 1..(i - 1) : ~InMempool(k)
      PROVE  InOrder'
  <2>1. txs[i] \in TxType
    BY <1>0
  <2>2. [txs[i] EXCEPT !.st = st].st = st
    BY <2>1 DEF TxType
  <2>3. /\ DOMAIN txs' = DOMAIN txs
        /\ \A k \in DOMAIN txs : txs'[k].st = IF k = i THEN st ELSE txs[k].st
    BY <1>0, <1>2, <2>2
  <2>4. \A k \in DOMAIN txs : k < i => k \in 1..(i - 1)
    BY <1>0
  <2> QED
    BY <1>0, <1>2, <2>3, <2>4 DEF InOrder, InMempool
<1>3. ASSUME NEW i \in DOMAIN txs, Mine(i) \/ Drop(i)
      PROVE  InOrder'
  BY <1>2, <1>3 DEF Mine, Drop
<1>4. ASSUME NEW f \in Fibres, Continue(f)
      PROVE  txs' = txs \/ txs' = Append(txs, NewTx(fibre[f].s))
  BY <1>4 DEF Continue, processSettlement, submitSettlement, writeContract, recordSubmission,
     reconcileSettlement, getSettlementReceipt, markConfirmed, markSettlementFailed,
     readSettledBalance, syncSettledBalance, NextItem
<1>5. \/ txs' = txs
      \/ \E f \in Fibres : Continue(f)
      \/ \E i \in DOMAIN txs : Mine(i) \/ Drop(i)
  BY DEF Next, Request, queueSettlementRequest, AddJob, Commit, Abort, RecoverStalledJob, LoseLock,
     TakeJob, Start, reconcileSubmittedSettlements, syncAllWallets, AwaitFails, Crash,
     OthersUseVault, vars
<1>6. CASE txs' = txs
  BY <1>6 DEF InOrder
<1> QED
  BY <1>1, <1>3, <1>4, <1>5, <1>6

\* OwnerInv is inductive, beside BridgeInv.
LEMMA OwnerStep ==
    ASSUME ~LocksMayExpire
    PROVE  BridgeInv /\ OwnerInv /\ [Next]_vars => OwnerInv'
<1> SUFFICES ASSUME BridgeInv, OwnerInv, [Next]_vars
             PROVE  OwnerInv'
  OBVIOUS
<1>1. \A f \in Slots : OwnsJob(f)' /\ BeforeRecord(f)'
  BY OwnsStep, BeforeRecordStep
<1>2. \A f \in Fibres : AfterRead(f)'
  BY AfterReadStep
<1>3. \A s \in Settlements : VerdictOf(s)'
  BY VerdictStep
<1>4. InOrder'
  BY OrderStep DEF OwnerInv
<1> QED
  BY <1>1, <1>2, <1>3, <1>4 DEF OwnerInv

\* OwnerInv holds at first.
LEMMA OwnerStart == Init => OwnerInv
<1> SUFFICES ASSUME Init
             PROVE  OwnerInv
  OBVIOUS
<1>1. \A f \in Fibres : fibre[f].s = 0 /\ fibre[f].pc = "idle"
  BY Basics DEF Init
<1>2. \A s \in Settlements : row[s].hash = 0 /\ row[s].status = "NONE"
  BY Basics DEF Init
<1>3. DOMAIN txs = {}
  BY DEF Init
<1> QED
  BY <1>1, <1>2, <1>3 DEF OwnerInv, OwnsJob, BeforeRecord, AfterRead, VerdictOf, InOrder, Fibres

\* While job locks do not expire, the slot at work on a settlement is the only
\* one, and the last transaction it sent is the one on record.
THEOREM OwnersAreAlone ==
    ASSUME ~LocksMayExpire
    PROVE  Spec => [](BridgeInv /\ OwnerInv)
<1>1. BridgeInv /\ OwnerInv /\ [Next]_vars => OwnerInv'
  BY OwnerStep
<1> QED
  BY <1>1, OwnerStart, BridgeIsSound, PTL DEF Spec

\* The verdict of a row is the fate of the transaction it names, with any
\* number of slots, ticks and polls, while job locks do not expire.
THEOREM VerdictIsTrue ==
    ASSUME ~LocksMayExpire
    PROVE  Spec => []VerdictMatchesRecordedTx
<1>1. OwnerInv => VerdictMatchesRecordedTx
  BY DEF OwnerInv, VerdictOf, VerdictMatchesRecordedTx
<1> QED
  BY <1>1, OwnersAreAlone, PTL

\* A hash on record is not replaced, no transaction is sent for its settlement
\* any more, and a verdict is not changed, while job locks do not expire.
THEOREM RecordsAreFinal ==
    ASSUME ~LocksMayExpire
    PROVE  Spec => RecordIsFinal
<1>1. BridgeInv /\ OwnerInv /\ [Next]_vars =>
         [\A s \in Settlements :
             /\ row[s].hash # 0 => row'[s].hash = row[s].hash /\ TxsOf(s)' = TxsOf(s)
             /\ row[s].status \in {"CONFIRMED", "FAILED"} => row'[s] = row[s]]_vars
  <2> SUFFICES ASSUME BridgeInv, OwnerInv, [Next]_vars, NEW s \in Settlements
               PROVE  /\ row[s].hash # 0 => row'[s].hash = row[s].hash /\ TxsOf(s)' = TxsOf(s)
                      /\ row[s].status \in {"CONFIRMED", "FAILED"} => row'[s] = row[s]
    OBVIOUS
  <2>1. row[s].hash # 0 => row'[s].hash = row[s].hash /\ TxsOf(s)' = TxsOf(s)
    BY RecordKept
  <2>2. ASSUME row[s].status \in {"CONFIRMED", "FAILED"}
        PROVE  row'[s] = row[s]
    <3>1. /\ row[s].hash # 0 /\ Committed(s) /\ Grows
          /\ row[s] \in RowType /\ row'[s] \in RowType
      BY <2>2, GrowsStep, TypedStep DEF BridgeInv, Typed, RowOK, Committed, InTransaction
    <3>2. /\ row'[s].status = row[s].status /\ row'[s].hash = row[s].hash
          /\ row'[s].pnl = row[s].pnl /\ row'[s].position = row[s].position
      BY <2>2, <3>1, RecordKept DEF Grows
    <3> QED
      BY <3>1, <3>2 DEF RowType
  <2> QED
    BY <2>1, <2>2
<1> QED
  BY <1>1, OwnersAreAlone, PTL DEF Spec, RecordIsFinal

---------------------------------------------------------------------------
(* Rows, jobs and transactions implement Clearing.                         *)

\* The transactions that have applied settlement s.
Succeeded(s) == {i \in TxsOf(s) : txs[i].st = "confirmed"}

\* The two variables of Clearing as functions over the settlements.
Verdicts == [s \in Settlements |-> Verdict(s)]
Counts   == [s \in Settlements |-> Cardinality(Succeeded(s))]

\* What a transaction of s that did not succeed leaves for those that did.
LEMMA OthersFailed ==
    ASSUME BridgeInv, RetriesNeedFailures, NEW s \in Settlements, NEW i \in TxsOf(s),
           txs[i].st # "confirmed"
    PROVE  /\ IsFiniteSet(Succeeded(s))
           /\ Cardinality(Succeeded(s)) \in Nat
           /\ Cardinality(Succeeded(s)) <= faults
<1>1. /\ IsFiniteSet(TxsOf(s)) /\ Cardinality(TxsOf(s)) \in Nat /\ faults \in Nat
      /\ Cardinality(TxsOf(s)) <= 1 + faults
  BY CountsAreFinite DEF BridgeInv, RetriesNeedFailures
<1>2. IsFiniteSet(TxsOf(s) \ {i}) /\ Cardinality(TxsOf(s) \ {i}) = Cardinality(TxsOf(s)) - 1
  BY <1>1, FS_RemoveElement
<1>3. Succeeded(s) \subseteq TxsOf(s) \ {i}
  BY DEF Succeeded
<1>4. IsFiniteSet(Succeeded(s)) /\ Cardinality(Succeeded(s)) <= Cardinality(TxsOf(s) \ {i})
  BY <1>2, <1>3, FS_Subset
<1> QED
  BY <1>1, <1>2, <1>4, FS_CardinalityType

\* A transaction that is still to be mined is of a settlement without verdict.
LEMMA PendingIsDue ==
    ASSUME BridgeInv, OwnerInv, NEW i \in DOMAIN txs, InMempool(i)
    PROVE  txs[i].s \in Settlements /\ i \in TxsOf(txs[i].s) /\ Verdict(txs[i].s) = "due"
<1>1. txs[i] \in TxType /\ TxOK(i)
  BY DEF BridgeInv, Typed
<1>2. PICK s \in Settlements : s = txs[i].s /\ Committed(s) /\ i \in TxsOf(s)
  BY <1>1 DEF TxType, TxOK, TxsOf
<1>3. row[s].status \notin {"CONFIRMED", "FAILED"}
  <2>1. SUFFICES ASSUME row[s].status \in {"CONFIRMED", "FAILED"}
                 PROVE  FALSE
    OBVIOUS
  <2>2. /\ row[s].hash \in DOMAIN txs /\ i <= row[s].hash
        /\ txs[row[s].hash].st \in {"confirmed", "reverted"}
    BY <1>2, <2>1 DEF BridgeInv, RowOK, OwnerInv, VerdictOf, IsLastOf
  <2>3. i # row[s].hash
    BY <2>2 DEF InMempool
  <2>4. i < row[s].hash
    BY <2>2, <2>3 DEF BridgeInv, Typed
  <2> QED
    BY <2>2, <2>4 DEF OwnerInv, InOrder, InMempool
<1> QED
  BY <1>2, <1>3 DEF Verdict

\* No step but a successful settle call changes what the vault has applied.
LEMMA SucceededMove ==
    ASSUME BridgeInv, [Next]_vars, NEW s \in Settlements
    PROVE  \/ Succeeded(s)' = Succeeded(s)
           \/ \E i \in DOMAIN txs : /\ Mine(i) /\ InMempool(i) /\ txs[i].s = s
                                    /\ Succeeded(s)' = Succeeded(s) \cup {i}
<1> USE DEF contract, engine
<1>0. txs \in Seq(TxType)
  BY DEF BridgeInv, Typed
<1>1. ASSUME NEW f \in Fibres, txs' = Append(txs, NewTx(fibre[f].s))
      PROVE  Succeeded(s)' = Succeeded(s)
  <2>1. /\ DOMAIN txs' = DOMAIN txs \cup {Len(txs) + 1}
        /\ txs'[Len(txs) + 1].st = "mempool"
        /\ \A i \in DOMAIN txs : txs'[i] = txs[i]
    BY <1>0, <1>1 DEF NewTx
  <2> QED
    BY <2>1 DEF Succeeded, TxsOf
<1>2. ASSUME NEW i \in DOMAIN txs, NEW st \in {"confirmed", "reverted", "dropped"},
             txs' = [txs EXCEPT ![i].st = st], InMempool(i)
      PROVE  \/ Succeeded(s)' = Succeeded(s)
             \/ st = "confirmed" /\ txs[i].s = s /\ Succeeded(s)' = Succeeded(s) \cup {i}
  <2>1. txs[i] \in TxType
    BY <1>0
  <2>2. [txs[i] EXCEPT !.st = st].st = st /\ [txs[i] EXCEPT !.st = st].s = txs[i].s
    BY <2>1 DEF TxType
  <2>3. /\ DOMAIN txs' = DOMAIN txs
        /\ \A k \in DOMAIN txs : /\ txs'[k].st = IF k = i THEN st ELSE txs[k].st
                                 /\ txs'[k].s = txs[k].s
    BY <1>0, <1>2, <2>2
  <2>4. CASE st = "confirmed" /\ txs[i].s = s
    BY <1>2, <2>3, <2>4 DEF Succeeded, TxsOf, InMempool
  <2>5. CASE ~(st = "confirmed" /\ txs[i].s = s)
    BY <1>2, <2>3, <2>5 DEF Succeeded, TxsOf, InMempool
  <2> QED
    BY <2>4, <2>5
<1>3. ASSUME NEW i \in DOMAIN txs, Mine(i) \/ Drop(i)
      PROVE  \/ Succeeded(s)' = Succeeded(s)
             \/ Mine(i) /\ txs[i].s = s /\ Succeeded(s)' = Succeeded(s) \cup {i}
  BY <1>2, <1>3 DEF Mine, Drop
<1>4. ASSUME NEW f \in Fibres, Continue(f)
      PROVE  txs' = txs \/ txs' = Append(txs, NewTx(fibre[f].s))
  BY <1>4 DEF Continue, processSettlement, submitSettlement, writeContract, recordSubmission,
     reconcileSettlement, getSettlementReceipt, markConfirmed, markSettlementFailed,
     readSettledBalance, syncSettledBalance, NextItem
<1>5. \/ txs' = txs
      \/ \E f \in Fibres : Continue(f)
      \/ \E i \in DOMAIN txs : Mine(i) \/ Drop(i)
  BY DEF Next, Request, queueSettlementRequest, AddJob, Commit, Abort, RecoverStalledJob, LoseLock,
     TakeJob, Start, reconcileSubmittedSettlements, syncAllWallets, AwaitFails, Crash,
     OthersUseVault, vars
<1>6. CASE txs' = txs
  BY <1>6 DEF Succeeded, TxsOf
<1> QED
  BY <1>1, <1>3, <1>4, <1>5, <1>6 DEF Mine

\* No step but a commit and the two verdicts changes what a row stands for.
LEMMA VerdictKept ==
    ASSUME BridgeInv, OwnerInv, [Next]_vars, NEW s \in Settlements,
           \A r \in Settlements : ~Commit(r),
           \A f \in Fibres : ~markConfirmed(f) /\ ~markSettlementFailed(f)
    PROVE  Verdict(s)' = Verdict(s)
<1> USE DEF contract, engine
<1>0. row \in [Settlements -> RowType] /\ request \in [Settlements -> {"none", "created", "queued", "done"}]
  BY DEF BridgeInv, Typed
<1>1. CASE row' = row /\ request' = request
  BY <1>1 DEF Verdict, Committed
<1>2. ASSUME NEW r \in Settlements, Request(r)
      PROVE  Verdict(s)' = Verdict(s)
  <2>1. CASE \E p \in Positions, pnl \in Pnls : queueSettlementRequest(r, p, pnl)
    BY <1>0, <2>1 DEF queueSettlementRequest, Verdict, Committed
  <2>2. CASE AddJob(r)
    BY <1>0, <2>2 DEF AddJob, Verdict, Committed
  <2>3. CASE Abort(r)
    BY <1>0, <2>3, Basics DEF Abort, Verdict, Committed, InTransaction
  <2> QED
    BY <1>2, <2>1, <2>2, <2>3 DEF Request
<1>3. ASSUME NEW f \in Fibres, recordSubmission(f)
      PROVE  Verdict(s)' = Verdict(s)
  <2>1. /\ fibre[f].s \in Settlements /\ f \in Slots /\ fibre[f].hash \in Nat
        /\ row[fibre[f].s].status = "PENDING"
    BY <1>3 DEF recordSubmission, At, BridgeInv, Typed, FibreType, FibreOK, JobSteps, OwnerInv,
       BeforeRecord
  <2>2. request' = request
    BY <1>3 DEF recordSubmission
  <2> QED
    BY <1>3, <2>1, <2>2, RecordEffect DEF recordSubmission, Verdict, Committed
<1>4. ASSUME NEW f \in Fibres, Continue(f)
      PROVE  (row' = row /\ request' = request) \/ recordSubmission(f)
  BY <1>4 DEF Continue, processSettlement, submitSettlement, writeContract, reconcileSettlement,
     getSettlementReceipt, readSettledBalance, syncSettledBalance, NextItem
<1>5. \/ row' = row /\ request' = request
      \/ \E r \in Settlements : Request(r)
      \/ \E f \in Fibres : Continue(f)
  BY DEF Next, RecoverStalledJob, LoseLock, TakeJob, Start, reconcileSubmittedSettlements,
     syncAllWallets, AwaitFails, Mine, Drop, Crash, OthersUseVault, vars
<1> QED
  BY <1>1, <1>2, <1>3, <1>4, <1>5

\* Failures are counted one by one.
LEMMA FaultsMove ==
    ASSUME [Next]_vars
    PROVE  faults' \in {faults, faults + 1}
<1>1. ASSUME NEW f \in Fibres, Continue(f)
      PROVE  faults' \in {faults, faults + 1}
  BY <1>1 DEF Continue, processSettlement, submitSettlement, writeContract, recordSubmission,
     reconcileSettlement, getSettlementReceipt, markConfirmed, markSettlementFailed,
     readSettledBalance, syncSettledBalance, NextItem, Fault
<1>2. \/ \E f \in Fibres : Continue(f)
      \/ faults' \in {faults, faults + 1}
  BY DEF Next, Request, queueSettlementRequest, AddJob, Commit, Abort, RecoverStalledJob, LoseLock,
     TakeJob, Start, reconcileSubmittedSettlements, syncAllWallets, AwaitFails, Mine, Drop, Crash,
     OthersUseVault, vars, Fault
<1> QED
  BY <1>1, <1>2

\* Every step is one that Clearing allows, or changes nothing it sees.
LEMMA ClearingStep ==
    BridgeInv /\ OwnerInv /\ RetriesNeedFailures /\ [Next]_vars
        => [Promise!ClearingNext]_(Promise!cvars)
<1> SUFFICES ASSUME BridgeInv, OwnerInv, RetriesNeedFailures, [Next]_vars
             PROVE  [Promise!ClearingNext]_(Promise!cvars)
  OBVIOUS
<1> USE DEF contract, engine
<1>0. UNCHANGED <<Verdicts, Counts, faults>> => UNCHANGED Promise!cvars
  BY DEF Promise!cvars, Verdicts, Counts, Succeeded
<1>1. CASE UNCHANGED <<Verdicts, Counts>>
  <2>1. CASE faults' = faults
    BY <1>0, <1>1, <2>1
  <2>2. CASE faults' = faults + 1
    <3>1. Promise!Mishap
      BY <1>1, <2>2 DEF Promise!Mishap, Verdicts, Counts, Succeeded
    <3> QED
      BY <3>1 DEF Promise!ClearingNext
  <2> QED
    BY <2>1, <2>2, FaultsMove
<1>2. ASSUME NEW s \in Settlements, Verdict(s) = "none", UNCHANGED <<Counts, faults>>,
             Verdicts' = [Verdicts EXCEPT ![s] = "due"]
      PROVE  Promise!Order(s)
  BY <1>2 DEF Promise!Order, Verdicts, Counts, Succeeded
<1>3. ASSUME NEW s \in Settlements, Verdict(s) = "due", UNCHANGED <<Verdicts, faults>>,
             Counts[s] <= faults, Counts' = [Counts EXCEPT ![s] = Counts[s] + 1]
      PROVE  Promise!Apply(s)
  BY <1>3 DEF Promise!Apply, Verdicts, Counts, Succeeded
<1>4. ASSUME NEW s \in Settlements, Verdict(s) = "due", UNCHANGED <<Counts, faults>>,
             Counts[s] > 0, Verdicts' = [Verdicts EXCEPT ![s] = "done"]
      PROVE  Promise!Confirm(s)
  BY <1>4 DEF Promise!Confirm, Verdicts, Counts, Succeeded
<1>5. ASSUME NEW s \in Settlements, Verdict(s) = "due", UNCHANGED <<Counts, faults>>,
             Counts[s] <= faults, Verdicts' = [Verdicts EXCEPT ![s] = "refused"]
      PROVE  Promise!Refuse(s)
  BY <1>5 DEF Promise!Refuse, Verdicts, Counts, Succeeded
<1>6. ASSUME NEW s \in Settlements, NEW v, Verdict(s)' = v,
             \A t \in Settlements \ {s} : Verdict(t)' = Verdict(t)
      PROVE  Verdicts' = [Verdicts EXCEPT ![s] = v]
  BY <1>6 DEF Verdicts, Settlements
<1>7. ASSUME \A s \in Settlements : Verdict(s)' = Verdict(s)
      PROVE  Verdicts' = Verdicts
  BY <1>7 DEF Verdicts, Settlements
<1>8. ASSUME \A s \in Settlements : Succeeded(s)' = Succeeded(s)
      PROVE  Counts' = Counts
  BY <1>8 DEF Counts, Settlements
<1>9. ASSUME ~\E i \in DOMAIN txs : Mine(i)
      PROVE  Counts' = Counts
  BY <1>8, <1>9, SucceededMove
<1>10. ASSUME NEW s \in Settlements, Commit(s)
       PROVE  Promise!Order(s)
  <2>1. UNCHANGED <<row, faults, txs>> /\ request' = [request EXCEPT ![s] = "done"]
    BY <1>10 DEF Commit
  <2>2. row[s].status = "PENDING" /\ request[s] = "queued" /\ request'[s] = "done"
    BY <1>10, <2>1 DEF Commit, BridgeInv, Typed, RowOK, InTransaction
  <2>3. Verdict(s) = "none" /\ Verdict(s)' = "due"
    BY <2>1, <2>2 DEF Verdict, Committed
  <2>4. \A t \in Settlements \ {s} : Verdict(t)' = Verdict(t)
    BY <2>1 DEF Verdict, Committed, BridgeInv, Typed
  <2>5. Counts' = Counts
    BY <2>1, <1>8 DEF Succeeded, TxsOf
  <2> QED
    BY <1>2, <1>6, <2>1, <2>3, <2>4, <2>5
<1>11. ASSUME NEW f \in Fibres, markConfirmed(f) \/ markSettlementFailed(f)
       PROVE  [Promise!ClearingNext]_(Promise!cvars)
  <2>1. PICK s \in Settlements : s = fibre[f].s
    BY <1>11 DEF markConfirmed, markSettlementFailed, At, BridgeInv, Typed, FibreType, FibreOK, TxSteps
  <2>2. PICK status \in {"CONFIRMED", "FAILED"} :
           /\ row' = [row EXCEPT ![s].status = status]
           /\ fibre[f].pc = IF status = "CONFIRMED" THEN "confirm" ELSE "fail"
    BY <1>11, <2>1 DEF markConfirmed, markSettlementFailed, At
  <2>3. /\ UNCHANGED <<request, faults, txs>>
        /\ \A t \in Settlements \ {s} : row'[t] = row[t]
        /\ row'[s].status = status
    BY <1>11, <2>2, StatusEffect DEF markConfirmed, markSettlementFailed, Statuses
  <2>4. /\ Committed(s) /\ row[s].hash # 0 /\ row[s].hash \in TxsOf(s)
        /\ row[s].status \in {"SUBMITTED", "CONFIRMED", "FAILED"}
        /\ txs[row[s].hash].st = IF status = "CONFIRMED" THEN "confirmed" ELSE "reverted"
    <3>1. /\ Committed(s) /\ row[s].hash # 0 /\ fibre[f].hash = row[s].hash
          /\ txs[row[s].hash].st = IF status = "CONFIRMED" THEN "confirmed" ELSE "reverted"
      BY <2>1, <2>2 DEF BridgeInv, FibreOK, TxSteps, OwnerInv, AfterRead
    <3>2. row[s] \in RowType /\ RowOK(s) /\ VerdictOf(s)
      BY DEF BridgeInv, Typed, OwnerInv
    <3> QED
      BY <3>1, <3>2 DEF RowOK, RowType, Statuses, VerdictOf, IsLastOf
  <2>5. Counts' = Counts
    BY <2>3, <1>8 DEF Succeeded, TxsOf
  <2>6. /\ \A t \in Settlements \ {s} : Verdict(t)' = Verdict(t)
        /\ Verdict(s)' = IF status = "CONFIRMED" THEN "done" ELSE "refused"
    BY <2>3, <2>4 DEF Verdict, Committed
  <2>7. CASE row[s].status # "SUBMITTED"
    <3>1. row[s].status = status
      BY <2>4, <2>7 DEF OwnerInv, VerdictOf
    <3>2. Verdict(s)' = Verdict(s)
      BY <2>4, <2>6, <3>1 DEF Verdict
    <3> QED
      BY <1>1, <1>7, <2>5, <2>6, <3>2
  <2>8. CASE row[s].status = "SUBMITTED" /\ status = "CONFIRMED"
    <3>1. IsFiniteSet(Succeeded(s)) /\ row[s].hash \in Succeeded(s)
      <4>1. IsFiniteSet(TxsOf(s)) /\ Succeeded(s) \subseteq TxsOf(s)
        BY CountsAreFinite DEF BridgeInv, Succeeded
      <4> QED
        BY <2>4, <2>8, <4>1, FS_Subset DEF Succeeded
    <3>2. Cardinality(Succeeded(s)) \in Nat \ {0}
      BY <3>1, FS_CardinalityType, FS_EmptySet
    <3>3. Promise!Confirm(s)
      BY <1>4, <1>6, <2>3, <2>4, <2>5, <2>6, <2>8, <3>2 DEF Counts, Verdict
    <3> QED
      BY <3>3 DEF Promise!ClearingNext
  <2>9. CASE row[s].status = "SUBMITTED" /\ status = "FAILED"
    <3>1. Counts[s] <= faults
      BY <2>4, <2>9, OthersFailed DEF Counts
    <3>2. Promise!Refuse(s)
      BY <1>5, <1>6, <2>3, <2>4, <2>5, <2>6, <2>9, <3>1 DEF Verdict
    <3> QED
      BY <3>2 DEF Promise!ClearingNext
  <2> QED
    BY <2>4, <2>7, <2>8, <2>9
<1>12. ASSUME NEW i \in DOMAIN txs, Mine(i)
       PROVE  [Promise!ClearingNext]_(Promise!cvars)
  <2>1. UNCHANGED <<row, request, faults>> /\ InMempool(i)
    BY <1>12 DEF Mine
  <2>2. Verdicts' = Verdicts
    BY <1>7, <2>1 DEF Verdict, Committed
  <2>3. CASE \A s \in Settlements : Succeeded(s)' = Succeeded(s)
    BY <1>1, <1>8, <2>2, <2>3
  <2>4. ASSUME NEW s \in Settlements, Succeeded(s)' # Succeeded(s)
        PROVE  Promise!Apply(s)
    <3>1. ASSUME NEW k \in DOMAIN txs, Mine(k)
          PROVE  k = i
      <4>1. i \in Nat \ {0} /\ k \in Nat \ {0}
        BY DEF BridgeInv, Typed
      <4>2. /\ InMempool(i) /\ \A j \in 1..(i - 1) : ~InMempool(j)
            /\ InMempool(k) /\ \A j \in 1..(k - 1) : ~InMempool(j)
        BY <1>12, <3>1 DEF Mine
      <4>3. k \notin 1..(i - 1) /\ i \notin 1..(k - 1)
        BY <4>2
      <4> QED
        BY <4>1, <4>3
    <3>2. txs[i].s = s /\ Succeeded(s)' = Succeeded(s) \cup {i}
      BY <2>4, <3>1, SucceededMove
    <3>3. \A t \in Settlements \ {s} : Succeeded(t)' = Succeeded(t)
      BY <3>1, <3>2, SucceededMove
    <3>4. i \in TxsOf(s) /\ Verdict(s) = "due" /\ txs[i].st # "confirmed"
      BY <2>1, <3>2, PendingIsDue DEF InMempool
    <3>5. /\ IsFiniteSet(Succeeded(s)) /\ i \notin Succeeded(s)
          /\ Cardinality(Succeeded(s)) <= faults
      BY <3>4, OthersFailed DEF Succeeded
    <3>6. Cardinality(Succeeded(s)') = Cardinality(Succeeded(s)) + 1
      BY <3>2, <3>5, FS_AddElement
    <3>7. Counts' = [Counts EXCEPT ![s] = Counts[s] + 1] /\ Counts[s] <= faults
      BY <3>3, <3>5, <3>6 DEF Counts, Settlements
    <3> QED
      BY <1>3, <2>1, <2>2, <3>4, <3>7
  <2> QED
    BY <2>3, <2>4 DEF Promise!ClearingNext
<1>13. CASE /\ \A s \in Settlements : ~Commit(s)
            /\ \A f \in Fibres : ~markConfirmed(f) /\ ~markSettlementFailed(f)
            /\ ~\E i \in DOMAIN txs : Mine(i)
  BY <1>1, <1>7, <1>9, <1>13, VerdictKept
<1> QED
  BY <1>10, <1>11, <1>12, <1>13 DEF Promise!ClearingNext

\* Rows, jobs and transactions implement the promise of Clearing: whatever the
\* order of jobs, ticks, crashes and retries, the vault moves again for a
\* settlement only after a failure and never after its verdict, "done" is said
\* only of what it applied, and "refused" of what it did not, failures aside.
THEOREM ClearingIsImplemented ==
    ASSUME ~LocksMayExpire
    PROVE  Spec => ImplementsClearing
<1>1. Init => Promise!ClearingInit
  <2> SUFFICES ASSUME Init
               PROVE  Promise!ClearingInit
    OBVIOUS
  <2>1. \A s \in Settlements : Verdict(s) = "none" /\ TxsOf(s) = {}
    BY Basics DEF Init, Verdict, Committed, TxsOf
  <2>2. \A s \in Settlements : {i \in TxsOf(s) : txs[i].st = "confirmed"} = {}
    BY <2>1
  <2>3. \A s \in Settlements : Cardinality({i \in TxsOf(s) : txs[i].st = "confirmed"}) = 0
    BY <2>2, FS_EmptySet
  <2> QED
    BY <2>1, <2>3 DEF Init, Promise!ClearingInit
<1>2. BridgeInv /\ OwnerInv /\ RetriesNeedFailures /\ [Next]_vars
          => [Promise!ClearingNext]_(Promise!cvars)
  BY ClearingStep
<1> QED
  BY <1>1, <1>2, OwnersAreAlone, RetriesAreFailures, PTL
  DEF Spec, ImplementsClearing, Promise!ClearingSpec
=============================================================================
