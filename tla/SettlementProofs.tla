-------------------------- MODULE SettlementProofs --------------------------
(***************************************************************************)
(* Proofs about SettlementBridge, for any users, positions, settlements,   *)
(* slots, ticks and polls, any deposits and PnLs, any limits and failures. *)
(*                                                                         *)
(* BridgeInv is inductive whether or not job locks expire: what a fibre    *)
(* holds was committed when it was read and names a transaction of its     *)
(* settlement.  BudgetInv counts, per settlement, its transactions and the *)
(* fibres and jobs that may still send one: only a failure adds to them.   *)
(* (ClearingProofs has what holds only while job locks do not expire.)     *)
(***************************************************************************)
EXTENDS SettlementBridge, FiniteSetTheorems, TLAPS

\* The types of rows, jobs, transactions and fibres.
RowType == [status : Statuses, position : Positions, pnl : Pnls \cup {0}, hash : Nat]
JobType == [st : {"none", "wait", "active", "completed", "failed"},
            attempts : 0..MaxAttempts, stalls : 0..2, holder : Slots \cup {"nobody"}]
TxType  == [s : Settlements, user : Users, pnl : Pnls,
            st : {"mempool", "confirmed", "reverted", "dropped"}]
FibreType == [pc : Steps, s : Settlements \cup {0}, u : Users \cup {0}, hash : Nat,
              balance : Nat, batch : SUBSET (Settlements \cup Users)]

\* The type of the state.
Typed ==
    /\ settledBalance \in [Users -> Nat]
    /\ row \in [Settlements -> RowType]
    /\ request \in [Settlements -> {"none", "created", "queued", "done"}]
    /\ job \in [Settlements -> JobType]
    /\ txs \in Seq(TxType)
    /\ fibre \in [Fibres -> FibreType]
    /\ mirror \in [Users -> Nat]
    /\ faults \in 0..MaxFaults

\* A row has a hash, of a transaction of its own, once it is past PENDING.
RowOK(s) ==
    /\ request[s] = "none" => row[s].status = "NONE"
    /\ InTransaction(s) => row[s].status = "PENDING"
    /\ row[s].status = "NONE" <=> row[s].pnl = 0
    /\ row[s].status \in {"NONE", "PENDING"} <=> row[s].hash = 0
    /\ row[s].hash # 0 => row[s].hash \in DOMAIN txs /\ txs[row[s].hash].s = s

\* A job has its slot while it is active, and attempts left while it is live.
JobOK(s) ==
    /\ request[s] \in {"none", "created"} => job[s].st = "none"
    /\ job[s].st = "none" => job[s].attempts = 0 /\ job[s].stalls = 0
    /\ job[s].st = "active" <=> job[s].holder # "nobody"
    /\ job[s].st \in {"wait", "active"} => job[s].attempts < MaxAttempts /\ job[s].stalls <= 1

\* A transaction carries what its settlement says.
TxOK(i) ==
    /\ Committed(txs[i].s)
    /\ txs[i].user = user(txs[i].s)
    /\ txs[i].pnl = row[txs[i].s].pnl

\* The steps of a fibre that works on a job, and those with a transaction's hash.
JobSteps == {"process", "submit", "broadcast", "record"}
TxSteps  == {"record", "receipt", "confirm", "fail"}

\* What fibre f holds, by the await it is at.
FibreOK(f) ==
    LET x == fibre[f]
    IN  /\ x.pc \in {"idle", "pick"} => x.s = 0
        /\ x.pc \in JobSteps => f \in Slots /\ x.s # 0
        /\ x.pc \in {"submit", "broadcast", "reconcile"} \cup TxSteps => x.s # 0 /\ Committed(x.s)
        /\ x.pc \in TxSteps => x.hash \in DOMAIN txs /\ txs[x.hash].s = x.s
        /\ x.pc \in {"receipt", "confirm", "fail"} => row[x.s].hash # 0
        /\ x.pc = "confirm" => txs[x.hash].st = "confirmed"
        /\ x.pc = "fail" => txs[x.hash].st = "reverted"
        /\ x.pc \in {"readBalance", "writeMirror"} => x.u # 0
        /\ f \in Slots => x.batch = {} /\ (x.s # 0 => job[x.s].st # "none")
        /\ f \in Ticks => \A s \in x.batch : s \in Settlements /\ Committed(s)
        /\ f \in Polls => x.batch \subseteq Users /\ x.s = 0
        /\ x.pc = "pick" => f \notin Slots
        /\ x.hash # 0 => x.hash \in DOMAIN txs

\* The inductive invariant.
BridgeInv ==
    /\ Typed
    /\ \A s \in Settlements : RowOK(s) /\ JobOK(s)
    /\ \A i \in DOMAIN txs : TxOK(i)
    /\ \A f \in Fibres : FibreOK(f)
    /\ ConfirmedIsOnChain

---------------------------------------------------------------------------
(* What may still send a transaction of a settlement.                      *)

\* The slots that are still to broadcast settlement s.
Senders(s) == {f \in Slots : fibre[f].s = s /\ fibre[f].pc \in {"process", "submit", "broadcast"}}

\* 1 if a job of settlement s waits to be taken, 0 otherwise.
Ready(s) ==
    IF job[s].st = "wait" \/ (job[s].st = "active" /\ fibre[job[s].holder].s # s) THEN 1 ELSE 0

\* The transactions of s, and those still to come, are paid for by failures.
Within(s) == Cardinality(TxsOf(s)) + Cardinality(Senders(s)) + Ready(s) <= 1 + faults

\* The inductive invariant of the retries.
BudgetInv == \A s \in Settlements : Within(s)

---------------------------------------------------------------------------
(* Typing.                                                                 *)

\* Users are the accounts of the vault, and the kinds of fibres are disjoint.
LEMMA Basics ==
    /\ Users = 1..NumAccounts /\ Chain!Accounts = Users
    /\ NoRow \in RowType /\ NoRow.status = "NONE" /\ NoRow.pnl = 0 /\ NoRow.hash = 0
    /\ Idle \in FibreType /\ Idle.pc = "idle" /\ Idle.s = 0 /\ Idle.hash = 0 /\ Idle.batch = {}
    /\ NoJob \in JobType
    /\ 0 \notin Settlements /\ 0 \notin Users
    /\ PositionUser \in [Positions -> Users]
<1>1. (CHOOSE p \in Positions : TRUE) \in Positions
  BY BridgeAssumption
<1>2. MaxAttempts \in Nat
  BY BridgeAssumption
<1> QED
  BY <1>1, <1>2, BridgeAssumption
  DEF Users, Chain!Accounts, NoRow, RowType, Idle, FibreType, NoJob, JobType, Settlements,
      Statuses, Steps

\* A fibre that ends or drops its item is idle or picks the next one, and the
\* job of its item, if it is still its own, is completed or counts an attempt.
LEMMA LeaveEffect ==
    ASSUME BridgeInv, NEW f \in Fibres, Finish(f) \/ Throw(f)
    PROVE  /\ fibre' \in [Fibres -> FibreType]
           /\ \A g \in Fibres \ {f} : fibre'[g] = fibre[g]
           /\ fibre'[f].pc \in {"idle", "pick"}
           /\ fibre'[f].s = 0 /\ fibre'[f].hash = 0
           /\ fibre'[f].batch \in {{}, fibre[f].batch}
           /\ fibre'[f].pc = "pick" => fibre[f].batch # {}
           /\ job' \in [Settlements -> JobType]
           /\ \A s \in Settlements :
                 \/ job'[s] = job[s]
                 \/ /\ f \in Slots /\ fibre[f].s = s /\ job[s].holder = f
                    /\ job'[s].st \in {"wait", "completed", "failed"}
                    /\ job'[s].holder = "nobody"
                    /\ job'[s].st = "wait" => /\ job'[s].attempts < MaxAttempts
                                              /\ job'[s].stalls <= 1
                    /\ Finish(f) => job'[s].st = "completed"
           /\ \A s \in Settlements :
                 f \in Slots /\ fibre[f].s = s /\ job[s].holder = f => job'[s].holder = "nobody"
<1> DEFINE end  == [Idle EXCEPT !.pc = IF fibre[f].batch = {} THEN "idle" ELSE "pick",
                                !.batch = fibre[f].batch]
<1>1. /\ fibre \in [Fibres -> FibreType] /\ job \in [Settlements -> JobType]
      /\ fibre[f] \in FibreType
      /\ fibre[f].s \in Settlements \cup {0}
      /\ MaxAttempts \in Nat
  BY BridgeAssumption DEF BridgeInv, Typed, FibreType
<1>2. /\ end \in FibreType /\ end.pc \in {"idle", "pick"} /\ end.s = 0 /\ end.hash = 0 /\ end.batch = fibre[f].batch
      /\ end.pc = "pick" => fibre[f].batch # {}
  BY <1>1, Basics DEF FibreType, Idle, Steps
<1> HIDE DEF end
<1>3. fibre' = [fibre EXCEPT ![f] = end] \/ fibre' = [fibre EXCEPT ![f] = Idle]
  BY DEF Finish, Throw, end
<1>4. /\ fibre' \in [Fibres -> FibreType]
      /\ \A g \in Fibres \ {f} : fibre'[g] = fibre[g]
      /\ fibre'[f].pc \in {"idle", "pick"}
      /\ fibre'[f].s = 0 /\ fibre'[f].hash = 0
      /\ fibre'[f].batch \in {{}, fibre[f].batch}
      /\ fibre'[f].pc = "pick" => fibre[f].batch # {}
  BY <1>1, <1>2, <1>3, Basics
<1>5. ASSUME f \in Slots /\ Holds(f)
      PROVE  LET s == fibre[f].s
             IN  /\ s \in Settlements /\ job[s].holder = f /\ job[s].st = "active"
                 /\ job[s] \in JobType /\ job[s].attempts < MaxAttempts /\ job[s].stalls <= 1
  BY <1>1, <1>5, BridgeAssumption DEF Holds, BridgeInv, JobOK
<1>6. CASE ~(f \in Slots /\ Holds(f))
  BY <1>1, <1>4, <1>6, Basics DEF Finish, Throw, Holds
<1>7. CASE f \in Slots /\ Holds(f) /\ Finish(f)
  <2> DEFINE done == [job[fibre[f].s] EXCEPT !.st = "completed", !.holder = "nobody"]
  <2>1. done \in JobType /\ done.st = "completed" /\ done.holder = "nobody"
    BY <1>5, <1>7 DEF JobType
  <2>2. job' = [job EXCEPT ![fibre[f].s] = done]
    BY <1>1, <1>5, <1>7 DEF Finish, JobType
  <2> HIDE DEF done
  <2> QED
    BY <1>1, <1>4, <1>5, <1>7, <2>1, <2>2
<1>8. ASSUME NEW j \in JobType
      PROVE  JobAfterThrow(j) = [st |-> IF j.attempts + 1 < MaxAttempts THEN "wait" ELSE "failed",
                                 attempts |-> j.attempts + 1, stalls |-> j.stalls,
                                 holder |-> "nobody"]
  <2> DEFINE attempts == j.attempts + 1
             st == IF j.attempts + 1 < MaxAttempts THEN "wait" ELSE "failed"
  <2>1. JobAfterThrow(j) = [j EXCEPT !.attempts = attempts, !.st = st, !.holder = "nobody"]
    BY DEF JobAfterThrow
  <2> HIDE DEF attempts, st
  <2>2. JobAfterThrow(j) = [st |-> st, attempts |-> attempts, stalls |-> j.stalls,
                            holder |-> "nobody"]
    BY <2>1 DEF JobType
  <2> QED
    BY <2>2 DEF attempts, st
<1>9. CASE f \in Slots /\ Holds(f) /\ Throw(f) /\ ~Finish(f)
  <2> DEFINE after == JobAfterThrow(job[fibre[f].s])
  <2>1. /\ after \in JobType /\ after.st \in {"wait", "failed"} /\ after.holder = "nobody"
        /\ after.st = "wait" => after.attempts < MaxAttempts /\ after.stalls <= 1
    BY <1>1, <1>5, <1>8, <1>9 DEF JobType
  <2>2. job' = [job EXCEPT ![fibre[f].s] = after]
    BY <1>9 DEF Throw
  <2> HIDE DEF after
  <2> QED
    BY <1>1, <1>4, <1>5, <1>9, <2>1, <2>2
<1> QED
  BY <1>6, <1>7, <1>9

\* A stalled job waits again, or has failed, and has no slot.
LEMMA StallEffect ==
    ASSUME NEW j \in JobType, j.stalls <= 1
    PROVE  /\ JobAfterStall(j) \in JobType
           /\ JobAfterStall(j).st \in {"wait", "failed"}
           /\ JobAfterStall(j).holder = "nobody"
           /\ JobAfterStall(j).attempts = j.attempts
           /\ JobAfterStall(j).st = "wait" => JobAfterStall(j).stalls <= 1
<1> DEFINE stalls == j.stalls + 1
           st == IF j.stalls = 0 THEN "wait" ELSE "failed"
<1>1. JobAfterStall(j) = [j EXCEPT !.stalls = stalls, !.holder = "nobody", !.st = st]
  BY DEF JobAfterStall
<1>2. stalls \in 0..2 /\ st \in {"wait", "failed"} /\ (st = "wait" => stalls <= 1)
  BY DEF JobType
<1> HIDE DEF stalls, st
<1>3. JobAfterStall(j) = [st |-> st, attempts |-> j.attempts, stalls |-> stalls,
                          holder |-> "nobody"]
  BY <1>1 DEF JobType
<1> QED
  BY <1>2, <1>3 DEF JobType

\* The fibre f, and no other, moves to step pc and changes nothing else.
LEMMA GoToEffect ==
    ASSUME BridgeInv, NEW f \in Fibres, NEW pc \in Steps, GoTo(f, pc)
    PROVE  /\ fibre' \in [Fibres -> FibreType]
           /\ \A g \in Fibres \ {f} : fibre'[g] = fibre[g]
           /\ fibre'[f].pc = pc
           /\ fibre'[f].s = fibre[f].s /\ fibre'[f].u = fibre[f].u
           /\ fibre'[f].hash = fibre[f].hash
           /\ fibre'[f].balance = fibre[f].balance
           /\ fibre'[f].batch = fibre[f].batch
<1>1. fibre \in [Fibres -> FibreType]
  BY DEF BridgeInv, Typed
<1> QED
  BY <1>1 DEF GoTo, FibreType

\* The fibre f moves to step pc with the hash it reads or gets.
LEMMA HashEffect ==
    ASSUME BridgeInv, NEW f \in Fibres, NEW pc \in Steps, NEW hash \in Nat,
           fibre' = [fibre EXCEPT ![f].pc = pc, ![f].hash = hash]
    PROVE  /\ fibre' \in [Fibres -> FibreType]
           /\ \A g \in Fibres \ {f} : fibre'[g] = fibre[g]
           /\ fibre'[f].pc = pc /\ fibre'[f].hash = hash
           /\ fibre'[f].s = fibre[f].s /\ fibre'[f].u = fibre[f].u
           /\ fibre'[f].balance = fibre[f].balance
           /\ fibre'[f].batch = fibre[f].batch
<1>1. fibre \in [Fibres -> FibreType] /\ fibre[f] \in FibreType
  BY DEF BridgeInv, Typed
<1> DEFINE x == [fibre[f] EXCEPT !.pc = pc, !.hash = hash]
<1>2. fibre' = [fibre EXCEPT ![f] = x]
  BY <1>1 DEF FibreType
<1>3. /\ x \in FibreType /\ x.pc = pc /\ x.hash = hash /\ x.s = fibre[f].s
      /\ x.u = fibre[f].u /\ x.balance = fibre[f].balance /\ x.batch = fibre[f].batch
  BY <1>1 DEF FibreType
<1> HIDE DEF x
<1> QED
  BY <1>1, <1>2, <1>3

\* The fibre f moves to step pc with the user it is to sync.
LEMMA UserEffect ==
    ASSUME BridgeInv, NEW f \in Fibres, NEW pc \in Steps, NEW u \in Users,
           fibre' = [fibre EXCEPT ![f].pc = pc, ![f].u = u]
    PROVE  /\ fibre' \in [Fibres -> FibreType]
           /\ \A g \in Fibres \ {f} : fibre'[g] = fibre[g]
           /\ fibre'[f].pc = pc /\ fibre'[f].u = u
           /\ fibre'[f].s = fibre[f].s /\ fibre'[f].batch = fibre[f].batch
           /\ fibre'[f].hash = fibre[f].hash
<1>1. fibre \in [Fibres -> FibreType] /\ fibre[f] \in FibreType
  BY DEF BridgeInv, Typed
<1> DEFINE x == [fibre[f] EXCEPT !.pc = pc, !.u = u]
<1>2. fibre' = [fibre EXCEPT ![f] = x]
  BY <1>1 DEF FibreType
<1>3. /\ x \in FibreType /\ x.pc = pc /\ x.u = u /\ x.s = fibre[f].s
      /\ x.batch = fibre[f].batch /\ x.hash = fibre[f].hash
  BY <1>1 DEF FibreType
<1> HIDE DEF x
<1> QED
  BY <1>1, <1>2, <1>3

\* The fibre f has read a balance.
LEMMA BalanceEffect ==
    ASSUME BridgeInv, NEW f \in Fibres, NEW pc \in Steps, NEW balance \in Nat,
           fibre' = [fibre EXCEPT ![f].pc = pc, ![f].balance = balance]
    PROVE  /\ fibre' \in [Fibres -> FibreType]
           /\ \A g \in Fibres \ {f} : fibre'[g] = fibre[g]
           /\ fibre'[f].pc = pc
           /\ fibre'[f].s = fibre[f].s /\ fibre'[f].u = fibre[f].u
           /\ fibre'[f].batch = fibre[f].batch /\ fibre'[f].hash = fibre[f].hash
<1>1. fibre \in [Fibres -> FibreType] /\ fibre[f] \in FibreType
  BY DEF BridgeInv, Typed
<1> DEFINE x == [fibre[f] EXCEPT !.pc = pc, !.balance = balance]
<1>2. fibre' = [fibre EXCEPT ![f] = x]
  BY <1>1 DEF FibreType
<1>3. /\ x \in FibreType /\ x.pc = pc /\ x.u = fibre[f].u /\ x.s = fibre[f].s
      /\ x.batch = fibre[f].batch /\ x.hash = fibre[f].hash
  BY <1>1 DEF FibreType
<1> HIDE DEF x
<1> QED
  BY <1>1, <1>2, <1>3

\* A tick turns to an item of its batch.
LEMMA ItemEffect ==
    ASSUME BridgeInv, NEW f \in Fibres, NextItem(f)
    PROVE  /\ fibre' \in [Fibres -> FibreType]
           /\ \A g \in Fibres \ {f} : fibre'[g] = fibre[g]
           /\ f \notin Slots
           /\ fibre'[f].hash = fibre[f].hash
           /\ \E i \in fibre[f].batch :
                 /\ fibre'[f].batch = fibre[f].batch \ {i}
                 /\ \/ /\ f \in Ticks /\ i \in Settlements /\ Committed(i)
                       /\ fibre'[f].pc = "reconcile" /\ fibre'[f].s = i
                    \/ /\ f \in Polls /\ i \in Users
                       /\ fibre'[f].pc = "readBalance" /\ fibre'[f].u = i /\ fibre'[f].s = 0
<1>1. /\ fibre \in [Fibres -> FibreType] /\ fibre[f] \in FibreType /\ f \notin Slots
      /\ fibre[f].s = 0
      /\ f \in Ticks => \A s \in fibre[f].batch : s \in Settlements /\ Committed(s)
      /\ f \in Polls => fibre[f].batch \subseteq Users
      /\ f \in Polls => f \notin Ticks
      /\ f \in Ticks \cup Polls
  BY BridgeAssumption DEF BridgeInv, Typed, FibreOK, NextItem, At, Fibres
<1> DEFINE settled(i) == [fibre[f] EXCEPT !.pc = "reconcile", !.s = i, !.batch = fibre[f].batch \ {i}]
           synced(i)  == [fibre[f] EXCEPT !.pc = "readBalance", !.u = i, !.batch = fibre[f].batch \ {i}]
<1>2. PICK i \in fibre[f].batch :
         fibre' = [fibre EXCEPT ![f] = IF f \in Ticks THEN settled(i) ELSE synced(i)]
  BY DEF NextItem
<1> DEFINE left == fibre[f].batch \ {i}
<1>3. left \in SUBSET (Settlements \cup Users)
  BY <1>1 DEF FibreType
<1>4. CASE f \in Ticks
  <2>1. settled(i) = [fibre[f] EXCEPT !.pc = "reconcile", !.s = i, !.batch = left]
    OBVIOUS
  <2> HIDE DEF left
  <2>2. /\ settled(i) \in FibreType /\ settled(i).pc = "reconcile" /\ settled(i).s = i
        /\ settled(i).batch = left /\ settled(i).hash = fibre[f].hash
    BY <1>1, <1>3, <1>4, <2>1 DEF FibreType, Steps
  <2> HIDE DEF settled
  <2>3. fibre' = [fibre EXCEPT ![f] = settled(i)]
    BY <1>2, <1>4
  <2>4. fibre'[f] = settled(i) /\ fibre' \in [Fibres -> FibreType]
        /\ \A g \in Fibres \ {f} : fibre'[g] = fibre[g]
    BY <1>1, <2>2, <2>3
  <2> QED
    BY <1>1, <1>4, <2>2, <2>4 DEF left
<1>5. CASE f \notin Ticks
  <2>1. synced(i) = [fibre[f] EXCEPT !.pc = "readBalance", !.u = i, !.batch = left]
    OBVIOUS
  <2> HIDE DEF left
  <2>2. /\ synced(i) \in FibreType /\ synced(i).pc = "readBalance" /\ synced(i).u = i
        /\ synced(i).hash = fibre[f].hash /\ synced(i).batch = left /\ synced(i).s = 0
    BY <1>1, <1>3, <1>5, <2>1 DEF FibreType, Steps
  <2> HIDE DEF synced
  <2>3. fibre' = [fibre EXCEPT ![f] = synced(i)]
    BY <1>2, <1>5
  <2>4. fibre'[f] = synced(i) /\ fibre' \in [Fibres -> FibreType]
        /\ \A g \in Fibres \ {f} : fibre'[g] = fibre[g]
    BY <1>1, <2>2, <2>3
  <2> QED
    BY <1>1, <1>5, <2>2, <2>4 DEF left
<1> QED
  BY <1>4, <1>5

\* A job is taken by an idle slot.
LEMMA TakeEffect ==
    ASSUME BridgeInv, NEW f \in Slots, NEW s \in Settlements, TakeJob(f, s)
    PROVE  /\ fibre' \in [Fibres -> FibreType]
           /\ \A g \in Fibres \ {f} : fibre'[g] = fibre[g]
           /\ f \in Fibres
           /\ fibre[f].s = 0
           /\ fibre'[f].pc = "process" /\ fibre'[f].s = s /\ fibre'[f].hash = 0
           /\ fibre'[f].batch = {}
           /\ job' \in [Settlements -> JobType]
           /\ \A t \in Settlements \ {s} : job'[t] = job[t]
           /\ job[s].st = "wait" /\ job'[s].st = "active" /\ job'[s].holder = f
           /\ job'[s].attempts = job[s].attempts /\ job'[s].stalls = job[s].stalls
<1> DEFINE x == [Idle EXCEPT !.pc = "process", !.s = s]
           j == [job[s] EXCEPT !.st = "active", !.holder = f]
<1>1. /\ fibre \in [Fibres -> FibreType] /\ job \in [Settlements -> JobType]
      /\ job[s] \in JobType /\ f \in Fibres /\ fibre[f].s = 0
  BY DEF BridgeInv, Typed, Fibres, TakeJob, At, FibreOK
<1>2. x \in FibreType /\ x.pc = "process" /\ x.s = s /\ x.hash = 0 /\ x.batch = {}
  BY Basics DEF FibreType, Steps
<1>3. j \in JobType /\ j.st = "active" /\ j.holder = f /\ j.attempts = job[s].attempts
      /\ j.stalls = job[s].stalls
  BY <1>1 DEF JobType
<1>4. job' = [job EXCEPT ![s] = j]
  BY <1>1 DEF TakeJob, JobType
<1>5. fibre' = [fibre EXCEPT ![f] = x] /\ job[s].st = "wait"
  BY DEF TakeJob
<1> HIDE DEF x, j
<1> QED
  BY <1>1, <1>2, <1>3, <1>4, <1>5

\* An interval starts a tick with a batch.
LEMMA StartEffect ==
    ASSUME BridgeInv, NEW f \in Fibres, Start(f)
    PROVE  /\ fibre' \in [Fibres -> FibreType]
           /\ \A g \in Fibres \ {f} : fibre'[g] = fibre[g]
           /\ f \notin Slots /\ fibre[f].s = 0
           /\ fibre'[f].pc = "pick" /\ fibre'[f].s = 0 /\ fibre'[f].hash = 0
           /\ f \in Ticks => \A s \in fibre'[f].batch : s \in Settlements /\ Committed(s)
           /\ f \in Polls => fibre'[f].batch \subseteq Users
<1>1. PICK batch \in SUBSET (Settlements \cup Users) :
         /\ fibre' = [fibre EXCEPT ![f] = [Idle EXCEPT !.pc = "pick", !.batch = batch]]
         /\ f \in Ticks => \A s \in batch : s \in Settlements /\ Committed(s)
         /\ f \in Polls => batch \subseteq Users
         /\ f \notin Slots /\ At(f, "idle")
  <2>1. CASE reconcileSubmittedSettlements(f)
    BY <2>1, BridgeAssumption DEF reconcileSubmittedSettlements
  <2>2. CASE syncAllWallets(f)
    BY <2>2, BridgeAssumption DEF syncAllWallets
  <2> QED
    BY <2>1, <2>2 DEF Start
<1> DEFINE x == [Idle EXCEPT !.pc = "pick", !.batch = batch]
<1>2. x \in FibreType /\ x.pc = "pick" /\ x.s = 0 /\ x.hash = 0 /\ x.batch = batch
  BY Basics DEF FibreType, Steps
<1>3. fibre \in [Fibres -> FibreType] /\ fibre[f].s = 0
  BY <1>1 DEF BridgeInv, Typed, FibreOK, At
<1> HIDE DEF x
<1>4. fibre' = [fibre EXCEPT ![f] = x]
  BY <1>1 DEF x
<1> QED
  BY <1>1, <1>2, <1>3, <1>4

\* A row gets a new status.
LEMMA StatusEffect ==
    ASSUME BridgeInv, NEW s \in Settlements, NEW status \in Statuses,
           row' = [row EXCEPT ![s].status = status]
    PROVE  /\ row' \in [Settlements -> RowType]
           /\ \A t \in Settlements \ {s} : row'[t] = row[t]
           /\ row'[s].status = status
           /\ row'[s].hash = row[s].hash /\ row'[s].pnl = row[s].pnl
           /\ row'[s].position = row[s].position
<1> DEFINE r == [row[s] EXCEPT !.status = status]
<1>1. row \in [Settlements -> RowType] /\ row[s] \in RowType
  BY DEF BridgeInv, Typed
<1>2. row' = [row EXCEPT ![s] = r]
  OBVIOUS
<1>3. /\ r \in RowType /\ r.status = status /\ r.hash = row[s].hash /\ r.pnl = row[s].pnl
      /\ r.position = row[s].position
  BY <1>1 DEF RowType
<1> HIDE DEF r
<1> QED
  BY <1>1, <1>2, <1>3

\* A row gets the hash of its transaction.
LEMMA RecordEffect ==
    ASSUME BridgeInv, NEW s \in Settlements, NEW hash \in Nat,
           row' = [row EXCEPT ![s].status = "SUBMITTED", ![s].hash = hash]
    PROVE  /\ row' \in [Settlements -> RowType]
           /\ \A t \in Settlements \ {s} : row'[t] = row[t]
           /\ row'[s].status = "SUBMITTED"
           /\ row'[s].hash = hash /\ row'[s].pnl = row[s].pnl
           /\ row'[s].position = row[s].position
<1> DEFINE r == [row[s] EXCEPT !.status = "SUBMITTED", !.hash = hash]
<1>1. row \in [Settlements -> RowType] /\ row[s] \in RowType
  BY DEF BridgeInv, Typed
<1>2. row' = [row EXCEPT ![s] = r]
  BY <1>1 DEF RowType
<1>3. /\ r \in RowType /\ r.status = "SUBMITTED" /\ r.hash = hash /\ r.pnl = row[s].pnl
      /\ r.position = row[s].position
  BY <1>1 DEF RowType, Statuses
<1> HIDE DEF r
<1> QED
  BY <1>1, <1>2, <1>3

\* Every step keeps the types.
LEMMA TypedStep == BridgeInv /\ [Next]_vars => Typed'
<1> SUFFICES ASSUME BridgeInv, [Next]_vars
             PROVE  Typed'
  OBVIOUS
<1> USE DEF Typed, RowType, FibreType, contract, engine
<1>0. Typed /\ MaxAttempts \in Nat /\ MaxFaults \in Nat
  BY BridgeAssumption DEF BridgeInv
<1>1. ASSUME NEW s \in Settlements, Request(s)
      PROVE  Typed'
  <2>1. CASE \E p \in Positions, pnl \in Pnls : queueSettlementRequest(s, p, pnl)
    BY <1>0, <2>1 DEF queueSettlementRequest, Statuses
  <2>2. CASE AddJob(s)
    BY <1>0, <2>2 DEF AddJob, JobType
  <2>3. CASE Commit(s)
    BY <1>0, <2>3 DEF Commit
  <2>4. CASE Abort(s)
    BY <1>0, <2>4, Basics DEF Abort
  <2> QED
    BY <1>1, <2>1, <2>2, <2>3, <2>4 DEF Request
<1>2. ASSUME NEW s \in Settlements, RecoverStalledJob(s) \/ LoseLock(s)
      PROVE  Typed'
  <2>1. job[s] \in JobType /\ job[s].stalls <= 1
    BY <1>0, <1>2 DEF BridgeInv, JobOK, RecoverStalledJob, LoseLock
  <2>2. job' \in [Settlements -> JobType]
    BY <1>0, <1>2, <2>1, StallEffect DEF RecoverStalledJob, LoseLock
  <2> QED
    BY <1>0, <1>2, <2>2 DEF RecoverStalledJob, LoseLock, Fault
<1>3. ASSUME NEW f \in Slots, NEW s \in Settlements, TakeJob(f, s)
      PROVE  Typed'
  BY <1>0, <1>3, TakeEffect DEF TakeJob
<1>4. ASSUME NEW f \in Fibres, Continue(f)
      PROVE  Typed'
  <2>0. fibre[f] \in FibreType /\ fibre[f].s \in Settlements \cup {0}
    BY <1>0
  <2>1. CASE processSettlement(f)
    BY <1>0, <2>1, LeaveEffect, GoToEffect DEF processSettlement, Steps
  <2>2. CASE submitSettlement(f)
    BY <1>0, <2>2, GoToEffect DEF submitSettlement, Steps
  <2>3. CASE writeContract(f)
    <3>1. NewTx(fibre[f].s) \in TxType
      BY <1>0, <2>3, Basics DEF writeContract, At, BridgeInv, FibreOK, RowOK, NewTx, TxType, user,
         Committed, Pnls, JobSteps
    <3>2. Append(txs, NewTx(fibre[f].s)) \in Seq(TxType) /\ Len(txs) + 1 \in Nat
      BY <1>0, <3>1
    <3>3. CASE Throw(f) /\ UNCHANGED <<txs, faults>>
      BY <1>0, <2>3, <3>3, LeaveEffect DEF writeContract
    <3>4. CASE /\ txs' = Append(txs, NewTx(fibre[f].s))
               /\ fibre' = [fibre EXCEPT ![f].pc = "record", ![f].hash = Len(txs) + 1]
               /\ UNCHANGED <<job, faults>>
      <4>1. fibre' \in [Fibres -> FibreType]
        BY <3>2, <3>4, HashEffect DEF Steps
      <4> QED
        BY <1>0, <2>3, <3>2, <3>4, <4>1 DEF writeContract
    <3>5. CASE txs' = Append(txs, NewTx(fibre[f].s)) /\ Throw(f) /\ Fault
      BY <1>0, <2>3, <3>2, <3>5, LeaveEffect DEF writeContract, Fault
    <3> QED
      BY <2>3, <3>3, <3>4, <3>5 DEF writeContract
  <2>4. CASE recordSubmission(f)
    <3>1. fibre[f].s \in Settlements /\ fibre[f].hash \in Nat
      BY <1>0, <2>0, <2>4 DEF recordSubmission, At, BridgeInv, FibreOK, JobSteps
    <3>2. row' \in [Settlements -> RowType]
      BY <2>4, <3>1, RecordEffect DEF recordSubmission
    <3> QED
      BY <1>0, <2>4, <3>2, GoToEffect DEF recordSubmission, Steps
  <2>5. CASE reconcileSettlement(f)
    <3>1. fibre[f].s \in Settlements
      BY <2>0, <2>5 DEF reconcileSettlement, At, BridgeInv, FibreOK
    <3>2. row[fibre[f].s].hash \in Nat
      BY <1>0, <3>1
    <3>3. CASE Finish(f)
      BY <1>0, <2>5, <3>3, LeaveEffect DEF reconcileSettlement
    <3>4. CASE /\ fibre' = [fibre EXCEPT ![f].pc = "receipt", ![f].hash = row[fibre[f].s].hash]
               /\ UNCHANGED job
      <4>1. fibre' \in [Fibres -> FibreType]
        BY <3>2, <3>4, HashEffect DEF Steps
      <4> QED
        BY <1>0, <2>5, <3>4, <4>1 DEF reconcileSettlement
    <3> QED
      BY <2>5, <3>3, <3>4 DEF reconcileSettlement
  <2>6. CASE getSettlementReceipt(f)
    BY <1>0, <2>6, LeaveEffect, GoToEffect DEF getSettlementReceipt, Steps
  <2>7. CASE markConfirmed(f)
    <3>1. fibre[f].s \in Settlements
      BY <2>0, <2>7 DEF markConfirmed, At, BridgeInv, FibreOK, TxSteps
    <3>2. user(fibre[f].s) \in Users
      BY <1>0, <3>1, Basics DEF user
    <3>3. fibre' \in [Fibres -> FibreType]
      BY <2>7, <3>2, UserEffect DEF markConfirmed, Steps
    <3>4. row' \in [Settlements -> RowType]
      BY <2>7, <3>1, StatusEffect DEF markConfirmed, Statuses
    <3> QED
      BY <1>0, <2>7, <3>3, <3>4 DEF markConfirmed
  <2>8. CASE markSettlementFailed(f)
    <3>1. fibre[f].s \in Settlements
      BY <2>0, <2>8 DEF markSettlementFailed, At, BridgeInv, FibreOK, TxSteps
    <3>2. row' \in [Settlements -> RowType]
      BY <2>8, <3>1, StatusEffect DEF markSettlementFailed, Statuses
    <3> QED
      BY <1>0, <2>8, <3>2, LeaveEffect DEF markSettlementFailed
  <2>9. CASE readSettledBalance(f)
    <3>1. fibre[f].u \in Users
      BY <1>0, <2>0, <2>9 DEF readSettledBalance, At, BridgeInv, FibreOK
    <3>2. settledBalance[fibre[f].u] \in Nat
      BY <1>0, <3>1
    <3>3. fibre' \in [Fibres -> FibreType]
      BY <2>9, <3>2, BalanceEffect DEF readSettledBalance, Steps
    <3> QED
      BY <1>0, <2>9, <3>3 DEF readSettledBalance
  <2>10. CASE syncSettledBalance(f)
    BY <1>0, <2>0, <2>10, LeaveEffect DEF syncSettledBalance
  <2>11. CASE NextItem(f)
    BY <1>0, <2>11, ItemEffect DEF NextItem
  <2> QED
    BY <1>4, <2>1, <2>2, <2>3, <2>4, <2>5, <2>6, <2>7, <2>8, <2>9, <2>10, <2>11 DEF Continue
<1>5. ASSUME NEW f \in Fibres, Start(f)
      PROVE  Typed'
  BY <1>0, <1>5, StartEffect DEF Start, reconcileSubmittedSettlements, syncAllWallets
<1>6. ASSUME NEW f \in Fibres, AwaitFails(f)
      PROVE  Typed'
  BY <1>0, <1>6, LeaveEffect DEF AwaitFails, Fault
<1>7. ASSUME NEW i \in DOMAIN txs, Mine(i) \/ Drop(i)
      PROVE  Typed'
  <2>1. txs[i] \in TxType /\ txs[i].user \in Users /\ txs[i].pnl \in Int
    <3>1. txs[i] \in TxType
      BY <1>0
    <3> QED
      BY <3>1, BridgeAssumption DEF TxType, Pnls
  <2>2. txs' \in Seq(TxType)
    <3>1. PICK st \in {"confirmed", "reverted", "dropped"} : txs' = [txs EXCEPT ![i].st = st]
      BY <1>7 DEF Mine, Drop
    <3>2. [txs[i] EXCEPT !.st = st] \in TxType
      BY <2>1 DEF TxType
    <3> QED
      BY <1>0, <3>1, <3>2
  <2>3. settledBalance' \in [Users -> Nat]
    <3>1. CASE UNCHANGED contract
      BY <1>0, <3>1
    <3>2. CASE Chain!settle(manager, txs[i].user, txs[i].pnl)
      BY <1>0, <2>1, <3>2 DEF Chain!settle
    <3> QED
      BY <1>7, <3>1, <3>2 DEF Mine, Drop
  <2> QED
    BY <1>0, <1>7, <2>2, <2>3 DEF Mine, Drop, Fault
<1>8. CASE Crash
  BY <1>0, <1>8, Basics DEF Crash, Fault
<1>9. CASE OthersUseVault
  <2>1. settledBalance' \in [Users -> Nat]
    BY <1>0, <1>9 DEF OthersUseVault, Chain!deposit, Chain!withdraw, Chain!WithdrawAccepted,
       Chain!setPaused, Chain!ledger, Chain!fundProtocolLiquidity, Chain!withdrawProtocolLiquidity
  <2> QED
    BY <1>0, <1>9, <2>1 DEF OthersUseVault
<1>10. CASE UNCHANGED vars
  BY <1>0, <1>10 DEF vars
<1> QED
  BY <1>1, <1>2, <1>3, <1>4, <1>5, <1>6, <1>7, <1>8, <1>9, <1>10 DEF Next
---------------------------------------------------------------------------
(* What no step takes back.                                                *)

\* What no step takes back: rows, transactions, hashes on record.
Grows ==
    /\ \A s \in Settlements :
          /\ Committed(s) => /\ Committed(s)'
                             /\ row'[s].pnl = row[s].pnl /\ row'[s].position = row[s].position
          /\ row[s].hash # 0 => row'[s].hash # 0
          /\ job[s].st # "none" => job'[s].st # "none"
    /\ \A i \in DOMAIN txs :
          /\ i \in DOMAIN txs'
          /\ txs'[i].s = txs[i].s /\ txs'[i].user = txs[i].user /\ txs'[i].pnl = txs[i].pnl
          /\ txs[i].st \in {"confirmed", "reverted"} => txs'[i].st = txs[i].st

\* What a fibre holds stays true while others move.
LEMMA HeldStays ==
    ASSUME BridgeInv, Grows, Typed', NEW f \in Fibres, fibre'[f] = fibre[f]
    PROVE  FibreOK(f)'
<1>1. FibreOK(f) /\ fibre[f] \in FibreType
  BY DEF BridgeInv, Typed
<1>2. fibre[f].s # 0 => fibre[f].s \in Settlements
  BY <1>1 DEF FibreType
<1> QED
  BY <1>1, <1>2 DEF FibreOK, Grows, TxSteps, JobSteps

\* No step takes any of it back.
LEMMA GrowsStep == BridgeInv /\ [Next]_vars => Grows
<1> SUFFICES ASSUME BridgeInv, [Next]_vars
             PROVE  Grows
  OBVIOUS
<1> USE DEF contract, engine
<1>0. Typed
  BY DEF BridgeInv
<1>1. ASSUME NEW s \in Settlements, Request(s)
      PROVE  Grows
  <2>1. CASE \E p \in Positions, pnl \in Pnls : queueSettlementRequest(s, p, pnl)
    BY <1>0, <2>1 DEF queueSettlementRequest, Grows, Committed, Typed, BridgeInv, RowOK
  <2>2. CASE AddJob(s)
    BY <1>0, <2>2 DEF AddJob, Grows, Committed, Typed, JobType
  <2>3. CASE Commit(s)
    BY <1>0, <2>3 DEF Commit, Grows, Committed, Typed
  <2>4. CASE Abort(s)
    BY <1>0, <2>4 DEF Abort, Grows, Committed, Typed, BridgeInv, RowOK, InTransaction
  <2> QED
    BY <1>1, <2>1, <2>2, <2>3, <2>4 DEF Request
<1>2. ASSUME NEW s \in Settlements, RecoverStalledJob(s) \/ LoseLock(s)
      PROVE  Grows
  <2>1. job[s] \in JobType /\ job[s].stalls <= 1
    BY <1>0, <1>2 DEF BridgeInv, Typed, JobOK, RecoverStalledJob, LoseLock
  <2> QED
    BY <1>0, <1>2, <2>1, StallEffect DEF RecoverStalledJob, LoseLock, Grows, Committed, Typed
<1>3. ASSUME NEW f \in Slots, NEW s \in Settlements, TakeJob(f, s)
      PROVE  Grows
  <2>1. \A t \in Settlements : job[t].st # "none" => job'[t].st # "none"
    BY <1>3, TakeEffect
  <2> QED
    BY <1>3, <2>1 DEF TakeJob, Grows, Committed
<1>4. ASSUME UNCHANGED <<row, request, txs, job>>
      PROVE  Grows
  BY <1>4 DEF Grows, Committed
<1>5. ASSUME NEW f \in Fibres, Finish(f) \/ Throw(f), UNCHANGED <<row, request, txs>>
      PROVE  Grows
  BY <1>5, LeaveEffect DEF Grows, Committed
<1>6. ASSUME NEW f \in Fibres, Continue(f)
      PROVE  Grows
  <2>1. CASE processSettlement(f)
    BY <1>4, <1>5, <2>1 DEF processSettlement
  <2>2. CASE submitSettlement(f)
    BY <1>4, <2>2 DEF submitSettlement
  <2>3. CASE writeContract(f)
    <3>1. CASE UNCHANGED txs
      BY <1>5, <2>3, <3>1 DEF writeContract
    <3>2. CASE txs' = Append(txs, NewTx(fibre[f].s))
      <4>1. \A i \in DOMAIN txs : i \in DOMAIN txs' /\ txs'[i] = txs[i]
        BY <1>0, <3>2 DEF Typed
      <4>2. \A s \in Settlements : job[s].st # "none" => job'[s].st # "none"
        BY <2>3, LeaveEffect DEF writeContract
      <4> QED
        BY <2>3, <4>1, <4>2 DEF writeContract, Grows, Committed
    <3> QED
      BY <2>3, <3>1, <3>2 DEF writeContract
  <2>4. CASE recordSubmission(f)
    <3>1. /\ fibre[f].s \in Settlements /\ fibre[f].hash \in Nat \ {0}
          /\ row[fibre[f].s].status # "NONE"
      BY <1>0, <2>4 DEF recordSubmission, At, BridgeInv, FibreOK, JobSteps, TxSteps, Typed,
         FibreType, Committed
    <3> QED
      BY <1>0, <2>4, <3>1, RecordEffect DEF recordSubmission, Grows, Committed
  <2>5. CASE reconcileSettlement(f)
    BY <1>4, <1>5, <2>5 DEF reconcileSettlement
  <2>6. CASE getSettlementReceipt(f)
    BY <1>4, <1>5, <2>6 DEF getSettlementReceipt
  <2>7. CASE markConfirmed(f)
    <3>1. fibre[f].s \in Settlements
      BY <1>0, <2>7 DEF markConfirmed, At, BridgeInv, FibreOK, TxSteps, Typed, FibreType
    <3> QED
      BY <1>0, <2>7, <3>1, StatusEffect DEF markConfirmed, Grows, Committed, Statuses
  <2>8. CASE markSettlementFailed(f)
    <3>1. fibre[f].s \in Settlements
      BY <1>0, <2>8 DEF markSettlementFailed, At, BridgeInv, FibreOK, TxSteps, Typed, FibreType
    <3> QED
      BY <1>0, <2>8, <3>1, StatusEffect, LeaveEffect
      DEF markSettlementFailed, Grows, Committed, Statuses
  <2>9. CASE readSettledBalance(f)
    BY <1>4, <2>9 DEF readSettledBalance
  <2>10. CASE syncSettledBalance(f)
    BY <1>5, <2>10 DEF syncSettledBalance
  <2>11. CASE NextItem(f)
    BY <1>4, <2>11 DEF NextItem
  <2> QED
    BY <1>6, <2>1, <2>2, <2>3, <2>4, <2>5, <2>6, <2>7, <2>8, <2>9, <2>10, <2>11 DEF Continue
<1>7. ASSUME NEW f \in Fibres, Start(f)
      PROVE  Grows
  BY <1>4, <1>7 DEF Start, reconcileSubmittedSettlements, syncAllWallets
<1>8. ASSUME NEW f \in Fibres, AwaitFails(f)
      PROVE  Grows
  BY <1>5, <1>8 DEF AwaitFails
<1>9. ASSUME NEW i \in DOMAIN txs, Mine(i) \/ Drop(i)
      PROVE  Grows
  <2>1. PICK st \in {"confirmed", "reverted", "dropped"} : txs' = [txs EXCEPT ![i].st = st]
    BY <1>9 DEF Mine, Drop
  <2>2. txs[i] \in TxType /\ txs[i].st = "mempool"
    BY <1>0, <1>9 DEF Mine, Drop, InMempool, Typed
  <2>3. \A k \in DOMAIN txs :
           /\ k \in DOMAIN txs'
           /\ txs'[k] = IF k = i THEN [txs[i] EXCEPT !.st = st] ELSE txs[k]
    BY <1>0, <2>1 DEF Typed
  <2> QED
    BY <1>9, <2>2, <2>3 DEF Mine, Drop, Grows, Committed, TxType
<1>10. CASE Crash
  BY <1>10 DEF Crash, Grows, Committed
<1>11. CASE OthersUseVault
  BY <1>11 DEF OthersUseVault, Grows, Committed
<1>12. CASE UNCHANGED vars
  BY <1>12 DEF vars, Grows, Committed
<1> QED
  BY <1>1, <1>2, <1>3, <1>6, <1>7, <1>8, <1>9, <1>10, <1>11, <1>12 DEF Next

---------------------------------------------------------------------------
(* The invariant, part by part.                                            *)

\* Transactions stay right while none is sent, whatever a row gets to say.
LEMMA TxsKept ==
    ASSUME BridgeInv, Grows, DOMAIN txs' = DOMAIN txs
    PROVE  \A i \in DOMAIN txs' : TxOK(i)'
<1>1. \A i \in DOMAIN txs : txs[i] \in TxType /\ TxOK(i)
  BY DEF BridgeInv, Typed
<1>2. \A i \in DOMAIN txs : txs[i].s \in Settlements
  BY <1>1 DEF TxType
<1> QED
  BY <1>1, <1>2 DEF TxOK, Grows, user

\* Rows, transactions and verdicts stay right while no row and no request
\* changes and no transaction is sent.
LEMMA Quiet ==
    ASSUME BridgeInv, Grows, UNCHANGED <<row, request>>, DOMAIN txs' = DOMAIN txs
    PROVE  /\ \A s \in Settlements : RowOK(s)'
           /\ \A i \in DOMAIN txs' : TxOK(i)'
           /\ ConfirmedIsOnChain'
<1>1. \A s \in Settlements : RowOK(s)'
  BY DEF BridgeInv, RowOK, Grows, InTransaction
<1>2. \A i \in DOMAIN txs' : TxOK(i)'
  BY TxsKept
<1>3. ConfirmedIsOnChain'
  BY DEF BridgeInv, ConfirmedIsOnChain, Grows, TxsOf
<1> QED
  BY <1>1, <1>2, <1>3

\* Jobs stay right while none changes and no request goes back.
LEMMA JobsKept ==
    ASSUME BridgeInv, UNCHANGED job,
           \A s \in Settlements : request'[s] \in {"none", "created"} =>
                                      request[s] \in {"none", "created"}
    PROVE  \A s \in Settlements : JobOK(s)'
BY DEF BridgeInv, JobOK

\* The job of a fibre that ends or drops its item is right.
LEMMA JobsLeft ==
    ASSUME BridgeInv, NEW f \in Fibres, Finish(f) \/ Throw(f), UNCHANGED request
    PROVE  \A s \in Settlements : JobOK(s)'
<1> SUFFICES ASSUME NEW s \in Settlements
             PROVE  JobOK(s)'
  OBVIOUS
<1>1. CASE job'[s] = job[s]
  BY <1>1 DEF BridgeInv, JobOK
<1>2. CASE /\ job[s].holder = f /\ f \in Slots
           /\ job'[s].st \in {"wait", "completed", "failed"}
           /\ job'[s].holder = "nobody"
           /\ job'[s].st = "wait" => job'[s].attempts < MaxAttempts /\ job'[s].stalls <= 1
  BY <1>2, BridgeAssumption DEF BridgeInv, JobOK
<1> QED
  BY <1>1, <1>2, LeaveEffect

\* When one fibre moves and is right afterwards, all of them are.
LEMMA OneMoves ==
    ASSUME BridgeInv, Grows, Typed', NEW f \in Fibres,
           \A g \in Fibres \ {f} : fibre'[g] = fibre[g], FibreOK(f)'
    PROVE  \A g \in Fibres : FibreOK(g)'
BY HeldStays

\* A fibre that ends or drops its item is right.
LEMMA LeftOK ==
    ASSUME BridgeInv, Grows, Typed', NEW f \in Fibres, Finish(f) \/ Throw(f)
    PROVE  \A g \in Fibres : FibreOK(g)'
<1>1. /\ fibre'[f].pc \in {"idle", "pick"} /\ fibre'[f].s = 0 /\ fibre'[f].hash = 0
      /\ fibre'[f].batch \in {{}, fibre[f].batch}
      /\ fibre'[f].pc = "pick" => fibre[f].batch # {}
      /\ \A g \in Fibres \ {f} : fibre'[g] = fibre[g]
  BY LeaveEffect
<1>2. FibreOK(f) /\ (f \in Slots => f \notin Ticks \cup Polls)
  BY BridgeAssumption DEF BridgeInv
<1>3. FibreOK(f)'
  BY <1>1, <1>2 DEF FibreOK, TxSteps, JobSteps, Grows
<1> QED
  BY <1>1, <1>3, OneMoves

\* A fibre that goes to another step of the same item is right there.
LEMMA WentOK ==
    ASSUME BridgeInv, Grows, Typed', NEW f \in Fibres, NEW pc \in Steps, GoTo(f, pc),
           fibre[f].s # 0, Committed(fibre[f].s), fibre[f].pc # "pick",
           pc \notin {"idle", "pick", "readBalance", "writeMirror"},
           pc \in JobSteps => f \in Slots,
           pc \in TxSteps => fibre[f].hash \in DOMAIN txs /\ txs[fibre[f].hash].s = fibre[f].s,
           pc \in {"receipt", "confirm", "fail"} => row[fibre[f].s].hash # 0,
           pc = "confirm" => txs[fibre[f].hash].st = "confirmed",
           pc = "fail" => txs[fibre[f].hash].st = "reverted"
    PROVE  \A g \in Fibres : FibreOK(g)'
<1>1. /\ fibre'[f].pc = pc /\ fibre'[f].s = fibre[f].s /\ fibre'[f].hash = fibre[f].hash
      /\ fibre'[f].batch = fibre[f].batch
      /\ \A g \in Fibres \ {f} : fibre'[g] = fibre[g]
  BY GoToEffect
<1>2. FibreOK(f) /\ fibre[f].s \in Settlements
  BY DEF BridgeInv, Typed, FibreType
<1>3. FibreOK(f)'
  BY <1>1, <1>2 DEF FibreOK, TxSteps, JobSteps, Grows
<1> QED
  BY <1>1, <1>3, OneMoves

\* What BridgeInv adds to the types.
Held ==
    /\ \A s \in Settlements : RowOK(s) /\ JobOK(s)
    /\ \A i \in DOMAIN txs : TxOK(i)
    /\ \A f \in Fibres : FibreOK(f)
    /\ ConfirmedIsOnChain

\* The code that queues a settlement, and its transaction, keep the invariant.
LEMMA RequestHolds ==
    ASSUME BridgeInv, Grows, Typed', NEW s \in Settlements, Request(s)
    PROVE  Held'
<1> USE DEF contract, engine
<1>1. \A f \in Fibres : FibreOK(f)'
  BY HeldStays DEF Request, queueSettlementRequest, AddJob, Commit, Abort
<1>2. txs' = txs /\ Typed /\ (\A i \in DOMAIN txs : TxOK(i)) /\ (\A t \in Settlements : RowOK(t))
  BY DEF BridgeInv, Request, queueSettlementRequest, AddJob, Commit, Abort
<1>3. \A i \in DOMAIN txs' : TxOK(i)'
  BY <1>2, TxsKept
<1>4. ConfirmedIsOnChain' /\ \A t \in Settlements : RowOK(t)'
  <2>1. CASE \E p \in Positions, pnl \in Pnls : queueSettlementRequest(s, p, pnl)
    BY <1>2, <2>1 DEF queueSettlementRequest, BridgeInv, Typed, ConfirmedIsOnChain, RowOK, TxsOf,
       InTransaction, Pnls
  <2>2. CASE AddJob(s)
    BY <1>2, <2>2 DEF AddJob, BridgeInv, Typed, ConfirmedIsOnChain, RowOK, TxsOf, InTransaction
  <2>3. CASE Commit(s)
    BY <1>2, <2>3 DEF Commit, BridgeInv, Typed, ConfirmedIsOnChain, RowOK, TxsOf, InTransaction
  <2>4. CASE Abort(s)
    <3>1. row'[s] = NoRow /\ \A t \in Settlements \ {s} : row'[t] = row[t]
      BY <1>2, <2>4 DEF Abort, Typed
    <3> QED
      BY <1>2, <2>4, <3>1, Basics DEF Abort, BridgeInv, Typed, ConfirmedIsOnChain, RowOK, TxsOf,
         InTransaction
  <2> QED
    BY <2>1, <2>2, <2>3, <2>4 DEF Request
<1>5. \A t \in Settlements : JobOK(t)'
  <2>1. CASE AddJob(s)
    <3>1. job' = [job EXCEPT ![s] = [job[s] EXCEPT !.st = "wait"]] /\ job[s] \in JobType
      BY <1>2, <2>1 DEF AddJob, Typed
    <3>2. job[s].st = "none" /\ job[s].attempts = 0 /\ job[s].stalls = 0 /\ job[s].holder = "nobody"
      BY <2>1, <3>1 DEF AddJob, BridgeInv, JobOK, JobType
    <3> QED
      BY <1>2, <2>1, <3>1, <3>2, BridgeAssumption DEF AddJob, BridgeInv, JobOK, Typed, JobType
  <2>2. CASE ~AddJob(s)
    <3>1. UNCHANGED job
      BY <2>2 DEF Request, queueSettlementRequest, Commit, Abort
    <3>2. \A t \in Settlements : request'[t] \in {"none", "created"} =>
                                      request[t] \in {"none", "created"}
      BY <1>2, <2>2 DEF Request, queueSettlementRequest, Commit, Abort, Typed
    <3> QED
      BY <3>1, <3>2, JobsKept
  <2> QED
    BY <2>1, <2>2
<1> QED
  BY <1>1, <1>3, <1>4, <1>5 DEF Held

\* A stalled job, or one whose lock has expired, keeps the invariant.
LEMMA StallHolds ==
    ASSUME BridgeInv, Grows, Typed', NEW s \in Settlements, RecoverStalledJob(s) \/ LoseLock(s)
    PROVE  Held'
<1>1. UNCHANGED <<row, request, txs, fibre>> /\ job' = [job EXCEPT ![s] = JobAfterStall(job[s])]
  BY DEF RecoverStalledJob, LoseLock, engine
<1>2. /\ job \in [Settlements -> JobType] /\ job[s] \in JobType /\ job[s].st = "active"
      /\ job[s].stalls <= 1 /\ job[s].attempts < MaxAttempts
  BY DEF BridgeInv, Typed, JobOK, RecoverStalledJob, LoseLock
<1>3. \A t \in Settlements : JobOK(t)'
  BY <1>1, <1>2, StallEffect DEF BridgeInv, JobOK
<1> QED
  BY <1>1, <1>3, HeldStays, Quiet DEF Held

\* A slot that takes a job keeps the invariant.
LEMMA TakeHolds ==
    ASSUME BridgeInv, Grows, Typed', NEW f \in Slots, NEW s \in Settlements, TakeJob(f, s)
    PROVE  Held'
<1>1. f \in Fibres /\ FibreOK(f) /\ f \notin Ticks \cup Polls /\ f # "nobody"
  BY BridgeAssumption DEF BridgeInv, Fibres
<1>2. FibreOK(f)'
  BY <1>1, TakeEffect, Basics DEF FibreOK, JobSteps, TxSteps
<1>3. \A t \in Settlements : JobOK(t)'
  <2>1. request' = request
    BY DEF TakeJob
  <2> QED
    BY <1>1, <2>1, TakeEffect DEF BridgeInv, JobOK
<1> QED
  BY <1>1, <1>2, <1>3, TakeEffect, OneMoves, Quiet DEF Held, TakeJob

\* A fibre that only ends or drops its item keeps the invariant.
LEMMA LeaveHolds ==
    ASSUME BridgeInv, Grows, Typed', NEW f \in Fibres, Finish(f) \/ Throw(f),
           UNCHANGED <<row, request, txs>>
    PROVE  Held'
BY LeftOK, JobsLeft, Quiet DEF Held

\* A fibre that only moves to a step where it is right keeps the invariant.
LEMMA MoveHolds ==
    ASSUME BridgeInv, Grows, Typed', UNCHANGED <<row, request, txs, job>>,
           \A g \in Fibres : FibreOK(g)'
    PROVE  Held'
BY JobsKept, Quiet DEF Held

\* A row that gets a verdict, or another status past PENDING, is right.
LEMMA VerdictOK ==
    ASSUME BridgeInv, Grows, NEW s \in Settlements, NEW status \in {"CONFIRMED", "FAILED"},
           row' = [row EXCEPT ![s].status = status], UNCHANGED <<request, txs>>,
           Committed(s), row[s].hash # 0,
           status = "CONFIRMED" => \E i \in TxsOf(s) : txs[i].st = "confirmed"
    PROVE  /\ \A t \in Settlements : RowOK(t)'
           /\ \A i \in DOMAIN txs' : TxOK(i)'
           /\ ConfirmedIsOnChain'
<1>1. /\ \A t \in Settlements \ {s} : row'[t] = row[t]
      /\ row'[s].status = status /\ row'[s].hash = row[s].hash /\ row'[s].pnl = row[s].pnl
      /\ row'[s].position = row[s].position
  BY StatusEffect DEF Statuses
<1>2. \A t \in Settlements : RowOK(t)'
  BY <1>1 DEF BridgeInv, RowOK, InTransaction, Committed
<1>3. \A i \in DOMAIN txs' : TxOK(i)'
  BY TxsKept
<1>4. ConfirmedIsOnChain'
  BY <1>1 DEF BridgeInv, ConfirmedIsOnChain, TxsOf
<1> QED
  BY <1>2, <1>3, <1>4

\* Every step of a fibre that has started keeps the invariant.
LEMMA ContinueHolds ==
    ASSUME BridgeInv, Grows, Typed', NEW f \in Fibres, Continue(f)
    PROVE  Held'
<1> USE DEF contract, engine
<1>0. /\ Typed /\ FibreOK(f) /\ fibre[f] \in FibreType
      /\ fibre[f].s # 0 => fibre[f].s \in Settlements /\ RowOK(fibre[f].s)
  BY DEF BridgeInv, Typed, FibreType
<1>1. CASE processSettlement(f)
  <2>1. fibre[f].s # 0 /\ f \in Slots
    BY <1>0, <1>1 DEF processSettlement, At, FibreOK, JobSteps
  <2>2. CASE Finish(f) \/ Throw(f)
    BY <1>1, <2>2, LeaveHolds DEF processSettlement
  <2>3. CASE GoTo(f, "submit") /\ Committed(fibre[f].s) /\ UNCHANGED job
    <3>1. \A g \in Fibres : FibreOK(g)'
      BY <1>1, <2>1, <2>3, WentOK DEF processSettlement, At, Steps, JobSteps, TxSteps
    <3> QED
      BY <1>1, <2>3, <3>1, MoveHolds DEF processSettlement
  <2>4. CASE GoTo(f, "reconcile") /\ Committed(fibre[f].s) /\ UNCHANGED job
    <3>1. \A g \in Fibres : FibreOK(g)'
      BY <1>1, <2>1, <2>4, WentOK DEF processSettlement, At, Steps, JobSteps, TxSteps
    <3> QED
      BY <1>1, <2>4, <3>1, MoveHolds DEF processSettlement
  <2> QED
    BY <1>1, <2>2, <2>3, <2>4 DEF processSettlement
<1>2. CASE submitSettlement(f)
  <2>1. fibre[f].s # 0 /\ f \in Slots /\ Committed(fibre[f].s)
    BY <1>0, <1>2 DEF submitSettlement, At, FibreOK, JobSteps
  <2>2. \A g \in Fibres : FibreOK(g)'
    <3>1. GoTo(f, "broadcast") \/ GoTo(f, "reconcile")
      BY <1>2 DEF submitSettlement
    <3>2. CASE GoTo(f, "broadcast")
      BY <1>2, <2>1, <3>2, WentOK DEF submitSettlement, At, Steps, JobSteps, TxSteps
    <3>3. CASE GoTo(f, "reconcile")
      BY <1>2, <2>1, <3>3, WentOK DEF submitSettlement, At, Steps, JobSteps, TxSteps
    <3> QED
      BY <3>1, <3>2, <3>3
  <2> QED
    BY <1>2, <2>2, MoveHolds DEF submitSettlement
<1>3. CASE writeContract(f)
  <2>1. fibre[f].s \in Settlements /\ f \in Slots /\ Committed(fibre[f].s)
    BY <1>0, <1>3 DEF writeContract, At, FibreOK, JobSteps
  <2>2. CASE UNCHANGED txs /\ Throw(f)
    BY <1>3, <2>2, LeaveHolds DEF writeContract
  <2>3. ASSUME txs' = Append(txs, NewTx(fibre[f].s))
        PROVE  /\ \A s \in Settlements : RowOK(s)'
               /\ \A i \in DOMAIN txs' : TxOK(i)'
               /\ ConfirmedIsOnChain'
    <3>1. /\ row' = row /\ request' = request
          /\ DOMAIN txs' = DOMAIN txs \cup {Len(txs) + 1}
          /\ txs'[Len(txs) + 1] = NewTx(fibre[f].s)
          /\ \A i \in DOMAIN txs : txs'[i] = txs[i]
      BY <1>0, <1>3, <2>3 DEF writeContract, Typed
    <3>2. \A s \in Settlements : RowOK(s)'
      BY <3>1 DEF BridgeInv, RowOK, InTransaction
    <3>3. \A i \in DOMAIN txs : TxOK(i)'
      BY <3>1 DEF BridgeInv, TxOK, Committed, user
    <3>4. \A i : i = Len(txs) + 1 => TxOK(i)'
      BY <2>1, <3>1 DEF TxOK, NewTx, Committed, user
    <3>5. ConfirmedIsOnChain'
      BY <3>1 DEF BridgeInv, ConfirmedIsOnChain, TxsOf
    <3> QED
      BY <3>1, <3>2, <3>3, <3>4, <3>5
  <2>4. CASE txs' = Append(txs, NewTx(fibre[f].s)) /\ Throw(f) /\ Fault
    BY <1>3, <2>3, <2>4, LeftOK, JobsLeft DEF writeContract, Held
  <2>5. CASE /\ txs' = Append(txs, NewTx(fibre[f].s))
             /\ fibre' = [fibre EXCEPT ![f].pc = "record", ![f].hash = Len(txs) + 1]
             /\ UNCHANGED <<job, faults>>
    <3>0. Len(txs) + 1 \in Nat
      BY <1>0 DEF Typed
    <3>1. /\ fibre'[f].pc = "record" /\ fibre'[f].hash = Len(txs) + 1
          /\ fibre'[f].s = fibre[f].s /\ fibre'[f].batch = fibre[f].batch
          /\ \A g \in Fibres \ {f} : fibre'[g] = fibre[g]
      BY <2>5, <3>0, HashEffect DEF Steps
    <3>2. /\ Len(txs) + 1 \in DOMAIN txs'
          /\ txs'[Len(txs) + 1].s = fibre[f].s
      BY <1>0, <2>5 DEF Typed, NewTx
    <3>3. FibreOK(f)'
      BY <1>0, <1>3, <2>1, <2>5, <3>1, <3>2 DEF FibreOK, TxSteps, JobSteps, Grows, writeContract, At
    <3>4. \A g \in Fibres : FibreOK(g)'
      BY <3>1, <3>3, OneMoves
    <3>5. \A s \in Settlements : JobOK(s)'
      BY <1>3, <2>5, JobsKept DEF writeContract
    <3> QED
      BY <2>3, <2>5, <3>4, <3>5 DEF Held
  <2> QED
    BY <1>3, <2>2, <2>4, <2>5 DEF writeContract
<1>4. CASE recordSubmission(f)
  <2>1. /\ fibre[f].s \in Settlements /\ f \in Slots /\ Committed(fibre[f].s)
        /\ fibre[f].hash \in DOMAIN txs /\ txs[fibre[f].hash].s = fibre[f].s
        /\ fibre[f].hash \in Nat \ {0}
    BY <1>0, <1>4 DEF recordSubmission, At, FibreOK, JobSteps, TxSteps, Typed
  <2>2. \A g \in Fibres : FibreOK(g)'
    BY <1>4, <2>1, Basics, WentOK DEF recordSubmission, At, Steps, JobSteps, TxSteps
  <2>3. /\ \A t \in Settlements \ {fibre[f].s} : row'[t] = row[t]
        /\ row'[fibre[f].s].status = "SUBMITTED"
        /\ row'[fibre[f].s].hash = fibre[f].hash /\ row'[fibre[f].s].pnl = row[fibre[f].s].pnl
        /\ row'[fibre[f].s].position = row[fibre[f].s].position
        /\ request' = request /\ txs' = txs /\ job' = job
    BY <1>4, <2>1, RecordEffect DEF recordSubmission
  <2>4. \A s \in Settlements : RowOK(s)'
    <3>1. \A s \in Settlements \ {fibre[f].s} : RowOK(s)'
      BY <2>3 DEF BridgeInv, RowOK, InTransaction
    <3>2. \A s \in Settlements : s = fibre[f].s => RowOK(s)'
      BY <1>0, <2>1, <2>3, Basics DEF RowOK, InTransaction, Committed
    <3> QED
      BY <3>1, <3>2
  <2>5. \A i \in DOMAIN txs' : TxOK(i)'
    BY <2>3, TxsKept
  <2>6. ConfirmedIsOnChain'
    BY <2>3 DEF BridgeInv, ConfirmedIsOnChain, TxsOf
  <2> QED
    BY <2>2, <2>3, <2>4, <2>5, <2>6, JobsKept DEF Held
<1>5. CASE reconcileSettlement(f)
  <2>1. CASE Finish(f)
    BY <1>5, <2>1, LeaveHolds DEF reconcileSettlement
  <2>2. CASE /\ fibre' = [fibre EXCEPT ![f].pc = "receipt", ![f].hash = row[fibre[f].s].hash]
             /\ row[fibre[f].s].hash # 0
             /\ UNCHANGED job
    <3>1. fibre[f].s \in Settlements /\ Committed(fibre[f].s) /\ fibre[f].s # 0
      BY <1>0, <1>5 DEF reconcileSettlement, At, FibreOK
    <3>2. row[fibre[f].s].hash \in DOMAIN txs /\ txs[row[fibre[f].s].hash].s = fibre[f].s
      BY <1>0, <2>2, <3>1 DEF RowOK
    <3>3. row[fibre[f].s].hash \in Nat
      BY <1>0, <3>2 DEF Typed
    <3>4. /\ fibre'[f].pc = "receipt" /\ fibre'[f].hash = row[fibre[f].s].hash
          /\ fibre'[f].s = fibre[f].s /\ fibre'[f].batch = fibre[f].batch
          /\ \A g \in Fibres \ {f} : fibre'[g] = fibre[g]
      BY <2>2, <3>3, HashEffect DEF Steps
    <3>5. FibreOK(f)'
      BY <1>0, <1>5, <2>2, <3>1, <3>2, <3>4
      DEF FibreOK, TxSteps, JobSteps, Grows, reconcileSettlement, At
    <3>6. \A g \in Fibres : FibreOK(g)'
      BY <3>4, <3>5, OneMoves
    <3> QED
      BY <1>5, <2>2, <3>6, MoveHolds DEF reconcileSettlement
  <2> QED
    BY <1>5, <2>1, <2>2 DEF reconcileSettlement
<1>6. CASE getSettlementReceipt(f)
  <2>1. /\ fibre[f].s \in Settlements /\ Committed(fibre[f].s) /\ fibre[f].s # 0
        /\ fibre[f].hash \in DOMAIN txs /\ txs[fibre[f].hash].s = fibre[f].s
        /\ row[fibre[f].s].hash # 0
    BY <1>0, <1>6 DEF getSettlementReceipt, At, FibreOK, TxSteps
  <2>2. CASE Finish(f)
    BY <1>6, <2>2, LeaveHolds DEF getSettlementReceipt
  <2>3. CASE GoTo(f, "confirm") /\ txs[fibre[f].hash].st = "confirmed" /\ UNCHANGED job
    <3>1. \A g \in Fibres : FibreOK(g)'
      BY <1>6, <2>1, <2>3, WentOK DEF getSettlementReceipt, At, Steps, JobSteps, TxSteps
    <3> QED
      BY <1>6, <2>3, <3>1, MoveHolds DEF getSettlementReceipt
  <2>4. CASE /\ txs[fibre[f].hash].st = "confirmed"
             /\ ~receiptMatchesSettlement(txs[fibre[f].hash], fibre[f].s)
    BY <2>1, <2>4 DEF BridgeInv, TxOK, receiptMatchesSettlement
  <2>5. CASE GoTo(f, "fail") /\ txs[fibre[f].hash].st = "reverted" /\ UNCHANGED job
    <3>1. \A g \in Fibres : FibreOK(g)'
      BY <1>6, <2>1, <2>5, WentOK DEF getSettlementReceipt, At, Steps, JobSteps, TxSteps
    <3> QED
      BY <1>6, <2>5, <3>1, MoveHolds DEF getSettlementReceipt
  <2> QED
    BY <1>6, <2>2, <2>3, <2>4, <2>5 DEF getSettlementReceipt
<1>7. CASE markConfirmed(f)
  <2>1. /\ fibre[f].s \in Settlements /\ Committed(fibre[f].s) /\ row[fibre[f].s].hash # 0
        /\ fibre[f].hash \in TxsOf(fibre[f].s) /\ txs[fibre[f].hash].st = "confirmed"
    BY <1>0, <1>7 DEF markConfirmed, At, FibreOK, TxSteps, TxsOf
  <2>2. user(fibre[f].s) \in Users
    BY <1>0, <2>1, Basics DEF user, Typed, RowType
  <2>3. /\ fibre'[f].pc = "readBalance" /\ fibre'[f].u = user(fibre[f].s)
        /\ fibre'[f].s = fibre[f].s /\ fibre'[f].batch = fibre[f].batch
        /\ fibre'[f].hash = fibre[f].hash
        /\ \A g \in Fibres \ {f} : fibre'[g] = fibre[g]
    BY <1>7, <2>2, UserEffect DEF markConfirmed, Steps
  <2>4. FibreOK(f)'
    BY <1>0, <1>7, <2>2, <2>3, Basics DEF FibreOK, TxSteps, JobSteps, Grows, markConfirmed, At
  <2>5. \A g \in Fibres : FibreOK(g)'
    BY <2>3, <2>4, OneMoves
  <2> QED
    BY <1>7, <2>1, <2>5, VerdictOK, JobsKept DEF markConfirmed, Held
<1>8. CASE markSettlementFailed(f)
  <2>1. fibre[f].s \in Settlements /\ Committed(fibre[f].s) /\ row[fibre[f].s].hash # 0
    BY <1>0, <1>8 DEF markSettlementFailed, At, FibreOK, TxSteps
  <2> QED
    BY <1>8, <2>1, VerdictOK, LeftOK, JobsLeft DEF markSettlementFailed, Held
<1>9. CASE readSettledBalance(f)
  <2>1. fibre[f].u \in Users
    BY <1>0, <1>9 DEF readSettledBalance, At, FibreOK, FibreType
  <2>2. settledBalance[fibre[f].u] \in Nat
    BY <1>0, <2>1 DEF Typed
  <2>3. /\ fibre'[f].pc = "writeMirror" /\ fibre'[f].u = fibre[f].u
        /\ fibre'[f].s = fibre[f].s /\ fibre'[f].batch = fibre[f].batch
        /\ fibre'[f].hash = fibre[f].hash
        /\ \A g \in Fibres \ {f} : fibre'[g] = fibre[g]
    BY <1>9, <2>2, BalanceEffect DEF readSettledBalance, Steps
  <2>4. FibreOK(f)'
    BY <1>0, <1>9, <2>1, <2>3, Basics DEF FibreOK, TxSteps, JobSteps, Grows, readSettledBalance, At
  <2>5. \A g \in Fibres : FibreOK(g)'
    BY <2>3, <2>4, OneMoves
  <2> QED
    BY <1>9, <2>5, MoveHolds DEF readSettledBalance
<1>10. CASE syncSettledBalance(f)
  BY <1>10, LeaveHolds DEF syncSettledBalance
<1>11. CASE NextItem(f)
  <2>1. PICK i \in fibre[f].batch :
           /\ fibre'[f].batch = fibre[f].batch \ {i}
           /\ \/ /\ f \in Ticks /\ i \in Settlements /\ Committed(i)
                 /\ fibre'[f].pc = "reconcile" /\ fibre'[f].s = i
              \/ /\ f \in Polls /\ i \in Users
                 /\ fibre'[f].pc = "readBalance" /\ fibre'[f].u = i /\ fibre'[f].s = 0
    BY <1>11, ItemEffect
  <2>2. /\ f \notin Slots /\ fibre'[f].hash = fibre[f].hash
        /\ \A g \in Fibres \ {f} : fibre'[g] = fibre[g]
    BY <1>11, ItemEffect
  <2>3. f \in Ticks => f \notin Polls
    BY BridgeAssumption
  <2>4. FibreOK(f)'
    BY <1>0, <2>1, <2>2, <2>3, Basics DEF FibreOK, TxSteps, JobSteps, Grows
  <2>5. \A g \in Fibres : FibreOK(g)'
    BY <2>2, <2>4, OneMoves
  <2> QED
    BY <1>11, <2>5, MoveHolds DEF NextItem
<1> QED
  BY <1>1, <1>2, <1>3, <1>4, <1>5, <1>6, <1>7, <1>8, <1>9, <1>10, <1>11 DEF Continue

\* Every step keeps BridgeInv.
LEMMA BridgeStep == BridgeInv /\ [Next]_vars => BridgeInv'
<1> SUFFICES ASSUME BridgeInv, [Next]_vars
             PROVE  BridgeInv'
  OBVIOUS
<1> USE DEF contract, engine
<1>0. Typed' /\ Grows
  BY TypedStep, GrowsStep
<1> SUFFICES Held'
  BY <1>0 DEF BridgeInv, Held
<1>1. ASSUME UNCHANGED <<row, request, job, fibre>>, DOMAIN txs' = DOMAIN txs
      PROVE  Held'
  BY <1>0, <1>1, HeldStays, Quiet, JobsKept DEF Held
<1>2. ASSUME NEW s \in Settlements, Request(s) \/ RecoverStalledJob(s) \/ LoseLock(s)
      PROVE  Held'
  BY <1>0, <1>2, RequestHolds, StallHolds
<1>3. ASSUME NEW f \in Slots, NEW s \in Settlements, TakeJob(f, s)
      PROVE  Held'
  BY <1>0, <1>3, TakeHolds
<1>4. ASSUME NEW f \in Fibres, Continue(f)
      PROVE  Held'
  BY <1>0, <1>4, ContinueHolds
<1>5. ASSUME NEW f \in Fibres, Start(f)
      PROVE  Held'
  <2>1. f \in Ticks => f \notin Polls
    BY BridgeAssumption
  <2>2. FibreOK(f)'
    BY <1>0, <1>5, <2>1, StartEffect DEF FibreOK, TxSteps, JobSteps, Grows
  <2>3. \A g \in Fibres : FibreOK(g)'
    BY <1>0, <1>5, <2>2, StartEffect, OneMoves
  <2> QED
    BY <1>0, <1>5, <2>3, MoveHolds DEF Start, reconcileSubmittedSettlements, syncAllWallets
<1>6. ASSUME NEW f \in Fibres, AwaitFails(f)
      PROVE  Held'
  BY <1>0, <1>6, LeaveHolds DEF AwaitFails
<1>7. ASSUME NEW i \in DOMAIN txs, Mine(i) \/ Drop(i)
      PROVE  Held'
  <2>1. DOMAIN txs' = DOMAIN txs
    BY <1>7 DEF BridgeInv, Typed, Mine, Drop
  <2> QED
    BY <1>1, <1>7, <2>1 DEF Mine, Drop
<1>8. CASE Crash
  <2>1. UNCHANGED <<row, request, job, txs>> /\ \A f \in Fibres : fibre'[f] = Idle
    BY <1>8 DEF Crash
  <2>2. \A f \in Fibres : FibreOK(f)'
    BY <2>1, Basics DEF FibreOK, TxSteps, JobSteps
  <2> QED
    BY <1>0, <2>1, <2>2, MoveHolds
<1>9. CASE OthersUseVault
  BY <1>1, <1>9 DEF OthersUseVault
<1>10. CASE UNCHANGED vars
  BY <1>1, <1>10 DEF vars
<1> QED
  BY <1>2, <1>3, <1>4, <1>5, <1>6, <1>7, <1>8, <1>9, <1>10 DEF Next

\* BridgeInv holds at first.
LEMMA BridgeStart == Init => BridgeInv
<1> SUFFICES ASSUME Init
             PROVE  BridgeInv
  OBVIOUS
<1>1. Typed
  BY Basics, BridgeAssumption DEF Init, Typed
<1>2. \A s \in Settlements : RowOK(s) /\ JobOK(s)
  BY Basics DEF Init, RowOK, JobOK, NoJob, InTransaction
<1>3. \A f \in Fibres : FibreOK(f)
  BY Basics DEF Init, FibreOK, JobSteps, TxSteps
<1>4. ConfirmedIsOnChain /\ DOMAIN txs = {}
  BY Basics DEF Init, ConfirmedIsOnChain
<1> QED
  BY <1>1, <1>2, <1>3, <1>4 DEF BridgeInv

\* The inductive invariant holds, whether or not job locks expire.
THEOREM BridgeIsSound == Spec => []BridgeInv
BY BridgeStart, BridgeStep, PTL DEF Spec

\* Every variable keeps its type: a hash on record or held by a fibre is that
\* of a transaction that was sent, and a live job has attempts left.
THEOREM BridgeTypes == Spec => []TypeOK
<1>1. BridgeInv => TypeOK
  <2> SUFFICES ASSUME BridgeInv
               PROVE  TypeOK
    OBVIOUS
  <2>1. Typed /\ DOMAIN txs = 1..Len(txs) /\ Len(txs) \in Nat
    BY DEF BridgeInv, Typed
  <2>2. row \in [Settlements -> [status : Statuses, position : Positions,
                                 pnl : Pnls \cup {0}, hash : 0..Len(txs)]]
    <3>1. \A s \in Settlements : row[s] \in RowType /\ RowOK(s)
      BY <2>1 DEF BridgeInv, Typed
    <3>2. \A s \in Settlements : row[s].hash \in 0..Len(txs)
      BY <2>1, <3>1 DEF RowOK
    <3>3. \A s \in Settlements : row[s] \in [status : Statuses, position : Positions,
                                             pnl : Pnls \cup {0}, hash : 0..Len(txs)]
      BY <3>1, <3>2 DEF RowType
    <3> QED
      BY <2>1, <3>3 DEF Typed
  <2>3. \A i \in DOMAIN txs : txs[i] \in TxType
    BY <2>1 DEF Typed
  <2>4. \A f \in Fibres : /\ fibre[f].pc \in Steps /\ fibre[f].s \in Settlements \cup {0}
                          /\ fibre[f].hash \in 0..Len(txs)
    <3>1. \A f \in Fibres : fibre[f] \in FibreType /\ FibreOK(f)
      BY <2>1 DEF BridgeInv, Typed
    <3> QED
      BY <2>1, <3>1 DEF FibreOK, FibreType
  <2> QED
    BY <2>1, <2>2, <2>3, <2>4 DEF TypeOK, Typed, JobType, TxType
<1> QED
  BY <1>1, BridgeIsSound, PTL

\* A settlement the engine calls confirmed was applied by the vault: with any
\* number of slots, ticks and polls, any failures, and locks that expire.
THEOREM ConfirmedMeansApplied == Spec => []ConfirmedIsOnChain
<1>1. BridgeInv => ConfirmedIsOnChain
  BY DEF BridgeInv
<1> QED
  BY <1>1, BridgeIsSound, PTL

---------------------------------------------------------------------------
(* Transactions beyond the first.                                          *)

\* The sets that are counted are finite.
LEMMA CountsAreFinite ==
    ASSUME Typed, NEW s \in Settlements
    PROVE  /\ IsFiniteSet(TxsOf(s)) /\ Cardinality(TxsOf(s)) \in Nat
           /\ IsFiniteSet(Senders(s)) /\ Cardinality(Senders(s)) \in Nat
           /\ Ready(s) \in {0, 1}
           /\ faults \in Nat
<1>1. IsFiniteSet(1..Len(txs)) /\ TxsOf(s) \subseteq 1..Len(txs)
  BY FS_Interval DEF Typed, TxsOf
<1>2. IsFiniteSet(Slots) /\ Senders(s) \subseteq Slots
  BY BridgeAssumption DEF Senders
<1>3. IsFiniteSet(TxsOf(s)) /\ IsFiniteSet(Senders(s))
  BY <1>1, <1>2, FS_Subset
<1>4. Ready(s) \in {0, 1} /\ faults \in Nat
  BY BridgeAssumption DEF Ready, Typed
<1> QED
  BY <1>3, <1>4, FS_CardinalityType

\* A step stays within the budget of s when what it adds is paid for: by a
\* failure, or by a fibre that could send and no longer can.
LEMMA Paid ==
    ASSUME Typed, Typed', NEW s \in Settlements, Within(s),
           Senders(s)' \subseteq Senders(s), faults' \in {faults, faults + 1},
           \/ TxsOf(s)' = TxsOf(s) /\ (Ready(s)' <= Ready(s) \/ faults' = faults + 1)
           \/ TxsOf(s)' = TxsOf(s) /\ \E f \in Senders(s) : f \notin Senders(s)'
           \/ /\ \E i : TxsOf(s)' = TxsOf(s) \cup {i}
              /\ \E f \in Senders(s) : f \notin Senders(s)'
              /\ Ready(s)' <= Ready(s) \/ faults' = faults + 1
    PROVE  Within(s)'
<1>1. /\ IsFiniteSet(TxsOf(s)) /\ Cardinality(TxsOf(s)) \in Nat
      /\ IsFiniteSet(Senders(s)) /\ Cardinality(Senders(s)) \in Nat
      /\ Ready(s) \in {0, 1} /\ faults \in Nat
  BY CountsAreFinite
<1>2. /\ IsFiniteSet(TxsOf(s)') /\ Cardinality(TxsOf(s)') \in Nat
      /\ IsFiniteSet(Senders(s)') /\ Cardinality(Senders(s)') \in Nat
      /\ Ready(s)' \in {0, 1} /\ faults' \in Nat
  <2>1. IsFiniteSet(1..Len(txs')) /\ TxsOf(s)' \subseteq 1..Len(txs')
    <3>1. Len(txs') \in Nat /\ DOMAIN txs' = 1..Len(txs')
      BY DEF Typed
    <3>2. TxsOf(s)' \subseteq 1..Len(txs')
      BY <3>1 DEF TxsOf
    <3> QED
      BY <3>1, <3>2, FS_Interval
  <2>2. IsFiniteSet(TxsOf(s)') /\ IsFiniteSet(Senders(s)')
    BY <1>1, <2>1, FS_Subset
  <2>3. Ready(s)' \in {0, 1} /\ faults' \in Nat
    BY BridgeAssumption DEF Ready, Typed
  <2> QED
    BY <2>2, <2>3, FS_CardinalityType
<1>3. Cardinality(Senders(s)') <= Cardinality(Senders(s))
  BY <1>1, FS_Subset
<1>4. ASSUME NEW f \in Senders(s), f \notin Senders(s)'
      PROVE  Cardinality(Senders(s)') + 1 <= Cardinality(Senders(s))
  <2>1. IsFiniteSet(Senders(s) \ {f}) /\ Cardinality(Senders(s) \ {f}) = Cardinality(Senders(s)) - 1
    BY <1>1, FS_RemoveElement
  <2>2. Senders(s)' \subseteq Senders(s) \ {f}
    BY <1>4
  <2>3. Cardinality(Senders(s)') <= Cardinality(Senders(s) \ {f})
    BY <2>1, <2>2, FS_Subset
  <2> QED
    BY <1>1, <1>2, <2>1, <2>3
<1>5. ASSUME NEW i, TxsOf(s)' = TxsOf(s) \cup {i}
      PROVE  Cardinality(TxsOf(s)') <= Cardinality(TxsOf(s)) + 1
  <2>1. Cardinality(TxsOf(s) \cup {i}) \in {Cardinality(TxsOf(s)), Cardinality(TxsOf(s)) + 1}
    BY <1>1, FS_AddElement
  <2> QED
    BY <1>1, <1>5, <2>1
<1>6. SUFFICES Cardinality(TxsOf(s)') + Cardinality(Senders(s)') + Ready(s)' <= 1 + faults'
  BY DEF Within
<1>7. Cardinality(TxsOf(s)) + Cardinality(Senders(s)) + Ready(s) <= 1 + faults
  BY DEF Within
<1>8. CASE TxsOf(s)' = TxsOf(s) /\ (Ready(s)' <= Ready(s) \/ faults' = faults + 1)
  BY <1>1, <1>2, <1>3, <1>7, <1>8
<1>9. CASE TxsOf(s)' = TxsOf(s) /\ \E f \in Senders(s) : f \notin Senders(s)'
  BY <1>1, <1>2, <1>4, <1>7, <1>9
<1>10. CASE /\ \E i : TxsOf(s)' = TxsOf(s) \cup {i}
            /\ \E f \in Senders(s) : f \notin Senders(s)'
            /\ Ready(s)' <= Ready(s) \/ faults' = faults + 1
  BY <1>1, <1>2, <1>4, <1>5, <1>7, <1>10
<1> QED
  BY <1>8, <1>9, <1>10

\* While jobs stay, and no slot turns to another item, no job becomes ready.
LEMMA ReadyKept ==
    ASSUME BridgeInv, UNCHANGED job, \A f \in Slots : fibre'[f].s = fibre[f].s,
           NEW s \in Settlements
    PROVE  Ready(s)' <= Ready(s)
<1>1. job[s].st = "active" => job[s].holder \in Slots
  BY DEF BridgeInv, Typed, JobOK, JobType
<1> QED
  BY <1>1 DEF Ready

\* A fibre that moves sends no more than before, unless it starts on a job.
LEMMA SendersKept ==
    ASSUME NEW f \in Fibres, \A g \in Fibres \ {f} : fibre'[g] = fibre[g],
           NEW s \in Settlements,
           \/ fibre'[f].pc \notin {"process", "submit", "broadcast"}
           \/ /\ fibre[f].pc \in {"process", "submit", "broadcast"}
              /\ fibre'[f].s = fibre[f].s
    PROVE  Senders(s)' \subseteq Senders(s)
BY DEF Senders, Fibres

\* A fibre that ends its item makes no job ready; one that throws readies at
\* most the job of its item.
LEMMA LeaveBudget ==
    ASSUME BridgeInv, NEW f \in Fibres, Finish(f) \/ Throw(f), NEW s \in Settlements
    PROVE  /\ Senders(s)' \subseteq Senders(s) \ {f}
           /\ Finish(f) \/ f \notin Slots \/ fibre[f].s # s => Ready(s)' <= Ready(s)
<1>1. Senders(s)' \subseteq Senders(s) \ {f}
  BY LeaveEffect DEF Senders, Fibres
<1>2. ASSUME Finish(f) \/ f \notin Slots \/ fibre[f].s # s
      PROVE  Ready(s)' <= Ready(s)
  <2>1. CASE job'[s] # job[s]
    <3>1. job'[s].st = "completed"
      BY <1>2, <2>1, LeaveEffect
    <3> QED
      BY <3>1 DEF Ready
  <2>2. CASE job'[s] = job[s]
    <3>1. job[s].st = "active" => job[s].holder \in Slots
      BY DEF BridgeInv, Typed, JobOK, JobType
    <3>2. CASE job[s].holder # f
      <4>1. job[s].st = "active" => fibre'[job[s].holder] = fibre[job[s].holder]
        BY <3>1, <3>2, LeaveEffect DEF Fibres
      <4> QED
        BY <2>2, <4>1 DEF Ready
    <3>3. CASE job[s].holder = f
      <4>1. job[s].st = "active" => f \in Slots /\ fibre[f].s # s
        BY <2>2, <3>1, <3>3, LeaveEffect, BridgeAssumption
      <4> QED
        BY <2>2, <3>3, <4>1 DEF Ready
    <3> QED
      BY <3>2, <3>3
  <2> QED
    BY <2>1, <2>2
<1> QED
  BY <1>1, <1>2

\* A fibre that goes on with its item, and sends nothing, costs nothing.
LEMMA CalmBudget ==
    ASSUME BridgeInv, Typed', NEW s \in Settlements, Within(s), NEW f \in Fibres,
           \A g \in Fibres \ {f} : fibre'[g] = fibre[g],
           f \in Slots => fibre'[f].s = fibre[f].s,
           UNCHANGED <<job, txs>>, faults' \in {faults, faults + 1},
           \/ fibre'[f].pc \notin {"process", "submit", "broadcast"}
           \/ /\ fibre[f].pc \in {"process", "submit", "broadcast"}
              /\ fibre'[f].s = fibre[f].s
    PROVE  Within(s)'
<1>1. Typed
  BY DEF BridgeInv
<1>2. Senders(s)' \subseteq Senders(s)
  BY SendersKept
<1>3. \A g \in Slots : fibre'[g].s = fibre[g].s
  BY DEF Fibres
<1>4. Ready(s)' <= Ready(s)
  BY <1>3, ReadyKept
<1>5. TxsOf(s)' = TxsOf(s)
  BY DEF TxsOf
<1> QED
  BY <1>1, <1>2, <1>4, <1>5, Paid

\* A fibre that ends its item, or throws while it could still send, or because
\* of a failure, stays within the budget.
LEMMA LeaveWithin ==
    ASSUME BridgeInv, Typed', NEW s \in Settlements, Within(s), NEW f \in Fibres,
           \/ Finish(f) /\ faults' = faults
           \/ Throw(f) /\ fibre[f].pc \in {"process", "submit", "broadcast"} /\ faults' = faults
           \/ Throw(f) /\ faults' = faults + 1,
           UNCHANGED txs
    PROVE  Within(s)'
<1>1. Typed /\ faults \in Nat /\ Senders(s)' \subseteq Senders(s) \ {f}
  BY LeaveBudget DEF BridgeInv, Typed
<1>2. TxsOf(s)' = TxsOf(s)
  BY DEF TxsOf
<1>3. CASE f \in Slots /\ fibre[f].s = s /\ Throw(f) /\ faults' = faults /\ ~Finish(f)
  <2>1. f \in Senders(s)
    BY <1>1, <1>3 DEF Senders
  <2> QED
    BY <1>1, <1>2, <1>3, <2>1, Paid
<1>4. CASE Finish(f) \/ f \notin Slots \/ fibre[f].s # s
  <2>1. Ready(s)' <= Ready(s)
    BY <1>4, LeaveBudget
  <2> QED
    BY <1>1, <1>2, <2>1, Paid
<1>5. CASE faults' = faults + 1
  BY <1>1, <1>2, <1>5, Paid
<1> QED
  BY <1>3, <1>4, <1>5

\* Every step keeps BudgetInv.
LEMMA BudgetStep == BridgeInv /\ BridgeInv' /\ BudgetInv /\ [Next]_vars => BudgetInv'
<1> SUFFICES ASSUME BridgeInv, Typed', [Next]_vars, NEW s \in Settlements, Within(s)
             PROVE  Within(s)'
  BY DEF BudgetInv, BridgeInv, Settlements
<1> USE DEF contract, engine
<1>0. Typed /\ faults \in Nat
  BY DEF BridgeInv, Typed
<1>1. ASSUME NEW r \in Settlements, Request(r)
      PROVE  Within(s)'
  <2>1. /\ UNCHANGED <<fibre, txs, faults>> /\ TxsOf(s)' = TxsOf(s) /\ Senders(s)' = Senders(s)
    BY <1>1 DEF Request, queueSettlementRequest, AddJob, Commit, Abort, TxsOf, Senders
  <2>2. CASE AddJob(r) /\ r = s
    <3>1. job[s].st = "none" /\ ~Committed(s)
      BY <2>2 DEF AddJob, BridgeInv, JobOK, Committed
    <3>2. TxsOf(s) = {}
      BY <3>1 DEF TxsOf, BridgeInv, TxOK
    <3>3. Senders(s) = {}
      BY <3>1 DEF Senders, BridgeInv, FibreOK, Fibres, Settlements
    <3>4. Ready(s)' \in {0, 1}
      BY DEF Ready
    <3> QED
      BY <1>0, <2>1, <3>2, <3>3, <3>4, FS_EmptySet DEF Within
  <2>3. CASE ~(AddJob(r) /\ r = s)
    <3>1. job'[s] = job[s]
      BY <1>0, <1>1, <2>3 DEF Request, queueSettlementRequest, AddJob, Commit, Abort, Typed
    <3>2. Ready(s)' <= Ready(s)
      BY <2>1, <3>1 DEF Ready
    <3> QED
      BY <1>0, <2>1, <3>2, Paid
  <2> QED
    BY <2>2, <2>3
<1>2. ASSUME NEW r \in Settlements, RecoverStalledJob(r) \/ LoseLock(r)
      PROVE  Within(s)'
  <2>1. /\ UNCHANGED <<fibre, txs>> /\ TxsOf(s)' = TxsOf(s) /\ Senders(s)' = Senders(s)
        /\ faults' \in {faults, faults + 1}
    BY <1>2 DEF RecoverStalledJob, LoseLock, Fault, TxsOf, Senders
  <2>2. Ready(s)' <= Ready(s) \/ faults' = faults + 1
    <3>1. CASE LoseLock(r)
      BY <3>1 DEF LoseLock, Fault
    <3>2. CASE RecoverStalledJob(r) /\ r = s
      BY <3>2 DEF RecoverStalledJob, Ready
    <3>3. CASE RecoverStalledJob(r) /\ r # s
      <4>1. job'[s] = job[s]
        BY <1>0, <3>3 DEF RecoverStalledJob, Typed
      <4> QED
        BY <2>1, <4>1 DEF Ready
    <3> QED
      BY <1>2, <3>1, <3>2, <3>3
  <2> QED
    BY <1>0, <2>1, <2>2, Paid
<1>3. ASSUME NEW f \in Slots, NEW r \in Settlements, TakeJob(f, r)
      PROVE  Within(s)'
  <2>0. UNCHANGED <<txs, faults>> /\ TxsOf(s)' = TxsOf(s)
    BY <1>3 DEF TakeJob, TxsOf
  <2>1. CASE r = s
    <3>1. Senders(s)' = Senders(s) \cup {f} /\ f \notin Senders(s)
      BY <1>3, <2>1, TakeEffect DEF Senders, Fibres, Settlements
    <3>2. Cardinality(Senders(s)') = Cardinality(Senders(s)) + 1
      BY <1>0, <3>1, CountsAreFinite, FS_AddElement
    <3>3. Ready(s) = 1 /\ Ready(s)' = 0
      BY <1>3, <2>1, TakeEffect DEF Ready
    <3>4. Cardinality(Senders(s)) \in Nat /\ Cardinality(TxsOf(s)) \in Nat
      BY <1>0, CountsAreFinite
    <3> QED
      BY <1>0, <2>0, <3>2, <3>3, <3>4 DEF Within
  <2>2. CASE r # s
    <3>1. Senders(s)' \subseteq Senders(s)
      BY <1>3, <2>2, TakeEffect DEF Senders, Fibres
    <3>2. job[s].st = "active" => job[s].holder \in Fibres
      BY DEF BridgeInv, Typed, JobOK, JobType, Fibres
    <3>3. Ready(s)' <= Ready(s)
      BY <1>3, <2>2, <3>2, TakeEffect, Basics DEF Ready
    <3> QED
      BY <1>0, <2>0, <3>1, <3>3, Paid
  <2> QED
    BY <2>1, <2>2
<1>4. ASSUME NEW f \in Fibres, Continue(f)
      PROVE  Within(s)'
  <2>1. CASE processSettlement(f)
    <3>1. CASE Finish(f) \/ Throw(f)
      BY <2>1, <3>1, LeaveWithin DEF processSettlement, At
    <3>2. CASE GoTo(f, "submit") /\ UNCHANGED job
      BY <2>1, <3>2, GoToEffect, CalmBudget DEF processSettlement, At, Steps
    <3>3. CASE GoTo(f, "reconcile") /\ UNCHANGED job
      BY <2>1, <3>3, GoToEffect, CalmBudget DEF processSettlement, At, Steps
    <3> QED
      BY <2>1, <3>1, <3>2, <3>3 DEF processSettlement
  <2>2. CASE submitSettlement(f)
    <3>1. CASE GoTo(f, "broadcast")
      BY <2>2, <3>1, GoToEffect, CalmBudget DEF submitSettlement, At, Steps
    <3>2. CASE GoTo(f, "reconcile")
      BY <2>2, <3>2, GoToEffect, CalmBudget DEF submitSettlement, At, Steps
    <3> QED
      BY <2>2, <3>1, <3>2 DEF submitSettlement
  <2>3. CASE writeContract(f)
    <3>0. f \in Slots /\ fibre[f].s \in Settlements /\ fibre[f].pc = "broadcast"
      BY <2>3 DEF writeContract, At, BridgeInv, Typed, FibreType, FibreOK, JobSteps
    <3>1. CASE Throw(f) /\ UNCHANGED <<txs, faults>>
      BY <2>3, <3>0, <3>1, LeaveWithin DEF writeContract
    <3>2. ASSUME txs' = Append(txs, NewTx(fibre[f].s))
          PROVE  /\ fibre[f].s # s => TxsOf(s)' = TxsOf(s)
                 /\ fibre[f].s = s => TxsOf(s)' = TxsOf(s) \cup {Len(txs) + 1}
      <4>1. /\ DOMAIN txs' = DOMAIN txs \cup {Len(txs) + 1}
            /\ txs'[Len(txs) + 1].s = fibre[f].s
            /\ \A i \in DOMAIN txs : txs'[i] = txs[i]
            /\ Len(txs) + 1 \notin DOMAIN txs
        BY <1>0, <3>2 DEF Typed, NewTx
      <4> QED
        BY <4>1 DEF TxsOf
    <3>3. CASE /\ txs' = Append(txs, NewTx(fibre[f].s))
               /\ fibre' = [fibre EXCEPT ![f].pc = "record", ![f].hash = Len(txs) + 1]
               /\ UNCHANGED <<job, faults>>
      <4>0. Len(txs) + 1 \in Nat
        BY <1>0 DEF Typed
      <4>1. /\ \A g \in Fibres \ {f} : fibre'[g] = fibre[g]
            /\ fibre'[f].pc = "record" /\ fibre'[f].s = fibre[f].s
        BY <3>3, <4>0, HashEffect DEF Steps
      <4>2. Senders(s)' \subseteq Senders(s) /\ f \notin Senders(s)'
        BY <4>1, SendersKept DEF Senders
      <4>3. Ready(s)' <= Ready(s)
        BY <3>3, <4>1, ReadyKept DEF Fibres
      <4>4. fibre[f].s = s => f \in Senders(s)
        BY <3>0 DEF Senders
      <4> QED
        BY <1>0, <3>2, <3>3, <4>2, <4>3, <4>4, Paid
    <3>4. CASE txs' = Append(txs, NewTx(fibre[f].s)) /\ Throw(f) /\ Fault
      <4>1. Senders(s)' \subseteq Senders(s) \ {f}
        BY <3>4, LeaveBudget
      <4>2. fibre[f].s = s => f \in Senders(s)
        BY <3>0 DEF Senders
      <4>3. faults' = faults + 1
        BY <3>4 DEF Fault
      <4> QED
        BY <1>0, <3>2, <3>4, <4>1, <4>2, <4>3, Paid
    <3> QED
      BY <2>3, <3>1, <3>3, <3>4 DEF writeContract
  <2>4. CASE recordSubmission(f)
    BY <2>4, GoToEffect, CalmBudget DEF recordSubmission, At, Steps
  <2>5. CASE reconcileSettlement(f)
    <3>1. CASE Finish(f)
      BY <2>5, <3>1, LeaveWithin DEF reconcileSettlement
    <3>2. CASE /\ fibre' = [fibre EXCEPT ![f].pc = "receipt", ![f].hash = row[fibre[f].s].hash]
               /\ UNCHANGED job
      <4>1. fibre[f].s \in Settlements
        BY <2>5 DEF reconcileSettlement, At, BridgeInv, Typed, FibreType, FibreOK
      <4>2. row[fibre[f].s].hash \in Nat
        BY <1>0, <4>1 DEF Typed, RowType
      <4>3. /\ \A g \in Fibres \ {f} : fibre'[g] = fibre[g]
            /\ fibre'[f].pc = "receipt" /\ fibre'[f].s = fibre[f].s
        BY <3>2, <4>2, HashEffect DEF Steps
      <4> QED
        BY <2>5, <3>2, <4>3, CalmBudget DEF reconcileSettlement
    <3> QED
      BY <2>5, <3>1, <3>2 DEF reconcileSettlement
  <2>6. CASE getSettlementReceipt(f)
    <3>1. CASE Finish(f)
      BY <2>6, <3>1, LeaveWithin DEF getSettlementReceipt
    <3>2. CASE GoTo(f, "confirm") /\ UNCHANGED job
      BY <2>6, <3>2, GoToEffect, CalmBudget DEF getSettlementReceipt, Steps
    <3>3. CASE GoTo(f, "fail") /\ UNCHANGED job
      BY <2>6, <3>3, GoToEffect, CalmBudget DEF getSettlementReceipt, Steps
    <3> QED
      BY <2>6, <3>1, <3>2, <3>3 DEF getSettlementReceipt
  <2>7. CASE markConfirmed(f)
    <3>1. fibre[f].s \in Settlements
      BY <2>7 DEF markConfirmed, At, BridgeInv, Typed, FibreType, FibreOK, TxSteps
    <3>2. user(fibre[f].s) \in Users
      BY <1>0, <3>1, Basics DEF user, Typed, RowType
    <3>3. /\ \A g \in Fibres \ {f} : fibre'[g] = fibre[g]
          /\ fibre'[f].pc = "readBalance" /\ fibre'[f].s = fibre[f].s
      BY <2>7, <3>2, UserEffect DEF markConfirmed, Steps
    <3> QED
      BY <2>7, <3>3, CalmBudget DEF markConfirmed
  <2>8. CASE markSettlementFailed(f)
    BY <2>8, LeaveWithin DEF markSettlementFailed
  <2>9. CASE readSettledBalance(f)
    <3>1. fibre[f].u \in Users
      BY <2>9 DEF readSettledBalance, At, BridgeInv, Typed, FibreType, FibreOK
    <3>2. settledBalance[fibre[f].u] \in Nat
      BY <1>0, <3>1 DEF Typed
    <3>3. /\ \A g \in Fibres \ {f} : fibre'[g] = fibre[g]
          /\ fibre'[f].pc = "writeMirror" /\ fibre'[f].s = fibre[f].s
      BY <2>9, <3>2, BalanceEffect DEF readSettledBalance, Steps
    <3> QED
      BY <2>9, <3>3, CalmBudget DEF readSettledBalance
  <2>10. CASE syncSettledBalance(f)
    BY <2>10, LeaveWithin DEF syncSettledBalance
  <2>11. CASE NextItem(f)
    <3>1. /\ \A g \in Fibres \ {f} : fibre'[g] = fibre[g]
          /\ f \notin Slots /\ fibre'[f].pc \in {"reconcile", "readBalance"}
      BY <2>11, ItemEffect
    <3> QED
      BY <2>11, <3>1, CalmBudget DEF NextItem
  <2> QED
    BY <1>4, <2>1, <2>2, <2>3, <2>4, <2>5, <2>6, <2>7, <2>8, <2>9, <2>10, <2>11 DEF Continue
<1>5. ASSUME NEW f \in Fibres, Start(f)
      PROVE  Within(s)'
  <2>1. /\ \A g \in Fibres \ {f} : fibre'[g] = fibre[g]
        /\ f \notin Slots /\ fibre'[f].pc = "pick"
    BY <1>5, StartEffect
  <2> QED
    BY <1>5, <2>1, CalmBudget DEF Start, reconcileSubmittedSettlements, syncAllWallets
<1>6. ASSUME NEW f \in Fibres, AwaitFails(f)
      PROVE  Within(s)'
  BY <1>6, LeaveWithin DEF AwaitFails, Fault
<1>7. ASSUME NEW i \in DOMAIN txs, Mine(i) \/ Drop(i)
      PROVE  Within(s)'
  <2>1. /\ UNCHANGED <<fibre, job>> /\ faults' \in {faults, faults + 1}
        /\ Senders(s)' = Senders(s) /\ Ready(s)' = Ready(s)
    BY <1>7 DEF Mine, Drop, Fault, Senders, Ready
  <2>2. DOMAIN txs' = DOMAIN txs /\ \A k \in DOMAIN txs : txs'[k].s = txs[k].s
    <3>1. PICK st \in {"confirmed", "reverted", "dropped"} : txs' = [txs EXCEPT ![i].st = st]
      BY <1>7 DEF Mine, Drop
    <3>2. \A k \in DOMAIN txs : txs'[k] = IF k = i THEN [txs[i] EXCEPT !.st = st] ELSE txs[k]
      BY <1>0, <3>1 DEF Typed
    <3>3. txs[i] \in TxType
      BY <1>0 DEF Typed
    <3>4. [txs[i] EXCEPT !.st = st].s = txs[i].s
      BY <3>3 DEF TxType
    <3> QED
      BY <1>0, <3>1, <3>2, <3>4 DEF Typed
  <2>3. TxsOf(s)' = TxsOf(s)
    BY <2>2 DEF TxsOf
  <2>4. Ready(s)' <= Ready(s)
    BY <2>1 DEF Ready
  <2> QED
    BY <1>0, <2>1, <2>3, <2>4, Paid
<1>8. CASE Crash
  <2>1. /\ faults' = faults + 1 /\ TxsOf(s)' = TxsOf(s)
        /\ \A f \in Fibres : fibre'[f].pc = "idle"
    BY <1>8, Basics DEF Crash, Fault, TxsOf
  <2>2. Senders(s)' \subseteq Senders(s)
    BY <2>1 DEF Senders, Fibres
  <2> QED
    BY <1>0, <2>1, <2>2, Paid
<1>9. CASE OthersUseVault \/ UNCHANGED vars
  BY <1>0, <1>9 DEF OthersUseVault, vars, Within, TxsOf, Senders, Ready
<1> QED
  BY <1>1, <1>2, <1>3, <1>4, <1>5, <1>6, <1>7, <1>8, <1>9 DEF Next

\* A settlement is paid for a second time only after something went wrong:
\* transactions, fibres that may send one and jobs that may be taken again
\* share a budget that only failures raise.
THEOREM RetriesAreFailures == Spec => []RetriesNeedFailures
<1>1. Init => BudgetInv
  <2> SUFFICES ASSUME Init, NEW s \in Settlements
               PROVE  Within(s)
    BY DEF BudgetInv
  <2>1. TxsOf(s) = {} /\ Senders(s) = {} /\ Ready(s) = 0 /\ faults = 0
    BY Basics DEF Init, TxsOf, Senders, Ready, NoJob, Fibres, Settlements
  <2> QED
    BY <2>1, FS_EmptySet DEF Within
<1>2. BridgeInv /\ BudgetInv => RetriesNeedFailures
  <2> SUFFICES ASSUME BridgeInv, BudgetInv, NEW s \in Settlements
               PROVE  Cardinality(TxsOf(s)) <= 1 + faults
    BY DEF RetriesNeedFailures
  <2>1. Typed
    BY DEF BridgeInv
  <2> QED
    BY <2>1, CountsAreFinite DEF BudgetInv, Within
<1> QED
  BY <1>1, <1>2, BudgetStep, BridgeIsSound, PTL DEF Spec
=============================================================================
