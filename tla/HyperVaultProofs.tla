-------------------------- MODULE HyperVaultProofs --------------------------
(***************************************************************************)
(* Theorems about the vault, for every number of accounts, every initial   *)
(* distribution of tokens, every size of settlement and every token fee.   *)
(*                                                                         *)
(* TypeOK is inductive.  Solvent needs TypeOK only: a credit is at most    *)
(* what arrived or what protocol liquidity covers.  LedgerSums is          *)
(* inductive with TypeOK: the witness is the sequence of running sums,     *)
(* shifted from the touched account on.  Redeemable follows from the two.  *)
(***************************************************************************)
EXTENDS HyperVault, TLAPS

\* What the invariance of the properties rests on, together.
VaultInv == TypeOK /\ Solvent /\ LedgerSums

\* The ledger after a change of delta to the balance of account u.
Shift(u, delta) ==
    /\ settledBalance' = [settledBalance EXCEPT ![u] = @ + delta]
    /\ totalSettledBalance' = totalSettledBalance + delta

\* What is left after taking no more than there is.
LEMMA NaturalDifference ==
    ASSUME NEW m \in Nat, NEW n \in Nat, n <= m
    PROVE  m - n \in Nat
OBVIOUS

\* A running sum bounds each balance it is made of.
LEMMA BalanceBelowTotal ==
    ASSUME VaultAssumption, TypeOK, LedgerSums, NEW u \in Accounts
    PROVE  settledBalance[u] <= totalSettledBalance
<1>1. PICK p \in [0..NumAccounts -> 0..totalSettledBalance] : RunningSums(p)
  BY DEF LedgerSums
<1>2. /\ u \in 0..NumAccounts
      /\ u - 1 \in 0..NumAccounts
      /\ NumAccounts \in 0..NumAccounts
      /\ u <= NumAccounts
  BY DEF VaultAssumption, Accounts
<1>3. p[u] = p[u - 1] + settledBalance[u]
  BY <1>1 DEF RunningSums
<1>4. p[u] <= p[NumAccounts] /\ p[NumAccounts] = totalSettledBalance
  BY <1>1, <1>2 DEF RunningSums
<1>5. p[u] \in Nat /\ p[u - 1] \in Nat /\ settledBalance[u] \in Nat
  BY <1>1, <1>2 DEF TypeOK
<1> QED
  BY <1>3, <1>4, <1>5 DEF TypeOK

\* A change that leaves the balance of u natural keeps the sums right.
LEMMA ShiftKeepsSums ==
    ASSUME VaultAssumption, TypeOK, LedgerSums,
           NEW u \in Accounts, NEW delta \in Int,
           settledBalance[u] + delta >= 0,
           Shift(u, delta)
    PROVE  LedgerSums'
<1>1. PICK p \in [0..NumAccounts -> 0..totalSettledBalance] : RunningSums(p)
  BY DEF LedgerSums
<1> DEFINE q == [i \in 0..NumAccounts |-> IF i >= u THEN p[i] + delta ELSE p[i]]
<1>2. /\ NumAccounts \in Nat
      /\ u \in 1..NumAccounts
      /\ \A i \in 0..NumAccounts : p[i] \in Nat
      /\ \A a \in 1..NumAccounts : settledBalance[a] \in Nat
      /\ totalSettledBalance \in Nat
  BY <1>1 DEF VaultAssumption, Accounts, TypeOK
<1>3. /\ p[0] = 0
      /\ p[NumAccounts] = totalSettledBalance
      /\ \A a \in 1..NumAccounts : p[a] = p[a - 1] + settledBalance[a]
      /\ \A i, j \in 0..NumAccounts : i <= j => p[i] <= p[j]
  BY <1>1 DEF RunningSums, Accounts
<1>4. \A i \in 0..NumAccounts : q[i] = IF i >= u THEN p[i] + delta ELSE p[i]
  OBVIOUS
<1>5. q[0] = 0
  BY <1>2, <1>3, <1>4
<1>6. q[NumAccounts] = totalSettledBalance'
  BY <1>2, <1>3, <1>4 DEF Shift
<1>7. \A a \in Accounts : q[a] = q[a - 1] + settledBalance'[a]
  <2> TAKE a \in Accounts
  <2>1. /\ a \in 1..NumAccounts
        /\ a \in 0..NumAccounts
        /\ a - 1 \in 0..NumAccounts
    BY <1>2 DEF Accounts
  <2>2. settledBalance'[a] = IF a = u THEN settledBalance[a] + delta ELSE settledBalance[a]
    BY DEF Shift, TypeOK
  <2>3. p[a] = p[a - 1] + settledBalance[a]
    BY <1>3, <2>1
  <2> QED
    BY <1>2, <1>4, <2>1, <2>2, <2>3
<1>8. ASSUME NEW i \in 0..NumAccounts, NEW j \in 0..NumAccounts, i <= j
      PROVE  q[i] <= q[j]
  <2>1. p[i] <= p[j]
    BY <1>3, <1>8
  <2>2. CASE i >= u \/ j < u
    BY <1>2, <1>4, <1>8, <2>1, <2>2
  <2>3. CASE i < u /\ u <= j
    <3>1. u \in 0..NumAccounts /\ u - 1 \in 0..NumAccounts
      BY <1>2
    <3>2. p[i] <= p[u - 1] /\ p[u] <= p[j]
      BY <1>2, <1>3, <2>3, <3>1
    <3>3. p[u] = p[u - 1] + settledBalance[u]
      BY <1>2, <1>3
    <3> QED
      BY <1>2, <1>4, <2>3, <3>1, <3>2, <3>3
  <2> QED
    BY <1>2, <2>2, <2>3
<1>9. q \in [0..NumAccounts -> 0..totalSettledBalance']
  <2>1. ASSUME NEW i \in 0..NumAccounts
        PROVE  q[i] \in 0..totalSettledBalance'
    <3>1. 0 \in 0..NumAccounts /\ NumAccounts \in 0..NumAccounts
      BY <1>2
    <3>2. q[0] <= q[i] /\ q[i] <= q[NumAccounts]
      BY <1>2, <1>8, <3>1
    <3>3. q[i] \in Int
      BY <1>2, <1>4
    <3> QED
      BY <1>2, <1>5, <1>6, <3>2, <3>3
  <2> QED
    BY <2>1
<1>10. RunningSums(q)'
  BY <1>5, <1>6, <1>7, <1>8 DEF RunningSums
<1> HIDE DEF q
<1> QED
  BY <1>9, <1>10 DEF LedgerSums

---------------------------------------------------------------------------
(* What each kind of step does to the ledger and to the tokens.            *)

\* A payment brings at least what it credits, or credits nothing.
LEMMA PaymentEffect ==
    ASSUME TypeOK, NEW a \in Accounts, Payment(a)
    PROVE  \E amount, r \in Nat :
              /\ TransferIn(a, amount, r)
              /\ UNCHANGED roles
              /\ (~paused /\ Shift(a, r)) \/ UNCHANGED ledger
<1>1. PICK amount \in 1..wallet[a] : \E r \in Received(amount) :
            \/ deposit(a, amount, r)
            \/ fundProtocolLiquidity(a, amount, r)
            \/ Donate(a, amount, r)
  BY DEF Payment
<1>2. PICK r \in Received(amount) :
            \/ deposit(a, amount, r)
            \/ fundProtocolLiquidity(a, amount, r)
            \/ Donate(a, amount, r)
  BY <1>1
<1>3. r \in Nat /\ amount \in Nat
  BY DEF Received
<1>4. /\ TransferIn(a, amount, r)
      /\ UNCHANGED roles
      /\ (~paused /\ Shift(a, r)) \/ UNCHANGED ledger
  BY <1>2 DEF deposit, fundProtocolLiquidity, Donate, Shift
<1> QED
  BY <1>3, <1>4

\* Tokens leave against a claim of the same size, or out of protocol
\* liquidity.
LEMMA WithdrawalEffect ==
    ASSUME TypeOK, NEW a \in Accounts, Withdrawal(a)
    PROVE  \E amount, r \in Nat, to \in Accounts \cup {Vault} :
              /\ TransferOut(to, amount, r)
              /\ UNCHANGED roles
              /\ \/ to = a /\ WithdrawAccepted(a, amount) /\ Shift(a, -amount)
                 \/ amount <= protocolLiquidity /\ UNCHANGED ledger
<1>1. PICK amount \in 1..vaultUsdc : \E r \in Received(amount) :
            \/ withdraw(a, amount, r)
            \/ \E to \in Accounts \cup {Vault} :
                  withdrawProtocolLiquidity(a, to, amount, r)
  BY DEF Withdrawal
<1>2. PICK r \in Received(amount) :
            \/ withdraw(a, amount, r)
            \/ \E to \in Accounts \cup {Vault} :
                  withdrawProtocolLiquidity(a, to, amount, r)
  BY <1>1
<1>3. r \in Nat /\ amount \in Nat
  BY DEF Received
<1>4. CASE withdraw(a, amount, r)
  <2>1. settledBalance[a] - amount = settledBalance[a] + (-amount)
    BY <1>3 DEF TypeOK
  <2>2. totalSettledBalance - amount = totalSettledBalance + (-amount)
    BY <1>3 DEF TypeOK
  <2>3. Shift(a, -amount)
    BY <1>4, <2>1, <2>2 DEF withdraw, Shift
  <2> QED
    BY <1>3, <1>4, <2>3 DEF withdraw
<1>5. CASE \E to \in Accounts \cup {Vault} :
              withdrawProtocolLiquidity(a, to, amount, r)
  BY <1>3, <1>5 DEF withdrawProtocolLiquidity
<1> QED
  BY <1>2, <1>4, <1>5

\* A settlement shifts one balance and the total by the same amount, below
\* zero never, and up by no more than protocol liquidity.
LEMMA SettlementEffect ==
    ASSUME VaultAssumption, TypeOK, NEW a \in Accounts, Settlement(a)
    PROVE  \E user \in Accounts, delta \in Int :
              /\ ~paused
              /\ Shift(user, delta)
              /\ settledBalance[user] + delta >= 0
              /\ totalSettledBalance + delta >= 0
              /\ delta <= protocolLiquidity
              /\ UNCHANGED <<roles, tokens>>
<1>1. PICK user \in Accounts, pnl \in -MaxPnl..MaxPnl : settle(a, user, pnl)
  BY DEF Settlement
<1> DEFINE loss  == IF -pnl >= settledBalance[user] THEN settledBalance[user] ELSE -pnl
           delta == IF pnl >= 0 THEN pnl ELSE -loss
<1>2. /\ pnl \in Int
      /\ settledBalance[user] \in Nat
      /\ protocolLiquidity \in Nat
  BY DEF VaultAssumption, TypeOK, protocolLiquidity
<1>3. /\ ~paused
      /\ pnl <= protocolLiquidity
      /\ totalSettledBalance + delta >= 0
      /\ Shift(user, delta)
      /\ UNCHANGED <<roles, tokens>>
  BY <1>1 DEF settle, Shift
<1>4. /\ delta \in Int
      /\ settledBalance[user] + delta >= 0
      /\ delta <= protocolLiquidity
  BY <1>2, <1>3
<1> QED
  BY <1>3, <1>4

---------------------------------------------------------------------------
(* The invariants, one step at a time.                                     *)

\* Every variable keeps its type: a debit exceeds neither the balance it is
\* taken from, nor the total, nor the tokens that leave with it.
LEMMA TypeStep ==
    ASSUME VaultAssumption, TypeOK, [Next]_vars
    PROVE  TypeOK'
<1> USE DEF TypeOK
<1>1. ASSUME NEW a \in Accounts, Payment(a)
      PROVE  TypeOK'
  BY <1>1, PaymentEffect DEF TransferIn, Shift, roles, ledger
<1>2. ASSUME NEW a \in Accounts, Withdrawal(a)
      PROVE  TypeOK'
  BY <1>2, WithdrawalEffect DEF TransferOut, Shift, WithdrawAccepted, roles, ledger
<1>3. ASSUME NEW a \in Accounts, Settlement(a)
      PROVE  TypeOK'
  BY <1>3, SettlementEffect DEF Shift, roles, tokens
<1>4. ASSUME NEW a \in Accounts, Administration(a)
      PROVE  TypeOK'
  BY <1>4 DEF Administration, setManager, transferOwnership, setPaused, ledger, tokens
<1>5. CASE UNCHANGED vars
  BY <1>5 DEF vars, roles, ledger, tokens
<1> QED
  BY <1>1, <1>2, <1>3, <1>4, <1>5 DEF Next

\* The vault stays solvent: tokens leave it only with the claim they pay or
\* out of protocol liquidity, and a profit is covered by that liquidity.
LEMMA SolventStep ==
    ASSUME VaultAssumption, TypeOK, Solvent, [Next]_vars
    PROVE  Solvent'
<1> USE DEF TypeOK, Solvent
<1>1. ASSUME NEW a \in Accounts, Payment(a)
      PROVE  Solvent'
  BY <1>1, PaymentEffect DEF TransferIn, Shift, ledger
<1>2. ASSUME NEW a \in Accounts, Withdrawal(a)
      PROVE  Solvent'
  BY <1>2, WithdrawalEffect DEF TransferOut, Shift, WithdrawAccepted, ledger, protocolLiquidity
<1>3. ASSUME NEW a \in Accounts, Settlement(a)
      PROVE  Solvent'
  BY <1>3, SettlementEffect DEF Shift, tokens, protocolLiquidity
<1>4. ASSUME NEW a \in Accounts, Administration(a)
      PROVE  Solvent'
  BY <1>4 DEF Administration, setManager, transferOwnership, setPaused, ledger, tokens
<1>5. CASE UNCHANGED vars
  BY <1>5 DEF vars, ledger, tokens
<1> QED
  BY <1>1, <1>2, <1>3, <1>4, <1>5 DEF Next

\* The total stays the sum of the balances.
LEMMA SumsStep ==
    ASSUME VaultAssumption, TypeOK, LedgerSums, [Next]_vars
    PROVE  LedgerSums'
<1>1. CASE UNCHANGED ledger
  BY <1>1 DEF ledger, LedgerSums, RunningSums
<1>2. ASSUME NEW a \in Accounts, Payment(a)
      PROVE  LedgerSums'
  <2>1. PICK r \in Nat : Shift(a, r) \/ UNCHANGED ledger
    BY <1>2, PaymentEffect
  <2>2. settledBalance[a] + r >= 0
    BY DEF TypeOK
  <2> QED
    BY <1>1, <2>1, <2>2, ShiftKeepsSums
<1>3. ASSUME NEW a \in Accounts, Withdrawal(a)
      PROVE  LedgerSums'
  <2>1. PICK amount \in Nat : \/ WithdrawAccepted(a, amount) /\ Shift(a, -amount)
                              \/ UNCHANGED ledger
    BY <1>3, WithdrawalEffect
  <2>2. WithdrawAccepted(a, amount) => settledBalance[a] + (-amount) >= 0
    BY DEF TypeOK, WithdrawAccepted
  <2>3. -amount \in Int
    OBVIOUS
  <2> QED
    BY <1>1, <2>1, <2>2, <2>3, ShiftKeepsSums
<1>4. ASSUME NEW a \in Accounts, Settlement(a)
      PROVE  LedgerSums'
  <2>1. PICK user \in Accounts, delta \in Int :
             Shift(user, delta) /\ settledBalance[user] + delta >= 0
    BY <1>4, SettlementEffect
  <2> QED
    BY <2>1, ShiftKeepsSums
<1>5. ASSUME NEW a \in Accounts, Administration(a)
      PROVE  LedgerSums'
  BY <1>1, <1>5 DEF Administration, setManager, transferOwnership, setPaused
<1> QED
  BY <1>1, <1>2, <1>3, <1>4, <1>5 DEF Next, vars

\* A vault that was just deployed owes nothing and holds nothing.
LEMMA InitVaultInv ==
    ASSUME VaultAssumption, Init
    PROVE  VaultInv
<1>1. TypeOK /\ Solvent
  <2>1. paused \in BOOLEAN
    BY DEF Init
  <2>2. settledBalance \in [Accounts -> Nat] /\ wallet \in [Accounts -> Nat]
    BY DEF VaultAssumption, Init
  <2> QED
    BY <2>1, <2>2 DEF Init, TypeOK, Solvent
<1>2. LedgerSums
  <2> DEFINE p == [i \in 0..NumAccounts |-> 0]
  <2>1. RunningSums(p)
    BY DEF Init, RunningSums, Accounts, VaultAssumption
  <2>2. p \in [0..NumAccounts -> 0..totalSettledBalance]
    BY DEF Init
  <2> QED
    BY <2>1, <2>2 DEF LedgerSums
<1> QED
  BY <1>1, <1>2 DEF VaultInv

---------------------------------------------------------------------------
(* The theorems.                                                           *)

\* Every reachable state of the vault satisfies the three parts of the
\* invariant at once.
THEOREM VaultInvariant == Spec => []VaultInv
<1>1. Init => VaultInv
  BY VaultAssumption, InitVaultInv
<1>2. VaultInv /\ [Next]_vars => VaultInv'
  BY VaultAssumption, TypeStep, SolventStep, SumsStep DEF VaultInv
<1> QED
  BY <1>1, <1>2, PTL DEF Spec

\* No call makes a balance, the total, or a token balance negative.
THEOREM TypeCorrect == Spec => []TypeOK
<1>1. VaultInv => TypeOK
  BY DEF VaultInv
<1> QED
  BY <1>1, VaultInvariant, PTL

\* The vault never owes more than it holds (protocolLiquidity's subtraction
\* is exact, and the last account to leave is paid too).
THEOREM AlwaysSolvent == Spec => []Solvent
<1>1. VaultInv => Solvent
  BY DEF VaultInv
<1> QED
  BY <1>1, VaultInvariant, PTL

\* totalSettledBalance is the sum of all balances in every reachable state.
THEOREM TotalIsSum == Spec => []LedgerSums
<1>1. VaultInv => LedgerSums
  BY DEF VaultInv
<1> QED
  BY <1>1, VaultInvariant, PTL

\* An account's whole balance can always be withdrawn unless the vault is
\* paused: neither checked arithmetic nor the token reverts the call.
THEOREM AlwaysRedeemable == Spec => []Redeemable
<1>1. VaultInv => Redeemable
  <2> SUFFICES ASSUME VaultInv, NEW a \in Accounts, ~paused, settledBalance[a] > 0
               PROVE  WithdrawAccepted(a, settledBalance[a])
    BY DEF Redeemable
  <2>1. settledBalance[a] <= totalSettledBalance
    BY VaultAssumption, BalanceBelowTotal DEF VaultInv
  <2> QED
    BY <2>1 DEF VaultInv, TypeOK, Solvent, WithdrawAccepted
<1> QED
  BY <1>1, VaultInvariant, PTL

\* The contract implements the custody promise: its initial states are the
\* promise's, and under the invariant each of its steps is one of the
\* promise's steps or leaves claims, pool and freeze alone.
THEOREM VaultImplementsCustody == Spec => ImplementsCustody
<1> USE DEF PromisedCustody!Accounts, Accounts
<1>1. Init => PromisedCustody!CustodyInit
  BY DEF Init, PromisedCustody!CustodyInit
<1>2. VaultInv /\ VaultInv' /\ [Next]_vars => [PromisedCustody!CustodyNext]_(PromisedCustody!cvars)
  <2> SUFFICES ASSUME VaultInv, VaultInv', [Next]_vars
               PROVE  PromisedCustody!CustodyNext \/ UNCHANGED PromisedCustody!cvars
    OBVIOUS
  <2> USE DEF VaultInv, Solvent
  <2>1. vaultUsdc' - totalSettledBalance' \in Nat
    <3>1. vaultUsdc' \in Nat /\ totalSettledBalance' \in Nat /\ totalSettledBalance' <= vaultUsdc'
      BY DEF TypeOK
    <3> QED
      BY <3>1, NaturalDifference
  <2>2. ASSUME UNCHANGED <<settledBalance, paused>>
        PROVE  PromisedCustody!MovePool
    BY <2>1, <2>2 DEF PromisedCustody!MovePool
  <2>3. ASSUME NEW a \in Accounts, NEW d \in Int, ~paused, Shift(a, d), UNCHANGED paused
        PROVE  PromisedCustody!ClaimMoves(a) /\ settledBalance'[a] = settledBalance[a] + d
    BY <2>3 DEF TypeOK, Shift, PromisedCustody!ClaimMoves
  <2>4. ASSUME NEW a \in Accounts, Payment(a)
        PROVE  PromisedCustody!CustodyNext
    <3>1. PICK r \in Nat :
               /\ vaultUsdc' = vaultUsdc + r
               /\ UNCHANGED paused
               /\ (~paused /\ Shift(a, r)) \/ UNCHANGED settledBalance
      BY <2>4, PaymentEffect DEF TransferIn, roles, ledger
    <3>2. CASE ~paused /\ Shift(a, r)
      <4>1. PromisedCustody!ClaimMoves(a)
        BY <2>3, <3>1, <3>2
      <4>2. vaultUsdc' - totalSettledBalance' = vaultUsdc - totalSettledBalance
        BY <3>1, <3>2 DEF Shift, TypeOK
      <4> QED
        BY <4>1, <4>2 DEF PromisedCustody!Pay, PromisedCustody!CustodyNext
    <3> QED
      BY <2>2, <3>1, <3>2 DEF PromisedCustody!CustodyNext
  <2>5. ASSUME NEW a \in Accounts, Withdrawal(a)
        PROVE  PromisedCustody!CustodyNext
    <3>1. PICK amount, r \in Nat, to \in Accounts \cup {Vault} :
               /\ TransferOut(to, amount, r)
               /\ UNCHANGED roles
               /\ \/ to = a /\ WithdrawAccepted(a, amount) /\ Shift(a, -amount)
                  \/ amount <= protocolLiquidity /\ UNCHANGED ledger
      BY <2>5, WithdrawalEffect
    <3>2. CASE to = a /\ WithdrawAccepted(a, amount) /\ Shift(a, -amount)
      <4>1. -amount \in Int /\ ~paused /\ UNCHANGED paused
        BY <3>1, <3>2 DEF WithdrawAccepted, roles
      <4>2. PromisedCustody!ClaimMoves(a)
        BY <2>3, <3>2, <4>1
      <4>3. vaultUsdc' = vaultUsdc - amount
        BY <3>1, <3>2 DEF Vault, TransferOut, TypeOK
      <4>4. vaultUsdc' - totalSettledBalance' = vaultUsdc - totalSettledBalance
        BY <3>2, <4>3 DEF Shift, TypeOK
      <4> QED
        BY <4>2, <4>4 DEF PromisedCustody!Pay, PromisedCustody!CustodyNext
    <3>3. CASE UNCHANGED ledger
      BY <2>2, <3>1, <3>3 DEF roles, ledger, PromisedCustody!CustodyNext
    <3> QED
      BY <3>1, <3>2, <3>3
  <2>6. ASSUME NEW a \in Accounts, Settlement(a)
        PROVE  PromisedCustody!CustodyNext
    <3>1. PICK user \in Accounts, delta \in Int :
               /\ ~paused
               /\ Shift(user, delta)
               /\ UNCHANGED <<roles, tokens>>
      BY <2>6, VaultAssumption, SettlementEffect
    <3>2. PromisedCustody!ClaimMoves(user) /\ settledBalance'[user] = settledBalance[user] + delta
      BY <2>3, <3>1 DEF roles
    <3>3. vaultUsdc' = vaultUsdc /\ totalSettledBalance' = totalSettledBalance + delta
      BY <3>1 DEF Shift, tokens
    <3>4. (vaultUsdc' - totalSettledBalance') + settledBalance'[user]
             = (vaultUsdc - totalSettledBalance) + settledBalance[user]
      <4>1. vaultUsdc \in Int /\ totalSettledBalance \in Int /\ settledBalance[user] \in Int
        BY DEF TypeOK
      <4> QED
        BY <3>2, <3>3, <4>1
    <3> QED
      BY <2>1, <3>2, <3>4 DEF PromisedCustody!Settle, PromisedCustody!CustodyNext
  <2>7. ASSUME NEW a \in Accounts, Administration(a)
        PROVE  PromisedCustody!CustodyNext \/ UNCHANGED PromisedCustody!cvars
    BY <2>7 DEF Administration, setManager, transferOwnership, setPaused, ledger, tokens,
                PromisedCustody!cvars, PromisedCustody!Freeze, PromisedCustody!CustodyNext
  <2>8. CASE UNCHANGED vars
    BY <2>8 DEF vars, roles, ledger, tokens, PromisedCustody!cvars
  <2> QED
    BY <2>4, <2>5, <2>6, <2>7, <2>8 DEF Next
<1> QED
  BY <1>1, <1>2, VaultInvariant, PTL DEF Spec, ImplementsCustody, PromisedCustody!CustodySpec
=============================================================================
