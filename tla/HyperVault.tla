---------------------------- MODULE HyperVault ----------------------------
(***************************************************************************)
(* The HyperVault contract (packages/contracts/src/HyperVault.sol): USDC   *)
(* collateral custody with a per-account settled balance.  One action per  *)
(* external function; a call that reverts is a call that changes nothing,  *)
(* so each action's guard is the conjunction of the function's checks, the *)
(* checked arithmetic of Solidity 0.8 and the token's own balance check.   *)
(* A transaction is atomic, so there is no interleaving inside a call.     *)
(***************************************************************************)
EXTENDS Integers

CONSTANTS
    NumAccounts,    \* accounts are 1..NumAccounts; each may be user, owner or manager
    InitialWallet,  \* InitialWallet[a]: the token balance a starts with
    MaxPnl,         \* the manager settles amounts in -MaxPnl..MaxPnl
    MaxFee          \* largest fee the token keeps on a transfer (0 for real USDC)

Accounts == 1..NumAccounts
Vault    == 0       \* the contract's own address, a legal transfer recipient

ASSUME VaultAssumption ==
    /\ NumAccounts \in Nat \ {0}
    /\ InitialWallet \in [Accounts -> Nat]
    /\ MaxPnl \in Nat
    /\ MaxFee \in Nat

VARIABLES
    owner, manager, paused,
    settledBalance,         \* settledBalance[a]: the claim of account a
    totalSettledBalance,    \* the contract's running total of the claims
    vaultUsdc,              \* usdc.balanceOf(address(this))
    wallet                  \* wallet[a]: usdc.balanceOf(a)

roles  == <<owner, manager, paused>>
ledger == <<settledBalance, totalSettledBalance>>
tokens == <<vaultUsdc, wallet>>
vars   == <<roles, ledger, tokens>>

---------------------------------------------------------------------------
\* The token moves amount out of the sender and what is left after its fee
\* into the recipient; a transfer whose recipient receives nothing reverts
\* in the incoming direction, so it is left out.
Received(amount) == {r \in 1..amount : amount - r <= MaxFee}

\* Mutant: the whole token balance counts as protocol liquidity.
liquidityOfWholeVault == vaultUsdc

protocolLiquidity ==
    IF vaultUsdc <= totalSettledBalance THEN 0
    ELSE vaultUsdc - totalSettledBalance

Init ==
    /\ owner \in Accounts
    /\ manager \in Accounts
    /\ paused = FALSE
    /\ settledBalance = [a \in Accounts |-> 0]
    /\ totalSettledBalance = 0
    /\ vaultUsdc = 0
    /\ wallet = InitialWallet

\* usdc.transferFrom(a, this, amount), of which the vault receives r.
TransferIn(a, amount, r) ==
    /\ amount <= wallet[a]
    /\ wallet' = [wallet EXCEPT ![a] = @ - amount]
    /\ vaultUsdc' = vaultUsdc + r

\* usdc.transfer(to, amount), of which the recipient receives r.
TransferOut(to, amount, r) ==
    /\ amount <= vaultUsdc
    /\ vaultUsdc' = vaultUsdc - amount + (IF to = Vault THEN r ELSE 0)
    /\ wallet' = [a \in Accounts |-> IF a = to THEN wallet[a] + r ELSE wallet[a]]

\* Mutant: the requested amount is credited, whatever arrived.
depositCreditsRequest(a, amount, r) ==
    /\ ~paused
    /\ TransferIn(a, amount, r)
    /\ settledBalance' = [settledBalance EXCEPT ![a] = @ + amount]
    /\ totalSettledBalance' = totalSettledBalance + amount
    /\ UNCHANGED roles

deposit(a, amount, r) ==
    /\ ~paused
    /\ TransferIn(a, amount, r)
    /\ settledBalance' = [settledBalance EXCEPT ![a] = @ + r]
    /\ totalSettledBalance' = totalSettledBalance + r
    /\ UNCHANGED roles

\* Every condition a withdrawal has to meet, the token's included.
WithdrawAccepted(a, amount) ==
    /\ ~paused
    /\ amount > 0
    /\ amount <= settledBalance[a]
    /\ amount <= totalSettledBalance
    /\ amount <= vaultUsdc

withdraw(a, amount, r) ==
    /\ WithdrawAccepted(a, amount)
    /\ settledBalance' = [settledBalance EXCEPT ![a] = @ - amount]
    /\ totalSettledBalance' = totalSettledBalance - amount
    /\ TransferOut(a, amount, r)
    /\ UNCHANGED roles

\* Mutant: a loss is charged in full to the total but clamped on the account.
settleUnclampedTotal(sender, user, pnl) ==
    /\ sender = manager
    /\ ~paused
    /\ pnl <= protocolLiquidity
    /\ totalSettledBalance + pnl >= 0
    /\ settledBalance' = [settledBalance EXCEPT ![user] = IF @ + pnl >= 0 THEN @ + pnl ELSE 0]
    /\ totalSettledBalance' = totalSettledBalance + pnl
    /\ UNCHANGED <<roles, tokens>>

\* Mutant: a loss larger than the balance is not clamped.
settleUnclamped(sender, user, pnl) ==
    /\ sender = manager
    /\ ~paused
    /\ pnl <= protocolLiquidity
    /\ totalSettledBalance + pnl >= 0
    /\ settledBalance' = [settledBalance EXCEPT ![user] = @ + pnl]
    /\ totalSettledBalance' = totalSettledBalance + pnl
    /\ UNCHANGED <<roles, tokens>>

\* The manager applies a profit or a loss; the part of a loss that exceeds
\* the balance is bad debt and is dropped.
settle(sender, user, pnl) ==
    /\ sender = manager
    /\ ~paused
    /\ pnl <= protocolLiquidity
    /\ LET loss  == IF -pnl >= settledBalance[user] THEN settledBalance[user] ELSE -pnl
           delta == IF pnl >= 0 THEN pnl ELSE -loss
       IN  /\ totalSettledBalance + delta >= 0
           /\ settledBalance' = [settledBalance EXCEPT ![user] = @ + delta]
           /\ totalSettledBalance' = totalSettledBalance + delta
    /\ UNCHANGED <<roles, tokens>>

fundProtocolLiquidity(sender, amount, r) ==
    /\ sender = owner
    /\ TransferIn(sender, amount, r)
    /\ UNCHANGED <<roles, ledger>>

\* Mutant: only the token balance limits what the owner draws.
drawWithoutLiquidityCheck(sender, recipient, amount, r) ==
    /\ sender = owner
    /\ TransferOut(recipient, amount, r)
    /\ UNCHANGED <<roles, ledger>>

withdrawProtocolLiquidity(sender, recipient, amount, r) ==
    /\ sender = owner
    /\ amount <= protocolLiquidity
    /\ TransferOut(recipient, amount, r)
    /\ UNCHANGED <<roles, ledger>>

setManager(sender, newManager) ==
    /\ sender = owner
    /\ manager' = newManager
    /\ UNCHANGED <<owner, paused, ledger, tokens>>

transferOwnership(sender, newOwner) ==
    /\ sender = owner
    /\ owner' = newOwner
    /\ UNCHANGED <<manager, paused, ledger, tokens>>

setPaused(sender, nextPaused) ==
    /\ sender = owner
    /\ paused' = nextPaused
    /\ UNCHANGED <<owner, manager, ledger, tokens>>

\* A transfer to the vault's address that no function of the vault sees.
Donate(a, amount, r) ==
    /\ TransferIn(a, amount, r)
    /\ UNCHANGED <<roles, ledger>>

\* Someone holding tokens acts on the vault.
Payment(a) ==
    \E amount \in 1..wallet[a] : \E r \in Received(amount) :
        \/ deposit(a, amount, r)
        \/ fundProtocolLiquidity(a, amount, r)
        \/ Donate(a, amount, r)

Withdrawal(a) ==
    \E amount \in 1..vaultUsdc : \E r \in Received(amount) :
        \/ withdraw(a, amount, r)
        \/ \E recipient \in Accounts \cup {Vault} :
              withdrawProtocolLiquidity(a, recipient, amount, r)

Settlement(a) ==
    \E user \in Accounts, pnl \in -MaxPnl..MaxPnl : settle(a, user, pnl)

Administration(a) ==
    \/ \E b \in Accounts : setManager(a, b) \/ transferOwnership(a, b)
    \/ \E b \in BOOLEAN : setPaused(a, b)

Next ==
    \E a \in Accounts :
        Payment(a) \/ Withdrawal(a) \/ Settlement(a) \/ Administration(a)

Spec == Init /\ [][Next]_vars

---------------------------------------------------------------------------
(* What makes the vault correct.                                           *)

\* The type of every variable: balances are naturals, roles are accounts.
TypeOK ==
    /\ owner \in Accounts
    /\ manager \in Accounts
    /\ paused \in BOOLEAN
    /\ settledBalance \in [Accounts -> Nat]
    /\ totalSettledBalance \in Nat
    /\ vaultUsdc \in Nat
    /\ wallet \in [Accounts -> Nat]

\* The vault always holds at least as many tokens as it owes its accounts,
\* whatever fees the token keeps and whatever the owner draws.
Solvent == totalSettledBalance <= vaultUsdc

\* p holds the running sums of the settled balances: p[a] is what accounts
\* 1 to a are owed together.
RunningSums(p) ==
    /\ p[0] = 0
    /\ p[NumAccounts] = totalSettledBalance
    /\ \A a \in Accounts : p[a] = p[a - 1] + settledBalance[a]
    /\ \A i, j \in 0..NumAccounts : i <= j => p[i] <= p[j]

\* totalSettledBalance, which the contract maintains by increments, is the
\* sum of the balances it stands for: no credit, debit, clamped loss or fee
\* makes the two drift apart.
LedgerSums ==
    \E p \in [0..NumAccounts -> 0..totalSettledBalance] : RunningSums(p)

\* Unless the vault is paused, an account can take its whole balance out in
\* one call: neither the checked subtraction from the total nor the token
\* transfer can revert it.
Redeemable ==
    \A a \in Accounts :
        ~paused /\ settledBalance[a] > 0 => WithdrawAccepted(a, settledBalance[a])

\* The mapping: every step of the vault is a step of the custody promise: a profit is
\* paid from protocol liquidity only, a loss goes there and no further than
\* the balance, and pausing freezes all balances.
PromisedCustody ==
    INSTANCE Custody WITH
        claims <- settledBalance,
        pool   <- vaultUsdc - totalSettledBalance,
        frozen <- paused

\* The refinement above as a property of the specification.
ImplementsCustody == PromisedCustody!CustodySpec
=============================================================================
