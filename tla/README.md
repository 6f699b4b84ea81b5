# Hypermarket: a verification project

TLA+ models of the parts of Hypermarket that hold money, decide about it or feed
those decisions, the TLC runs that check them on small instances, and TLAPS
proofs for instances of any size. Paths below are relative to `packages/`.

## The system

| Component | State it keeps | Operations | Correct when |
|---|---|---|---|
| **HyperVault** (`contracts/src/HyperVault.sol`) | roles, pause flag, `settledBalance`, `totalSettledBalance`; its USDC balance | deposit, withdraw, settle, fund and withdraw protocol liquidity, role changes, pause | it can pay what it owes; its total is the sum of the balances; profits come from protocol liquidity, losses go there |
| **Settlement service** (`engine/src/services/settlement-service.ts`), its BullMQ **worker** and queue | `Settlement` rows, jobs | queue, submit, reconcile, sync all wallets | a realized PnL reaches the vault once; the row tells what the chain did |
| **Chain client** (`hypervault-client.ts`) | none | broadcast `settle`, read receipts and balances | |
| **Vault sync** (`vault-sync-service.ts`) and **account service** (`account-service.ts`) | `User` and `MarginAccount` rows | create the account of a new wallet, copy the on-chain balance, recompute margin and equity | the account converges to the chain and to the positions |
| **Position service** (`position-service.ts`) | `Position` rows | open (or average), close (in parts) | status, size, margin and queued PnL agree |
| **Liquidation service** (`liquidation-service.ts`) and worker | `Liquidation` rows | scan and queue, finalize | an open position is liquidated once, before its margin is lost, and settled |
| **Risk formulas** (`risk-formulas.ts`) | none | margin, liquidation price, PnL, account metrics | liquidation comes before bankruptcy |
| **Exposure service** (`exposure-service.ts`) | none | net positions per market and outcome | |
| **Hedge executor**, **client** and **worker** (`hedge-execution-service.ts`, `polymarket-hedge-client.ts`, `workers/hedge-worker.ts`) | `HedgeOrder` rows | one cycle per interval: snapshot, candidates, orders | one open order per outcome and cycle under way; breaches are answered |
| **Price feed**, **mark price policy**, **price store** (`engine/src/prices/`) | latest quote per asset, Redis snapshots | connect, merge and clamp quotes, store | marks stay in [0, 1], move by bounded steps and follow the venue; the store follows the feed |
| **Market discovery** (`engine/src/markets/`), `GET /markets` (`http.ts`), the **terminal's** list and selection (`web/src/components/app-shell.tsx`) | a cache with a TTL; the polled list, the selected market | look up the allowlist, answer, select | lists are complete, without duplicates, and become current |
| other endpoints, configuration, logging, rendering, deployment scripts | none of their own | | |

How they interact. `closePosition` and `finalizeLiquidation` queue a settlement
inside their own database transaction. The settlement worker takes the job,
broadcasts `settle` with the manager's key, records the hash and reconciles; an
interval reconciles submitted rows again, another one copies every wallet's
balance from the vault into its margin account. The position, liquidation and
sync transactions all write the margin account row. The hedge worker reads the
positions and writes hedge orders. When the worker starts, it discovers the
markets once and subscribes to their tokens; the feed writes snapshots to Redis,
which the API reads. The API process has a market discovery of its own, which
the terminal polls. Everything but the vault runs in Node processes, so what
interleaves are chains of awaits, database transactions and several timers, not
threads.

What is hard here: a broadcast and its record are two steps; a job is visible
before the transaction that created its row commits; a job can be retried, stall
or run in two slots; timers start again while the last tick is still under way;
READ COMMITTED lets a transaction act on a row that has changed since it read
it; handlers of one socket's messages overlap at the store; a lookup takes many
fetches while the catalog changes; a process may die between any two awaits. The
hazards, each at its line and with the properties that cover it, are listed in
`PROJECT.json`.

## Modules

| Module | Models | How |
|---|---|---|
| `Custody` | the abstract promise of a custodian | claims, a pool, and four ways value may move |
| `HyperVault` | the contract | one action per external function; a call that reverts is one that is not enabled |
| `HyperVaultProofs` | | theorems about `HyperVault` |
| `Clearing` | the abstract promise about a settlement | it is applied, and a verdict is given; the guards say what may not happen |
| `SettlementBridge` | settlement service, worker, queue, chain client, vault sync | composes with `HyperVault` through `Chain == INSTANCE HyperVault`: mining a transaction is the contract's own `settle` |
| `SettlementProofs` | | theorems about `SettlementBridge`, whether or not job locks expire |
| `ClearingProofs` | | theorems about `SettlementBridge` while job locks do not expire, and that it implements `Clearing` |
| `RiskFormulas` | risk formulas and the liquidation test | operators over integers |
| `RiskProofs` | | theorems about `RiskFormulas` |
| `PositionLedger` | position, liquidation and account services, vault sync | SQL statements of transactions under READ COMMITTED with row locks; extends `RiskFormulas` |
| `LedgerProofs` | | theorems about `PositionLedger` |
| `HedgeLoop` | exposure service, hedge executor, client and worker | cycles over a snapshot with awaits in between |
| `HedgeProofs` | | theorems about `HedgeLoop` |
| `MarkPricePolicy` | the mark price policy | operators over integer ticks and `NULL` |
| `PriceFeed` | worker start-up, connection, message handlers, writes to Redis | handlers interleave at each write; extends `MarkPricePolicy` |
| `PriceFeedProofs` | | theorems about `PriceFeed` |
| `MarketDiscovery` | Gamma client, cache, `GET /markets`, the terminal's list and selection | one step per fetch |
| `DiscoveryProofs` | | theorems about `MarketDiscovery` |
| `MC...` | | the instances that TLC checks |

**HyperVault.** Variables carry the contract's names; `vaultUsdc` and `wallet` are
the token's balances. The token may keep up to `MaxFee` of a transfer, which
covers real USDC (0) and the fee-on-transfer mock of the tests. Amounts are
naturals: 256-bit overflow would need more tokens than exist, and checked
subtraction is a guard. Zero addresses and zero amounts revert and are left out.
`Donate` is a transfer to the vault that no function of it sees. Reentrancy is
excluded by `nonReentrant` and by USDC having no hooks, so a call is one step.

**SettlementBridge.** A *fibre* is a chain of awaits: a job slot, a reconcile tick
or a sync tick. Its `pc` names the next await, and every await is a step, so any
two fibres interleave there as they do in Node. `request[s]` follows the calling
transaction: the row is created, the job added, then the transaction commits or
aborts; until then nobody else sees the row, and the position's row lock
(`Locked`) keeps a second caller out. A job carries attempts, stalls and its
lock holder. `writeContract` estimates gas first, as viem does, so a call that
would revert throws, and a broadcast whose answer is lost is a fault.
Transactions of the manager are mined in nonce order. Meanwhile others deposit,
withdraw, move protocol liquidity and pause the vault (`OthersUseVault`), each of
them the contract's own action.
*Environment failures* (a failing await, a lost answer, a crash, a dropped
transaction, an expired lock) each cost one of `MaxFaults`.
`createSettlement`, which queues outside a transaction, has no caller and no action.
`Promise` maps rows and transactions to `Clearing`: the verdict of a settlement is
its committed row's status, `applied` counts its successful transactions.

**PositionLedger.** `txn[t]` is a transaction: the operation, the statement it has
come to, what it has read and computed, its uncommitted write and its locks. An
UPDATE by id waits for the row lock and overwrites the columns it names, which is
what PostgreSQL does under READ COMMITTED; `commit` publishes all writes at once.
There is one user. A behaviour begins with a wallet the engine has never seen, whose
account the first transaction creates (`ensureAccount`: a creation waits for, and
excludes, another one), or with an engine restarted on a database in which the user
holds one open position. Assumed: Prisma's `upsert` with an empty `update` takes no
row lock on an existing row. Rows are created in order of their ids. Each order has
its own leverage, and it may name the margin of the position it makes (`Margins`, the
optional `initialMargin`); an order that averages computes the margin anew, as the
code does. Positions without an outcome token (the keys outside `TokenKeys`) are
never scanned. A creation of the account that has waited for another one finds it
there, or its INSERT fails on the unique key and the transaction rolls back. Prices
are chosen so that averages are integers. An order or close takes its own price for
its mark price. Columns that are only reported (notional, maintenance margin, the
stored liquidation price, the penalty) are left out: the scan computes its threshold
from entry price and leverage and does not read the stored one, which after an
average is that of the newest order alone. Four history variables, which no operation
reads, say what concurrency has done: `overwritten`, the positions whose last writer
had not read the row it replaced; `named`, those whose margin their order named;
`overtaken`, the transactions that have summed up the positions before another one
committed; `behind`, whether the account's last writer was one of these.

**HedgeLoop.** The exposure of an outcome and side stands for the positions that
sum up to it. A cycle holds the candidates of its snapshot; each of findFirst,
create, executeHedge and update is a step. The venue's answer is chosen from
`Replies`, "OTHER" being a status that `normalizeExecutionStatus` does not know: the
client makes it FAILED (`polymarket-hedge-client.ts:50`), whatever has become of the
order. That the order rests at the venue all the same is allowed, and counts as a
failure of the venue (one of `MaxFaults`), and so does an answer that is lost or
that cannot be read (`toDecimal` throws inside the `try`): in each case the engine
records as failed what the venue has taken.

**MarkPricePolicy, PriceFeed.** A message is a sequence of events for known or
unknown tokens; how its JSON becomes events is outside. `message` runs its handler up
to the first await; `written` is Redis executing the oldest write and its handler
going on to its next event, so handlers of later messages run in between. One Redis
connection keeps the order of the writes. `latestByAsset` and `reconnectTimer` are
the code's; `store` is the current snapshot per token. `heard`, `unordered` and `gap`
are history: what the venue said last of each field (`Hear`, in the order in which
messages arrive), the assets of which a queued event was overtaken or lost, and the
assets whose stored mark is not the predecessor of the next one to be written (after
a lost write or a restart). Float arithmetic is abstracted to integers; a midpoint is
rounded down.

**MarketDiscovery.** `request[r]` is a lookup: the identifier and the key it has
come to, and the list so far. `catalog` is what Gamma lists; it may change
between fetches. `always` and `sometimes` record what could be found throughout
a lookup and at some moment of it. The terminal's request is one of `Requests`;
`effect` is the React effect that corrects the selection. Identifiers and what they
are compared with stand for strings as the client compares them: trimmed, not
blank, without regard to case. `HiddenById` are the markets that the allowlist names
by a numeric id which a condition id hides; the code cannot list them, and
`ListsAreComplete` neither asks for them nor forbids them (see below).

## Runs

All bounds are constants named in the modules.

| Run | Question | Bounds, and why they are enough |
|---|---|---|
| `Vault` | is the vault solvent, exact, redeemable, and does it keep the promise of `Custody`? | three accounts (user, owner, manager, and every overlap of them) with 6 tokens, PnL up to 4, fee up to 1: losses beyond the balance, profits beyond liquidity and fees all occur |
| `SettlementFaults` | are verdicts true and final, repeated broadcasts always due to a failure, and submitted rows resolved although a tick cannot take them all? | two settlements of two positions, one slot, 2 attempts, one fault at any await, and a tick that takes one row: there are more rows than it takes, in no order, and the one it takes may be the other one, or throw. No protocol liquidity, so profits revert; they are applied in the next two |
| `SettlementLocks` | what survives two slots on one job? | one settlement, two slots and a tick, 3 attempts, two faults, locks may expire; liquidity of 1 to apply a profit |
| `SettlementLive` | are queued rows tried, does the mirror converge, and is the promise of `Clearing` kept? | one settlement, one slot, reconcile tick and sync tick, one fault, while one account deposits and withdraws and the owner pauses and funds the vault |
| `LedgerConcurrent` | do settlements and locks survive concurrency, and does the account recover? | one position, two concurrent requests or scans and a sync, 3 requests, rollbacks or chain moves after a start with or without a position: two closes, two finalizations, a close against a scan, two creations of the account |
| `LedgerOverlap` | what do the books keep, and is liquidation in time, when requests for one key overlap in every way? | a short key (a long one is in `LedgerConcurrent`), three positions, two transactions at once, 4 requests or rollbacks, leverages 2 and 4, one margin that orders may name: two orders that both create a position, an average with another leverage, a close that writes over a liquidation, two scans of one position, a finalization against a close; what each leaves behind is read by the next request |
| `HedgeCycles` | one open order per outcome and cycle under way, at the venue too, and is a lasting breach answered? | one cycle at a time (overlapping ones are left to the theorems), two markets, three outcomes, any exposure of 0 or 1 per side to start with, 2 trades (enough to change direction and to breach a second time), 2 orders (so that one may be refused, filled before the breach, or made for the other direction), a partial fill, a fill and an unknown status for answers, one fault |
| `PriceFeed` | does the store follow the feed, do marks stay bounded, follow lasting moves, and does the feed come back? | two assets, two handlers (so that one waits while another runs), a price of 10 ticks with jumps of 2 (a move of 8 takes four steps), quotes inside, outside, too wide and empty, messages of one and two events, one fault |
| `MarketDiscovery` | are lists complete and without duplicates, and does the terminal catch up? | four identifiers for three markets (one named twice, by slug and condition id; one without a condition id, by its id; one by its condition id only), two lookups at once, one change of the catalog, one failed fetch |

Deadlock is checked in `Vault`, the four settlement runs, `LedgerConcurrent` and
`MarketDiscovery`. The others use up their bounded requests, trades and orders and
have no interval that goes on without them, or (`PriceFeed`) stop when start-up
failed or found no token: they say `CHECK_DEADLOCK FALSE`.

`SubmittedIsResolved` is checked with two rows and a tick that takes one; three rows
and a tick of two would take TLC too long. What the tick does is the same: it takes
some of the rows, in no order, and a row that throws ends it, so those after it wait
for the next tick just as those beyond the limit do.

Runs that TLC finds violated, with what they show (each quoted in `PROJECT.json`
under `findings`):

| Run | The repository says | The code |
|---|---|---|
| `SettlementDuplicate` | "no duplicate settlements" | broadcasts first, records the hash afterwards; a lost answer makes the next attempt broadcast again |
| `LedgerPartialClose` | "on-chain settlement of realized PnL after close or liquidation" | the second partial close is deduplicated against the first |
| `HedgeSecondOutcome` | "skips duplicate markets that already have open hedge orders" | looks for open orders of the outcome it has selected, and the selection moves |

So `NoDuplicateSettlement` does not hold, and the passing runs say what does:
`RetriesNeedFailures` (each repeated transaction costs a failure), `RecordIsFinal`
(once a hash is on record nothing is sent again and verdicts stay),
`ConfirmedIsOnChain`, and, in one piece, `ImplementsClearing`: the vault applies a
settlement again only after a failure and never after its verdict.
`VerdictMatchesRecordedTx`, `RecordIsFinal` and `ImplementsClearing` are claimed for
locks that do not expire: nothing in the code keeps apart two workers on one job
whose lock has expired. `SubmittedIsResolved` excepts a row whose transaction the
network has dropped, which stays submitted for ever, and the case that as many such
rows as a tick takes fill every batch.

Nor does the code keep apart two orders for one key, or a scan and a close, and the
ledger's properties hold for any overlap of them because they say what survives it:

- `StatusTellsSize`: an open position has a size, always. That no other has, is said
  of all rows but those a stale write has replaced (`overwritten`), and of these
  again after the next proper write. Two orders that find no position create two;
  there are never more than transactions overlap.
- `LiquidationIsPending`: a position under liquidation has a pending row to end it,
  even if closes, other scans and ends of liquidations overlap with it, and no more
  of them than transactions overlap.
- `MarginCoversLoss`: said of rows whose margin the engine computed (not `named`: the
  caller's margin need not cover anything) from the row it replaced.
- `MarginIsExact`: said of every account but one just written by a transaction whose
  sums another's commit had overtaken (`behind`); the next write whose sums were not
  overtaken makes it exact again, and `AccountConverges` says that the sync interval
  provides one.

Nor does it keep two hedge cycles apart, so the
hedge properties bound what overlapping cycles can cause by their number
(`OneOpenOrderPerCycle`: `Cardinality(Cycles)` open orders of an outcome). The run
has one cycle at a time. `BreachIsAnswered` is claimed for that case only: however
many orders there were before, a lasting breach gets a new one, on the right side,
that the venue accepts, or attempts go on up to the bound on orders. It
excepts an outcome that is blocked by an open order or by an orphaned row. In
dry-run mode every order stays open, so this exception is the rule there.

Where the code promises less than its docs suggest, without a run of its own:

- A PENDING settlement whose attempts have all failed is never taken up again,
  and its position cannot be settled afterwards; `QueuedIsTried` excepts it.
- A close that has read a position as open can turn one that has been put under
  liquidation since into an open or closed one.
- An event without usable prices lets the mark move towards the remembered book
  ("preserve the prior mark if new data is unusable", `engine/README.md`).
- "a comma-separated list of market slugs, IDs, or condition IDs"
  (`engine/README.md:29-30`), but a market that has a condition id cannot be named by
  its numeric id: `matchesIdentifier` compares with the condition id in its place
  (`polymarket-client.ts:206-216`). `ListsAreComplete` claims completeness for the
  other three ways to name a market (slug, condition id, the id of a market without
  one), and leaves such a market (`HiddenById`) open in both directions.
- A tick that meets a row it cannot reconcile gives up the rest of its batch
  (`settlement-service.ts:413-417`).
- Where Gamma has two markets of one slug the client takes the first, and where two
  have one id it lists the first; `ListsAreComplete` holds where an identifier
  means one market (`Unambiguous`, which TLC evaluates for the run's instance).
- When discovery fails or finds no token at start-up, the feed stays down until the
  worker is restarted; `FeedComesBack` excepts it.

## Fairness

`FairSpec` of `SettlementBridge`: awaits return (the database, Redis and the RPC
node answer or fail), free slots take waiting jobs, timers fire again and again
(`setInterval`), a transaction commits or aborts (Prisma ends it after 5
seconds), BullMQ's stalled checker runs, and a transaction in the mempool is
mined unless the network drops it. Nothing is assumed of requests, crashes,
faults, or of what others do with the vault. `FairSpec` of `PositionLedger`:
statements return and the sync interval fires; a statement that waits for a lock
is not enabled, so weak fairness does not hide a deadlock. `FairSpec` of
`HedgeLoop`: the timer fires and awaits return. `FairSpec` of `PriceFeed`: discovery
answers or fails, a connection attempt succeeds or closes, the reconnect timer
fires, Redis answers; nothing is assumed of the venue, and `MarkFollowsLastingMove`
says itself what it needs to say. `FairSpec` of `MarketDiscovery`: the terminal's
query is repeated (`refetchInterval`), a fetch answers or times out after ten
seconds, the TTL passes, React runs effects. Failures are bounded in number,
so "after the last failure" exists: the liveness properties say that the system
recovers, not that it works while it keeps failing. `MirrorConverges` has a premise of
the same kind: the vault's balances come to rest.

## Proofs

`HyperVaultProofs` proves, for every number of accounts, initial wallet, PnL and
fee (assumption `VaultAssumption`: they are naturals and there is an account):

- `TypeCorrect`: `Spec => []TypeOK`
- `AlwaysSolvent`: `Spec => []Solvent`
- `TotalIsSum`: `Spec => []LedgerSums`
- `AlwaysRedeemable`: `Spec => []Redeemable`
- `VaultImplementsCustody`: `Spec => ImplementsCustody`

The inductive invariant is `VaultInv`, the conjunction of `TypeOK`, `Solvent` and
`LedgerSums`. None of them is inductive alone: that the total stays natural
after a loss needs that a balance is at most the total (`BalanceBelowTotal`), which
needs that the total is the sum of the balances; and the sum needs types.
The sum over a set of accounts would call for induction over data, so it is
stated by its prefix sums: there is a function `p` with `p[0] = 0`, `p[a] = p[a-1] +
settledBalance[a]`, monotone, and `p[NumAccounts]` the total. `ShiftKeepsSums` is the
heart of the proof: when one balance and the total move by the same amount, the
prefix sums from that account on move with them and are a witness again.
Solidity's profits, losses and clamped losses are one such move
(`SettlementEffect`), deposits and withdrawals others (`PaymentEffect`,
`WithdrawalEffect`). Redeemability follows from the invariant, and for the
refinement each action is mapped to `Pay`, `Settle`, `MovePool` or `Freeze`.

`SettlementProofs` proves, for any numbers of positions, settlements, slots, ticks,
polls and failures, and whether or not job locks expire (`BridgeAssumption`):

- `BridgeTypes`: `Spec => []TypeOK`
- `ConfirmedMeansApplied`: `Spec => []ConfirmedIsOnChain`
- `RetriesAreFailures`: `Spec => []RetriesNeedFailures`

Its inductive invariant `BridgeInv` says what a fibre holds at each await: the row
it has read was committed, the hash it has read or got names a transaction of its
own settlement, and a receipt it has seen is the chain's last word. That a
confirmed row was applied rests on nothing being taken back (`Grows`): transactions
that are mined stay mined, rows keep a hash. The count of retries is not inductive,
because a slot that is about to broadcast, or a job that waits for a slot, is a
transaction still to come; `BudgetInv` counts transactions, such slots and such
jobs together, and every step that would add to them takes one away or is a
failure.

`ClearingProofs` proves, for the same parameters under the hypothesis
`~LocksMayExpire`:

- `VerdictIsTrue`: `Spec => []VerdictMatchesRecordedTx`
- `RecordsAreFinal`: `Spec => RecordIsFinal`
- `ClearingIsImplemented`: `Spec => ImplementsClearing`

The hypothesis is that BullMQ does not give a job to a second worker while the
first is alive and works on it. BullMQ renews the lock for as long as the event
loop runs, and without renewal the properties are false (two slots broadcast,
and the row records one of the hashes; the run `SettlementLocks` checks what is
left). `OwnerInv` adds to `BridgeInv` that the slot at work on a settlement holds
its job, so it is the only one, and the last transaction it sent is the one it
will record. The refinement maps every action to a step of `Clearing` or to a
stutter: a mined `settle` to an application, the commit of a queued row and the
two verdicts to steps of the verdict, failures to its failures, all else to
nothing.

`LedgerProofs` proves about `PositionLedger`, for any positions, prices, sizes,
leverages, transactions and syncs (`LedgerAssumption`, `RiskAssumption`):

- for any number of them under way at once, `LedgerTypes`: `Spec => []TypeOK`;
  `SettlementsAreSingle`: `Spec => []OneLiveSettlement`; `WaitsEnd`: `Spec => []NoLockCycle`
- and for any number of them, whatever keys they are for and however they overlap:
  `StatusIsSize`: `Spec => []StatusTellsSize`; `LiquidationsAreNamed`:
  `Spec => []LiquidationIsPending`; `MarginIsEnough`: `Spec => []MarginCoversLoss`;
  `AccountIsExact`: `Spec => []MarginIsExact`

`LedgerInv` is the lock discipline: which rows a transaction has locked at each of
its statements, and what it holds of them. A close that looks for a live settlement
holds the account's row until it commits, so its answer is still right when it
queues its own; and a transaction locks the account's row before a position's only
when it creates the account, which keeps all others from getting to a lock, so
waiting has no cycle.

What a request has read of a position need not be the row it replaces, since orders
and closes take no lock before they write. `ReadInv` says what remains true of it: a
row once made keeps its key, no two orders make the same row, and what the UPDATE
makes of the row as it is at that moment (an order that averages leaves the status
alone; a close may reopen a row under liquidation, but leaves no open row empty).
`RowInv` follows for the committed rows. Two counts are inductive beside it:
`OpenInv` counts with the open rows of a key those that a transaction may yet open,
`PendingInv` with a position's pending liquidations the scans about to queue one.
`ExactInv` says that what a transaction has summed up are the sums of the rows as it
will leave them, unless another has committed meanwhile (`overtaken`); its write then
makes the account exact. `MarginIsEnough` rests on `MarginCoversUnliquidated` of
`RiskProofs`. The sums are folds; that a partial sum exists for every subset is shown
by a subset of the smallest size without one, since induction is out of reach.

`HedgeProofs` proves, for any markets, outcomes, thresholds, exposures, and any
number of cycles under way at once (`HedgeAssumption`):

- `HedgeTypes`: `Spec => []TypeOK`
- `BreachesAreHedgeable`: `Spec => []BreachIsHedgeable`
- `OneOrderPerCycle`: `Spec => []OneOpenOrderPerCycle`
- `DuplicatesAreFailures`: `Spec => []RestingNeedsFailures`
- `OrphansAreFailures`: `Spec => []OrphansNeedFailures`

A failure is here what costs one of `faults`: a failing database call, a crash, an
answer that is lost or cannot be read, and an unknown status for an order that rests
at the venue. `DuplicatesAreFailures` says that nothing else leaves at the venue more
than the open orders on record.

`HedgeInv` says that from its create to the end of its turn a cycle is the only
one at work on its order, and that order is pending. Beside it three counts are
inductive: the open orders of an outcome together with the cycles about to create
one (`OpenBound`: a cycle that begins its search later finds what the others have
created, so each cycle adds one at most), what rests at the venue against the open
orders on record (`RestBound`), and the orphans. `BreachIsHedgeable` compares a sum per
market with one per outcome: if a market is heavier on one side, so is one of
its outcomes, shown through partial sums as above.

`PriceFeedProofs` proves, for any assets, handlers, messages of any length and
numbers of failures (`PolicyAssumption`, `FeedAssumption`):

- `PolicyMovesSmoothly`: from a remembered mark, whatever the event, the policy
  gives a mark at most `MaxMarkPriceJump` away
- `FeedTypes`: `Spec => []TypeOK`
- `MarksStayBinary`: `Spec => []MarksAreBinary`
- `StoreKeepsUp`: `Spec => []StoreFollowsFeed`
- `StoreIsSmooth`: `Spec => StoreMovesSmoothly`
- `LastIsHeard`: `Spec => []LatestIsLastHeard`

The inductive invariant `FollowInv` adds to the types two facts about the queue
of writes: the last write under way for an asset carries what the feed remembers
of it (`Tracks`), and an asset without any is up to date in the store or in `gap`
(`UpToDate`). `StoreFollowsFeed` alone is not inductive: when the last write of an
asset is executed, it takes `Tracks` to know that it carries the right quote.
`SmoothInv` makes the writes of an asset a chain of the policy's steps that hangs
on the store (`Chained`, `Attached`), from which the action property follows: what
Redis executes is the next link. `HeardInv` says that what has been heard of an
asset is what is remembered, overlaid with the events of it that wait, and that
they wait in one handler; the policy takes the first of them from the message and
puts it into the memory, and their sum stays the same.

`DiscoveryProofs` proves, for any allowlist, markets at Gamma, number of overlapping
lookups, changes and failures (`DiscoveryAssumption`):

- `DiscoveryTypes`: `Spec => []TypeOK`
- `MarketsAreListedOnce`: `Spec => []NoMarketTwice`
- `ListsAreFull`: `Spec => []ListsAreComplete`, under the hypothesis `Unambiguous`

Completeness is about a finished list, so the invariant `CompleteInv` says what a
lookup knows on its way (`Knows`): a market that could be found all the while and is
named by an identifier it is done with is in its list, one named by the identifier it
has come to does not match the keys it has tried, and everything in the list could be
found at some moment or is hidden by its condition id. The order of the keys depends
on the identifier's shape; the proof only needs that each order has all three keys
(`OrdersAreComplete`). The hypothesis is Gamma's to ensure: with two markets of one
slug a list has room for one of them.

`RiskProofs` proves about the formulas, for all sizes, prices, leverages, sides and
risk parameters (`RiskAssumption`):

- `MarginCoversUnliquidated`: at a mark at which a position is not liquidatable its
  margin exceeds its loss by more than the buffer on its size
- `AveragingKeepsPnl`: at every mark, the PnL of an averaged position is that of its two
  parts but for less than one unit of price on its size, the rounding of the entry

Divisions round down, which the proofs show to be on the safe side; Decimal's 20
significant digits round by less. `MarginCoversLoss` checks the first for the rows
that `PositionLedger` reaches.

So every invariant and every action property that a passing run checks is also a
theorem, and both refinements are. Only model-checked, because the prover does not
reach liveness under fairness: `SubmittedIsResolved`, `QueuedIsTried`,
`MirrorConverges`, `AccountConverges`, `BreachIsAnswered`, `FeedComesBack`,
`MarkFollowsLastingMove` and `TerminalCatchesUp`.

## Not modelled, and why

- The other endpoints, configuration and logging keep no state; the terminal's
  price panels, filter and ticket only show or hold inputs; deployment scripts
  run once.
- Parsing of the Gamma API's outcomes and of the WebSocket's messages is data
  conversion.
- The price store's history list is written in the same MULTI as the snapshot and
  nothing reads it; the stale flag is computed from the clock when read.
- The liquidation worker only logs, so its queue is left out.
- Decimal rounding beyond integers, the trade fee (no caller), maintenance margin,
  penalty, notional and stored liquidation price: no decision depends on them.
- The reported `pendingSettlementDelta`, and fill amounts of hedges: nothing
  reads them.
- Several users in `PositionLedger`: their rows and accounts are disjoint, and no
  transaction touches two users.

## Plan

Built so far: the vault, the settlement bridge with the promise of `Clearing`, the
position ledger with its risk formulas, the hedge loop, the price feed, market
discovery, and proofs about each. Left:

1. An atomic ledger (open, close, scan, finalize and sync in one step each) that
   `PositionLedger` with one transaction at a time implements, checked and proved.
2. A run of `SubmittedIsResolved` with three rows and a tick of two, once the bridge
   is split into a part that submits and one that reconciles.
