# TLA+ specifications of GMX-Solana

This directory keeps the formal specifications of the GMX-Solana programs
(`src/programs`, `src/crates/gmsol-model`): TLA+ modules translated from the
Rust source, TLC configurations that check them on small instances, and
TLAPS proofs of their main properties. `PROJECT.json` lists, for every
definition, the source lines it models.

In the text, `S/` is `src/programs/gmsol-store/src/`, `T/` is
`src/programs/gmsol-treasury/src/` and `L/` is `src/programs/gmsol-timelock/src/`.

## 1. The system

GMX-Solana is a perpetual exchange on Solana. Three programs share accounts:

* **gmsol-store** keeps the *store* (authority, roles, feature switches, GT
  state), one *market* account per market, *positions*, *users*, the *oracle*,
  token maps, GLVs, and the *action* accounts (deposits, withdrawals, shifts,
  orders and their GLV variants).
* **gmsol-treasury** is the receiver of the fees. It splits them between a
  treasury and the *GT banks* from which GT is bought back.
* **gmsol-timelock** owns the store's authority through the wallet of an
  *executor* and lets instructions through after approval and a delay.

Off-chain keepers execute actions with oracle prices, owners create and close
them. An instruction is atomic: it succeeds, or the runtime restores every
account. So there are no data races, and the hard behaviours are of four kinds:
instructions of different people in any order; a *soft* failure inside an
instruction that nevertheless succeeds (a failed execution cancels the action,
a missing token account interrupts a close), which the runtime does not undo;
bookkeeping in accounts of what a token vault shared by several owners holds;
and the passing of time (delays, windows, restarts of the cluster).

| Component | State | Operations | Correct when |
|---|---|---|---|
| Revertible market buffer (`S/states/market/revertible`) | pools, clocks and other state, twice, with revision tags | start, read, write, commit, drop | a dropped operation leaves no trace, a commit loses nothing |
| Swaps along market paths (`swap_market.rs`) | recorded balances and pools of every market | enter, swap, move, leave, final checks, pay | recorded balance = what the market owes, at every hop and when the output is paid |
| Actions (`S/instructions/exchange`, `S/utils`) | action header, escrows, lamports, GT reward | create, execute, cancel, close | tokens and lamports go to whom the outcome entitles, once |
| Positions and order execution (`S/ops/order.rs`, `gmsol-model`) | position, orders on it, rent | prepare, increase, decrease, update, cut, close | collateral and open interest match the pools, a cut is paid for once |
| Claimable accounts (`S/instructions/token.rs`) | token accounts per time window | use, pay into, claim, close | what is owed stays reachable |
| Liquidity and vaults (`S/ops/market.rs`) | vaults shared by markets | transfer in and out, mint and burn at commit | vault holds the sum of the recorded balances |
| Pricing and fees (`gmsol-model`) | pools | swap, deposit, withdraw, increase, decrease, funding, borrowing | value is neither created nor lost beyond rounding |
| Oracle (`S/states/oracle`) | prices of one instruction, feeds, token map | set, use, clear | an action is priced with prices of its own time only |
| Market and token configuration (`S/instructions/market.rs`) | markets, configuration buffers | initialize, toggle, update, push, apply | a keeper applies what was handed over |
| GLV (`S/states/glv.rs`, `S/ops/glv.rs`) | recorded market token balances, caps | deposit, withdraw, shift | balances recorded = held, shift limits |
| GT (`S/states/gt.rs`) | totals, cost, users' GT, exchange vaults | mint, request, confirm, close | GT conserved, cost follows the total minted |
| Treasury (`T/`) | treasuries, banks, factors | deposit, sync, confirm, claim, withdraw | reserve covers the claims and stays under its caps |
| Timelock (`L/`) | executors, delay, buffers | create, approve, cancel, execute, bypass | power is announced for the whole delay |
| Roles, authority, restart (`S/states/store.rs`, `roles.rs`) | role table, authority, last restart | grant, revoke, transfer, acknowledge | nobody gains a role by a sequence of legal calls |
| Users and referrals (`S/states/user.rs`) | referrer, code | set, transfer, accept | a code has one owner |
| Clients (`src/crates/gmsol`, `sdk`, `solana-utils`) | none on chain | build and send transactions | groups of instructions stay together |

Interactions: the treasury and the timelock call the store by CPI, signing
with program addresses; actions, swaps and claims share the market accounts
and vaults; every role check reads the store; orders mint GT and, when they
are closed, reward the referrer.

## 2. Modules

| Module | Models | Runs | Proofs |
|---|---|---|---|
| `TransactionalMarket` | abstract specification of a market operation: begin, change, commit or drop, inside an instruction that persists or rolls back | through the refinement | |
| `RevertibleMarket` | the revision-tagged buffer | `markets` | `RevertibleMarketProofs` |
| `SwapMarkets` | `SwapMarkets::revertible_swap` | `markets`, `swap_order_payout` | `RevertibleMarketProofs` |
| `ActionLifecycle` | one action account from creation to close | `action_lifecycle`, `action_liveness` | `ActionLifecycleProofs` |
| `Timelock` | the timelock and the power it holds over a store | `timelock`, `timelock_accounts` | `TimelockProofs` |
| `GtExchange` | GT minting and exchange in the store | `gt_exchange` | `GtTreasuryProofs` |
| `GtTreasury` (extends `GtExchange`) | the treasury as GT controller of that store | `gt_buyback` | `GtTreasuryProofs` |
| `MarketMath`, `MarketModel`, `LiquidityModel`, `PositionModel` | the formulas of `gmsol-model` as operators on a market record: pools, fees, impact, funding, borrowing; deposit, withdrawal, swap; increase and decrease | through the next two | `MarketTheorems` |
| `PerpMarket` (extends them) | one market and its positions | `perp_market` | `PerpMarketProofs` |
| `Glv` (extends `PositionModel`) | a GLV over several markets with shared vaults | `glv` | `PerpMarketProofs` |
| `AccessControl` | abstract specification of roles, authority and restarts, with sets | through the refinement | |
| `Access`, `FixedMap`, `StoreRoles` | the role asked for by each entry point; the sorted fixed-capacity map; the role store and the store's authority | `store_admin` | `StoreAdminProofs` |
| `Referrals` | users, referrers and referral codes | `store_admin` | `StoreAdminProofs` |
| `PriceDecimal`, `Oracle` | decimal prices; feeds, token map, the oracle account and what is executed with it | `store_admin`, `price_overflow` | `StoreAdminProofs` |
| `MarketConfig` | markets, their switches and configuration buffers | `store_admin` | `StoreAdminProofs` |
| `Claimables` | claimable accounts by time window | `store_admin` | |
| `PositionOrders` | the orders and cuts that compete for a position account | `store_admin` | `StoreAdminProofs` |

Conventions. An instruction that fails changes nothing, so only successful
instructions are steps; a soft failure is a step of its own. Variables marked
*history* record what the code forgets (what was paid, who was sent what) and
are read by properties only, never by guards. A definition called a mutant in
its comment is a plausible wrong version of the definition after it;
`PROJECT.json` names the property that tells the two apart. Bounds that stand
for `u32::MAX`, `u64::MAX` or `u128::MAX` are constants.

### 2.1 RevertibleMarket

`rev`, `cache` and `storage` are the fields of the account. Pools, clocks and
the other state are all *cells* with a tag, as the three cache implementations
in `buffer.rs` are one macro. `StartOp` is `RevertibleMarket::new`, `Write` any
of the `*_mut` accessors followed by a change, `NextTradeId` the one accessor
that reads the storage and writes the buffer, `Commit` and `Drop` the two ends
of an operation. `WriteDirect` is the write of the ADL clock around the buffer.
`ledger` is the account at the last instruction boundary: `Persist` and
`Rollback` are the runtime's, and a rollback restores the buffer as well.

### 2.2 SwapMarkets

One call of `revertible_swap`, with the stages of the code as `pc`: for each
side `Enter`, then `Swap` and `MoveOn` along the path, `Leave` and `Close`,
then `Check`, and then `Pay`, the transfers out of the instruction that made the
call. `caller` is the kind of action that swaps; it decides the direction
(`Into`), the inputs, and what happens to the outputs. A deposit and an
increase swap into their market and keep the output there; a withdrawal and a
decrease swap out of it and pay from the last market of the path; a swap order
swaps into its market and yet pays from the last market of the path
(section 5). `OutputMarket` is where `revertible_swap` takes the output to be,
`PayingMarket` where the caller pays it from. `bal` is the recorded balance of a market, `pool` what it owes to
liquidity, impact and fee pools together, `Collateral` what it owes to
positions. The amount a swap yields is any amount the pool can pay. `Fail` may
replace any step: the pricing code may refuse for reasons not modelled here.
The path checks (`ValidPath`) are those made when the action is created. The
specification is `SwapSpec`: its module is proved about together with the buffer's.

### 2.3 ActionLifecycle

One action of any kind with its escrows, one per token, as the code derives
the escrow from token and action address: two roles with one token share one
escrow. `Close` is the whole `Close::close` template with the order of
transfers of each kind (`DepositSlots`, `OrderSlots`...), the first transfer
that is not possible ending it. Whether the execution against the market
succeeds, and with which output, is open; the transfers, the fee and the GT
reward around it are modelled. `SetAta` is what owners and strangers may do to
the receiving token accounts through the token program; features may be
switched and the cluster may restart at any moment. After a restart only a
`RESTART_ADMIN` passes for a keeper, if one does that work (`RestartAdmin`).

### 2.4 Timelock

The program's instructions act on `buf`, `delay`, `executors`; the store's
part is its authority, role table and price provider, with the rule that after
a restart only RESTART_ADMIN counts. `Invoke` is what a buffered instruction
does when the executor's wallet signs it. `age` counts for how long an approved
buffer was visible. Every principal, people and executor wallets alike, may
call the store directly, with the same checks.

`AccountSize` is the size of one record in a buffer's account list. With the
33 bytes of the code only buffers without accounts pass `load_instruction`
(see 5), so the passing runs set it to 1, which is what the check in the code
would need; the theorems are proved for every size.

### 2.5 GtExchange and GtTreasury

`GtExchange` has the store's side: `ProcessGt` mints for the fee of an order
and carries the remainder, `ProcessGtReward` rewards the referrer when the
order is closed, `RequestExchange` burns GT into the vault of the current
window, `ConfirmVault` and `CloseExchange` are the controller's. `GtTreasury`
replaces the controller by the treasury program, whose config account is the
only GT_CONTROLLER in the deployment script
(`src/crates/gmsol/src/cli/admin.rs:311-336`): `ConfirmGtBuyback` calls
`ConfirmVault`, `CompleteGtExchange` calls `CloseExchange`. `held` is what a
bank's vault holds and `rec` what the bank has recorded. Factors are multiples
of `1/Unit`, prices are whole numbers chosen when a window is confirmed.

### 2.6 MarketMath, MarketModel, LiquidityModel, PositionModel and PerpMarket

A market is a record: its pools as functions of side, clocks, recorded
balances, supply, and `ok`, which a check that fails makes false; an action is
enabled when `ok` is still true at the end, as an instruction commits only
then. `Unit` stands for 10^20, and every division rounds the way the code
rounds it. The operators follow `gmsol-model` function by function:
`UpdateFunding`, `UpdateBorrowing`, `DistributePositionImpact`, the price
impact with its caps, fees and their split, `Deposit`, `Withdraw`, `Swap`,
`Increase` and `Decrease`, the last with its order of payments and the pools
that each falls back to. `PreExecute` is what every execution does first. Exponents
are whole, and one in the runs, as others need fixed-point powers.
`FundingBoundsAssumption` rules out bounds of the funding factor with which the
code refuses every update.

`PerpMarket` has one market, with two tokens or with one for both sides
(*pure*), and one position of each kind in `PositionKinds`, keyed as the code derives the
address: side, collateral side, owner. Its actions are the
executions of the store (`S/ops`), `ClaimFees`, `UpdateAdlState`, and prices and
time moving on. A shift is `ShiftOut` of one market and `ShiftIn` of another.
What an insolvent close leaves unpaid, and collateral too small to be paid
out, is counted in `forgiven`. The acceptable price of an order is left out: it can only
refuse an execution. A decrease removes a position when its last token goes, even if it
has USD size left, and the open interest and the total borrowing then keep that
rest: `leftBehind` (history) is what they keep. It takes a
`min_position_size_usd` worth less than one unit of the index token, so it stays
zero in the run; the theorems cover every configuration.

### 2.7 Glv

Requests are created, executed and closed; the market part of a GLV deposit,
withdrawal or shift is the `LiquidityModel` of the market it names, with the
markets' tokens in vaults they share. `config` is the GLV's own map, with the
capacity of the code's. Everything in escrow is in `requests`. Anybody may
donate market tokens to a vault. Swap paths, rent and execution fees are left
out (so `SharedVaultExact` says nothing of the payment of swap orders), and so
are the minimum amounts, the locked first deposit and the switch of the single
market, which can only refuse an execution; so is `validate_after_execution`, since `RecordedIsInVault` shows that it
never fails. In the run `Params` has one value of `min_tokens_for_first_deposit`. The
specification is `GlvSpec`. `GlvAssumption` asks that the markets have
two different tokens and start with unsigned amounts and a recorded balance of each. The code
also lets a GLV have pure markets, whose two sides share one vault; those are not modelled.

### 2.8 AccessControl, StoreRoles, Access and FixedMap

`AccessControl` is the promise: who holds which role, which roles are enabled,
who has the authority and who receives fees, with the rule that after a
restart of the cluster only RESTART_ADMIN counts, and there for every role.
`StoreRoles` is the code: role names with an index and an enabled flag in one
fixed map, members as bitmaps in another, both sorted by key. A role that is
disabled and enabled again keeps its index. `Access` gives, for every
instruction of the store, the role its entry point in `lib.rs` asks for; `Invoke`
is any of them called by anybody. Refinement maps bitmaps to sets of names.

### 2.9 Referrals, MarketConfig, Claimables

`Referrals` has the accounts of users and codes, with the next owner of a code,
and old codes that are still to be migrated. `MarketConfig` has markets and one buffer, whose
authority may be handed over; `received` (history) is how
many entries it had when the present authority got it.
`Claimables` has one account per time window and claimant, approvals by
delegation, and the two window sizes and the holding address, which may be
reset at any moment; the timestamp is a free argument of `use` and `close`, as
in the code.

### 2.10 Oracle and PriceDecimal

One market, one request and one position. Time is counted in slots,
`SlotsPerSecond` of them in a second. Feeds of the store are updated by
keepers, those of other providers hold any report of `Quote` that a provider
could have published by then. `Use` is the whole `with_prices`: load, validate
ages, range and feed accounts, run, clear. `used` (history) is what the last
instruction was priced with. The controller may also set prices and clear them
in separate instructions. `PriceDecimal` is `try_from_price` and
`to_unit_price`, with `ValueLimit` in place of 2^32.

### 2.11 PositionOrders

Order accounts, position accounts and lamports. Executing an order is success
or a soft failure; a position is reduced to its size. `RemovePosition` closes
an empty position and pays its rent to the owner, or, for a cut, first the
executor for the order account it paid for. Order accounts die with `Close`.
Rents are constants, so that a position always holds what `prepare_position`
put in for a cut; the warning of `close_position` about a position that holds
less takes a rise of the rents and does not occur.

## 3. What TLC checks

| Run | Question | Properties |
|---|---|---|
| `markets` | Do revision tags really separate live from stale cells, with dropped operations and rolled back instructions in between? Does the recorded balance follow the tokens along two paths that may share markets, do the final checks exclude what leaves, and is each output paid from the market that records it? | `ImplementsTransactions`, `BalanceCovered`, `OutputWherePaidFrom`, `ExclusionsExact` |
| `swap_order_payout` | Does a market that pays the output of a swap order still have what it owes? *violated* | `PayingMarketsCovered` |
| `action_lifecycle` | Whatever happens to token accounts, feature switches and the cluster, does everybody get what the outcome entitles to, once, and may the owner always leave? | `FundsFollowOutcome`, `NothingStranded`, `ReferralPaidOnce`, `KeeperPaidWithinBudget`, `OwnerCanLeave` |
| `action_liveness` | Is every action closed in the end? | `EventuallyClosed` |
| `timelock` | Is power over a governed store gained only after the full delay in view, and is an approval worth nothing once its approver is revoked? | `PowerIsAnnounced`, `ProtectedRolesKept`, `RevokedApproverPowerless` |
| `timelock_accounts` | Can a keeper buffer an instruction with accounts? *violated* | `KeeperCanPropose` |
| `gt_exchange` | Is GT conserved, and does its cost depend on the total alone, over several steps and windows? | `GtConserved`, `VaultCoversExchanges`, `CostFollowsTotalMinted`, `FeesMintedOnce` |
| `gt_buyback` | Are claims fair, complete and covered in every order, what survives a change of treasury, factors and tokens, and is every exchange settled while the treasury stays? | `RecordedIsHeld`, `ReservePaidOut`, `ShareRespected`, `BuybackCapped`, `ExchangesSettled` |
| `perp_market` | Do the books of a market agree with its positions, does its balance back every claim at once, can each position be settled, and is a liquidity provider who stays ever diluted? | `PoolsMatchPositions`, `Solvent`, `AlwaysSettleable`, `NoDilution` |
| `glv` | Is what a GLV records in its vaults, do shared vaults hold what the markets record, and are holders of GLV tokens ever diluted? | `RecordedIsInVault`, `SharedVaultExact`, `FirstDepositLocked`, `NoGlvDilution` |
| `store_admin` | Do index table and bitmaps implement the relation of people and roles? Has a code one owner, and does it change hands only as promised? Are instructions priced with fresh, exact prices of their own? Is a configuration applied as handed over, is what is owed reachable in any window, and are cuts paid for by the right party? | `ImplementsAccessControl`, `CodesOwnedOnce`, `ReferralsCounted`, `TransfersArePromised`, `ExecutedOnFreshPrices`, `PricesNotLeftBehind`, `PricesKept`, `AppliedAsHandedOver`, `ClaimsReachable`, `CutsPaidForOnce` |
| `price_overflow` | Is the price an instruction reads the price that was quoted, for any quote? *violated* | `PricesKept` |

### Bounds

* `markets`, a behaviour of which is about the buffer of a market or about a
  swap through several: for the buffer, one pool cell and the `other` cell
  with two fields and two values, three revisions: a stale write can be dropped, rolled back and
  met again by two later operations. More revisions only repeat this.
  For the swaps, three markets over two tokens, one of them pure and two with
  the same pair in opposite orientation, paths of up to three hops for both
  sides, amounts 0 to 2, pools of 3, all five kinds of callers: all ways in
  which paths, output markets, paying markets and the current market coincide.
  `swap_order_payout` has the two ordinary markets and swap orders only.
* `action_lifecycle`: six shapes, among them those with a token in several
  roles; three token accounts change freely, two fees from the minimum up, two
  feature switches and a restart; `action_liveness` has two token accounts that start in any state.
* `timelock`: two people, one buffer that may be used again, eight operations,
  delays 0 to 2 and three ticks: a buffer can be approved before a raise of the
  delay and executed after it. For any number of buffers the same properties
  are proved.
* `gt_exchange`: two users, one referred by the other, up to five GT, which
  crosses two cost steps and two ranks, two exchange windows.
* `gt_buyback`: two users with up to two GT between them, one token at two
  prices, two treasuries, the second one new, one window that ends, and one
  change of treasury, factor, flag or token list at any moment. At the higher
  price the reserve is one token that two exchanges share, so that shares do
  not divide evenly.
* `perp_market`: `Unit` 10, pools of 30 to 60 tokens, two price sets (one of
  them with a spread), two ticks, three trades and one other operation: enough
  for a position to be opened, accrue funding and borrowing at other prices,
  and be reduced, liquidated or deleveraged beside one of the opposite side.
* `glv`: three markets, the first with an open position, one price change, two
  ticks, three requests, of which one is open at a time, and two changes of
  configuration or donations; a market can be drained, removed and inserted
  again, and the map of three is full when all are in it.
* `store_admin`: six parts that share no state. A behaviour is about one of
  them (`about`), so that one run has the union of their states, not the
  product. Roles: three keys, two roles, member table of three, one restart,
  one offer of each kind. Referrals: three people and codes, one of them old.
  Oracle: two tokens, one with a feed of the store and one of another provider,
  two seconds of two slots, an increase, a limit decrease and the cuts, one
  change of configuration. Markets: two managers, one listing, two keys with
  two values, buffers of two entries, two edits, one tick. Claims: two people, one tick,
  two payments, one reset. Orders: one position address, two order accounts,
  four orders, size up to two.
* `price_overflow` is `store_admin` with quotes above `ValueLimit`.

Symmetry is used for people that are alike: the users of `gt_buyback` have no
symmetry because that run checks liveness; in `store_admin` the two people without an
old code may be swapped. Deadlock is not checked where the modelled life ends: a closed
action, a returned swap, the end of the bounded clock.

### Fairness

`action_liveness` assumes that keepers execute what they can and close what is
settled, that missing escrows get created, and that the receivers' token
accounts are created unless they were given away: keepers are paid for the
first, and the last two anybody may do (`prepare_associated_token_account`).
No restart happens in that run. `gt_buyback` assumes that time
passes, that the treasury keeper prepares and confirms, and that owners
complete their exchanges. Weak fairness is enough in both: none of these
steps is enabled only now and then.

## 4. What is proved

All theorems hold for every value of the constants that meets the module's
named assumptions.

* `RevertibleMarketProofs`: `TypeCorrect`, `TagsCorrect`, `TradeIdCorrect` and
  `Refinement` (the buffer implements `TransactionalMarket`). The invariant is
  the type, `NoFutureTag` for the account and for the copy a rollback restores,
  and that the saved revision has started. `NoFutureTag` is what makes the next
  revision unused (`NextRevUnused`), so a new operation reads the storage only
  (`StartReadsStorage`), and every step is then a step of the abstract market.
* `RevertibleMarketProofs`, for `SwapMarkets`: `SwapKeepsMarketsCovered`, `SwapOutputsLocated`,
  `SwapExclusionsExact`. `BalanceCovered` alone is not inductive: a swap is
  sound only at the market that holds the input. `Located` says where the
  machine is on its path, `Waiting` that a side not started still has its input
  where the caller put it, `Finished` that a finished side has its output where
  the final checks expect it, `OnePath` that an order has no secondary path.
  `SameMarket` then says that this is where the caller pays it from, for every
  caller but a swap order whose path ends elsewhere (`PaysElsewhere`), the one
  case that `BalanceCovered` after the payment and `OutputWherePaidFrom` leave
  out.
* `ActionLifecycleProofs`: `FundsCorrect`, `NothingLeftBehind`,
  `KeeperFeesCorrect`, `ReferralCorrect`. `Staged` ties the history to the
  state of the action. The core is `CloseFunds`: of several slots with one
  token only the first pays, and by the order of the slots and the assumption
  on shapes (`DistinctAssumption`: the market token of a deposit, withdrawal or
  shift is not one of its other tokens) it pays the right person. That a first
  slot exists needs the well-foundedness of the naturals.
* `TimelockProofs`: `TypeCorrect`, `PowerAnnounced`, `ProtectedKept`,
  `ApproverPowerless`. `AgeOK` (the approval time plus the time on display is
  now) turns the code's comparison with the clock into the time a buffer was
  visible; `GovernedStep` then goes through every way to change roles or the
  authority.

* `NumberTheorems`: what the other proofs need about quotients, sums over
  finite sets (`SumFunction`), `Min` and `Max`, for any finite set. Induction is by
  least counterexample: `LeastNatural` and `SmallestSubset` give the smallest
  number, or a subset with no smaller one, for which a claim fails. From them follow that
  the recursion under `SumFunction` has a solution (`SumsExist`), that it does not
  depend on the order of the elements (`SumRemove`), and the rest.
* `GtTreasuryProofs`, for `GtExchange`: `StoreTypeCorrect`, `GtIsConserved`,
  `VaultsCoverExchanges`, `CostIsOfTotalMinted`, `FeesAreMintedOnce`. A mint, a
  request or a confirmation changes one term of each sum (`SumChange`), so
  conservation is inductive with the type and with the two sides of a
  confirmed vault. The cost after *n* steps is a recursive function, and minting
  in parts takes the same steps as minting at once. `FeesMintedOnce` asks for a
  growth factor of at least 1 and an initial cost other than 0: `init` refuses
  neither, and with a cost of 0 nothing is minted at all.
* `GtTreasuryProofs`, for `GtTreasury`: `TreasuryUsesStore` (every step of the
  treasury is a step of the store or leaves it alone, so all of the above hold of
  the composition), `TreasuryTypeCorrect`, `RecordedStaysHeld`,
  `ReserveIsPaidOut`, `ClaimsPayTheirShare`, `BuybackIsCapped`. The inductive
  invariant of the bank is `BankInv`: what is recorded is held, a confirmed vault's
  open exchanges are what remains to be claimed (`ClaimsOpen`), and what is
  left recorded is at least the remaining exchanges' share of the reserve
  (`ReserveLasts`), which is what makes rounding harmless in every order of claims.
* `StoreAdminProofs`, one section for each part that `store_admin` runs:
  * `Referrals`: `CodesAreOwnedOnce`, `ReferralsAreCounted`,
    `OnlyPromisedTransfers`, from `ReferralsInvariant`, which adds that an offer in
    a code is the one its owner made last.
  * `Oracle`: `NoPricesLeftBehind`, `PricesAreFresh`, from `OracleInvariant`. The
    code checks the least and the greatest timestamp over all the tokens; that
    this bounds each single price uses `MinOfFinite` and `MaxOfFinite`.
  * `MarketConfig`: `BuffersApplyAsHandedOver`, from the types and from the fact that
    no entry is counted as received before it was pushed.
  * `StoreRoles`: `BitsStandForRoles` and the refinement
    `TablesImplementAccess` of `AccessControl`. The invariant `StoreRolesInv` says that
    the tables are sorted and within their capacity, that no two names share an
    index, and that every bit of a member is an index in use: without the
    last, enabling a new role would hand it to whoever has an old bit.
    The fixed map is shown once to be a partial function with a capacity.
  * `PositionOrders`: `CutsArePaidForOnce`. The invariant adds that a position account still
    holds what its owner paid in advance, whatever orders came and went
    (`CutsPrepaid`): without it a cut could refund the keeper less than it paid.

* `MarketTheorems`: what each operator of the market model does to a market, for any market
  and any argument, stated once for the two modules that are built on them. Two kinds of facts.
  About the books: an operator either `Keeps` them (the four books are as they were, the
  accumulators of funding and borrowing do not fall) or `Posts` named amounts
  to one side. About the tokens: `Moves(a, b, d)` says that of
  each token the pools and the collateral together (`Backing`) grow by `d` while the recorded
  balance stays; a deposit, withdrawal or swap then records or pays exactly that, and at every
  stage of a decrease it is what the position has lost and nobody was paid yet (`Accounted`).
* `PerpMarketProofs`: `BooksMatchPositions` and `PositionsStaySettleable`, from
  `MarketInvariant`. `MarketInv` has four
  parts. `WellFormed`: the types, which are of unsigned integers, so that no pool goes
  below zero. `Healthy`: no position has seen an accumulator that is ahead of the market's.
  `BooksAgree`: each book is the sum over the positions and of `leftBehind`. `LeftBounded`: what removed
  positions left in the total borrowing has accrued no more than the
  accumulator says. `AlwaysSettleable` needs the last three together: the
  borrowing a position pays is rounded for it alone and the book is one number, and
  a sum of roundings down is at most the rounding of the sum (`BorrowingCovered`).
* `PerpMarketProofs`: `MarketStaysSolvent`, that is `Solvent` in every market of two tokens,
  with no allowance for rounding. `Solvent` is not inductive: funding fees and claims are
  rounded for each position, so that nothing follows for the next state from sums of rounded
  numbers. `LedgerInv` counts in units of `1 / (Adjustment * Unit)` of a token instead, where
  nothing is rounded yet: what is recorded beyond the pools and the collateral, plus what all
  positions owe, is at least what they may claim (`Ledger`). An update of the funding
  keeps this because a payer's accumulator is rounded up and a receiver's down, and because the
  books are the sums over the positions (`BooksAgree`); a decrease because it rounds a fee up
  and a claim down. At the end `LedgerSolvent` rounds, once and in the safe direction. The sizes
  that removed positions left behind are charged by the books like any other, so what they
  owe is part of the sum (`LeftFunding`), although nobody will pay it.
* `PerpMarketProofs`, for `Glv`: `RecordedStaysInVault`, `SharedVaultStaysExact`,
  `GlvTokensStayAccounted`, `LeastFirstDepositLocked`, `FirstDepositStaysLocked`. The invariant `GlvInv`
  has one part for each kind of token. `MarketsInv`: the markets keep their type and the shared
  vaults hold what they record. `VaultsInv`: what the GLV records is in its vaults. `TokensInv`: every GLV
  token minted is held, or waits in the escrow of an executed deposit or of a withdrawal not
  executed, and those of the locked receiver, held or waiting, are never fewer than the least
  `min_tokens_for_first_deposit`. Without the escrows the last two are not inductive: a deposit
  mints into its escrow, and only its close hands the tokens over. `FirstDepositLocked` compares the
  supply with the parameter of today, which the authority may raise after the first deposit; so it is
  proved under the hypothesis that the parameter does not change, and `LeastFirstDepositLocked`
  says what holds without it.

Assumptions on constants are types and finiteness (`UsersAssumption`,
`TokensAssumption`, `OracleAssumption`, `ConfigurationAssumption`,
`ConfigKeysAssumption`, `OrdersAssumption`, `UnitAssumption`, `ConfigAssumption`,
`PerpAssumption`, `GlvAssumption`...): amounts, rents and times are
unsigned in the code, and sets of accounts are finite. `GlvAssumption` also restricts the
markets of a GLV to those with two different tokens (2.7). TLC evaluates each of
them in the run of its module.

Only model-checked:

* the liveness properties `EventuallyClosed` and `ExchangesSettled`, and
  `OwnerCanLeave` and `ClaimsReachable`, which speak of ENABLED;
* `PricesKept`: it is true only of quotes that fit (see `price_overflow`), and
  its bound on rounding needs powers of ten with symbolic exponents;
* `NoDilution` and `NoGlvDilution`, which compare products of roundings
  across the whole pricing code;
* `Solvent` in pure markets: its allowance for rounding (`Rounding`) grows with the number of
  executions, and the ledger argument would need the two halves of a pure pool at each
  payment.

## 5. Where code and text disagree, and what the models showed

Three runs end in a violation on purpose:

* `timelock_accounts`: `load_instruction` compares the length in bytes of the
  account list with the number of accounts (`L/states/instruction.rs:204`),
  while `init_space` reserves 33 bytes for each, so that no instruction with an
  account can be buffered, although `initialize_config` means to "Ensure at
  least one address can create and execute timelocked instructions."
* `price_overflow`: `Decimal::try_from_price` reports every overflow but the
  last one, `value as u32` (`src/crates/gmsol-utils/src/price/decimal.rs:100`),
  which keeps the low 32 bits. With four digits of precision this begins at a price of 429496.7296.
* `swap_order_payout`: `execute_swap` swaps `Into` the market of the order
  (`S/ops/order.rs:1305`), so `revertible_swap` records the output there, and
  checks that market: "the balances should have been transferred into current
  market" (`swap_market.rs:119-120`). `process_transfer_out` takes it from the
  last market of the path (`execute_order.rs:482-487`). When that is another
  market, its recorded balance is reduced twice and falls below what it owes to
  its pools and positions, as `validate_market_balances` would report, and the
  market of the order keeps a surplus. The vault still holds the sum. Creation
  asks only that the market of the order has the output token
  (`S/ops/order.rs:251-258`); the command line client always ends the path in
  that market, and so do the tests.

Observations that no property is stated for:

* When a token account is missing, `Close::close` logs "Some ATAs are not
  initialized, skip the close" and succeeds, but the escrows before the missing
  account have been emptied and closed by then. Nothing is lost
  (`NothingStranded`, `EventuallyClosed`); somebody has to create them again.
* `remove` of a full fixed map reads one slot too far (`fixed_map.rs:138-140`)
  and panics: the last role of a member cannot be revoked while there are 64
  members, nor a market removed from a GLV of 96, nor a token from a full
  treasury. The models have this guard.
* `revoke_role` fails for a user without the role, although its doc says that
  it "has no effect". There are 75 feature keys for 64 places in the table of
  disabled features.
* Prices that the oracle controller sets and does not clear block every
  execution with that oracle.
* A configuration buffer is not used up when it is applied: it may be applied
  again, to any market, until it expires.
* A claimable time window of 0 stops every claimable account until it is reset.
* A market that is removed from a GLV with a shift pending keeps that shift
  from being closed until it is inserted again.
* Positions have addresses derived from owner, market and side: a pending
  decrease of a removed position applies to the next position at that address,
  unless it is cancelled before.
* A position removed with USD size left (`decrease_position/mod.rs:607-660`) leaves that
  size in the open interest, and its part of the total borrowing, for ever.
  `BooksMatchPositions` says that nothing else separates the books from the positions.
  That size is also charged funding, which others may claim and nobody pays: `Solvent`
  holds only when it is counted as owed.
* In a pure market each half of a funding accumulator is rounded on its own, and the halves of
  what is claimed may together exceed what is charged by less than a token in
  an update.
* `MarketConfig::init` assigns `swap_impact_positive_factor` twice and
  never the negative factor (`S/states/market/config.rs:95-97`).

## 6. What is not modelled

* u128 and i128 overflow, and exponents that are not whole
  (`gmsol-model`). Where a module other than those of 2.6 needs an amount, it
  takes any amount the checks let through.
* In order execution: acceptable prices, swap paths of an increase or decrease
  together with the position (`SwapMarkets` has them alone), trade events, GT
  minted by the execution (`GtExchange` has it alone).
* Feature switches of other domains than the exchange actions, keyed setters of
  factors, amounts and addresses that no property reads, the token map's
  encoding, parsing of price accounts of other programs.
* GLVs whose markets have one token for both sides.
* GT factors are constants. `set_exchange_time_window` exists in test builds
  only. The store is assumed to have acknowledged the last restart in the GT,
  market and GLV modules: until then every instruction of anybody but a
  `RESTART_ADMIN` fails.
* Treasury swaps, tokens sent to bank vaults
  from outside, and a second GT controller beside the treasury. Switching the
  authorized treasury after deposits leaves what was recorded in the old bank
  without an instruction that releases it until the switch is undone; the code
  promises nothing here, so no property is stated.
* Clients, decoders, generated bindings, mock programs.

## 7. Plan

1. Treasury swaps as an `ActionLifecycle` owned by a program address, and the
   composition of `PerpMarket` with `SwapMarkets`.
2. Algorithms: the bundle builder of `solana-utils` and the best path of
   `sdk/market_graph`, each against a reference definition.
