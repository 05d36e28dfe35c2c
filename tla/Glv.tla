-------------------------------- MODULE Glv ---------------------------------
(***************************************************************************)
(* A GLV: a vault of market tokens with a token of its own                 *)
(* (programs/gmsol-store: states/glv.rs, ops/glv.rs, instructions/glv/).   *)
(*                                                                         *)
(* Its markets have the same two tokens.  A holder buys GLV tokens with    *)
(* market tokens or with the two tokens, which are first deposited in a    *)
(* market; gets the two tokens for GLV tokens; and keepers shift market    *)
(* tokens of the GLV from one market to another.  Each is a request that a *)
(* keeper executes later, and that is closed at the end.                   *)
(*                                                                         *)
(* An execution prices the whole GLV from the balances that the GLV        *)
(* records for its markets, not from the token accounts that hold them.    *)
(* Swap paths are left out (SwapMarkets), as are rent and execution fees   *)
(* (ActionLifecycle).  An execution that would throw changes nothing.      *)
(***************************************************************************)
EXTENDS PositionModel, Sequences, FiniteSets, Functions

CONSTANTS Markets,            \* the markets that may be in the GLV
          Opening,            \* their states when the GLV is initialized
          FirstMarkets,       \* those that the GLV starts with
          PriceSet,           \* the prices the oracle may give
          FirstPrice,         \* the first of them
          GlvDeposits,        \* <<the two token amounts, market tokens, minimum output>>
          GlvBurns,           \* GLV token amounts of withdrawals
          ShiftAmounts,       \* market token amounts of shifts
          Caps,               \* <<max_amount, max_value>> of a market in the GLV
          Params,             \* the parameters the GLV may have, the first one first
          Expiration,         \* request_expiration
          Slots,              \* addresses of requests
          MaxMarkets,         \* MAX_ALLOWED_NUMBER_OF_MARKETS
          Donated,            \* market tokens somebody may send to a vault
          MaxRequests,        \* bound on the requests
          MaxChanges,         \* bound on changes of the configuration
          LastTime            \* bound on the time

(* The markets have two different tokens, and amounts are unsigned.        *)
MarketStates ==
    [pure : {FALSE}, ok : {TRUE}, supply : Nat, factor : Int,
     pool : [PoolKinds -> [BOOLEAN -> Nat]], bal : [BOOLEAN -> Nat],
     clock : [ClockKinds -> Int]]

ASSUME GlvAssumption ==
    /\ IsFiniteSet(Markets) /\ FirstMarkets \subseteq Markets /\ IsFiniteSet(Slots)
    /\ Opening \in [Markets -> MarketStates]
    /\ PriceSet \subseteq PriceRecords /\ FirstPrice \in PriceRecords
    /\ \A d \in GlvDeposits : d[1] \in [BOOLEAN -> Nat] /\ d[2] \in Nat /\ d[3] \in Nat
    /\ GlvBurns \subseteq Nat /\ ShiftAmounts \subseteq Nat /\ Donated \in Nat
    /\ Len(Params) \in Nat \ {0} /\ \A k \in 1 .. Len(Params) : Params[k].first \in Nat

VARIABLES market,             \* the markets
          config,             \* GlvMarketConfig of each market in the GLV
          params,             \* what UpdateGlvParams may change
          supply,             \* GLV tokens minted
          held,               \* GLV tokens of the users and of the locked receiver
          gmWallet,           \* market tokens of the users
          gmVault,            \* market tokens in the vaults of the GLV
          vault,              \* tokens in the vaults that all markets share
          lastShift,          \* shift_last_executed_at
          requests,           \* the requests, by address
          oracle,             \* the oracle's prices and the time
          made, changes       \* requests and configuration changes so far

glvVars == <<market, config, params, supply, held, gmWallet, gmVault, vault, lastShift,
          requests, oracle, made, changes>>

None == [kind |-> "none"]

(* GlvDeposit::first_deposit_receiver: an address without a private key.   *)
Locked == "locked"
User == "user"

-----------------------------------------------------------------------------
(* The configuration of the GLV.                                           *)
Contains(mk) == mk \in DOMAIN config
Full == Cardinality(DOMAIN config) = MaxMarkets

(* GlvMarketConfig::default, for markets that are inserted.                *)
DefaultConfig == [max_amount |-> 0, max_value |-> 0, allowed |-> FALSE, balance |-> 0]

(* What the configuration instructions do to it.                           *)
Toggled(c, mk) == [c EXCEPT ![mk].allowed = ~@]
Capped(c, mk, cap) == [c EXCEPT ![mk].max_amount = cap[1], ![mk].max_value = cap[2]]
Inserted(c, mk) == [k \in DOMAIN c \cup {mk} |-> IF k = mk THEN DefaultConfig ELSE c[k]]
Removed(c, mk) == [k \in DOMAIN c \ {mk} |-> c[k]]

(* GlvMarketConfig::validate_balance: what the caps allow.                 *)
WithinCaps(c, balance, value, gmSupply) ==
    /\ c.max_amount > 0 => c.max_amount >= balance
    /\ c.max_value > 0 => /\ value >= 0
                          /\ c.max_value >= MulDiv(balance, value, gmSupply)

(* Glv::update_market_token_balance.                                       *)
RecordAdded(c, mk, balance) ==  \* a mutant: added to what is recorded
    [c EXCEPT ![mk].balance = @ + balance]

Record(c, mk, balance) == [c EXCEPT ![mk].balance = balance]

(* Glv::validate_shift_interval, validate_shift_price_impact and           *)
(* validate_shift_value.                                                   *)
ShiftIntervalPassed == params.interval = 0 \/ oracle.now >= lastShift + params.interval

ShiftImpactAllowed(from, to) ==
    from < to \/ (from # 0 /\ DivToFactor(from - to, from) <= params.impact)

ShiftValueAllowed(from) == from >= params.value

-----------------------------------------------------------------------------
(* Values (ops/glv.rs).                                                    *)
(* get_glv_value_for_market: a negative pool has no price, nor has a       *)
(* market token that nobody holds (market_token_amount_to_usd).            *)
Priceable(n, balance, maximize) ==
    /\ PoolValueKnown(n, oracle)
    /\ balance # 0 => /\ n.supply # 0
                      /\ PoolValue(n, oracle, "MaxAfterDeposit", maximize) >= 0

ValueForMarket(n, balance, maximize) ==
    IF balance = 0 THEN 0
    ELSE MulDiv(balance, PoolValue(n, oracle, "MaxAfterDeposit", maximize), n.supply)

(* unchecked_get_glv_value, where n is the state of the market mk that the *)
(* execution works on.                                                     *)
GlvValue(mk, n, maximize) ==
    SumFunctionOnSet([k \in DOMAIN config |->
                        ValueForMarket(IF k = mk THEN n ELSE market[k],
                                       config[k].balance, maximize)],
                     DOMAIN config)

GlvPriceable(mk, n, maximize) ==
    \A k \in DOMAIN config :
        Priceable(IF k = mk THEN n ELSE market[k], config[k].balance, maximize)

(* get_market_token_amount_for_glv_value.                                  *)
MarketTokensFor(n, usd) ==
    UsdToMarketTokens(usd, PoolValue(n, oracle, "MaxAfterWithdrawal", TRUE), n.supply)

-----------------------------------------------------------------------------
(* Requests.                                                               *)
DepositRequest(mk, tokens, gm, min, receiver) ==
    [kind |-> "deposit", state |-> "pending", at |-> oracle.now, market |-> mk,
     tokens |-> tokens, gm |-> gm, min |-> min, receiver |-> receiver, minted |-> 0]

WithdrawalRequest(mk, glv) ==
    [kind |-> "withdrawal", state |-> "pending", at |-> oracle.now, market |-> mk,
     glv |-> glv, out |-> NoTokens]

ShiftRequest(from, to, gm) ==
    [kind |-> "shift", state |-> "pending", at |-> oracle.now, from |-> from, to |-> to,
     gm |-> gm]

Create(i, r) ==
    /\ made < MaxRequests
    /\ requests[i] = None
    /\ made' = made + 1
    /\ requests' = [requests EXCEPT ![i] = r]

Set(i, state) == requests' = [requests EXCEPT ![i].state = state]

Expired(r) == oracle.now > r.at + Expiration

Pending(i, kind) == requests[i].kind = kind /\ requests[i].state = "pending"

(* A cancelled execution: what was transferred in has gone out again.      *)
Cancelled(i) ==
    /\ Set(i, "cancelled")
    /\ UNCHANGED <<market, config, params, supply, held, gmWallet, gmVault, vault, lastShift,
                   oracle, made, changes>>

-----------------------------------------------------------------------------
(* GLV deposits.                                                           *)
(* CreateGlvDeposit: the market tokens go to the escrow; the two tokens    *)
(* come from outside the model.                                            *)
GlvDepositCreatable(mk) == Contains(mk) /\ config[mk].allowed

NotEmpty(tokens, gm) == tokens # NoTokens \/ gm # 0

TakeMarketTokens(mk, gm) ==
    gmWallet[mk] >= gm /\ gmWallet' = [gmWallet EXCEPT ![mk] = @ - gm]

CreateGlvDeposit(i, mk, tokens, gm, min, receiver) ==
    /\ GlvDepositCreatable(mk)
    /\ NotEmpty(tokens, gm)
    /\ TakeMarketTokens(mk, gm)
    /\ Create(i, DepositRequest(mk, tokens, gm, min, receiver))
    /\ UNCHANGED <<market, config, params, supply, held, gmVault, vault, lastShift, oracle,
                   changes>>

FirstDepositAnyAmount(r) ==  \* a mutant: the minimum is not compared
    (supply = 0 /\ params.first # 0) => r.receiver = Locked

(* GlvDeposit::unchecked_validate_for_execution.                           *)
FirstDepositAllowed(r) ==
    (supply = 0 /\ params.first # 0) => r.receiver = Locked /\ r.min >= params.first

(* The market's part: RevertibleLiquidityMarketOperation::unchecked_deposit. *)
MarketDeposit(n, tokens, fees) ==
    IF tokens = NoTokens THEN [m |-> n, minted |-> 0]
    ELSE Deposit(PreExecute(TransferIn(TransferIn(n, TRUE, tokens[TRUE]), FALSE,
                                       tokens[FALSE]), oracle), oracle, tokens, fees)

(* perform_glv_deposit on the market d.m, which has minted d.minted, with  *)
(* amount market tokens in all.                                            *)
GlvMinted(mk, n, amount) ==
    UsdToMarketTokens(ValueForMarket(n, amount, FALSE), GlvValue(mk, n, TRUE), supply)

GlvDepositAllowed(mk, n, amount) ==
    /\ n.ok /\ BalancesCover(n)
    /\ GlvPriceable(mk, n, TRUE)
    /\ Priceable(n, amount, FALSE) /\ Priceable(n, amount, TRUE)
    /\ WithinCaps(config[mk], config[mk].balance + amount,
                  PoolValue(n, oracle, "MaxAfterDeposit", TRUE), n.supply)
    /\ supply # 0 => GlvValue(mk, n, TRUE) # 0

GlvDepositValid(r) ==
    /\ FirstDepositAllowed(r)
    /\ r.gm # 0 => ValidMaxPnl(market[r.market], oracle, "MaxAfterWithdrawal",
                               "MaxAfterWithdrawal")

GlvDepositDone(r, d) ==
    IF ~GlvDepositValid(r) \/ ~GlvDepositAllowed(r.market, d.m, r.gm + d.minted)
    THEN [ok |-> FALSE]
    ELSE [ok |-> GlvMinted(r.market, d.m, r.gm + d.minted) >= r.min, m |-> d.m,
          gm |-> r.gm + d.minted, minted |-> GlvMinted(r.market, d.m, r.gm + d.minted)]

PerformGlvDeposit(r) ==
    GlvDepositDone(r, MarketDeposit(market[r.market], r.tokens, SwapFeeParams("Deposit")))

CommitGlvDeposit(i, r, d) ==
    /\ d.ok
    /\ market' = [market EXCEPT ![r.market] = d.m]
    /\ vault' = Plus(vault, r.tokens)
    /\ config' = Record(config, r.market, config[r.market].balance + d.gm)
    /\ gmVault' = [gmVault EXCEPT ![r.market] = @ + d.gm]
    /\ supply' = supply + d.minted
    /\ requests' = [requests EXCEPT ![i].state = "completed", ![i].minted = d.minted]
    /\ UNCHANGED <<params, held, gmWallet, lastShift, oracle, made, changes>>

GlvDepositExecutable(i) == Pending(i, "deposit") /\ Contains(requests[i].market)

ExecuteGlvDeposit(i) ==
    /\ GlvDepositExecutable(i)
    /\ \/ ~Expired(requests[i])
          /\ CommitGlvDeposit(i, requests[i], PerformGlvDeposit(requests[i]))
       \/ Expired(requests[i]) /\ Cancelled(i)
       \/ ~PerformGlvDeposit(requests[i]).ok /\ Cancelled(i)

(* CloseGlvDeposit: what the escrows hold goes to the owner, and the GLV   *)
(* tokens to the receiver.                                                 *)
ReturnMarketTokens(r) ==
    gmWallet' = IF r.state = "completed" THEN gmWallet
                ELSE [gmWallet EXCEPT ![r.market] = @ + r.gm]

CloseGlvDeposit(i) ==
    LET r == requests[i]
    IN  /\ r.kind = "deposit"
        /\ requests' = [requests EXCEPT ![i] = None]
        /\ held' = [held EXCEPT ![r.receiver] = @ + r.minted]
        /\ ReturnMarketTokens(r)
        /\ UNCHANGED <<market, config, params, supply, gmVault, vault, lastShift, oracle, made,
                       changes>>

-----------------------------------------------------------------------------
(* GLV withdrawals.                                                        *)
TakeGlvTokens(amount) ==
    amount # 0 /\ held[User] >= amount /\ held' = [held EXCEPT ![User] = @ - amount]

CreateGlvWithdrawal(i, mk, amount) ==
    /\ Contains(mk)
    /\ TakeGlvTokens(amount)
    /\ Create(i, WithdrawalRequest(mk, amount))
    /\ UNCHANGED <<market, config, params, supply, gmWallet, gmVault, vault, lastShift, oracle,
                   changes>>

(* perform_glv_withdrawal: the value of the GLV tokens at the lowest price *)
(* of the GLV, in market tokens at the highest price of the market.        *)
GlvTokensValue(mk, amount) == MulDiv(amount, GlvValue(mk, market[mk], FALSE), supply)

GlvWithdrawalPriced(mk) ==
    /\ PoolValueKnown(market[mk], oracle)
    /\ PoolValue(market[mk], oracle, "MaxAfterWithdrawal", TRUE) > 0
    /\ GlvPriceable(mk, market[mk], FALSE)

GlvWithdrawalPaid(r, gm, w) ==
    [ok |-> w.m.ok /\ gm <= gmVault[r.market] /\ gm <= config[r.market].balance,
     m |-> Paid(w.m, w.out), out |-> w.out, gm |-> gm]

GlvWithdrawn(r, gm) ==
    GlvWithdrawalPaid(r, gm, Withdraw(PreExecute(market[r.market], oracle), oracle, gm,
                                      SwapFeeParams("Withdrawal")))

PerformGlvWithdrawal(r) ==
    IF ~GlvWithdrawalPriced(r.market) THEN [ok |-> FALSE]
    ELSE GlvWithdrawn(r, MarketTokensFor(market[r.market],
                                         GlvTokensValue(r.market, r.glv)))

PaidOut(out) == vault' = [s \in BOOLEAN |-> vault[s] - out[s]]

CommitGlvWithdrawal(i, r, d) ==
    /\ d.ok /\ d.m.ok
    /\ market' = [market EXCEPT ![r.market] = d.m]
    /\ PaidOut(d.out)
    /\ config' = Record(config, r.market, config[r.market].balance - d.gm)
    /\ gmVault' = [gmVault EXCEPT ![r.market] = @ - d.gm]
    /\ supply' = supply - r.glv
    /\ requests' = [requests EXCEPT ![i].state = "completed", ![i].out = d.out]
    /\ UNCHANGED <<params, held, gmWallet, lastShift, oracle, made, changes>>

GlvWithdrawalExecutable(i) == Pending(i, "withdrawal") /\ Contains(requests[i].market)

ExecuteGlvWithdrawal(i) ==
    /\ GlvWithdrawalExecutable(i)
    /\ \/ ~Expired(requests[i])
          /\ CommitGlvWithdrawal(i, requests[i], PerformGlvWithdrawal(requests[i]))
       \/ Expired(requests[i]) /\ Cancelled(i)
       \/ ~PerformGlvWithdrawal(requests[i]).ok /\ Cancelled(i)

ReturnGlvTokens(r) ==
    held' = IF r.state = "completed" THEN held ELSE [held EXCEPT ![User] = @ + r.glv]

CloseGlvWithdrawal(i) ==
    LET r == requests[i]
    IN  /\ r.kind = "withdrawal"
        /\ requests' = [requests EXCEPT ![i] = None]
        /\ ReturnGlvTokens(r)
        /\ UNCHANGED <<market, config, params, supply, gmWallet, gmVault, vault, lastShift, oracle,
                       made, changes>>

-----------------------------------------------------------------------------
(* GLV shifts, which keepers create.  Nothing is put in escrow.            *)
GlvShiftCreatable(from, to) ==
    /\ from # to /\ Contains(from) /\ Contains(to)
    /\ config[to].allowed
    /\ ShiftIntervalPassed

CreateGlvShift(i, from, to, amount) ==
    /\ GlvShiftCreatable(from, to)
    /\ amount # 0 /\ gmVault[from] >= amount
    /\ Create(i, ShiftRequest(from, to, amount))
    /\ UNCHANGED <<market, config, params, supply, held, gmWallet, gmVault, vault, lastShift,
                   oracle, changes>>

ShiftedOutUnrecorded(w) == Check(w.m, w.m.ok)  \* a mutant: the balance stays

(* unchecked_shift: a withdrawal and a deposit without fees.  The tokens   *)
(* stay in the shared vaults; only the recorded balances move.             *)
ShiftedOut(w) == Paid(w.m, w.out)

ShiftedIn(n, out) == MarketDeposit(n, out, SwapFeeParams("Shift"))

(* perform_glv_shift; the value of the market tokens that leave is taken   *)
(* after they have been burnt.                                             *)
GlvShiftAllowed(r, from, to, received) ==
    /\ from.ok /\ to.ok /\ BalancesCover(to)
    /\ Priceable(from, r.gm, TRUE) /\ Priceable(to, received, TRUE)
    /\ WithinCaps(config[r.to], config[r.to].balance + received,
                  PoolValue(to, oracle, "MaxAfterDeposit", TRUE), to.supply)
    /\ ShiftValueAllowed(ValueForMarket(from, r.gm, TRUE))
    /\ ShiftImpactAllowed(ValueForMarket(from, r.gm, TRUE), ValueForMarket(to, received, TRUE))
    /\ config[r.from].balance >= r.gm

GlvShiftDone(r, from, d) ==
    [ok |-> GlvShiftAllowed(r, from, d.m, d.minted), from |-> from, to |-> d.m,
     received |-> d.minted]

GlvShifted(r, w) == GlvShiftDone(r, ShiftedOut(w), ShiftedIn(market[r.to], w.out))

PerformGlvShift(r) ==
    IF ~ShiftIntervalPassed \/ gmVault[r.from] < r.gm THEN [ok |-> FALSE]
    ELSE GlvShifted(r, Withdraw(PreExecute(market[r.from], oracle), oracle, r.gm,
                                SwapFeeParams("Shift")))

CommitGlvShift(i, r, d) ==
    /\ d.ok
    /\ market' = [market EXCEPT ![r.from] = d.from, ![r.to] = d.to]
    /\ config' = Record(Record(config, r.from, config[r.from].balance - r.gm),
                        r.to, config[r.to].balance + d.received)
    /\ gmVault' = [gmVault EXCEPT ![r.from] = @ - r.gm, ![r.to] = @ + d.received]
    /\ lastShift' = oracle.now
    /\ Set(i, "completed")
    /\ UNCHANGED <<params, supply, held, gmWallet, vault, oracle, made, changes>>

GlvShiftExecutable(i) ==
    Pending(i, "shift") /\ Contains(requests[i].from) /\ Contains(requests[i].to)

ExecuteGlvShift(i) ==
    /\ GlvShiftExecutable(i)
    /\ \/ ~Expired(requests[i])
          /\ CommitGlvShift(i, requests[i], PerformGlvShift(requests[i]))
       \/ Expired(requests[i]) /\ Cancelled(i)
       \/ ~PerformGlvShift(requests[i]).ok /\ Cancelled(i)

(* CloseGlvShift needs both markets in the GLV.                            *)
CloseGlvShift(i) ==
    /\ requests[i].kind = "shift"
    /\ Contains(requests[i].from) /\ Contains(requests[i].to)
    /\ requests' = [requests EXCEPT ![i] = None]
    /\ UNCHANGED <<market, config, params, supply, held, gmWallet, gmVault, vault, lastShift,
                   oracle, made, changes>>

-----------------------------------------------------------------------------
(* What market keepers change.                                             *)
Change ==
    /\ changes < MaxChanges
    /\ changes' = changes + 1
    /\ UNCHANGED <<market, supply, held, gmWallet, vault, lastShift, requests, oracle, made>>

ToggleGlvMarketFlag(mk) ==
    /\ Contains(mk)
    /\ config' = Toggled(config, mk)
    /\ Change /\ UNCHANGED <<gmVault, params>>

UpdateGlvMarketConfig(mk, cap) ==
    /\ Contains(mk)
    /\ config' = Capped(config, mk, cap)
    /\ Change /\ UNCHANGED <<gmVault, params>>

InsertGlvMarket(mk) ==
    /\ ~Contains(mk) /\ ~Full
    /\ config' = Inserted(config, mk)
    /\ Change /\ UNCHANGED <<gmVault, params>>

(* Glv::update_config: a given parameter must differ.                      *)
ParamsUpdated(new) == new # params /\ params' = new

UpdateGlvConfig(new) ==
    /\ ParamsUpdated(new)
    /\ Change /\ UNCHANGED <<gmVault, config>>

RemovableWithBalance(mk) ==  \* a mutant: the balance is not checked
    Contains(mk) /\ ~config[mk].allowed /\ ~Full

(* What a removed market's vault holds goes to the store's wallet, and the *)
(* vault is closed.  Removing from a full map panics (fixed_map!, remove). *)
RemovableGlvMarket(mk) ==
    Contains(mk) /\ config[mk].balance = 0 /\ ~config[mk].allowed /\ ~Full

RemoveGlvMarket(mk) ==
    /\ RemovableGlvMarket(mk)
    /\ config' = Removed(config, mk)
    /\ gmVault' = [gmVault EXCEPT ![mk] = 0]
    /\ Change /\ UNCHANGED params

(* Anybody may send market tokens to a vault.                              *)
Donate(mk, amount) ==
    /\ Contains(mk) /\ amount <= gmWallet[mk]
    /\ changes < MaxChanges
    /\ gmWallet' = [gmWallet EXCEPT ![mk] = @ - amount]
    /\ gmVault' = [gmVault EXCEPT ![mk] = @ + amount]
    /\ changes' = changes + 1
    /\ UNCHANGED <<market, config, params, supply, held, vault, lastShift, requests, oracle, made>>

Priced(prices, now) ==
    [index |-> prices.index, long |-> prices.long, short |-> prices.short, now |-> now]

Pass(prices) ==
    /\ oracle.now < LastTime
    /\ oracle' = Priced(prices, oracle.now + 1)
    /\ UNCHANGED <<market, config, params, supply, held, gmWallet, gmVault, vault, lastShift,
                   requests, made, changes>>

-----------------------------------------------------------------------------
(* What the markets record of a token, together.                           *)
Recorded(states, s) == SumFunctionOnSet([mk \in Markets |-> states[mk].bal[s]], Markets)

FirstConfig == [mk \in FirstMarkets |-> [DefaultConfig EXCEPT !.allowed = TRUE]]

(* After initialize_glv, once deposits have been allowed in its markets.   *)
GlvInit ==
    /\ market = Opening
    /\ config = FirstConfig
    /\ params = Params[1]
    /\ supply = 0
    /\ held = [h \in {User, Locked} |-> 0]
    /\ gmWallet = [mk \in Markets |-> Opening[mk].supply]
    /\ gmVault = [mk \in Markets |-> 0]
    /\ vault = [s \in BOOLEAN |-> Recorded(Opening, s)]
    /\ lastShift = 0
    /\ requests = [i \in Slots |-> None]
    /\ oracle = Priced(FirstPrice, 1)
    /\ made = 0 /\ changes = 0

GlvNext ==
    \/ \E i \in Slots, mk \in Markets, d \in GlvDeposits,
          receiver \in {User} \cup (IF supply = 0 THEN {Locked} ELSE {}) :
          CreateGlvDeposit(i, mk, d[1], d[2], d[3], receiver)
    \/ \E i \in Slots, mk \in Markets, amount \in GlvBurns : CreateGlvWithdrawal(i, mk, amount)
    \/ \E i \in Slots, from, to \in Markets, amount \in ShiftAmounts :
          CreateGlvShift(i, from, to, amount)
    \/ \E i \in Slots : \/ ExecuteGlvDeposit(i) \/ CloseGlvDeposit(i)
                        \/ ExecuteGlvWithdrawal(i) \/ CloseGlvWithdrawal(i)
                        \/ ExecuteGlvShift(i) \/ CloseGlvShift(i)
    \/ \E mk \in Markets : \/ ToggleGlvMarketFlag(mk)
                           \/ InsertGlvMarket(mk)
                           \/ RemoveGlvMarket(mk)
    \/ \E mk \in Markets, cap \in Caps : UpdateGlvMarketConfig(mk, cap)
    \/ \E k \in 1 .. Len(Params) : UpdateGlvConfig(Params[k])
    \/ \E mk \in Markets : Donate(mk, Donated)
    \/ \E prices \in PriceSet : Pass(prices)

GlvSpec == GlvInit /\ [][GlvNext]_glvVars

-----------------------------------------------------------------------------
(* The balance that the GLV records for a market, and prices its token     *)
(* with, is in the market's vault, through deposits, withdrawals, shifts,  *)
(* donations and the removal of markets (ops/glv.rs,                       *)
(* validate_after_execution, which the model leaves out: it would throw).  *)
RecordedIsInVault ==
    \A mk \in DOMAIN config : config[mk].balance <= gmVault[mk]

(* All markets share one vault per token, and a shift moves tokens between *)
(* two of them without a transfer: what the markets record together is     *)
(* what the vault holds (ops/market.rs, unchecked_shift).                  *)
SharedVaultExact ==
    \A s \in BOOLEAN : vault[s] = Recorded(market, s)

(* The first deposit is locked for ever: while GLV tokens exist there are  *)
(* at least as many as the first deposit had to mint, so the price of one  *)
(* cannot be driven up from a dust supply (validate_first_deposit).        *)
FirstDepositLocked == supply # 0 => supply >= params.first

(* Who stays in the GLV is not diluted: at constant prices no step but a   *)
(* shift lowers the value of a GLV token, and a shift lowers it by no more *)
(* than the impact it is allowed.  Values are rounded down per market.     *)
ValueNow(maximize) ==
    SumFunctionOnSet([k \in DOMAIN config |->
                        ValueForMarket(market[k], config[k].balance, maximize)],
                     DOMAIN config)

ShiftDone(i) == /\ requests[i].kind = "shift" /\ requests[i].state = "pending"
                /\ requests'[i].kind = "shift" /\ requests'[i].state = "completed"

ShiftLoss ==
    SumFunctionOnSet([i \in {j \in Slots : ShiftDone(j)} |->
                        1 + CeilDiv(ValueForMarket(market[requests[i].from], requests[i].gm, TRUE)
                                      * (params.impact + 1), Unit)],
                     {i \in Slots : ShiftDone(i)})

NoGlvDilution ==
    [][(oracle' = oracle /\ supply # 0 /\ supply' # 0) =>
          (ValueNow(TRUE)' + Cardinality(DOMAIN config) + ShiftLoss) * supply
              >= ValueNow(TRUE) * supply']_glvVars
=============================================================================
