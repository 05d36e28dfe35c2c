----------------------------- MODULE GtTreasury -----------------------------
(***************************************************************************)
(* The treasury program (programs/gmsol-treasury) buying GT back, on top   *)
(* of the store's GtExchange.                                              *)
(*                                                                         *)
(* Market fees are claimed into the receiver's vaults.  A deposit splits a *)
(* vault between the authorized treasury and the GT bank of the current    *)
(* exchange window.  When the window is over, confirm_gt_buyback confirms  *)
(* the exchange vault and cuts the balances recorded in the bank down to   *)
(* what the GT is bought back for; sync_gt_bank returns to the treasury    *)
(* what a bank holds beyond its record.  Each owner of an exchange then    *)
(* takes a share of the recorded balances.                                 *)
(*                                                                         *)
(* The treasury's config account is the only GT_CONTROLLER of the store,   *)
(* as the store is set up by crates/gmsol/src/cli/admin.rs, so vaults are  *)
(* confirmed and exchanges closed by its CPIs alone.  The callers hold the *)
(* TREASURY_* roles.  A program transfers a token by its token account.    *)
(***************************************************************************)
EXTENDS GtExchange

CONSTANTS Tokens,
          Treasuries,     \* treasury vault configs
          FirstTreasury,  \* the one authorized at first
          FirstTokens,    \* what it lists at first; the others are new
          FirstGtFactor, FirstBuybackFactor,
          Factors,        \* arguments of set_gt_factor, set_buyback_factor
          Revenue,        \* amounts of fees to claim
          Prices,         \* oracle prices
          MaxTokens,      \* MAX_TOKENS
          MaxRevenue,     \* bound on the amount of a token in the program
          MaxChanges      \* bound on the changes of the configuration

ASSUME TreasuriesAssumption == FirstTreasury \in Treasuries
ASSUME TokensAssumption == FirstTokens \subseteq Tokens /\ IsFiniteSet(Tokens)
ASSUME TreasuryNumbersAssumption ==
    /\ {FirstGtFactor, FirstBuybackFactor} \subseteq 0..Unit
    /\ Factors \cup Revenue \cup Prices \subseteq Nat
    /\ {MaxTokens, MaxRevenue, MaxChanges} \subseteq Nat

VARIABLES
    authorized,     \* Config.treasury_vault_config
    gtFactor,       \* Config.gt_factor
    buybackFactor,  \* Config.buyback_factor
    flags,          \* TreasuryVaultConfig.tokens: "listed", TokenFlag
    receiver,       \* balance of the receiver's vault of a token
    treasury,       \* balance of a treasury's vault of a token
    bank,           \* GtBank of a treasury and a window
    held,           \* balance of a bank's vault of a token
    changes,        \* counts the changes of the configuration
    \* history
    quote           \* how a vault was confirmed: by which treasury, at which
                    \* prices, and what was reserved

config == <<authorized, gtFactor, buybackFactor, flags, changes>>
funds == <<receiver, treasury, held>>
treasuryVars == <<config, funds, bank, quote>>
allVars == <<storeVars, treasuryVars>>

Flags == {"listed", "deposit", "withdraw"}
Nothing == [t \in Tokens |-> 0]
NoBank == [init |-> FALSE, remaining |-> 0, tokens |-> {}, rec |-> Nothing]
NoQuote == [by |-> FirstTreasury, price |-> Nothing, reserve |-> Nothing]

TreasuryInit ==
    /\ Init
    /\ authorized = FirstTreasury
    /\ gtFactor = FirstGtFactor
    /\ buybackFactor = FirstBuybackFactor
    /\ flags = [T \in Treasuries |->
                  [t \in Tokens |-> IF T = FirstTreasury /\ t \in FirstTokens
                                   THEN Flags ELSE {}]]
    /\ receiver = Nothing
    /\ treasury = [T \in Treasuries |-> Nothing]
    /\ bank = [T \in Treasuries |-> [w \in Windows |-> NoBank]]
    /\ held = [T \in Treasuries |-> [w \in Windows |-> Nothing]]
    /\ changes = 0
    /\ quote = [w \in Windows |-> NoQuote]

Value(amounts, price) == SumFunction([t \in Tokens |-> amounts[t] * price[t]])

-----------------------------------------------------------------------------
(* Configuration, by a TREASURY_ADMIN.                                     *)

Configure == /\ changes < MaxChanges
             /\ changes' = changes + 1
             /\ UNCHANGED <<storeVars, funds, bank, quote>>

SetTreasuryVaultConfig(T) ==
    /\ authorized # T
    /\ authorized' = T
    /\ UNCHANGED <<gtFactor, buybackFactor, flags>>
    /\ Configure

ValidFactor(factor) == factor <= Unit

SetGtFactor(factor) ==
    /\ ValidFactor(factor)
    /\ gtFactor # factor
    /\ gtFactor' = factor
    /\ UNCHANGED <<authorized, buybackFactor, flags>>
    /\ Configure

SetBuybackFactor(factor) ==
    /\ ValidFactor(factor)
    /\ buybackFactor # factor
    /\ buybackFactor' = factor
    /\ UNCHANGED <<authorized, gtFactor, flags>>
    /\ Configure

Listed(T) == {t \in Tokens : "listed" \in flags[T][t]}

InsertToken(T, t) ==
    /\ t \notin Listed(T)
    /\ Cardinality(Listed(T)) < MaxTokens
    /\ flags' = [flags EXCEPT ![T][t] = {"listed"}]
    /\ UNCHANGED <<authorized, gtFactor, buybackFactor>>
    /\ Configure

(* The shift of the entries behind the removed one reads past the end of a *)
(* full map and panics (fixed_map!, remove).                               *)
RemoveToken(T, t) ==
    /\ t \in Listed(T)
    /\ Cardinality(Listed(T)) < MaxTokens
    /\ flags' = [flags EXCEPT ![T][t] = {}]
    /\ UNCHANGED <<authorized, gtFactor, buybackFactor>>
    /\ Configure

ToggleTokenFlag(T, t, flag) ==
    /\ t \in Listed(T)
    /\ flags' = [flags EXCEPT ![T][t] =
                   IF flag \in @ THEN @ \ {flag} ELSE @ \cup {flag}]
    /\ UNCHANGED <<authorized, gtFactor, buybackFactor>>
    /\ Configure

-----------------------------------------------------------------------------
(* The money before a window is over.                                      *)

(* claim_fees_from_market, into the receiver's vault.                      *)
InProgram(t) ==
    receiver[t]
      + SumFunction([T \in Treasuries |-> treasury[T][t] +
           SumFunction([w \in Windows |-> held[T][w][t]])])

ClaimFees(t, amount) ==
    /\ InProgram(t) + amount <= MaxRevenue
    /\ receiver' = [receiver EXCEPT ![t] = @ + amount]
    /\ UNCHANGED <<storeVars, config, treasury, held, bank, quote>>

(* prepare_gt_bank.                                                        *)
PrepareGtBank(T, w) ==
    /\ authorized = T
    /\ vault[w].init /\ ~vault[w].confirmed
    /\ ~bank[T][w].init
    /\ bank' = [bank EXCEPT ![T][w].init = TRUE]
    /\ UNCHANGED <<storeVars, config, funds, quote>>

(* deposit_to_treasury_vault: all of the receiver's vault is split.        *)
DepositToTreasuryVault(T, w, t) ==
    LET amount == ApplyFactor(receiver[t], gtFactor)
    IN  /\ authorized = T
        /\ "deposit" \in flags[T][t]
        /\ Depositable(w)
        /\ bank[T][w].init
        /\ \/ t \in bank[T][w].tokens
           \/ Cardinality(bank[T][w].tokens) < MaxTokens
        /\ bank' = [bank EXCEPT ![T][w].tokens = @ \cup {t},
                                ![T][w].rec[t] = @ + amount]
        /\ held' = [held EXCEPT ![T][w][t] = @ + amount]
        /\ treasury' = [treasury EXCEPT ![T][t] = @ + (receiver[t] - amount)]
        /\ receiver' = [receiver EXCEPT ![t] = 0]
        /\ UNCHANGED <<storeVars, config, quote>>

(* withdraw_from_treasury_vault, also from a treasury not authorized.      *)
WithdrawFromTreasuryVault(T, t, amount) ==
    /\ "withdraw" \in flags[T][t]
    /\ amount <= treasury[T][t]
    /\ treasury' = [treasury EXCEPT ![T][t] = @ - amount]
    /\ UNCHANGED <<storeVars, config, receiver, held, bank, quote>>

(* Mutant: a bank that has not been confirmed yet is emptied.              *)
ExcessAll(T, w, t) == IF bank[T][w].remaining = 0 THEN held[T][w][t]
                      ELSE held[T][w][t] - bank[T][w].rec[t]

Excess(T, w, t) == held[T][w][t] - bank[T][w].rec[t]

(* sync_gt_bank, by a TREASURY_WITHDRAWER.                                 *)
SyncGtBank(T, w, t) ==
    /\ authorized = T
    /\ "withdraw" \in flags[T][t]
    /\ bank[T][w].init
    /\ Excess(T, w, t) > 0
    /\ held' = [held EXCEPT ![T][w][t] = @ - Excess(T, w, t)]
    /\ treasury' = [treasury EXCEPT ![T][t] = @ + Excess(T, w, t)]
    /\ UNCHANGED <<storeVars, config, receiver, bank, quote>>

-----------------------------------------------------------------------------
(* Buying back.                                                            *)

(* get_max_buyback_value: a share of all the treasury holds, but no more   *)
(* than there is in the bank.                                              *)
MaxBuybackValue(T, w, price) ==
    LET inBank == Value(bank[T][w].rec, price)
        inTreasury == SumFunction([t \in Listed(T) |-> treasury[T][t] * price[t]])
    IN  Min({inBank, ApplyFactor(inTreasury + inBank, buybackFactor)})

(* Mutant: GT is bought back above its minting cost.                       *)
BuybackValueUncapped(T, w, price) ==
    IF vault[w].amount = 0 THEN 0
    ELSE vault[w].amount * (MaxBuybackValue(T, w, price) \div vault[w].amount)

(* update_balances: at no more than the minting cost, a whole price.       *)
BuybackValue(T, w, price) ==
    IF vault[w].amount = 0 THEN 0
    ELSE vault[w].amount *
         Min({MaxBuybackValue(T, w, price) \div vault[w].amount, gt.cost})

Cleared(b) == [b EXCEPT !.tokens = {}, !.rec = Nothing]

(* Mutant: nothing is released when there is nothing to buy back.          *)
ReservedKept(T, w, price) ==
    LET value == BuybackValue(T, w, price)
        inBank == Value(bank[T][w].rec, price)
    IN  IF value = 0 THEN bank[T][w]
        ELSE [bank[T][w] EXCEPT !.rec =
                [t \in Tokens |-> (@[t] * value) \div inBank]]

(* reserve_balances, or record_all_transferred_out.                        *)
Reserved(T, w, price) ==
    LET value == BuybackValue(T, w, price)
        inBank == Value(bank[T][w].rec, price)
    IN  IF value = 0 THEN Cleared(bank[T][w])
        ELSE [bank[T][w] EXCEPT !.rec =
                [t \in Tokens |-> (@[t] * value) \div inBank]]

(* confirm_gt_buyback.  No token is moved.  A balance never grows by being *)
(* reserved: reserve_balances requires it.                                 *)
ConfirmGtBuyback(T, w, price) ==
    /\ authorized = T
    /\ bank[T][w].init
    /\ ConfirmVault(w)
    /\ \A t \in Tokens : Reserved(T, w, price).rec[t] \in 0..bank[T][w].rec[t]
    /\ bank' = [bank EXCEPT ![T][w] = [Reserved(T, w, price) EXCEPT
                                         !.remaining = vault[w].amount]]
    /\ quote' = [quote EXCEPT ![w] =
                   [by |-> T, price |-> price,
                    reserve |-> Reserved(T, w, price).rec]]
    /\ UNCHANGED <<config, funds>>

(* Mutant: a share of all the GT, not of what is still to be claimed.      *)
ShareOfAll(T, w, t, amount) ==
    (bank[T][w].rec[t] * amount) \div vault[w].amount

Share(T, w, t, amount) ==
    (bank[T][w].rec[t] * amount) \div bank[T][w].remaining

(* record_claimed.                                                         *)
Claimed(b, amount) == b.remaining - amount

(* Mutant: an exchange that has nothing to receive cannot be completed.    *)
PayableIfFunded(T, w, amount) ==
    /\ amount <= bank[T][w].remaining
    /\ \E t \in Tokens : bank[T][w].rec[t] # 0

Payable(T, w, amount) == amount <= bank[T][w].remaining

(* complete_gt_exchange, by the owner of the exchange.                     *)
CompleteGtExchange(T, w, u) ==
    LET amount == exchange[w][u].amount
    IN  /\ authorized = T
        /\ bank[T][w].init
        /\ CloseExchange(u, w)
        /\ IF amount = 0 THEN UNCHANGED <<bank, held>>
           ELSE /\ Payable(T, w, amount)
                /\ \A t \in Tokens : Share(T, w, t, amount) <= held[T][w][t]
                /\ held' = [held EXCEPT ![T][w] =
                     [t \in Tokens |-> @[t] - Share(T, w, t, amount)]]
                /\ bank' = [bank EXCEPT
                     ![T][w].remaining = Claimed(bank[T][w], amount),
                     ![T][w].rec = [t \in Tokens |->
                                      @[t] - Share(T, w, t, amount)]]
        /\ UNCHANGED <<config, receiver, treasury, quote>>

-----------------------------------------------------------------------------
AdminNext ==
    \/ \E T \in Treasuries : SetTreasuryVaultConfig(T)
    \/ \E factor \in Factors : SetGtFactor(factor) \/ SetBuybackFactor(factor)
    \/ \E T \in Treasuries, t \in Tokens :
          \/ InsertToken(T, t) \/ RemoveToken(T, t)
          \/ \E flag \in {"deposit", "withdraw"} : ToggleTokenFlag(T, t, flag)

KeeperNext ==
    \/ \E t \in Tokens, amount \in Revenue : ClaimFees(t, amount)
    \/ \E T \in Treasuries, w \in Windows :
          \/ PrepareGtBank(T, w)
          \/ \E price \in [Tokens -> Prices] : ConfirmGtBuyback(T, w, price)
    \/ \E T \in Treasuries, w \in Windows, t \in Tokens :
          DepositToTreasuryVault(T, w, t) \/ SyncGtBank(T, w, t)
    \/ \E T \in Treasuries, t \in Tokens :
          \E amount \in 1..treasury[T][t] :
             WithdrawFromTreasuryVault(T, t, amount)

TreasuryNext ==
    \/ UserNext /\ UNCHANGED treasuryVars
    \/ AdminNext
    \/ KeeperNext
    \/ \E T \in Treasuries, w \in Windows, u \in Users :
          CompleteGtExchange(T, w, u)

TreasurySpec == TreasuryInit /\ [][TreasuryNext]_allVars

(* The clock runs; a keeper prepares the bank of every vault and confirms  *)
(* it when its window is over; owners complete their exchanges.            *)
Fairness ==
    /\ WF_allVars(Tick /\ UNCHANGED treasuryVars)
    /\ \A w \in Windows :
         /\ WF_allVars(\E T \in Treasuries : PrepareGtBank(T, w))
         /\ WF_allVars(\E T \in Treasuries, price \in [Tokens -> Prices] :
                          ConfirmGtBuyback(T, w, price))
         /\ \A u \in Users :
              WF_allVars(\E T \in Treasuries : CompleteGtExchange(T, w, u))

FairTreasurySpec == TreasurySpec /\ Fairness

-----------------------------------------------------------------------------
(* Properties.                                                             *)

(* A bank holds what it has recorded, whatever is deposited, reserved,     *)
(* claimed and synced in which order, so that no claim of the record       *)
(* fails (states/gt_bank.rs, unchecked_sync_gt_bank).                      *)
RecordedIsHeld ==
    \A T \in Treasuries, w \in Windows, t \in Tokens :
        bank[T][w].rec[t] <= held[T][w][t]

(* The reserve is paid out in full: when the last exchange is completed    *)
(* nothing is left recorded in the bank that bought the GT back, however   *)
(* the shares were rounded (CompleteGtExchange::execute).                  *)
ReservePaidOut ==
    \A w \in Windows :
        vault[w].confirmed /\ bank[quote[w].by][w].remaining = 0 =>
            bank[quote[w].by][w].rec = Nothing

ClaimPaysShare ==
    \A w \in Windows, u \in Users :
        LET T == quote[w].by
            amount == exchange[w][u].amount
        IN  exchange[w][u].open /\ ~exchange'[w][u].open /\ amount # 0 =>
              \A t \in Tokens :
                 held[T][w][t] - held'[T][w][t] >=
                    (quote[w].reserve[t] * amount) \div vault[w].amount

(* In whatever order exchanges are completed, each receives at least the   *)
(* share of the reserve, rounded down, that its GT is of the vault's       *)
(* (CompleteGtExchange::execute).                                          *)
ShareRespected == [][ClaimPaysShare]_allVars

ReservesNoMore ==
    \A w \in Windows :
        LET T == quote'[w].by
            price == quote'[w].price
            reserved == Value(bank'[T][w].rec, price)
        IN  ~vault[w].confirmed /\ vault'[w].confirmed =>
              /\ reserved <= vault[w].amount * gt.cost
              /\ reserved * Unit <= buybackFactor *
                   (Value(bank[T][w].rec, price) + Value(treasury[T], price))

(* What is reserved for a window is worth no more than its GT at the       *)
(* current minting cost, and no more than the buyback factor's share of    *)
(* the bank and the treasury together (ConfirmGtBuyback::update_balances). *)
BuybackCapped == [][ReservesNoMore]_allVars

(* Every exchange requested before the last window is settled, whatever    *)
(* the bank holds and whichever tokens and factors change, if no other     *)
(* treasury is ever authorized.                                            *)
ExchangesSettled ==
    [](authorized = FirstTreasury) =>
        \A w \in Windows \ {WindowAt(MaxTime)}, u \in Users :
            exchange[w][u].open ~> ~exchange[w][u].open
=============================================================================
