-------------------------- MODULE ActionLifecycle ---------------------------
(***************************************************************************)
(* The life of one action account: a deposit, withdrawal, shift or order,  *)
(* from its creation by the owner through its execution by a keeper to the *)
(* return of every token it holds (utils/internal/action.rs, utils/token.rs *)
(* and the create, execute and close handlers of instructions/exchange).   *)
(*                                                                         *)
(* The tokens of an action are kept in escrows, the associated token       *)
(* accounts of the action's own address: there is one for each token, so   *)
(* an action whose input and output are the same token has one escrow for  *)
(* both.  Closing the action sends each escrow to the associated token     *)
(* account (ATA) of the owner or of the receiver.  Those may be missing,   *)
(* or in the hands of somebody else; the instruction then stops where it   *)
(* is and succeeds.                                                        *)
(*                                                                         *)
(* An instruction that fails changes nothing, so only its successful runs  *)
(* are steps here.                                                         *)
(***************************************************************************)
EXTENDS Naturals, Sequences

CONSTANTS Tokens, NativeToken,
          Shapes,          \* the actions that may be created: kind, ins, outs
          Amounts,         \* token amounts paid in and produced
          Fees,            \* execution lamports, offered and asked for
          MinFee,          \* MIN_EXECUTION_LAMPORTS
          Rewards,         \* GT minted to the owner by an executed order
          RewardFactor, FactorUnit,  \* referral_reward_factor of the referrer
          Watched,         \* the ATAs, <<person, token>>, that may change
          AtaChanges,      \* and what they may change to
          Toggles,         \* features that may be switched on and off
          MayRestart,      \* TRUE if the cluster may restart
          RestartAdmin     \* TRUE if a RESTART_ADMIN does the keepers' work too

Kinds == {"deposit", "withdrawal", "shift", "swap", "increase", "decrease"}
OrderKinds == {"swap", "increase", "decrease"}

ASSUME ShapesAssumption ==
    Shapes \subseteq [kind : Kinds, ins : Seq(Tokens), outs : Seq(Tokens)]
ASSUME DistinctAssumption ==
    \A s \in Shapes :
        /\ s.kind \notin OrderKinds =>
              \A i \in DOMAIN s.ins, j \in DOMAIN s.outs : s.ins[i] # s.outs[j]
        /\ s.kind = "decrease" => s.ins = <<>>
ASSUME TogglesAssumption == Toggles \subseteq {"create", "execute", "cancel"}
ASSUME AmountsAssumption == /\ Amounts \subseteq Nat /\ 0 \in Amounts
                            /\ Fees \subseteq Nat /\ MinFee \in Nat
                            /\ Rewards \subseteq Nat /\ 0 \in Rewards
                            /\ RewardFactor \in Nat /\ FactorUnit \in Nat \ {0}

People == {"owner", "receiver"}
AtaStates == {"missing", "own", "foreign"}
Features == {"create", "execute", "cancel"}

VARIABLES
    st,         \* ActionState, with "none" before creation and "closed" after
    shape,      \* kind and token accounts of the action
    unwrap,     \* should_unwrap_native_token
    escrow,     \* amount in the escrow of each token
    open,       \* tokens whose escrow account exists
    ata,        \* the ATAs of the owner and of the receiver
    budget,     \* max_execution_lamports
    lamports,   \* execution lamports left in the action account
    gtReward,   \* Order.gt_reward
    enabled,    \* features that are not disabled
    restarted,  \* the cluster restarted and the store did not acknowledge it
    \* history
    paid,       \* what the owner paid into the escrows
    produced,   \* what the execution paid into the escrows
    settled,    \* TRUE once the action was completed
    got,        \* what the owner and the receiver were sent
    earned,     \* lamports paid to keepers
    granted,    \* GT minted to the owner
    referral    \* GT minted to the referrer

vars == <<st, shape, unwrap, escrow, open, ata, budget, lamports, gtReward,
          enabled, restarted, paid, produced, settled, got, earned, granted,
          referral>>
history == <<paid, produced, settled, got, earned, granted, referral>>
environment == <<ata, enabled, restarted>>

TokensIn(s) == {s[i] : i \in DOMAIN s}
NoTokens == [t \in Tokens |-> 0]
NoShape == [kind |-> "none", ins |-> <<>>, outs |-> <<>>]

Init == /\ st = "none"
        /\ shape = NoShape
        /\ unwrap = FALSE
        /\ escrow = NoTokens
        /\ open = {}
        /\ ata \in [People -> [Tokens -> AtaStates]]
        /\ \A p \in People, t \in Tokens :
              <<p, t>> \notin Watched => ata[p][t] = "own"
        /\ budget = 0 /\ lamports = 0 /\ gtReward = 0
        /\ enabled = Features
        /\ restarted = FALSE
        /\ paid = NoTokens /\ produced = NoTokens /\ settled = FALSE
        /\ got = [p \in People |-> NoTokens]
        /\ earned = 0 /\ granted = 0 /\ referral = 0

-----------------------------------------------------------------------------
(* Creation.                                                               *)

Escrows == TokensIn(shape.ins) \cup TokensIn(shape.outs)

(* prepare_associated_token_account: anybody may create the ATA of any     *)
(* address, so also an escrow, before the action exists and after.        *)
PrepareEscrow(t) ==
    /\ st # "closed"
    /\ t \notin open
    /\ open' = open \cup {t}
    /\ UNCHANGED <<st, shape, unwrap, escrow, budget, lamports, gtReward,
                   environment, history>>

(* The amounts of a Create instruction: nothing but the input tokens.      *)
InputAmounts(s) == {a \in [Tokens -> Amounts] :
                       \A t \in Tokens \ TokensIn(s.ins) : a[t] = 0}

(* Create::create: the fee and the tokens are transferred, the header is   *)
(* initialized.  MIN_EXECUTION_LAMPORTS is checked by validate_balance.    *)
Create(s, a, u, fee) ==
    /\ st = "none"
    /\ ~restarted /\ "create" \in enabled
    /\ TokensIn(s.ins) \cup TokensIn(s.outs) \subseteq open
    /\ fee >= MinFee
    /\ st' = "pending"
    /\ shape' = s
    /\ unwrap' = u
    /\ escrow' = a
    /\ budget' = fee /\ lamports' = fee
    /\ paid' = a
    /\ UNCHANGED <<open, gtReward, environment, produced, settled, got,
                   earned, granted, referral>>

(* An empty deposit, withdrawal or shift is refused, an order is not.      *)
CreateDeposit(s, a, u, fee) == /\ s.kind = "deposit" /\ a # NoTokens
                               /\ Create(s, a, u, fee)
CreateWithdrawal(s, a, u, fee) == /\ s.kind = "withdrawal" /\ a # NoTokens
                                  /\ Create(s, a, u, fee)
CreateShift(s, a, u, fee) == /\ s.kind = "shift" /\ a # NoTokens
                             /\ Create(s, a, u, fee)
CreateOrder(s, a, u, fee) == s.kind \in OrderKinds /\ Create(s, a, u, fee)

-----------------------------------------------------------------------------
(* Execution, by an ORDER_KEEPER.                                          *)

Smaller(a, b) == IF a <= b THEN a ELSE b

(* Store::has_role: after a restart a RESTART_ADMIN has every role, and    *)
(* nobody else has any.                                                    *)
KeeperAuthorized == restarted => RestartAdmin

(* Mutant: the keeper's price is not capped by the owner's budget.         *)
PayAnyFee(fee) == /\ lamports' = IF lamports >= fee THEN lamports - fee ELSE 0
                  /\ earned' = earned + fee

(* pay_execution_fee: at most what the owner allowed.                      *)
PayExecutionFee(fee) ==
    LET due == Smaller(fee, budget)
    IN  /\ lamports >= due
        /\ lamports' = lamports - due
        /\ earned' = earned + due

OutputAmounts == {a \in [Tokens -> Amounts] :
                     \A t \in Tokens \ TokensIn(shape.outs) : a[t] = 0}

(* transfer_tokens_in: every input amount is taken from its escrow.        *)
TransferIn == \A t \in Tokens : escrow[t] >= paid[t]

Executable == /\ st = "pending"
              /\ KeeperAuthorized /\ "execute" \in enabled
              /\ Escrows \subseteq open

(* header.completed(): the input is gone, the output is in the escrows.    *)
Completed(out, fee) ==
    /\ st' = "completed"
    /\ escrow' = [t \in Tokens |-> escrow[t] - paid[t] + out[t]]
    /\ produced' = out
    /\ settled' = TRUE
    /\ PayExecutionFee(fee)

(* header.cancelled() and transfer_tokens_out: the input is back in its    *)
(* escrow.                                                                 *)
Cancelled(fee) == /\ st' = "cancelled"
                  /\ PayExecutionFee(fee)
                  /\ UNCHANGED <<escrow, produced, settled>>

Settle(out, fee) == Completed(out, fee) \/ Cancelled(fee)

ExecuteDeposit(out, fee) ==
    /\ shape.kind = "deposit" /\ Executable /\ TransferIn
    /\ Settle(out, fee)
    /\ UNCHANGED <<shape, unwrap, open, budget, gtReward, environment, paid,
                   got, granted, referral>>

ExecuteWithdrawal(out, fee) ==
    /\ shape.kind = "withdrawal" /\ Executable /\ TransferIn
    /\ Settle(out, fee)
    /\ UNCHANGED <<shape, unwrap, open, budget, gtReward, environment, paid,
                   got, granted, referral>>

ExecuteShift(out, fee) ==
    /\ shape.kind = "shift" /\ Executable /\ TransferIn
    /\ Settle(out, fee)
    /\ UNCHANGED <<shape, unwrap, open, budget, gtReward, environment, paid,
                   got, granted, referral>>

(* Order::unchecked_process_gt: the owner is minted GT for the fees paid.  *)
ProcessGt(gt) == /\ gtReward' = gt
                 /\ granted' = granted + gt

SettleOrder(out, fee, gt) ==
    /\ \/ Completed(out, fee) /\ ProcessGt(gt)
       \/ Cancelled(fee) /\ UNCHANGED <<gtReward, granted>>
    /\ UNCHANGED <<shape, unwrap, open, budget, environment, paid, got,
                   referral>>

ExecuteIncreaseOrSwapOrder(out, fee, gt) ==
    /\ shape.kind \in {"increase", "swap"} /\ Executable /\ TransferIn
    /\ SettleOrder(out, fee, gt)

ExecuteDecreaseOrder(out, fee, gt) ==
    /\ shape.kind = "decrease" /\ Executable
    /\ SettleOrder(out, fee, gt)

(* cancel_order_if_no_position, by a keeper and without a fee.             *)
CancelOrderIfNoPosition ==
    /\ shape.kind \in {"increase", "decrease"}
    /\ st = "pending"
    /\ KeeperAuthorized
    /\ st' = "cancelled"
    /\ UNCHANGED <<shape, unwrap, escrow, open, budget, lamports, gtReward,
                   environment, history>>

-----------------------------------------------------------------------------
(* Closing.                                                                *)

Refunds == [i \in DOMAIN shape.ins |-> [tok |-> shape.ins[i], to |-> "owner"]]
Outputs == [i \in DOMAIN shape.outs |->
              [tok |-> shape.outs[i], to |-> "receiver"]]

(* Mutant: the output escrows are always sent out first.                   *)
OrderSlotsOutputsFirst == Outputs \o Refunds

(* The escrows in the order in which they are sent out.  An order that is  *)
(* not completed refunds its input first: if that shares an escrow with an *)
(* output, it goes to the owner.                                           *)
OrderSlots == IF st = "completed" THEN Outputs \o Refunds
                                  ELSE Refunds \o Outputs
DepositSlots == Outputs \o Refunds
WithdrawalSlots == Refunds \o Outputs
ShiftSlots == Refunds \o Outputs

Slots == CASE shape.kind = "deposit" -> DepositSlots
           [] shape.kind = "withdrawal" -> WithdrawalSlots
           [] shape.kind = "shift" -> ShiftSlots
           [] OTHER -> OrderSlots

(* An escrow that was already sent out is not looked at again.             *)
FirstFor(i) == \A j \in 1 .. i - 1 : Slots[j].tok # Slots[i].tok

(* unwrap_native_if_needed: paid out in lamports, no ATA needed.           *)
Unwrapped(t) == unwrap /\ t = NativeToken

(* TransferAllFromEscrowToATA::unchecked_execute returns false.            *)
Blocked(i, init) ==
    LET t == Slots[i].tok
        a == ata[Slots[i].to][t]
    IN  /\ escrow[t] # 0
        /\ ~Unwrapped(t)
        /\ a = "foreign" \/ (a = "missing" /\ ~init)

(* The slots that are sent out: those before the first blocked one.        *)
Sent(init) == {i \in DOMAIN Slots :
                 /\ FirstFor(i)
                 /\ \A j \in 1 .. i : FirstFor(j) => ~Blocked(j, init)}

(* Mutant: the result of the transfers is ignored.                         *)
AllSentOrNot(init) == TRUE

AllSent(init) == \A i \in DOMAIN Slots : FirstFor(i) => i \in Sent(init)

(* mint_gt_reward_for_referrer: apply_factor rounds down.                  *)
ReferrerReward(gt) == (gt * RewardFactor) \div FactorUnit

(* Mutant: the reward stays recorded in the order.                         *)
ProcessGtRewardKept == /\ referral' = referral + ReferrerReward(gtReward)
                       /\ UNCHANGED gtReward

(* process_gt_reward of an order, also when a transfer was blocked.        *)
ProcessGtReward == /\ referral' = referral + ReferrerReward(gtReward)
                   /\ gtReward' = 0

(* Mutant: the check is made whatever the state.                           *)
CloseAllowedAlways == ~restarted /\ "cancel" \in enabled

(* Close::validate: only a pending action needs the feature and a cluster  *)
(* that did not restart.                                                   *)
CloseAllowed == st = "pending" => ~restarted /\ "cancel" \in enabled

(* Close::close.  Where a missing ATA is needed and init is TRUE it is     *)
(* created.  The lamports left go to the owner, the rent receiver.         *)
Close(init) ==
    LET sent(p) == {Slots[i].tok : i \in {j \in Sent(init) : Slots[j].to = p}}
        all == {Slots[i].tok : i \in Sent(init)}
        needed(p, t) == /\ t \in sent(p) /\ escrow[t] # 0 /\ ~Unwrapped(t)
                        /\ ata[p][t] = "missing"
    IN  /\ st \in {"pending", "completed", "cancelled"}
        /\ CloseAllowed
        /\ Escrows \subseteq open
        /\ escrow' = [t \in Tokens |-> IF t \in all THEN 0 ELSE escrow[t]]
        /\ open' = open \ all
        /\ got' = [p \in People |-> [t \in Tokens |->
                     IF t \in sent(p) THEN got[p][t] + escrow[t]
                                      ELSE got[p][t]]]
        /\ ata' = [p \in People |-> [t \in Tokens |->
                     IF needed(p, t) THEN "own" ELSE ata[p][t]]]
        /\ IF shape.kind \in OrderKinds THEN ProcessGtReward
                                        ELSE UNCHANGED <<gtReward, referral>>
        /\ IF AllSent(init) THEN st' = "closed" /\ lamports' = 0
                            ELSE UNCHANGED <<st, lamports>>
        /\ UNCHANGED <<shape, unwrap, budget, enabled, restarted, paid,
                       produced, settled, earned, granted>>

(* Close::preprocess: the owner may always close, and pays for the ATAs.   *)
OwnerClose == Close(TRUE)

(* Mutant: a keeper waits until the action was completed.                  *)
KeeperCloseCompleted == KeeperAuthorized /\ st = "completed" /\ Close(FALSE)

(* Close::preprocess: a keeper only closes what has an outcome.            *)
KeeperClose == /\ KeeperAuthorized
               /\ st \in {"completed", "cancelled"}
               /\ Close(FALSE)

-----------------------------------------------------------------------------
(* What else happens to the accounts, until the action is closed.          *)

(* The token program: an ATA is created, closed when it is empty, or       *)
(* given to another authority for good.                                    *)
SetAta(p, t, a) ==
    /\ st \notin {"none", "closed"}
    /\ <<p, t>> \in Watched
    /\ <<ata[p][t], a>> \in {<<"missing", "own">>, <<"own", "missing">>,
                              <<"own", "foreign">>}
    /\ ata' = [ata EXCEPT ![p][t] = a]
    /\ UNCHANGED <<st, shape, unwrap, escrow, open, budget, lamports,
                   gtReward, enabled, restarted, history>>

(* toggle_feature.                                                         *)
ToggleFeature(f) == /\ st # "closed"
                    /\ enabled' = IF f \in enabled THEN enabled \ {f}
                                                   ELSE enabled \cup {f}
                    /\ UNCHANGED <<st, shape, unwrap, escrow, open, ata,
                                   budget, lamports, gtReward, restarted,
                                   history>>

ClusterRestart == /\ MayRestart /\ ~restarted
                  /\ st # "closed"
                  /\ restarted' = TRUE
                  /\ UNCHANGED <<st, shape, unwrap, escrow, open, ata, budget,
                                 lamports, gtReward, enabled, history>>

(* update_last_restarted_slot, by the RESTART_ADMIN.                       *)
UpdateLastRestartedSlot ==
    /\ restarted
    /\ restarted' = FALSE
    /\ UNCHANGED <<st, shape, unwrap, escrow, open, ata, budget, lamports,
                   gtReward, enabled, history>>

-----------------------------------------------------------------------------
CreateAny == \E s \in Shapes, u \in BOOLEAN, fee \in Fees :
                \E a \in InputAmounts(s) :
                    \/ CreateDeposit(s, a, u, fee)
                    \/ CreateWithdrawal(s, a, u, fee)
                    \/ CreateShift(s, a, u, fee)
                    \/ CreateOrder(s, a, u, fee)

ExecuteAny == \E out \in OutputAmounts, fee \in Fees, gt \in Rewards :
                 \/ ExecuteDeposit(out, fee)
                 \/ ExecuteWithdrawal(out, fee)
                 \/ ExecuteShift(out, fee)
                 \/ ExecuteIncreaseOrSwapOrder(out, fee, gt)
                 \/ ExecuteDecreaseOrder(out, fee, gt)

Program == \/ CreateAny \/ ExecuteAny \/ CancelOrderIfNoPosition
           \/ OwnerClose \/ KeeperClose
           \/ \E t \in Tokens : PrepareEscrow(t)

Environment == \/ ClusterRestart \/ UpdateLastRestartedSlot
               \/ \E f \in Toggles : ToggleFeature(f)
               \/ \E p \in People, t \in Tokens, a \in AtaChanges :
                     SetAta(p, t, a)

Next == Program \/ Environment

Spec == Init /\ [][Next]_vars

(* Keepers execute and close whenever they can, the escrows and ATAs that  *)
(* are missing get created, and the cluster stays up.                      *)
Helpful == Program \/ \E p \in People, t \in Tokens : SetAta(p, t, "own")

LiveSpec == /\ Init /\ [][Helpful]_vars
            /\ WF_vars(ExecuteAny) /\ WF_vars(KeeperClose)
            /\ \A t \in Tokens : WF_vars(PrepareEscrow(t))
            /\ \A p \in People, t \in Tokens : WF_vars(SetAta(p, t, "own"))

-----------------------------------------------------------------------------
TypeOK == /\ st \in {"none", "pending", "completed", "cancelled", "closed"}
          /\ shape \in Shapes \cup {NoShape}
          /\ unwrap \in BOOLEAN
          /\ escrow \in [Tokens -> Nat]
          /\ open \subseteq Tokens
          /\ ata \in [People -> [Tokens -> AtaStates]]
          /\ budget \in Nat /\ lamports \in Nat /\ gtReward \in Nat
          /\ enabled \subseteq Features
          /\ restarted \in BOOLEAN
          /\ paid \in [Tokens -> Nat] /\ produced \in [Tokens -> Nat]
          /\ settled \in BOOLEAN
          /\ got \in [People -> [Tokens -> Nat]]
          /\ earned \in Nat /\ granted \in Nat /\ referral \in Nat

(* Whoever closes, in how many attempts, and whatever escrows the input    *)
(* and the output share: unless the action was completed, exactly its      *)
(* input is on its way back to the owner and the receiver gets nothing;    *)
(* once it is completed, exactly its output is on its way to the receiver  *)
(* and the owner gets nothing.                                             *)
FundsFollowOutcome ==
    \A t \in Tokens :
        IF settled
          THEN /\ got["receiver"][t] + escrow[t] = produced[t]
               /\ got["owner"][t] = 0
          ELSE /\ got["owner"][t] + escrow[t] = paid[t]
               /\ got["receiver"][t] = 0

(* A closed action leaves nothing in an escrow that nobody can sign for    *)
(* any more.                                                               *)
NothingStranded == st = "closed" => /\ escrow = NoTokens
                                    /\ Escrows \cap open = {}

(* A keeper is paid for one outcome, within the owner's budget, and never  *)
(* for an action that is still pending.                                    *)
KeeperPaidWithinBudget == /\ earned <= budget
                          /\ st = "pending" => earned = 0

(* The referrer gets the share of the GT the order earned once, although   *)
(* every attempt to close the order processes the reward.                  *)
ReferralPaidOnce ==
    referral + ReferrerReward(gtReward) = ReferrerReward(granted)

(* The owner of an action that has an outcome can get everything out in    *)
(* one step, whatever features are disabled and although the cluster       *)
(* restarted, as long as the escrows exist and no ATA is in other hands.   *)
OwnerCanLeave ==
    /\ st \in {"completed", "cancelled"}
    /\ Escrows \subseteq open
    /\ \A p \in People, t \in Tokens : ata[p][t] # "foreign"
    => ENABLED (OwnerClose /\ st' = "closed")

(* A created action ends: it is executed or cancelled, escrows that an     *)
(* unfinished close left behind closed are created again, and a later      *)
(* close goes through, unless an ATA is in other hands.                    *)
EventuallyClosed ==
    (st = "pending") ~> \/ st = "closed"
                        \/ \E p \in People, t \in Tokens :
                              ata[p][t] = "foreign"
=============================================================================
