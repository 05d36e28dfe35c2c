----------------------------- MODULE GtExchange -----------------------------
(***************************************************************************)
(* GT in the store program (states/gt.rs, instructions/gt.rs): the global  *)
(* GtState, the GT of every user, and the exchange vaults, one for each    *)
(* time window, in which users give their GT back.                         *)
(*                                                                         *)
(* Executing an order mints GT for the fee it paid; closing the order      *)
(* mints a reward to the referrer of its owner.  A user moves GT from the  *)
(* holding to an exchange account of the current window's vault; when the  *)
(* window is over a GT_CONTROLLER confirms the vault and closes its        *)
(* exchanges.  The GtTreasury module is that controller.                   *)
(*                                                                         *)
(* GT is initialized, the store has acknowledged the last restart (until   *)
(* it does, every instruction here fails) and factors are multiples of     *)
(* 1/Unit.  An instruction that fails changes nothing and is no step.      *)
(***************************************************************************)
EXTENDS Integers, FiniteSets, FiniteSetsExt

CONSTANTS Users,
          Referrer,       \* the referrer of a user, or NoUser
          NoUser,
          Fees,           \* values an executed order may have paid as fee
          InitialCost,    \* minting_cost set by init
          GrowFactor,     \* minting_cost_grow_factor
          GrowStep,       \* grow_step_amount
          Ranks,          \* the amounts at which a rank is reached
          RewardFactor,   \* referral_reward_factors, by rank
          Unit,           \* MARKET_USD_UNIT
          TimeWindow,     \* exchange_time_window
          MaxAmount,      \* u64::MAX
          MaxValue,       \* u128::MAX
          MaxTime         \* bound on the clock

ASSUME UsersAssumption == NoUser \notin Users /\ IsFiniteSet(Users)
                          /\ Referrer \in [Users -> Users \cup {NoUser}]
ASSUME NumbersAssumption ==
    /\ {InitialCost, GrowFactor, MaxAmount, MaxValue, MaxTime} \subseteq Nat
    /\ {GrowStep, Unit, TimeWindow} \subseteq Nat \ {0}
    /\ Fees \subseteq Nat
ASSUME RanksAssumption ==
    /\ Ranks \subseteq Nat \ {0} /\ IsFiniteSet(Ranks)
    /\ RewardFactor \in [0..Cardinality(Ranks) -> Nat]

(* get_time_window_index.  A vault account is named after its window.      *)
WindowAt(t) == t \div TimeWindow
Windows == 0..WindowAt(MaxTime)

VARIABLES
    now,        \* Clock.unix_timestamp
    gt,         \* GtState
    user,       \* UserGtState of every user
    reward,     \* Order.gt_reward of a user's executed order, until closed
    vault,      \* GtExchangeVault of every window
    exchange    \* GtExchange of every window and user

storeVars == <<now, gt, user, reward, vault, exchange>>

NoVault == [init |-> FALSE, confirmed |-> FALSE, amount |-> 0]
NoExchange == [open |-> FALSE, amount |-> 0]

Init ==
    /\ now = 0
    /\ gt = [minted |-> 0, steps |-> 0, cost |-> InitialCost, supply |-> 0,
             vault |-> 0]
    /\ user = [u \in Users |-> [rank |-> 0, minted |-> 0, amount |-> 0,
                                paidFee |-> 0, mintedFee |-> 0]]
    /\ reward = [u \in Users |-> 0]
    /\ vault = [w \in Windows |-> NoVault]
    /\ exchange = [w \in Windows |-> [u \in Users |-> NoExchange]]

-----------------------------------------------------------------------------
(* Minting.                                                                *)

ApplyFactor(value, factor) == (value * factor) \div Unit

(* The minting cost after n more grow steps, rounded down at every step.   *)
CostAfter(cost, n) ==
    LET c[i \in 0..n] == IF i = 0 THEN cost ELSE ApplyFactor(c[i - 1], GrowFactor)
    IN  c[n]

NextSteps(g, amount) == (g.minted + amount) \div GrowStep

(* Mutant: each minting raises the cost by one step at most.               *)
NextCostOneStep(g, amount) ==
    IF NextSteps(g, amount) = g.steps THEN g.cost
    ELSE CostAfter(g.cost, 1)

NextCost(g, amount) ==
    IF NextSteps(g, amount) = g.steps THEN g.cost
    ELSE CostAfter(g.cost, NextSteps(g, amount) - g.steps)

(* unchecked_update_rank: how many of the sorted thresholds were reached.  *)
RankOf(amount) == Cardinality({r \in Ranks : r <= amount})

(* mint_to, on the global state and on the user's.                         *)
CanMint(g, amount) == /\ g.minted + amount <= MaxAmount
                      /\ NextCost(g, amount) \in 0..MaxValue
Minted(g, amount) ==
    IF amount = 0 THEN g
    ELSE [g EXCEPT !.minted = @ + amount, !.supply = @ + amount,
                   !.steps = NextSteps(g, amount),
                   !.cost = NextCost(g, amount)]
Receives(r, amount) ==
    IF amount = 0 THEN r
    ELSE [r EXCEPT !.minted = @ + amount, !.amount = @ + amount,
                   !.rank = RankOf(r.amount + amount)]

(* Mutant: the remainder is written off.                                   *)
MintedValueAll(value, cost) == value

(* unchecked_process_gt: every fee paid so far that no GT was minted for   *)
(* is converted at the current cost; the remainder waits for the next      *)
(* order.  Orders without a fee, and markets with GT minting disabled,     *)
(* leave GT alone.  One executed order of a user waits to be closed.       *)
MintedValue(value, cost) == value - (value % cost)

ProcessGt(u, fee) ==
    LET paid == Min({user[u].paidFee + fee, MaxValue})
        value == paid - user[u].mintedFee
        amount == value \div gt.cost
    IN  /\ reward[u] = 0
        /\ fee # 0
        /\ user[u].mintedFee <= paid
        /\ gt.cost # 0
        /\ CanMint(gt, amount)
        /\ gt' = Minted(gt, amount)
        /\ user' = [user EXCEPT ![u] =
             [Receives(user[u], amount) EXCEPT
                 !.paidFee = paid,
                 !.mintedFee = @ + MintedValue(value, gt.cost)]]
        /\ reward' = [reward EXCEPT ![u] = amount]
        /\ UNCHANGED <<now, vault, exchange>>

(* process_gt_reward: closing the order rewards the referrer, by the rank  *)
(* the referrer has by then.                                               *)
ProcessGtReward(u) ==
    LET r == Referrer[u]
        amount == IF r = NoUser THEN 0
                  ELSE ApplyFactor(reward[u], RewardFactor[user[r].rank])
    IN  /\ reward[u] # 0
        /\ CanMint(gt, amount)
        /\ gt' = Minted(gt, amount)
        /\ user' = [v \in Users |-> IF v = r THEN Receives(user[v], amount)
                                    ELSE user[v]]
        /\ reward' = [reward EXCEPT ![u] = 0]
        /\ UNCHANGED <<now, vault, exchange>>

-----------------------------------------------------------------------------
(* Exchanging.                                                             *)

(* prepare_gt_exchange_vault: ts is the clock's, so only the vault of the  *)
(* current window can be created; for an existing one nothing changes.     *)
PrepareVault ==
    /\ ~vault[WindowAt(now)].init
    /\ vault' = [vault EXCEPT ![WindowAt(now)].init = TRUE]
    /\ UNCHANGED <<now, gt, user, reward, exchange>>

Depositable(w) == vault[w].init /\ ~vault[w].confirmed /\ WindowAt(now) = w

(* request_gt_exchange: burn from the user, add to vault and exchange.     *)
Burnt(r, amount) ==
    IF amount = 0 THEN r
    ELSE [r EXCEPT !.amount = @ - amount, !.rank = RankOf(r.amount - amount)]

RequestExchange(u, w, amount) ==
    /\ Depositable(w)
    /\ amount <= user[u].amount
    /\ amount <= gt.supply
    /\ vault[w].amount + amount <= MaxAmount
    /\ gt' = [gt EXCEPT !.supply = @ - amount]
    /\ user' = [user EXCEPT ![u] = Burnt(@, amount)]
    /\ vault' = [vault EXCEPT ![w].amount = @ + amount]
    /\ exchange' = [exchange EXCEPT ![w][u] =
                      [open |-> TRUE, amount |-> @.amount + amount]]
    /\ UNCHANGED <<now, reward>>

(* Mutant: a vault may be confirmed again.                                 *)
ConfirmableAgain(w) == vault[w].init /\ WindowAt(now) > w

Confirmable(w) == vault[w].init /\ ~vault[w].confirmed /\ WindowAt(now) > w

(* unchecked_confirm_exchange_vault.                                       *)
ConfirmVault(w) ==
    /\ Confirmable(w)
    /\ gt.vault + vault[w].amount <= MaxAmount
    /\ vault' = [vault EXCEPT ![w].confirmed = TRUE]
    /\ gt' = [gt EXCEPT !.vault = @ + vault[w].amount]
    /\ UNCHANGED <<now, user, reward, exchange>>

(* Mutant: exchanges of vaults not yet confirmed are closed as well.       *)
CloseExchangeEarly(u, w) ==
    /\ exchange[w][u].open
    /\ exchange' = [exchange EXCEPT ![w][u] = NoExchange]
    /\ UNCHANGED <<now, gt, user, reward, vault>>

(* close_gt_exchange: the account is closed, its owner must not sign.      *)
CloseExchange(u, w) ==
    /\ vault[w].init /\ vault[w].confirmed
    /\ exchange[w][u].open
    /\ exchange' = [exchange EXCEPT ![w][u] = NoExchange]
    /\ UNCHANGED <<now, gt, user, reward, vault>>

Tick == /\ now < MaxTime
        /\ now' = now + 1
        /\ UNCHANGED <<gt, user, reward, vault, exchange>>

(* What users, order keepers and time do.                                  *)
UserNext ==
    \/ \E u \in Users, fee \in Fees : ProcessGt(u, fee)
    \/ \E u \in Users : ProcessGtReward(u)
    \/ PrepareVault
    \/ \E u \in Users, w \in Windows :
          \E amount \in 0..user[u].amount : RequestExchange(u, w, amount)
    \/ Tick

Next ==
    \/ UserNext
    \/ \E w \in Windows : ConfirmVault(w)
    \/ \E u \in Users, w \in Windows : CloseExchange(u, w)

Spec == Init /\ [][Next]_storeVars

-----------------------------------------------------------------------------
(* Properties.                                                             *)

Exchanged(w) == SumFunction([u \in Users |-> exchange[w][u].amount])
Confirmed == {w \in Windows : vault[w].confirmed}

(* No GT is made or lost: every GT ever minted is held by a user or was    *)
(* put into a vault, and gt_vault counts each confirmed vault exactly once *)
(* (states/gt.rs, mint_to, unchecked_request_exchange, process_gt_vault).  *)
GtConserved ==
    /\ gt.supply = SumFunction([u \in Users |-> user[u].amount])
    /\ gt.minted = gt.supply + SumFunction([w \in Windows |-> vault[w].amount])
    /\ gt.minted = SumFunction([u \in Users |-> user[u].minted])
    /\ gt.vault = SumFunction([w \in Confirmed |-> vault[w].amount])

(* A vault owes exactly what its exchanges hold until it is confirmed, and *)
(* at least that much afterwards, so the claims on a confirmed vault never *)
(* exceed the amount it was confirmed with.                                *)
VaultCoversExchanges ==
    \A w \in Windows : IF vault[w].confirmed THEN Exchanged(w) <= vault[w].amount
                       ELSE Exchanged(w) = vault[w].amount

(* The minting cost depends on the total ever minted alone: however the    *)
(* minting was cut into orders and rewards, and whatever was burnt since   *)
(* (next_minting_cost).                                                    *)
CostFollowsTotalMinted ==
    /\ gt.steps = gt.minted \div GrowStep
    /\ gt.cost = CostAfter(InitialCost, gt.minted \div GrowStep)

(* No fee is minted for twice and none is forgotten: what a user has paid  *)
(* beyond the value minted for is less than one GT costs, that value is    *)
(* covered by the GT received at no more than today's cost and, for users  *)
(* who get no referral rewards, at no less than the initial one            *)
(* (unchecked_process_gt; the cost does not fall when GrowFactor >= Unit,  *)
(* and a cost of 0, which init does not refuse, stops all minting).        *)
FeesMintedOnce ==
    (GrowFactor >= Unit /\ InitialCost # 0) => \A u \in Users :
        /\ user[u].mintedFee <= user[u].paidFee
        /\ user[u].paidFee - user[u].mintedFee < gt.cost
        /\ user[u].mintedFee <= user[u].minted * gt.cost
        /\ (\A v \in Users : Referrer[v] # u) =>
               user[u].minted * InitialCost <= user[u].mintedFee
=============================================================================
