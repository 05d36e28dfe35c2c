----------------------------- MODULE Claimables -----------------------------
(***************************************************************************)
(* What an executed decrease order or a position cut leaves for the owner  *)
(* of the position or for the holding address to claim: token accounts of  *)
(* the store, one for each claimant, mint and time window, on which a      *)
(* keeper makes the claimant the delegate (instructions/token.rs).  One    *)
(* mint stands for all.                                                    *)
(*                                                                         *)
(* The window of a timestamp depends on the window size of the moment, and *)
(* the timestamp is an argument: it has to be a recent one when an order   *)
(* is executed, and may be any one when an account is prepared or closed.  *)
(***************************************************************************)
EXTENDS Integers, FiniteSets, FiniteSetsExt

CONSTANTS Claimants,            \* owners of positions and holding addresses
          FirstHolding,
          FirstWindow, FirstRecent,
          WindowSizes,          \* values of claimable_time_window, 0 included
          RecentSizes,          \* values of recent_time_window
          Leftovers,            \* amounts an execution leaves to claim
          Approvals,            \* amounts a keeper makes a claimant the delegate of
          MaxClaimTime, MaxClaims, MaxResets,
          NoAccount

ASSUME ClaimsAssumption ==
    /\ FirstHolding \in Claimants
    /\ {FirstWindow, FirstRecent} \cup WindowSizes \cup RecentSizes \subseteq Nat
    /\ Leftovers \subseteq Nat /\ {MaxClaimTime, MaxClaims, MaxResets} \subseteq Nat

VARIABLES clock,
          windowSize, recentSize,   \* amounts of the store
          holding,                  \* the holding address
          claimable,                \* the accounts, by claimant and window
          owed, claimed,            \* history: left for and taken by a claimant
          resets

claimVars == <<clock, windowSize, recentSize, holding, claimable, owed, claimed, resets>>

Indexes == 0 .. MaxClaimTime
Timestamps == 0 .. MaxClaimTime * Max(WindowSizes \cup {FirstWindow})

ClaimablesInit ==
    /\ clock = 0
    /\ windowSize = FirstWindow /\ recentSize = FirstRecent
    /\ holding = FirstHolding
    /\ claimable = [p \in Claimants |-> [i \in Indexes |-> NoAccount]]
    /\ owed = [p \in Claimants |-> 0]
    /\ claimed = [p \in Claimants |-> 0]
    /\ resets = 0

ClockTicks ==
    /\ clock < MaxClaimTime
    /\ clock' = clock + 1
    /\ UNCHANGED <<windowSize, recentSize, holding, claimable, owed, claimed, resets>>

\* insert_amount and insert_address, by a CONFIG_KEEPER.
Reset == /\ resets < MaxResets
         /\ resets' = resets + 1
         /\ UNCHANGED <<clock, claimable, owed, claimed>>

InsertClaimableTimeWindow(size) ==
    windowSize' = size /\ Reset /\ UNCHANGED <<recentSize, holding>>
InsertRecentTimeWindow(size) ==
    recentSize' = size /\ Reset /\ UNCHANGED <<windowSize, holding>>
InsertHolding(address) ==
    holding' = address /\ Reset /\ UNCHANGED <<windowSize, recentSize>>

\* claimable_time_key, which fails for a window of no size.
HasKey(ts, i) == windowSize # 0 /\ i = ts \div windowSize

\* approve replaces the delegated amount.
Approved(account, amount) ==
    IF account = NoAccount THEN [amount |-> 0, delegate |-> TRUE, delegated |-> amount]
    ELSE [account EXCEPT !.delegate = TRUE, !.delegated = amount]

\* validated_recent_timestamp.
Recent(ts) == ts <= clock /\ clock <= ts + recentSize

\* Mutant: an account can be prepared for a recent timestamp only.
UseRecentClaimableAccount(p, ts, i, amount) ==
    /\ HasKey(ts, i) /\ Recent(ts)
    /\ claimable' = [claimable EXCEPT ![p][i] = Approved(@, amount)]
    /\ UNCHANGED <<clock, windowSize, recentSize, holding, owed, claimed, resets>>

UseClaimableAccount(p, ts, i, amount) ==
    /\ HasKey(ts, i)
    /\ claimable' = [claimable EXCEPT ![p][i] = Approved(@, amount)]
    /\ UNCHANGED <<clock, windowSize, recentSize, holding, owed, claimed, resets>>

CloseEmptyClaimableAccount(p, ts, i) ==
    /\ HasKey(ts, i)
    /\ claimable[p][i] # NoAccount /\ claimable[p][i].amount = 0
    /\ claimable' = [claimable EXCEPT ![p][i] = NoAccount]
    /\ UNCHANGED <<clock, windowSize, recentSize, holding, owed, claimed, resets>>

CheckDelegation(p, i) == claimable[p][i] # NoAccount /\ claimable[p][i].delegate

\* The constraints on the accounts of execute_decrease_order, liquidate and
\* auto_deleverage.
Receivable(p, ts, i) ==
    /\ HasKey(ts, i) /\ Recent(ts)
    /\ CheckDelegation(p, i) /\ CheckDelegation(holding, i)

PaidInto(p, i, leftover) ==
    [claimable EXCEPT ![holding][i].amount = @ + leftover.holding,
                      ![p][i].amount = @ + leftover.user]

\* process_claimable_collateral_for_decrease and the transfers after it.
LeaveToClaim(p, ts, i, leftover) ==
    /\ Receivable(p, ts, i)
    /\ MapThenSumSet(LAMBDA q : owed[q], Claimants) + leftover.user + leftover.holding <= MaxClaims
    /\ claimable' = PaidInto(p, i, leftover)
    /\ owed' = [q \in Claimants |-> owed[q] + (IF q = p THEN leftover.user ELSE 0)
                                            + (IF q = holding THEN leftover.holding ELSE 0)]
    /\ UNCHANGED <<clock, windowSize, recentSize, holding, claimed, resets>>

\* The claimant transfers as delegate; a delegate with nothing left is none.
Claim(p, i, amount) ==
    /\ CheckDelegation(p, i)
    /\ amount <= claimable[p][i].delegated /\ amount <= claimable[p][i].amount
    /\ claimable' = [claimable EXCEPT ![p][i] =
         [amount |-> @.amount - amount, delegated |-> @.delegated - amount,
          delegate |-> @.delegated # amount]]
    /\ claimed' = [claimed EXCEPT ![p] = @ + amount]
    /\ UNCHANGED <<clock, windowSize, recentSize, holding, owed, resets>>

Executions == [user : Leftovers, holding : Leftovers]

ClaimablesNext ==
    \/ ClockTicks
    \/ \E size \in WindowSizes : InsertClaimableTimeWindow(size)
    \/ \E size \in RecentSizes : InsertRecentTimeWindow(size)
    \/ \E address \in Claimants : InsertHolding(address)
    \/ \E p \in Claimants, ts \in Timestamps, i \in Indexes :
          \/ \E amount \in Approvals : UseClaimableAccount(p, ts, i, amount)
          \/ CloseEmptyClaimableAccount(p, ts, i)
          \/ \E leftover \in Executions : LeaveToClaim(p, ts, i, leftover)
    \/ \E p \in Claimants, i \in Indexes : \E amount \in 1 .. MaxClaims : Claim(p, i, amount)

-----------------------------------------------------------------------------
\* Nothing left to claim is lost or goes to somebody else, and a keeper can
\* make a claimant the delegate of all of it at any time, also of accounts of
\* windows long past and of windows of another size (while there is a size).
InAccounts(p) ==
    MapThenSumSet(LAMBDA i : claimable[p][i].amount,
                  {i \in Indexes : claimable[p][i] # NoAccount})

ClaimsReachable ==
    \A p \in Claimants :
      /\ owed[p] = claimed[p] + InAccounts(p)
      /\ \A i \in Indexes :
           (claimable[p][i] # NoAccount /\ claimable[p][i].amount # 0 /\ windowSize # 0) =>
               ENABLED (\E ts \in Timestamps :
                          UseClaimableAccount(p, ts, i, claimable[p][i].amount))
=============================================================================
