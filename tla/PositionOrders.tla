--------------------------- MODULE PositionOrders ---------------------------
(***************************************************************************)
(* Orders, the position they are about, and the lamports both hold.  An    *)
(* owner prepares the account of a position and pays in advance what a cut *)
(* of the position will cost; orders are created, updated, executed,       *)
(* cancelled and closed; a keeper liquidates or deleverages the position   *)
(* with an order that it creates, pays for and executes in one instruction *)
(* (ops/order.rs, instructions/exchange/order.rs, position_cut.rs).        *)
(*                                                                         *)
(* Of a position the size is kept, which is 0 when it is empty; what is    *)
(* paid out in tokens is the subject of PerpMarket and ActionLifecycle,    *)
(* prices and times that of Oracle.                                        *)
(***************************************************************************)
EXTENDS Integers, FiniteSets, FiniteSetsExt, Functions

CONSTANTS OrderSlots,         \* addresses of orders
          PositionKeys,       \* positions of the owner, by side and collateral
          OrderParams,        \* arguments of create_order
          SizeUpdates,        \* values of size_delta_value
          CutSizes,           \* of auto_deleverage
          ExecutionFees,      \* arguments of the keeper
          IsPure,             \* both tokens of the market are one
          PositionRent, OrderRent, EscrowRent, MinExecutionLamports,
          MaxSize, MaxCreated,
          NoOrder, NoPositionAccount

SwapKinds == {"MarketSwap", "LimitSwap"}
IncreasesPosition == {"MarketIncrease", "LimitIncrease"}
DecreasesPosition == {"MarketDecrease", "LimitDecrease", "StopLossDecrease"}
Updatable == {"LimitSwap", "LimitIncrease", "LimitDecrease", "StopLossDecrease"}
OrderKinds == SwapKinds \cup IncreasesPosition \cup DecreasesPosition
                \cup {"Liquidation", "AutoDeleveraging"}

Parties == {"owner", "keeper"}
OrderAccounts ==
    [kind : OrderKinds, position : PositionKeys, size : Nat, amount : Nat, max : Nat,
     state : {"pending", "completed", "cancelled"}, rentReceiver : Parties,
     lamports : Int, escrowRent : Nat]
PositionAccounts == [size : Nat, lamports : Nat]

ASSUME LamportsAssumption ==
    /\ {PositionRent, OrderRent, EscrowRent, MinExecutionLamports} \subseteq Nat
    /\ ExecutionFees \subseteq Nat
    /\ IsPure \in BOOLEAN

ASSUME OrdersAssumption ==
    /\ IsFiniteSet(OrderSlots) /\ IsFiniteSet(PositionKeys)
    /\ \A p \in OrderParams : /\ p.kind \in OrderKinds /\ p.position \in PositionKeys
                              /\ {p.size, p.amount, p.lamports} \subseteq Nat
    /\ SizeUpdates \subseteq Nat /\ CutSizes \subseteq Nat
    /\ NoOrder \notin OrderAccounts /\ NoPositionAccount \notin PositionAccounts

VARIABLES positions,      \* the accounts: size and lamports
          orders,         \* the accounts, with the rent of their escrows
          purse,          \* what the owner and the keeper have, from 0
          created,        \* counts accounts created
          offered,        \* history: execution lamports of executed orders
          deleveraged     \* history: positions removed by auto_deleverage

positionOrderVars == <<positions, orders, purse, created, offered, deleveraged>>

Escrowed == IF IsPure THEN EscrowRent ELSE 2 * EscrowRent
PositionCutRent(withFee) ==
    OrderRent + Escrowed + (IF withFee THEN MinExecutionLamports ELSE 0)

PositionOrdersInit ==
    /\ positions = [k \in PositionKeys |-> NoPositionAccount]
    /\ orders = [o \in OrderSlots |-> NoOrder]
    /\ purse = [p \in Parties |-> 0]
    /\ created = 0 /\ offered = 0 /\ deleveraged = 0

Creates == created < MaxCreated /\ created' = created + 1

\* For a position that exists nothing happens.
PreparePosition(k) ==
    /\ positions[k] = NoPositionAccount
    /\ Creates
    /\ LET lamports == PositionRent + PositionCutRent(TRUE)
       IN  /\ positions' = [positions EXCEPT ![k] = [size |-> 0, lamports |-> lamports]]
           /\ purse' = [purse EXCEPT !["owner"] = @ - lamports]
    /\ UNCHANGED <<orders, offered, deleveraged>>

-----------------------------------------------------------------------------
(* Creation.  A parameter that is not given is -1.                         *)

\* OrderActionParams::init_swap, init_increase, init_decrease.
InitSwap(p) == p.kind = "LimitSwap" => p.minOutput > 0
InitIncrease(p) == p.trigger = -1 <=> p.kind = "MarketIncrease"
InitDecrease(p) == p.trigger = -1 <=> p.kind = "MarketDecrease"

CreateSwapOrder(p) == p.amount # 0 /\ InitSwap(p)

CreateIncreaseOrder(p) ==
    /\ positions[p.position] # NoPositionAccount
    /\ p.size # 0 \/ p.amount # 0
    /\ InitIncrease(p)

CreateDecreaseOrder(p) ==
    /\ positions[p.position] # NoPositionAccount
    /\ p.size # 0 \/ p.amount # 0 \/ p.kind = "MarketDecrease"
    /\ InitDecrease(p)

ValidParams(p) ==
    CASE p.kind \in SwapKinds         -> CreateSwapOrder(p)
      [] p.kind \in IncreasesPosition -> CreateIncreaseOrder(p)
      [] p.kind \in DecreasesPosition -> CreateDecreaseOrder(p)

\* ActionHeader::init: the rent goes to the owner, unless said otherwise.
NewOrder(p, state, rentReceiver, lamports) ==
    [kind |-> p.kind, position |-> p.position, size |-> p.size, amount |-> p.amount,
     max |-> p.lamports, state |-> state, rentReceiver |-> rentReceiver,
     lamports |-> lamports, escrowRent |-> Escrowed]

CreatePositionOrder(o, p) ==
    /\ orders[o] = NoOrder
    /\ Creates
    /\ p.lamports >= MinExecutionLamports
    /\ ValidParams(p)
    /\ orders' = [orders EXCEPT ![o] = NewOrder(p, "pending", "owner", OrderRent + p.lamports)]
    /\ purse' = [purse EXCEPT !["owner"] = @ - (OrderRent + Escrowed + p.lamports)]
    /\ UNCHANGED <<positions, offered, deleveraged>>

\* update_order does not ask for the state of the order.
UpdateOrderSize(o, size) ==
    /\ orders[o] # NoOrder /\ orders[o].kind \in Updatable
    /\ orders' = [orders EXCEPT ![o].size = size]
    /\ UNCHANGED <<positions, purse, created, offered, deleveraged>>

-----------------------------------------------------------------------------
(* Execution.                                                              *)

ExecutionLamports(fee, max) == Min({fee, max})

\* validate_non_empty_order.
NonEmpty(r) ==
    \/ r.amount # 0 \/ r.kind = "MarketDecrease"
    \/ r.size # 0 /\ r.kind \notin SwapKinds

\* How far a position of the size may be decreased by the order: as told, or
\* altogether when too little would remain.  A limit order is capped.
SizesAfterDecrease(size, delta, capped) ==
    IF size = 0 \/ (delta > size /\ ~capped) THEN {}
    ELSE {0, size - Min({delta, size})}

SizesAfter(r) ==
    IF ~NonEmpty(r) THEN {}
    ELSE LET size == positions[r.position].size
         IN  IF r.kind \in IncreasesPosition
               THEN {size + r.size} \cap 1 .. MaxSize
               ELSE SizesAfterDecrease(size, r.size, r.kind # "MarketDecrease")

\* close_position: what is left after the refund of the executor is the owner's.
Refunded(lamports, refund) == Min({lamports, refund})

RemovePosition(k, refund, executorPaid) ==
    LET held == positions[k].lamports
    IN  /\ positions' = [positions EXCEPT ![k] = NoPositionAccount]
        /\ purse' = [purse EXCEPT
             !["owner"] = @ + held - Refunded(held, refund),
             !["keeper"] = @ + Refunded(held, refund) + executorPaid]

KeepPosition(k, size, executorPaid) ==
    /\ positions' = [positions EXCEPT ![k].size = size]
    /\ purse' = [purse EXCEPT !["keeper"] = @ + executorPaid]

Settled(o, state, paid) ==
    orders' = [orders EXCEPT ![o].state = state, ![o].lamports = @ - paid]

PositionTouched(k, size, removed, paid) ==
    IF removed THEN RemovePosition(k, 0, paid) ELSE KeepPosition(k, size, paid)

\* An order completes, fails softly, or, a market order, has expired: a
\* failed execution removes a position that is empty.  A failure that is thrown changes nothing.
ExecuteOnPosition(o, fee) ==
    /\ orders[o] # NoOrder /\ orders[o].state = "pending"
    /\ LET r == orders[o]  paid == ExecutionLamports(fee, r.max)
       IN  /\ r.kind \notin SwapKinds
           /\ positions[r.position] # NoPositionAccount
           /\ offered' = offered + r.max
           /\ LET size == positions[r.position].size IN
              \/ \E after \in SizesAfter(r) :
                   /\ Settled(o, "completed", paid)
                   /\ PositionTouched(r.position, after, after = 0, paid)
              \/ /\ Settled(o, "cancelled", paid)
                 /\ PositionTouched(r.position, size, size = 0, paid)
              \/ /\ r.kind \in {"MarketIncrease", "MarketDecrease"}
                 /\ Settled(o, "cancelled", paid)
                 /\ KeepPosition(r.position, size, paid)
    /\ UNCHANGED <<created, deleveraged>>

ExecuteSwap(o, fee) ==
    /\ orders[o] # NoOrder /\ orders[o].state = "pending"
    /\ LET r == orders[o]  paid == ExecutionLamports(fee, r.max)
       IN  /\ r.kind \in SwapKinds
           /\ \/ NonEmpty(r) /\ Settled(o, "completed", paid)
              \/ Settled(o, "cancelled", paid)
           /\ purse' = [purse EXCEPT !["keeper"] = @ + paid]
           /\ offered' = offered + r.max
    /\ UNCHANGED <<positions, created, deleveraged>>

CancelOrderWithoutPosition(o) ==
    /\ orders[o] # NoOrder /\ orders[o].state = "pending"
    /\ orders[o].kind \notin SwapKinds /\ positions[orders[o].position] = NoPositionAccount
    /\ orders' = [orders EXCEPT ![o].state = "cancelled"]
    /\ UNCHANGED <<positions, purse, created, offered, deleveraged>>

-----------------------------------------------------------------------------
(* Position cuts.  The keeper pays for the order and its escrows.          *)

CutParams(kind, k, size) ==
    [kind |-> kind, position |-> k, size |-> size, amount |-> 0,
     lamports |-> MinExecutionLamports]

\* Mutant: the rent of every cut goes to the owner.
CutRentReceiverOwner(removed) == "owner"

\* A position that is removed has refunded the rent.
CutRentReceiver(removed) == IF removed THEN "owner" ELSE "keeper"

CutPosition(o, k, kind, delta, after, refund, fee) ==
    /\ orders[o] = NoOrder
    /\ Creates
    /\ LET paid == ExecutionLamports(fee, MinExecutionLamports)
           cost == OrderRent + Escrowed + MinExecutionLamports
       IN  /\ orders' = [orders EXCEPT ![o] =
                NewOrder(CutParams(kind, k, delta), "completed", CutRentReceiver(after = 0),
                         OrderRent + MinExecutionLamports - paid)]
           /\ IF after = 0 THEN RemovePosition(k, refund, paid - cost)
                           ELSE KeepPosition(k, after, paid - cost)

Liquidate(o, k, fee) ==
    /\ positions[k] # NoPositionAccount /\ positions[k].size # 0
    /\ CutPosition(o, k, "Liquidation", positions[k].size, 0, PositionCutRent(TRUE), fee)
    /\ offered' = offered + MinExecutionLamports
    /\ UNCHANGED deleveraged

\* The keeper is not refunded the execution fee.
AutoDeleverage(o, k, size, fee) ==
    /\ positions[k] # NoPositionAccount
    /\ LET delta == Min({size, positions[k].size})
       IN  /\ delta # 0
           /\ \E after \in SizesAfterDecrease(positions[k].size, delta, FALSE) :
                /\ CutPosition(o, k, "AutoDeleveraging", delta, after, PositionCutRent(FALSE), fee)
                /\ deleveraged' = deleveraged + (IF after = 0 THEN 1 ELSE 0)
    /\ UNCHANGED offered

\* By the owner, or by a keeper when there is an outcome.
ClosePositionOrder(o, byOwner) ==
    /\ orders[o] # NoOrder
    /\ byOwner \/ orders[o].state # "pending"
    /\ purse' = [purse EXCEPT ![orders[o].rentReceiver] =
                                  @ + orders[o].lamports + orders[o].escrowRent]
    /\ orders' = [orders EXCEPT ![o] = NoOrder]
    /\ UNCHANGED <<positions, created, offered, deleveraged>>

PositionOrdersNext ==
    \/ \E k \in PositionKeys : PreparePosition(k)
    \/ \E o \in OrderSlots :
         \/ \E p \in OrderParams : CreatePositionOrder(o, p)
         \/ \E size \in SizeUpdates : UpdateOrderSize(o, size)
         \/ CancelOrderWithoutPosition(o)
         \/ \E byOwner \in BOOLEAN : ClosePositionOrder(o, byOwner)
         \/ \E fee \in ExecutionFees :
              \/ ExecuteOnPosition(o, fee)
              \/ ExecuteSwap(o, fee)
              \/ \E k \in PositionKeys :
                   \/ Liquidate(o, k, fee)
                   \/ \E size \in CutSizes : AutoDeleverage(o, k, size, fee)

PositionOrdersSpec == PositionOrdersInit /\ [][PositionOrdersNext]_positionOrderVars

-----------------------------------------------------------------------------
\* Nobody pays for what another one does: counting what the accounts will
\* return when they are closed, the owner spends no more than the execution
\* lamports of the orders that were executed and of the liquidations, and the
\* keeper no more than the execution lamports of the orders by which
\* deleveraging removed a position, whatever the order of the cuts, failed
\* executions, closings and new positions (close_position, set_rent_receiver).
Returns(r, p) ==
    IF r # NoOrder /\ r.rentReceiver = p THEN r.lamports + r.escrowRent ELSE 0
Refunds(a) == IF a # NoPositionAccount THEN a.lamports ELSE 0
Worth(p) ==
    purse[p] + SumFunction([o \in OrderSlots |-> Returns(orders[o], p)])
     + (IF p = "owner" THEN SumFunction([k \in PositionKeys |-> Refunds(positions[k])]) ELSE 0)

CutsPaidForOnce ==
    /\ Worth("owner") + offered >= 0
    /\ Worth("keeper") + deleveraged * MinExecutionLamports >= 0
=============================================================================
