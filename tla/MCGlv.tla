------------------------------- MODULE MCGlv ---------------------------------
(* Three markets, in one of which a long position is open.                 *)
EXTENDS Glv, TLC

Flat(x) == [s \in BOOLEAN |-> x]
Both(l, s) == [t \in BOOLEAN |-> IF t THEN l ELSE s]

MCConfig ==
    [max_pnl_factor |-> Flat([k \in PnlFactorKinds |-> 8]),
     reserve_factor |-> 10, open_interest_reserve_factor |-> 9,
     max_pool_amount |-> Flat(300), max_pool_value_for_deposit |-> Flat(600),
     max_open_interest |-> Flat(100), ignore_open_interest_for_usage_factor |-> FALSE,
     borrowing |-> [receiver |-> 3, exponent |-> Flat(10), factor |-> Flat(1),
                    skip_smaller_side |-> FALSE],
     kink |-> Flat([optimal |-> 0, base |-> 0, above |-> 0]),
     distribute_factor |-> 0, min_position_impact_pool_amount |-> 1,
     funding |-> [exponent |-> 10, factor |-> 3, increase_factor |-> 2,
                  decrease_factor |-> 1, max_factor |-> 8, min_factor |-> 6,
                  threshold_for_stable |-> 3, threshold_for_decrease |-> 1],
     swap_impact |-> [exponent |-> 10, positive |-> 1, negative |-> 1],
     position_impact |-> [exponent |-> 10, positive |-> 0, negative |-> 0],
     swap_fee |-> [positive |-> 1, negative |-> 1, receiver |-> 4, discount |-> 0],
     order_fee |-> [positive |-> 1, negative |-> 1, receiver |-> 4, discount |-> 2],
     liquidation_fee |-> [factor |-> 1, receiver |-> 4],
     max_positive_position_impact_factor |-> 1,
     max_negative_position_impact_factor |-> 1,
     max_position_impact_factor_for_liquidations |-> 1,
     min_position_size_usd |-> 5, min_collateral_value |-> 3,
     min_collateral_factor |-> 1,
     min_collateral_factor_for_open_interest |-> Flat(0)]

Price(lo, hi) == [min |-> lo, max |-> hi]
Low == [index |-> Price(2, 2), long |-> Price(2, 2), short |-> Price(2, 2)]
High == [index |-> Price(3, 4), long |-> Price(3, 4), short |-> Price(2, 2)]
MCPriceSet == {High}

At(prices) == prices @@ [now |-> 1]
Opened(amount) ==
    Deposit(TransferIn(TransferIn(NewMarket(FALSE, 1), TRUE, amount[TRUE]),
                       FALSE, amount[FALSE]), At(Low), amount, SwapFeeParams("Deposit")).m

Traded(n) == Increase(TransferIn(n, FALSE, 20), At(Low), NewPosition(TRUE, FALSE), 20, 40).m

MCOpening == "a" :> Traded(Opened(Both(60, 60))) @@ "b" :> Opened(Both(60, 60))
             @@ "c" :> Opened(Both(30, 30))

MCGlvDeposits == {<<Both(2, 2), 0, 0>>, <<Both(0, 10), 30, 10>>}
MCCaps == {<<50, 80>>}
MCParams == <<[first |-> 10, interval |-> 1, impact |-> 3, value |-> 2],
              [first |-> 10, interval |-> 0, impact |-> 1, value |-> 2]>>
=============================================================================
