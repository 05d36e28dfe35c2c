---------------------------- MODULE MCPerpMarket -----------------------------
(* One market: small pools, two or three prices, up to MaxOps executions.  *)
EXTENDS PerpMarket

Flat(x) == [s \in BOOLEAN |-> x]

MCConfig ==
    [max_pnl_factor |-> Flat([k \in PnlFactorKinds |->
          CASE k = "MinAfterAdl" -> 0 [] k = "ForAdl" -> 1 [] k = "MaxForTrader" -> 4
            [] OTHER -> 8]),
     reserve_factor |-> 10, open_interest_reserve_factor |-> 9,
     max_pool_amount |-> Flat(200), max_pool_value_for_deposit |-> Flat(400),
     max_open_interest |-> Flat(100), ignore_open_interest_for_usage_factor |-> FALSE,
     borrowing |-> [receiver |-> 3, exponent |-> Flat(10), factor |-> Flat(2),
                    skip_smaller_side |-> FALSE],
     kink |-> [s \in BOOLEAN |-> IF s THEN [optimal |-> 5, base |-> 2, above |-> 5]
                                 ELSE [optimal |-> 0, base |-> 0, above |-> 0]],
     distribute_factor |-> 5, min_position_impact_pool_amount |-> 1,
     funding |-> [exponent |-> 10, factor |-> 3, increase_factor |-> 2,
                  decrease_factor |-> 1, max_factor |-> 8, min_factor |-> 6,
                  threshold_for_stable |-> 3, threshold_for_decrease |-> 1],
     swap_impact |-> [exponent |-> 10, positive |-> 1, negative |-> 2],
     position_impact |-> [exponent |-> 10, positive |-> 1, negative |-> 2],
     swap_fee |-> [positive |-> 1, negative |-> 2, receiver |-> 4, discount |-> 0],
     order_fee |-> [positive |-> 1, negative |-> 1, receiver |-> 4, discount |-> 2],
     liquidation_fee |-> [factor |-> 1, receiver |-> 4],
     max_positive_position_impact_factor |-> 1,
     max_negative_position_impact_factor |-> 1,
     max_position_impact_factor_for_liquidations |-> 1,
     min_position_size_usd |-> 5, min_collateral_value |-> 3,
     min_collateral_factor |-> 1,
     min_collateral_factor_for_open_interest |-> Flat(0)]

Price(lo, hi) == [min |-> lo, max |-> hi]

Low == [index |-> Price(2, 2), long |-> Price(2, 2), short |-> Price(2, 2)]
High == [index |-> Price(3, 4), long |-> Price(3, 4), short |-> Price(2, 2)]
PureHigh == [High EXCEPT !.short = Price(3, 4)]
MCPriceSets == [pure \in BOOLEAN |-> IF pure THEN {Low, PureHigh} ELSE {Low, High}]
MCFirstPrices == [pure \in BOOLEAN |-> {Low}]
Both(l, s) == [t \in BOOLEAN |-> IF t THEN l ELSE s]
MCDeposits == {Both(10, 5)}

MCFirstDeposit == Both(30, 30)
MCKinds == [pure \in BOOLEAN |-> IF pure THEN {<<TRUE, TRUE, "trader">>, <<FALSE, TRUE, "trader">>}
                                 ELSE {<<TRUE, FALSE, "trader">>, <<FALSE, FALSE, "trader">>}]
=============================================================================
