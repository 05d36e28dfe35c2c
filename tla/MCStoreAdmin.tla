---------------------------- MODULE MCStoreAdmin ----------------------------
(* The permissions of three keys over two roles, the referrals of three    *)
(* people, the oracle of a market with a synthetic index, the configuration *)
(* of that market, what its traders may claim, and the orders on a          *)
(* position.  The six share no state: a behaviour is about one of them.     *)
EXTENDS StoreRoles, Referrals, Oracle, MarketConfig, Claimables, PositionOrders
CONSTANTS ann, bob, cid, c1, c2, c3, btc, usd, fa, fb
VARIABLE about

MCKeyOf == [r \in Roles |-> CASE r = "ORDER_KEEPER" -> 1
                              [] r = "RESTART_ADMIN" -> 2
                              [] OTHER -> 3]
MCLegacy == c1 :> ann
PeopleSymmetry == Permutations({bob, cid})

\* The index has a price feed of the store, the token of the pools a feed of
\* Pyth whose timestamps are adjusted by one second.
MCConfig == (btc :> [enabled |-> TRUE, synthetic |-> TRUE, provider |-> "ChainlinkDataStreams",
                     feeds |-> [p \in Providers |-> [feed |-> fa, adjustment |-> 0]],
                     decimals |-> 0, precision |-> 1, heartbeat |-> 2]) @@
            (usd :> [enabled |-> TRUE, synthetic |-> FALSE, provider |-> "Pyth",
                     feeds |-> [p \in Providers |-> [feed |-> fb, adjustment |-> 1]],
                     decimals |-> 1, precision |-> 0, heartbeat |-> 1])
MCInitialTokens == {{usd}, {btc, usd}}
MCAmounts == [request_expiration |-> 1, oracle_max_age |-> 2, oracle_max_timestamp_range |-> 1,
              oracle_max_future_timestamp_excess |-> 0, adl_prices_max_staleness |-> 0]
MCConfigChoices == {MCConfig[btc], [MCConfig[usd] EXCEPT !.precision = 1]}
MCFeedChoices == {[feed |-> fb, adjustment |-> 0], [feed |-> NoFeed, adjustment |-> 0]}

\* Two of the reports do not fit the price feed without losing a digit.
Report(bid, price, ask) == [bid |-> bid, price |-> price, ask |-> ask, decimals |-> 2]
MCQuote == (fa :> (0 :> Report(995, 1004, 1012) @@ 1 :> Report(1208, 1211, 1219)
                   @@ 2 :> Report(871, 871, 883))) @@
           (fb :> [ts \in 0..2 |-> Report(97 + ts, 101, 103)])

MCListings == {[index |-> btc, long |-> usd, short |-> usd]}
MCDefaultConfig == [key \in ConfigKeys |-> 1]

\* Of the orders to create, the last is refused for its missing minimum output.
Params(kind, size, trigger, minOutput) ==
    [kind |-> kind, position |-> "long", size |-> size, amount |-> 1, trigger |-> trigger,
     minOutput |-> minOutput, lamports |-> 2]
MCOrderParams == {Params("MarketIncrease", 2, -1, -1), Params("LimitDecrease", 3, 5, -1),
                  Params("MarketDecrease", 1, -1, -1), Params("LimitSwap", 0, -1, 1),
                  Params("LimitSwap", 0, -1, 0)}

Init == /\ about \in {"roles", "referrals", "oracle", "markets", "claims", "orders"}
        /\ StoreRolesInit
        /\ ReferralsInit
        /\ OracleInit
        /\ about # "oracle" => DOMAIN tokenMap = Tokens
        /\ MarketConfigInit
        /\ ClaimablesInit
        /\ PositionOrdersInit
Next == \/ /\ about = "roles" /\ StoreRolesNext
           /\ UNCHANGED <<about, referralVars, oracleVars, marketConfigVars, claimVars, positionOrderVars>>
        \/ /\ about = "referrals" /\ ReferralsNext
           /\ UNCHANGED <<about, storeVars, oracleVars, marketConfigVars, claimVars, positionOrderVars>>
        \/ /\ about = "oracle" /\ OracleNext
           /\ UNCHANGED <<about, storeVars, referralVars, marketConfigVars, claimVars, positionOrderVars>>
        \/ /\ about = "markets" /\ MarketConfigNext
           /\ UNCHANGED <<about, storeVars, referralVars, oracleVars, claimVars, positionOrderVars>>
        \/ /\ about = "claims" /\ ClaimablesNext
           /\ UNCHANGED <<about, storeVars, referralVars, oracleVars, marketConfigVars, positionOrderVars>>
        \/ /\ about = "orders" /\ PositionOrdersNext
           /\ UNCHANGED <<about, storeVars, referralVars, oracleVars, marketConfigVars, claimVars>>
Spec ==
    Init /\ [][Next]_<<about, storeVars, referralVars, oracleVars, marketConfigVars, claimVars,
                       positionOrderVars>>
=============================================================================
