---------------------------- MODULE PriceDecimal ----------------------------
(***************************************************************************)
(* The compact prices of the store (gmsol-utils price/): a price is kept    *)
(* as a value of 32 bits and a power of ten, so that                        *)
(*     value * 10^decimal_multiplier                                        *)
(* is the price of one unit of the token with MAX_DECIMALS decimals.        *)
(* Every provider's quote goes through TryFromPrice on its way in.          *)
(***************************************************************************)
EXTENDS Integers, FiniteSetsExt

CONSTANTS MaxDecimals,      \* MAX_DECIMALS, 20 in the code
          ValueLimit,       \* 2^32, the values of a u32
          PriceLimit        \* 2^128, the values of a u128

ASSUME PriceDecimalAssumption ==
    /\ MaxDecimals \in Nat
    /\ ValueLimit \in Nat \ {0}
    /\ PriceLimit \in Nat \ {0}

\* The error of every conversion below.
PriceError == [value |-> -1, decimal_multiplier |-> 0]
IsPrice(decimal) == decimal # PriceError

DecimalMultiplierFromPrecision(decimals, precision) == MaxDecimals - decimals - precision

ToUnitPrice(decimal) == decimal.value * 10^decimal.decimal_multiplier

WithinMaxDecimals(decimals, tokenDecimals, precision) ==
    /\ decimals <= MaxDecimals
    /\ tokenDecimals + precision <= MaxDecimals

\* The price with the decimals of the token; a price with more decimals
\* stays as it is and is divided later (divisor_exp).
ScaleUp(price, decimals, tokenDecimals) ==
    IF decimals < tokenDecimals THEN price * 10^(tokenDecimals - decimals) ELSE price
DivisorExp(decimals, tokenDecimals) == Max({0, decimals - tokenDecimals})

\* `up` is MAX_DECIMALS - multiplier, which is precision - token_decimals.
ScaleWithoutDivisor(price, up, divisor) ==
    IF up >= 0 THEN price * 10^up ELSE (price \div 10^(-up)) \div 10^divisor
ScaleToPrecision(price, up, divisor) ==
    IF up >= 0
    THEN IF up >= divisor THEN price * 10^(up - divisor) ELSE price \div 10^(divisor - up)
    ELSE (price \div 10^(-up)) \div 10^divisor

\* `value as u32`: the conversion keeps the low bits of what does not fit.
AsU32(value) == value % ValueLimit

TryFromPrice(price, decimals, tokenDecimals, precision) ==
    LET scaled == ScaleUp(price, decimals, tokenDecimals)
        value == ScaleToPrecision(scaled, precision - tokenDecimals,
                                  DivisorExp(decimals, tokenDecimals))
    IN IF /\ WithinMaxDecimals(decimals, tokenDecimals, precision)
          /\ scaled < PriceLimit
          /\ value < PriceLimit
       THEN [value |-> AsU32(value),
             decimal_multiplier |-> DecimalMultiplierFromPrecision(tokenDecimals, precision)]
       ELSE PriceError

\* find_divisor_decimals: how many digits a number of a report has to lose to
\* fit the u128 of a price feed.
PowerBounds == {(PriceLimit - 1) * 10^k : k \in 0..(MaxDecimals - 1)}
FindDivisorDecimals(num) == Cardinality({bound \in PowerBounds : num > bound})

\* A report [bid, price, ask, decimals] of Chainlink Data Streams as the price
\* feed stores it.
ValidReport(report) ==
    /\ report.ask >= report.price
    /\ report.price >= report.bid
    /\ report.decimals >= FindDivisorDecimals(report.ask)
FromChainlinkReport(report) ==
    LET k == FindDivisorDecimals(report.ask)
    IN [min |-> report.bid \div 10^k, max |-> report.ask \div 10^k,
        decimals |-> report.decimals - k]

\* Pyth: the price minus and plus its confidence; a positive exponent is
\* multiplied in.
PythValueToDecimals(value, exponent) ==
    [value    |-> IF exponent <= 0 THEN value ELSE value * 10^exponent,
     decimals |-> Max({0, -exponent})]
FromPyth(price, confidence, exponent) ==
    LET min == PythValueToDecimals(price - confidence, exponent)
        max == PythValueToDecimals(price + confidence, exponent)
    IN [min |-> min.value, max |-> max.value, decimals |-> min.decimals]

\* Chainlink data feeds: one answer, which is both sides.
FromRound(answer, decimals) == [min |-> answer, max |-> answer, decimals |-> decimals]

\* The two sides of a quote in the unit and precision of the token.
ToPrice(quote, tokenDecimals, precision) ==
    [min |-> TryFromPrice(quote.min, quote.decimals, tokenDecimals, precision),
     max |-> TryFromPrice(quote.max, quote.decimals, tokenDecimals, precision)]

\* SmallPrices::from_price: what the price map of the oracle accepts.
FitsPriceMap(price) ==
    /\ IsPrice(price.min) /\ IsPrice(price.max)
    /\ price.min.decimal_multiplier = price.max.decimal_multiplier
    /\ price.min.value # 0
    /\ price.max.value >= price.min.value
SmallPrices(price, isSynthetic) ==
    [decimal_multiplier |-> price.min.decimal_multiplier, synthetic |-> isSynthetic,
     min |-> price.min.value, max |-> price.max.value]
SmallUnitPrice(small, side) ==
    ToUnitPrice([value |-> small[side], decimal_multiplier |-> small.decimal_multiplier])
-----------------------------------------------------------------------------
(* Reference: the price of one unit, with MAX_DECIMALS decimals, that a      *)
(* quote stands for, and the part of it below the precision of the token.    *)

UnitsOf(tokenDecimals, precision) == 10^DecimalMultiplierFromPrecision(tokenDecimals, precision)
QuoteAbove(unitPrice, price, decimals, tokenDecimals, precision) ==
    /\ unitPrice * 10^(tokenDecimals + decimals) <= price * 10^MaxDecimals
    /\ price * 10^MaxDecimals
         < (unitPrice + UnitsOf(tokenDecimals, precision)) * 10^(tokenDecimals + decimals)
=============================================================================
