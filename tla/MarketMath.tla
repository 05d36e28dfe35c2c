----------------------------- MODULE MarketMath ------------------------------
(***************************************************************************)
(* The fixed-point arithmetic of the market model (crates/gmsol-model:     *)
(* num.rs, fixed.rs, utils.rs, price.rs, pool/delta.rs, params/).          *)
(*                                                                         *)
(* A factor is a number of Unit-ths; Unit is MARKET_USD_UNIT, 10^20 in the *)
(* program.  Rounding is the program's: \div rounds the unsigned numbers   *)
(* down, and what a caller rounds up or towards zero has an operator of    *)
(* its own.  Widths are not modelled: the program's checked operations     *)
(* fail far above the numbers of any instance.                             *)
(***************************************************************************)
EXTENDS Integers

CONSTANT Unit

ASSUME UnitAssumption == Unit \in Nat \ {0}

Least(a, b) == IF a <= b THEN a ELSE b
Greatest(a, b) == IF a >= b THEN a ELSE b
Magnitude(x) == IF x < 0 THEN -x ELSE x

(* Signed division of Rust: towards zero.                                  *)
TruncDiv(a, b) == IF a < 0 THEN -((-a) \div b) ELSE a \div b

(* checked_round_up_div, and its signed form, which rounds the magnitude.  *)
CeilDiv(a, b) == (a + b - 1) \div b
CeilMagnitudeDiv(a, b) == IF a < 0 THEN -CeilDiv(-a, b) ELSE CeilDiv(a, b)

(* checked_mul_div, _ceil, and with a signed numerator n.                  *)
MulDiv(a, n, d) == (a * n) \div d
MulDivCeil(a, n, d) == CeilDiv(a * n, d)
MulDivSigned(a, n, d) == TruncDiv(a * n, d)

(* Unsigned::bound_magnitude, for lo <= hi.                                *)
BoundMagnitude(x, lo, hi) ==
    LET b == Least(Greatest(Magnitude(x), lo), hi) IN IF x < 0 THEN -b ELSE b

ApplyFactor(x, factor) == MulDiv(x, factor, Unit)

(* div_to_factor and div_to_factor_signed.                                 *)
DivToFactor(x, d) == IF d = 0 THEN 0 ELSE TruncDiv(x * Unit, d)

(* checked_pow_fixed for exponents that are multiples of Unit; the others  *)
(* are computed by a decimal library.                                      *)
PowFixed(x, exponent) ==
    LET times == exponent \div Unit
        pow[n \in 0..times] == IF n = 0 THEN Unit ELSE MulDiv(pow[n - 1], x, Unit)
    IN  pow[times]

(* apply_exponent_factor: values below one unit count as zero.             *)
ApplyExponentFactor(x, exponent) ==
    IF x < Unit THEN 0 ELSE IF x = Unit THEN Unit ELSE PowFixed(x, exponent)

ApplyFactors(x, factor, exponent) ==
    ApplyFactor(ApplyExponentFactor(x, exponent), factor)

-----------------------------------------------------------------------------
(* Price: a pair of bounds.                                                *)
PickPrice(price, maximize) == IF maximize THEN price.max ELSE price.min

PickPriceForPnl(price, isLong, maximize) == PickPrice(price, isLong = maximize)

Mid(price) == (price.min + price.max) \div 2

ValidPrice(price) == price.min # 0 /\ price.max # 0

-----------------------------------------------------------------------------
(* PriceImpactParams::adjusted_factors: the positive factor is never the   *)
(* larger one.                                                             *)
PositiveFactor(params) == Least(params.positive, params.negative)

(* PoolDelta::price_impact.  cur and next map each side to its value; the  *)
(* impact is positive when the sides come closer.                          *)
ImpactOfDiff(diff, factor, params) == ApplyFactors(diff, factor, params.exponent)

SideDiff(v) == Magnitude(v[TRUE] - v[FALSE])

SameSideImpact(cur, next, params) ==
    LET positive == SideDiff(next) < SideDiff(cur)
        factor == IF positive THEN PositiveFactor(params) ELSE params.negative
        size == Magnitude(  ImpactOfDiff(SideDiff(cur), factor, params)
                          - ImpactOfDiff(SideDiff(next), factor, params))
    IN  IF positive THEN size ELSE -size

CrossOverImpact(cur, next, params) ==
      ImpactOfDiff(SideDiff(cur), PositiveFactor(params), params)
    - ImpactOfDiff(SideDiff(next), params.negative, params)

PriceImpact(cur, next, params) ==
    IF (cur[TRUE] <= cur[FALSE]) = (next[TRUE] <= next[FALSE])
    THEN SameSideImpact(cur, next, params)
    ELSE CrossOverImpact(cur, next, params)
=============================================================================
