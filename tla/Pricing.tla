------------------------------ MODULE Pricing ------------------------------
(***************************************************************************)
(* The rate card of sdk/src/pricing.ts: a quantity becomes an amount, once *)
(* and in integers.  A call that throws is priced Unpriced.                *)
(***************************************************************************)
EXTENDS Integers, Sequences, FiniteSetsExt, Functions

CONSTANT U64_MAX    \* the largest amount the chain takes

ASSUME PricingAssumption == U64_MAX \in Nat

Rounding == {"ceil", "floor", "half_up"}
Meter == [priceNum : Int, priceDen : Int, units : Int, includedQty : Int,
          minCharge : Int, rounding : Rounding]
Unpriced == -1

roundDiv(a, b, mode) ==
    CASE mode = "floor"   -> a \div b
      [] mode = "half_up" -> (2 * a + b) \div (2 * b)
      [] mode = "ceil"    -> (a + b - 1) \div b

\* A card maps the keys of its meters to the meters.
validRateCard(card) ==
    /\ DOMAIN card # {}
    /\ \A k \in DOMAIN card :
        /\ card[k] \in Meter
        /\ card[k].priceDen > 0 /\ card[k].units > 0
        /\ card[k].priceNum >= 0 /\ card[k].includedQty >= 0 /\ card[k].minCharge >= 0

\* The included quantity is free, and the minimum is for billed usage only.
priceUsage(card, key, qty) ==
    IF key \notin DOMAIN card \/ qty < 0 THEN Unpriced
    ELSE LET m == card[key]
             raw == roundDiv((qty - m.includedQty) * m.priceNum, m.priceDen * m.units, m.rounding)
             amount == IF raw > m.minCharge THEN raw ELSE m.minCharge
         IN  IF qty <= m.includedQty THEN 0
             ELSE IF amount > U64_MAX THEN Unpriced ELSE amount

\* Each line is rounded by itself; a line that throws, throws the whole.
priceUsageMulti(card, items) ==
    LET prices == [i \in DOMAIN items |-> priceUsage(card, items[i].key, items[i].qty)]
        total == SumFunction(prices)
    IN  IF (\E i \in DOMAIN items : prices[i] = Unpriced) \/ total > U64_MAX
        THEN Unpriced ELSE total

-----------------------------------------------------------------------------
\* What rounding means: r is num / den in whole coins.
RoundsTo(r, num, den, mode) ==
    CASE mode = "floor"   -> r * den <= num /\ num < (r + 1) * den
      [] mode = "ceil"    -> (r - 1) * den < num /\ num <= r * den
      [] mode = "half_up" -> (2 * r - 1) * den <= 2 * num /\ 2 * num < (2 * r + 1) * den

\* What the card says of a line: free within the included quantity, then the
\* exact price rounded as the meter says, and at least the minimum.
FairLine(card, item, amount) ==
    LET m == card[item.key]
        num == (item.qty - m.includedQty) * m.priceNum
        den == m.priceDen * m.units
    IN  IF item.qty <= m.includedQty THEN amount = 0
        ELSE /\ amount >= m.minCharge /\ num < (amount + 1) * den
             /\ amount = m.minCharge \/ RoundsTo(amount, num, den, m.rounding)
=============================================================================
