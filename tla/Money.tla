-------------------------------- MODULE Money --------------------------------
(***************************************************************************)
(* The money scale of ucfp/accounts/money_utils.py.  The source holds       *)
(* Decimals quantized to five places; here money is an integer count of     *)
(* that smallest unit, and an amount that is off the scale (a rate times a  *)
(* balance, an inflated bound) is a fraction n/d that one of the two        *)
(* rounding rules brings back onto it.                                      *)
(***************************************************************************)
EXTENDS Integers

Lesser(a, b)  == IF a <= b THEN a ELSE b
Greater(a, b) == IF a >= b THEN a ELSE b

\* quantize_money( n/d ): ROUND_HALF_UP, which rounds a tie away from zero.
Quantize(n, d) == IF n >= 0 THEN (2 * n + d) \div (2 * d)
                            ELSE -((2 * (-n) + d) \div (2 * d))

\* Mutant of RoundUp: toward -infinity.
RoundDown(n, d) == n \div d

\* round_money_up( n/d ): ROUND_CEILING, toward +infinity.
RoundUp(n, d) == -((-n) \div d)

\* Rate.change_on( amount ), quantized; a rate is a fraction [num, den].
ChangeOn(rate, amount) == Quantize(rate.num * amount, rate.den)
=============================================================================
