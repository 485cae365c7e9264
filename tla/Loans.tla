-------------------------------- MODULE Loans --------------------------------
(***************************************************************************)
(* common/amortization.py and common/loan_solver.py: level-payment loans.   *)
(* A rate is a fraction per payment period; the level payment is a fraction *)
(* that is never rounded, and what is booked of it each month is.           *)
(***************************************************************************)
EXTENDS Money, Sequences

CONSTANTS
    MaxPlausibleRate,     \* MAX_PLAUSIBLE_APR, taken per period
    MaxPlausibleTerm      \* MAX_PLAUSIBLE_TERM_MONTHS

\* level_payment.
LevelPayment(principal, rate, periods) ==
    IF rate.num = 0 THEN [num |-> principal, den |-> periods]
    ELSE LET grown == (rate.den + rate.num) ^ periods
         IN  [num |-> principal * rate.num * grown,
              den |-> rate.den * (grown - rate.den ^ periods)]

\* The balance after so many periods at a fixed payment, times rate.den ^ periods and the
\* payment's denominator: what is owed grows and the payment is taken off.
Stepped(balance, rate, payment, periods) ==
    LET f[n \in 0 .. periods] ==
            IF n = 0 THEN balance * payment.den
            ELSE f[n - 1] * (rate.den + rate.num) - payment.num * rate.den ^ n
    IN  f[periods]

\* periods_to_repay, capped; 0 when the payment does not retire the balance in time.
PeriodsToRepay(balance, rate, payment, cap) ==
    LET clears(n) == Stepped(balance, rate, payment, n) <= 0
    IN  IF payment.num <= 0 \/ payment.num * rate.den <= balance * rate.num * payment.den THEN 0
        ELSE IF \E n \in 1 .. cap : clears(n)
             THEN CHOOSE n \in 1 .. cap : clears(n) /\ \A m \in 1 .. n - 1 : ~clears(m)
             ELSE 0

\* balance_after: a fixed payment, never below zero.
BalanceAfter(principal, rate, payment, periods) ==
    IF \E n \in 1 .. periods : Stepped(principal, rate, payment, n) <= 0 THEN 0
    ELSE Quantize(Stepped(principal, rate, payment, periods), payment.den * rate.den ^ periods)

\* remaining_balance: clamped to the life of the loan.
RemainingBalance(principal, rate, periods, elapsed) ==
    IF elapsed <= 0 THEN principal
    ELSE IF elapsed >= periods THEN 0
    ELSE LET payment == LevelPayment(principal, rate, periods)
         IN  Quantize(Stepped(principal, rate, payment, elapsed), payment.den * rate.den ^ elapsed)

\* present_value: what a payment retires over the periods.
PresentValue(payment, rate, periods) ==
    IF periods <= 0 THEN 0
    ELSE IF rate.num = 0 THEN Quantize(payment.num * periods, payment.den)
    ELSE LET grown == (rate.den + rate.num) ^ periods
         IN  Quantize(payment.num * rate.den * (grown - rate.den ^ periods),
                      payment.den * rate.num * grown)

\* resolved_term: the whole number of periods a payment implies, 0 if implausible.
ResolvedTerm(balance, rate, payment) ==
    IF balance <= 0 THEN 0 ELSE PeriodsToRepay(balance, rate, payment, MaxPlausibleTerm)

\* plausible_rate_from_payment: a payment that repays at all, at a rate not above the ceiling.
PaymentIsPlausible(balance, payment, periods) ==
    /\ payment.num * periods >= balance * payment.den
    /\ LET level == LevelPayment(balance, MaxPlausibleRate, periods)
       IN  payment.num * level.den <= level.num * payment.den
-----------------------------------------------------------------------------
(* Forecast._amortize_months: the months an interval spans, one by one. *)

AmortizeMonth(term, rate, payment, extra) ==
    IF term.balance <= 0 THEN term
    ELSE LET interest  == ChangeOn(rate, term.balance)
             principal == Lesser(Greater(0, Quantize(payment.num - interest * payment.den, payment.den)),
                                 term.balance)
             more      == Lesser(extra, term.balance - principal)
         IN  [balance   |-> term.balance - principal - more,
              interest  |-> term.interest + interest,
              principal |-> term.principal + principal + more]

AmortizeMonths(opening, rate, payment, extra, months) ==
    LET f[n \in 0 .. months] ==
            IF n = 0 THEN [balance |-> opening, interest |-> 0, principal |-> 0]
            ELSE AmortizeMonth(f[n - 1], rate, payment, extra)
    IN  f[months]
=============================================================================
