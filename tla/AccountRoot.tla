---------------------------- MODULE AccountRoot ----------------------------
(***************************************************************************)
(* What the transactors share about an account: the reserve its owner      *)
(* count calls for, how the owner count is adjusted, what of the balance   *)
(* may be spent, and the rounding of transfer rates.  Amounts are whole    *)
(* drops.  Amendments are taken as enabled.  The fee, which Transactor     *)
(* takes before doApply, is left out of the modules of single transactors. *)
(***************************************************************************)
EXTENDS Integers, FiniteSets, FiniteSetsExt

CONSTANTS Base, Increment     \* reserve of an account and of an object

AccountReserve(count) == Base + count * Increment

\* Owner counts never go below zero.
ConfineOwnerCount(count, adjustment) ==
    IF count + adjustment < 0 THEN 0 ELSE count + adjustment

XrpLiquid(balance, count) ==
    IF balance < AccountReserve(count) THEN 0 ELSE balance - AccountReserve(count)

\* Rates are in units of Parity; an amount divided by a rate is rounded up.
Parity == 10
DivideRound(amount, rate) == (amount * Parity + rate - 1) \div rate
MultiplyRound(amount, rate) == (amount * rate + Parity - 1) \div Parity

\* Products of whole amounts and rates go through Number, nearest, even on a
\* tie; quotients get a trifle added first, so that a tie goes up.
NearestEven(n, d) ==
    LET q == n \div d
        r == n % d
    IN  IF 2 * r > d \/ (2 * r = d /\ q % 2 = 1) THEN q + 1 ELSE q
Multiply(amount, rate) == NearestEven(amount * rate, Parity)
Divide(amount, rate) == (2 * amount * Parity + rate) \div (2 * rate)

SumOver(S, f(_)) == FoldSet(LAMBDA x, n : n + f(x), 0, S)
=============================================================================
