---------------------------- MODULE ClearingMath ----------------------------
(***************************************************************************)
(* The integer helpers of move/sources/clearing.move and the scales it     *)
(* converts with.  Products are taken in u128, which the bounds of a run   *)
(* never leave; what must fit in u64 is tested with fits_u64 where the     *)
(* code aborts with EOverflow.                                             *)
(***************************************************************************)
EXTENDS Integers, Sequences, FiniteSetsExt

CONSTANTS
    PRICE_SCALE,     \* a limit price is quote per PRICE_SCALE base
    BPS_DENOMINATOR, \* denominator of the matched fee
    MAX_U64          \* the largest u64

ASSUME ScaleAssumption ==
    PRICE_SCALE \in Nat \ {0} /\ BPS_DENOMINATOR \in Nat \ {0} /\ MAX_U64 \in Nat

floor_mul_div(a, b, c) == (a * b) \div c

ceil_mul_div(a, b, c) == (a * b + c - 1) \div c

min_u64(a, b) == IF a < b THEN a ELSE b

abs_diff_u64(a, b) == IF a >= b THEN a - b ELSE b - a

fits_u64(n) == n <= MAX_U64

(* The sum of f(i) over a finite set of indices: every accumulation loop.   *)
total_over(I, f(_)) == SumFunctionOnSet([i \in I |-> f(i)], I)

(* What the buyer pays (rounded up) and what the seller is credited: the    *)
(* proceeds rounded down, less the matched fee on them, rounded down.       *)
quote_of_bid(base, p) == ceil_mul_div(base, p, PRICE_SCALE)

\* Mutant: the seller is rounded up as the buyer is.
quote_of_ask_up(base, p, fee_bps) ==
    LET gross == ceil_mul_div(base, p, PRICE_SCALE)
    IN  gross - floor_mul_div(gross, fee_bps, BPS_DENOMINATOR)

quote_of_ask(base, p, fee_bps) ==
    LET gross == floor_mul_div(base, p, PRICE_SCALE)
    IN  gross - floor_mul_div(gross, fee_bps, BPS_DENOMINATOR)
=============================================================================
