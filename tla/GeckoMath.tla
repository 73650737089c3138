------------------------------- MODULE GeckoMath -------------------------------
(***************************************************************************)
(* The integer arithmetic of the gecko-vault program: u64 token amounts,   *)
(* u16 basis points and the checked operations that make an instruction    *)
(* fail instead of wrapping.  BPS_DENOMINATOR and DEFAULT_FEE_BPS have the *)
(* values of constants.rs; only the width of a u64 is a parameter, because *)
(* TLC cannot count to 2^64.                                               *)
(***************************************************************************)
EXTENDS Integers

CONSTANT MAX_U64   \* u64::MAX, 2^64 - 1 in the program

ASSUME MaxU64Assumption == MAX_U64 \in Nat

BPS_DENOMINATOR == 10000
DEFAULT_FEE_BPS == 200

U64 == 0..MAX_U64

\* The value of a checked u64 operation on natural numbers exists.
FitsU64(n) == n <= MAX_U64

\* `amount.checked_mul(bps)?.checked_div(BPS_DENOMINATOR)?`: the guard is the
\* checked multiplication, the value rounds down.
BpsFits(amount, bps) == FitsU64(amount * bps)
BpsOf(amount, bps)   == (amount * bps) \div BPS_DENOMINATOR
================================================================================
