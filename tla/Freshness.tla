------------------------------ MODULE Freshness ------------------------------
(***************************************************************************)
(* The time arithmetic of the verifier: `now_secs`, the proof's freshness  *)
(* window, `replay_ttl` and the access token's temporal claims.  Clocks    *)
(* count ticks, TicksPerSec to the second; claims count whole seconds in   *)
(* an i64, whose largest value is MaxInt; the settings are u64s of the     *)
(* same width.  Arithmetic wraps, as it does in a release build.           *)
(***************************************************************************)
EXTENDS Integers

CONSTANTS MaxAge,       \* DPOP_PROOF_MAX_AGE_SECS
          Tolerance,    \* clock_tolerance_secs
          TicksPerSec,  \* resolution of the clocks below one second
          MaxInt        \* i64::MAX

\* The number of values of a u64 or an i64.
Modulus == 2 * (MaxInt + 1)

ASSUME FreshnessAssumptions ==
  /\ TicksPerSec \in Nat \ {0}
  /\ MaxInt \in Nat
  /\ MaxAge \in 0 .. Modulus - 1 /\ Tolerance \in 0 .. Modulus - 1

MinInt == -MaxInt - 1

\* An i64 operation's result; and the cast `as i64` of a u64.
Wrap(x) ==
  IF x > MaxInt THEN x - Modulus ELSE IF x < MinInt THEN x + Modulus ELSE x

\* i64 subtraction.
WrappingSub(a, b) == Wrap(a - b)

\* i64::abs: MinInt has no positive counterpart and stays as it is.
WrappingAbs(x) == IF x < 0 /\ x # MinInt THEN -x ELSE x

\* `now_secs()`: the wall clock cut to whole seconds.
NowSecs(wall) == wall \div TicksPerSec

\* A u64 operation's result.
WrapU64(x) == IF x >= Modulus THEN x - Modulus ELSE x

\* `DPOP_PROOF_MAX_AGE_SECS + clock_tolerance_secs`, in seconds.
HalfWidth == WrapU64(MaxAge + Tolerance)

\* The same `as i64`: the window of the freshness check.
Window == Wrap(HalfWidth)

\* `(now - iat).abs() > window` rejects.
IsFresh(iat, secs) == WrappingAbs(WrappingSub(secs, iat)) <= Window

\* Bug variant of ReplayTtl: without the margin for the truncated second.
ReplayTtl_noMargin == WrapU64(2 * HalfWidth) * TicksPerSec

\* `replay_ttl()`, in ticks.
ReplayTtl == WrapU64(2 * HalfWidth + 1) * TicksPerSec

\* `check_temporal`, for a token that carries exp and iat; nbf is optional.
NoNbf == MinInt

TokenTimely(exp, nbf, iat, secs) ==
  LET tol == Wrap(Tolerance) IN
  /\ WrappingSub(secs, tol) <= exp
  /\ nbf # NoNbf => Wrap(secs + tol) >= nbf
  /\ WrappingSub(iat, tol) <= secs
=============================================================================
