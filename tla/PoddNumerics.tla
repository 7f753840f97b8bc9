---------------------------- MODULE PoddNumerics ----------------------------
(***************************************************************************)
(* Fixed-point versions of the two libm functions the PoDD verifier calls:  *)
(* std::exp in DeviceFingerprint::CalculateSimilarity and std::log2 in     *)
(* Impl::CalculateTimingEntropy.  TLC has 32-bit integers only, so both    *)
(* are computed in scaled integer arithmetic:                              *)
(*   ExpNeg(d, k)   = round-down of ExpScale * e^(-d/k)                    *)
(*   Log2Fixed(x)   = round-down of LogScale * log2(x), x a positive int   *)
(* Their accuracy (a few units of the scale) is what MCPoddNumerics checks *)
(* against the defining identities of the two functions.                   *)
(***************************************************************************)
EXTENDS Integers

ExpScale == 10000
LogScale == 16384   \* 2^14: y*y of a mantissa in [1,2) stays below 2^31

(***************************************************************************)
(* e^(-q/ExpScale) for 0 <= q < ExpScale, summed from its Taylor series;   *)
(* a term is dropped once it rounds to zero.                               *)
(***************************************************************************)
ExpNegFrac(q) ==
  LET RECURSIVE Series(_, _)
      Series(n, t) ==
        IF t = 0 THEN 0
        ELSE (IF n % 2 = 0 THEN t ELSE -t)
               + Series(n + 1, (t * q) \div (ExpScale * (n + 1)))
  IN  Series(0, ExpScale)

\* e^(-1), scaled: a constant, so TLC evaluates it once.
ExpNegOne == (ExpNegFrac(ExpScale \div 2) * ExpNegFrac(ExpScale \div 2)) \div ExpScale

(***************************************************************************)
(* e^(-q/ExpScale) for any q >= 0: peel whole units off with e^(-1).  Past *)
(* q = 12 * ExpScale the value is below one unit of the scale.             *)
(***************************************************************************)
RECURSIVE ExpNegScaled(_)
ExpNegScaled(q) ==
  CASE q < ExpScale       -> ExpNegFrac(q)
    [] q >= 12 * ExpScale -> 0
    [] OTHER               -> (ExpNegOne * ExpNegScaled(q - ExpScale)) \div ExpScale

(***************************************************************************)
(* std::exp(-d / k) of CalculateSimilarity, d >= 0 a difference of two     *)
(* fingerprint fields and k > 0 the decay constant, scaled by ExpScale.    *)
(***************************************************************************)
ExpNeg(d, k) == ExpNegScaled((d * ExpScale) \div k)

RECURSIVE IntLog2(_)
IntLog2(x) == IF x < 2 THEN 0 ELSE 1 + IntLog2(x \div 2)

(***************************************************************************)
(* std::log2(x) for an integer x >= 1, scaled by LogScale: the integer     *)
(* part is the bit length, the fraction is produced bit by bit by squaring *)
(* the mantissa.                                                           *)
(***************************************************************************)
Log2Fixed(x) ==
  LET k == IntLog2(x)
      RECURSIVE Bits(_, _, _)
      Bits(y, b, acc) ==
        IF b = 0 THEN acc
        ELSE LET z == (y * y) \div LogScale
             IN  IF z >= 2 * LogScale THEN Bits(z \div 2, b \div 2, acc + b)
                                     ELSE Bits(z, b \div 2, acc)
  IN  k * LogScale + Bits((x * LogScale) \div (2 ^ k), LogScale \div 2, 0)

=============================================================================
