--------------------------- MODULE TimingAnalysis ---------------------------
(***************************************************************************)
(* DeviceVerifier::Impl (device_verifier.cpp): the Shannon entropy of      *)
(* pooled timing samples and the coefficient-of-variation test for         *)
(* synchronised devices.  Both take a sequence of fingerprints in the      *)
(* order the verifier collected them.                                      *)
(*                                                                         *)
(* Samples are microsecond values; the model draws them from whole         *)
(* milliseconds (MCDeviceVerifier ASSUMEs it), so s \div 1000 is both the  *)
(* entropy bucket and an exact rescaling for the CV test, which keeps the  *)
(* sums of squares inside TLC's 32-bit integers.                           *)
(***************************************************************************)
EXTENDS Integers, Sequences, FiniteSets, SequencesExt, FiniteSetsExt, PoddNumerics

(***************************************************************************)
(* The loop `for (auto t : fp.timing_samples) if (t > 0) push_back(t)`     *)
(* over every fingerprint, in order (duplicated ids are pooled twice).     *)
(***************************************************************************)
PooledTimings(fps) ==
  FlattenSeq([i \in 1..Len(fps) |-> SelectSeq(fps[i].ring, LAMBDA t : t > 0)])

\* Log2Fixed of every sample count the verifier can meet (10 samples for
\* each of at most 10 squad members), a constant TLC evaluates once.
Log2Table == [x \in 1..100 |-> Log2Fixed(x)]

(***************************************************************************)
(* CalculateTimingEntropy(timings) < 2.0.  With n samples and c_b of them  *)
(* in bucket b, H = log2 n - (1/n) * Sum_b c_b log2 c_b, so H < 2 iff      *)
(* n log2 n - Sum_b c_b log2 c_b < 2n.  Fewer than 2 samples: H = 0.0.     *)
(***************************************************************************)
TimingEntropyBelowTwo(timings) ==
  LET n        == Len(timings)
      buckets  == {timings[i] \div 1000 : i \in 1..n}
      Count(b) == Cardinality({i \in 1..n : timings[i] \div 1000 = b})
  IN  \/ n < 2
      \/ n * Log2Table[n] - MapThenSumSet(LAMBDA b : Count(b) * Log2Table[Count(b)], buckets)
           < 2 * n * LogScale

(***************************************************************************)
(* DetectSynchronizedTiming(devices): stdev / mean < 0.1 over the pooled   *)
(* non-zero samples, population stdev.  With S = Sum m, Q = Sum m^2:       *)
(* CV^2 = (nQ - S^2) / S^2, so CV < 0.1 iff 100 (nQ - S^2) < S^2.          *)
(***************************************************************************)
DetectSynchronizedTiming(fps) ==
  LET all == PooledTimings(fps)
      n   == Len(all)
      S   == FoldSeq(LAMBDA t, acc : acc + t \div 1000, 0, all)
      Q   == FoldSeq(LAMBDA t, acc : acc + (t \div 1000) * (t \div 1000), 0, all)
  IN  /\ Len(fps) >= 2
      /\ n > 0
      /\ 100 * (n * Q - S * S) < S * S

=============================================================================
