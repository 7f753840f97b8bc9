-------------------------- MODULE DeviceFingerprint --------------------------
(***************************************************************************)
(* PoDD::DeviceFingerprint (device_verifier.h) and its similarity score    *)
(* (DeviceFingerprint::CalculateSimilarity, device_verifier.cpp).          *)
(*                                                                         *)
(* A fingerprint is a record holding the fields the verifier reads or      *)
(* writes.  Integer fields keep the code's units (microseconds, ms, W);    *)
(* ip, firmware and nonces are model values.  Temperature, memory size,   *)
(* traceroute hops, uptime, restart count and the nonce-pattern fields are *)
(* never read by any decision of the verifier and are left out.            *)
(***************************************************************************)
EXTENDS Integers, Sequences, PoddNumerics

(***************************************************************************)
(* The record type: ring is timing_samples (std::array<uint64_t,10>),      *)
(* nonces is recent_nonces, lastSeen is the steady-clock reading of        *)
(* last_seen in the model's minutes.                                       *)
(***************************************************************************)
FingerprintType(Ips, Firmwares, Nonces, RingSize) ==
  [avg : Nat, var : Nat, ring : [1..RingSize -> Nat], ip : Ips, lat : Nat,
   fw : Firmwares, chips : Nat, power : Nat, hashrate : Nat,
   nonces : Seq(Nonces), lastSeen : Int]

SimScale == 1000000   \* CalculateSimilarity's result, scaled to an integer

(***************************************************************************)
(* exp(-(a - b) / k) where a and b are unsigned fields (uint64_t or        *)
(* uint32_t) and the code subtracts them BEFORE taking the absolute value: *)
(* for a < b the difference wraps to 2^N - (b - a) >= 2^32 - 2^18, and     *)
(* exp of minus that over any k the code uses underflows to exactly 0.0.   *)
(***************************************************************************)
DecayOfUnsignedDiff(a, b, k) == IF a >= b THEN ExpNeg(a - b, k) ELSE 0

\* exp(-|a - b| / k) for the double field power_consumption_watts.
DecayOfAbsDiff(a, b, k) == ExpNeg(IF a >= b THEN a - b ELSE b - a, k)

(***************************************************************************)
(* fp.CalculateSimilarity(other), times SimScale.  The weights 0.4, 0.2,   *)
(* 0.15 + 0.05, 0.05 + 0.05 + 0.1 are kept as integers; weight_sum is 1.0  *)
(* in double arithmetic, so the final division changes nothing.            *)
(***************************************************************************)
CalculateSimilarity(fp, other) ==
    40 * DecayOfUnsignedDiff(fp.avg, other.avg, 10000)
  + 20 * DecayOfUnsignedDiff(fp.var, other.var, 5000)
  + (IF fp.ip = other.ip THEN 150000 ELSE 0)
  + 5 * DecayOfUnsignedDiff(fp.lat, other.lat, 50)
  + (IF fp.fw = other.fw THEN 50000 ELSE 0)
  + (IF fp.chips = other.chips THEN 50000 ELSE 0)
  + 10 * DecayOfAbsDiff(fp.power, other.power, 10)

\* The verifier's test `similarity > 0.9`.
TooSimilar(fp, other) == CalculateSimilarity(fp, other) > 900000

=============================================================================
