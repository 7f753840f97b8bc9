-------------------------- MODULE MCDeviceVerifier --------------------------
(***************************************************************************)
(* Model-checking instance of DeviceVerifier: three device ids, a genuine *)
(* device profile and a second one differing from it in every field, two  *)
(* share reports, a ring of 3 samples and a nonce window of 1 so that both *)
(* windows evict within two shares, and a clock that can pass the 24-hour *)
(* cooldown and land inside and outside the 10-minute activity window.    *)
(***************************************************************************)
EXTENDS DeviceVerifier

CONSTANTS d1, d2, d3, IpA, IpB, FwA, FwB, N1, N2

MCRingSize == 3
MCNonceCap == 1

\* Two fingerprints of one hardware model (F1, F1Slower differ by 1 us in
\* avg_nonce_time_us) and one of an unrelated device on another network.
F1 == [avg |-> 2000, var |-> 1000, ring |-> <<1000, 2000, 3000>>, ip |-> IpA,
       lat |-> 20, fw |-> FwA, chips |-> 1, power |-> 15, hashrate |-> 2000,
       nonces |-> <<>>, lastSeen |-> 0]
F1Slower == [F1 EXCEPT !.avg = 2001]
F3 == [avg |-> 9000, var |-> 100, ring |-> <<8000, 15000, 4000>>, ip |-> IpB,
       lat |-> 80, fw |-> FwB, chips |-> 4, power |-> 40, hashrate |-> 1000,
       nonces |-> <<>>, lastSeen |-> -30]

S1 == [ts |-> 20000, nonce |-> N1, power |-> 15, hashrate |-> 2000, ip |-> NoIp, lat |-> 30]
S2 == [ts |-> 21000, nonce |-> N2, power |-> 20, hashrate |-> 1000, ip |-> IpB, lat |-> 0]

MCFingerprints == {F1, F3}
MCFingerprintsSlower == {F1, F1Slower}
MCFingerprintsClone == {F1}
MCShares == {S1, S2}

\* Every id vector of length 1 to 3 over the model's ids, repeats included.
MCIdLists == UNION {[1..k -> DeviceIds] : k \in 1..3}

MCSymmetry == Permutations(DeviceIds)

\* Timing samples are whole milliseconds (TimingAnalysis).
ASSUME \A fp \in MCFingerprints \cup MCFingerprintsSlower :
         \A i \in 1..MCRingSize : fp.ring[i] % 1000 = 0
ASSUME \A sh \in MCShares : sh.ts % 1000 = 0
=============================================================================
