--------------------------- MODULE DeviceVerifier ---------------------------
(***************************************************************************)
(* PoDD::DeviceVerifier (sync-blockchain/src/podd/device_verifier.cpp):   *)
(* the registry of device fingerprints, the fold of mining shares into a  *)
(* fingerprint, the distribution verification and squad formation.        *)
(*                                                                         *)
(* Every public method runs to completion on the caller's thread (no lock, *)
(* no callback, no I/O), so each state-changing method is one atomic       *)
(* action.  Calls that return early without a change (duplicate register,  *)
(* update of an unknown id, rejected squad) are stuttering steps.  The     *)
(* read-only methods (VerifyDeviceDistribution, DetectSpoofing,            *)
(* GetDeviceRewardMultiplier, GetDeviceHashrate) are operators over the    *)
(* current state.  Time is steady_clock in whole minutes.                  *)
(***************************************************************************)
EXTENDS Integers, Sequences, FiniteSets, TLC, DeviceFingerprint, TimingAnalysis

CONSTANTS
  DeviceIds,      \* device id strings
  Fingerprints,   \* initial fingerprints a caller may register
  Shares,         \* ShareData records a miner may submit
  Ips, Firmwares, Nonces,
  NoIp,           \* the empty ip_address string of a ShareData
  RingSize,       \* std::array<uint64_t,10> timing_samples: 10
  NonceCap,       \* recent_nonces is trimmed above 100
  SquadSizeMax,   \* FormMiningSquad accepts 2..10 ids
  IdLists,        \* the id vectors callers pass in
  ClockReadings,  \* the steady_clock readings (minutes) the model visits
  MaxShares,      \* bound on shares folded in, all devices together
  MaxSquads       \* bound on squads formed

ASSUME RingSize \in Nat \ {0} /\ NonceCap \in Nat \ {0}
ASSUME Fingerprints \subseteq FingerprintType(Ips, Firmwares, Nonces, RingSize)
ASSUME \A fp \in Fingerprints : Len(fp.nonces) <= NonceCap /\ fp.lastSeen <= 0
ASSUME Shares \subseteq [ts : Nat \ {0}, nonce : Nonces, power : Nat, hashrate : Nat,
                         ip : Ips \cup {NoIp}, lat : Nat]
ASSUME 0 \in ClockReadings /\ ClockReadings \subseteq Nat
ASSUME IdLists \subseteq Seq(DeviceIds)

VARIABLES
  devices,     \* m_devices: id -> fingerprint
  regTime,     \* m_registration_times: id -> minute
  squads,      \* m_squads, in creation order
  now,         \* steady_clock::now()
  initialFp,   \* history: the fingerprint each id was registered with
  shareLog     \* history: the shares folded into each id, oldest first

vars == <<devices, regTime, squads, now, initialFp, shareLog>>

SquadType ==
  [members : Seq(DeviceIds), created : Nat, total : Nat]

TypeOK ==
  /\ DOMAIN devices \subseteq DeviceIds
  /\ devices \in [DOMAIN devices -> FingerprintType(Ips, Firmwares, Nonces, RingSize)]
  /\ regTime \in [DOMAIN devices -> ClockReadings]
  /\ squads \in Seq(SquadType)
  /\ now \in ClockReadings
  /\ initialFp \in [DOMAIN devices -> Fingerprints]
  /\ shareLog \in [DOMAIN devices -> Seq(Shares)]

Registered(id) == id \in DOMAIN devices

SharesFolded == FoldFunction(LAMBDA log, acc : acc + Len(log), 0, shareLog)

Init ==
  /\ devices = <<>>
  /\ regTime = <<>>
  /\ squads = <<>>
  /\ now = 0
  /\ initialFp = <<>>
  /\ shareLog = <<>>

-----------------------------------------------------------------------------
(* RegisterDevice: insert unless present, stamp the registration time.    *)

RegisterDeviceNoDupCheck(id, fp) ==
  /\ devices' = (id :> fp) @@ devices
  /\ regTime' = (id :> now) @@ regTime
  /\ initialFp' = (id :> fp) @@ initialFp
  /\ shareLog' = (id :> <<>>) @@ shareLog
  /\ UNCHANGED <<squads, now>>

RegisterDevice(id, fp) ==
  /\ ~Registered(id)
  /\ devices' = (id :> fp) @@ devices
  /\ regTime' = (id :> now) @@ regTime
  /\ initialFp' = (id :> fp) @@ initialFp
  /\ shareLog' = (id :> <<>>) @@ shareLog
  /\ UNCHANGED <<squads, now>>

-----------------------------------------------------------------------------
(* UpdateDeviceFingerprint and the window updates it makes.               *)

\* The shift loop with `i > 1` in place of `i > 0`: slot 2 is never refreshed.
ShiftRingSkipsSecond(ring, ts) ==
  [i \in DOMAIN ring |-> CASE i = 1 -> ts [] i = 2 -> ring[2] [] OTHER -> ring[i - 1]]

\* for (i = 9; i > 0; --i) ring[i] = ring[i-1]; ring[0] = timestamp_us
ShiftRing(ring, ts) ==
  [i \in DOMAIN ring |-> IF i = 1 THEN ts ELSE ring[i - 1]]

\* sum / count over the non-zero samples; unchanged when there are none.
MeanOfNonZero(ring, old) ==
  LET nz == SelectSeq(ring, LAMBDA t : t > 0)
  IN  IF Len(nz) > 0 THEN FoldSeq(LAMBDA t, acc : acc + t, 0, nz) \div Len(nz) ELSE old

\* push_back, then erase the front once the size exceeds the cap.
AppendNonce(nonces, n) ==
  LET pushed == Append(nonces, n)
  IN  IF Len(pushed) > NonceCap THEN Tail(pushed) ELSE pushed

\* The ip overwrite without its `!share_data.ip_address.empty()` test.
UpdatedIpUnguarded(ip, shareIp) == shareIp

\* if (!share_data.ip_address.empty()) fp.ip_address = share_data.ip_address
UpdatedIp(ip, shareIp) == IF shareIp # NoIp THEN shareIp ELSE ip

(***************************************************************************)
(* avg_latency_ms = uint32(old * 0.9 + sample * 0.1): for the latencies    *)
(* the model uses this truncates to (9 old + sample) div 10.               *)
(***************************************************************************)
LatencyEma(old, sample) == (9 * old + sample) \div 10

UpdateDeviceFingerprint(id, sh) ==
  /\ Registered(id)
  /\ SharesFolded < MaxShares
  /\ LET fp   == devices[id]
         ring == ShiftRing(fp.ring, sh.ts)
     IN  devices' = [devices EXCEPT ![id] =
           [fp EXCEPT !.ring     = ring,
                      !.avg      = MeanOfNonZero(ring, fp.avg),
                      !.nonces   = AppendNonce(fp.nonces, sh.nonce),
                      !.power    = sh.power,
                      !.hashrate = sh.hashrate,
                      !.lastSeen = now,
                      !.ip       = UpdatedIp(fp.ip, sh.ip),
                      !.lat      = IF sh.lat > 0 THEN LatencyEma(fp.lat, sh.lat) ELSE fp.lat]]
  /\ shareLog' = [shareLog EXCEPT ![id] = Append(@, sh)]
  /\ UNCHANGED <<regTime, squads, now, initialFp>>

-----------------------------------------------------------------------------
(* VerifyDeviceDistribution, confidence in hundredths.                     *)

\* std::max(0.0, std::min(1.0, confidence)) with only the upper bound kept.
ClampConfidenceUpperOnly(c) == IF c > 100 THEN 100 ELSE c

\* result.confidence = std::max(0.0, std::min(1.0, result.confidence))
ClampConfidence(c) == IF c > 100 THEN 100 ELSE IF c < 0 THEN 0 ELSE c

(***************************************************************************)
(* The result {is_valid, confidence, suspicious_pairs} plus ulpBelow: the  *)
(* one path on which the double arithmetic leaves confidence off its       *)
(* decimal value, 1.0 - 0.3 - 0.2 - 0.2 = 0.29999999999999993 (no sync,    *)
(* one similar pair, low diversity, low entropy).  Pairs name             *)
(* device_ids[i], device_ids[j] where i, j index the RESOLVED fingerprints.*)
(***************************************************************************)
VerifyDeviceDistribution(ids) ==
  LET resolved == SelectSeq(ids, Registered)
      fps      == [i \in 1..Len(resolved) |-> devices[resolved[i]]]
      n        == Len(fps)
      sync     == DetectSynchronizedTiming(fps)
      similar  == {p \in (1..n) \X (1..n) : p[1] < p[2] /\ TooSimilar(fps[p[1]], fps[p[2]])}
      lowIp    == 2 * Cardinality({fps[i].ip : i \in 1..n}) < n
      lowEnt   == TimingEntropyBelowTwo(PooledTimings(fps))
      c0       == 100 - (IF sync THEN 40 ELSE 0) - 30 * Cardinality(similar)
      c1       == c0 - (IF lowIp THEN 20 ELSE 0)
      c2       == c1 - (IF lowEnt THEN 20 ELSE 0)
      valid    == /\ ~sync /\ similar = {}
                  /\ ~(lowIp /\ c1 < 50)
                  /\ ~(lowEnt /\ c2 < 50)
  IN  CASE Len(ids) < 2 ->
             [valid |-> TRUE, confidence |-> 100, pairs |-> {}, ulpBelow |-> FALSE]
        [] n < 2 ->
             [valid |-> FALSE, confidence |-> 0, pairs |-> {}, ulpBelow |-> FALSE]
        [] OTHER ->
             [valid |-> valid, confidence |-> ClampConfidence(c2),
              pairs |-> {<<ids[p[1]], ids[p[2]]>> : p \in similar},
              ulpBelow |-> c2 = 30 /\ ~sync]

\* !is_valid && confidence < 0.3, in double arithmetic.
DetectSpoofing(ids) ==
  LET r == VerifyDeviceDistribution(ids)
  IN  ~r.valid /\ (r.confidence < 30 \/ (r.confidence = 30 /\ r.ulpBelow))

\* average_hashrate of a registered device, 0.0 otherwise.
GetDeviceHashrate(id) == IF Registered(id) THEN devices[id].hashrate ELSE 0

-----------------------------------------------------------------------------
(* GetDeviceRewardMultiplier, in hundredths.                               *)

CooldownMinutes == 24 * 60   \* hours < 24: no bonus
ActiveMinutes   == 10        \* minutes < 10 since last_seen: +0.05

GetDeviceRewardMultiplier(id) ==
  IF ~Registered(id) \/ now - regTime[id] < CooldownMinutes THEN 100
  ELSE LET fp == devices[id]
       IN  110 + (IF now - fp.lastSeen < ActiveMinutes THEN 5 ELSE 0)
               + (IF fp.power > 0 /\ fp.hashrate > 0 /\ fp.hashrate > 100 * fp.power
                  THEN 5 ELSE 0)

-----------------------------------------------------------------------------
(* FormMiningSquad: size, registration and spoofing checks, then a new     *)
(* squad whose total_hashrate sums GetDeviceHashrate over the id vector.   *)
(* The SQUAD_<ns> id is the squad's position in the sequence.              *)

FormMiningSquad(ids) ==
  /\ Len(squads) < MaxSquads
  /\ 2 <= Len(ids) /\ Len(ids) <= SquadSizeMax
  /\ \A i \in 1..Len(ids) : Registered(ids[i])
  /\ ~DetectSpoofing(ids)
  /\ squads' = Append(squads,
        [members |-> ids, created |-> now,
         total   |-> FoldSeq(LAMBDA d, acc : acc + GetDeviceHashrate(d), 0, ids)])
  /\ UNCHANGED <<devices, regTime, now, initialFp, shareLog>>

\* The steady clock advances to a later reading.
Tick(t) ==
  /\ t > now
  /\ now' = t
  /\ UNCHANGED <<devices, regTime, squads, initialFp, shareLog>>

Next ==
  \/ \E id \in DeviceIds, fp \in Fingerprints : RegisterDevice(id, fp)
  \/ \E id \in DeviceIds, sh \in Shares : UpdateDeviceFingerprint(id, sh)
  \/ \E ids \in IdLists : FormMiningSquad(ids)
  \/ \E t \in ClockReadings : Tick(t)

Spec == Init /\ [][Next]_vars

-----------------------------------------------------------------------------
(* Properties.                                                             *)

(***************************************************************************)
(* Once RegisterDevice has succeeded for an id, its registration time and  *)
(* the history of its fingerprint are never reset: a later step changes   *)
(* the stored fingerprint only by folding in one more share               *)
(* (RegisterDevice's find-then-return-false, UpdateDeviceFingerprint).    *)
(***************************************************************************)
RegistrationPermanent ==
  [][\A id \in DOMAIN devices :
       /\ id \in DOMAIN devices'
       /\ regTime'[id] = regTime[id]
       /\ devices'[id] # devices[id] =>
            Len(shareLog'[id]) = Len(shareLog[id]) + 1]_vars

(***************************************************************************)
(* The timing ring holds the RingSize most recent share timestamps, newest *)
(* first, topped up from the registered ring; recent_nonces holds the last *)
(* NonceCap nonces, oldest first; avg_nonce_time_us is the mean of the     *)
(* non-zero ring entries once a share arrived (UpdateDeviceFingerprint's   *)
(* shift loop, its average loop and its push_back/erase).                  *)
(***************************************************************************)
WindowsHoldLatest ==
  \A id \in DOMAIN devices :
    LET log     == shareLog[id]
        k       == Len(log)
        stamps  == [i \in 1..k |-> log[k + 1 - i].ts] \o initialFp[id].ring
        nonces  == initialFp[id].nonces \o [i \in 1..k |-> log[i].nonce]
        nz      == SelectSeq(devices[id].ring, LAMBDA t : t > 0)
    IN  /\ devices[id].ring = [i \in 1..RingSize |-> stamps[i]]
        /\ devices[id].nonces =
             IF Len(nonces) <= NonceCap THEN nonces
             ELSE SubSeq(nonces, Len(nonces) - NonceCap + 1, Len(nonces))
        /\ k > 0 =>
             devices[id].avg = FoldSeq(LAMBDA t, acc : acc + t, 0, nz) \div Len(nz)

(***************************************************************************)
(* For every id vector a caller can pass, the verification result has a    *)
(* confidence in [0, 1], and a valid result names no suspicious pair and   *)
(* keeps confidence at least 0.5, however many deductions fired            *)
(* (VerifyDeviceDistribution's deductions and its final clamp).            *)
(***************************************************************************)
VerifyResultWellFormed ==
  \A ids \in IdLists :
    LET r == VerifyDeviceDistribution(ids)
    IN  /\ r.confidence \in 0..100
        /\ r.valid => r.pairs = {} /\ r.confidence >= 50

(***************************************************************************)
(* Spec 4.1: similarity is symmetric, so verifying the same ids in the     *)
(* reverse order gives the same verdict and confidence.  The code          *)
(* subtracts the unsigned fields before taking the absolute value.         *)
(***************************************************************************)
VerifyOrderInsensitive ==
  \A ids \in IdLists :
    LET r == VerifyDeviceDistribution(ids)
        s == VerifyDeviceDistribution(Reverse(ids))
    IN  r.valid = s.valid /\ r.confidence = s.confidence

(***************************************************************************)
(* Every pair VerifyDeviceDistribution reports as suspicious names two     *)
(* registered devices whose fingerprints are too similar.  The code takes  *)
(* the names from device_ids with indices into the resolved fingerprints.  *)
(***************************************************************************)
SuspiciousPairsAreSimilar ==
  \A ids \in IdLists :
    \A p \in VerifyDeviceDistribution(ids).pairs :
      /\ Registered(p[1]) /\ Registered(p[2])
      /\ TooSimilar(devices[p[1]], devices[p[2]])

(***************************************************************************)
(* Spec 3: the members of a squad are distinct devices.  FormMiningSquad   *)
(* checks size, registration and spoofing but not duplicates.              *)
(***************************************************************************)
SquadMembersDistinct ==
  \A s \in 1..Len(squads) : IsInjective(squads[s].members)

=============================================================================
