-------------------------- MODULE RewardStatistics --------------------------
(***************************************************************************)
(* Mining::RewardStatistics (reward_calculator.cpp 223-326): a log of      *)
(* recorded rewards (m_records) and a per-address running total            *)
(* (m_miner_totals), and the distribution metrics computed from them.      *)
(*                                                                         *)
(* The repository has no caller of RecordReward; the model records, for a  *)
(* small set of miners, the breakdowns RewardCalculator produces for them. *)
(* Recorded amounts are non-negative here (no unassigned bonus holds a     *)
(* negative value), so the uint64 sums of GetStatistics do not wrap.       *)
(***************************************************************************)
EXTENDS Integers, Sequences, FiniteSets, TLC, SequencesExt,
        RewardCalculator

CONSTANTS
  Miners,          \* MinerInfo values, each with an address
  RecordHeight,    \* the height at which recorded rewards are priced
  MaxRecords       \* bound on the length of m_records

VARIABLES
  records,         \* m_records, in push_back order
  minerTotals      \* m_miner_totals, a function from address

vars == <<records, minerTotals>>

\* RewardRecord::is_small_miner: hashrate_ths < 10.0.
SmallMinerHashrate == 10000

Init ==
  /\ records = << >>
  /\ minerTotals = << >>

(***************************************************************************)
(* RecordReward(miner, reward): append the record, then                    *)
(* m_miner_totals[address] += total_reward (operator[] starts a new        *)
(* address at 0).                                                          *)
(***************************************************************************)
\* The update as `m_miner_totals[address] = total_reward`.
RecordRewardOfOverwrite(miner, reward) ==
  /\ records' = Append(records,
                  [address  |-> miner.address, amount |-> reward.total,
                   small    |-> miner.hashrate < SmallMinerHashrate,
                   verified |-> miner.verified])
  /\ minerTotals' = (miner.address :> reward.total) @@ minerTotals

\* The update through find(): an address not yet in the map is skipped.
RecordRewardOfFindOnly(miner, reward) ==
  /\ records' = Append(records,
                  [address  |-> miner.address, amount |-> reward.total,
                   small    |-> miner.hashrate < SmallMinerHashrate,
                   verified |-> miner.verified])
  /\ minerTotals' = [x \in DOMAIN minerTotals |->
                      IF x = miner.address THEN minerTotals[x] + reward.total
                      ELSE minerTotals[x]]

RecordRewardOf(miner, reward) ==
  /\ records' = Append(records,
                  [address  |-> miner.address, amount |-> reward.total,
                   small    |-> miner.hashrate < SmallMinerHashrate,
                   verified |-> miner.verified])
  /\ minerTotals' =
       IF miner.address \in DOMAIN minerTotals
       THEN [minerTotals EXCEPT ![miner.address] = @ + reward.total]
       ELSE minerTotals @@ (miner.address :> reward.total)

\* A caller prices a block for a miner and records it.
RecordReward ==
  /\ Len(records) < MaxRecords
  /\ \E miner \in Miners :
       RecordRewardOf(miner,
         CalculateReward(RecordHeight, miner, 0, [f \in OptionalFields |-> 0]))

Next == RecordReward

Spec == Init /\ [][Next]_vars

-----------------------------------------------------------------------------
(***************************************************************************)
(* GetStatistics (lines 238-317).                                          *)
(***************************************************************************)
\* The sum of record.amount over the records at the indices idx.
RecordsSum(idx) == MapThenSumSet(LAMBDA i : records[i].amount, idx)

\* The values of m_miner_totals (their order is irrelevant: both uses sort).
TotalsSeq == [i \in 1..Cardinality(DOMAIN minerTotals) |->
                minerTotals[SetToSeq(DOMAIN minerTotals)[i]]]

\* std::sort(amounts) ascending.
SortedAmounts == SortSeq(TotalsSeq, LAMBDA x, y : x < y)

(***************************************************************************)
(* The Gini sum: (2*(i+1) - amounts.size() - 1) * amounts[i] is size_t     *)
(* arithmetic, so a negative coefficient (or amount) wraps, and the        *)
(* product is taken mod 2^64 before it becomes a double.  A term whose     *)
(* exact value k*a is negative therefore contributes 2^64 + k*a.  The sum  *)
(* is kept as `wraps` multiples of 2^64 plus the exact part.               *)
(***************************************************************************)
GiniSum ==
  LET a == SortedAmounts
      n == Len(a)
      k(i) == 2 * i - n - 1          \* i is 1-based here, (i+1) in the code
  IN  [wraps |-> Cardinality({i \in 1..n : k(i) * a[i] < 0}),
       exact |-> MapThenSumSet(LAMBDA i : k(i) * a[i], 1..n)]

\* The comparator as a.second < b.second.
SortedTotalsAscending == SortSeq(TotalsSeq, LAMBDA x, y : x < y)

\* std::sort(sorted_miners) by amount, descending (lines 296-300).
SortedTotalsDescending == SortSeq(TotalsSeq, LAMBDA x, y : x > y)

\* Nakamoto coefficient: miners sorted by total, descending; count them
\* until the cumulative total exceeds total_rewards_paid / 2.
NakamotoOf(sorted, halfTotal) ==
  LET Reached(j) == MapThenSumSet(LAMBDA i : sorted[i], 1..j) > halfTotal
      hit == {j \in 1..Len(sorted) : Reached(j)}
  IN  IF hit = {} THEN Len(sorted) ELSE Min(hit)

GetStatistics ==
  LET total == RecordsSum(DOMAIN records)
      small == {i \in DOMAIN records : records[i].small}
      S     == FoldSeq(+, 0, SortedAmounts)
  IN  [total          |-> total,
       toSmall        |-> RecordsSum(small),
       toLarge        |-> RecordsSum(DOMAIN records \ small),
       verified       |-> Cardinality({i \in DOMAIN records : records[i].verified}),
       uniqueMiners   |-> Cardinality({records[i].address : i \in DOMAIN records}),
       sumValues      |-> S,
       gini           |-> IF S > 0 THEN GiniSum ELSE [wraps |-> 0, exact |-> 0],
       hhiNum         |-> IF total > 0 THEN MapThenSumSet(LAMBDA x : minerTotals[x]^2,
                                                          DOMAIN minerTotals)
                          ELSE 0,
       hhiDen         |-> IF total > 0 THEN total^2 ELSE 1,
       nakamoto       |-> IF minerTotals = << >> THEN 0
                          ELSE NakamotoOf(SortedTotalsDescending,
                                          total \div 2)]

-----------------------------------------------------------------------------
(***************************************************************************)
(* Properties                                                              *)
(***************************************************************************)
TypeOK ==
  /\ records \in Seq([address : {m.address : m \in Miners}, amount : Int,
                      small : BOOLEAN, verified : BOOLEAN])
  /\ Len(records) <= MaxRecords
  /\ DOMAIN minerTotals = {records[i].address : i \in DOMAIN records}

(***************************************************************************)
(* The Nakamoto coefficient GetStatistics reports is the least number of   *)
(* miners whose m_miner_totals together exceed half of all rewards paid    *)
(* (all miners when no set does): the greedy sort-and-count of lines       *)
(* 295-313 against the definition by subsets.  Both sides read only       *)
(* m_miner_totals, so this is about the sort and the count.               *)
(***************************************************************************)
NakamotoMinimal ==
  LET st   == GetStatistics
      addr == DOMAIN minerTotals
      Holds(T) == MapThenSumSet(LAMBDA x : minerTotals[x], T) > st.total \div 2
      sizes == {Cardinality(T) : T \in {T \in SUBSET addr : Holds(T)}}
  IN  addr # {} =>
        st.nakamoto = IF sizes = {} THEN Cardinality(addr) ELSE Min(sizes)

(***************************************************************************)
(* The Herfindahl index GetStatistics reports, the sum of squared shares   *)
(* of m_miner_totals in total_rewards_paid, lies in [1/n, 1] for n         *)
(* miners: the shares sum to 1 only if every recorded reward reached the   *)
(* per-address totals exactly once.                                        *)
(***************************************************************************)
HerfindahlInRange ==
  LET st == GetStatistics
  IN  st.total > 0 =>
        /\ st.hhiNum <= st.hhiDen
        /\ Cardinality(DOMAIN minerTotals) * st.hhiNum >= st.hhiDen

(***************************************************************************)
(* The Gini coefficient, "income inequality measure" (reward_calculator.h  *)
(* 181), lies in [0,1]: sum_of_differences / (n * sum_of_values).          *)
(***************************************************************************)
GiniInUnitRange ==
  LET st == GetStatistics
  IN  st.sumValues > 0 =>
        /\ st.gini.wraps = 0
        /\ 0 <= st.gini.exact
        /\ st.gini.exact <= Len(SortedAmounts) * st.sumValues

=============================================================================
