---------------------------- MODULE MCEconomics -----------------------------
(* Constants for model checking Economics.                                 *)
EXTENDS Economics

\* Decay to a floor, to zero, to a floor that is met exactly and no decay; 30 * 9
\* saturates.
Schedules ==
    {[initialSupply |-> 100, initialReward |-> reward, interval |-> interval,
      numerator |-> fraction[1], denominator |-> fraction[2], minReward |-> min] :
        reward \in {5, 30}, interval \in 1 .. 2, min \in {0, 5},
        fraction \in {<<9, 10>>, <<1, 2>>, <<1, 1>>}}

\* TokenomicsConfig::fast_test, as it is.
FastTest ==
    {[initialSupply |-> 1000000000, initialReward |-> 1000, interval |-> 10,
      numerator |-> 9, denominator |-> 10, minReward |-> 1]}

Record(selfStake, delegatedStake, commission) ==
    [selfStake |-> selfStake, delegatedStake |-> delegatedStake, commission |-> commission,
     status |-> "Active", jailedUntil |-> 0]

\* A report takes from v1 its own stake only, from v2 delegated stake too.
TwoRecords == [v \in {"v1", "v2"} |-> IF v = "v1" THEN Record(3, 2, 2500) ELSE Record(1, 6, 0)]

Kinds == {"double_sign", "downtime"}

Bps == [m \in Kinds |-> IF m = "double_sign" THEN 5000 ELSE 3000]

Blocks == [m \in Kinds |-> IF m = "double_sign" THEN 3 ELSE 1]
=============================================================================
