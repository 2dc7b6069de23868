----------------------------- MODULE Tokenomics -----------------------------
(***************************************************************************)
(* The issuance schedule of crates/pemrix-primitives/src/tokenomics.rs and *)
(* the split of a block reward of crates/pemrix-consensus/src/rewards.rs.  *)
(* The loops are folds over their turns.                                   *)
(***************************************************************************)
EXTENDS Integers, FiniteSets, Functions, SequencesExt

CONSTANTS
    MaxBalance,     \* the largest Balance (u128::MAX)
    Configs         \* the TokenomicsConfig records explored

ASSUME TokenomicsAssumption ==
    /\ MaxBalance \in Nat
    /\ \A c \in Configs :
         /\ {c.initialSupply, c.initialReward, c.minReward, c.numerator} \subseteq 0 .. MaxBalance
         /\ {c.interval, c.denominator} \subseteq Nat \ {0}
         /\ c.minReward <= c.initialReward /\ c.numerator <= c.denominator

Capped(x) == IF x > MaxBalance THEN MaxBalance ELSE x

MinOf(x, y) == IF x < y THEN x ELSE y

Decayed(c, reward) == Capped(reward * c.numerator) \div c.denominator

\* One turn of the loop of block_reward.  floor records the early return.
DecayStep(c, r) ==
    IF r.floor THEN r
    ELSE IF Decayed(c, r.reward) <= c.minReward THEN [reward |-> c.minReward, floor |-> TRUE]
    ELSE [reward |-> Decayed(c, r.reward), floor |-> FALSE]

BlockReward(c, height) ==
    IF height = 0 THEN 0
    ELSE FoldLeft(LAMBDA r, i : DecayStep(c, r),
                  [reward |-> c.initialReward, floor |-> FALSE],
                  [i \in 1 .. (height - 1) \div c.interval |-> i]).reward

\* The reward of the next step in total_issued_by_height, which has a loop and
\* a floor of its own.
NextReward(c, reward) ==
    IF reward > c.minReward
      THEN IF Decayed(c, reward) < c.minReward THEN c.minReward ELSE Decayed(c, reward)
      ELSE reward

\* Mutant: the last step is counted in full.
IssueFullStep(c, t) ==
    [total |-> Capped(t.total + Capped(t.reward * c.interval)),
     reward |-> NextReward(c, t.reward),
     remaining |-> t.remaining - MinOf(t.remaining, c.interval)]

\* One turn of that loop.
IssueStep(c, t) ==
    LET blocks == MinOf(t.remaining, c.interval)
    IN [total |-> Capped(t.total + Capped(t.reward * blocks)),
        reward |-> NextReward(c, t.reward),
        remaining |-> t.remaining - blocks]

TotalIssuedByHeight(c, height) ==
    FoldLeft(LAMBDA t, i : IssueStep(c, t),
             [total |-> 0, reward |-> c.initialReward, remaining |-> height],
             [i \in 1 .. (height + c.interval - 1) \div c.interval |-> i]).total

\* One reward for each step, whatever the interval, and no floor.
AsymptoticMaxSupply(c) ==
    IF c.numerator >= c.denominator THEN MaxBalance
    ELSE Capped(c.initialSupply +
                Capped(c.initialReward * c.denominator) \div (c.denominator - c.numerator))

-----------------------------------------------------------------------------
\* Mutant: the proposer's tenth is not taken off before the rest is split.
PayoutOnTop(validators, records, reward, proposer, v) ==
    reward \div Cardinality(validators) + (IF v = proposer THEN reward \div 10 ELSE 0)

\* distribute_block_reward: what one validator is paid.  With a record the
\* amount is split into commission and delegators' share; both are credited.
Payout(validators, records, reward, proposer, v) ==
    LET bonus == reward \div 10
        each == (reward - bonus) \div Cardinality(validators)
        amount == IF v = proposer THEN Capped(each + bonus) ELSE each
        commission == IF v \in DOMAIN records
                        THEN (amount * records[v].commission) \div 10000 ELSE 0
    IN Capped(commission + (amount - commission))
=============================================================================
