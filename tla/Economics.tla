----------------------------- MODULE Economics ------------------------------
(***************************************************************************)
(* The issuance, the rewards and the slashing of validators, block after   *)
(* block.  The node does not call these libraries yet.  The state machine  *)
(* is a caller that pays the reward of each block, with any validator as   *)
(* its proposer, reports misbehaviour and releases validators, all on the  *)
(* same validator records and at the same height.                          *)
(***************************************************************************)
EXTENDS Slashing

CONSTANTS
    Validators,      \* the validators paid
    Registered,      \* the records of those that have one, at height 0
    MaxHeight,       \* the last height explored
    MaxSlashes       \* bound on the reports

ASSUME EconomicsAssumption ==
    /\ IsFiniteSet(Validators) /\ DOMAIN Registered \subseteq Validators
    /\ \A v \in DOMAIN Registered :
         /\ {Registered[v].selfStake, Registered[v].delegatedStake} \subseteq 0 .. MaxBalance
         /\ Registered[v].commission \in 0 .. 10000
         /\ Registered[v].status = "Active" /\ Registered[v].jailedUntil = 0
    /\ MaxHeight \in Nat /\ MaxSlashes \in Nat

VARIABLES
    config,      \* the TokenomicsConfig
    height,
    issued,      \* the rewards of all blocks so far
    paid,        \* what each validator was paid
    records,     \* the ValidatorRecord of those registered
    slashed,     \* what apply_slash returned for each, in all
    slashes      \* the number of reports

vars == <<config, height, issued, paid, records, slashed, slashes>>

Init ==
    /\ config \in Configs
    /\ height = 0 /\ issued = 0
    /\ paid = [v \in Validators |-> 0]
    /\ records = Registered
    /\ slashed = [v \in DOMAIN Registered |-> 0]
    /\ slashes = 0

\* block_reward and distribute_block_reward for the next block.
PayBlock(proposer) ==
    LET reward == BlockReward(config, height + 1)
    IN /\ height < MaxHeight
       /\ height' = height + 1
       /\ issued' = Capped(issued + reward)
       /\ paid' = [v \in Validators |->
                     paid[v] + Payout(Validators, records, reward, proposer, v)]
       /\ UNCHANGED <<config, records, slashed, slashes>>

ApplySlash(v, m) ==
    /\ slashes < MaxSlashes
    /\ slashes' = slashes + 1
    /\ records' = [records EXCEPT ![v] = Slashed(@, m, height)]
    /\ slashed' = [slashed EXCEPT ![v] = @ + SlashAmount(records[v], m)]
    /\ UNCHANGED <<config, height, issued, paid>>

ReleaseValidators ==
    /\ records' = [v \in DOMAIN records |-> Released(records[v], height)]
    /\ UNCHANGED <<config, height, issued, paid, slashed, slashes>>

Next ==
    \/ \E proposer \in Validators : PayBlock(proposer)
    \/ \E v \in DOMAIN records, m \in Misbehavior : ApplySlash(v, m)
    \/ ReleaseValidators

Spec == Init /\ [][Next]_vars

-----------------------------------------------------------------------------
\* The two loops of the schedule agree: the sum of block_reward over all heights
\* so far is what total_issued_by_height computes step by step, at the first and
\* last block of every step, below the floor and where arithmetic saturates.
IssuanceAgrees == TotalIssuedByHeight(config, height) = issued

\* asymptotic_max_supply is a maximum: the supply at genesis and all that has
\* been issued since do not pass it.  (It says of itself that issuance never
\* fully reaches it.)
BelowAsymptote == config.initialSupply + issued <= AsymptoticMaxSupply(config)

\* All that distribute_block_reward pays has been issued, and of each block at
\* most one base unit per validator is lost as dust.
PaidFromIssuance ==
    issued < MaxBalance =>
        /\ SumFunction(paid) <= issued
        /\ issued - SumFunction(paid) < 1 + height * Cardinality(Validators)

\* The stake a validator has lost is exactly what apply_slash said it took,
\* over any number of reports and with all the rounding: the saturating
\* subtraction from the delegated stake never saturates.
SlashesAccounted ==
    \A v \in DOMAIN records :
        TotalStake(records[v]) + slashed[v] = TotalStake(Registered[v])

\* release_validators and is_jailed agree on the height at which jail ends: a
\* release at any time, after any reports, leaves no one behind who is not in
\* jail any more, and frees no one who is.
ReleaseExact ==
    \A v \in DOMAIN records :
        Released(records[v], height).status = "Jailed" <=> IsJailed(records[v], height)
=============================================================================
