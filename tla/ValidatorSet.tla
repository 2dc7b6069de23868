---------------------------- MODULE ValidatorSet ----------------------------
(***************************************************************************)
(* The committee of crates/pemrix-consensus/src/validator_set.rs.  The     *)
(* code keeps a BTreeMap from addresses to voting powers; every use of the *)
(* map is either a lookup or goes through the sorted list of addresses, so *)
(* a validator is modelled by its position in that list.                   *)
(***************************************************************************)
EXTENDS Integers, FiniteSetsExt

CONSTANTS
    N,      \* number of validators in the set
    Power   \* voting power of each validator

Validator == 0 .. N - 1

ASSUME NAssumption == N \in Nat \ {0}
ASSUME PowerAssumption == Power \in [0 .. N - 1 -> Nat]

\* Sum of the powers of a set of validators.
PowerOf(S) == MapThenSumSet(LAMBDA v : Power[v], S)

TotalPower == PowerOf(Validator)

\* Integer division, as in the code: the least power above two thirds.
QuorumThreshold == (TotalPower * 2) \div 3 + 1

Quorums == {S \in SUBSET Validator : PowerOf(S) >= QuorumThreshold}

\* Round-robin over the sorted addresses.
Proposer(height, round) == (height + round) % N
=============================================================================
