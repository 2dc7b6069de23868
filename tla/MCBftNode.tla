----------------------------- MODULE MCBftNode ------------------------------
(* Constant values for model checking BftNode.                             *)
EXTENDS BftNode

\* Validator 0 has twice the power of the others.
HeavyPower == [v \in 0 .. N - 1 |-> IF v = 0 THEN 2 ELSE 1]

\* Validator 1, the first proposer, has twice the power of the others.
HeavyProposer == [v \in 0 .. N - 1 |-> IF v = 1 THEN 2 ELSE 1]

FullMesh == {l \in (0 .. N - 1) \X (0 .. N - 1) : l[1] # l[2]}

\* Every validator dials validator 1, the first proposer, and no other.
HubLinks == {l \in (0 .. N - 1) \X (0 .. N - 1) : l[1] # l[2] /\ 1 \in {l[1], l[2]}}
=============================================================================
