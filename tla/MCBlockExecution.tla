-------------------------- MODULE MCBlockExecution --------------------------
(* Constants for model checking BlockExecution.  Address 0 is the default  *)
(* address; 1 and 2 send transactions.                                     *)
EXTENDS BlockExecution

Funded == [a \in Address |-> IF a = 0 THEN 0 ELSE 5]

OneValidator == [v \in {0} |-> 1]

Staking(kind, v, amount) == [kind |-> kind, validator |-> v, amount |-> amount]

\* Address 1 also stakes with itself, and sends one transaction more.
Others(a) ==
    {Transfer(a, 3 - a, 2, 0, 1)}
    \cup {CustomPayload(a, p, 0, 0) : p \in {Staking("register", a, 2),
             Staking("delegate", 3 - a, 1), Staking("undelegate", 3 - a, 1)}}

Own ==
    {Transfer(1, 1, 4, 0, 0)}
    \cup {CustomPayload(1, p, 0, 0) : p \in {Staking("delegate", 1, 1),
             Staking("undelegate", 1, 2)}}

Regular ==
    {[tx EXCEPT !.nonce = n] : tx \in Others(1) \cup Own, n \in Nonces}
    \cup {[tx EXCEPT !.nonce = n] : tx \in Others(2), n \in Nonces \ {2}}

\* Transactions that never have an effect, or end the block they are in.
Odd == {[Transfer(1, 2, 2, 0, 1) EXCEPT !.signed = FALSE],
        CustomPayload(1, [kind |-> "malformed"], 1, 1),
        CustomPayload(2, [kind |-> "unknown"], 1, 1), Transfer(2, 0, 0, 1, 0),
        Transfer(0, 1, 0, 0, 0)}

\* Transfers of all of a balance, and of more than there is of anything.
Edge == {Transfer(1, 2, amount, n, 1) : amount \in {4, 9, 10}, n \in Nonces}

AllTransactions == Regular \cup Odd

ComparedTransactions == AllTransactions \cup Edge

\* Calls with one transaction, and calls with two.
SmallBlocks ==
    {<<>>}
    \cup {<<tx>> : tx \in AllTransactions}
    \cup {<<Transfer(1, 2, 2, 0, 1), tx>> : tx \in Others(2) \cup Odd}
=============================================================================
