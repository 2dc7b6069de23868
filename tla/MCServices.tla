----------------------------- MODULE MCServices -----------------------------
(* Constants for model checking Services.  Address 0 is the default        *)
(* address; 1 and 2 send transactions.                                     *)
EXTENDS Services

Funded == [a \in Address |-> IF a = 0 THEN 0 ELSE 3]

Payload(kind, amount) == [kind |-> kind, validator |-> 1, amount |-> amount]

\* Two blocks of these may hold the same transaction.  After the registration 1
\* has nothing to transfer to itself, and that transaction fails.
SomeBlocks ==
    {<<Transfer(1, 2, 1, 0, 1)>>,
     <<Transfer(1, 1, 1, 1, 0), Transfer(2, 1, 2, 0, 0)>>,
     <<CustomPayload(1, Payload("register", 2), 0, 1),
       CustomPayload(2, Payload("delegate", 2), 0, 0)>>,
     <<CustomPayload(2, Payload("undelegate", 2), 1, 1)>>}

AllTransactions == UNION {Range(txs) : txs \in SomeBlocks}

\* A client submits it here; it may be in two blocks, or in none.
Submitted == {Transfer(1, 2, 1, 0, 1)}

BlocksAndTransactions == [i \in Ids |-> {i}]
=============================================================================
