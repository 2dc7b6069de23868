------------------------------ MODULE Sandbox -------------------------------
(***************************************************************************)
(* The developer sandbox of crates/pemrix-sandbox/src/lib.rs over          *)
(* SoloConsensus and SimpleMempool.  Its methods take &mut self, so each   *)
(* is one step.  A transaction and a block stand for their own hashes.     *)
(***************************************************************************)
EXTENDS Ledger

CONSTANTS
    Transactions,   \* the transactions submitted
    Amounts,        \* the balances accounts are funded with
    MaxDrain,       \* the transactions drained for a block (1 000)
    MaxHeight,      \* bounds on the heights and the queue explored
    MaxQueue

ASSUME SandboxAssumption ==
    /\ Amounts \subseteq 0 .. MaxBalance
    /\ {MaxDrain, MaxHeight, MaxQueue} \subseteq Nat \ {0}

VARIABLES
    ledger, previousHash,     \* SoloConsensus
    mempool,
    pending,
    transactions,             \* the transactions that can be looked up
    blocks,                   \* the blocks by height
    height

vars == <<ledger, previousHash, mempool, pending, transactions, blocks, height>>

Genesis == [height |-> 0]

NoAllocations == [a \in Address |-> 0]

\* Sandbox::new, and what reset leaves behind.
New ==
    [ledger |-> NewLedger(NoAllocations), previousHash |-> Genesis, mempool |-> <<>>,
     pending |-> <<>>, transactions |-> {}, blocks |-> <<>>, height |-> 0]

Init ==
    /\ ledger = New.ledger /\ previousHash = New.previousHash
    /\ mempool = New.mempool /\ pending = New.pending
    /\ transactions = New.transactions /\ blocks = New.blocks
    /\ height = New.height

\* The account is replaced, its nonce included.
Fund(a, balance) ==
    /\ ledger' = [ledger EXCEPT !.balance[a] = balance, !.nonce[a] = 0]
    /\ UNCHANGED <<previousHash, mempool, pending, transactions, blocks, height>>

Submit(tx) ==
    /\ Len(mempool) < MaxQueue
    /\ mempool' = Append(mempool, tx)
    /\ pending' = Append(pending, tx)
    /\ transactions' = transactions \cup {tx}
    /\ UNCHANGED <<ledger, previousHash, blocks, height>>

Drained == SubSeq(mempool, 1, IF Len(mempool) < MaxDrain THEN Len(mempool) ELSE MaxDrain)

\* Mutant: nothing stays listed.
RetainedNone(txs) == <<>>

\* pending.retain: all that has the hash of a transaction drained goes.
Retained(txs) == SelectSeq(pending, LAMBDA tx : tx \notin ToSet(txs))

Proposed(txs) == [height |-> height + 1, previousHash |-> previousHash, txs |-> txs]

\* Mutant: a block whose execution failed is stored all the same.
StoreAnyBlock(txs, result) ==
    /\ blocks' = [h \in DOMAIN blocks \cup {height + 1} |->
                    IF h = height + 1 THEN Proposed(txs) ELSE blocks[h]]
    /\ previousHash' = IF result = "error" THEN previousHash ELSE Proposed(txs)

\* What is left of produce_block after propose: nothing on an error.
StoreBlock(txs, result) ==
    IF result = "error" THEN UNCHANGED <<blocks, previousHash>>
    ELSE /\ blocks' = [h \in DOMAIN blocks \cup {height + 1} |->
                         IF h = height + 1 THEN Proposed(txs) ELSE blocks[h]]
         /\ previousHash' = Proposed(txs)

\* produce_block: height, queue and pending list move before the transactions
\* are executed, and stay moved when that fails.
ProduceBlock ==
    LET o == ExecuteAll(ledger, Drained)
    IN /\ height < MaxHeight
       /\ height' = height + 1
       /\ mempool' = SubSeq(mempool, Len(Drained) + 1, Len(mempool))
       /\ pending' = Retained(Drained)
       /\ ledger' = o.ledger
       /\ StoreBlock(Drained, o.result)
       /\ UNCHANGED transactions

Reset ==
    /\ ledger' = New.ledger /\ previousHash' = New.previousHash
    /\ mempool' = New.mempool /\ pending' = New.pending
    /\ transactions' = New.transactions /\ blocks' = New.blocks
    /\ height' = New.height

Next ==
    \/ \E a \in Address, b \in Amounts : Fund(a, b)
    \/ \E tx \in Transactions : Submit(tx)
    \/ ProduceBlock
    \/ Reset

Spec == Init /\ [][Next]_vars

-----------------------------------------------------------------------------
Parents(h) == {g \in DOMAIN blocks : g < h}

Below(h) ==
    IF Parents(h) = {} THEN Genesis
    ELSE blocks[CHOOSE g \in Parents(h) : \A k \in Parents(h) : k <= g]

\* The blocks that can be looked up are one chain whose head is the consensus
\* engine's, though a failed block leaves a gap in the heights.
BlocksLinked ==
    /\ \A h \in DOMAIN blocks :
         /\ blocks[h].height = h /\ h <= height
         /\ blocks[h].previousHash = Below(h)
    /\ previousHash = Below(height + 1)

\* What is listed as pending is still going to be executed: it is queued.  And
\* as long as no block has failed, every transaction that can be looked up is
\* in a block or listed as pending ("not yet included in a block").  A block
\* that fails takes all that was drained for it out of both.
NothingLost ==
    /\ ToSet(pending) \subseteq ToSet(mempool)
    /\ DOMAIN blocks = 1 .. height =>
         \A tx \in transactions :
             \/ tx \in ToSet(pending)
             \/ \E h \in DOMAIN blocks : tx \in ToSet(blocks[h].txs)
=============================================================================
