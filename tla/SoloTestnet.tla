---------------------------- MODULE SoloTestnet -----------------------------
(***************************************************************************)
(* The single-validator testnet of node/pemrix-node/src/testnet.rs: the    *)
(* block production loop over SoloConsensus and SimpleMempool, and the RPC *)
(* and faucet handlers that run beside it and share RpcState.              *)
(*                                                                         *)
(* A handler reads the mirror, and submits later: any number of steps of   *)
(* the loop may come between.  ingest_block is a step for each             *)
(* transaction.  Its two writes are taken together, as no handler reads    *)
(* more than one account, and the balance between the two writes of a      *)
(* transfer to oneself is only too low.  An error of propose ends the      *)
(* process.                                                                *)
(***************************************************************************)
EXTENDS RpcState

CONSTANTS
    Allocations,    \* the genesis balances
    Faucet,         \* the faucet's address
    Requests,       \* the transactions clients post to /v1/transactions
    GrpcRequests,   \* the transactions clients send over gRPC
    Drips,          \* the [recipient, amount] asked of the faucet
    MaxPending,     \* submissions are explored up to this number
    MaxHeight,      \* the last height of the loop (100 000)
    MaxBlockTxs     \* the transactions drained for a block (100)

ASSUME TestnetAssumption ==
    /\ Allocations \in [Address -> 0 .. MaxBalance]
    /\ SumFunction(Allocations) <= MaxBalance
    /\ Faucet \in Address
    /\ {MaxPending, MaxHeight, MaxBlockTxs} \subseteq Nat \ {0}

VARIABLES
    ledger,      \* the state of SoloConsensus
    mempool,     \* SimpleMempool
    chain,       \* the blocks produced: sequences of transactions
    ingesting,   \* what ingest_block has yet to replay of the last block
    rpcHeight,   \* RpcState: the height, the accounts, the transactions pending
    mirror,
    pending,
    handling,    \* the transactions handlers are about to submit
    halted       \* run_solo_testnet has returned an error

vars == <<ledger, mempool, chain, ingesting, rpcHeight, mirror, pending, handling, halted>>

Init ==
    /\ ledger = NewLedger(Allocations)
    /\ mempool = <<>>
    /\ chain = <<>>
    /\ ingesting = <<>>
    /\ rpcHeight = 0
    /\ mirror = NewMirror(Allocations)
    /\ pending = <<>>
    /\ handling = <<>>
    /\ halted = FALSE

-----------------------------------------------------------------------------
Room == Len(pending) + Len(handling) < MaxPending

\* send_transaction_handler up to its answer from validate_transaction.
Accept(tx) ==
    /\ ~halted /\ Room
    /\ Valid(mirror, tx)
    /\ handling' = Append(handling, tx)
    /\ UNCHANGED <<ledger, mempool, chain, ingesting, rpcHeight, mirror, pending, halted>>

\* The transaction the faucet signs: the nonce is the mirror's.
Drip(d) == Transfer(Faucet, d.recipient, d.amount, mirror.nonce[Faucet], 0)

\* request_handler of the faucet up to the nonce it reads; Drips are within
\* the faucet's maximum and the testnet's cooldown is zero.
RequestDrip(d) ==
    /\ ~halted /\ Room
    /\ handling' = Append(handling, Drip(d))
    /\ UNCHANGED <<ledger, mempool, chain, ingesting, rpcHeight, mirror, pending, halted>>

\* Any of the handlers goes on to submit_transaction.
Submit(i) ==
    /\ ~halted
    /\ pending' = Append(pending, handling[i])
    /\ handling' = RemoveAt(handling, i)
    /\ UNCHANGED <<ledger, mempool, chain, ingesting, rpcHeight, mirror, halted>>

\* proto_to_transaction: the protobuf message has no key and no signature.
ProtoToTransaction(tx) == [tx EXCEPT !.signed = FALSE]

\* send_transaction of the gRPC service: nothing is validated.
SendGrpc(tx) ==
    /\ ~halted /\ Room
    /\ pending' = Append(pending, ProtoToTransaction(tx))
    /\ UNCHANGED <<ledger, mempool, chain, ingesting, rpcHeight, mirror, handling, halted>>

-----------------------------------------------------------------------------
\* Mutant: what does not fit is dropped.
DrainLossy(pool) ==
    [txs |-> SubSeq(pool, 1, IF Len(pool) < MaxBlockTxs THEN Len(pool) ELSE MaxBlockTxs),
     rest |-> <<>>]

\* drain: the oldest transactions, and what it leaves.
Drain(pool) ==
    LET count == IF Len(pool) < MaxBlockTxs THEN Len(pool) ELSE MaxBlockTxs
    IN [txs |-> SubSeq(pool, 1, count), rest |-> SubSeq(pool, count + 1, Len(pool))]

\* One turn of the production loop up to ingest_block.  pending is read and
\* not cleared: what was submitted once comes back for every block.
Produce ==
    LET drained == Drain(mempool \o pending)
        o == ExecuteAll(ledger, drained.txs)
    IN /\ ~halted
       /\ Len(chain) < MaxHeight /\ rpcHeight = Len(chain)
       /\ ledger' = o.ledger
       /\ mempool' = drained.rest
       /\ halted' = (o.result = "error")
       /\ IF o.result = "error"
            THEN UNCHANGED <<chain, ingesting>>
            ELSE chain' = Append(chain, drained.txs) /\ ingesting' = drained.txs
       /\ UNCHANGED <<rpcHeight, mirror, pending, handling>>

IngestTransaction ==
    /\ ~halted
    /\ ingesting # <<>>
    /\ mirror' = Replay(mirror, Head(ingesting))
    /\ ingesting' = Tail(ingesting)
    /\ UNCHANGED <<ledger, mempool, chain, rpcHeight, pending, handling, halted>>

\* store_block: the rest of ingest_block changes nothing that is modelled.
StoreBlock ==
    /\ ~halted
    /\ ingesting = <<>> /\ rpcHeight < Len(chain)
    /\ rpcHeight' = Len(chain)
    /\ UNCHANGED <<ledger, mempool, chain, ingesting, mirror, pending, handling, halted>>

Loop == Produce \/ IngestTransaction \/ StoreBlock

Next ==
    \/ \E tx \in Requests : Accept(tx)
    \/ \E d \in Drips : RequestDrip(d)
    \/ \E i \in DOMAIN handling : Submit(i)
    \/ \E tx \in GrpcRequests : SendGrpc(tx)
    \/ Loop

\* The loop is a task of a running process: it is never held up for ever.  The
\* heights end at MaxHeight, and clients may never call.
Spec == Init /\ [][Next]_vars /\ WF_vars(Loop)

-----------------------------------------------------------------------------
\* Between two turns of the loop the accounts that RPC shows are those of the
\* consensus state, as ingest_block's comment says, though one is kept by the
\* executor and the other by a replay with its own checks.
MirrorMatches == rpcHeight = Len(chain) /\ ~halted => Mirrors(mirror, ledger)

\* The checks that validate_transaction makes against the mirror, maybe several
\* blocks earlier, still hold when the transaction is executed: it is either
\* outrun by another of the same nonce or it succeeds, and no fee is taken for
\* nothing.
AcceptedSucceeds ==
    [][chain' # chain => Failures(ledger, chain'[Len(chain')]) = {}]_vars
=============================================================================
