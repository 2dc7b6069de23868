------------------------------ MODULE Indexing ------------------------------
(***************************************************************************)
(* ingest_block of node/pemrix-node/src/testnet.rs and services.rs, and    *)
(* what it fills: the accounts, blocks and transactions of RpcState, the   *)
(* index of crates/pemrix-explorer, and the subscriptions and deliveries   *)
(* of crates/pemrix-webhooks.  Every lock of a service is a step of its    *)
(* own; only the replay of a block is one step (see RpcState).             *)
(*                                                                         *)
(* A block is known by its height, as the validators agree (BftNode).      *)
(***************************************************************************)
EXTENDS RpcState

CONSTANTS
    Ids,           \* the ids that subscriptions will get
    Wants,         \* the event types each of them asks for
    Transactions,  \* the transactions there are in blocks,
    Submissions    \*   and those of them that are also submitted to these services

ASSUME IndexingAssumption == Submissions \subseteq Transactions

VARIABLES
    chain,         \* the blocks there are: sequences of transactions
    step,          \* where ingest_block is, "recv" when it is not running
    block,         \* the height of its block,
    left,          \*   and the transactions it has yet to announce
    mirror,        \* RpcState: accounts, validators and delegations,
    rpcBlocks,     \*   the heights of its blocks,
    rpcHeight,
    rpcTxs,        \*   and its transactions
    explorer,      \* the heights of the explorer's blocks
    indexed,       \*   and for each transaction the height it is filed under
    subscribed,    \* the subscriptions there are
    used,          \* the ids given out
    targets,       \* the subscriptions trigger has yet to deliver to
    deliveries,    \* delivery_log: how often a subscriber got an event
    ingested,      \* the heights ingested, in order (not in the code)
    since          \* how many came before a subscription (not in the code)

rpc == <<mirror, rpcBlocks, rpcHeight, rpcTxs>>
index == <<explorer, indexed>>
hooks == <<subscribed, used, targets, deliveries, since>>
progress == <<step, block, left>>
indexing == <<chain, progress, rpc, index, hooks, ingested>>

Heights == DOMAIN chain

Block(h) == <<"block", h>>
Tx(tx) == <<"transaction", tx>>

Unindexed == -1

\* The services as they start, with the blocks stored at once.
InitIndexing(allocations, blocks, maxHeight) ==
    /\ step = "recv" /\ block = 0 /\ left = <<>>
    /\ mirror = NewMirror(allocations)
    /\ rpcBlocks = blocks /\ rpcHeight = 0 /\ rpcTxs = {}
    /\ explorer = blocks /\ indexed = [tx \in Transactions |-> Unindexed]
    /\ subscribed = {} /\ used = {} /\ targets = {}
    /\ deliveries = [i \in Ids |-> [e \in {Block(h) : h \in 1 .. maxHeight}
                                          \cup {Tx(tx) : tx \in Transactions} |-> 0]]
    /\ ingested = <<>> /\ since = [i \in Ids |-> 0]

\* ingest_block is called with the block of height h.
Ingest(h) ==
    /\ step = "recv"
    /\ step' = "replay" /\ block' = h /\ left' = chain[h]
    /\ ingested' = Append(ingested, h)
    /\ UNCHANGED <<rpc, index, hooks>>

\* The accounts are brought up to date.  Blocks of the testnet's validators
\* have no transactions, so this is ingest_block of services.rs.
ReplayBlock ==
    /\ step = "replay"
    /\ mirror' = FoldLeft(ReplayWithStaking, mirror, chain[block])
    /\ step' = "store"
    /\ UNCHANGED <<chain, block, left, rpcBlocks, rpcHeight, rpcTxs, index, hooks, ingested>>

\* Mutant: the height is that of the block stored last.
StoreBlockLast ==
    /\ step = "store"
    /\ rpcBlocks' = rpcBlocks \cup {block}
    /\ rpcHeight' = block
    /\ step' = "explore"
    /\ UNCHANGED <<chain, block, left, mirror, rpcTxs, index, hooks, ingested>>

\* RpcState::store_block.
StoreBlock ==
    /\ step = "store"
    /\ rpcBlocks' = rpcBlocks \cup {block}
    /\ rpcHeight' = IF block > rpcHeight THEN block ELSE rpcHeight
    /\ step' = "explore"
    /\ UNCHANGED <<chain, block, left, mirror, rpcTxs, index, hooks, ingested>>

\* Mutants: a block below the newest one is not indexed, and no transaction is.
IngestNewerBlock ==
    /\ step = "explore"
    /\ explorer' = IF \A h \in explorer : h <= block THEN explorer \cup {block} ELSE explorer
    /\ indexed' = [tx \in Transactions |-> IF tx \in Range(chain[block]) THEN block ELSE indexed[tx]]
    /\ step' = "list"
    /\ UNCHANGED <<chain, block, left, rpc, hooks, ingested>>

IngestHeader ==
    /\ step = "explore"
    /\ explorer' = explorer \cup {block}
    /\ step' = "list"
    /\ UNCHANGED <<chain, block, left, rpc, indexed, hooks, ingested>>

\* ExplorerState::ingest_block.  A transaction that comes again is filed again.
IngestBlock ==
    /\ step = "explore"
    /\ explorer' = explorer \cup {block}
    /\ indexed' = [tx \in Transactions |-> IF tx \in Range(chain[block]) THEN block ELSE indexed[tx]]
    /\ step' = "list"
    /\ UNCHANGED <<chain, block, left, rpc, hooks, ingested>>

-----------------------------------------------------------------------------
(* trigger, for the block and then for each of its transactions.           *)

\* The loop over the transactions is entered when the block is announced.
Event == IF step \in {"list", "deliver"} THEN Block(block) ELSE Tx(Head(left))

\* trigger takes a copy of the subscriptions.
List ==
    /\ step \in {"list", "listTx"}
    /\ targets' = subscribed
    /\ step' = IF step = "list" THEN "deliver" ELSE "deliverTx"
    /\ UNCHANGED <<chain, block, left, rpc, index, subscribed, used, deliveries, since, ingested>>

\* The entry trigger's loop adds to the delivery log, if the events match.
Logged(i) == [deliveries EXCEPT ![i][Event] = IF Event[1] \in Wants[i] THEN @ + 1 ELSE @]

\* Mutant: a subscription that does not match ends the loop.
DeliverOrReturn(i) ==
    /\ step \in {"deliver", "deliverTx"} /\ i \in targets
    /\ deliveries' = Logged(i)
    /\ targets' = IF Event[1] \in Wants[i] THEN targets \ {i} ELSE {}
    /\ UNCHANGED <<chain, progress, rpc, index, subscribed, used, since, ingested>>

\* One turn of that loop, in no particular order.  The subscription may be gone
\* by now.
Deliver(i) ==
    /\ step \in {"deliver", "deliverTx"} /\ i \in targets
    /\ deliveries' = Logged(i)
    /\ targets' = targets \ {i}
    /\ UNCHANGED <<chain, progress, rpc, index, subscribed, used, since, ingested>>

\* ingest_block stores a transaction after it is announced.
StoreTransaction ==
    /\ step = "deliverTx" /\ targets = {}
    /\ rpcTxs' = rpcTxs \cup {Head(left)}
    /\ left' = Tail(left)
    /\ step' = IF left' = <<>> THEN "recv" ELSE "listTx"
    /\ UNCHANGED <<chain, block, mirror, rpcBlocks, rpcHeight, index, hooks, ingested>>

\* The block is announced: on to its transactions.
Announced ==
    /\ step = "deliver" /\ targets = {}
    /\ step' = IF left = <<>> THEN "recv" ELSE "listTx"
    /\ UNCHANGED <<chain, block, left, rpc, index, hooks, ingested>>

\* subscribe_handler.  Every subscription gets a fresh id.
Subscribe(i) ==
    /\ i \notin used
    /\ used' = used \cup {i} /\ subscribed' = subscribed \cup {i}
    /\ since' = [since EXCEPT ![i] = Len(ingested)]
    /\ UNCHANGED <<chain, progress, rpc, index, targets, deliveries, ingested>>

Unsubscribe(i) ==
    /\ i \in subscribed
    /\ subscribed' = subscribed \ {i}
    /\ UNCHANGED <<chain, progress, rpc, index, used, targets, deliveries, since, ingested>>

\* A transaction is stored when it is submitted: by send_transaction of RPC,
\* which checked it against the accounts at some earlier moment, or by that of
\* gRPC or the faucet's submitter, which check nothing.  Neither the testnet's
\* validators nor the polled one take it from here (the pending list is left
\* out), but the polled one may have got it from elsewhere.
SubmitTransaction(tx) ==
    /\ rpcTxs' = rpcTxs \cup {tx}
    /\ UNCHANGED <<chain, progress, mirror, rpcBlocks, rpcHeight, index, hooks, ingested>>

IngestStep ==
    \/ ReplayBlock \/ StoreBlock \/ IngestBlock
    \/ List \/ (\E i \in Ids : Deliver(i)) \/ Announced \/ StoreTransaction

ClientStep ==
    \/ \E i \in Ids : Subscribe(i) \/ Unsubscribe(i)
    \/ \E tx \in Submissions : SubmitTransaction(tx)

-----------------------------------------------------------------------------
(* What the handlers of RPC and of the explorer answer from.               *)

RpcHasBlock(h) == h \in rpcBlocks
RpcHasTransaction(tx) == tx \in rpcTxs

ExplorerHasBlock(h) == h \in explorer
ExplorerHasTransaction(tx) == indexed[tx] # Unindexed

\* The explorer's status takes the height from its index.
ExplorerHeight == IF explorer = {} THEN 0 ELSE CHOOSE h \in explorer : \A k \in explorer : k <= h

\* recent_blocks: the heights from the highest down.
RecentBlocks(limit) ==
    LET sorted == SetToSortSeq(explorer, LAMBDA h, k : h > k)
    IN SubSeq(sorted, 1, IF limit < Len(sorted) THEN limit ELSE Len(sorted))

-----------------------------------------------------------------------------
\* The height that RPC shows never goes back, though a slow validator reports a
\* block long after others have reported later ones, and the block of that
\* height can always be fetched.
HeightNeverFalls ==
    [][rpcHeight' >= rpcHeight /\ (rpcHeight' > 0 => RpcHasBlock(rpcHeight)')]_indexing

\* Between two blocks RPC and the explorer have the same blocks, show the same
\* height, which is also the first of the explorer's list of recent blocks, and
\* RPC knows every transaction that the explorer knows, each of which is in the
\* block that the explorer files it under.  (RPC also knows those that were only
\* submitted.)
IndexesAgree ==
    step = "recv" =>
        /\ \A h \in Heights \cup {0} : ExplorerHasBlock(h) <=> RpcHasBlock(h)
        /\ ExplorerHeight = rpcHeight
        /\ explorer # {} => RecentBlocks(2)[1] = rpcHeight
        /\ \A tx \in Transactions :
               /\ ExplorerHasTransaction(tx) => RpcHasTransaction(tx)
               /\ ExplorerHasTransaction(tx) =>
                      ExplorerHasBlock(indexed[tx]) /\ tx \in Range(chain[indexed[tx]])

\* How often an event has come up since the first n blocks.
Occurrences(e, n) ==
    LET Times(h) == IF e[1] = "block" THEN IF h = e[2] THEN 1 ELSE 0
                    ELSE Cardinality({j \in DOMAIN chain[h] : chain[h][j] = e[2]})
    IN FoldLeft(LAMBDA sum, h : sum + Times(h), 0, SubSeq(ingested, n + 1, Len(ingested)))

\* Whoever is subscribed to an event is told of every one that has come since,
\* whatever others do while events are delivered, once for each time the block
\* was ingested.  (It may also be told of the block that was being ingested.)
NoEventMissed ==
    step = "recv" =>
        \A i \in subscribed : \A e \in DOMAIN deliveries[i] :
            e[1] \in Wants[i] =>
                /\ deliveries[i][e] >= Occurrences(e, since[i])
                /\ deliveries[i][e] <= Occurrences(e, IF since[i] = 0 THEN 0 ELSE since[i] - 1)

\* Whoever is told of a block can fetch it from RPC and from the explorer, and
\* of a transaction from the explorer: ingest_block announces what it has
\* indexed.  (RPC gets the transaction only after that, unless it was submitted.)
AnnouncedServed ==
    \A i \in Ids :
        /\ \A h \in Heights : deliveries[i][Block(h)] > 0 => RpcHasBlock(h) /\ ExplorerHasBlock(h)
        /\ \A tx \in Transactions : deliveries[i][Tx(tx)] > 0 => ExplorerHasTransaction(tx)
=============================================================================
