------------------------------ MODULE Services ------------------------------
(***************************************************************************)
(* The two processes that keep RPC, explorer and webhooks in step with the *)
(* validators, and where they get the blocks from.                         *)
(*                                                                         *)
(* "testnet": run_bft_testnet (testnet.rs).  The validators of the same    *)
(* process report finalized blocks on a channel, and the collector ingests *)
(* them one by one.  Their blocks have no transactions.                    *)
(*                                                                         *)
(* "services": run_services (services.rs).  poll_validator asks a          *)
(* validator for its height and fetches the new blocks one by one.  A      *)
(* request may fail.                                                       *)
(***************************************************************************)
EXTENDS Indexing

CONSTANTS
    Allocations,     \* the genesis balances, the same in all processes
    Blocks,          \* the sequences of transactions in a polled validator's blocks
    MaxHeight,       \* its chain is explored up to this height
    MaxFailures,     \* bound on failed requests
    Validators,      \* the validators that report blocks
    MaxReported      \* the last height they report

ASSUME ServicesAssumption ==
    /\ Allocations \in [Address -> 0 .. MaxBalance]
    /\ SumFunction(Allocations) <= MaxBalance
    /\ {MaxHeight, MaxFailures} \subseteq Nat /\ MaxReported \in 0 .. MaxHeight

VARIABLES
    runner,       \* which of the two processes this is
    reported,     \* the heights a validator has sent on finalized_tx
    queue,        \* finalized_rx
    ledgers,      \* the polled validator's ledger at each height, genesis first
    lastHeight,   \* poll_validator: the height polled up to,
    height,       \*   the height to fetch next,
    target,       \*   and the last one of this round
    skipped       \* the heights whose request failed (not in the code)

collector == <<reported, queue>>
poller == <<lastHeight, height, target, skipped>>
vars == <<indexing, runner, collector, ledgers, poller>>

\* The testnet stores the genesis block, the services do not.
Init ==
    /\ runner \in {"testnet", "services"}
    /\ chain = IF runner = "testnet" THEN [h \in 1 .. MaxReported |-> <<>>] ELSE <<>>
    /\ InitIndexing(Allocations, IF runner = "testnet" THEN {0} ELSE {}, MaxHeight)
    /\ reported = [v \in Validators |-> {}] /\ queue = <<>>
    /\ ledgers = <<NewLedger(Allocations)>>
    /\ lastHeight = 0 /\ height = 1 /\ target = 0 /\ skipped = {}

-----------------------------------------------------------------------------
\* A validator reports a finalized block, each height once.  Its two loops may
\* overtake each other, and heights may be left out (see LatestReported of
\* BftNode).
Report(v, h) ==
    /\ runner = "testnet"
    /\ h \notin reported[v]
    /\ reported' = [reported EXCEPT ![v] = @ \cup {h}]
    /\ queue' = Append(queue, h)
    /\ UNCHANGED <<indexing, runner, ledgers, poller>>

\* Mutant: only the newest of the blocks waiting is taken.
ReceiveNewest ==
    /\ queue # <<>>
    /\ Ingest(queue[Len(queue)])
    /\ queue' = <<>>
    /\ UNCHANGED <<chain, runner, reported, ledgers, poller>>

\* The collector takes the next block.
Receive ==
    /\ queue # <<>>
    /\ Ingest(Head(queue))
    /\ queue' = Tail(queue)
    /\ UNCHANGED <<chain, runner, reported, ledgers, poller>>

-----------------------------------------------------------------------------
\* The polled validator produces a block.
Extend(txs) ==
    LET o == ExecuteAll(ledgers[Len(ledgers)], txs)
    IN /\ runner = "services"
       /\ Len(chain) < MaxHeight
       /\ o.result # "error"
       /\ chain' = Append(chain, txs)
       /\ ledgers' = Append(ledgers, o.ledger)
       /\ UNCHANGED <<progress, rpc, index, hooks, ingested, runner, collector, poller>>

Sleeping == step = "recv" /\ height > target

\* The status request is answered, with a height above the last one.
Poll ==
    /\ runner = "services" /\ Sleeping
    /\ Len(chain) > lastHeight
    /\ target' = Len(chain)
    /\ height' = lastHeight + 1
    /\ UNCHANGED <<indexing, runner, collector, ledgers, lastHeight, skipped>>

\* Mutant: the round ends one short of the height it fetched.
AdvanceShort ==
    /\ height' = height + 1
    /\ lastHeight' = IF height = target THEN target - 1 ELSE lastHeight
    /\ UNCHANGED <<chain, runner, collector, ledgers, target>>

\* The next turn of the loop over heights, or the end of the round.
Advance ==
    /\ height' = height + 1
    /\ lastHeight' = IF height = target THEN target ELSE lastHeight
    /\ UNCHANGED <<chain, runner, collector, ledgers, target>>

\* The block is fetched and ingested.
Fetch ==
    /\ height <= target
    /\ Ingest(height)
    /\ Advance
    /\ UNCHANGED skipped

\* The request fails, the validator has no such block, or the answer does not
\* parse: a warning, and on to the next height.  (A failed status request
\* changes nothing.)
FetchFails ==
    /\ step = "recv" /\ height <= target
    /\ Cardinality(skipped) < MaxFailures
    /\ skipped' = skipped \cup {height}
    /\ Advance
    /\ UNCHANGED <<progress, rpc, index, hooks, ingested>>

-----------------------------------------------------------------------------
\* A step of ingest_block leaves the feeders alone.
Indexer == IngestStep /\ UNCHANGED <<runner, collector, ledgers, poller>>
Client == ClientStep /\ UNCHANGED <<runner, collector, ledgers, poller>>

Feed == Receive \/ Poll \/ Fetch

Next ==
    \/ \E v \in Validators, h \in 1 .. MaxReported : Report(v, h)
    \/ \E txs \in Blocks : Extend(txs)
    \/ Feed \/ FetchFails
    \/ Indexer \/ Client

\* Collector and poller run for ever and wait for nobody but the services'
\* locks; a request that is answered infinitely often is enough, as failures
\* are finitely many.
Spec == Init /\ [][Next]_vars /\ WF_vars(Feed \/ Indexer)

-----------------------------------------------------------------------------
\* What an address has locked up.
Staked(l, a) == l.record[a].selfStake + SumFunction(l.delegation[a])

\* No transaction up to height h was charged and then failed.
Clean(h) == \A i \in 1 .. h : Failures(ledgers[i], chain[i]) = {}

\* Between two rounds of polling, as long as no request and no transaction has
\* failed, the services show what the validator has at the height polled up to:
\* nonces, validator records, delegations, and the balances of those who have
\* nothing staked.  (ingest_block replays a transaction that failed as if it had
\* not, or skips it with its fee and nonce; and after a staking operation it
\* writes back the account it had read before.)
InSync ==
    Sleeping /\ skipped = {} /\ Clean(lastHeight) =>
        LET l == ledgers[lastHeight + 1]
        IN \A a \in Address :
               /\ NonceOf(mirror, a) = l.nonce[a]
               /\ ValidatorOf(mirror, a) = l.record[a]
               /\ \A v \in Address : DelegationOf(mirror, a, v) = l.delegation[a][v]
               /\ Staked(l, a) = 0 => BalanceOf(mirror, a) = l.balance[a]

\* The poller ingests a block at most once and in the order of heights, rounds
\* that end while the validator goes on and failed requests included: a block
\* replayed twice or early would be skipped as a nonce mismatch for good.
IngestedInOrder ==
    runner = "services" =>
        \A i, j \in DOMAIN ingested : i < j => ingested[i] < ingested[j]

\* Every block that a validator has reported, or that the polled validator has
\* and whose request did not fail, ends up being served.
AllServed ==
    \A h \in 1 .. MaxHeight :
        (IF runner = "testnet" THEN \E v \in Validators : h \in reported[v] ELSE h \in Heights)
            ~> RpcHasBlock(h) \/ h \in skipped
=============================================================================
