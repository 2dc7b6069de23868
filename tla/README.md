# PEMRIX in TLA+

A verification project for the PEMRIX blockchain node. TLA+ modules model the
parts of the system that hold state, TLC checks them on small instances, and
TLAPS proves the agreement properties of the BFT validators for instances of
any size. `PROJECT.json` maps every definition to the lines it models and lists
the runs, mutants, findings, hazards and theorems.

Run TLC on a module with a configuration (`tlc -config BftChain.cfg MCBftNode`)
and TLAPS on a module with proofs (`tlapm BftAgreementProofs.tla`).

## The system and its parts

**Consensus.** A validator runs `BftConsensus` (`crates/pemrix-consensus/src/bft.rs`)
behind a mutex, shared by two tasks of `node/pemrix-node/src/node.rs`: the block
production loop, which proposes when it is the validator's turn and keeps
re-broadcasting, and the network event loop, which handles blocks and votes. They
talk over `TcpTransport` (`crates/pemrix-network/src/tcp.rs`), which sends to
direct peers only. Height, rounds and votes live in memory.

**Ledger.** `BlockExecutor` and `StakingExecutor` (`crates/pemrix-vm`) apply
transactions to a `StateStore` (`crates/pemrix-storage`): transfers, validator
registration, delegation and undelegation. The store sits on one of two backends, in
memory or RocksDB, and writes key by key, without batches. The validator set can be
recomputed from the stakes in that state.

**Services.** RPC, gRPC, faucet, explorer and webhooks share an `RpcState`, a mirror
of accounts and blocks that is kept by replaying blocks: in the process of the
solo testnet (`testnet.rs`), in the collector of the BFT testnet (`testnet.rs`) or
by polling a validator (`services.rs`). The CLI's payment demo is a client of RPC and
faucet that takes one decision after another on what it has read.

**Libraries.** The developer sandbox, the issuance schedule, reward distribution and
slashing are complete but the node calls none of the last three yet.

## Modules

| Module | Models | State and actions |
|---|---|---|
| `ValidatorSet` | `validator_set.rs` | positions in the sorted address list, powers, quorums, round-robin proposer |
| `BftEngine` | `bft.rs` | the engine as a record; `Propose`, `HandleBlock`, `HandleVote`, `FinalizeTo` as operators |
| `BftNode` | `node.rs`, broadcast of `tcp.rs` | all validators and the messages in flight; `Produce`, `Advance`, `ReceiveBlock`, `ReceiveVote`, `Report`, `Lose`, `Crash`, `Restart` |
| `Finality` | the promise of the validators | abstract: logs that only grow and are prefixes of one another |
| `BftNodeProofs`, `BftAgreementProofs` | | the theorems |
| `TcpTransport` | `tcp.rs` | two nodes, the tasks at both ends of each socket, the slot of the peer map, the channels and the messages under way |
| `Ledger` | `block_executor.rs`, `staking.rs`, `update_validator_set` | the state as a record; `Execute` and its parts as operators: what a transaction comes to |
| `StateStore` | `state.rs`, `backend.rs`, both executors | what either backend keeps under which key; a transaction as its plan, a sequence of writes |
| `BlockExecution` | `build_block` of `bft.rs` | block after block on one store, write by write; `WriteFails`, `Restart` |
| `RpcState` | account mirror, `validate_transaction`, both replays | operators |
| `SoloTestnet` | `run_solo_testnet`, `ingest_block`, RPC, faucet and gRPC handlers | composes `Ledger` and `RpcState` |
| `PaymentDemo` | `demo.rs` with the clients it uses | extends `SoloTestnet` by the demo: fund, read, pay, poll, give up |
| `Indexing` | both `ingest_block`s, RPC's and the explorer's indexes and what their handlers answer, webhooks | ingestion step by step beside clients that submit transactions, subscribe and unsubscribe |
| `Services` | `run_bft_testnet`'s collector and `services.rs` | extends `Indexing` by where blocks come from: validators that report, or a poller whose requests fail |
| `Faucet` | the faucet's request handler | concurrent handlers and the cooldowns |
| `Sandbox` | `pemrix-sandbox` | one action per method, over `Ledger` |
| `Tokenomics` | `tokenomics.rs`, `rewards.rs` | the two loops as folds, the maximum supply and the split of a reward as operators |
| `Slashing` | `slashing.rs` | operators on a validator record |
| `Economics` | a caller of the last two | pays block after block, reports and releases on the same records |

The `MC` modules define constants for TLC. Operators introduced with "Mutant" are
plausible mistakes: each property of a passing run is broken by one of them.

### Abstractions

- A block or transaction stands for its own hash. A transaction is signed or not; a
  payload is one of the three staking operations, malformed, unknown or empty.
- In `BftNode` a step is one pass of a handler. A handler's mutex sections are merged
  where the other loop cannot change the outcome: a message in flight may stand for
  one not yet sent. Finalizing on a vote and reporting it are separate steps.
- Messages arrive in any order, may be lost, and arrive again only if the code sends
  them again. `TcpTransport` shows why that is the right network: connections are
  replaced while the old one still drains, and broken ones lose what they hold.
- A missing map entry is a value (`NoBlock`, `NoRecord`, a delegation of zero, a
  cooldown at `Never`) where every lookup treats the two alike.
- `u128` and `u64` are bounded by `MaxBalance` and `MaxPower`, with the checked,
  saturating or plain arithmetic of each line. Heights and nonces do not wrap.
- A write to the store happens or returns an error; one that happened is durable.
  Keys are their prefix and addresses, values the records their bytes encode, and a
  state root stands for the entries it is the hash of.
- A few variables are histories that the code does not have; they are marked so.

## What the runs check

### BFT validators (`MCBftNode`)

| Run | Instance | Shows |
|---|---|---|
| `bft_chain` | 3 validators in a star around a heavy one, 2 heights, one loss, one stopping | `TypeOK`; `ChainLinked`: finalized blocks form a chain although `previous_hash` is never checked; `RefinesFinality`: finalizing out of order and several heights at a time implements `Finality`; `LatestReported`: the last block finalized is reported |
| `bft_faults` | full mesh of 3, powers 2/1/1, 2 clock values, one down at a time, the proposer restarting | `StableAgreement`, `QuorumBacked`, `VoteOnce` |
| `bft_liveness` | star around a heavy proposer that needs one vote of two, re-broadcasts, one loss, one stopping | `ProposalsFinalize`: a running proposer finalizes unless those that stopped and those whose vote to it was lost leave no quorum |
| `bft_restart_agreement` | as `bft_faults` | violates `Agreement`, see below |

Two heights and a star are what it takes for a vote to complete one height while the
next is already complete; two clock values are what it takes to propose two different
blocks. Restarts are once per validator. Passes of the production loop that only send a
proposal again are explored where `Rebroadcast` says so.

*Fairness.* Each task of a running validator is scheduled (tokio runs every ready task,
the production loop sleeps for a bounded time, the event loop takes events in order),
so `Produce`, `Advance`, `Report` and the receipt of each message are weakly fair.
Faults are never fair. A follower sends its vote once, and one that is lost is lost for
good: `ProposalsFinalize` leaves out the validators whose vote the proposer has lost
(`VotesLost`), and those that are down, and asks that the others be a quorum.

### Transport (`TcpTransport`)

`tcp` checks that a slot always belongs to the one open connection (`SlotOwned`), that
the nodes settle on one socket (`StaysConnected`), whether either or both dial, also when
all sockets lose the tie-break, and that where only one dials nothing is lost or
reordered unless a connection breaks (`Lossless`), which is what the testnet's comment on
its unidirectional chain counts on. Where both dial, messages can be lost with no
connection broken: the socket that loses the tie takes its channel with it. Four sockets
cover both dials of both nodes with their replaced predecessors; pairs of nodes do not
touch each other's slots. `MaxEvents` bounds breaks and messages together: two messages
show an order, a break and a message a loss. The retry loop and the connections' tasks are
weakly fair; breaks are bounded and not fair.

### Ledger, testnet and services

- `ledger` executes blocks of up to two transactions from two accounts in every order,
  one write at a time, with one write that fails or one crash at any point.
  - Without faults, balances, stakes and burned fees add up to the genesis supply
    (`SupplyConserved`) and records equal their delegations (`DelegationsBacked`), also
    after a block that an error ended half way.
  - With faults, value may be lost but is not made (`NothingMinted`), no nonce is charged
    twice (`NoReplay`), and nobody but the sender loses (`OnlySenderPays`).
  - The validator set is the top of the stakes (`SetFollowsStake`).
  - `WritesImplement`: the writes of a transaction come to what `Ledger` says it does.
    `BackendsAgree`: the state root and the records are the same on either backend.
    `ExecutorsAgree`: `NativeExecutor` and `BlockExecutor` leave the same entries after
    a transfer that either carries out (the same balances and nonces after a transfer of
    nothing), unless the sender has no account. The last and the first are evaluated for every
    transaction in every state between blocks, the last also for transfers whose amount
    and fee are just within and just beyond what a balance can hold.
- `solo` runs clients, faucet, gRPC and the payment demo beside the production loop: the
  mirror equals the consensus state between blocks (`MirrorMatches`), what was validated
  against a mirror some blocks old succeeds or is outrun (`AcceptedSucceeds`), what is
  pending is executed or outrun after no more blocks than it takes to drain what is queued
  before it, even when the demo has given up (`AcceptedExecuted`), and a payment that the
  demo calls settled was made exactly once (`SettledPaid`). Only the production loop is
  weakly fair (a timer drives it); users may stop at any point. The loop queues all that is
  pending again for every block, so the mempool grows without bound once more is pending
  than fits in a block, and with it the wait of those who come later; the queue is first in,
  first out, so it does not grow for those already in it. `AcceptedExecuted` is about
  requests for which `MaxHeight` leaves the blocks it takes to drain the mempool and the
  pending list; four pending and two to a block let such a request arrive behind a backlog.
  It ends with the loop, which an unsigned transaction stops. The client sends one transfer,
  to itself, that takes all it has and a drip, and the faucet has the tokens it gives away.
- `services` runs one of two processes. In the testnet, two validators report two heights
  in any order; in the services process, a validator's blocks with transfers and staking
  are polled with one failing request, and some of the transactions fail. Subscribers come
  and go, to blocks or to transactions, and a client submits a transaction that may be in
  a block or not.
  - The poller ingests in order and once (`IngestedInOrder`); while no request and no
    transaction has failed, it shows the validator's nonces, records and delegations, and
    the balances of those who have nothing staked (`InSync`).
  - The height shown never falls and its block is there (`HeightNeverFalls`); explorer and
    RPC agree on the blocks between two of them, and what the explorer files under a block is
    there and known to RPC, although blocks repeat transactions and RPC also stores those
    that are only submitted (`IndexesAgree`).
  - No subscriber misses an event (`NoEventMissed`), and what it is told of can be fetched
    at once (`AnnouncedServed`).
  - Every block reported, or fetched, is served in the end (`AllServed`; the collector or
    the poller is weakly fair, validators and subscribers are not).

  Two heights are what it takes for reports to overtake each other and for a failed
  request to leave a gap before another block.
- `faucet`: only tokens really sent start a cooldown (`RefusalEarned`), and within a
  cooldown an address gets at most one transfer per concurrent handler (`DripsBounded`).

### Libraries

- `sandbox`: stored blocks stay one chain although failed blocks leave gaps
  (`BlocksLinked`); what is listed as pending is queued, and nothing is lost while no
  block has failed (`NothingLost`).
- `economics`: over 24 schedules, the two issuance loops agree at every height, at the
  floor and at saturation (`IssuanceAgrees`); payouts never exceed issuance and lose at
  most dust (`PaidFromIssuance`); the stake lost is what was slashed (`SlashesAccounted`);
  `is_jailed` and `release_validators` agree on the last block of a sentence
  (`ReleaseExact`). The schedules decay or are constant and start at or above their floor:
  for others the two loops differ.

`CHECK_DEADLOCK FALSE` stands where the bounds, or a system in which everything has been
delivered and nobody calls, end a behaviour.

### Where code and documentation differ

`bft_restart_agreement`: the README of the repository promises deterministic finality. A
proposer that restarts proposes another block of its height; the engine replaces the
proposal, keeps the votes and counts them whatever they are for. Two validators then
finalize different blocks. `StableAgreement` is what remains, and is proved.

`max_supply`: the comment on `asymptotic_max_supply` says that "issuance never fully
reaches this value". The formula sums one reward per decay step, where a step pays it for
`decay_interval` blocks, and has no floor. With the schedule of
`TokenomicsConfig::fast_test` the supply is above it from height 11 on
(`BelowAsymptote`).

Other differences met on the way bound what the passing properties say:

- `finalize_pending` returns the last of several blocks, so earlier ones go unreported
  (`LatestReported` speaks of the last only).
- No other validator proposes in place of a stopped proposer, and a restarted validator is
  not sent what it missed, though `docs/VALIDATORS.md` says otherwise. Nothing is relayed,
  so four testnet validators in a chain stop after height 1.
- The testnet replays transactions "so the RPC account state mirrors the consensus state",
  but ignores the payload of staking operations, which the engine executes: after a
  registration the mirror shows more than the address can spend. `MirrorMatches` and
  `AcceptedSucceeds` are about clients that do not stake.
- The services "keep block and account state in sync", but their replay of a stake writes
  back the balance from before it, so that it still includes what is staked, and a
  transaction that failed is replayed as if it had not, or skipped with its fee and nonce;
  a block whose request failed is never fetched again. `InSync` leaves these out. Neither
  process updates the explorer's accounts after genesis.
- RPC answers "confirmed" to a transaction that it has queued, and stores it for lookup
  only after subscribers were told of its block.
- A transaction broken off between two writes has cost its sender the fee, and the amount
  if that was debited. A node that restarts over RocksDB puts the genesis accounts again;
  as its own blocks are empty, this undoes nothing yet.
- Two faucet requests within a block get one nonce, and both are answered "tokens sent".
  So is a request to a faucet that has run dry. The cooldown is checked and set under
  two locks.
- A transaction sent over gRPC loses its signature, and executing it ends the loop.
- Every validator reports every block, so subscribers hear of it more than once.
- A sandbox block that fails takes good transactions with it.
- A lighter report shortens a sentence in jail.
- The VM's `MIN_SELF_STAKE` is 10 000 base units where the protocol crate has 10 000
  tokens, and undelegation is immediate although an unbonding period is defined. The first
  on-chain registration replaces the whole genesis validator set, and only at the
  proposer, as followers do not execute blocks. Rewards credit the operator with the
  delegators' share too.

## What is proved

`BftNodeProofs` and `BftAgreementProofs` prove, for any number of validators, any powers,
any links, any clock and any bounds on losses, crashes and restarts:

| Theorem | Statement |
|---|---|
| `TypeCorrect` | `Spec => []TypeOK` |
| `AgreementHolds` | `Spec => []StableAgreement`: no two blocks of a height are finalized unless its proposer restarted |
| `AgreementWithoutRestarts` | full `Agreement` if nobody can restart |
| `QuorumBackedHolds` | `Spec => []QuorumBacked`: a finalized block has a quorum of votes for that very block |
| `VoteOnceHolds` | `Spec => []VoteOnce` |

The assumptions are those on the constants (`NAssumption`, `PowerAssumption`,
`MaxHeightAssumption`, `LinkAssumption`, `BoundsAssumption`), which TLC evaluates in
every run of `MCBftNode`. What a quorum is plays no part: agreement here does not come from quorum
intersection but from the proposer proposing once.

*Type correctness* is not inductive alone: a re-broadcast sends what the round holds, so
`TypeInv` adds `ProposedHeld`, that a proposer past its first pass holds a block and its
own vote.

*Agreement* needs the invariant `Inv`:

1. `ProposedOnce`: a proposer that has not restarted and holds a block of its height has
   moved past that height or remembers having proposed it. Nothing but the production
   loop's `last_proposed_height` keeps it from building a second block.
2. `Unique`: hence at a stable height every block, in a round, a message, a vote cast or
   among the decided ones, is the proposer's (`TheBlock`).
3. `VotesCast`: every vote stored or in flight was cast by its voter. With `Unique`, the
   votes of a round are for the block that is there, although `has_quorum` does not look.
4. `CastRecorded`: a vote once cast is recorded in `voted` or lies at or below the
   engine's height. So `try_finalize` may drop the record: `VoteOnce` survives.

The three handlers are treated as one kind of step (`Absorbs`: an engine takes in some
blocks, then finalizes), each conjunct has a lemma for that step, and each handler a
lemma that it is such a step.

*Only model-checked:* all liveness (the provers have no fairness reasoning),
`ChainLinked` and `RefinesFinality`, everything about sums (supply, stakes, payouts: sums
are folds, and induction over data is out of reach), and the modules besides `BftNode`.

## Not modelled

- *The engine's `handle_proposal` and `SoloConsensus`'s handlers.* The node never calls
  the first; the others change nothing.
- *Setup.* `init`, key files, configuration, genesis and bootstrap files, ports: read or
  written once, before anything runs concurrently. `start_solo` runs the production loop
  that `SoloTestnet` has, without clients.
- *Cryptography and byte encodings.* Signatures are valid or not, those of webhook
  payloads included; records and keys are
  decoded as they were encoded.
- *Placeholders.* The QUIC transport answers every call with an error. The WASM executor
  never touches the state, and no engine calls it. Gas is a constant of each result.
- *Single requests.* The other CLI commands, SDK clients and gRPC's reads send one request
  and print the answer, which comes from the state that `RpcState` and `Indexing` have.
- *Parameter records.* Their validation is a list of comparisons without state or callers.
- *The testnet's chain of four validators.* `BftNode` is explored on a mesh and on stars of
  three; the proofs hold for any links.

## Next

`ChainLinked` and the refinement of `Finality` from `Inv`; `SlotOwned` of `TcpTransport`;
`NoReplay` of `BlockExecution`; `IngestedInOrder` of `Services`; `SlashesAccounted` and
`ReleaseExact` of `Slashing`; `HeightNeverFalls` of `Indexing`; `RefusalEarned` of `Faucet`.
