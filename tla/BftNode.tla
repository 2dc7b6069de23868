------------------------------ MODULE BftNode -------------------------------
(***************************************************************************)
(* A network of BFT validators: the block production loop and the network  *)
(* event loop of node/pemrix-node/src/node.rs on every validator, around   *)
(* the engine of BftEngine, and the messages between validators.           *)
(*                                                                         *)
(* The two loops of a validator share the engine under a mutex.  A step is *)
(* one pass of a handler.  The mutex sections of a handler are merged into *)
(* one step where the other loop cannot change the outcome between them;   *)
(* the one place where it could, between the event loop finalizing on a    *)
(* vote (under the mutex) and its reporting the block (after it), is two   *)
(* steps.                                                                  *)
(*                                                                         *)
(* Messages travel in any order and may be lost: a connection delivers in  *)
(* order, but different connections do not wait for each other, a replaced *)
(* connection drains beside its replacement, and a broken one loses what   *)
(* it held.  A message is consumed when it is handled, so only what the    *)
(* code sends again can arrive again.                                      *)
(***************************************************************************)
EXTENDS BftEngine

CONSTANTS
    Timestamps,    \* values of the clock that a header may carry
    Link,          \* pairs of validators that have a connection
    Rebroadcast,   \* whether the passes that send a proposal again are explored
    MaxLosses,     \* messages that may be lost
    MaxDown,       \* validators that may be down at one time
    Restartable    \* validators that may come back up, once each

ASSUME LinkAssumption ==
    \A l \in Link : l \in (0 .. N - 1) \X (0 .. N - 1) /\ l[1] # l[2]
ASSUME BoundsAssumption ==
    /\ Rebroadcast \in BOOLEAN
    /\ MaxLosses \in Nat /\ MaxDown \in Nat
    /\ Restartable \subseteq 0 .. N - 1

VARIABLES
    engine,      \* the consensus engine of each validator
    producer,    \* block production loop: the height it works on, and whether
                 \*   last_proposed_height is that height
    unreported,  \* block the event loop has finalized and not yet reported
    reported,    \* blocks sent on the channels for finalized blocks
    net,         \* messages in flight
    down,        \* validators that are not running
    losses,      \* how many messages have been lost
    restarted,   \* history: validators that have come back up
    cast,        \* history: blocks each validator has ever voted for
    decided      \* history: blocks finalized by any validator, ever

vars == <<engine, producer, unreported, reported, net, down, losses, restarted,
          cast, decided>>

BlockMsg(to, b) == [type |-> "block", to |-> to, voter |-> b.proposer, block |-> b]
VoteMsg(to, v, b) == [type |-> "vote", to |-> to, voter |-> v, block |-> b]

\* TcpTransport sends to direct peers only, and nothing is relayed.
Peers(n) == {p \in Validator : <<n, p>> \in Link}
LivePeers(n) == Peers(n) \ down
BroadcastBlock(n, b) == {BlockMsg(p, b) : p \in LivePeers(n)}
BroadcastVote(n, b) == {VoteMsg(p, n, b) : p \in LivePeers(n)}

NewProducer == [height |-> 1, proposed |-> FALSE]

Init ==
    /\ engine = [n \in Validator |-> NewEngine]
    /\ producer = [n \in Validator |-> NewProducer]
    /\ unreported = [n \in Validator |-> NoBlock]
    /\ reported = [n \in Validator |-> {}]
    /\ net = {}
    /\ down = {}
    /\ losses = 0
    /\ restarted = {}
    /\ cast = [n \in Validator |-> {}]
    /\ decided = {}

\* finalize_pending on engine e of validator n, ending at height t.
FinalizePending(n, e, t) ==
    /\ t \in PendingHeights(e)
    /\ engine' = [engine EXCEPT ![n] = FinalizeTo(e, t)]
    /\ decided' = decided \cup {e.rounds[h].block : h \in e.height + 1 .. t}

\* A finalized block, if there is one, goes to both channels at once.
ReportNow(n, b) ==
    reported' = [reported EXCEPT ![n] = IF b = NoBlock THEN @ ELSE @ \cup {b}]

-----------------------------------------------------------------------------
(* Block production loop.                                                  *)

\* The engine at the end of the proposing part of the loop, where time is the
\* clock if a proposal is built.
Proposed(n, time) ==
    LET h == producer[n].height
    IN IF producer[n].proposed THEN engine[n]
       ELSE Propose(engine[n], n, BuildBlock(engine[n], n, h, time))

\* One pass of the loop for a validator whose turn it is: propose once, send
\* the block and the vote of the round (again), finalize what can be.
Produce(n, time) ==
    LET h == producer[n].height
        e == Proposed(n, time)
        r == e.rounds[h]
    IN /\ n \notin down
       /\ LivePeers(n) # {}
       /\ h \in Heights
       /\ Proposer(h, 0) = n
       /\ producer[n].proposed => Rebroadcast
       /\ producer' = [producer EXCEPT ![n].proposed = TRUE]
       /\ net' = net \cup BroadcastBlock(n, r.block) \cup BroadcastVote(n, r.votes[n])
       /\ cast' = [cast EXCEPT ![n] = @ \cup {r.votes[n]}]
       /\ \E t \in e.height .. MaxHeight :
            FinalizePending(n, e, t) /\ ReportNow(n, Returned(e, t))
       /\ UNCHANGED <<unreported, down, losses, restarted>>

\* Mutants: the loop moves on without finality, and starts the height over
\* without it.
AdvanceUnfinalized(n) ==
    /\ n \notin down
    /\ producer[n].height \in Heights
    /\ producer' = [producer EXCEPT ![n] = [height |-> @.height + 1,
                                            proposed |-> FALSE]]
    /\ UNCHANGED <<engine, unreported, reported, net, down, losses, restarted,
                   cast, decided>>

AdvanceForgetful(n) ==
    /\ n \notin down
    /\ producer' = [producer EXCEPT ![n] = [height |-> engine[n].height + 1,
                                            proposed |-> FALSE]]
    /\ UNCHANGED <<engine, unreported, reported, net, down, losses, restarted,
                   cast, decided>>

\* After the sleep the loop moves to the height above the engine's, if the
\* engine has finalized the height the loop was at.
Advance(n) ==
    /\ n \notin down
    /\ engine[n].height >= producer[n].height
    /\ producer' = [producer EXCEPT ![n] = [height |-> engine[n].height + 1,
                                            proposed |-> FALSE]]
    /\ UNCHANGED <<engine, unreported, reported, net, down, losses, restarted,
                   cast, decided>>

-----------------------------------------------------------------------------
(* Network event loop: it takes the next event once it has reported.       *)

\* A block arrives: vote for it, send the vote, finalize what can be.
ReceiveBlock(n, m) ==
    LET e == HandleBlock(engine[n], n, m.block)
        votes == BlockGetsVote(engine[n], m.block)
    IN /\ m \in net /\ m.type = "block" /\ m.to = n
       /\ n \notin down
       /\ unreported[n] = NoBlock
       /\ net' = (net \ {m}) \cup (IF votes THEN BroadcastVote(n, m.block) ELSE {})
       /\ cast' = [cast EXCEPT ![n] = IF votes THEN @ \cup {m.block} ELSE @]
       /\ \E t \in e.height .. MaxHeight :
            FinalizePending(n, e, t) /\ ReportNow(n, Returned(e, t))
       /\ UNCHANGED <<producer, unreported, down, losses, restarted>>

\* A vote arrives: count it if it is valid, finalize what can be.  The block
\* to report is kept for the next step.
ReceiveVote(n, m) ==
    LET e == HandleVote(engine[n], m)
    IN /\ m \in net /\ m.type = "vote" /\ m.to = n
       /\ n \notin down
       /\ unreported[n] = NoBlock
       /\ net' = net \ {m}
       /\ \E t \in e.height .. MaxHeight :
            /\ FinalizePending(n, e, t)
            /\ unreported' = [unreported EXCEPT ![n] = Returned(e, t)]
       /\ UNCHANGED <<producer, reported, down, losses, restarted, cast>>

\* The event loop reports the block it has finalized.
Report(n) ==
    /\ n \notin down
    /\ unreported[n] # NoBlock
    /\ ReportNow(n, unreported[n])
    /\ unreported' = [unreported EXCEPT ![n] = NoBlock]
    /\ UNCHANGED <<engine, producer, net, down, losses, restarted, cast, decided>>

-----------------------------------------------------------------------------
(* Faults.                                                                 *)

\* A message is lost with the connection that held it, or was sent before the
\* receiver had connected.
Lose(m) ==
    /\ losses < MaxLosses
    /\ losses' = losses + 1
    /\ net' = net \ {m}
    /\ UNCHANGED <<engine, producer, unreported, reported, down, restarted,
                   cast, decided>>

\* A validator goes down, with all of its state: height, rounds and votes are
\* kept in memory only.
Crash(n) ==
    /\ n \notin down
    /\ Cardinality(down) < MaxDown
    /\ down' = down \cup {n}
    /\ net' = {m \in net : m.to # n}
    /\ UNCHANGED <<engine, producer, unreported, reported, losses, restarted,
                   cast, decided>>

\* run_bft_validator starts over from the genesis hash at height 0.
Restart(n) ==
    /\ n \in down
    /\ n \in Restartable \ restarted
    /\ restarted' = restarted \cup {n}
    /\ down' = down \ {n}
    /\ engine' = [engine EXCEPT ![n] = NewEngine]
    /\ producer' = [producer EXCEPT ![n] = NewProducer]
    /\ unreported' = [unreported EXCEPT ![n] = NoBlock]
    /\ reported' = [reported EXCEPT ![n] = {}]
    /\ UNCHANGED <<net, losses, cast, decided>>

-----------------------------------------------------------------------------
Next ==
    \/ \E n \in Validator :
         \/ \E time \in Timestamps : Produce(n, time)
         \/ Advance(n)
         \/ \E m \in net : ReceiveBlock(n, m) \/ ReceiveVote(n, m)
         \/ Report(n)
         \/ Crash(n)
         \/ Restart(n)
    \/ \E m \in net : Lose(m)

Spec == Init /\ [][Next]_vars

-----------------------------------------------------------------------------
(* Fairness.  Every task of a running validator is scheduled again and     *)
(* again, and a connected peer's messages arrive: tokio runs every ready   *)
(* task, the production loop sleeps for a bounded time, and the event loop *)
(* takes events in arrival order.                                          *)

ReceiveBlockAt(n) == \E m \in net : ReceiveBlock(n, m)
ReceiveVoteFrom(n, v, h) ==
    \E m \in net : m.voter = v /\ m.block.height = h /\ ReceiveVote(n, m)

Fairness ==
    \A n \in Validator :
        /\ WF_vars(\E time \in Timestamps : Produce(n, time))
        /\ WF_vars(Advance(n))
        /\ WF_vars(Report(n))
        /\ WF_vars(ReceiveBlockAt(n))
        /\ \A v \in Validator \ {n}, h \in Heights : WF_vars(ReceiveVoteFrom(n, v, h))

FairSpec == Spec /\ Fairness

-----------------------------------------------------------------------------
(* Properties.                                                             *)

IsBlock(b) ==
    /\ DOMAIN b = {"height", "timestamp", "previousHash", "proposer"}
    /\ b.height \in Heights
    /\ b.timestamp \in Timestamps
    /\ b.proposer = Proposer(b.height, 0)

\* A slot of the round for height h.
IsSlot(b, h) == b = NoBlock \/ (IsBlock(b) /\ b.height = h)

RoundOK(r, h) ==
    /\ DOMAIN r = {"proposal", "block", "votes", "finalized"}
    /\ IsSlot(r.proposal, h) /\ IsSlot(r.block, h)
    /\ DOMAIN r.votes = Validator
    /\ \A v \in Validator : IsSlot(r.votes[v], h)
    /\ r.finalized \in BOOLEAN

EngineOK(e) ==
    /\ DOMAIN e = {"height", "previousHash", "rounds", "finalized", "voted"}
    /\ e.height \in 0 .. MaxHeight
    /\ DOMAIN e.rounds = Heights /\ DOMAIN e.finalized = Heights
    /\ \A h \in Heights : RoundOK(e.rounds[h], h) /\ IsSlot(e.finalized[h], h)
    /\ e.voted \subseteq Heights

IsMsg(m) ==
    /\ DOMAIN m = {"type", "to", "voter", "block"}
    /\ m.type \in {"block", "vote"}
    /\ m.to \in Validator /\ m.voter \in Validator
    /\ IsBlock(m.block)

\* The state of every validator and every message in flight has the shape the
\* Rust types give it, and a round of height h only ever holds blocks and
\* votes of height h.
TypeOK ==
    /\ DOMAIN engine = Validator
    /\ \A n \in Validator : EngineOK(engine[n])
    /\ producer \in [Validator -> [height : 1 .. MaxHeight + 1, proposed : BOOLEAN]]
    /\ DOMAIN unreported = Validator /\ DOMAIN reported = Validator
    /\ DOMAIN cast = Validator
    /\ \A n \in Validator :
         /\ unreported[n] = NoBlock \/ IsBlock(unreported[n])
         /\ \A b \in reported[n] \cup cast[n] : IsBlock(b)
    /\ \A m \in net : IsMsg(m)
    /\ down \subseteq Validator
    /\ losses \in 0 .. MaxLosses
    /\ restarted \subseteq Restartable
    /\ \A b \in decided : IsBlock(b)

\* Deterministic finality: no two blocks of one height are ever finalized, by
\* one validator or by two.
Agreement == \A b, c \in decided : b.height = c.height => b = c

\* Heights whose proposer has run without a restart.
Stable(h) == Proposer(h, 0) \notin restarted

\* Finality up to restarts of proposers: whatever is lost, whoever stops and
\* whoever else restarts, no two blocks of one height are finalized unless the
\* height's proposer has restarted.  Nothing but the production loop's
\* last_proposed_height keeps a proposer from proposing twice.
StableAgreement ==
    \A b, c \in decided : b.height = c.height /\ Stable(b.height) => b = c

\* The blocks a validator has finalized form a chain from the genesis hash,
\* though handle_block and try_finalize never look at previous_hash.
ChainLinked ==
    \A n \in Validator : \A h \in 1 .. engine[n].height :
        Stable(h) /\ (h = 1 \/ Stable(h - 1)) =>
            engine[n].finalized[h].previousHash =
                IF h = 1 THEN GenesisHash ELSE engine[n].finalized[h - 1]

\* A block is finalized only when a quorum has voted for that very block,
\* though has_quorum counts the votes of a round without looking at what they
\* are for.
QuorumBacked ==
    \A b \in decided :
        Stable(b.height) => \E Q \in Quorums : \A v \in Q : b \in cast[v]

\* A validator that does not restart never votes for two blocks of one height,
\* even when the proposer restarts and proposes another, and though
\* try_finalize drops the record that it has voted there.
VoteOnce ==
    \A n \in Validator \ restarted :
        \A b, c \in cast[n] : b.height = c.height => b = c

\* Seen from outside, with no restarts, the validators implement Finality:
\* finalizing, out of order and several heights at a time, only ever extends
\* one common chain.
Log(n) == [h \in 1 .. engine[n].height |-> engine[n].finalized[h]]
Abstract == INSTANCE Finality
              WITH Node <- Validator, Genesis <- GenesisHash,
                   log <- [n \in Validator |-> Log(n)]
RefinesFinality == Abstract!Spec

\* The block a validator has finalized last has been sent to the services or
\* is about to be, whichever loop finalized it, and though finalize_pending may
\* finalize several and returns one.  Earlier ones may go unreported.
LatestReported ==
    \A n \in Validator :
        LET e == engine[n]
        IN e.height > 0 => e.finalized[e.height] \in reported[n] \cup {unreported[n]}

-----------------------------------------------------------------------------
(* Liveness.                                                               *)

HasProposed(n, h) ==
    /\ Proposer(h, 0) = n
    /\ engine[n].rounds[h].block # NoBlock

\* The validators whose vote for n's proposal of height h is on record nowhere
\* but with themselves: a follower never sends its vote again.
VotesLost(n, h) ==
    LET r == engine[n].rounds[h]
    IN {v \in Validator : /\ r.block \in cast[v] /\ r.votes[v] = NoBlock
                          /\ VoteMsg(n, v, r.block) \notin net}

\* A validator that has proposed a block finalizes it, as long as it runs and
\* so does a quorum whose votes are not lost: whichever blocks are lost, sending
\* the proposal again makes up for it (comment on the production loop).
ProposalsFinalize ==
    \A n \in Validator, h \in Heights :
        HasProposed(n, h) ~> \/ engine[n].height >= h
                             \/ n \in down
                             \/ Validator \ (down \cup VotesLost(n, h)) \notin Quorums
=============================================================================
