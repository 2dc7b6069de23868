--------------------------- MODULE BftNodeProofs ----------------------------
EXTENDS BftNode, TLAPS

(***************************************************************************)
(* What each engine operation does to the fields of an engine.             *)
(***************************************************************************)

\* A block is not the missing block.
LEMMA NoBlockIsNoBlock == ASSUME NEW b, IsBlock(b) PROVE b # NoBlock
BY DEF IsBlock, NoBlock, Heights

\* A round keeps its shape when a block is stored.
LEMMA StoreBlockOK ==
    ASSUME NEW h \in Heights, NEW r, RoundOK(r, h), NEW b, IsBlock(b), b.height = h
    PROVE  RoundOK(StoreBlock(r, b), h)
BY DEF RoundOK, StoreBlock, IsSlot

\* And when a vote is.
LEMMA StoreVoteOK ==
    ASSUME NEW h \in Heights, NEW r, RoundOK(r, h), NEW v \in Validator,
           NEW b, IsBlock(b), b.height = h
    PROVE  RoundOK(StoreVote(r, v, b), h)
BY DEF RoundOK, StoreVote, IsSlot

\* A round with a block and a vote for it stored.
LEMMA StoredFacts ==
    ASSUME NEW r, DOMAIN r.votes = Validator, NEW n \in Validator, NEW b,
           NEW q, q = StoreVote(StoreBlock(r, b), n, b)
    PROVE  /\ q.block = b /\ q.votes[n] = b
           /\ \A v \in Validator : v # n => q.votes[v] = r.votes[v]
<1>1. StoreBlock(r, b).votes = r.votes /\ StoreBlock(r, b).block = b
  BY DEF StoreBlock
<1>2. q.block = b /\ q.votes = [r.votes EXCEPT ![n] = b]
  BY <1>1 DEF StoreVote
<1>3. QED
  BY <1>2

\* propose, and handle_block where it votes.
LEMMA RecordVoteFacts ==
    ASSUME NEW e, EngineOK(e), NEW b, IsBlock(b), NEW n \in Validator,
           NEW f, f = RecordVote(e, n, b)
    PROVE  /\ EngineOK(f)
           /\ f.height = e.height /\ f.previousHash = e.previousHash
           /\ f.finalized = e.finalized
           /\ f.voted = e.voted \cup {b.height}
           /\ f.rounds[b.height] = StoreVote(StoreBlock(e.rounds[b.height], b), n, b)
           /\ \A h \in Heights : h # b.height => f.rounds[h] = e.rounds[h]
<1> DEFINE k == b.height
           r == StoreVote(StoreBlock(e.rounds[k], b), n, b)
<1>1. k \in Heights
  BY DEF IsBlock
<1>2. RoundOK(r, k)
  BY <1>1, StoreBlockOK, StoreVoteOK DEF EngineOK
<1> HIDE DEF r
<1>3. f = [[e EXCEPT !.rounds = [e.rounds EXCEPT ![k] = r]] EXCEPT !.voted = e.voted \cup {k}]
  BY DEF RecordVote, EngineOK, r
<1>4. QED
  BY <1>1, <1>2, <1>3 DEF EngineOK, r

\* handle_block where the validator has already voted.
LEMMA StoreBlockFacts ==
    ASSUME NEW e, EngineOK(e), NEW b, IsBlock(b),
           NEW f, f = ReplaceBlock(e, b)
    PROVE  /\ EngineOK(f)
           /\ f.height = e.height /\ f.previousHash = e.previousHash
           /\ f.finalized = e.finalized /\ f.voted = e.voted
           /\ f.rounds[b.height] = StoreBlock(e.rounds[b.height], b)
           /\ \A h \in Heights : h # b.height => f.rounds[h] = e.rounds[h]
<1> DEFINE k == b.height
           r == StoreBlock(e.rounds[k], b)
<1>1. k \in Heights
  BY DEF IsBlock
<1>2. RoundOK(r, k)
  BY <1>1, StoreBlockOK DEF EngineOK
<1> HIDE DEF r
<1>3. f = [e EXCEPT !.rounds = [e.rounds EXCEPT ![k] = r]]
  BY DEF ReplaceBlock, EngineOK, r
<1>4. QED
  BY <1>1, <1>2, <1>3 DEF EngineOK, r

\* handle_block: f is what the call leaves of e.
BlockHandled(e, n, b, f) ==
    /\ EngineOK(f)
    /\ f.height = e.height /\ f.previousHash = e.previousHash
    /\ f.finalized = e.finalized
    /\ f.voted = IF BlockGetsVote(e, b) THEN e.voted \cup {b.height} ELSE e.voted
    /\ \A h \in Heights :
         /\ f.rounds[h].block = e.rounds[h].block \/ f.rounds[h].block = b
         /\ \A v \in Validator :
              \/ f.rounds[h].votes[v] = e.rounds[h].votes[v]
              \/ v = n /\ BlockGetsVote(e, b) /\ f.rounds[h].votes[v] = b

\* handle_block, in terms of what it may do to each round.
LEMMA HandleBlockFacts ==
    ASSUME NEW e, EngineOK(e), NEW b, IsBlock(b), NEW n \in Validator
    PROVE  BlockHandled(e, n, b, HandleBlock(e, n, b))
<1> DEFINE f == HandleBlock(e, n, b)
<1>1. b.height \in Heights
  BY DEF IsBlock
<1>2. CASE ~ValidateProposal(e, b)
  BY <1>2 DEF HandleBlock, BlockGetsVote, BlockHandled
<1>3. CASE BlockGetsVote(e, b)
  <2>1. f = RecordVote(e, n, b)
    BY <1>3 DEF HandleBlock, BlockGetsVote
  <2> HIDE DEF f
  <2>2. /\ EngineOK(f)
        /\ f.height = e.height /\ f.previousHash = e.previousHash
        /\ f.finalized = e.finalized
        /\ f.voted = e.voted \cup {b.height}
        /\ f.rounds[b.height] = StoreVote(StoreBlock(e.rounds[b.height], b), n, b)
        /\ \A h \in Heights : h # b.height => f.rounds[h] = e.rounds[h]
    BY <2>1, RecordVoteFacts
  <2>3. DOMAIN e.rounds[b.height].votes = Validator
    BY <1>1 DEF EngineOK, RoundOK
  <2>4. QED
    <3>1. BlockHandled(e, n, b, f)
      BY <1>1, <1>3, <2>2, <2>3 DEF StoreVote, StoreBlock, BlockHandled
    <3>2. QED
      BY <3>1 DEF f
<1>4. CASE ValidateProposal(e, b) /\ ~BlockGetsVote(e, b)
  <2>1. f = ReplaceBlock(e, b)
    BY <1>4 DEF HandleBlock, BlockGetsVote
  <2> HIDE DEF f
  <2>2. /\ EngineOK(f)
        /\ f.height = e.height /\ f.previousHash = e.previousHash
        /\ f.finalized = e.finalized /\ f.voted = e.voted
        /\ f.rounds[b.height] = StoreBlock(e.rounds[b.height], b)
        /\ \A h \in Heights : h # b.height => f.rounds[h] = e.rounds[h]
    BY <2>1, StoreBlockFacts
  <2>3. QED
    <3>1. BlockHandled(e, n, b, f)
      BY <1>1, <1>4, <2>2 DEF StoreBlock, BlockHandled
    <3>2. QED
      BY <3>1 DEF f
<1>5. QED
  BY <1>2, <1>3, <1>4

\* handle_vote.
VoteHandled(e, m, f) ==
    /\ EngineOK(f)
    /\ f.height = e.height /\ f.previousHash = e.previousHash
    /\ f.finalized = e.finalized /\ f.voted = e.voted
    /\ \A h \in Heights :
         /\ f.rounds[h].block = e.rounds[h].block
         /\ \A v \in Validator :
              \/ f.rounds[h].votes[v] = e.rounds[h].votes[v]
              \/ v = m.voter /\ f.rounds[h].votes[v] = m.block

\* handle_vote, likewise.
LEMMA HandleVoteFacts ==
    ASSUME NEW e, EngineOK(e), NEW m, IsMsg(m)
    PROVE  VoteHandled(e, m, HandleVote(e, m))
<1> DEFINE f == HandleVote(e, m)
           k == m.block.height
           r == StoreVote(e.rounds[k], m.voter, m.block)
<1>1. k \in Heights /\ m.voter \in Validator /\ IsBlock(m.block)
  BY DEF IsBlock, IsMsg
<1>2. RoundOK(r, k)
  BY <1>1, StoreVoteOK DEF EngineOK
<1>3. CASE ~ValidateVote(e, m)
  BY <1>3 DEF HandleVote, VoteHandled
<1>4. CASE ValidateVote(e, m)
  <2> HIDE DEF r
  <2>1. f = [e EXCEPT !.rounds = [e.rounds EXCEPT ![k] = r]]
    BY <1>4 DEF HandleVote, EngineOK, r
  <2> HIDE DEF f
  <2>2. /\ EngineOK(f)
        /\ f.height = e.height /\ f.previousHash = e.previousHash
        /\ f.finalized = e.finalized /\ f.voted = e.voted
        /\ f.rounds[k] = r
        /\ \A h \in Heights : h # k => f.rounds[h] = e.rounds[h]
    BY <1>1, <1>2, <2>1 DEF EngineOK
  <2>3. QED
    <3>1. VoteHandled(e, m, f)
      BY <1>1, <2>2 DEF r, StoreVote, EngineOK, RoundOK, VoteHandled
    <3>2. QED
      BY <3>1 DEF f
<1>5. QED
  BY <1>3, <1>4

\* finalize_pending.
LEMMA FinalizeToFacts ==
    ASSUME NEW e, EngineOK(e), NEW t \in PendingHeights(e), NEW f, f = FinalizeTo(e, t)
    PROVE  /\ EngineOK(f)
           /\ t \in e.height .. MaxHeight
           /\ f.height = t
           /\ f.previousHash = IF t > e.height THEN e.rounds[t].block ELSE e.previousHash
           /\ f.voted = e.voted \ (e.height + 1 .. t)
           /\ \A h \in Heights :
                /\ f.rounds[h].proposal = e.rounds[h].proposal
                /\ f.rounds[h].block = e.rounds[h].block
                /\ f.rounds[h].votes = e.rounds[h].votes
                /\ f.finalized[h] = IF h \in e.height + 1 .. t THEN e.rounds[h].block
                                                               ELSE e.finalized[h]
           /\ \A h \in e.height + 1 .. t :
                h \in Heights /\ e.rounds[h].block # NoBlock
                /\ Voters(e.rounds[h]) \in Quorums
<1>1. /\ t \in e.height .. MaxHeight
      /\ \A h \in e.height + 1 .. t : Finalizable(e.rounds[h])
  BY DEF PendingHeights
<1>2. \A h \in e.height + 1 .. t :
        h \in Heights /\ e.rounds[h].block # NoBlock /\ Voters(e.rounds[h]) \in Quorums
  BY <1>1, MaxHeightAssumption DEF Finalizable, HasQuorum, EngineOK, Heights
<1>3. \A h \in Heights :
        /\ RoundOK(f.rounds[h], h)
        /\ f.rounds[h].proposal = e.rounds[h].proposal
        /\ f.rounds[h].block = e.rounds[h].block
        /\ f.rounds[h].votes = e.rounds[h].votes
  <2> TAKE h \in Heights
  <2>1. RoundOK(e.rounds[h], h)
    BY DEF EngineOK
  <2>2. f.rounds[h] = e.rounds[h] \/ f.rounds[h] = [e.rounds[h] EXCEPT !.finalized = TRUE]
    BY DEF FinalizeTo
  <2>3. QED
    BY <2>1, <2>2 DEF RoundOK
<1>4. /\ f.height = t
      /\ f.previousHash = IF t > e.height THEN e.rounds[t].block ELSE e.previousHash
      /\ f.voted = e.voted \ (e.height + 1 .. t)
      /\ DOMAIN f = {"height", "previousHash", "rounds", "finalized", "voted"}
      /\ DOMAIN f.rounds = Heights /\ DOMAIN f.finalized = Heights
      /\ \A h \in Heights : f.finalized[h] = IF h \in e.height + 1 .. t
                                              THEN e.rounds[h].block ELSE e.finalized[h]
  BY DEF FinalizeTo
<1>5. f.height \in 0 .. MaxHeight /\ f.voted \subseteq Heights
  BY <1>1, <1>4, MaxHeightAssumption DEF EngineOK
<1>6. \A h \in Heights : IsSlot(f.finalized[h], h)
  BY <1>4 DEF EngineOK, RoundOK
<1>7. EngineOK(f)
  BY <1>3, <1>4, <1>5, <1>6 DEF EngineOK
<1>8. QED
  BY <1>1, <1>2, <1>3, <1>4, <1>7

(***************************************************************************)
(* Type correctness.  TypeOK alone is not inductive: a pass of the         *)
(* production loop that sends an earlier proposal again sends what the     *)
(* round holds, so the round must hold a block and a vote by then.         *)
(***************************************************************************)
ProposedHeld ==
    \A n \in Validator : producer[n].proposed =>
        /\ producer[n].height \in Heights
        /\ engine[n].rounds[producer[n].height].block # NoBlock
        /\ engine[n].rounds[producer[n].height].votes[n] # NoBlock

TypeInv == TypeOK /\ ProposedHeld

\* The proposing part of the production loop: the round it leaves holds a
\* block and the proposer's own vote.
LEMMA ProposedFacts ==
    ASSUME TypeInv, NEW n \in Validator, NEW time \in Timestamps,
           producer[n].height \in Heights, Proposer(producer[n].height, 0) = n,
           NEW e, e = Proposed(n, time)
    PROVE  /\ EngineOK(e)
           /\ IsBlock(e.rounds[producer[n].height].block)
           /\ IsBlock(e.rounds[producer[n].height].votes[n])
<1> DEFINE h == producer[n].height
           b == BuildBlock(engine[n], n, h, time)
<1>1. EngineOK(engine[n])
  BY DEF TypeInv, TypeOK
<1>2. CASE producer[n].proposed
  BY <1>1, <1>2 DEF Proposed, TypeInv, ProposedHeld, EngineOK, RoundOK, IsSlot
<1>3. CASE ~producer[n].proposed
  <2>1. IsBlock(b) /\ b.height = h
    BY DEF IsBlock, BuildBlock
  <2>2. e = RecordVote(engine[n], n, b)
    BY <1>3 DEF Proposed, Propose
  <2> HIDE DEF b
  <2>3. EngineOK(e) /\ e.rounds[h] = StoreVote(StoreBlock(engine[n].rounds[h], b), n, b)
    BY <1>1, <2>1, <2>2, RecordVoteFacts
  <2>4. DOMAIN engine[n].rounds[h].votes = Validator
    BY <1>1 DEF EngineOK, RoundOK
  <2>5. e.rounds[h].block = b /\ e.rounds[h].votes[n] = b
    BY <2>3, <2>4, StoredFacts
  <2>6. QED
    BY <2>1, <2>3, <2>5
<1>4. QED
  BY <1>2, <1>3

\* finalize_pending leaves a well-formed engine and finalizes real blocks.
LEMMA FinalizePendingFacts ==
    ASSUME TypeOK, NEW n \in Validator, NEW e, EngineOK(e), NEW t, FinalizePending(n, e, t)
    PROVE  /\ DOMAIN engine' = Validator
           /\ \A m \in Validator : EngineOK(engine'[m])
           /\ \A m \in Validator : m # n => engine'[m] = engine[m]
           /\ engine'[n] = FinalizeTo(e, t)
           /\ t \in PendingHeights(e)
           /\ Returned(e, t) = NoBlock \/ IsBlock(Returned(e, t))
           /\ \A b \in decided' : IsBlock(b)
           /\ \A h \in Heights : /\ engine'[n].rounds[h].block = e.rounds[h].block
                                  /\ engine'[n].rounds[h].votes = e.rounds[h].votes
<1>1. t \in PendingHeights(e) /\ engine' = [engine EXCEPT ![n] = FinalizeTo(e, t)]
      /\ decided' = decided \cup {e.rounds[h].block : h \in e.height + 1 .. t}
  BY DEF FinalizePending
<1>2. engine'[n] = FinalizeTo(e, t) /\ DOMAIN engine' = Validator
      /\ \A m \in Validator : m # n => engine'[m] = engine[m]
  BY <1>1 DEF TypeOK
<1>3. /\ EngineOK(engine'[n])
      /\ t \in e.height .. MaxHeight
      /\ \A h \in e.height + 1 .. t : h \in Heights /\ e.rounds[h].block # NoBlock
      /\ \A h \in Heights : /\ engine'[n].rounds[h].block = e.rounds[h].block
                             /\ engine'[n].rounds[h].votes = e.rounds[h].votes
  BY <1>1, <1>2, FinalizeToFacts
<1>4. \A h \in e.height + 1 .. t : IsBlock(e.rounds[h].block)
  BY <1>3 DEF EngineOK, RoundOK, IsSlot
<1>5. Returned(e, t) = NoBlock \/ IsBlock(Returned(e, t))
  BY <1>3, <1>4, MaxHeightAssumption DEF Returned, EngineOK
<1>6. \A b \in decided' : IsBlock(b)
  BY <1>1, <1>4 DEF TypeOK
<1>7. QED
  BY <1>1, <1>2, <1>3, <1>5, <1>6 DEF TypeOK

\* The proposer of a height is a validator.
LEMMA ProposerType == \A h \in Heights : Proposer(h, 0) \in Validator
<1> SUFFICES ASSUME NEW h \in Heights PROVE Proposer(h, 0) \in Validator
  OBVIOUS
<1>1. h \in Int /\ h + 0 = h
  BY DEF Heights
<1>2. h % N \in 0 .. N - 1
  BY <1>1, NAssumption
<1>3. QED
  BY <1>1, <1>2 DEF Proposer, Validator

\* A broadcast sends well-formed messages.
LEMMA BroadcastOK ==
    ASSUME NEW n \in Validator, NEW b, IsBlock(b)
    PROVE  \A m \in BroadcastBlock(n, b) \cup BroadcastVote(n, b) : IsMsg(m)
<1>1. b.proposer \in Validator
  BY ProposerType DEF IsBlock
<1>2. \A p \in Validator : IsMsg(BlockMsg(p, b)) /\ IsMsg(VoteMsg(p, n, b))
  BY <1>1 DEF BlockMsg, VoteMsg, IsMsg
<1>3. QED
  BY <1>2 DEF BroadcastBlock, BroadcastVote, LivePeers, Peers

\* Reporting a block keeps reports well-formed.
LEMMA ReportNowOK ==
    ASSUME TypeOK, NEW n \in Validator, NEW b, b = NoBlock \/ IsBlock(b), ReportNow(n, b)
    PROVE  /\ DOMAIN reported' = Validator
           /\ \A m \in Validator : \A c \in reported'[m] : IsBlock(c)
BY DEF ReportNow, TypeOK

\* A pass of the production loop keeps the types.
LEMMA ProduceType ==
    ASSUME TypeInv, NEW n \in Validator, NEW time \in Timestamps, Produce(n, time)
    PROVE  TypeInv'
<1> DEFINE h == producer[n].height
           e == Proposed(n, time)
           r == e.rounds[h]
<1>1. h \in Heights /\ Proposer(h, 0) = n
  BY DEF Produce
<1>2. EngineOK(e) /\ IsBlock(r.block) /\ IsBlock(r.votes[n])
  BY <1>1, ProposedFacts
<1>3. PICK t \in e.height .. MaxHeight : FinalizePending(n, e, t) /\ ReportNow(n, Returned(e, t))
  BY DEF Produce
<1>4. /\ producer' = [producer EXCEPT ![n].proposed = TRUE]
      /\ net' = net \cup BroadcastBlock(n, r.block) \cup BroadcastVote(n, r.votes[n])
      /\ cast' = [cast EXCEPT ![n] = @ \cup {r.votes[n]}]
      /\ UNCHANGED <<unreported, down, losses, restarted>>
  BY DEF Produce
<1> HIDE DEF e
<1>5. TypeOK
  BY DEF TypeInv
<1>6. /\ DOMAIN engine' = Validator
      /\ \A m \in Validator : EngineOK(engine'[m])
      /\ \A m \in Validator : m # n => engine'[m] = engine[m]
      /\ Returned(e, t) = NoBlock \/ IsBlock(Returned(e, t))
      /\ \A b \in decided' : IsBlock(b)
      /\ \A k \in Heights : /\ engine'[n].rounds[k].block = e.rounds[k].block
                             /\ engine'[n].rounds[k].votes = e.rounds[k].votes
  BY <1>2, <1>3, <1>5, FinalizePendingFacts
<1>7. /\ DOMAIN reported' = Validator
      /\ \A m \in Validator : \A c \in reported'[m] : IsBlock(c)
  BY <1>3, <1>5, <1>6, ReportNowOK
<1>8. \A m \in net' : IsMsg(m)
  BY <1>2, <1>4, <1>5, BroadcastOK DEF TypeOK
<1>9. /\ DOMAIN cast' = Validator
      /\ \A m \in Validator : \A c \in cast'[m] : IsBlock(c)
  BY <1>2, <1>4, <1>5 DEF TypeOK
<1>10. /\ producer' \in [Validator -> [height : 1 .. MaxHeight + 1, proposed : BOOLEAN]]
       /\ producer'[n].height = h
       /\ \A m \in Validator : m # n => producer'[m] = producer[m]
  BY <1>4, <1>5 DEF TypeOK
<1>11. TypeOK'
  BY <1>4, <1>5, <1>6, <1>7, <1>8, <1>9, <1>10 DEF TypeOK
<1>12. ProposedHeld'
  <2> SUFFICES ASSUME NEW m \in Validator, producer'[m].proposed
               PROVE  /\ producer'[m].height \in Heights
                      /\ engine'[m].rounds[producer'[m].height].block # NoBlock
                      /\ engine'[m].rounds[producer'[m].height].votes[m] # NoBlock
    BY DEF ProposedHeld
  <2>1. CASE m = n
    <3>1. engine'[n].rounds[h].block = r.block /\ engine'[n].rounds[h].votes = r.votes
      BY <1>1, <1>6
    <3>2. QED
      BY <1>1, <1>2, <1>10, <2>1, <3>1, NoBlockIsNoBlock
  <2>2. CASE m # n
    BY <1>6, <1>10, <2>2 DEF ProposedHeld, TypeInv
  <2>3. QED
    BY <2>1, <2>2
<1>13. QED
  BY <1>11, <1>12 DEF TypeInv

\* The part the two receiving handlers have in common: an engine whose rounds
\* keep what they hold, and a production loop that does not move.
LEMMA HeldStays ==
    ASSUME TypeInv, NEW n \in Validator, producer' = producer, NEW e,
           \A m \in Validator : m # n => engine'[m] = engine[m],
           \A k \in Heights : /\ engine'[n].rounds[k].block = e.rounds[k].block
                              /\ engine'[n].rounds[k].votes = e.rounds[k].votes,
           \A k \in Heights :
              /\ engine[n].rounds[k].block # NoBlock => e.rounds[k].block # NoBlock
              /\ engine[n].rounds[k].votes[n] # NoBlock => e.rounds[k].votes[n] # NoBlock
    PROVE  ProposedHeld'
<1> SUFFICES ASSUME NEW m \in Validator, producer[m].proposed
             PROVE  /\ producer[m].height \in Heights
                    /\ engine'[m].rounds[producer[m].height].block # NoBlock
                    /\ engine'[m].rounds[producer[m].height].votes[m] # NoBlock
  BY DEF ProposedHeld
<1>1. CASE m = n
  BY <1>1 DEF ProposedHeld, TypeInv
<1>2. CASE m # n
  BY <1>2 DEF ProposedHeld, TypeInv
<1>3. QED
  BY <1>1, <1>2

\* So does a block that arrives.
LEMMA ReceiveBlockType ==
    ASSUME TypeInv, NEW n \in Validator, NEW m, ReceiveBlock(n, m)
    PROVE  TypeInv'
<1> DEFINE b == m.block
           e == HandleBlock(engine[n], n, b)
<1>1. TypeOK /\ EngineOK(engine[n])
  BY DEF TypeInv, TypeOK
<1>2. IsBlock(b)
  BY <1>1 DEF ReceiveBlock, TypeOK, IsMsg
<1>3. PICK t \in e.height .. MaxHeight : FinalizePending(n, e, t) /\ ReportNow(n, Returned(e, t))
  BY DEF ReceiveBlock
<1>4. /\ \A c \in net' : c \in net \/ c \in BroadcastVote(n, b)
      /\ cast' = [cast EXCEPT ![n] = @ \cup {b}] \/ cast' = [cast EXCEPT ![n] = @]
      /\ UNCHANGED <<producer, unreported, down, losses, restarted>>
  BY DEF ReceiveBlock
<1> HIDE DEF b, e
<1>5. BlockHandled(engine[n], n, b, e) /\ EngineOK(e)
  <2>1. BlockHandled(engine[n], n, b, e)
    BY <1>1, <1>2, HandleBlockFacts DEF e
  <2>2. QED
    BY <2>1 DEF BlockHandled
<1>6. /\ DOMAIN engine' = Validator
      /\ \A k \in Validator : EngineOK(engine'[k])
      /\ \A k \in Validator : k # n => engine'[k] = engine[k]
      /\ Returned(e, t) = NoBlock \/ IsBlock(Returned(e, t))
      /\ \A c \in decided' : IsBlock(c)
      /\ \A k \in Heights : /\ engine'[n].rounds[k].block = e.rounds[k].block
                             /\ engine'[n].rounds[k].votes = e.rounds[k].votes
  BY <1>1, <1>3, <1>5, FinalizePendingFacts
<1>7. /\ DOMAIN reported' = Validator
      /\ \A k \in Validator : \A c \in reported'[k] : IsBlock(c)
  BY <1>1, <1>3, <1>6, ReportNowOK
<1>8. \A c \in net' : IsMsg(c)
  BY <1>1, <1>2, <1>4, BroadcastOK DEF TypeOK
<1>9. /\ DOMAIN cast' = Validator
      /\ \A k \in Validator : \A c \in cast'[k] : IsBlock(c)
  BY <1>1, <1>2, <1>4 DEF TypeOK
<1>10. TypeOK'
  BY <1>1, <1>4, <1>6, <1>7, <1>8, <1>9 DEF TypeOK
<1>11. ProposedHeld'
  <2>1. \A k \in Heights :
          /\ engine[n].rounds[k].block # NoBlock => e.rounds[k].block # NoBlock
          /\ engine[n].rounds[k].votes[n] # NoBlock => e.rounds[k].votes[n] # NoBlock
    BY <1>2, <1>5, NoBlockIsNoBlock DEF BlockHandled
  <2>2. producer' = producer
    BY <1>4
  <2>3. QED
    BY <1>6, <2>1, <2>2, HeldStays
<1>12. QED
  BY <1>10, <1>11 DEF TypeInv

\* So does a vote that arrives.
LEMMA ReceiveVoteType ==
    ASSUME TypeInv, NEW n \in Validator, NEW m, ReceiveVote(n, m)
    PROVE  TypeInv'
<1> DEFINE e == HandleVote(engine[n], m)
<1>1. TypeOK /\ EngineOK(engine[n])
  BY DEF TypeInv, TypeOK
<1>2. IsMsg(m) /\ IsBlock(m.block)
  BY <1>1 DEF ReceiveVote, TypeOK, IsMsg
<1>3. PICK t \in e.height .. MaxHeight :
        FinalizePending(n, e, t) /\ unreported' = [unreported EXCEPT ![n] = Returned(e, t)]
  BY DEF ReceiveVote
<1>4. /\ net' = net \ {m}
      /\ UNCHANGED <<producer, reported, down, losses, restarted, cast>>
  BY DEF ReceiveVote
<1> HIDE DEF e
<1>5. VoteHandled(engine[n], m, e) /\ EngineOK(e)
  BY <1>1, <1>2, HandleVoteFacts DEF e, VoteHandled
<1>6. /\ DOMAIN engine' = Validator
      /\ \A k \in Validator : EngineOK(engine'[k])
      /\ \A k \in Validator : k # n => engine'[k] = engine[k]
      /\ Returned(e, t) = NoBlock \/ IsBlock(Returned(e, t))
      /\ \A c \in decided' : IsBlock(c)
      /\ \A k \in Heights : /\ engine'[n].rounds[k].block = e.rounds[k].block
                             /\ engine'[n].rounds[k].votes = e.rounds[k].votes
  BY <1>1, <1>3, <1>5, FinalizePendingFacts
<1>7. TypeOK'
  BY <1>1, <1>3, <1>4, <1>6 DEF TypeOK
<1>8. ProposedHeld'
  <2>1. \A k \in Heights :
          /\ engine[n].rounds[k].block # NoBlock => e.rounds[k].block # NoBlock
          /\ engine[n].rounds[k].votes[n] # NoBlock => e.rounds[k].votes[n] # NoBlock
    BY <1>2, <1>5, NoBlockIsNoBlock DEF VoteHandled
  <2>2. producer' = producer
    BY <1>4
  <2>3. QED
    BY <1>6, <2>1, <2>2, HeldStays
<1>9. QED
  BY <1>7, <1>8 DEF TypeInv

\* The engine a validator starts with is well-formed.
LEMMA NewEngineOK == EngineOK(NewEngine)
<1>1. \A h \in Heights : RoundOK(EmptyRound, h)
  BY DEF EmptyRound, RoundOK, IsSlot
<1>2. /\ DOMAIN NewEngine = {"height", "previousHash", "rounds", "finalized", "voted"}
      /\ NewEngine.height = 0
      /\ DOMAIN NewEngine.rounds = Heights /\ DOMAIN NewEngine.finalized = Heights
      /\ \A h \in Heights : NewEngine.rounds[h] = EmptyRound /\ NewEngine.finalized[h] = NoBlock
      /\ NewEngine.voted = {}
  BY DEF NewEngine
<1>3. QED
  BY <1>1, <1>2, MaxHeightAssumption DEF EngineOK, IsSlot

\* The types hold at the start.
LEMMA InitType == Init => TypeInv
BY NewEngineOK, MaxHeightAssumption, BoundsAssumption
DEF Init, TypeInv, TypeOK, ProposedHeld, NewProducer

\* Every step keeps the types.
LEMMA TypeStep == ASSUME TypeInv, [Next]_vars PROVE TypeInv'
<1>1. CASE UNCHANGED vars
  BY <1>1 DEF vars, TypeInv, TypeOK, ProposedHeld
<1>2. ASSUME NEW n \in Validator, NEW time \in Timestamps, Produce(n, time) PROVE TypeInv'
  BY <1>2, ProduceType
<1>3. ASSUME NEW n \in Validator, Advance(n) PROVE TypeInv'
  <2>1. engine[n].height \in 0 .. MaxHeight
    BY DEF TypeInv, TypeOK, EngineOK
  <2>2. producer' \in [Validator -> [height : 1 .. MaxHeight + 1, proposed : BOOLEAN]]
    BY <1>3, <2>1, MaxHeightAssumption DEF Advance, TypeInv, TypeOK
  <2>3. TypeOK'
    BY <1>3, <2>2 DEF Advance, TypeInv, TypeOK
  <2>4. ProposedHeld'
    BY <1>3 DEF Advance, TypeInv, TypeOK, ProposedHeld
  <2>5. QED
    BY <2>3, <2>4 DEF TypeInv
<1>4. ASSUME NEW n \in Validator, NEW m \in net, ReceiveBlock(n, m) PROVE TypeInv'
  BY <1>4, ReceiveBlockType
<1>5. ASSUME NEW n \in Validator, NEW m \in net, ReceiveVote(n, m) PROVE TypeInv'
  BY <1>5, ReceiveVoteType
<1>6. ASSUME NEW n \in Validator, Report(n) PROVE TypeInv'
  BY <1>6 DEF Report, ReportNow, TypeInv, TypeOK, ProposedHeld
<1>7. ASSUME NEW n \in Validator, Crash(n) PROVE TypeInv'
  BY <1>7 DEF Crash, TypeInv, TypeOK, ProposedHeld
<1>8. ASSUME NEW n \in Validator, Restart(n) PROVE TypeInv'
  <2>1. TypeOK'
    BY <1>8, NewEngineOK, MaxHeightAssumption DEF Restart, TypeInv, TypeOK, NewProducer
  <2>2. ProposedHeld'
    BY <1>8 DEF Restart, TypeInv, TypeOK, ProposedHeld, NewProducer
  <2>3. QED
    BY <2>1, <2>2 DEF TypeInv
<1>9. ASSUME NEW m \in net, Lose(m) PROVE TypeInv'
  BY <1>9, BoundsAssumption DEF Lose, TypeInv, TypeOK, ProposedHeld
<1>10. QED
  BY <1>1, <1>2, <1>3, <1>4, <1>5, <1>6, <1>7, <1>8, <1>9 DEF Next

\* Type correctness: in every reachable state, for any number of validators,
\* any powers, links and fault bounds, rounds, votes and messages of a height
\* hold blocks of that height by its proposer only.
THEOREM TypeCorrect == Spec => []TypeOK
<1>1. TypeInv /\ [Next]_vars => TypeInv'
  BY TypeStep
<1>2. TypeInv => TypeOK
  BY DEF TypeInv
<1>3. QED
  BY <1>1, <1>2, InitType, PTL DEF Spec
=============================================================================
