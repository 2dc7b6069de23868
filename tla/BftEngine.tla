----------------------------- MODULE BftEngine ------------------------------
(***************************************************************************)
(* The consensus engine of crates/pemrix-consensus/src/bft.rs.  An engine  *)
(* is a record; each operation of the engine is an operator from an engine *)
(* to the engine it leaves behind.  What a call returns has an operator of *)
(* its own where a caller looks at it.                                     *)
(*                                                                         *)
(* A block stands for its own hash: block.hash() covers the whole header,  *)
(* so two blocks have one hash exactly when they are one block.  A round   *)
(* of the model that holds nothing is the code's missing map entry: every  *)
(* lookup treats the two alike.                                            *)
(***************************************************************************)
EXTENDS ValidatorSet

CONSTANT MaxHeight   \* heights above this one are not explored

ASSUME MaxHeightAssumption == MaxHeight \in Nat

Heights == 1 .. MaxHeight

NoBlock == [height |-> -1]

GenesisHash == [height |-> 0]

\* Mutant: every block is built on genesis.
BuildBlockOnGenesis(e, self, h, time) ==
    [height |-> h, timestamp |-> time, previousHash |-> GenesisHash,
     proposer |-> self]

\* The header fields that tell blocks apart.  The node proposes without
\* transactions, so the state and transaction roots never do.
BuildBlock(e, self, h, time) ==
    [height |-> h, timestamp |-> time, previousHash |-> e.previousHash,
     proposer |-> self]

EmptyRound ==
    [proposal |-> NoBlock, block |-> NoBlock,
     votes |-> [v \in Validator |-> NoBlock], finalized |-> FALSE]

NewEngine ==
    [height |-> 0, previousHash |-> GenesisHash,
     rounds |-> [h \in Heights |-> EmptyRound],
     finalized |-> [h \in Heights |-> NoBlock],
     voted |-> {}]

-----------------------------------------------------------------------------
ValidateProposal(e, p) ==
    /\ p.height > e.height
    /\ p.proposer = Proposer(p.height, 0)

\* Mutant: the next height is already taken for finalized.
ValidateFutureVote(e, v) ==
    /\ v.block.height > e.height + 1
    /\ v.voter \in Validator
    /\ e.rounds[v.block.height].proposal = v.block

ValidateVote(e, v) ==
    /\ v.block.height > e.height
    /\ v.voter \in Validator
    /\ e.rounds[v.block.height].proposal = v.block

\* The votes counted are those stored under a voter, whatever they are for.
Voters(r) == {v \in Validator : r.votes[v] # NoBlock}

\* Mutants: heads counted instead of power, and every vote required.
HasMajority(r) == Cardinality(Voters(r)) * 2 > N
HasEveryVote(r) == Voters(r) = Validator

HasQuorum(r) == Voters(r) \in Quorums

-----------------------------------------------------------------------------
\* A valid block replaces the one stored before it; votes stay.
StoreBlock(r, b) ==
    [proposal |-> b, block |-> b, votes |-> r.votes, finalized |-> r.finalized]

StoreVote(r, voter, b) ==
    [proposal |-> r.proposal, block |-> r.block,
     votes |-> [r.votes EXCEPT ![voter] = b], finalized |-> r.finalized]

ReplaceBlock(e, b) == [e EXCEPT !.rounds[b.height] = StoreBlock(@, b)]

\* Stores a block and the local vote for it.
RecordVote(e, self, b) ==
    [e EXCEPT !.rounds[b.height] = StoreVote(StoreBlock(@, b), self, b),
              !.voted = @ \cup {b.height}]

\* propose: no check that h is above the engine's height.
Propose(e, self, b) == RecordVote(e, self, b)

\* Mutant: the record of heights voted at is not consulted.
ValidBlockGetsVote(e, b) == ValidateProposal(e, b)

\* handle_block returns Ok(vote) exactly when this holds.
BlockGetsVote(e, b) == ValidateProposal(e, b) /\ b.height \notin e.voted

\* A block is stored also when the validator has voted at this height and the
\* call returns an error.
HandleBlock(e, self, b) ==
    IF ~ValidateProposal(e, b) THEN e
    ELSE IF b.height \notin e.voted THEN RecordVote(e, self, b)
    ELSE ReplaceBlock(e, b)

\* Mutant: a vote is counted in the round being finalized.
HandleVoteInNextRound(e, v) ==
    IF ValidateVote(e, v)
      THEN [e EXCEPT !.rounds[e.height + 1] = StoreVote(@, v.voter, v.block)]
      ELSE e

HandleVote(e, v) ==
    IF ValidateVote(e, v)
      THEN [e EXCEPT !.rounds[v.block.height] = StoreVote(@, v.voter, v.block)]
      ELSE e

-----------------------------------------------------------------------------
\* try_finalize makes the block of this round final.
Finalizable(r) ==
    /\ r.proposal # NoBlock /\ r.block # NoBlock
    /\ HasQuorum(r)
    /\ ~r.finalized

\* finalize_pending walks the pending heights upwards and finalize only acts
\* on the next height, so it ends at the last height of the unbroken run of
\* finalizable rounds above the engine's height.  This set is a singleton.
PendingHeights(e) ==
    {t \in e.height .. MaxHeight :
        /\ \A h \in e.height + 1 .. t : Finalizable(e.rounds[h])
        /\ t < MaxHeight => ~Finalizable(e.rounds[t + 1])}

\* The engine after finalize_pending has finalized every height up to t.  A
\* round with a quorum but no block is marked finalized and nothing more.
FinalizeTo(e, t) ==
    LET final == e.height + 1 .. t
        blockless == {h \in Heights : /\ h = t + 1
                                      /\ e.rounds[h].proposal # NoBlock
                                      /\ HasQuorum(e.rounds[h])}
    IN [height |-> t,
        previousHash |-> IF t > e.height THEN e.rounds[t].block
                                         ELSE e.previousHash,
        rounds |-> [h \in Heights |-> IF h \in final \cup blockless
                                      THEN [e.rounds[h] EXCEPT !.finalized = TRUE]
                                      ELSE e.rounds[h]],
        finalized |-> [h \in Heights |-> IF h \in final THEN e.rounds[h].block
                                                       ELSE e.finalized[h]],
        voted |-> e.voted \ final]

\* Mutant: the first block finalized is returned.
ReturnedFirst(e, t) == IF t > e.height THEN e.rounds[e.height + 1].block ELSE NoBlock

\* The block finalize_pending returns: only the highest of those finalized.
Returned(e, t) == IF t > e.height THEN e.rounds[t].block ELSE NoBlock
=============================================================================
