------------------------- MODULE BftAgreementProofs -------------------------
(***************************************************************************)
(* Finality, vote and quorum invariants of BftNode, for any number of      *)
(* validators, any powers, any topology and any faults.                    *)
(*                                                                         *)
(* The argument: while its proposer does not restart, a height has at most *)
(* one block anywhere (Unique), because only the proposer's production     *)
(* loop makes blocks of that height and it makes one (ProposedOnce).       *)
(* Every vote counted in a round was cast (VotesCast), so the votes of a   *)
(* finalized round are votes for its block; and a validator keeps track of *)
(* every vote it has cast, in voted or by its height (CastRecorded).       *)
(***************************************************************************)
EXTENDS BftNodeProofs

TheBlock(h) == engine[Proposer(h, 0)].rounds[h].block

ProposedOnce ==
    \A n \in Validator \ restarted : \A h \in Heights :
        Proposer(h, 0) = n /\ engine[n].rounds[h].block # NoBlock =>
            \/ h < producer[n].height
            \/ h = producer[n].height /\ producer[n].proposed

Unique ==
    \A h \in Heights : Stable(h) =>
        /\ \A n \in Validator : engine[n].rounds[h].block \in {NoBlock, TheBlock(h)}
        /\ \A m \in net : m.block.height = h => m.block = TheBlock(h)
        /\ \A n \in Validator : \A c \in cast[n] : c.height = h => c = TheBlock(h)
        /\ \A c \in decided : c.height = h => c = TheBlock(h)

VotesCast ==
    /\ \A n \in Validator : \A h \in Heights : \A v \in Validator :
         LET b == engine[n].rounds[h].votes[v] IN b # NoBlock => b \in cast[v]
    /\ \A m \in net : m.type = "vote" => m.block \in cast[m.voter]

CastRecorded ==
    \A n \in Validator \ restarted : \A c \in cast[n] :
        c.height \in engine[n].voted \/ c.height <= engine[n].height

Inv ==
    /\ TypeInv /\ ProposedOnce /\ Unique /\ VotesCast /\ CastRecorded
    /\ QuorumBacked /\ VoteOnce

(***************************************************************************)
(* The three handlers that change an engine, seen as one kind of step:     *)
(* validator n brings its engine to e, taking in blocks of a set B, and    *)
(* then finalizes up to a height t.                                        *)
(***************************************************************************)

\* A block taken in is the height's only one, or the proposer's first.
Fresh(n, e, b) ==
    /\ TheBlock(b.height) = NoBlock
    /\ n = Proposer(b.height, 0) /\ b = e.rounds[b.height].block
    /\ producer'[n].height = b.height /\ producer'[n].proposed

Absorbs(n, e, B) ==
    /\ EngineOK(e) /\ e.height = engine[n].height
    /\ engine[n].voted \subseteq e.voted
    /\ \A b \in B : IsBlock(b) /\ (Stable(b.height) => b = TheBlock(b.height) \/ Fresh(n, e, b))
    /\ \A h \in Heights :
         /\ e.rounds[h].block = engine[n].rounds[h].block \/ e.rounds[h].block \in B
         /\ \A v \in Validator : \/ e.rounds[h].votes[v] = engine[n].rounds[h].votes[v]
                                 \/ e.rounds[h].votes[v] \in cast'[v]
    /\ \A m \in net' :
         m \in net \/ (m.block \in B /\ (m.type = "vote" => m.block \in cast'[m.voter]))
    /\ \A v \in Validator : cast[v] \subseteq cast'[v] /\ (v # n => cast'[v] = cast[v])
    /\ \A c \in cast'[n] \ cast[n] :
         /\ c \in B /\ c.height \in e.voted
         /\ \A d \in cast'[n] \ cast[n] : d = c
         /\ n \in restarted \/ \A d \in cast[n] : d.height # c.height
    /\ \A v \in Validator : /\ producer'[v].height = producer[v].height
                            /\ producer[v].proposed => producer'[v].proposed
    /\ restarted' = restarted

\* finalize_pending changes no block and no vote, and what it decides had a
\* quorum of votes in its round.
LEMMA FinalizePendingEffect ==
    ASSUME TypeOK, NEW n \in Validator, NEW e, EngineOK(e), NEW t, FinalizePending(n, e, t)
    PROVE  /\ \A m \in Validator : m # n => engine'[m] = engine[m]
           /\ \A h \in Heights : /\ engine'[n].rounds[h].block = e.rounds[h].block
                                 /\ engine'[n].rounds[h].votes = e.rounds[h].votes
           /\ engine'[n].height = t /\ t \in e.height .. MaxHeight
           /\ engine'[n].voted = e.voted \ (e.height + 1 .. t)
           /\ \A c \in decided' : c \in decided \/
                \E h \in Heights : /\ c = e.rounds[h].block /\ c # NoBlock
                                   /\ Voters(e.rounds[h]) \in Quorums
<1>1. t \in PendingHeights(e) /\ engine'[n] = FinalizeTo(e, t)
      /\ \A m \in Validator : m # n => engine'[m] = engine[m]
  BY DEF FinalizePending, TypeOK
<1>2. decided' = decided \cup {e.rounds[h].block : h \in e.height + 1 .. t}
  BY DEF FinalizePending
<1>3. /\ t \in e.height .. MaxHeight
      /\ engine'[n].height = t
      /\ engine'[n].voted = e.voted \ (e.height + 1 .. t)
      /\ \A h \in Heights : /\ engine'[n].rounds[h].block = e.rounds[h].block
                            /\ engine'[n].rounds[h].votes = e.rounds[h].votes
      /\ \A h \in e.height + 1 .. t :
           h \in Heights /\ e.rounds[h].block # NoBlock /\ Voters(e.rounds[h]) \in Quorums
  BY <1>1, FinalizeToFacts
<1>4. QED
  BY <1>1, <1>2, <1>3

\* A stable height that has its block keeps it, and a block taken in is it.
LEMMA TheBlockStays ==
    ASSUME Inv, NEW n \in Validator, NEW e, NEW t, NEW B,
           Absorbs(n, e, B), FinalizePending(n, e, t),
           NEW h \in Heights, Stable(h)
    PROVE  /\ TheBlock(h) # NoBlock => TheBlock(h)' = TheBlock(h)
           /\ \A b \in B : b.height = h => b = TheBlock(h)'
<1> DEFINE p == Proposer(h, 0)
<1>1. p \in Validator /\ TypeOK /\ EngineOK(e)
  BY ProposerType DEF Inv, TypeInv, Absorbs
<1>2. TheBlock(h)' = engine'[p].rounds[h].block
  BY DEF TheBlock
<1> HIDE DEF p
<1>3. /\ p # n => engine'[p] = engine[p]
      /\ engine'[n].rounds[h].block = e.rounds[h].block
  BY <1>1, FinalizePendingEffect
<1>4. TheBlock(h) = engine[p].rounds[h].block
  BY DEF TheBlock, p
<1>5. e.rounds[h].block \in B => e.rounds[h].block.height = h
  BY <1>1, NoBlockIsNoBlock DEF Absorbs, EngineOK, RoundOK, IsSlot
<1>6. \A b \in B : IsBlock(b) /\ (b.height = h => b = TheBlock(h) \/ Fresh(n, e, b))
  BY DEF Absorbs
<1>7. e.rounds[h].block = engine[n].rounds[h].block \/ e.rounds[h].block \in B
  BY DEF Absorbs
<1>8. TheBlock(h) # NoBlock => TheBlock(h)' = TheBlock(h)
  BY <1>2, <1>3, <1>4, <1>5, <1>6, <1>7 DEF Fresh
<1>9. ASSUME NEW b \in B, b.height = h PROVE b = TheBlock(h)'
  <2>1. CASE b = TheBlock(h)
    BY <1>6, <1>8, <2>1, NoBlockIsNoBlock
  <2>2. CASE Fresh(n, e, b)
    BY <1>2, <1>3, <1>9, <2>2 DEF Fresh, p
  <2>3. QED
    BY <1>6, <1>9, <2>1, <2>2
<1>10. QED
  BY <1>8, <1>9

\* Unique survives every handler.
LEMMA UniqueStep ==
    ASSUME Inv, TypeOK', NEW n \in Validator, NEW e, NEW t, NEW B,
           Absorbs(n, e, B), FinalizePending(n, e, t)
    PROVE  Unique'
<1> SUFFICES ASSUME NEW h \in Heights, Stable(h)'
             PROVE  /\ \A m \in Validator : engine'[m].rounds[h].block \in {NoBlock, TheBlock(h)'}
                    /\ \A m \in net' : m.block.height = h => m.block = TheBlock(h)'
                    /\ \A m \in Validator : \A c \in cast'[m] : c.height = h => c = TheBlock(h)'
                    /\ \A c \in decided' : c.height = h => c = TheBlock(h)'
  BY DEF Unique
<1>1. TypeOK /\ EngineOK(e)
  BY DEF Inv, TypeInv, Absorbs
<1>2. Stable(h)
  BY DEF Stable, Absorbs
<1>3. /\ TheBlock(h) # NoBlock => TheBlock(h)' = TheBlock(h)
      /\ \A b \in B : b.height = h => b = TheBlock(h)'
  BY <1>2, TheBlockStays
<1>4. \A c : IsBlock(c) /\ c = TheBlock(h) => c = TheBlock(h)'
  BY <1>3, NoBlockIsNoBlock
<1>5. \A m \in Validator : engine[m].rounds[h].block \in {NoBlock, TheBlock(h)}
  BY <1>2 DEF Inv, Unique
<1>6. \A m \in Validator : m # n => engine'[m] = engine[m]
  BY <1>1, FinalizePendingEffect
<1>7. engine'[n].rounds[h].block = e.rounds[h].block
  BY <1>1, FinalizePendingEffect
<1>8. e.rounds[h].block \in {NoBlock, TheBlock(h)'}
  <2>1. IsSlot(e.rounds[h].block, h)
    BY <1>1 DEF EngineOK, RoundOK
  <2>2. e.rounds[h].block = engine[n].rounds[h].block \/ e.rounds[h].block \in B
    BY DEF Absorbs
  <2>3. QED
    BY <1>3, <1>5, <2>1, <2>2 DEF IsSlot
<1>9. \A m \in Validator : engine'[m].rounds[h].block \in {NoBlock, TheBlock(h)'}
  BY <1>3, <1>5, <1>6, <1>7, <1>8
<1>10. ASSUME NEW m \in net', m.block.height = h PROVE m.block = TheBlock(h)'
  <2>1. CASE m \in net
    BY <1>1, <1>2, <1>4, <1>10, <2>1 DEF Inv, Unique, TypeOK, IsMsg
  <2>2. CASE m \notin net
    BY <1>3, <1>10, <2>2 DEF Absorbs
  <2>3. QED
    BY <2>1, <2>2
<1>11. ASSUME NEW m \in Validator, NEW c \in cast'[m], c.height = h PROVE c = TheBlock(h)'
  <2>1. CASE c \in cast[m]
    <3>1. IsBlock(c) /\ c = TheBlock(h)
      BY <1>1, <1>2, <1>11, <2>1 DEF Inv, Unique, TypeOK
    <3>2. QED
      BY <1>4, <3>1
  <2>2. CASE c \notin cast[m]
    <3>1. m = n /\ c \in cast'[n] \ cast[n]
      BY <1>11, <2>2 DEF Absorbs
    <3>2. c \in B
      BY <3>1 DEF Absorbs
    <3>3. QED
      BY <1>3, <1>11, <3>2
  <2>3. QED
    BY <2>1, <2>2
<1>12. ASSUME NEW c \in decided', c.height = h PROVE c = TheBlock(h)'
  <2>1. CASE c \in decided
    <3>1. IsBlock(c) /\ c = TheBlock(h)
      BY <1>1, <1>2, <1>12, <2>1 DEF Inv, Unique, TypeOK
    <3>2. QED
      BY <1>4, <3>1
  <2>2. CASE c \notin decided
    <3>1. PICK k \in Heights : c = e.rounds[k].block /\ c # NoBlock
      BY <1>1, <1>12, <2>2, FinalizePendingEffect
    <3>2. k = h
      BY <1>1, <1>12, <3>1 DEF EngineOK, RoundOK, IsSlot
    <3>3. QED
      BY <1>8, <3>1, <3>2
  <2>3. QED
    BY <2>1, <2>2
<1>13. QED
  BY <1>9, <1>10, <1>11, <1>12

\* ProposedOnce survives every handler.
LEMMA ProposedOnceStep ==
    ASSUME Inv, NEW n \in Validator, NEW e, NEW t, NEW B,
           Absorbs(n, e, B), FinalizePending(n, e, t)
    PROVE  ProposedOnce'
<1> SUFFICES ASSUME NEW m \in Validator \ restarted', NEW h \in Heights,
                    Proposer(h, 0) = m, engine'[m].rounds[h].block # NoBlock
             PROVE  h < producer'[m].height \/ (h = producer'[m].height /\ producer'[m].proposed)
  BY DEF ProposedOnce
<1>1. TypeOK /\ EngineOK(e) /\ m \in Validator \ restarted /\ Stable(h)
  BY DEF Inv, TypeInv, Absorbs, Stable
<1>2. /\ producer'[m].height = producer[m].height
      /\ producer[m].proposed => producer'[m].proposed
  BY DEF Absorbs
<1>3. CASE engine[m].rounds[h].block # NoBlock
  BY <1>1, <1>2, <1>3 DEF Inv, ProposedOnce
<1>4. CASE engine[m].rounds[h].block = NoBlock
  <2>1. m = n /\ e.rounds[h].block # NoBlock
    BY <1>1, <1>4, FinalizePendingEffect
  <2>2. e.rounds[h].block \in B
    BY <1>4, <2>1 DEF Absorbs
  <2>3. e.rounds[h].block.height = h
    BY <1>1, <2>1 DEF EngineOK, RoundOK, IsSlot
  <2>4. Fresh(n, e, e.rounds[h].block)
    BY <1>1, <1>4, <2>1, <2>2, <2>3 DEF Absorbs, TheBlock
  <2>5. QED
    BY <2>1, <2>3, <2>4 DEF Fresh
<1>5. QED
  BY <1>3, <1>4

\* VotesCast survives every handler.
LEMMA VotesCastStep ==
    ASSUME Inv, NEW n \in Validator, NEW e, NEW t, NEW B,
           Absorbs(n, e, B), FinalizePending(n, e, t)
    PROVE  VotesCast'
<1>1. TypeOK /\ EngineOK(e)
  BY DEF Inv, TypeInv, Absorbs
<1>2. \A v \in Validator : cast[v] \subseteq cast'[v]
  BY DEF Absorbs
<1>3. ASSUME NEW m \in Validator, NEW h \in Heights, NEW v \in Validator,
             engine'[m].rounds[h].votes[v] # NoBlock
      PROVE  engine'[m].rounds[h].votes[v] \in cast'[v]
  <2>1. CASE engine'[m].rounds[h].votes[v] = engine[m].rounds[h].votes[v]
    BY <1>2, <1>3, <2>1 DEF Inv, VotesCast
  <2>2. CASE m = n /\ engine'[m].rounds[h].votes[v] # engine[m].rounds[h].votes[v]
    <3>1. engine'[n].rounds[h].votes = e.rounds[h].votes
      BY <1>1, FinalizePendingEffect
    <3>2. QED
      BY <2>2, <3>1 DEF Absorbs
  <2>3. m # n => engine'[m] = engine[m]
    BY <1>1, FinalizePendingEffect
  <2>4. QED
    BY <2>1, <2>2, <2>3
<1>4. ASSUME NEW m \in net', m.type = "vote" PROVE m.block \in cast'[m.voter]
  <2>1. CASE m \in net
    BY <1>1, <1>2, <1>4, <2>1 DEF Inv, VotesCast, TypeOK, IsMsg
  <2>2. CASE m \notin net
    BY <1>4, <2>2 DEF Absorbs
  <2>3. QED
    BY <2>1, <2>2
<1>5. QED
  BY <1>3, <1>4 DEF VotesCast

\* QuorumBacked survives every handler: the votes of a round that finalizes
\* were cast, for blocks of its height, hence for its block.
LEMMA QuorumBackedStep ==
    ASSUME Inv, TypeOK', Unique', VotesCast', NEW n \in Validator, NEW e, NEW t, NEW B,
           Absorbs(n, e, B), FinalizePending(n, e, t)
    PROVE  QuorumBacked'
<1> SUFFICES ASSUME NEW c \in decided', Stable(c.height)'
             PROVE  \E Q \in Quorums : \A v \in Q : c \in cast'[v]
  BY DEF QuorumBacked
<1>1. TypeOK /\ EngineOK(e) /\ Stable(c.height)
  BY DEF Inv, TypeInv, Absorbs, Stable
<1>2. CASE c \in decided
  <2>1. PICK Q \in Quorums : \A v \in Q : c \in cast[v]
    BY <1>1, <1>2 DEF Inv, QuorumBacked
  <2>2. Q \subseteq Validator
    BY DEF Quorums
  <2>3. QED
    BY <2>1, <2>2 DEF Absorbs
<1>3. CASE c \notin decided
  <2>1. PICK h \in Heights : c = e.rounds[h].block /\ c # NoBlock /\ Voters(e.rounds[h]) \in Quorums
    BY <1>1, <1>3, FinalizePendingEffect
  <2>2. c.height = h
    BY <1>1, <2>1 DEF EngineOK, RoundOK, IsSlot
  <2>3. /\ engine'[n].rounds[h].block = e.rounds[h].block
        /\ engine'[n].rounds[h].votes = e.rounds[h].votes
    BY <1>1, FinalizePendingEffect
  <2>4. c = TheBlock(h)'
    BY <2>1, <2>2, <2>3 DEF Unique
  <2>5. ASSUME NEW v \in Voters(e.rounds[h]) PROVE c \in cast'[v]
    <3> DEFINE d == e.rounds[h].votes[v]
    <3>1. v \in Validator /\ d # NoBlock
      BY DEF Voters
    <3>2. d.height = h
      BY <1>1, <3>1 DEF EngineOK, RoundOK, IsSlot
    <3>3. d = engine'[n].rounds[h].votes[v]
      BY <2>3
    <3> HIDE DEF d
    <3>4. d \in cast'[v]
      BY <3>1, <3>3 DEF VotesCast
    <3>5. d = TheBlock(h)'
      BY <2>2, <3>1, <3>2, <3>4 DEF Unique
    <3>6. QED
      BY <2>4, <3>4, <3>5
  <2>6. QED
    BY <2>1, <2>5
<1>4. QED
  BY <1>2, <1>3

\* CastRecorded and VoteOnce survive every handler.
LEMMA CastStep ==
    ASSUME Inv, NEW n \in Validator, NEW e, NEW t, NEW B,
           Absorbs(n, e, B), FinalizePending(n, e, t)
    PROVE  CastRecorded' /\ VoteOnce'
<1>1. TypeOK /\ EngineOK(e) /\ restarted' = restarted
  BY DEF Inv, TypeInv, Absorbs
<1>2. ASSUME NEW m \in Validator \ restarted', NEW c \in cast'[m]
      PROVE  c.height \in engine'[m].voted \/ c.height <= engine'[m].height
  <2>1. CASE m # n
    <3>1. engine'[m] = engine[m]
      BY <1>1, <2>1, FinalizePendingEffect
    <3>2. cast'[m] = cast[m]
      BY <2>1 DEF Absorbs
    <3>3. QED
      BY <1>1, <1>2, <3>1, <3>2 DEF Inv, CastRecorded
  <2>2. CASE m = n
    <3>1. /\ engine'[n].height = t /\ t \in e.height .. MaxHeight
          /\ engine'[n].voted = e.voted \ (e.height + 1 .. t)
      BY <1>1, FinalizePendingEffect
    <3>2. e.height = engine[n].height /\ engine[n].voted \subseteq e.voted
      BY DEF Absorbs
    <3>3. e.height \in Int /\ e.voted \subseteq Int /\ MaxHeight \in Int
      BY <1>1, MaxHeightAssumption DEF EngineOK, Heights
    <3>4. c.height \in e.voted \/ c.height <= e.height
      <4>1. CASE c \in cast[n]
        BY <1>1, <1>2, <2>2, <3>2, <4>1 DEF Inv, CastRecorded
      <4>2. CASE c \notin cast[n]
        BY <1>2, <2>2, <4>2 DEF Absorbs
      <4>3. QED
        BY <4>1, <4>2
    <3>5. IsBlock(c)
      <4>1. CASE c \in cast[n]
        BY <1>1, <4>1 DEF TypeOK
      <4>2. CASE c \notin cast[n]
        BY <1>2, <2>2, <4>2 DEF Absorbs
      <4>3. QED
        BY <4>1, <4>2
    <3>6. c.height \in Int
      BY <3>5 DEF IsBlock, Heights
    <3>7. QED
      BY <2>2, <3>1, <3>3, <3>4, <3>6
  <2>3. QED
    BY <2>1, <2>2
<1>3. ASSUME NEW m \in Validator \ restarted', NEW c \in cast'[m], NEW d \in cast'[m],
             c.height = d.height
      PROVE  c = d
  <2>1. CASE m # n
    BY <1>1, <1>3, <2>1 DEF Absorbs, Inv, VoteOnce
  <2>2. CASE m = n
    <3>1. \A x \in cast'[n] \ cast[n] :
            /\ \A y \in cast'[n] \ cast[n] : y = x
            /\ \A y \in cast[n] : y.height # x.height
      BY <1>1, <1>3, <2>2 DEF Absorbs
    <3>2. CASE c \in cast[n] /\ d \in cast[n]
      BY <1>1, <1>3, <2>2, <3>2 DEF Inv, VoteOnce
    <3>3. QED
      BY <1>3, <2>2, <3>1, <3>2
  <2>3. QED
    BY <2>1, <2>2
<1>4. QED
  BY <1>2, <1>3 DEF CastRecorded, VoteOnce

\* All together.
LEMMA AbsorbsStep ==
    ASSUME Inv, TypeInv', NEW n \in Validator, NEW e, NEW t, NEW B,
           Absorbs(n, e, B), FinalizePending(n, e, t)
    PROVE  Inv'
<1>1. TypeOK'
  BY DEF TypeInv
<1>2. Unique'
  BY <1>1, UniqueStep
<1>3. ProposedOnce' /\ VotesCast'
  BY ProposedOnceStep, VotesCastStep
<1>4. QuorumBacked'
  BY <1>1, <1>2, <1>3, QuorumBackedStep
<1>5. CastRecorded' /\ VoteOnce'
  BY CastStep
<1>6. QED
  BY <1>2, <1>3, <1>4, <1>5 DEF Inv

\* The messages of a broadcast carry the block broadcast, under the sender.
LEMMA BroadcastFacts ==
    ASSUME NEW n, NEW b
    PROVE  /\ \A m \in BroadcastBlock(n, b) : m.block = b /\ m.type = "block"
           /\ \A m \in BroadcastVote(n, b) : m.block = b /\ m.voter = n
BY DEF BroadcastBlock, BroadcastVote, BlockMsg, VoteMsg

\* A received block, and perhaps a vote for it.
LEMMA ReceiveBlockAbsorbs ==
    ASSUME Inv, NEW n \in Validator, NEW m, ReceiveBlock(n, m)
    PROVE  Absorbs(n, HandleBlock(engine[n], n, m.block), {m.block})
<1> DEFINE b == m.block
           e == HandleBlock(engine[n], n, b)
           votes == BlockGetsVote(engine[n], b)
<1>1. TypeOK /\ EngineOK(engine[n]) /\ IsBlock(b) /\ m \in net
  BY DEF Inv, TypeInv, TypeOK, IsMsg, ReceiveBlock
<1>2. BlockHandled(engine[n], n, b, e)
  BY <1>1, HandleBlockFacts
<1>3. /\ net' = (net \ {m}) \cup (IF votes THEN BroadcastVote(n, b) ELSE {})
      /\ cast' = [cast EXCEPT ![n] = IF votes THEN @ \cup {b} ELSE @]
      /\ producer' = producer /\ restarted' = restarted
  BY DEF ReceiveBlock
<1>4. votes => b.height \notin engine[n].voted /\ b.height > engine[n].height
  BY DEF BlockGetsVote, ValidateProposal
<1>5. Stable(b.height) => b = TheBlock(b.height)
  BY <1>1 DEF Inv, Unique, IsBlock
<1> HIDE DEF b, e, votes
<1>6. /\ \A v \in Validator : cast[v] \subseteq cast'[v] /\ (v # n => cast'[v] = cast[v])
      /\ cast'[n] = IF votes THEN cast[n] \cup {b} ELSE cast[n]
  BY <1>1, <1>3 DEF TypeOK
<1>7. /\ EngineOK(e) /\ e.height = engine[n].height
      /\ e.voted = IF votes THEN engine[n].voted \cup {b.height} ELSE engine[n].voted
      /\ \A h \in Heights :
           /\ e.rounds[h].block = engine[n].rounds[h].block \/ e.rounds[h].block = b
           /\ \A v \in Validator :
                \/ e.rounds[h].votes[v] = engine[n].rounds[h].votes[v]
                \/ v = n /\ votes /\ e.rounds[h].votes[v] = b
  BY <1>2 DEF BlockHandled, votes
<1>8. \A c \in net' : c \in net \/ (c.block = b /\ c.voter = n /\ votes)
  BY <1>3, BroadcastFacts
<1>9. ASSUME votes PROVE n \in restarted \/ \A d \in cast[n] : d.height # b.height
  <2>1. b.height \in Int /\ engine[n].height \in Int
    BY <1>1 DEF IsBlock, Heights, EngineOK
  <2>2. QED
    BY <1>4, <1>9, <2>1 DEF Inv, CastRecorded
<1>10. Absorbs(n, e, {b})
  <2>1. votes => b \in cast'[n]
    BY <1>6
  <2>2. \A c \in {b} : IsBlock(c) /\ (Stable(c.height) => c = TheBlock(c.height))
    BY <1>1, <1>5
  <2>3. /\ engine[n].voted \subseteq e.voted
        /\ \A h \in Heights :
             /\ e.rounds[h].block = engine[n].rounds[h].block \/ e.rounds[h].block \in {b}
             /\ \A v \in Validator : \/ e.rounds[h].votes[v] = engine[n].rounds[h].votes[v]
                                     \/ e.rounds[h].votes[v] \in cast'[v]
    BY <1>7, <2>1
  <2>4. \A c \in net' :
           c \in net \/ (c.block \in {b} /\ (c.type = "vote" => c.block \in cast'[c.voter]))
    BY <1>8, <2>1
  <2>5. \A c \in cast'[n] \ cast[n] : c = b /\ votes
    BY <1>6
  <2>6. votes => b.height \in e.voted
    BY <1>7
  <2>7. \A c \in cast'[n] \ cast[n] :
           /\ c \in {b} /\ c.height \in e.voted
           /\ \A d \in cast'[n] \ cast[n] : d = c
           /\ n \in restarted \/ \A d \in cast[n] : d.height # c.height
    BY <1>9, <2>5, <2>6
  <2>8. QED
    BY <1>3, <1>6, <1>7, <2>2, <2>3, <2>4, <2>7 DEF Absorbs
<1>11. QED
  BY <1>10 DEF e, b

\* A received vote.
LEMMA ReceiveVoteAbsorbs ==
    ASSUME Inv, NEW n \in Validator, NEW m, ReceiveVote(n, m)
    PROVE  Absorbs(n, HandleVote(engine[n], m), {})
<1> DEFINE e == HandleVote(engine[n], m)
<1>1. TypeOK /\ EngineOK(engine[n]) /\ IsMsg(m) /\ m \in net /\ m.type = "vote"
  BY DEF Inv, TypeInv, TypeOK, ReceiveVote
<1>2. VoteHandled(engine[n], m, e)
  BY <1>1, HandleVoteFacts
<1>3. /\ net' = net \ {m} /\ cast' = cast
      /\ producer' = producer /\ restarted' = restarted
  BY DEF ReceiveVote
<1>4. m.block \in cast[m.voter]
  BY <1>1 DEF Inv, VotesCast
<1> HIDE DEF e
<1>5. /\ EngineOK(e) /\ e.height = engine[n].height /\ e.voted = engine[n].voted
      /\ \A h \in Heights :
           /\ e.rounds[h].block = engine[n].rounds[h].block
           /\ \A v \in Validator :
                \/ e.rounds[h].votes[v] = engine[n].rounds[h].votes[v]
                \/ v = m.voter /\ e.rounds[h].votes[v] = m.block
  BY <1>2 DEF VoteHandled
<1>6. Absorbs(n, e, {})
  BY <1>3, <1>4, <1>5 DEF Absorbs
<1>7. QED
  BY <1>6 DEF e

\* A first proposal: the proposer holds no block of the height, so by Unique
\* there is none anywhere and it has cast no vote there.
LEMMA ProposeAbsorbs ==
    ASSUME Inv, NEW n \in Validator, NEW time \in Timestamps, Produce(n, time),
           ~producer[n].proposed
    PROVE  Absorbs(n, Proposed(n, time), {BuildBlock(engine[n], n, producer[n].height, time)})
<1> DEFINE h == producer[n].height
           b == BuildBlock(engine[n], n, h, time)
           e == Proposed(n, time)
<1>1. TypeOK /\ EngineOK(engine[n]) /\ h \in Heights /\ Proposer(h, 0) = n
  BY DEF Inv, TypeInv, TypeOK, Produce
<1>2. IsBlock(b) /\ b.height = h
  BY <1>1 DEF IsBlock, BuildBlock
<1>3. e = RecordVote(engine[n], n, b)
  BY DEF Proposed, Propose
<1>4. /\ producer' = [producer EXCEPT ![n].proposed = TRUE]
      /\ net' = net \cup BroadcastBlock(n, e.rounds[h].block) \cup BroadcastVote(n, e.rounds[h].votes[n])
      /\ cast' = [cast EXCEPT ![n] = @ \cup {e.rounds[h].votes[n]}]
      /\ restarted' = restarted
  BY DEF Produce
<1> HIDE DEF b, e
<1>5. /\ EngineOK(e) /\ e.height = engine[n].height
      /\ e.voted = engine[n].voted \cup {h}
      /\ e.rounds[h] = StoreVote(StoreBlock(engine[n].rounds[h], b), n, b)
      /\ \A k \in Heights : k # h => e.rounds[k] = engine[n].rounds[k]
  BY <1>1, <1>2, <1>3, RecordVoteFacts
<1>6. /\ e.rounds[h].block = b /\ e.rounds[h].votes[n] = b
      /\ \A v \in Validator : v # n => e.rounds[h].votes[v] = engine[n].rounds[h].votes[v]
  <2> DEFINE r == engine[n].rounds[h]
             q == e.rounds[h]
  <2>1. DOMAIN r.votes = Validator
    BY <1>1 DEF EngineOK, RoundOK
  <2>2. q = StoreVote(StoreBlock(r, b), n, b)
    BY <1>5
  <2> HIDE DEF r, q
  <2>3. /\ q.block = b /\ q.votes[n] = b
        /\ \A v \in Validator : v # n => q.votes[v] = r.votes[v]
    BY <2>1, <2>2, StoredFacts
  <2>4. QED
    BY <2>3 DEF r, q
<1>7. /\ \A v \in Validator : cast[v] \subseteq cast'[v] /\ (v # n => cast'[v] = cast[v])
      /\ cast'[n] = cast[n] \cup {b}
  BY <1>1, <1>4, <1>6 DEF TypeOK
<1>8. \A c \in net' : c \in net \/ (c.block = b /\ (c.type = "vote" => c.voter = n))
  BY <1>4, <1>6, BroadcastFacts
<1>9. /\ \A v \in Validator : /\ producer'[v].height = producer[v].height
                                /\ producer[v].proposed => producer'[v].proposed
      /\ producer'[n].height = h /\ producer'[n].proposed
  BY <1>1, <1>4 DEF TypeOK
<1>10. n \notin restarted => TheBlock(h) = NoBlock
  <2>1. h \in Int
    BY <1>1 DEF Heights
  <2>2. QED
    BY <1>1, <2>1 DEF Inv, ProposedOnce, TheBlock
<1>11. Stable(h) => Fresh(n, e, b)
  <2> HIDE DEF h
  <2>1. Stable(h) => n \notin restarted
    BY <1>1 DEF Stable
  <2>2. QED
    BY <1>1, <1>2, <1>6, <1>9, <1>10, <2>1 DEF Fresh
<1>12. n \in restarted \/ \A d \in cast[n] : d.height # h
  <2> SUFFICES ASSUME n \notin restarted, NEW d \in cast[n], d.height = h PROVE FALSE
    OBVIOUS
  <2>1. d = TheBlock(h)
    BY <1>1 DEF Inv, Unique, Stable
  <2>2. IsBlock(d)
    BY <1>1 DEF TypeOK
  <2>3. QED
    BY <1>10, <2>1, <2>2, NoBlockIsNoBlock
<1>13. \A k \in Heights :
         /\ e.rounds[k].block = engine[n].rounds[k].block \/ e.rounds[k].block = b
         /\ \A v \in Validator : \/ e.rounds[k].votes[v] = engine[n].rounds[k].votes[v]
                                 \/ v = n /\ e.rounds[k].votes[v] = b
  BY <1>5, <1>6
<1>14. Absorbs(n, e, {b})
  <2> HIDE DEF h
  <2>1. /\ EngineOK(e) /\ e.height = engine[n].height
        /\ engine[n].voted \subseteq e.voted /\ b.height \in e.voted
    BY <1>2, <1>5
  <2>2. \A c \in {b} : IsBlock(c) /\ (Stable(c.height) => Fresh(n, e, c))
    BY <1>2, <1>11
  <2>3. \A c \in cast'[n] \ cast[n] :
           /\ c = b
           /\ n \in restarted \/ \A d \in cast[n] : d.height # c.height
    BY <1>2, <1>7, <1>12
  <2>4. QED
    BY <1>4, <1>7, <1>8, <1>9, <1>13, <2>1, <2>2, <2>3 DEF Absorbs
<1>15. QED
  BY <1>14 DEF e, b

\* A proposal sent again: the round's block, and the vote the proposer has
\* already cast.
LEMMA ReproposeAbsorbs ==
    ASSUME Inv, NEW n \in Validator, NEW time \in Timestamps, Produce(n, time),
           producer[n].proposed
    PROVE  Absorbs(n, Proposed(n, time),
                   {engine[n].rounds[producer[n].height].block,
                    engine[n].rounds[producer[n].height].votes[n]})
<1> DEFINE h == producer[n].height
           b == engine[n].rounds[h].block
           d == engine[n].rounds[h].votes[n]
<1>1. TypeOK /\ EngineOK(engine[n]) /\ h \in Heights /\ Proposer(h, 0) = n
  BY DEF Inv, TypeInv, TypeOK, Produce
<1>2. Proposed(n, time) = engine[n]
  BY DEF Proposed
<1>3. /\ producer' = [producer EXCEPT ![n].proposed = TRUE]
      /\ net' = net \cup BroadcastBlock(n, b) \cup BroadcastVote(n, d)
      /\ cast' = [cast EXCEPT ![n] = @ \cup {d}]
      /\ restarted' = restarted
  BY <1>2 DEF Produce
<1>4. /\ IsBlock(b) /\ b.height = h
      /\ IsBlock(d) /\ d.height = h /\ d # NoBlock
  BY <1>1 DEF Inv, TypeInv, ProposedHeld, EngineOK, RoundOK, IsSlot
<1>5. d \in cast[n]
  BY <1>1, <1>4 DEF Inv, VotesCast
<1>6. Stable(h) => b = TheBlock(h) /\ d = TheBlock(h)
  BY <1>1, <1>4, <1>5 DEF Inv, Unique, TheBlock
<1>7. /\ \A v \in Validator : /\ producer'[v].height = producer[v].height
                                /\ producer[v].proposed => producer'[v].proposed
      /\ \A v \in Validator : cast'[v] = cast[v]
  BY <1>1, <1>3, <1>5 DEF TypeOK
<1> HIDE DEF h, b, d
<1>8. \A c \in net' : c \in net \/ (c.block \in {b, d} /\ (c.type = "vote" => c.voter = n /\ c.block = d))
  BY <1>3, BroadcastFacts
<1>9. Absorbs(n, engine[n], {b, d})
  <2>1. \A c \in {b, d} : IsBlock(c) /\ (Stable(c.height) => c = TheBlock(c.height))
    BY <1>4, <1>6
  <2>2. \A c \in net' :
          c \in net \/ (c.block \in {b, d} /\ (c.type = "vote" => c.block \in cast'[c.voter]))
    BY <1>5, <1>7, <1>8
  <2>3. restarted' = restarted
    BY <1>3
  <2>4. EngineOK(engine[n])
    BY <1>1
  <2>5. /\ \A v \in Validator : cast[v] \subseteq cast'[v] /\ (v # n => cast'[v] = cast[v])
        /\ cast'[n] \ cast[n] = {}
    BY <1>7
  <2>6. \A v \in Validator : /\ producer'[v].height = producer[v].height
                             /\ producer[v].proposed => producer'[v].proposed
    BY <1>1, <1>3 DEF TypeOK
  <2>7. QED
    BY <2>1, <2>2, <2>3, <2>4, <2>5, <2>6 DEF Absorbs
<1>10. QED
  BY <1>2, <1>9 DEF h, b, d

\* Losing messages disturbs nothing.
LEMMA FrameStep ==
    ASSUME Inv, engine' = engine, restarted' = restarted, cast' = cast, decided' = decided,
           net' \subseteq net
    PROVE  Unique' /\ VotesCast' /\ CastRecorded' /\ QuorumBacked' /\ VoteOnce'
<1>1. \A h \in Heights : (Stable(h)' <=> Stable(h)) /\ TheBlock(h)' = TheBlock(h)
  BY DEF Stable, TheBlock
<1>2. Unique'
  BY <1>1 DEF Inv, Unique
<1>3. VotesCast'
  BY DEF Inv, VotesCast
<1>4. CastRecorded' /\ VoteOnce'
  BY DEF Inv, CastRecorded, VoteOnce
<1>5. QuorumBacked'
  BY DEF Inv, QuorumBacked, Stable
<1>6. QED
  BY <1>2, <1>3, <1>4, <1>5

\* Every step keeps the invariant.
LEMMA InvStep == ASSUME Inv, TypeInv', [Next]_vars PROVE Inv'
<1>1. TypeOK
  BY DEF Inv, TypeInv
<1>2. CASE UNCHANGED vars
  <2>1. UNCHANGED <<engine, producer, restarted, cast, decided, net>>
    BY <1>2 DEF vars
  <2>2. ProposedOnce'
    BY <2>1 DEF Inv, ProposedOnce
  <2>3. QED
    BY <2>1, <2>2, FrameStep DEF Inv
<1>3. ASSUME NEW n \in Validator, NEW time \in Timestamps, Produce(n, time) PROVE Inv'
  <2>1. PICK t : FinalizePending(n, Proposed(n, time), t)
    BY <1>3 DEF Produce
  <2>2. PICK B : Absorbs(n, Proposed(n, time), B)
    BY <1>3, ProposeAbsorbs, ReproposeAbsorbs
  <2>3. QED
    BY <2>1, <2>2, AbsorbsStep
<1>4. ASSUME NEW n \in Validator, Advance(n) PROVE Inv'
  <2>1. /\ producer' = [producer EXCEPT ![n] = [height |-> engine[n].height + 1, proposed |-> FALSE]]
        /\ engine[n].height >= producer[n].height
        /\ UNCHANGED <<engine, net, restarted, cast, decided>>
    BY <1>4 DEF Advance
  <2>2. ProposedOnce'
    <3> SUFFICES ASSUME NEW m \in Validator \ restarted, NEW h \in Heights,
                        Proposer(h, 0) = m, engine[m].rounds[h].block # NoBlock
                 PROVE  h < producer'[m].height \/ (h = producer'[m].height /\ producer'[m].proposed)
      BY <2>1 DEF ProposedOnce
    <3>1. h < producer[m].height \/ (h = producer[m].height /\ producer[m].proposed)
      BY DEF Inv, ProposedOnce
    <3>2. engine[n].height \in Int /\ producer[n].height \in Int /\ h \in Int
      BY <1>1 DEF TypeOK, EngineOK, Heights
    <3>3. producer'[m] = IF m = n THEN [height |-> engine[n].height + 1, proposed |-> FALSE]
                                  ELSE producer[m]
      BY <1>1, <2>1 DEF TypeOK
    <3>4. QED
      BY <2>1, <3>1, <3>2, <3>3
  <2>3. QED
    BY <2>1, <2>2, FrameStep DEF Inv
<1>5. ASSUME NEW n \in Validator, NEW m \in net, ReceiveBlock(n, m) PROVE Inv'
  <2>1. PICK t : FinalizePending(n, HandleBlock(engine[n], n, m.block), t)
    BY <1>5 DEF ReceiveBlock
  <2>2. Absorbs(n, HandleBlock(engine[n], n, m.block), {m.block})
    BY <1>5, ReceiveBlockAbsorbs
  <2>3. QED
    BY <2>1, <2>2, AbsorbsStep
<1>6. ASSUME NEW n \in Validator, NEW m \in net, ReceiveVote(n, m) PROVE Inv'
  <2>1. PICK t : FinalizePending(n, HandleVote(engine[n], m), t)
    BY <1>6 DEF ReceiveVote
  <2>2. Absorbs(n, HandleVote(engine[n], m), {})
    BY <1>6, ReceiveVoteAbsorbs
  <2>3. QED
    BY <2>1, <2>2, AbsorbsStep
<1>7. ASSUME NEW n \in Validator, Report(n) PROVE Inv'
  <2>1. UNCHANGED <<engine, producer, restarted, cast, decided>> /\ net' \subseteq net
    BY <1>7 DEF Report
  <2>2. ProposedOnce'
    BY <2>1 DEF Inv, ProposedOnce
  <2>3. QED
    BY <2>1, <2>2, FrameStep DEF Inv
<1>8. ASSUME NEW n \in Validator, Crash(n) PROVE Inv'
  <2>1. UNCHANGED <<engine, producer, restarted, cast, decided>> /\ net' \subseteq net
    BY <1>8 DEF Crash
  <2>2. ProposedOnce'
    BY <2>1 DEF Inv, ProposedOnce
  <2>3. QED
    BY <2>1, <2>2, FrameStep DEF Inv
<1>9. ASSUME NEW n \in Validator, Restart(n) PROVE Inv'
  <2>1. /\ restarted' = restarted \cup {n}
        /\ engine'[n] = NewEngine
        /\ \A m \in Validator : m # n => engine'[m] = engine[m] /\ producer'[m] = producer[m]
        /\ UNCHANGED <<net, cast, decided>>
    BY <1>1, <1>9 DEF Restart, TypeOK
  <2>2. \A h \in Heights : /\ NewEngine.rounds[h].block = NoBlock
                            /\ \A v \in Validator : NewEngine.rounds[h].votes[v] = NoBlock
    BY DEF NewEngine, EmptyRound
  <2>3. \A h \in Heights : Stable(h)' => Stable(h) /\ Proposer(h, 0) # n /\ TheBlock(h)' = TheBlock(h)
    BY <2>1, ProposerType DEF Stable, TheBlock
  <2>4. Unique'
    BY <2>1, <2>2, <2>3 DEF Inv, Unique
  <2>5. ProposedOnce'
    BY <2>1 DEF Inv, ProposedOnce
  <2>6. VotesCast'
    <3>1. VotesCast
      BY DEF Inv
    <3>2. ASSUME NEW m \in Validator, NEW h \in Heights, NEW v \in Validator,
                 engine'[m].rounds[h].votes[v] # NoBlock
          PROVE  engine'[m].rounds[h].votes[v] \in cast[v]
      <4>1. m # n
        BY <2>1, <2>2, <3>2
      <4>2. engine'[m] = engine[m]
        BY <2>1, <4>1
      <4>3. QED
        BY <3>1, <3>2, <4>2 DEF VotesCast
    <3>3. \A m \in net' : m.type = "vote" => m.block \in cast'[m.voter]
      BY <2>1, <3>1 DEF VotesCast
    <3>4. QED
      BY <2>1, <3>2, <3>3 DEF VotesCast
  <2>7. CastRecorded' /\ VoteOnce'
    BY <2>1 DEF Inv, CastRecorded, VoteOnce
  <2>8. QuorumBacked'
    BY <2>1 DEF Inv, QuorumBacked, Stable
  <2>9. QED
    BY <2>4, <2>5, <2>6, <2>7, <2>8 DEF Inv
<1>10. ASSUME NEW m \in net, Lose(m) PROVE Inv'
  <2>1. UNCHANGED <<engine, producer, restarted, cast, decided>> /\ net' \subseteq net
    BY <1>10 DEF Lose
  <2>2. ProposedOnce'
    BY <2>1 DEF Inv, ProposedOnce
  <2>3. QED
    BY <2>1, <2>2, FrameStep DEF Inv
<1>11. QED
  BY <1>2, <1>3, <1>4, <1>5, <1>6, <1>7, <1>8, <1>9, <1>10 DEF Next

\* The inductive invariant holds at the start.
LEMMA InitInv == Init => Inv
<1> SUFFICES ASSUME Init PROVE Inv
  OBVIOUS
<1>1. TypeInv
  BY InitType
<1>2. /\ \A n \in Validator : engine[n] = NewEngine /\ cast[n] = {}
      /\ net = {} /\ decided = {}
  BY DEF Init
<1>3. \A h \in Heights : /\ NewEngine.rounds[h].block = NoBlock
                          /\ \A v \in Validator : NewEngine.rounds[h].votes[v] = NoBlock
  BY DEF NewEngine, EmptyRound
<1>4. ProposedOnce /\ VotesCast
  BY <1>2, <1>3 DEF ProposedOnce, VotesCast
<1>5. Unique
  BY <1>2, <1>3, ProposerType DEF Unique, TheBlock
<1>6. CastRecorded /\ QuorumBacked /\ VoteOnce
  BY <1>2 DEF CastRecorded, QuorumBacked, VoteOnce
<1>7. QED
  BY <1>1, <1>4, <1>5, <1>6 DEF Inv

\* The inductive invariant holds throughout.
THEOREM Invariance == Spec => []Inv
<1>1. Inv /\ [Next]_vars => Inv'
  BY TypeStep, InvStep DEF Inv
<1>2. QED
  BY <1>1, InitInv, PTL DEF Spec

\* Deterministic finality up to restarts of proposers: whatever the powers and
\* the topology, whatever is lost and whoever stops, no two blocks of a height
\* are finalized, by one validator or by two, unless the proposer of that
\* height has come back from a restart.
THEOREM AgreementHolds == Spec => []StableAgreement
<1>1. Inv => StableAgreement
  BY DEF Inv, Unique, StableAgreement, TypeInv, TypeOK, IsBlock
<1>2. QED
  BY <1>1, Invariance, PTL

\* Without restarts that is agreement outright.
THEOREM AgreementWithoutRestarts ==
    ASSUME Restartable = {} PROVE Spec => []Agreement
<1>1. Inv => Agreement
  <2>1. Inv => StableAgreement /\ restarted = {}
    BY DEF Inv, Unique, StableAgreement, TypeInv, TypeOK, IsBlock
  <2>2. QED
    BY <2>1 DEF StableAgreement, Agreement, Stable
<1>2. QED
  BY <1>1, Invariance, PTL

\* try_finalize finalizes a block only on votes a quorum has cast for that
\* block, although has_quorum does not look at what the votes are for.
THEOREM QuorumBackedHolds == Spec => []QuorumBacked
<1>1. Inv => QuorumBacked
  BY DEF Inv
<1>2. QED
  BY <1>1, Invariance, PTL

\* A validator that has not restarted has voted for at most one block of each
\* height, whatever its proposer does.
THEOREM VoteOnceHolds == Spec => []VoteOnce
<1>1. Inv => VoteOnce
  BY DEF Inv
<1>2. QED
  BY <1>1, Invariance, PTL
=============================================================================
