------------------------------ MODULE Finality ------------------------------
(***************************************************************************)
(* What the BFT validators promise together: every node has a log of final *)
(* blocks, a log only ever grows at its end, any two logs agree as far as  *)
(* both go, and every block names the one before it.                       *)
(***************************************************************************)
EXTENDS Naturals, SequencesExt

CONSTANTS Node, Genesis

VARIABLE log   \* the final blocks of each node, in order

Consistent(s, t) == IsPrefix(s, t) \/ IsPrefix(t, s)

Linked(s) ==
    \A h \in DOMAIN s : s[h].previousHash = IF h = 1 THEN Genesis ELSE s[h - 1]

Init == log = [n \in Node |-> <<>>]

\* One node adds one or more blocks to its log.
Finalize(n) ==
    /\ IsStrictPrefix(log[n], log'[n])
    /\ log' = [log EXCEPT ![n] = log'[n]]
    /\ Linked(log'[n])
    /\ \A m \in Node : Consistent(log'[n], log'[m])

Next == \E n \in Node : Finalize(n)

Spec == Init /\ [][Next]_log
=============================================================================
