------------------------------ MODULE Slashing ------------------------------
(***************************************************************************)
(* Slashing and jailing: crates/pemrix-consensus/src/slashing.rs, as       *)
(* operators on a validator record.                                        *)
(***************************************************************************)
EXTENDS Tokenomics

CONSTANTS
    Misbehavior,       \* the kinds of misbehaviour
    SlashBps,          \* the policy: basis points slashed for each kind
    JailBlocks         \* the policy: blocks in jail for each kind

ASSUME PolicyAssumption ==
    /\ SlashBps \in [Misbehavior -> 0 .. 10000]
    /\ JailBlocks \in [Misbehavior -> Nat]

TotalStake(r) == Capped(r.selfStake + r.delegatedStake)

SlashAmount(r, m) == (TotalStake(r) * SlashBps[m]) \div 10000

\* Mutant: delegators lose nothing.
SlashSelfOnly(r, amount) ==
    [r EXCEPT !.selfStake = IF @ >= amount THEN @ - amount ELSE 0]

\* The stake goes down: the validator's own first, then what is delegated.
SlashStake(r, amount) ==
    IF r.selfStake >= amount THEN [r EXCEPT !.selfStake = @ - amount]
    ELSE LET remaining == amount - r.selfStake
         IN [r EXCEPT !.selfStake = 0,
                      !.delegatedStake = IF @ >= remaining THEN @ - remaining ELSE 0]

\* apply_slash.  A validator already in jail may be reported again; its
\* jailed_until is written over, by an earlier height too.
Slashed(r, m, height) ==
    [SlashStake(r, SlashAmount(r, m)) EXCEPT !.status = "Jailed",
                                             !.jailedUntil = height + JailBlocks[m]]

IsJailed(r, height) == r.status = "Jailed" /\ height < r.jailedUntil

\* Mutant: released one block late.
ReleasedLate(r, height) ==
    IF r.status = "Jailed" /\ height > r.jailedUntil
      THEN [r EXCEPT !.status = "Active", !.jailedUntil = 0] ELSE r

\* What release_validators makes of each record.
Released(r, height) ==
    IF r.status = "Jailed" /\ height >= r.jailedUntil
      THEN [r EXCEPT !.status = "Active", !.jailedUntil = 0] ELSE r
=============================================================================
