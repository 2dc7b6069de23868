------------------------------- MODULE Ledger -------------------------------
(***************************************************************************)
(* The state of the chain and what a transaction does to it: the accounts, *)
(* validator records and delegations of crates/pemrix-storage, the         *)
(* BlockExecutor and StakingExecutor of crates/pemrix-vm, and the choice   *)
(* of the active validators in crates/pemrix-consensus/src/bft.rs.         *)
(*                                                                         *)
(* A ledger is a record.  An address without an entry has balance and      *)
(* nonce zero, as every lookup of the code has it.  A delegation of amount *)
(* zero is the code's missing entry: delegate adds at least one and        *)
(* undelegate deletes the entry it empties.  burned is not in the code: it *)
(* adds up the fees, which are taken from senders and go nowhere.          *)
(*                                                                         *)
(* Here a transaction is one step and the storage never fails; StateStore  *)
(* has the single writes.  Nonces do not wrap.                             *)
(***************************************************************************)
EXTENDS Integers, FiniteSets, Functions, SequencesExt

CONSTANTS
    Address,            \* ordered as the code orders address bytes
    MaxBalance,         \* the largest Balance (u128::MAX)
    MinSelfStake,       \* MIN_SELF_STAKE of staking.rs
    MinDelegation,      \* MIN_DELEGATION of staking.rs
    MinActiveStake,     \* MIN_ACTIVE_STAKE of the protocol
    MaxActive,          \* MAX_ACTIVE_VALIDATORS of the protocol
    MaxPower            \* the largest voting power (u64::MAX)

ASSUME LedgerAssumption ==
    /\ Address \subseteq Nat /\ IsFiniteSet(Address)
    /\ {MaxBalance, MinSelfStake, MinActiveStake, MaxPower} \subseteq Nat
    /\ {MinDelegation, MaxActive} \subseteq Nat \ {0}

NoRecord == [status |-> "none", selfStake |-> 0, delegatedStake |-> 0]

ValidatorRecord(selfStake) ==
    [status |-> "Active", selfStake |-> selfStake, delegatedStake |-> 0]

\* The ledger seeded with the genesis allocations.
NewLedger(allocations) ==
    [balance |-> allocations,
     nonce |-> [a \in Address |-> 0],
     record |-> [a \in Address |-> NoRecord],
     delegation |-> [d \in Address |-> [v \in Address |-> 0]],
     burned |-> 0]

SaturatingAdd(x, y) == IF x + y > MaxBalance THEN MaxBalance ELSE x + y

TotalStake(l, v) == SaturatingAdd(l.record[v].selfStake, l.record[v].delegatedStake)

-----------------------------------------------------------------------------
(***************************************************************************)
(* Transactions.  wallet.transfer leaves the payload empty; a staking      *)
(* operation travels in the payload, with amount zero and the default      *)
(* address as recipient.  "malformed" is a staking payload that does not   *)
(* decode, or a registration with no key or too high a commission; any     *)
(* other payload is "unknown".                                             *)
(***************************************************************************)
CONSTANT DefaultAddress

ASSUME DefaultAddressAssumption == DefaultAddress \in Address

Empty == [kind |-> "empty"]

Transfer(from, to, amount, nonce, fee) ==
    [sender |-> from, recipient |-> to, amount |-> amount, nonce |-> nonce,
     fee |-> fee, signed |-> TRUE, payload |-> Empty]

CustomPayload(from, payload, nonce, fee) ==
    [sender |-> from, recipient |-> DefaultAddress, amount |-> 0,
     nonce |-> nonce, fee |-> fee, signed |-> TRUE, payload |-> payload]

\* What executing a transaction comes to: "ok" and "fail" are Ok results with
\* success true and false; "error" is an Err, which the caller propagates.
Outcome(l, result) == [ledger |-> l, result |-> result]

-----------------------------------------------------------------------------
\* The amount leaves the sender before the recipient's balance is checked for
\* overflow.
ExecuteTransfer(l, tx) ==
    LET debited == [l EXCEPT !.balance[tx.sender] = @ - tx.amount]
    IN IF tx.amount = 0 THEN Outcome(l, "ok")
       ELSE IF l.balance[tx.sender] < tx.amount THEN Outcome(l, "fail")
       ELSE IF debited.balance[tx.recipient] + tx.amount > MaxBalance
         THEN Outcome(debited, "error")
       ELSE Outcome([debited EXCEPT !.balance[tx.recipient] = @ + tx.amount], "ok")

\* Mutant: an address registers again.
CanRegisterAgain(l, sender, selfStake) ==
    selfStake >= MinSelfStake /\ l.balance[sender] >= selfStake

CanRegister(l, sender, selfStake) ==
    /\ selfStake >= MinSelfStake
    /\ l.record[sender] = NoRecord
    /\ l.balance[sender] >= selfStake

Register(l, sender, selfStake) ==
    IF CanRegister(l, sender, selfStake)
      THEN Outcome([l EXCEPT !.balance[sender] = @ - selfStake,
                             !.record[sender] = ValidatorRecord(selfStake)], "ok")
      ELSE Outcome(l, "error")

CanDelegate(l, sender, v, amount) ==
    /\ amount >= MinDelegation
    /\ l.record[v].status = "Active"
    /\ l.balance[sender] >= amount

Delegate(l, sender, v, amount) ==
    IF CanDelegate(l, sender, v, amount)
      THEN Outcome([l EXCEPT !.balance[sender] = @ - amount,
                             !.record[v].delegatedStake = @ + amount,
                             !.delegation[sender][v] = @ + amount], "ok")
      ELSE Outcome(l, "error")

CanUndelegate(l, sender, v, amount) ==
    /\ l.delegation[sender][v] > 0
    /\ l.delegation[sender][v] >= amount
    /\ l.record[v] # NoRecord

\* saturating_sub on a Balance.
SaturatingSub(x, y) == IF x >= y THEN x - y ELSE 0

Undelegate(l, sender, v, amount) ==
    IF CanUndelegate(l, sender, v, amount)
      THEN Outcome([l EXCEPT
                !.record[v].delegatedStake = SaturatingSub(@, amount),
                !.delegation[sender][v] = @ - amount,
                !.balance[sender] = @ + amount], "ok")
      ELSE Outcome(l, "error")

ExecuteStaking(l, tx) ==
    LET op == tx.payload
    IN CASE op.kind = "register"   -> Register(l, tx.sender, op.amount)
         [] op.kind = "delegate"   -> Delegate(l, tx.sender, op.validator, op.amount)
         [] op.kind = "undelegate" -> Undelegate(l, tx.sender, op.validator, op.amount)
         [] op.kind = "malformed"  -> Outcome(l, "error")

-----------------------------------------------------------------------------
\* The fee is taken and the nonce advanced once, before the payload is looked
\* at and whatever becomes of it.
Charge(l, tx) ==
    [l EXCEPT !.balance[tx.sender] = @ - tx.fee,
              !.nonce[tx.sender] = @ + 1,
              !.burned = @ + tx.fee]

\* The payload's first byte selects the handler.
Dispatch(l, tx) ==
    IF tx.payload = Empty THEN ExecuteTransfer(l, tx)
    ELSE IF tx.payload.kind = "unknown" THEN Outcome(l, "fail")
    ELSE ExecuteStaking(l, tx)

Execute(l, tx) ==
    IF ~tx.signed THEN Outcome(l, "error")
    ELSE IF l.nonce[tx.sender] # tx.nonce THEN Outcome(l, "fail")
    ELSE IF l.balance[tx.sender] < tx.fee THEN Outcome(l, "fail")
    ELSE Dispatch(Charge(l, tx), tx)

\* The transactions of a block, one after the other.  The first error ends it;
\* what the block has done so far is not undone.
ExecuteAll(l, txs) ==
    FoldLeft(LAMBDA o, tx : IF o.result = "error" THEN o ELSE Execute(o.ledger, tx),
             Outcome(l, "ok"), txs)

\* The transactions of a block that are charged and then do not succeed.
Failures(l, txs) ==
    LET at(i) == ExecuteAll(l, SubSeq(txs, 1, i - 1)).ledger
    IN {i \in DOMAIN txs : /\ at(i).nonce[txs[i].sender] = txs[i].nonce
                           /\ Execute(at(i), txs[i]).result # "ok"}

-----------------------------------------------------------------------------
\* update_validator_set.
Candidates(l) ==
    {v \in Address : l.record[v].status = "Active" /\ TotalStake(l, v) >= MinActiveStake}

VotingPower(l, v) == IF TotalStake(l, v) > MaxPower THEN MaxPower ELSE TotalStake(l, v)

\* The sort order of the candidates: by power downwards, then by address.
Before(l, v, w) ==
    \/ VotingPower(l, v) > VotingPower(l, w)
    \/ VotingPower(l, v) = VotingPower(l, w) /\ v < w

\* Mutant: ordered by address alone.
ActiveByAddress(l) ==
    LET cands == Candidates(l)
    IN {v \in cands : Cardinality({w \in cands : w < v}) < MaxActive}

\* The first MaxActive candidates in that order.
Active(l) ==
    LET cands == Candidates(l)
    IN {v \in cands : Cardinality({w \in cands : Before(l, w, v)}) < MaxActive}

\* The set is kept when there is nothing to replace it with.
UpdateValidatorSet(l, current) ==
    IF Active(l) = {} THEN current ELSE [v \in Active(l) |-> VotingPower(l, v)]
=============================================================================
