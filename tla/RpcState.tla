------------------------------ MODULE RpcState ------------------------------
(***************************************************************************)
(* The accounts, validators and delegations that RpcState keeps beside the *)
(* chain (crates/pemrix-rpc/src/server.rs), and how the testnet and the    *)
(* services runner bring them up to date with a block.  A mirror is a      *)
(* record; known are the addresses with an account entry.                  *)
(***************************************************************************)
EXTENDS Ledger

NewMirror(allocations) ==
    [known |-> {a \in Address : allocations[a] > 0},
     balance |-> allocations,
     nonce |-> [a \in Address |-> 0],
     record |-> [a \in Address |-> NoRecord],
     delegation |-> [d \in Address |-> [v \in Address |-> 0]]]

Total(tx) == SaturatingAdd(tx.amount, tx.fee)

\* Mutant: the fee is forgotten.
ValidAmount(m, tx) ==
    /\ tx.signed
    /\ tx.sender \in m.known
    /\ m.balance[tx.sender] >= tx.amount
    /\ m.nonce[tx.sender] = tx.nonce

\* validate_transaction: checked against the mirror, not the ledger.
Valid(m, tx) ==
    /\ tx.signed
    /\ tx.sender \in m.known
    /\ m.balance[tx.sender] >= Total(tx)
    /\ m.nonce[tx.sender] = tx.nonce

\* ingest_block skips the transactions for which this does not hold.
Replayable(m, tx) ==
    /\ m.nonce[tx.sender] = tx.nonce
    /\ m.balance[tx.sender] >= Total(tx)

SetAccount(m, a, balance, nonce) ==
    [m EXCEPT !.known = @ \cup {a}, !.balance[a] = balance, !.nonce[a] = nonce]

\* The copy of the sender's account with amount and fee taken off, written.
Debit(m, tx, copy) ==
    SetAccount(m, tx.sender, SaturatingSub(copy.balance[tx.sender], Total(tx)),
               copy.nonce[tx.sender] + 1)

Credit(m, tx) ==
    SetAccount(m, tx.recipient, SaturatingAdd(m.balance[tx.recipient], tx.amount),
               m.nonce[tx.recipient])

\* Mutant: the recipient is credited on the accounts as they were before.
ReplayStale(m, tx) ==
    IF Replayable(m, tx)
      THEN SetAccount(Debit(m, tx, m), tx.recipient,
                      SaturatingAdd(m.balance[tx.recipient], tx.amount),
                      m.nonce[tx.recipient])
      ELSE m

\* One transaction in ingest_block of testnet.rs.
Replay(m, tx) == IF Replayable(m, tx) THEN Credit(Debit(m, tx, m), tx) ELSE m

-----------------------------------------------------------------------------
\* What the handlers answer: balance and nonce of an address without account
\* are 0; NoRecord and 0 stand for "not found" of the other two.
BalanceOf(m, a) == IF a \in m.known THEN m.balance[a] ELSE 0
NonceOf(m, a) == IF a \in m.known THEN m.nonce[a] ELSE 0
ValidatorOf(m, v) == m.record[v]
DelegationOf(m, d, v) == m.delegation[d][v]

-----------------------------------------------------------------------------
\* replay_staking of services.rs, which trusts the operation to have succeeded.
ReplayStaking(m, sender, op) ==
    CASE op.kind = "register" ->
           [m EXCEPT !.balance[sender] = SaturatingSub(@, op.amount),
                     !.record[sender] = ValidatorRecord(op.amount)]
      [] op.kind = "delegate" ->
           [m EXCEPT !.balance[sender] = SaturatingSub(@, op.amount),
                     !.record[op.validator] =
                         IF @ = NoRecord THEN @
                         ELSE [@ EXCEPT !.delegatedStake = SaturatingAdd(@, op.amount)],
                     !.delegation[sender][op.validator] = SaturatingAdd(@, op.amount)]
      [] op.kind = "undelegate" ->
           [m EXCEPT !.balance[sender] = SaturatingAdd(@, op.amount),
                     !.record[op.validator] =
                         IF @ = NoRecord THEN @
                         ELSE [@ EXCEPT !.delegatedStake = SaturatingSub(@, op.amount)],
                     !.delegation[sender][op.validator] = SaturatingSub(@, op.amount)]
      [] OTHER -> m

\* Mutant: the recipient is credited before the sender's copy is written.
ReplayCreditFirst(m, tx) ==
    IF Replayable(m, tx)
      THEN Debit(Credit(ReplayStaking(m, tx.sender, tx.payload), tx), tx, m)
      ELSE m

\* One transaction in ingest_block of services.rs: the sender's account is read
\* before the staking operation is replayed and written back after it.
ReplayWithStaking(m, tx) ==
    IF Replayable(m, tx)
      THEN Credit(Debit(ReplayStaking(m, tx.sender, tx.payload), tx, m), tx)
      ELSE m

\* The mirror shows the accounts of the ledger.
Mirrors(m, l) ==
    \A a \in Address : BalanceOf(m, a) = l.balance[a] /\ NonceOf(m, a) = l.nonce[a]
=============================================================================
