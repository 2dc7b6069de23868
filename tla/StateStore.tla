----------------------------- MODULE StateStore -----------------------------
(***************************************************************************)
(* The state store of crates/pemrix-storage with its two backends, and the *)
(* executors of crates/pemrix-vm as the calls they make to it, one write   *)
(* after the other.                                                        *)
(*                                                                         *)
(* InMemoryBackend keeps accounts and raw entries in two maps,             *)
(* RocksDbBackend keeps both in one key space.  A key is its prefix and    *)
(* the addresses after it; a value is the record that its bytes encode.    *)
(***************************************************************************)
EXTENDS Ledger

\* The order of the prefixes as bytes.
Rank(prefix) == CASE prefix = "acc" -> 1 [] prefix = "dlg" -> 2 [] prefix = "val" -> 3

AccountKey(a) == <<"acc", a>>
ValidatorKey(v) == <<"val", v>>

\* Mutant: a delegation is filed under the delegator alone.
DelegationKeyShort(d, v) == <<"dlg", d>>

DelegationKey(d, v) == <<"dlg", d, v>>

\* The calls of the StateBackend trait that write.
PutAccount(a, account) == [call |-> "put_account", key |-> a, value |-> account]
PutRaw(key, value) == [call |-> "put_raw", key |-> key, value |-> value]
DeleteRaw(key) == [call |-> "delete_raw", key |-> key]

Inserted(map, key, value) ==
    [k \in DOMAIN map \cup {key} |-> IF k = key THEN value ELSE map[k]]

Removed(map, key) == Restrict(map, DOMAIN map \ {key})

-----------------------------------------------------------------------------
EmptyMemory == [accounts |-> <<>>, raw |-> <<>>]

\* A call to InMemoryBackend.
MemoryApply(m, w) ==
    CASE w.call = "put_account" -> [m EXCEPT !.accounts = Inserted(@, w.key, w.value)]
      [] w.call = "put_raw"     -> [m EXCEPT !.raw = Inserted(@, w.key, w.value)]
      [] w.call = "delete_raw"  -> [m EXCEPT !.raw = Removed(@, w.key)]

MemoryIterRawPrefix(m, prefix) == {<<k, m.raw[k]>> : k \in {j \in DOMAIN m.raw : j[1] = prefix}}

\* A state root stands for the entries it is the hash of.
MemoryStateRoot(m) ==
    {<<AccountKey(a), m.accounts[a]>> : a \in DOMAIN m.accounts}
    \cup {<<k, m.raw[k]>> : k \in DOMAIN m.raw}

\* Mutant: deleting leaves an empty value behind.
RocksApplyTombstone(db, w) ==
    CASE w.call = "put_account" -> Inserted(db, AccountKey(w.key), w.value)
      [] w.call = "put_raw"     -> Inserted(db, w.key, w.value)
      [] w.call = "delete_raw"  -> Inserted(db, w.key, [amount |-> 0])

\* A call to RocksDbBackend.
RocksApply(db, w) ==
    CASE w.call = "put_account" -> Inserted(db, AccountKey(w.key), w.value)
      [] w.call = "put_raw"     -> Inserted(db, w.key, w.value)
      [] w.call = "delete_raw"  -> Removed(db, w.key)

\* The database has no prefix extractor, so the iterator starts at the prefix
\* and goes on to the last key there is.
RocksIterRawPrefix(db, prefix) ==
    {<<k, db[k]>> : k \in {j \in DOMAIN db : Rank(j[1]) >= Rank(prefix)}}

RocksStateRoot(db) == {<<k, db[k]>> : k \in DOMAIN db}

\* validator_records: of the entries, those whose key has room for one address.
ValidatorRecords(entries) == {<<e[1][2], e[2]>> : e \in {f \in entries : Len(f[1]) = 2}}

-----------------------------------------------------------------------------
(* Reads of StateStore over RocksDbBackend.                                *)

GetAccount(db, a) ==
    IF AccountKey(a) \in DOMAIN db THEN db[AccountKey(a)] ELSE [balance |-> 0, nonce |-> 0]

GetRecord(db, v) == IF ValidatorKey(v) \in DOMAIN db THEN db[ValidatorKey(v)] ELSE NoRecord

GetDelegation(db, d, v) ==
    IF DelegationKey(d, v) \in DOMAIN db THEN db[DelegationKey(d, v)] ELSE [amount |-> 0]

\* The ledger that a database holds.
View(db, burned) ==
    [balance |-> [a \in Address |-> GetAccount(db, a).balance],
     nonce |-> [a \in Address |-> GetAccount(db, a).nonce],
     record |-> [v \in Address |-> GetRecord(db, v)],
     delegation |-> [d \in Address |-> [v \in Address |-> GetDelegation(db, d, v).amount]],
     burned |-> burned]

-----------------------------------------------------------------------------
(***************************************************************************)
(* What an executor does with a transaction: the writes it makes, in their *)
(* order, and its result.  Nobody else writes meanwhile, so all of them    *)
(* follow from the database it starts with.                                *)
(***************************************************************************)
Plan(writes, result) == [writes |-> writes, result |-> result]

\* An account with its balance changed, as the next write.
Adjusted(db, a, by) == PutAccount(a, [GetAccount(db, a) EXCEPT !.balance = @ + by])

\* transfer_amount_only
PlanCredit(db, a, amount) ==
    IF GetAccount(db, a).balance + amount > MaxBalance THEN Plan(<<>>, "error")
    ELSE Plan(<<Adjusted(db, a, amount)>>, "ok")

\* A write, and what is planned for the database it makes.
Then(db, w, Planned(_)) ==
    LET rest == Planned(RocksApply(db, w)) IN Plan(<<w>> \o rest.writes, rest.result)

\* Mutants: the recipient pays the sender; the recipient is read before the
\* sender is written.
PlanRequest(db, tx) ==
    IF GetAccount(db, tx.recipient).balance < tx.amount THEN Plan(<<>>, "fail")
    ELSE Then(db, Adjusted(db, tx.recipient, -tx.amount),
              LAMBDA d : PlanCredit(d, tx.sender, tx.amount))

PlanTransferStale(db, tx) ==
    IF tx.amount = 0 THEN Plan(<<>>, "ok")
    ELSE IF GetAccount(db, tx.sender).balance < tx.amount THEN Plan(<<>>, "fail")
    ELSE Plan(<<Adjusted(db, tx.sender, -tx.amount), Adjusted(db, tx.recipient, tx.amount)>>, "ok")

PlanTransfer(db, tx) ==
    IF tx.amount = 0 THEN Plan(<<>>, "ok")
    ELSE IF GetAccount(db, tx.sender).balance < tx.amount THEN Plan(<<>>, "fail")
    ELSE Then(db, Adjusted(db, tx.sender, -tx.amount),
              LAMBDA d : PlanCredit(d, tx.recipient, tx.amount))

PlanRegister(db, sender, selfStake) ==
    IF ~CanRegister(View(db, 0), sender, selfStake) THEN Plan(<<>>, "error")
    ELSE Plan(<<Adjusted(db, sender, -selfStake),
                PutRaw(ValidatorKey(sender), ValidatorRecord(selfStake))>>, "ok")

\* The record of a validator with its delegated stake replaced.
PutStake(db, v, stake) ==
    PutRaw(ValidatorKey(v), [GetRecord(db, v) EXCEPT !.delegatedStake = stake])

\* Mutant: the delegation is written before it is paid for.
PlanDelegateOnCredit(db, sender, v, amount) ==
    IF ~CanDelegate(View(db, 0), sender, v, amount) THEN Plan(<<>>, "error")
    ELSE Plan(<<PutStake(db, v, GetRecord(db, v).delegatedStake + amount),
                PutRaw(DelegationKey(sender, v), [amount |-> GetDelegation(db, sender, v).amount + amount]),
                Adjusted(db, sender, -amount)>>, "ok")

PlanDelegate(db, sender, v, amount) ==
    IF ~CanDelegate(View(db, 0), sender, v, amount) THEN Plan(<<>>, "error")
    ELSE Plan(<<Adjusted(db, sender, -amount),
                PutStake(db, v, GetRecord(db, v).delegatedStake + amount),
                PutRaw(DelegationKey(sender, v), [amount |-> GetDelegation(db, sender, v).amount + amount])>>,
              "ok")

PlanUndelegate(db, sender, v, amount) ==
    LET left == GetDelegation(db, sender, v).amount - amount
    IN IF ~CanUndelegate(View(db, 0), sender, v, amount) THEN Plan(<<>>, "error")
       ELSE Plan(<<PutStake(db, v, SaturatingSub(GetRecord(db, v).delegatedStake, amount)),
                   IF left = 0 THEN DeleteRaw(DelegationKey(sender, v))
                   ELSE PutRaw(DelegationKey(sender, v), [amount |-> left]),
                   Adjusted(db, sender, amount)>>, "ok")

PlanStaking(db, tx) ==
    LET op == tx.payload
    IN CASE op.kind = "register"   -> PlanRegister(db, tx.sender, op.amount)
         [] op.kind = "delegate"   -> PlanDelegate(db, tx.sender, op.validator, op.amount)
         [] op.kind = "undelegate" -> PlanUndelegate(db, tx.sender, op.validator, op.amount)
         [] op.kind = "malformed"  -> Plan(<<>>, "error")

PlanDispatch(db, tx) ==
    IF tx.payload = Empty THEN PlanTransfer(db, tx)
    ELSE IF tx.payload.kind = "unknown" THEN Plan(<<>>, "fail")
    ELSE PlanStaking(db, tx)

\* The sender's account with `cost' taken off and the next nonce.
Charged(db, tx, cost) ==
    LET sender == GetAccount(db, tx.sender)
    IN PutAccount(tx.sender, [balance |-> sender.balance - cost, nonce |-> sender.nonce + 1])

\* Mutant: the nonce is not checked.
PlanAnyNonce(db, tx) ==
    IF ~tx.signed THEN Plan(<<>>, "error")
    ELSE IF GetAccount(db, tx.sender).balance < tx.fee THEN Plan(<<>>, "fail")
    ELSE Then(db, Charged(db, tx, tx.fee), LAMBDA d : PlanDispatch(d, tx))

\* BlockExecutor::execute
PlanExecute(db, tx) ==
    IF ~tx.signed THEN Plan(<<>>, "error")
    ELSE IF GetAccount(db, tx.sender).nonce # tx.nonce THEN Plan(<<>>, "fail")
    ELSE IF GetAccount(db, tx.sender).balance < tx.fee THEN Plan(<<>>, "fail")
    ELSE Then(db, Charged(db, tx, tx.fee), LAMBDA d : PlanDispatch(d, tx))

\* Mutant: the fee is checked and not taken.
PlanNativeFree(db, tx) ==
    LET total == tx.amount + tx.fee
    IN IF ~tx.signed THEN Plan(<<>>, "error")
       ELSE IF GetAccount(db, tx.sender).nonce # tx.nonce THEN Plan(<<>>, "fail")
       ELSE IF total > MaxBalance THEN Plan(<<>>, "error")
       ELSE IF GetAccount(db, tx.sender).balance < total THEN Plan(<<>>, "fail")
       ELSE IF AccountKey(tx.sender) \notin DOMAIN db THEN Plan(<<>>, "error")
       ELSE Then(db, Charged(db, tx, tx.amount), LAMBDA d : PlanCredit(d, tx.recipient, tx.amount))

\* NativeExecutor::execute, which looks at no payload, over StateStore::transfer,
\* which takes amount and fee in one write and knows no account by default.
PlanNative(db, tx) ==
    LET total == tx.amount + tx.fee
    IN IF ~tx.signed THEN Plan(<<>>, "error")
       ELSE IF GetAccount(db, tx.sender).nonce # tx.nonce THEN Plan(<<>>, "fail")
       ELSE IF total > MaxBalance THEN Plan(<<>>, "error")
       ELSE IF GetAccount(db, tx.sender).balance < total THEN Plan(<<>>, "fail")
       ELSE IF AccountKey(tx.sender) \notin DOMAIN db THEN Plan(<<>>, "error")
       ELSE Then(db, Charged(db, tx, total), LAMBDA d : PlanCredit(d, tx.recipient, tx.amount))

\* The database once all writes are made.
Carried(db, plan) == FoldLeft(RocksApply, db, plan.writes)
=============================================================================
