--------------------------- MODULE BlockExecution ---------------------------
(***************************************************************************)
(* build_block of crates/pemrix-consensus/src/bft.rs with transactions:    *)
(* the store behind an engine, write by write, and the validator set the   *)
(* engine takes from it.  A write may fail, which ends the block with an   *)
(* error, and the process may stop between two writes; the database is     *)
(* then opened again by a new engine.  One call holds the engine for its   *)
(* whole duration, so nothing else happens between its writes.             *)
(***************************************************************************)
EXTENDS StateStore

CONSTANTS
    Allocations,     \* the genesis balances
    GenesisSet,      \* the validator set the engine starts with
    Blocks,          \* the sequences of transactions a call is made with
    Transactions,    \* all the transactions in them, and others to compare executors on
    Nonces,          \* their nonces
    MaxFaults        \* bound on failed writes and crashes

ASSUME GenesisAssumption ==
    /\ Allocations \in [Address -> 0 .. MaxBalance]
    /\ SumFunction(Allocations) <= MaxBalance
    /\ DOMAIN GenesisSet \subseteq Address /\ DOMAIN GenesisSet # {}
    /\ MaxFaults \in Nat

VARIABLES
    db,              \* the RocksDB database
    memory,          \* an InMemoryBackend that gets the same calls
    validatorSet,
    building,        \* a call of build_block is going on
    block,           \* the transactions it has yet to execute
    current,         \* the transaction being executed,
    writes,          \*   the writes it has yet to make,
    begun,           \*   and whether it has made its first
    failed,          \* a transaction of the block was an error
    burned,          \* the fees taken, which go nowhere
    effects,         \* how many transactions of a sender and nonce were charged
    spent,           \* what an address has signed away
    faults           \* (none of these four is in the code)

store == <<db, memory>>
ghosts == <<burned, effects, spent>>
call == <<building, block, current, writes, begun, failed>>
vars == <<store, validatorSet, call, ghosts, faults>>

None == [none |-> TRUE]

\* The accounts are put one by one when the engine is made.
Funds == {a \in Address : Allocations[a] > 0}
Seed(a) == [balance |-> Allocations[a], nonce |-> 0]

Init ==
    /\ db = [k \in {AccountKey(a) : a \in Funds} |-> Seed(k[2])]
    /\ memory = [EmptyMemory EXCEPT !.accounts = [a \in Funds |-> Seed(a)]]
    /\ validatorSet = GenesisSet
    /\ building = FALSE /\ block = <<>> /\ current = None
    /\ writes = <<>> /\ begun = FALSE /\ failed = FALSE
    /\ burned = 0
    /\ effects = [a \in Address |-> [n \in Nonces |-> 0]]
    /\ spent = [a \in Address |-> 0]
    /\ faults = 0

ledger == View(db, burned)

BuildBlock(txs) ==
    /\ ~building
    /\ building' = TRUE /\ block' = txs /\ failed' = FALSE
    /\ UNCHANGED <<store, validatorSet, current, writes, begun, ghosts, faults>>

\* The next transaction up to its first write.  An error ends the loop, when
\* the writes that come before it are made.
ExecuteNext ==
    /\ block # <<>> /\ writes = <<>>
    /\ LET plan == PlanExecute(db, Head(block))
       IN /\ writes' = plan.writes
          /\ failed' = (plan.result = "error")
          /\ block' = IF plan.result = "error" THEN <<>> ELSE Tail(block)
          /\ current' = IF plan.writes = <<>> THEN None ELSE Head(block)
    /\ begun' = FALSE
    /\ UNCHANGED <<store, validatorSet, building, ghosts, faults>>

\* What a transaction takes from its sender at most.
Cost(tx) == tx.fee + (IF tx.payload = Empty THEN tx.amount ELSE 0)

\* The first write of a transaction is the one that takes the fee.
Record ==
    IF ~begun
      THEN /\ burned' = burned + current.fee
           /\ effects' = [effects EXCEPT ![current.sender][current.nonce] = @ + 1]
           /\ spent' = [spent EXCEPT ![current.sender] = @ + Cost(current)]
      ELSE UNCHANGED ghosts

Write ==
    /\ writes # <<>>
    /\ db' = RocksApply(db, Head(writes))
    /\ memory' = MemoryApply(memory, Head(writes))
    /\ writes' = Tail(writes) /\ begun' = TRUE
    /\ Record
    /\ UNCHANGED <<validatorSet, building, block, current, failed, faults>>

\* The end of build_block: nothing more is done after an error.
Finish ==
    /\ building /\ block = <<>> /\ writes = <<>>
    /\ validatorSet' = IF failed THEN validatorSet ELSE UpdateValidatorSet(ledger, validatorSet)
    /\ building' = FALSE /\ current' = None /\ begun' = FALSE
    /\ UNCHANGED <<store, block, writes, failed, ghosts, faults>>

\* What a staking operation has in hand when it is broken off.
Stake(tx) == IF "amount" \in DOMAIN tx.payload THEN tx.payload.amount ELSE 0

\* The call is given up where it is; nothing is undone.
BreakOff ==
    /\ faults < MaxFaults /\ faults' = faults + 1
    /\ building' = FALSE /\ block' = <<>> /\ current' = None
    /\ writes' = <<>> /\ begun' = FALSE /\ failed' = FALSE
    /\ spent' = IF begun /\ writes # <<>>
                  THEN [spent EXCEPT ![current.sender] = @ + Stake(current)] ELSE spent
    /\ UNCHANGED <<store, burned, effects>>

\* A put or delete returns an error, and so does build_block.
WriteFails ==
    /\ writes # <<>>
    /\ BreakOff
    /\ UNCHANGED validatorSet

\* The process stops and new_with_store makes a new engine over the database.
\* (What the node does next, put the genesis accounts once more, is not part of
\* the engine: it would undo what transactions did to them, but the node's own
\* blocks have none.)
Restart ==
    /\ BreakOff
    /\ validatorSet' = GenesisSet

Next ==
    \/ \E txs \in Blocks : BuildBlock(txs)
    \/ ExecuteNext \/ Write \/ Finish
    \/ WriteFails \/ Restart

Spec == Init /\ [][Next]_vars

-----------------------------------------------------------------------------
Stakes(l) == SumFunction([v \in Address |-> l.record[v].selfStake])

Delegations(l) == SumFunction([d \in Address |-> SumFunction(l.delegation[d])])

\* What addresses can spend, have staked or can take back.
Claims(l) == SumFunction(l.balance) + Stakes(l) + Delegations(l)

\* Between two transactions of a history without faults.
Settled == writes = <<>> /\ faults = 0

\* Value is neither made nor lost: between two transactions balances, stakes
\* and the fees burned add up to the genesis allocations, also after a block
\* that was given up half way for an error of one of its transactions.
SupplyConserved ==
    Settled => Claims(ledger) + burned = SumFunction(Allocations)

\* No order of writes makes value: at no point between two writes, and after
\* no failed write and no crash, is there more than the genesis allocations.
\* Transfer, register and delegate debit first, and undelegate credits last.
NothingMinted == Claims(ledger) + burned <= SumFunction(Allocations)

\* The delegated_stake of a validator is the sum of the delegations to it, so
\* the saturating subtraction of undelegate never saturates, and nothing is
\* delegated to an address without a record.
DelegationsBacked ==
    Settled =>
        \A v \in Address :
            ledger.record[v].delegatedStake =
                SumFunction([d \in Address |-> ledger.delegation[d][v]])

\* Of all the transactions one sender signs with one nonce, at most one is ever
\* charged, and that once, however often blocks carry them and though it may be
\* broken off: fee and nonce go in one write, before everything else.
NoReplay == \A a \in Address, n \in Nonces : effects[a][n] <= 1

\* What belongs to an address: its balance, its own stake and what it has
\* delegated.
Wealth(l, a) ==
    l.balance[a] + l.record[a].selfStake + SumFunction(l.delegation[a])

\* An address only loses what transactions it has signed spend as fees and
\* transfers, or had in hand when they were broken off: the transactions,
\* errors and crashes of others cost it nothing.
OnlySenderPays ==
    \A a \in Address :
        current = None \/ current.sender # a =>
            Wealth(ledger, a) >= Allocations[a] - spent[a]

\* Whenever the validator set is recomputed, its members are on chain with the
\* stake the protocol asks for, there are no more than it allows, and no
\* candidate left out has more power than one taken in.
SetFollowsStake ==
    [][validatorSet' \notin {validatorSet, GenesisSet} =>
         /\ DOMAIN validatorSet' # {}
         /\ Cardinality(DOMAIN validatorSet') <= MaxActive
         /\ \A v \in DOMAIN validatorSet' :
              /\ TotalStake(ledger', v) >= MinActiveStake
              /\ \A w \in Address \ DOMAIN validatorSet' :
                   \/ TotalStake(ledger', w) < MinActiveStake
                   \/ VotingPower(ledger', w) <= validatorSet'[v]]_vars

\* The two backends cannot be told apart: after the same calls, with or without
\* a restart between them, they give the same state root and, though RocksDB
\* iterates past the prefix it is given, the same validator records.
BackendsAgree ==
    /\ MemoryStateRoot(memory) = RocksStateRoot(db)
    /\ ValidatorRecords(MemoryIterRawPrefix(memory, "val"))
         = ValidatorRecords(RocksIterRawPrefix(db, "val"))

\* The writes of a transaction, once all are made, come to what Execute of
\* Ledger says of it, with the same result.
WritesImplement ==
    ~building =>
        \A tx \in Transactions :
            LET plan == PlanExecute(db, tx)
                o == Execute(ledger, tx)
            IN /\ plan.result = o.result
               /\ View(Carried(db, plan), o.ledger.burned) = o.ledger

\* The NativeExecutor and the BlockExecutor do the same to a transfer that
\* either of them carries out, unless the sender has no account: they leave the
\* same entries in the database, or for a transfer of nothing, where one of them
\* makes an account for the recipient, the same balances and nonces.
ExecutorsAgree ==
    ~building =>
        \A tx \in {t \in Transactions : t.payload = Empty} :
            LET native == PlanNative(db, tx)
                executed == PlanExecute(db, tx)
            IN "ok" \in {native.result, executed.result} =>
                 \/ AccountKey(tx.sender) \notin DOMAIN db
                 \/ /\ native.result = executed.result
                    /\ View(Carried(db, native), 0) = View(Carried(db, executed), 0)
                    /\ tx.amount > 0 => Carried(db, native) = Carried(db, executed)
=============================================================================
