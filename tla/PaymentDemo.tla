---------------------------- MODULE PaymentDemo -----------------------------
(***************************************************************************)
(* The payment demo of crates/pemrix-cli/src/demo.rs against the solo      *)
(* testnet: a client that only knows what RPC and faucet answer.  Both     *)
(* wallets are new, so nobody else knows their addresses.  Every request   *)
(* is a step, and any of them may fail, which ends the demo with an error. *)
(* The sleeps are not modelled: any number of steps of the testnet, or     *)
(* none, may come between two requests.                                    *)
(***************************************************************************)
EXTENDS SoloTestnet

CONSTANTS
    Payer, Merchant,
    FaucetAmount,     \* FAUCET_AMOUNT, PAYMENT_AMOUNT and TX_FEE
    PaymentAmount,
    TxFee

ASSUME DemoAssumption ==
    /\ {Payer, Merchant} \subseteq Address /\ Payer # Merchant
    /\ Allocations[Payer] = 0 /\ Allocations[Merchant] = 0
    /\ {FaucetAmount, PaymentAmount, TxFee} \subseteq Nat

VARIABLES
    at,               \* where the demo is
    tx,               \* the transaction it waits for an answer about
    payerBefore, merchantBefore, nonce    \* what it has read

demo == <<at, tx, payerBefore, merchantBefore, nonce>>

NoTx == [none |-> TRUE]

InitDemo ==
    /\ at = "request" /\ tx = NoTx
    /\ payerBefore = 0 /\ merchantBefore = 0 /\ nonce = 0

\* The process ends, and what it has read is gone.
Exit(result) ==
    /\ at' = result /\ tx' = NoTx
    /\ payerBefore' = 0 /\ merchantBefore' = 0 /\ nonce' = 0
    /\ UNCHANGED vars

\* faucet.request up to the handler's submission.
RequestFunds ==
    /\ at = "request"
    /\ RequestDrip([recipient |-> Payer, amount |-> FaucetAmount])
    /\ tx' = handling'[Len(handling')] /\ at' = "requested"
    /\ UNCHANGED <<payerBefore, merchantBefore, nonce>>

\* The handler has submitted the transaction and answers with success.
FundsSent ==
    /\ at = "requested" /\ tx \notin Range(handling)
    /\ at' = "payer"
    /\ UNCHANGED <<vars, tx, payerBefore, merchantBefore, nonce>>

ReadPayer ==
    /\ at = "payer"
    /\ payerBefore' = BalanceOf(mirror, Payer) /\ at' = "merchant"
    /\ UNCHANGED <<vars, tx, merchantBefore, nonce>>

CanPay == payerBefore >= PaymentAmount + TxFee

\* The check of the payer's balance follows at once.
ReadMerchant ==
    /\ at = "merchant"
    /\ IF CanPay
         THEN /\ merchantBefore' = BalanceOf(mirror, Merchant) /\ at' = "nonce"
              /\ UNCHANGED <<vars, tx, payerBefore, nonce>>
         ELSE Exit("error")

ReadNonce ==
    /\ at = "nonce"
    /\ nonce' = NonceOf(mirror, Payer) /\ at' = "pay"
    /\ UNCHANGED <<vars, tx, payerBefore, merchantBefore>>

Payment == Transfer(Payer, Merchant, PaymentAmount, nonce, TxFee)

\* send_transaction; a payment that is not accepted is an error.
Pay ==
    /\ at = "pay"
    /\ IF Valid(mirror, Payment)
         THEN /\ Accept(Payment)
              /\ tx' = Payment /\ at' = "paying"
              /\ UNCHANGED <<payerBefore, merchantBefore, nonce>>
         ELSE Exit("error")

Paid ==
    /\ at = "paying" /\ tx \notin Range(handling)
    /\ at' = "poll"
    /\ UNCHANGED <<vars, tx, payerBefore, merchantBefore, nonce>>

\* Mutant: having paid is enough.
SettledAtOnce(balance) == balance >= merchantBefore

Settled(balance) == balance >= merchantBefore + PaymentAmount

\* A turn of the polling loop that finds the payment; others change nothing.
PollBalance ==
    /\ at = "poll" /\ Settled(BalanceOf(mirror, Merchant))
    /\ Exit("settled")

\* A request fails, or SETTLE_TIMEOUT is over.
GiveUp == at \notin {"settled", "error"} /\ Exit("error")

Progress ==
    /\ ~halted
    /\ \/ RequestFunds \/ FundsSent \/ ReadPayer \/ ReadMerchant \/ ReadNonce
       \/ Pay \/ Paid \/ PollBalance

DemoInit == Init /\ InitDemo

DemoNext == (Next /\ UNCHANGED demo) \/ Progress \/ GiveUp

\* As for the testnet; nothing makes the user run the demo to its end.
DemoSpec == DemoInit /\ [][DemoNext]_<<vars, demo>> /\ WF_<<vars, demo>>(Loop /\ UNCHANGED demo)

-----------------------------------------------------------------------------
\* When the demo says that the payment has settled, the merchant has been paid
\* in the consensus state, by the payer, and exactly once: the payment goes
\* into every block after the first, and so does the drip that funds it.
SettledPaid ==
    at = "settled" =>
        /\ ledger.balance[Merchant] = PaymentAmount
        /\ ledger.balance[Payer] = FaucetAmount - PaymentAmount - TxFee

\* The blocks it takes to drain n transactions.
Turns(n) == (n + MaxBlockTxs - 1) \div MaxBlockTxs

\* What was accepted waits for no more than is queued before it: a request that
\* is pending, and the payment, is executed, or another of the same sender and
\* nonce is, when there are heights left to drain what is in the mempool and
\* pending now.  That everything pending is queued again for every block makes
\* the wait longer for those who come later, without bound, but not for it, and
\* it happens even when the demo has given up waiting.  Only the end of block
\* production prevents it: one transaction without signature, which only gRPC
\* lets through, is enough for that.
AcceptedExecuted ==
    \A r \in Requests \cup {Transfer(Payer, Merchant, PaymentAmount, 0, TxFee)} :
        (r \in Range(pending) /\ Len(chain) + Turns(Len(mempool \o pending)) <= MaxHeight)
            ~> ledger.nonce[r.sender] > r.nonce \/ halted
=============================================================================
