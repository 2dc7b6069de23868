------------------------------- MODULE Faucet -------------------------------
(***************************************************************************)
(* request_handler of crates/pemrix-faucet/src/service.rs.  Requests are   *)
(* handled concurrently; a handler lets go of the cooldowns between its    *)
(* check and its update of them, and submits its transaction in between.   *)
(* What becomes of the transaction is in SoloTestnet.                      *)
(***************************************************************************)
EXTENDS Integers, Sequences, FiniteSets

CONSTANTS
    Handlers,       \* requests handled at the same time
    Addresses,      \* the recipients
    Amounts,        \* the amounts asked for
    MaxAmount,      \* FaucetConfig
    Cooldown,
    MaxTime,        \* bounds on the seconds and the requests explored
    MaxRequests

ASSUME FaucetAssumption ==
    /\ IsFiniteSet(Handlers)
    /\ Amounts \subseteq Nat
    /\ {MaxAmount, Cooldown, MaxTime, MaxRequests} \subseteq Nat

VARIABLES
    time,
    cooldowns,   \* when an address last got tokens
    handler,     \* where a handler is, its request and its last answer
    sent,        \* the transactions submitted
    requests     \* the number of requests

vars == <<time, cooldowns, handler, sent, requests>>

\* The entry missing from cooldowns: no time is within a cooldown of it.
Never == -Cooldown

Init ==
    /\ time = 0
    /\ cooldowns = [a \in Addresses |-> Never]
    /\ handler \in [Handlers -> [at : {"idle"}, recipient : {CHOOSE a \in Addresses : TRUE},
                                 answer : {"none"}]]
    /\ sent = <<>>
    /\ requests = 0

OnCooldown(a) == time - cooldowns[a] < Cooldown

Verdict(a, amount) ==
    IF amount > MaxAmount THEN "amount exceeds maximum"
    ELSE IF OnCooldown(a) THEN "address is on cooldown"
    ELSE "none"

\* The handler up to and with the check of the cooldown.
Request(h, a, amount) ==
    /\ handler[h].at = "idle" /\ requests < MaxRequests
    /\ requests' = requests + 1
    /\ handler' = [handler EXCEPT ![h] =
            [at |-> IF Verdict(a, amount) = "none" THEN "submit" ELSE "idle",
             recipient |-> a, answer |-> Verdict(a, amount)]]
    /\ UNCHANGED <<time, cooldowns, sent>>

Submit(h) ==
    /\ handler[h].at = "submit"
    /\ sent' = Append(sent, [recipient |-> handler[h].recipient, time |-> time])
    /\ handler' = [handler EXCEPT ![h].at = "record"]
    /\ UNCHANGED <<time, cooldowns, requests>>

\* Mutant: the cooldown starts whether or not the tokens could be sent.
SubmitFailsRecorded(h) ==
    /\ handler[h].at = "submit"
    /\ handler' = [handler EXCEPT ![h].at = "idle", ![h].answer = "error"]
    /\ cooldowns' = [cooldowns EXCEPT ![handler[h].recipient] = time]
    /\ UNCHANGED <<time, sent, requests>>

\* submit is a trait's method, and may return an error.
SubmitFails(h) ==
    /\ handler[h].at = "submit"
    /\ handler' = [handler EXCEPT ![h].at = "idle", ![h].answer = "error"]
    /\ UNCHANGED <<time, cooldowns, sent, requests>>

\* Mutant: the first time an address got tokens is kept.
RecordFirst(h) ==
    /\ handler[h].at = "record"
    /\ cooldowns' = [cooldowns EXCEPT ![handler[h].recipient] = IF @ = Never THEN time ELSE @]
    /\ handler' = [handler EXCEPT ![h].at = "idle", ![h].answer = "tokens sent"]
    /\ UNCHANGED <<time, sent, requests>>

Record(h) ==
    /\ handler[h].at = "record"
    /\ cooldowns' = [cooldowns EXCEPT ![handler[h].recipient] = time]
    /\ handler' = [handler EXCEPT ![h].at = "idle", ![h].answer = "tokens sent"]
    /\ UNCHANGED <<time, sent, requests>>

Tick ==
    /\ time < MaxTime
    /\ time' = time + 1
    /\ UNCHANGED <<cooldowns, handler, sent, requests>>

Next ==
    \/ \E h \in Handlers :
         \/ \E a \in Addresses, amount \in Amounts : Request(h, a, amount)
         \/ Submit(h) \/ SubmitFails(h) \/ Record(h)
    \/ Tick

Spec == Init /\ [][Next]_vars

-----------------------------------------------------------------------------
\* An address is refused for its cooldown only if tokens were really sent to
\* it: a submission that failed does not count, whatever runs beside it.
RefusalEarned ==
    \A h \in Handlers :
        handler[h].answer = "address is on cooldown" =>
            \E i \in DOMAIN sent : sent[i].recipient = handler[h].recipient

\* The cooldown limits what an address gets: within one cooldown no more than
\* one transfer for each request handled at the same time.  (One in all, as the
\* configuration's cooldown_seconds promises, is true of a single handler only:
\* the check and the update are not under one lock.)
DripsBounded ==
    \A a \in Addresses, t \in 0 .. MaxTime :
        LET window == {i \in DOMAIN sent : /\ sent[i].recipient = a
                                           /\ sent[i].time \in t .. t + Cooldown - 1}
        IN Cardinality(window) <= Cardinality(Handlers)
=============================================================================
