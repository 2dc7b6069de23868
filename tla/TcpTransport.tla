---------------------------- MODULE TcpTransport ----------------------------
(***************************************************************************)
(* How two nodes of crates/pemrix-network/src/tcp.rs come to share one     *)
(* connection: the dialing retry loop, the handshake, the choice between   *)
(* two sockets and the removal of a slot by the task that owns it.  The    *)
(* connections of different pairs of nodes do not touch, so one pair is    *)
(* enough.  The nodes are their peer ids.  A node's messages are numbered. *)
(*                                                                         *)
(* A socket has two ends, one task at each.  An end is                     *)
(*   "handshake"  until the task has read the other's peer id,             *)
(*   "open"       while the task reads messages,                           *)
(*   "draining"   once another socket has taken its slot: its channel is   *)
(*                closed, and the write half is gone as soon as the        *)
(*                channel is empty; the read loop goes on,                 *)
(*   "closed"     when the task has returned.                              *)
(* A socket closed at both ends stands for one not yet dialed.             *)
(***************************************************************************)
EXTENDS Integers, FiniteSets, Sequences

CONSTANTS
    Low, High,     \* the two peer ids
    Sockets,       \* the sockets there can be at a time
    MaxEvents      \* bound on broken connections and messages together

ASSUME TransportAssumption ==
    /\ Low \in Nat /\ High \in Nat /\ Low < High
    /\ IsFiniteSet(Sockets) /\ Sockets \subseteq Nat \ {0}
    /\ MaxEvents \in Nat

Node == {Low, High}

Other(n) == IF n = Low THEN High ELSE Low

NoSocket == 0

VARIABLES
    dialers,    \* the nodes that have the other among their bootstrap peers
    dialer,     \* the node that dialed a socket
    end,        \* end[n][s]: the task of node n on socket s
    broken,     \* the sockets on which reading fails
    slot,       \* peers: the socket in the slot for the other node
    queue,      \* queue[n][s]: the channel to the task that writes for n on s
    wire,       \* wire[n][s]: what n has written and the other not yet read
    sent,       \* the number of messages broadcast
    received,   \* the messages of the other node that have become events
    breaks

messages == <<queue, wire, sent, received>>
vars == <<dialers, dialer, end, broken, slot, messages, breaks>>

Nothing == [n \in Node |-> [s \in Sockets |-> <<>>]]

Init ==
    /\ dialers \in SUBSET Node \ {{}}
    /\ dialer = [s \in Sockets |-> Low]
    /\ end = [n \in Node |-> [s \in Sockets |-> "closed"]]
    /\ broken = {}
    /\ slot = [n \in Node |-> NoSocket]
    /\ queue = Nothing /\ wire = Nothing
    /\ sent = [n \in Node |-> 0] /\ received = [n \in Node |-> <<>>]
    /\ breaks = 0

MoreEvents == breaks + sent[Low] + sent[High] < MaxEvents

Free == {s \in Sockets : \A n \in Node : end[n][s] = "closed"}

\* The sockets are all alike: a dial takes the first.
FreeSocket == IF Free = {} THEN NoSocket ELSE CHOOSE s \in Free : \A t \in Free : s <= t

\* The set dialing of the code: a dial lasts until the task returns.
Dialing(n) == \E s \in Sockets : dialer[s] = n /\ end[n][s] # "closed"

\* Mutant: dials under way are not looked at.
DialAgain(n, s) ==
    /\ n \in dialers
    /\ slot[n] = NoSocket
    /\ s = FreeSocket
    /\ dialer' = [dialer EXCEPT ![s] = n]
    /\ end' = [m \in Node |-> [end[m] EXCEPT ![s] = "handshake"]]
    /\ broken' = broken \ {s}
    /\ UNCHANGED <<dialers, slot, messages, breaks>>

\* The retry loop finds the other node neither connected nor being dialed; the
\* connection is made and accepted.  A connect that fails changes nothing.
Dial(n, s) ==
    /\ n \in dialers
    /\ slot[n] = NoSocket /\ ~Dialing(n)
    /\ s = FreeSocket
    /\ dialer' = [dialer EXCEPT ![s] = n]
    /\ end' = [m \in Node |-> [end[m] EXCEPT ![s] = "handshake"]]
    /\ broken' = broken \ {s}
    /\ UNCHANGED <<dialers, slot, messages, breaks>>

\* Mutant: a node prefers the sockets it dialed itself.
WinsTieLocally(n, s) == dialer[s] = n

\* The socket dialed by the higher peer id wins, seen from either end.
WinsTie(n, s) == IF dialer[s] = n THEN n > Other(n) ELSE Other(n) > n

\* The task returns: nothing more is written, and what was not read is gone.
Drop(n, s) ==
    /\ queue' = [queue EXCEPT ![n][s] = <<>>]
    /\ wire' = [m \in Node |->
                  IF m = Other(n) \/ end[Other(n)][s] = "closed"
                    THEN [wire[m] EXCEPT ![s] = <<>>] ELSE wire[m]]
    /\ UNCHANGED <<sent, received>>

\* run_connection after the handshake: the check and the insertion happen under
\* one lock.  The Ping put into the channel that is replaced carries nothing and
\* is left out.
Register(n, s) ==
    /\ end[n][s] = "handshake"
    /\ IF slot[n] # NoSocket /\ ~WinsTie(n, s)
         THEN /\ end' = [end EXCEPT ![n][s] = "closed"]
              /\ Drop(n, s)
              /\ UNCHANGED slot
         ELSE /\ end' = [end EXCEPT ![n] = [t \in Sockets |->
                           IF t = s THEN "open"
                           ELSE IF t = slot[n] THEN "draining" ELSE end[n][t]]]
              /\ slot' = [slot EXCEPT ![n] = s]
              /\ UNCHANGED messages
    /\ UNCHANGED <<dialers, dialer, broken, breaks>>

\* The handshake fails on a broken socket.
HandshakeFails(n, s) ==
    /\ end[n][s] = "handshake"
    /\ s \in broken
    /\ end' = [end EXCEPT ![n][s] = "closed"]
    /\ Drop(n, s)
    /\ UNCHANGED <<dialers, dialer, broken, slot, breaks>>

\* Reading ends: the socket is broken, or the other end has dropped its write
\* half, a task that was replaced not before its channel is empty.
ReadingEnds(n, s) ==
    \/ s \in broken
    \/ end[Other(n)][s] = "closed"
    \/ /\ end[Other(n)][s] = "draining"
       /\ queue[Other(n)][s] = <<>> /\ wire[Other(n)][s] = <<>>

\* Mutant: the slot is removed whoever owns it.
CloseRemovesSlot(n, s) ==
    /\ end[n][s] \in {"open", "draining"}
    /\ ReadingEnds(n, s)
    /\ end' = [end EXCEPT ![n][s] = "closed"]
    /\ slot' = [slot EXCEPT ![n] = NoSocket]
    /\ Drop(n, s)
    /\ UNCHANGED <<dialers, dialer, broken, breaks>>

\* The task returns after its read loop; what is left in the channel goes with
\* the write task, the slot only if its token is the task's own.
Close(n, s) ==
    /\ end[n][s] \in {"open", "draining"}
    /\ ReadingEnds(n, s)
    /\ end' = [end EXCEPT ![n][s] = "closed"]
    /\ slot' = IF slot[n] = s THEN [slot EXCEPT ![n] = NoSocket] ELSE slot
    /\ Drop(n, s)
    /\ UNCHANGED <<dialers, dialer, broken, breaks>>

\* The network gives up a connection; the two ends notice on their own time.
Break(s) ==
    /\ MoreEvents
    /\ s \notin broken /\ s \notin Free
    /\ broken' = broken \cup {s}
    /\ breaks' = breaks + 1
    /\ UNCHANGED <<dialers, dialer, end, slot, messages>>

-----------------------------------------------------------------------------
sockets == <<dialers, dialer, end, broken, slot, breaks>>

\* broadcast and send_to: into the channel of the slot.  Without a slot both
\* return an error and the message is gone.
Broadcast(n) ==
    /\ MoreEvents
    /\ slot[n] # NoSocket
    /\ sent' = [sent EXCEPT ![n] = @ + 1]
    /\ queue' = [queue EXCEPT ![n][slot[n]] = Append(@, sent[n] + 1)]
    /\ UNCHANGED <<sockets, wire, received>>

\* The write task, which goes on after its slot is taken.  A write that fails
\* ends it; the socket is broken then, or closed at the other end.
WriteMessage(n, s) ==
    /\ end[n][s] \in {"open", "draining"}
    /\ queue[n][s] # <<>>
    /\ queue' = [queue EXCEPT ![n][s] = Tail(@)]
    /\ wire' = [wire EXCEPT ![n][s] = Append(@, Head(queue[n][s]))]
    /\ UNCHANGED <<sockets, sent, received>>

\* One turn of read_messages.
ReadMessage(n, s) ==
    /\ end[n][s] \in {"open", "draining"}
    /\ wire[Other(n)][s] # <<>>
    /\ wire' = [wire EXCEPT ![Other(n)][s] = Tail(@)]
    /\ received' = [received EXCEPT ![n] = Append(@, Head(wire[Other(n)][s]))]
    /\ UNCHANGED <<sockets, queue, sent>>

Connection(n, s) == Register(n, s) \/ HandshakeFails(n, s) \/ Close(n, s)

Next ==
    \/ \E n \in Node, s \in Sockets :
         Dial(n, s) \/ Connection(n, s) \/ WriteMessage(n, s) \/ ReadMessage(n, s)
    \/ \E n \in Node : Broadcast(n)
    \/ \E s \in Sockets : Break(s)

\* The retry loop comes round every two seconds, the tasks of the connections
\* run, and there is an end to broken connections.
Fairness ==
    \A n \in Node :
        /\ WF_vars(\E s \in Sockets : Dial(n, s))
        /\ \A s \in Sockets :
             /\ WF_vars(Connection(n, s))
             /\ WF_vars(WriteMessage(n, s)) /\ WF_vars(ReadMessage(n, s))

Spec == Init /\ [][Next]_vars /\ Fairness

-----------------------------------------------------------------------------
\* "Use a unidirectional chain to avoid simultaneous-dial races": when only one
\* of the two dials, and as long as no connection breaks, all that was broadcast
\* once there was a slot is received, is on its way on the slot's socket or
\* waits in its channel, complete and in order.  Retries of the dial and a slow
\* handshake make no second socket that could take over and lose any of it.
Lossless ==
    Cardinality(dialers) = 1 /\ breaks = 0 =>
        \A n \in Node :
            [i \in 1 .. sent[n] |-> i] =
                IF slot[n] = NoSocket THEN <<>>
                ELSE received[Other(n)] \o wire[n][slot[n]] \o queue[n][slot[n]]

\* The slot always names the one open end: no slot is left behind by a task
\* that has returned, and no running connection is without its slot because a
\* task that was replaced removed it.
SlotOwned ==
    \A n \in Node, s \in Sockets : end[n][s] = "open" <=> slot[n] = s

\* The nodes end up connected, for good, on one socket, whatever the order in
\* which they register two sockets dialed at the same time and whenever they
\* notice that one is broken: "Both sides must agree on which socket survives
\* so the connection is not torn down".
StaysConnected == <>[](slot[Low] # NoSocket /\ slot[Low] = slot[High])
=============================================================================
