----------------------------- MODULE SimNetwork -----------------------------
(***************************************************************************)
(* SimNetwork and InMemoryTransport of peerq/transport.py on a SimClock:   *)
(* the network that the simulation engine and the tests run a mesh on.     *)
(*                                                                         *)
(* A coroutine of a node calls send; with a latency it sleeps inside       *)
(* route_message, holding the transport that was registered for the target *)
(* when it called.  Meanwhile links are cut and healed, transports are     *)
(* closed and opened again under the same identifier, and the coroutine    *)
(* may be cancelled.  Message contents are left out: a message is a record *)
(* of the call that sent it.                                               *)
(***************************************************************************)
EXTENDS SimClock

CONSTANTS
    Nodes,       \* node identifiers
    Owner,       \* Owner[c]: the node whose loop coroutine c is
    Latencies,   \* possible values of base_latency, set before the run
    Lossy,       \* drop_rate > 0
    InboxSize,   \* security.max_inbox_size
    MaxSends,    \* bound: calls of send
    MaxLives     \* bound: transports opened for one node

ASSUME SimNetworkAssumption ==
    /\ Owner \in [Coroutines -> Nodes]
    /\ Latencies \subseteq Nat
    /\ Lossy \in BOOLEAN
    /\ InboxSize \in Nat /\ MaxSends \in Nat /\ MaxLives \in Nat \ {0}

VARIABLES
    blocked,     \* _blocked_links
    latency,     \* base_latency
    life,        \* life[n]: which transport of n is the latest, counted from 1
    open,        \* open[n]: that transport is registered and not _closed
    inbox,       \* inbox[n]: its _inbox
    carried,     \* carried[c]: the message coroutine c holds in route_message, or None
    target,      \* target[c]: the transport it holds: the life of the addressee
    sends,       \* calls of send so far
    sent,        \* history: the messages send was called with
    received     \* history: received[n], what recv returned at n

netVars == <<blocked, latency, life, open, inbox, carried, target, sends, sent, received>>
vars == <<clockVars, netVars>>

None == [id |-> 0]

(* The life of the addressee at the call is recorded for the properties. *)
Messages == [id : 1..MaxSends, from : Nodes, to : Nodes, life : 1..MaxLives]

Init ==
    /\ ClockInit
    /\ latency \in Latencies
    /\ blocked = {}
    /\ life = [n \in Nodes |-> 1]
    /\ open = [n \in Nodes |-> TRUE]
    /\ inbox = [n \in Nodes |-> <<>>]
    /\ carried = [c \in Coroutines |-> None]
    /\ target = [c \in Coroutines |-> 0]
    /\ sends = 0
    /\ sent = {}
    /\ received = [n \in Nodes |-> {}]

-----------------------------------------------------------------------------

IsBlocked(source, dest) == <<source, dest>> \in blocked

(* Mutant: route_message looks the addressee up after its sleep *)
DeliverPacket_LateLookup(m, l) ==
    inbox' = IF open[m.to] /\ Len(inbox[m.to]) < InboxSize
             THEN [inbox EXCEPT ![m.to] = Append(@, m)]
             ELSE inbox

(* deliver_packet on transport number l of the addressee: dropped when that  *)
(* transport was closed or its inbox is full                                 *)
DeliverPacket(m, l) ==
    inbox' = IF open[m.to] /\ l = life[m.to] /\ Len(inbox[m.to]) < InboxSize
             THEN [inbox EXCEPT ![m.to] = Append(@, m)]
             ELSE inbox

(* send(peer_id) by coroutine c: it raises on a closed transport (no message *)
(* then), and returns at once when the link is cut, the message is lost, the *)
(* addressee is not registered or there is no latency.                       *)
Send(c, n) ==
    LET m == [id |-> sends + 1, from |-> Owner[c], to |-> n, life |-> life[n]]
    IN  /\ carried[c] = None
        /\ sends < MaxSends
        /\ n # Owner[c]
        /\ open[Owner[c]]
        /\ sends' = sends + 1
        /\ sent' = sent \cup {m}
        /\ \/ /\ IsBlocked(Owner[c], n) \/ Lossy \/ ~open[n]
              /\ UNCHANGED <<clockVars, inbox, carried, target>>
           \/ /\ ~IsBlocked(Owner[c], n) /\ open[n]
              /\ latency = 0
              /\ DeliverPacket(m, life[n])
              /\ UNCHANGED <<clockVars, carried, target>>
           \/ /\ ~IsBlocked(Owner[c], n) /\ open[n]
              /\ latency > 0
              /\ Sleep(c, latency)
              /\ carried' = [carried EXCEPT ![c] = m]
              /\ target' = [target EXCEPT ![c] = life[n]]
              /\ UNCHANGED inbox
        /\ UNCHANGED <<blocked, latency, life, open, received>>

(* route_message after the sleep *)
Arrive(c) ==
    LET m == carried[c]
    IN  /\ Resume(c)
        /\ m # None
        /\ carried' = [carried EXCEPT ![c] = None]
        /\ target' = [target EXCEPT ![c] = 0]
        /\ IF IsBlocked(m.from, m.to) THEN UNCHANGED inbox ELSE DeliverPacket(m, target[c])
        /\ UNCHANGED <<blocked, latency, life, open, sends, sent, received>>

(* The task of coroutine c is cancelled while it sleeps in route_message. *)
Cancel(c) ==
    /\ carried[c] # None
    /\ CancelSleep(c)
    /\ carried' = [carried EXCEPT ![c] = None]
    /\ target' = [target EXCEPT ![c] = 0]
    /\ UNCHANGED <<blocked, latency, life, open, inbox, sends, sent, received>>

(* Mutant: the head of the inbox is read and stays *)
Recv_Peeks(n) ==
    /\ inbox[n] # <<>>
    /\ received' = [received EXCEPT ![n] = @ \cup {Head(inbox[n])}]
    /\ UNCHANGED <<clockVars, blocked, latency, life, open, inbox, carried, target,
                   sends, sent>>

(* recv(): also a closed transport hands out what its inbox still holds. *)
Recv(n) ==
    /\ inbox[n] # <<>>
    /\ received' = [received EXCEPT ![n] = @ \cup {Head(inbox[n])}]
    /\ inbox' = [inbox EXCEPT ![n] = Tail(@)]
    /\ UNCHANGED <<clockVars, blocked, latency, life, open, carried, target, sends, sent>>

Close(n) ==
    /\ open[n]
    /\ open' = [open EXCEPT ![n] = FALSE]
    /\ UNCHANGED <<clockVars, blocked, latency, life, inbox, carried, target, sends, sent, received>>

(* A node that was stopped starts again with a new transport. *)
Open(n) ==
    /\ ~open[n] /\ life[n] < MaxLives
    /\ open' = [open EXCEPT ![n] = TRUE]
    /\ life' = [life EXCEPT ![n] = @ + 1]
    /\ inbox' = [inbox EXCEPT ![n] = <<>>]
    /\ UNCHANGED <<clockVars, blocked, latency, carried, target, sends, sent, received>>

Links(A, B, symmetric) == (A \X B) \cup (IF symmetric THEN B \X A ELSE {})

Partition(A, B, symmetric) ==
    /\ blocked' = blocked \cup Links(A, B, symmetric)
    /\ UNCHANGED <<clockVars, latency, life, open, inbox, carried, target, sends, sent, received>>

HealPartition(A, B, symmetric) ==
    /\ blocked' = blocked \ Links(A, B, symmetric)
    /\ UNCHANGED <<clockVars, latency, life, open, inbox, carried, target, sends, sent, received>>

HealAll ==
    /\ blocked' = {}
    /\ UNCHANGED <<clockVars, latency, life, open, inbox, carried, target, sends, sent, received>>

(* The driver advances the clock.  Bound: only while an entry is pending.    *)
Tick ==
    /\ sleepers # {}
    /\ Step \/ Inspect \/ \E d \in Strides : Advance(d)
    /\ UNCHANGED netVars

Next ==
    \/ \E c \in Coroutines, n \in Nodes : Send(c, n)
    \/ \E c \in Coroutines : Arrive(c) \/ Cancel(c)
    \/ \E n \in Nodes : Recv(n) \/ Close(n) \/ Open(n)
    \/ \E A, B \in (SUBSET Nodes) \ {{}}, symmetric \in BOOLEAN :
           A \cap B = {} /\ (Partition(A, B, symmetric) \/ HealPartition(A, B, symmetric))
    \/ HealAll
    \/ Tick

Spec == Init /\ [][Next]_vars

(* The driver keeps stepping the clock and yields to the loop in between     *)
(* (the simulation engine's step()).                                         *)
Fairness ==
    /\ \A c \in Coroutines : WF_vars(Arrive(c))
    /\ WF_vars(sleepers # {} /\ Step /\ UNCHANGED netVars)

FairSpec == Spec /\ Fairness

-----------------------------------------------------------------------------

TypeOK ==
    /\ now \in Nat /\ counter \in Nat /\ sends \in 0..MaxSends
    /\ sleepers \subseteq [deadline : Nat, seq : Nat, co : Coroutines, live : BOOLEAN]
    /\ ready \in Seq(Coroutines)
    /\ blocked \subseteq Nodes \X Nodes
    /\ latency \in Latencies
    /\ life \in [Nodes -> 1..MaxLives]
    /\ open \in [Nodes -> BOOLEAN]
    /\ inbox \in [Nodes -> Seq(Messages)]
    /\ \A n \in Nodes : Len(inbox[n]) <= InboxSize
    /\ carried \in [Coroutines -> Messages \cup {None}]
    /\ target \in [Coroutines -> 0..MaxLives]
    /\ sent \subseteq Messages
    /\ received \in [Nodes -> SUBSET Messages]

(* SimNetwork implements the Network: what is in flight is what coroutines   *)
(* carry and what waits in an inbox.  Every message reaches recv of its      *)
(* addressee at most once (route_message, deliver_packet, recv).             *)
Flying(held, boxes) ==
    {held[c] : c \in {d \in Coroutines : held[d] # None}}
        \cup UNION {Range(boxes[n]) : n \in Nodes}

InFlight == Flying(carried, inbox)

Net == INSTANCE Network WITH flight <- InFlight

ImplementsNetwork == Net!Spec

(* A node that restarts under its identifier never gets a message sent to    *)
(* the transport it had before: route_message keeps the transport it looked  *)
(* up before it slept.                                                       *)
NoGhost ==
    \A n \in Nodes : \A i \in DOMAIN inbox[n] : inbox[n][i].life = life[n]

(* With one latency for all, messages reach each node in the order in which  *)
(* they were sent, whoever sent them and however far one advance jumps: the  *)
(* heap breaks ties by the order of the calls, and coroutines are resumed in *)
(* the order in which they were woken.                                       *)
DeliveredInOrder ==
    \A n \in Nodes : \A i \in DOMAIN inbox[n] :
        /\ \A j \in 1..(i - 1) : inbox[n][j].id < inbox[n][i].id
        /\ \A m \in received[n] : m.id < inbox[n][i].id

(* After an advance nobody sleeps past its deadline, and a coroutine inside  *)
(* route_message is either in the heap with a future that is not cancelled,  *)
(* or about to be resumed, and never both or twice (advance_to, sleep).      *)
NobodyOversleeps ==
    /\ \A e \in sleepers : e.deadline > now
    /\ \A c \in Coroutines : carried[c] # None =>
           Cardinality({e \in sleepers : e.live /\ e.co = c})
               + Cardinality({i \in DOMAIN ready : ready[i] = c}) = 1

(* Every call of send returns: entries of cancelled coroutines, which stay   *)
(* in the heap, never keep step() from the ones behind them.                 *)
SendReturns == \A c \in Coroutines : carried[c] # None ~> carried[c] = None

=============================================================================
