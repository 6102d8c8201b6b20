---------------------------- MODULE TcpTransport ----------------------------
(***************************************************************************)
(* TcpTransport of peerq/transport.py, with security enabled: the table of *)
(* outgoing connections that several coroutines of a node share, the       *)
(* handshake, the handlers of incoming connections, and close().           *)
(*                                                                         *)
(* A caller is a coroutine that calls send (the heartbeat, gossip and      *)
(* claim loops, submit_task).  It gives way at every await of              *)
(* _get_or_connect and of send, where it may also be cancelled.  TCP is    *)
(* modelled by what the code sees of it: frames arrive in order or not at  *)
(* all, a connection breaks at any time, and the writer learns of it late. *)
(* Every await that has a timeout may time out.  Signatures, timestamps    *)
(* and nonces are left out: a verification succeeds or fails.              *)
(***************************************************************************)
EXTENDS Naturals, Sequences, FiniteSets, Functions

CONSTANTS
    Nodes,            \* node identifiers, each with one transport
    Callers,          \* coroutines that call send
    Owner,            \* Owner[c]: the node that caller c belongs to
    MaxConnections,   \* security.max_connections
    InboxSize,        \* security.max_inbox_size
    Targets,          \* bound: Targets[c], the peers that caller c sends to
    MaxSends,         \* bound: calls of send
    MaxDials,         \* bound: connections that are established
    Closers,          \* bound: the nodes that may call close()
    MaxCloses         \* bound: how many of them do

ASSUME TcpAssumption ==
    /\ IsFiniteSet(Nodes) /\ IsFiniteSet(Callers)
    /\ Owner \in [Callers -> Nodes]
    /\ Targets \in [Callers -> SUBSET Nodes]
    /\ MaxConnections \in Nat \ {0}
    /\ InboxSize \in Nat /\ MaxSends \in Nat /\ MaxDials \in Nat
    /\ Closers \subseteq Nodes /\ MaxCloses \in Nat

VARIABLES
    pc,         \* pc[c]: where caller c awaits
    peer,       \* peer[c]: peer_id of its call
    item,       \* item[c]: the message of its call
    link,       \* link[c]: the connection whose writer it holds, or 0
    table,      \* table[n][p]: _connections of node n, 0 without an entry
    dials,      \* connections established so far; they are numbered
    ends,       \* ends[k]: the client and the server of connection k
    client,     \* client[k]: the client's writer is "open" or "closing"
    server,     \* server[k]: where the handler of the server is
    up,         \* up[k]: the frames on their way to the server, after the hello
    ack,        \* ack[k]: the server has written hello_ack
    incoming,   \* incoming[n]: _incoming_writers
    inbox,      \* inbox[n]: _inbox
    closing,    \* closing[n]: how far close() has got
    visited,    \* visited[n]: the peers whose connections its first loop has closed
    size,       \* size[n]: len(_connections) when its first loop began
    busy,       \* history: busy[n], a call of send was in progress when close() began
    crowd,      \* history: crowd[n], the most callers of n that were ever dialling or
                \* shaking hands at a time
    sends,      \* calls of send so far
    sent,       \* history: the messages send was called with
    received    \* history: received[n], what recv returned at n

callVars == <<pc, peer, item, link>>
connVars == <<dials, ends, client, server, up, ack>>
closeVars == <<closing, visited, size, busy>>
histVars == <<crowd, sends, sent, received>>
vars == <<callVars, table, connVars, incoming, inbox, closeVars, histVars>>

Conns == 1..MaxDials
Messages == [id : 1..MaxSends, from : Nodes, to : Nodes]
None == [id |-> 0]

Init ==
    /\ pc = [c \in Callers |-> "idle"]
    /\ peer = Owner
    /\ item = [c \in Callers |-> None]
    /\ link = [c \in Callers |-> 0]
    /\ table = [n \in Nodes |-> [p \in Nodes |-> 0]]
    /\ dials = 0
    /\ ends = [k \in Conns |-> <<>>]
    /\ client = [k \in Conns |-> "none"]
    /\ server = [k \in Conns |-> "none"]
    /\ up = [k \in Conns |-> <<>>]
    /\ ack = [k \in Conns |-> FALSE]
    /\ incoming = [n \in Nodes |-> {}]
    /\ inbox = [n \in Nodes |-> <<>>]
    /\ closing = [n \in Nodes |-> "no"]
    /\ visited = [n \in Nodes |-> {}]
    /\ size = [n \in Nodes |-> 0]
    /\ busy = [n \in Nodes |-> FALSE]
    /\ crowd = [n \in Nodes |-> 0]
    /\ sends = 0 /\ sent = {}
    /\ received = [n \in Nodes |-> {}]

Entries(n) == {p \in Nodes : table[n][p] # 0}
Connecting(n) == {c \in Callers : Owner[c] = n /\ pc[c] \in {"dial", "hello"}}

(* Mutant: _closed is set at the end of close() *)
Closed_SetLast(n) == closing[n] = "done"

Closed(n) == closing[n] # "no"
Listening(n) == closing[n] # "done"

-----------------------------------------------------------------------------
(* The caller's side: send and _get_or_connect                               *)

(* The caller goes on to a place where its arguments matter no more. *)
Leave(c, place) ==
    /\ pc' = [pc EXCEPT ![c] = place]
    /\ peer' = [peer EXCEPT ![c] = Owner[c]]
    /\ item' = [item EXCEPT ![c] = None]
    /\ link' = [link EXCEPT ![c] = 0]

(* The call ends, by a return or by an exception. *)
Return(c) == Leave(c, "idle")

(* _write_frame of m on connection k up to its drain.  What is written to a  *)
(* writer that is closing, or to a server that has gone, is lost.            *)
WriteFrame(c, k, m) ==
    /\ pc' = [pc EXCEPT ![c] = "drain"]
    /\ item' = [item EXCEPT ![c] = None]
    /\ link' = [link EXCEPT ![c] = k]
    /\ up' = IF client[k] = "open" /\ server[k] # "ended"
             THEN [up EXCEPT ![k] = Append(@, m)]
             ELSE up

(* Mutant: "more than" instead of "at least" *)
AtLimit_OffByOne(n) == Cardinality(Entries(n)) > MaxConnections

AtLimit(n) == Cardinality(Entries(n)) >= MaxConnections

(* send(p) up to its first await: the connection of the table is used while  *)
(* it is not closing, else a new one is dialled, unless the table is full.   *)
(* A call that is refused before that (a peer without an address, a message  *)
(* the node did not sign) changes nothing and is left out.                   *)
Call(c, p) ==
    LET n == Owner[c]
        k == table[n][p]
        m == [id |-> sends + 1, from |-> n, to |-> p]
        usable == k # 0 /\ client[k] = "open"
    IN  /\ pc[c] = "idle" /\ p \in Targets[c] \ {n}
        /\ sends < MaxSends
        /\ ~Closed(n)
        /\ sends' = sends + 1
        /\ sent' = sent \cup {m}
        /\ \/ /\ usable
              /\ WriteFrame(c, k, m)
              /\ peer' = [peer EXCEPT ![c] = p]
              /\ UNCHANGED crowd
           \/ /\ ~usable
              /\ ~AtLimit(n)
              /\ pc' = [pc EXCEPT ![c] = "dial"]
              /\ peer' = [peer EXCEPT ![c] = p]
              /\ item' = [item EXCEPT ![c] = m]
              /\ crowd' = [crowd EXCEPT ![n] = IF @ > Cardinality(Connecting(n)) THEN @ ELSE @ + 1]
              /\ UNCHANGED <<link, up>>
           \/ /\ ~usable /\ AtLimit(n)
              /\ UNCHANGED <<callVars, up, crowd>>
        /\ UNCHANGED <<table, dials, ends, client, server, ack, incoming, inbox, closeVars,
                       received>>

(* open_connection is refused or times out. *)
DialFails(c) ==
    /\ pc[c] = "dial"
    /\ Return(c)
    /\ UNCHANGED <<table, connVars, incoming, inbox, closeVars, histVars>>

(* open_connection succeeds and the hello is written. *)
DialSucceeds(c) ==
    LET k == dials + 1
    IN  /\ pc[c] = "dial"
        /\ dials < MaxDials
        /\ Listening(peer[c])
        /\ dials' = k
        /\ ends' = [ends EXCEPT ![k] = <<Owner[c], peer[c]>>]
        /\ client' = [client EXCEPT ![k] = "open"]
        /\ server' = [server EXCEPT ![k] = "accept"]
        /\ pc' = [pc EXCEPT ![c] = "hello"]
        /\ link' = [link EXCEPT ![c] = k]
        /\ UNCHANGED <<peer, item, table, up, ack, incoming, inbox, closeVars, histVars>>

(* The hello_ack is read and verified; the connection is entered in the      *)
(* table, whatever the table holds by now, and the message is written.       *)
Handshake(c) ==
    LET n == Owner[c]
        k == link[c]
    IN  /\ pc[c] = "hello" /\ ack[k]
        /\ table' = [table EXCEPT ![n][peer[c]] = k]
        /\ WriteFrame(c, k, item[c])
        /\ UNCHANGED <<peer, dials, ends, client, server, ack, incoming, inbox, closeVars,
                       histVars>>

(* The hello_ack does not verify: the writer is closed. *)
HandshakeRefused(c) ==
    /\ pc[c] = "hello" /\ ack[link[c]]
    /\ client' = [client EXCEPT ![link[c]] = "closing"]
    /\ Leave(c, "shut")
    /\ UNCHANGED <<table, dials, ends, server, up, ack, incoming, inbox, closeVars,
                   histVars>>

(* Writing the hello or reading the answer times out, or the server hangs    *)
(* up: the exception leaves the writer open.                                 *)
HandshakeFails(c) ==
    /\ pc[c] = "hello"
    /\ Return(c)
    /\ UNCHANGED <<table, connVars, incoming, inbox, closeVars, histVars>>

(* The drain returns: the buffer has room, also that of a writer which is    *)
(* closing and whose connection is not lost yet.                             *)
DrainSucceeds(c) ==
    /\ pc[c] = "drain"
    /\ Return(c)
    /\ UNCHANGED <<table, connVars, incoming, inbox, closeVars, histVars>>

(* The drain times out or the connection is lost: the entry of the peer is   *)
(* removed, whichever connection it holds by now, and the writer is closed.  *)
DrainFails(c) ==
    /\ pc[c] = "drain"
    /\ table' = [table EXCEPT ![Owner[c]][peer[c]] = 0]
    /\ client' = [client EXCEPT ![link[c]] = "closing"]
    /\ Leave(c, "shut")
    /\ UNCHANGED <<dials, ends, server, up, ack, incoming, inbox, closeVars,
                   histVars>>

(* wait_closed returns: the connection is flushed or lost. *)
ShutReturns(c) ==
    /\ pc[c] = "shut"
    /\ Return(c)
    /\ UNCHANGED <<table, connVars, incoming, inbox, closeVars, histVars>>

(* The caller's task is cancelled: no handler of send catches that. *)
Cancel(c) ==
    /\ pc[c] # "idle"
    /\ Return(c)
    /\ UNCHANGED <<table, connVars, incoming, inbox, closeVars, histVars>>

-----------------------------------------------------------------------------
(* TCP                                                                       *)

(* The connection breaks and the client notices, or a writer that nobody     *)
(* refers to is closed by the garbage collector.  The handler of the server  *)
(* may still read what has arrived before it ends.                           *)
Break(k) ==
    /\ client[k] = "open"
    /\ client' = [client EXCEPT ![k] = "closing"]
    /\ UNCHANGED <<callVars, table, dials, ends, server, up, ack, incoming, inbox, closeVars,
                   histVars>>

-----------------------------------------------------------------------------
(* The server's side: _handle_client and recv                                *)

ServerOf(k) == ends[k][2]

EndHandler(k) ==
    /\ server' = [server EXCEPT ![k] = "ended"]
    /\ up' = [up EXCEPT ![k] = <<>>]
    /\ incoming' = [incoming EXCEPT ![ServerOf(k)] = @ \ {k}]

(* Mutant: "more than" instead of "at least" *)
Accept_OffByOne(k) ==
    LET n == ServerOf(k)
    IN  /\ server[k] = "accept"
        /\ \/ /\ Cardinality(incoming[n]) <= MaxConnections
              /\ incoming' = [incoming EXCEPT ![n] = @ \cup {k}]
              /\ server' = [server EXCEPT ![k] = "hello"]
              /\ UNCHANGED up
           \/ /\ Cardinality(incoming[n]) > MaxConnections
              /\ EndHandler(k)
        /\ UNCHANGED <<callVars, table, dials, ends, client, ack, inbox, closeVars, histVars>>

(* The handler starts; at the limit it hangs up. *)
Accept(k) ==
    LET n == ServerOf(k)
    IN  /\ server[k] = "accept"
        /\ \/ /\ Cardinality(incoming[n]) < MaxConnections
              /\ incoming' = [incoming EXCEPT ![n] = @ \cup {k}]
              /\ server' = [server EXCEPT ![k] = "hello"]
              /\ UNCHANGED up
           \/ /\ Cardinality(incoming[n]) >= MaxConnections
              /\ EndHandler(k)
        /\ UNCHANGED <<callVars, table, dials, ends, client, ack, inbox, closeVars, histVars>>

(* The hello verifies and is answered. *)
Welcome(k) ==
    /\ server[k] = "hello"
    /\ ack' = [ack EXCEPT ![k] = TRUE]
    /\ IF Closed(ServerOf(k))
       THEN EndHandler(k)
       ELSE server' = [server EXCEPT ![k] = "serving"] /\ UNCHANGED <<up, incoming>>
    /\ UNCHANGED <<callVars, table, dials, ends, client, inbox, closeVars, histVars>>

(* Mutant: a frame is delivered and stays in the buffer *)
Serve_Rereads(k) ==
    LET n == ServerOf(k)
    IN  /\ server[k] = "serving" /\ up[k] # <<>>
        /\ Len(inbox[n]) < InboxSize
        /\ inbox' = [inbox EXCEPT ![n] = Append(@, Head(up[k]))]
        /\ UNCHANGED <<callVars, table, dials, ends, client, server, up, ack, incoming,
                       closeVars, histVars>>

(* A frame is read and verifies; it is dropped when the inbox is full. *)
Serve(k) ==
    LET n == ServerOf(k)
    IN  /\ server[k] = "serving" /\ up[k] # <<>>
        /\ inbox' = IF Len(inbox[n]) < InboxSize
                    THEN [inbox EXCEPT ![n] = Append(@, Head(up[k]))]
                    ELSE inbox
        /\ IF Closed(n)
           THEN EndHandler(k)
           ELSE up' = [up EXCEPT ![k] = Tail(@)] /\ UNCHANGED <<server, incoming>>
        /\ UNCHANGED <<callVars, table, dials, ends, client, ack, closeVars, histVars>>

(* Mutant: reads without a timeout; only the end of the stream ends a handler *)
HandlerEnds_WithoutTimeout(k) ==
    /\ server[k] \in {"hello", "serving"}
    /\ client[k] # "open"
    /\ EndHandler(k)
    /\ UNCHANGED <<callVars, table, dials, ends, client, ack, inbox, closeVars, histVars>>

(* A read times out or finds the end of the stream, or a frame is malformed  *)
(* or does not verify.                                                       *)
HandlerEnds(k) ==
    /\ server[k] \in {"hello", "serving"}
    /\ EndHandler(k)
    /\ UNCHANGED <<callVars, table, dials, ends, client, ack, inbox, closeVars, histVars>>

Recv(n) ==
    /\ inbox[n] # <<>>
    /\ received' = [received EXCEPT ![n] = @ \cup {Head(inbox[n])}]
    /\ inbox' = [inbox EXCEPT ![n] = Tail(@)]
    /\ UNCHANGED <<callVars, table, connVars, incoming, closeVars, crowd, sends, sent>>

-----------------------------------------------------------------------------
(* close(): between two steps it waits for a writer to close.                *)

InProgress(n) == \E c \in Callers : Owner[c] = n /\ pc[c] # "idle"

(* The first loop may go on: it has begun, and the table has kept its size.  *)
Iterating(n) == closing[n] = "peers" /\ Cardinality(Entries(n)) = size[n]

(* The next connection of the table is closed, in the order of the dict. *)
ClosePeer(n, p) ==
    /\ closing[n] = "no" \/ Iterating(n)
    /\ p \in Entries(n) \ visited[n]
    /\ client' = [client EXCEPT ![table[n][p]] = "closing"]
    /\ visited' = [visited EXCEPT ![n] = @ \cup {p}]
    /\ closing' = [closing EXCEPT ![n] = "peers"]
    /\ size' = [size EXCEPT ![n] = Cardinality(Entries(n))]
    /\ busy' = [busy EXCEPT ![n] = @ \/ (closing[n] = "no" /\ InProgress(n))]
    /\ UNCHANGED <<callVars, table, dials, ends, server, up, ack, incoming, inbox, histVars>>

(* "dictionary changed size during iteration" leaves close(). *)
CloseRaises(n) ==
    /\ closing[n] = "peers" /\ ~Iterating(n)
    /\ closing' = [closing EXCEPT ![n] = "failed"]
    /\ visited' = [visited EXCEPT ![n] = {}]
    /\ size' = [size EXCEPT ![n] = 0]
    /\ UNCHANGED <<callVars, table, connVars, incoming, inbox, busy, histVars>>

(* The first loop is over: the table is cleared, and the loop over the       *)
(* incoming writers begins.  It hangs up on handlers, which may end anyway.  *)
CloseTable(n) ==
    /\ closing[n] = "no" \/ Iterating(n)
    /\ Entries(n) \subseteq visited[n]
    /\ table' = [table EXCEPT ![n] = [p \in Nodes |-> 0]]
    /\ closing' = [closing EXCEPT ![n] = "incoming"]
    /\ visited' = [visited EXCEPT ![n] = {}]
    /\ size' = [size EXCEPT ![n] = 0]
    /\ busy' = [busy EXCEPT ![n] = @ \/ (closing[n] = "no" /\ InProgress(n))]
    /\ UNCHANGED <<callVars, connVars, incoming, inbox, histVars>>

(* The incoming writers are closed and forgotten, and the server stops. *)
CloseServer(n) ==
    /\ closing[n] = "incoming"
    /\ incoming' = [incoming EXCEPT ![n] = {}]
    /\ closing' = [closing EXCEPT ![n] = "done"]
    /\ UNCHANGED <<callVars, table, connVars, inbox, visited, size, busy, histVars>>

CloseStep(n) ==
    /\ Cardinality({m \in Nodes \ {n} : Closed(m)}) < MaxCloses
    /\ \/ \E p \in Nodes : ClosePeer(n, p)
       \/ CloseRaises(n)
       \/ CloseTable(n)
       \/ CloseServer(n)

-----------------------------------------------------------------------------

CallerStep(c) ==
    \/ DialFails(c) \/ DialSucceeds(c)
    \/ Handshake(c) \/ HandshakeRefused(c) \/ HandshakeFails(c)
    \/ DrainSucceeds(c) \/ DrainFails(c)
    \/ ShutReturns(c)

HandlerStep(k) == Accept(k) \/ Welcome(k) \/ Serve(k) \/ HandlerEnds(k)

Next ==
    \/ \E c \in Callers, p \in Nodes : Call(c, p)
    \/ \E c \in Callers : CallerStep(c) \/ Cancel(c)
    \/ \E k \in Conns : HandlerStep(k) \/ Break(k)
    \/ \E n \in Nodes : Recv(n)
    \/ \E n \in Closers : CloseStep(n)

Spec == Init /\ [][Next]_vars

(* Every await of send has a timeout, except for wait_closed: nothing is     *)
(* assumed of a caller that is there, for the peer may never read what is    *)
(* left in the buffer.  Every read and write of a handler has one.           *)
Fairness ==
    /\ \A c \in Callers : WF_vars(pc[c] # "shut" /\ CallerStep(c))
    /\ \A k \in Conns : WF_vars(HandlerStep(k))

FairSpec == Spec /\ Fairness

-----------------------------------------------------------------------------

TypeOK ==
    /\ pc \in [Callers -> {"idle", "dial", "hello", "drain", "shut"}]
    /\ peer \in [Callers -> Nodes]
    /\ item \in [Callers -> Messages \cup {None}]
    /\ link \in [Callers -> 0..MaxDials]
    /\ table \in [Nodes -> [Nodes -> 0..MaxDials]]
    /\ dials \in 0..MaxDials
    /\ ends \in [Conns -> (Nodes \X Nodes) \cup {<<>>}]
    /\ client \in [Conns -> {"none", "open", "closing"}]
    /\ server \in [Conns -> {"none", "accept", "hello", "serving", "ended"}]
    /\ up \in [Conns -> Seq(Messages)]
    /\ ack \in [Conns -> BOOLEAN]
    /\ incoming \in [Nodes -> SUBSET Conns]
    /\ inbox \in [Nodes -> Seq(Messages)]
    /\ \A n \in Nodes : Len(inbox[n]) <= InboxSize
    /\ closing \in [Nodes -> {"no", "peers", "failed", "incoming", "done"}]
    /\ visited \in [Nodes -> SUBSET Nodes]
    /\ size \in [Nodes -> Nat]
    /\ busy \in [Nodes -> BOOLEAN]
    /\ crowd \in [Nodes -> Nat]
    /\ sends \in 0..MaxSends /\ sent \subseteq Messages
    /\ received \in [Nodes -> SUBSET Messages]

(* TcpTransport implements the Network: a message is in flight while its     *)
(* call dials or shakes hands, on its connection and in the inbox.  However  *)
(* connections are replaced, broken and closed, it reaches recv of its       *)
(* addressee at most once (send, _get_or_connect, _handle_client, recv).     *)
Flying(items, pipes, boxes) ==
    {items[c] : c \in {d \in Callers : items[d] # None}}
        \cup (UNION {Range(pipes[k]) : k \in Conns})
        \cup (UNION {Range(boxes[n]) : n \in Nodes})

InFlight == Flying(item, up, inbox)

Net == INSTANCE Network WITH flight <- InFlight

ImplementsNetwork == Net!Spec

(* _get_or_connect compares the table with the limit before it dials, and    *)
(* enters the connection after two awaits.  Callers that are in between at   *)
(* the same time can exceed max_connections, by one less than there are of   *)
(* them; calls one after the other cannot.                                   *)
LimitOvershoot ==
    \A n \in Nodes :
        Cardinality(Entries(n)) + Cardinality(Connecting(n)) <=
            IF crowd[n] = 0 THEN 0 ELSE MaxConnections + crowd[n] - 1

(* The server's limit is exact: _handle_client counts and registers without  *)
(* an await in between.                                                      *)
IncomingLimit == \A n \in Nodes : Cardinality(incoming[n]) <= MaxConnections

(* What PeerNode.stop relies on: when no call of send is in progress at the  *)
(* time close() begins, close() does not raise, and it leaves no connection  *)
(* in the table, whatever peers, handlers and later calls do meanwhile.      *)
CleanClose ==
    \A n \in Nodes : closing[n] # "no" /\ ~busy[n] =>
        /\ closing[n] # "failed"
        /\ closing[n] = "done" => Entries(n) = {}

(* When nobody calls send any more, no handler of an incoming connection     *)
(* keeps its slot, not even for a client that stays connected and silent,    *)
(* and no call is left dialling, shaking hands or writing (the timeouts of   *)
(* _get_or_connect, _write_frame and _read_frame).  A call whose write       *)
(* failed may wait for its writer to close, for as long as the peer likes.   *)
ComesToRest ==
    <>[](/\ \A c \in Callers : pc[c] \in {"idle", "shut"}
         /\ \A n \in Nodes : incoming[n] = {})

=============================================================================
