------------------------------- MODULE Network -------------------------------
(***************************************************************************)
(* What a PeerNode may rely on when it is given a Transport                *)
(* (peerq/transport.py): a message may be lost at any time, it may         *)
(* overtake others, and it is handed to its addressee at most once.        *)
(* SimNetwork and TcpTransport are shown to implement this specification.  *)
(***************************************************************************)
CONSTANTS
    Nodes,      \* node identifiers
    Messages    \* records with a field to; a call of send makes a new one

VARIABLES
    sent,       \* the messages that send was called with
    flight,     \* those that may still arrive
    received    \* received[n]: those that recv returned at n

vars == <<sent, flight, received>>

Init ==
    /\ sent = {}
    /\ flight = {}
    /\ received = [n \in Nodes |-> {}]

(* A send may raise, or return although the message goes nowhere. *)
Send(m) ==
    /\ m \notin sent
    /\ sent' = sent \cup {m}
    /\ flight' \in {flight, flight \cup {m}}
    /\ UNCHANGED received

Lose ==
    /\ flight' \in SUBSET flight
    /\ UNCHANGED <<sent, received>>

Receive(n, m) ==
    /\ m \in flight
    /\ m.to = n
    /\ flight' = flight \ {m}
    /\ received' = [received EXCEPT ![n] = @ \cup {m}]
    /\ UNCHANGED sent

Next ==
    \/ \E m \in Messages : Send(m)
    \/ Lose
    \/ \E n \in Nodes, m \in Messages : Receive(n, m)

Spec == Init /\ [][Next]_vars

=============================================================================
