-------------------------- MODULE SimNetworkProofs --------------------------
(***************************************************************************)
(* For every set of nodes and coroutines and for every bound: SimNetwork   *)
(* implements Network, no message outlives the transport it was sent to,   *)
(* messages are delivered in the order in which they were sent, and nobody *)
(* sleeps past its deadline.                                               *)
(*                                                                         *)
(* The argument for the order: with one latency for all, the order of the  *)
(* heap is that of the calls.  Hence the messages wait, from the first     *)
(* coroutine to be resumed to the last entry of the heap, in the order in  *)
(* which they were sent, and a step of the clock moves the boundary        *)
(* between the two.                                                        *)
(***************************************************************************)
EXTENDS SimNetwork, FiniteSetTheorems, TLAPS

(* The part of the type invariant that the argument needs *)
Types ==
    /\ sends \in Nat
    /\ life \in [Nodes -> 1..MaxLives]
    /\ open \in [Nodes -> BOOLEAN]
    /\ inbox \in [Nodes -> Seq(Messages)]
    /\ carried \in [Coroutines -> Messages \cup {None}]
    /\ target \in [Coroutines -> 0..MaxLives]
    /\ sent \subseteq Messages
    /\ received \in [Nodes -> SUBSET Messages]

(* A message exists in one place only: with the coroutine that carries it,   *)
(* or at one position of the inbox of its addressee.                         *)
OnePlace ==
    /\ \A m \in sent : m.id <= sends
    /\ \A c \in Coroutines : carried[c] # None =>
           /\ carried[c] \in sent
           /\ target[c] = carried[c].life
           /\ \A d \in Coroutines \ {c} : carried[d] # carried[c]
           /\ \A n \in Nodes : carried[c] \notin Range(inbox[n])
    /\ \A n \in Nodes : \A i \in DOMAIN inbox[n] :
           /\ inbox[n][i] \in sent
           /\ inbox[n][i].to = n
           /\ inbox[n][i].life = life[n]
           /\ \A j \in DOMAIN inbox[n] : inbox[n][i] = inbox[n][j] => i = j

IInv == Types /\ OnePlace

-----------------------------------------------------------------------------

(* Append adds one element, at the end. *)
LEMMA AppendMembers ==
    ASSUME NEW s \in Seq(Messages), NEW m \in Messages
    PROVE  /\ Append(s, m) \in Seq(Messages)
           /\ Range(Append(s, m)) = Range(s) \cup {m}
           /\ DOMAIN Append(s, m) = DOMAIN s \cup {Len(s) + 1}
           /\ \A i \in DOMAIN s : Append(s, m)[i] = s[i]
           /\ Append(s, m)[Len(s) + 1] = m
           /\ Len(s) + 1 \notin DOMAIN s
  BY DEF Range

(* Where a message in flight is *)
LEMMA FlyingMembers ==
    ASSUME NEW held, NEW boxes, NEW m
    PROVE  m \in Flying(held, boxes) <=>
               \/ \E c \in Coroutines : held[c] # None /\ m = held[c]
               \/ \E n \in Nodes : m \in Range(boxes[n])
  BY Zenon DEF Flying

-----------------------------------------------------------------------------

(* deliver_packet adds the message to the inbox of its addressee, while the  *)
(* transport it was sent to is the latest, or changes nothing.               *)
LEMMA DeliverPacketEffect ==
    ASSUME Types, NEW m \in Messages, NEW l, DeliverPacket(m, l)
    PROVE  \/ inbox' = inbox
           \/ /\ l = life[m.to]
              /\ inbox' = [inbox EXCEPT ![m.to] = Append(inbox[m.to], m)]
  BY Zenon DEF DeliverPacket

(* The message that send makes is new. *)
LEMMA FreshMessage ==
    ASSUME IInv, NEW c \in Coroutines, NEW n \in Nodes, sends < MaxSends,
           NEW m, m = [id |-> sends + 1, from |-> Owner[c], to |-> n, life |-> life[n]]
    PROVE  /\ m \in Messages
           /\ m # None
           /\ m \notin sent
           /\ m.to = n /\ m.life = life[n] /\ m.id = sends + 1
<1>1. m \in Messages
  BY SimNetworkAssumption DEF IInv, Types, Messages
<1>2. m.id = sends + 1 /\ m.to = n /\ m.life = life[n]
  BY Zenon
<1>3. m \notin sent
  BY <1>2 DEF IInv, Types, OnePlace
<1>4. m # None
  BY <1>1, <1>2, Zenon DEF None, IInv, Types
<1>. QED
  BY <1>1, <1>2, <1>3, <1>4, Zenon

(* OnePlace survives when a message that was carried, or is new, enters the  *)
(* inbox of its addressee and is carried no more.                            *)
LEMMA OnePlaceDelivered ==
    ASSUME IInv, NEW m \in Messages,
           m \in sent', sent \subseteq sent', sends' \in Nat,
           \A k \in sent' : k.id <= sends',
           m.life = life[m.to],
           \A n \in Nodes : m \notin Range(inbox[n]),
           \A c \in Coroutines : carried'[c] # None =>
               carried'[c] # m /\ carried'[c] = carried[c] /\ target'[c] = target[c],
           inbox' = [inbox EXCEPT ![m.to] = Append(inbox[m.to], m)],
           life' = life
    PROVE  OnePlace'
<1>1. m.to \in Nodes
  BY Zenon DEF Messages
<1>2. inbox[m.to] \in Seq(Messages) /\ inbox'[m.to] = Append(inbox[m.to], m)
  BY <1>1, Zenon DEF IInv, Types
<1>3. /\ Range(inbox'[m.to]) = Range(inbox[m.to]) \cup {m}
      /\ DOMAIN inbox'[m.to] = DOMAIN inbox[m.to] \cup {Len(inbox[m.to]) + 1}
      /\ \A i \in DOMAIN inbox[m.to] : inbox'[m.to][i] = inbox[m.to][i]
      /\ inbox'[m.to][Len(inbox[m.to]) + 1] = m
      /\ Len(inbox[m.to]) + 1 \notin DOMAIN inbox[m.to]
  BY <1>2, AppendMembers
<1>4. \A n \in Nodes \ {m.to} : inbox'[n] = inbox[n]
  BY Zenon DEF IInv, Types
<1>5. ASSUME NEW c \in Coroutines, carried'[c] # None
      PROVE  /\ carried'[c] \in sent'
             /\ target'[c] = carried'[c].life
             /\ \A d \in Coroutines \ {c} : carried'[d] # carried'[c]
             /\ \A n \in Nodes : carried'[c] \notin Range(inbox'[n])
  <2>1. carried[c] # None /\ carried'[c] = carried[c] /\ target'[c] = target[c] /\ carried[c] # m
    BY <1>5, Zenon
  <2>2. /\ carried[c] \in sent
        /\ target[c] = carried[c].life
        /\ \A d \in Coroutines \ {c} : carried[d] # carried[c]
        /\ \A n \in Nodes : carried[c] \notin Range(inbox[n])
    BY <2>1, Zenon DEF IInv, OnePlace
  <2>3. \A d \in Coroutines \ {c} : carried'[d] # carried'[c]
    BY <2>1, <2>2, Zenon
  <2>4. \A n \in Nodes : carried'[c] \notin Range(inbox'[n])
    BY <2>1, <2>2, <1>3, <1>4
  <2>. QED
    BY <2>1, <2>2, <2>3, <2>4, Zenon
<1>6. ASSUME NEW n \in Nodes, NEW i \in DOMAIN inbox'[n]
      PROVE  /\ inbox'[n][i] \in sent'
             /\ inbox'[n][i].to = n
             /\ inbox'[n][i].life = life'[n]
             /\ \A j \in DOMAIN inbox'[n] : inbox'[n][i] = inbox'[n][j] => i = j
  <2>1. CASE n # m.to
    BY <2>1, <1>4 DEF IInv, OnePlace
  <2>2. CASE n = m.to
    <3>1. \A j \in DOMAIN inbox[n] :
              /\ inbox[n][j] \in sent /\ inbox[n][j].to = n /\ inbox[n][j].life = life[n]
              /\ inbox[n][j] # m
      BY <2>2 DEF IInv, OnePlace, Range
    <3>2. \A j, k \in DOMAIN inbox[n] : inbox[n][j] = inbox[n][k] => j = k
      BY DEF IInv, OnePlace
    <3>. QED
      BY <2>2, <3>1, <3>2, <1>3
  <2>. QED
    BY <2>1, <2>2, Zenon
<1>. QED
  BY <1>5, <1>6, Zenon DEF OnePlace

-----------------------------------------------------------------------------

(* send: the message is dropped, put into an inbox or carried *)
LEMMA SendStep ==
    ASSUME IInv, NEW c \in Coroutines, NEW n \in Nodes, Send(c, n)
    PROVE  /\ IInv'
           /\ \E m \in Messages :
                  /\ m \notin sent /\ sent' = sent \cup {m} /\ received' = received
                  /\ InFlight' \in {InFlight, InFlight \cup {m}}
<1>. DEFINE m == [id |-> sends + 1, from |-> Owner[c], to |-> n, life |-> life[n]]
<1>1. /\ m \in Messages /\ m # None /\ m \notin sent
      /\ m.to = n /\ m.life = life[n] /\ m.id = sends + 1
  <2>1. sends < MaxSends
    BY Zenon DEF Send
  <2>. QED
    BY <2>1, FreshMessage
<1>2. sent' = sent \cup {m} /\ sends' = sends + 1 /\ UNCHANGED <<life, open, received>>
  BY Zenon DEF Send
<1>. HIDE DEF m
<1>3. \A k \in sent' : k.id <= sends'
  <2>1. \A k \in sent : k.id \in Nat /\ k.id <= sends
    BY DEF IInv, Types, OnePlace, Messages
  <2>2. sends \in Nat
    BY Zenon DEF IInv, Types
  <2>. QED
    BY <1>1, <1>2, <2>1, <2>2
<1>4. \A b \in Nodes : m \notin Range(inbox[b])
  BY <1>1 DEF IInv, OnePlace, Range
<1>5. \A d \in Coroutines : carried[d] # m
  BY <1>1 DEF IInv, OnePlace
<1>6. CASE UNCHANGED <<inbox, carried, target>>
  <2>1. Types'
    BY <1>1, <1>2, <1>6 DEF IInv, Types
  <2>2. OnePlace'
    BY <1>1, <1>2, <1>3, <1>6 DEF IInv, OnePlace
  <2>3. InFlight' = InFlight
    BY <1>6, Zenon DEF InFlight, Flying
  <2>. QED
    BY <2>1, <2>2, <2>3, <1>1, <1>2, Zenon DEF IInv
<1>7. CASE DeliverPacket(m, life[n]) /\ UNCHANGED <<carried, target>> /\ inbox' # inbox
  <2>1. inbox' = [inbox EXCEPT ![m.to] = Append(inbox[m.to], m)]
    BY <1>1, <1>7, DeliverPacketEffect, Zenon DEF IInv
  <2>2. /\ inbox[n] \in Seq(Messages)
        /\ inbox'[n] = Append(inbox[n], m)
        /\ \A b \in Nodes \ {n} : inbox'[b] = inbox[b]
    BY <1>1, <2>1, Zenon DEF IInv, Types
  <2>3. Append(inbox[n], m) \in Seq(Messages) /\ Range(inbox'[n]) = Range(inbox[n]) \cup {m}
    BY <1>1, <2>2, AppendMembers
  <2>4. Types'
    BY <1>1, <1>2, <1>7, <2>1, <2>3 DEF IInv, Types
  <2>5. OnePlace'
    <3>1. m \in sent' /\ sent \subseteq sent' /\ sends' \in Nat
      BY <1>2 DEF IInv, Types
    <3>. QED
      BY <1>1, <1>2, <1>3, <1>4, <1>5, <1>7, <2>1, <3>1, OnePlaceDelivered, Zenon
  <2>6. ASSUME NEW k PROVE k \in InFlight' <=> k \in InFlight \cup {m}
    <3>1. (\E b \in Nodes : k \in Range(inbox'[b]))
            <=> ((\E b \in Nodes : k \in Range(inbox[b])) \/ k = m)
      BY <2>2, <2>3, Zenon
    <3>. QED
      BY <1>7, <3>1, FlyingMembers, Zenon DEF InFlight
  <2>. QED
    BY <2>4, <2>5, <2>6, <1>1, <1>2, Zenon DEF IInv
<1>8. CASE /\ carried' = [carried EXCEPT ![c] = m]
           /\ target' = [target EXCEPT ![c] = life[n]]
           /\ carried[c] = None
           /\ UNCHANGED inbox
  <2>1. Types'
    BY <1>1, <1>2, <1>8 DEF IInv, Types
  <2>2. carried'[c] = m /\ target'[c] = m.life
    BY <1>1, <1>8, Zenon DEF IInv, Types
  <2>3. \A d \in Coroutines \ {c} : carried'[d] = carried[d] /\ target'[d] = target[d]
    BY <1>8, Zenon DEF IInv, Types
  <2>4. ASSUME NEW d \in Coroutines, carried'[d] # None
        PROVE  /\ carried'[d] \in sent'
               /\ target'[d] = carried'[d].life
               /\ \A e \in Coroutines \ {d} : carried'[e] # carried'[d]
               /\ \A b \in Nodes : carried'[d] \notin Range(inbox'[b])
    <3>1. CASE d = c
      BY <3>1, <2>2, <2>3, <1>2, <1>4, <1>5, <1>8, Zenon
    <3>2. CASE d # c
      <4>1. carried'[d] = carried[d] /\ target'[d] = target[d]
        BY <3>2, <2>3, Zenon
      <4>2. /\ carried[d] \in sent /\ target[d] = carried[d].life
            /\ \A e \in Coroutines \ {d} : carried[e] # carried[d]
            /\ \A b \in Nodes : carried[d] \notin Range(inbox[b])
        BY <2>4, <4>1, Zenon DEF IInv, OnePlace
      <4>. QED
        BY <4>1, <4>2, <2>2, <2>3, <1>2, <1>5, <1>8
    <3>. QED
      BY <3>1, <3>2, Zenon
  <2>5. OnePlace'
    BY <2>4, <1>2, <1>3, <1>8 DEF IInv, OnePlace
  <2>6. ASSUME NEW k PROVE k \in InFlight' <=> k \in InFlight \cup {m}
    <3>1. (\E d \in Coroutines : carried'[d] # None /\ k = carried'[d])
            <=> ((\E d \in Coroutines : carried[d] # None /\ k = carried[d]) \/ k = m)
      BY <2>2, <2>3, <1>1, <1>8
    <3>. QED
      BY <1>8, <3>1, FlyingMembers, Zenon DEF InFlight
  <2>. QED
    BY <2>1, <2>5, <2>6, <1>1, <1>2, Zenon DEF IInv
<1>. QED
  BY <1>6, <1>7, <1>8, Zenon DEF Send, m

(* A coroutine that lets go of its message, and nothing else *)
LEMMA DropStep ==
    ASSUME IInv, NEW c \in Coroutines,
           carried' = [carried EXCEPT ![c] = None],
           target' = [target EXCEPT ![c] = 0],
           UNCHANGED <<life, open, inbox, sends, sent, received>>
    PROVE  IInv' /\ InFlight' \in SUBSET InFlight
<1>1. \A d \in Coroutines : carried'[d] # None =>
          d # c /\ carried'[d] = carried[d] /\ target'[d] = target[d]
  BY Zenon DEF IInv, Types
<1>2. Types'
  BY SimNetworkAssumption DEF IInv, Types
<1>3. ASSUME NEW d \in Coroutines, carried'[d] # None
      PROVE  /\ carried'[d] \in sent'
             /\ target'[d] = carried'[d].life
             /\ \A e \in Coroutines \ {d} : carried'[e] # carried'[d]
             /\ \A b \in Nodes : carried'[d] \notin Range(inbox'[b])
  <2>1. carried'[d] = carried[d] /\ target'[d] = target[d]
    BY <1>1, <1>3, Zenon
  <2>2. /\ carried[d] \in sent /\ target[d] = carried[d].life
        /\ \A e \in Coroutines \ {d} : carried[e] # carried[d]
        /\ \A b \in Nodes : carried[d] \notin Range(inbox[b])
    BY <1>3, <2>1, Zenon DEF IInv, OnePlace
  <2>. QED
    BY <1>1, <1>3, <2>1, <2>2
<1>4. OnePlace'
  BY <1>3 DEF IInv, OnePlace
<1>5. ASSUME NEW k \in InFlight' PROVE k \in InFlight
  <2>1. CASE \E d \in Coroutines : carried'[d] # None /\ k = carried'[d]
    BY <2>1, <1>1, FlyingMembers DEF InFlight
  <2>2. CASE \E b \in Nodes : k \in Range(inbox'[b])
    BY <2>2, FlyingMembers, Zenon DEF InFlight
  <2>. QED
    BY <1>5, <2>1, <2>2, FlyingMembers, Zenon DEF InFlight
<1>. QED
  BY <1>2, <1>4, <1>5, Zenon DEF IInv

(* route_message after its sleep: the message is delivered or dropped. *)
LEMMA ArriveStep ==
    ASSUME IInv, NEW c \in Coroutines, Arrive(c)
    PROVE  /\ IInv'
           /\ UNCHANGED <<sent, received>> /\ InFlight' \in SUBSET InFlight
<1>. DEFINE m == carried[c]
<1>1. /\ m # None
      /\ carried' = [carried EXCEPT ![c] = None]
      /\ target' = [target EXCEPT ![c] = 0]
      /\ UNCHANGED <<life, open, sends, sent, received>>
      /\ inbox' = inbox \/ DeliverPacket(m, target[c])
  BY Zenon DEF Arrive
<1>2. /\ m \in Messages /\ m \in sent /\ target[c] = m.life
      /\ \A d \in Coroutines \ {c} : carried[d] # m
      /\ \A b \in Nodes : m \notin Range(inbox[b])
  BY <1>1, Zenon DEF IInv, Types, OnePlace
<1>3. CASE inbox' = inbox
  BY <1>1, <1>3, DropStep, Zenon
<1>4. CASE inbox' # inbox
  <2>1. m.life = life[m.to] /\ inbox' = [inbox EXCEPT ![m.to] = Append(inbox[m.to], m)]
    BY <1>1, <1>2, <1>4, DeliverPacketEffect, Zenon DEF IInv
  <2>2. /\ m.to \in Nodes
        /\ inbox[m.to] \in Seq(Messages)
        /\ inbox'[m.to] = Append(inbox[m.to], m)
        /\ \A b \in Nodes \ {m.to} : inbox'[b] = inbox[b]
    BY <1>2, <2>1, Zenon DEF IInv, Types, Messages
  <2>3. Append(inbox[m.to], m) \in Seq(Messages)
        /\ Range(inbox'[m.to]) = Range(inbox[m.to]) \cup {m}
    BY <1>2, <2>2, AppendMembers
  <2>4. \A d \in Coroutines : carried'[d] # None =>
            d # c /\ carried'[d] # m /\ carried'[d] = carried[d] /\ target'[d] = target[d]
    BY <1>1, <1>2, Zenon DEF IInv, Types
  <2>5. Types'
    <3>1. inbox' \in [Nodes -> Seq(Messages)]
      BY <2>1, <2>2, <2>3, Zenon DEF IInv, Types
    <3>2. /\ carried' \in [Coroutines -> Messages \cup {None}]
          /\ target' \in [Coroutines -> 0..MaxLives]
      BY <1>1, SimNetworkAssumption DEF IInv, Types
    <3>. QED
      BY <1>1, <3>1, <3>2, Zenon DEF IInv, Types
  <2>6. OnePlace'
    <3>1. m \in sent' /\ sent \subseteq sent' /\ sends' \in Nat /\ \A k \in sent' : k.id <= sends'
      BY <1>1, <1>2, Zenon DEF IInv, Types, OnePlace
    <3>. HIDE DEF m
    <3>. QED
      BY <1>1, <1>2, <2>1, <2>4, <3>1, OnePlaceDelivered, Zenon
  <2>7. ASSUME NEW k \in InFlight' PROVE k \in InFlight
    <3>1. CASE \E d \in Coroutines : carried'[d] # None /\ k = carried'[d]
      BY <3>1, <2>4, FlyingMembers, Zenon DEF InFlight
    <3>2. CASE \E b \in Nodes : k \in Range(inbox'[b])
      BY <3>2, <1>1, <2>2, <2>3, FlyingMembers, ZenonT(60) DEF InFlight
    <3>. QED
      BY <2>7, <3>1, <3>2, FlyingMembers, Zenon DEF InFlight
  <2>. QED
    BY <1>1, <2>5, <2>6, <2>7, Zenon DEF IInv
<1>. QED
  BY <1>3, <1>4, Zenon

(* recv: the head of the inbox reaches the node it was sent to, and is in    *)
(* flight no more.                                                           *)
LEMMA RecvStep ==
    ASSUME IInv, NEW n \in Nodes, Recv(n)
    PROVE  /\ IInv'
           /\ \E m \in Messages :
                  /\ m \in InFlight /\ m.to = n /\ InFlight' = InFlight \ {m}
                  /\ received' = [received EXCEPT ![n] = @ \cup {m}]
                  /\ sent' = sent
<1>. DEFINE m == Head(inbox[n])
<1>1. /\ inbox[n] # <<>>
      /\ inbox[n] \in Seq(Messages)
      /\ received' = [received EXCEPT ![n] = @ \cup {m}]
      /\ inbox' = [inbox EXCEPT ![n] = Tail(inbox[n])]
      /\ UNCHANGED <<life, open, carried, target, sends, sent>>
  BY Zenon DEF Recv, IInv, Types
<1>2. /\ inbox'[n] = Tail(inbox[n])
      /\ \A b \in Nodes \ {n} : inbox'[b] = inbox[b]
  BY <1>1, Zenon DEF IInv, Types
<1>3. \A i, j \in DOMAIN inbox[n] : inbox[n][i] = inbox[n][j] => i = j
  BY Zenon DEF IInv, OnePlace
<1>4. /\ m \in Range(inbox[n]) /\ m \in Messages
      /\ m = inbox[n][1] /\ 1 \in DOMAIN inbox[n]
      /\ Tail(inbox[n]) \in Seq(Messages)
      /\ \A i \in DOMAIN Tail(inbox[n]) :
             i + 1 \in DOMAIN inbox[n] /\ Tail(inbox[n])[i] = inbox[n][i + 1] /\ i \in Nat
  BY <1>1 DEF Range
<1>5. Range(inbox'[n]) = Range(inbox[n]) \ {m}
  <2>1. \A i \in DOMAIN inbox[n] :
            i = 1 \/ (i - 1 \in DOMAIN Tail(inbox[n]) /\ inbox[n][i] = Tail(inbox[n])[i - 1])
    BY <1>1
  <2>2. \A i \in DOMAIN Tail(inbox[n]) : inbox[n][i + 1] # m
    BY <1>3, <1>4
  <2>3. ASSUME NEW x \in Range(Tail(inbox[n])) PROVE x \in Range(inbox[n]) \ {m}
    BY <1>4, <2>2, <2>3 DEF Range
  <2>4. ASSUME NEW x \in Range(inbox[n]) \ {m} PROVE x \in Range(Tail(inbox[n]))
    <3>1. PICK i \in DOMAIN inbox[n] : x = inbox[n][i]
      BY <2>4, Zenon DEF Range
    <3>2. i - 1 \in DOMAIN Tail(inbox[n]) /\ x = Tail(inbox[n])[i - 1]
      BY <1>4, <2>1, <2>4, <3>1, Zenon
    <3>. QED
      BY <3>2, Zenon DEF Range
  <2>. QED
    BY <1>2, <2>3, <2>4, Zenon
<1>6. m.to = n
  BY <1>4 DEF IInv, OnePlace
<1>7. Types'
  BY <1>1, <1>4, Zenon DEF IInv, Types
<1>. HIDE DEF m
<1>8. OnePlace'
  <2>1. \A c \in Coroutines : carried'[c] # None =>
           /\ carried'[c] \in sent'
           /\ target'[c] = carried'[c].life
           /\ \A d \in Coroutines \ {c} : carried'[d] # carried'[c]
           /\ \A b \in Nodes : carried'[c] \notin Range(inbox'[b])
    BY <1>1, <1>2, <1>5 DEF IInv, OnePlace
  <2>2. ASSUME NEW b \in Nodes, NEW i \in DOMAIN inbox'[b]
        PROVE  /\ inbox'[b][i] \in sent'
               /\ inbox'[b][i].to = b
               /\ inbox'[b][i].life = life'[b]
               /\ \A j \in DOMAIN inbox'[b] : inbox'[b][i] = inbox'[b][j] => i = j
    <3>1. CASE b # n
      BY <3>1, <1>1, <1>2 DEF IInv, OnePlace
    <3>2. CASE b = n
      <4>1. \A j \in DOMAIN inbox[n] :
                inbox[n][j] \in sent /\ inbox[n][j].to = n /\ inbox[n][j].life = life[n]
        BY Zenon DEF IInv, OnePlace
      <4>. QED
        BY <3>2, <4>1, <1>1, <1>2, <1>3, <1>4
    <3>. QED
      BY <3>1, <3>2, Zenon
  <2>3. \A k \in sent' : k.id <= sends'
    BY <1>1, Zenon DEF IInv, OnePlace
  <2>. QED
    BY <2>1, <2>2, <2>3, Zenon DEF OnePlace
<1>9. ASSUME NEW k PROVE k \in InFlight' <=> k \in InFlight \ {m}
  <2>1. (\E b \in Nodes : k \in Range(inbox'[b]))
          <=> ((\E b \in Nodes : k \in Range(inbox[b])) /\ k # m)
    <3>1. \A b \in Nodes \ {n} : m \notin Range(inbox[b])
      BY <1>6 DEF IInv, OnePlace, Range
    <3>. QED
      BY <3>1, <1>2, <1>5, Zenon
  <2>2. (\E c \in Coroutines : carried'[c] # None /\ k = carried'[c])
          <=> (\E c \in Coroutines : carried[c] # None /\ k = carried[c] /\ k # m)
    BY <1>1, <1>4 DEF IInv, OnePlace
  <2>. QED
    BY <2>1, <2>2, FlyingMembers, Zenon DEF InFlight
<1>10. m \in InFlight
  BY <1>4, FlyingMembers, Zenon DEF InFlight
<1>11. InFlight' = InFlight \ {m}
  BY <1>9, Zenon
<1>. QED
  BY <1>1, <1>4, <1>6, <1>7, <1>8, <1>10, <1>11, Zenon DEF IInv

(* A restart loses what the inbox of the old transport holds. *)
LEMMA OpenStep ==
    ASSUME IInv, NEW n \in Nodes, Open(n)
    PROVE  /\ IInv'
           /\ UNCHANGED <<sent, received>> /\ InFlight' \in SUBSET InFlight
<1>1. /\ open' = [open EXCEPT ![n] = TRUE]
      /\ life' = [life EXCEPT ![n] = @ + 1] /\ life[n] < MaxLives
      /\ inbox' = [inbox EXCEPT ![n] = <<>>]
      /\ UNCHANGED <<carried, target, sends, sent, received>>
  BY Zenon DEF Open
<1>2. /\ inbox'[n] = <<>>
      /\ \A b \in Nodes \ {n} : inbox'[b] = inbox[b] /\ life'[b] = life[b]
  BY <1>1, Zenon DEF IInv, Types
<1>3. Range(inbox'[n]) = {} /\ DOMAIN inbox'[n] = {}
  BY <1>2 DEF Range
<1>4. Types'
  <2>1. life' \in [Nodes -> 1..MaxLives]
    BY <1>1, SimNetworkAssumption DEF IInv, Types
  <2>2. inbox' \in [Nodes -> Seq(Messages)]
    BY <1>1 DEF IInv, Types
  <2>. QED
    BY <1>1, <2>1, <2>2, Zenon DEF IInv, Types
<1>5. OnePlace'
  BY <1>1, <1>2, <1>3 DEF IInv, OnePlace
<1>6. ASSUME NEW k \in InFlight' PROVE k \in InFlight
  <2>1. CASE \E d \in Coroutines : carried'[d] # None /\ k = carried'[d]
    BY <2>1, <1>1, FlyingMembers, Zenon DEF InFlight
  <2>2. CASE \E b \in Nodes : k \in Range(inbox'[b])
    BY <2>2, <1>2, <1>3, FlyingMembers, Zenon DEF InFlight
  <2>. QED
    BY <1>6, <2>1, <2>2, FlyingMembers, Zenon DEF InFlight
<1>. QED
  BY <1>1, <1>4, <1>5, <1>6, Zenon DEF IInv

(* Steps of the clock, of the links and of close *)
LEMMA OtherStep ==
    ASSUME IInv, open' \in [Nodes -> BOOLEAN],
           UNCHANGED <<life, inbox, carried, target, sends, sent, received>>
    PROVE  IInv' /\ UNCHANGED <<sent, received>> /\ InFlight' \in SUBSET InFlight
<1>1. Types' /\ OnePlace'
  BY DEF IInv, Types, OnePlace
<1>2. InFlight' = InFlight
  BY Zenon DEF InFlight, Flying
<1>. QED
  BY <1>1, <1>2, Zenon DEF IInv

(* It holds of a network that has just been made, where nothing is in flight. *)
LEMMA InitInv == Init => IInv /\ Net!Init
<1>. SUFFICES ASSUME Init PROVE IInv /\ Net!Init
  BY Zenon
<1>1. \A n \in Nodes : DOMAIN inbox[n] = {} /\ Range(inbox[n]) = {}
  BY DEF Init, Range
<1>2. \A c \in Coroutines : carried[c] = None
  BY Zenon DEF Init
<1>3. Types
  <2>1. life \in [Nodes -> 1..MaxLives]
    BY SimNetworkAssumption DEF Init
  <2>. QED
    BY <2>1, SimNetworkAssumption DEF Init, Types
<1>4. OnePlace
  BY <1>1, <1>2, Zenon DEF Init, OnePlace
<1>5. InFlight = {}
  BY <1>1, <1>2, FlyingMembers DEF InFlight
<1>. QED
  BY <1>3, <1>4, <1>5, Zenon DEF IInv, Init, Net!Init

(* Every step of the network keeps messages in one place and is a step of    *)
(* the abstract network.                                                     *)
LEMMA NextStep == IInv /\ [Next]_vars => IInv' /\ [Net!Next]_(Net!vars)
<1>. SUFFICES ASSUME IInv, [Next]_vars PROVE IInv' /\ Net!Next
  BY Zenon DEF Net!vars
<1>. USE DEF Net!Next, Net!Send, Net!Lose, Net!Receive
<1>1. ASSUME NEW c \in Coroutines, NEW n \in Nodes, Send(c, n) PROVE IInv' /\ Net!Next
  BY <1>1, SendStep, Zenon
<1>2. ASSUME NEW c \in Coroutines, Arrive(c) PROVE IInv' /\ Net!Next
  BY <1>2, ArriveStep, Zenon
<1>3. ASSUME NEW c \in Coroutines, Cancel(c) PROVE IInv' /\ Net!Next
  BY <1>3, DropStep, Zenon DEF Cancel
<1>4. ASSUME NEW n \in Nodes, Recv(n) PROVE IInv' /\ Net!Next
  BY <1>4, RecvStep, Zenon
<1>5. ASSUME NEW n \in Nodes, Close(n) PROVE IInv' /\ Net!Next
  BY <1>5, OtherStep, Zenon DEF Close, IInv, Types
<1>6. ASSUME NEW n \in Nodes, Open(n) PROVE IInv' /\ Net!Next
  BY <1>6, OpenStep, Zenon
<1>7. ASSUME NEW A, NEW B, NEW symmetric,
             Partition(A, B, symmetric) \/ HealPartition(A, B, symmetric) \/ HealAll
      PROVE  IInv' /\ Net!Next
  BY <1>7, OtherStep, Zenon DEF Partition, HealPartition, HealAll, IInv, Types
<1>8. ASSUME Tick \/ UNCHANGED vars PROVE IInv' /\ Net!Next
  BY <1>8, OtherStep, Zenon DEF Tick, vars, netVars, IInv, Types
<1>. QED
  BY <1>1, <1>2, <1>3, <1>4, <1>5, <1>6, <1>7, <1>8, Zenon DEF Next

(* SimNetwork implements Network: a message that send was called with        *)
(* reaches recv of its addressee at most once, and nothing else does         *)
(* (route_message, deliver_packet, recv).                                    *)
THEOREM SimNetworkImplementsNetwork == Spec => ImplementsNetwork
<1>1. Init => IInv /\ Net!Init
  BY InitInv, Zenon
<1>2. IInv /\ [Next]_vars => IInv' /\ [Net!Next]_(Net!vars)
  BY NextStep, Zenon
<1>. QED
  BY <1>1, <1>2, PTL DEF Spec, ImplementsNetwork, Net!Spec

(* A message is never delivered to a later transport of its addressee than   *)
(* the one that was registered at the call of send (route_message).          *)
THEOREM SimNetworkNoGhost == Spec => []NoGhost
<1>1. Init => IInv
  BY InitInv, Zenon
<1>2. IInv /\ [Next]_vars => IInv'
  BY NextStep, Zenon
<1>3. IInv => NoGhost
  BY Zenon DEF IInv, OnePlace, NoGhost
<1>. QED
  BY <1>1, <1>2, <1>3, PTL DEF Spec

-----------------------------------------------------------------------------
(* Induction *)

(* A set of numbers has a least one. *)
LEMMA LeastNumber ==
    ASSUME NEW T \in SUBSET Nat, T # {}
    PROVE  \E x \in T : \A y \in T : x <= y
<1> DEFINE R == {ss \in Nat \X Nat : ss[1] < ss[2]}
<1>1. IsWellFoundedOn(R, Nat)
  BY NatLessThanWellFounded DEF OpToRel
<1>2. PICK x \in T : \A y \in T : <<y, x>> \notin R
  BY <1>1, WFMin, Zenon
<1>3. ASSUME NEW y \in T PROVE x <= y
  <2>1. x \in Nat /\ y \in Nat
    OBVIOUS
  <2>2. ~ (y < x)
    BY <1>2, <2>1, Zenon
  <2> QED
    BY <2>1, <2>2
<1> QED
  BY <1>3

(* A set that has 0, and with a number the next one, has all of them. *)
LEMMA Induction ==
    ASSUME NEW P, 0 \in P, \A n \in Nat : n \in P => n + 1 \in P
    PROVE  Nat \subseteq P
<1> SUFFICES ASSUME NEW n \in Nat, n \notin P PROVE FALSE
  OBVIOUS
<1> DEFINE T == {k \in Nat : k \notin P}
<1>1. T \in SUBSET Nat /\ n \in T
  OBVIOUS
<1>2. PICK x \in T : \A y \in T : x <= y
  <2> HIDE DEF T
  <2> QED
    BY <1>1, LeastNumber
<1>3. x \in Nat /\ x # 0 /\ x \notin P
  OBVIOUS
<1>4. x - 1 \in Nat /\ x - 1 + 1 = x
  BY <1>3
<1>5. x - 1 \in P
  BY <1>2, <1>4
<1> QED
  BY <1>3, <1>4, <1>5

-----------------------------------------------------------------------------
(* The heap *)

(* What _sleepers may hold *)
Entries == [deadline : Nat, seq : Nat, co : Coroutines, live : BOOLEAN]

(* Entries that were made one after the other with one latency *)
Aligned(S) ==
    /\ S \subseteq Entries
    /\ \A e, f \in S : e.seq = f.seq => e = f
    /\ \A e, f \in S : e.seq < f.seq => e.deadline <= f.deadline

(* Their order in the heap is that in which they were made. *)
LEMMA HeapIsFifo ==
    ASSUME NEW S, Aligned(S), NEW e \in S, NEW f \in S
    PROVE  Earlier(e, f) <=> e.seq < f.seq
<1>1. /\ e.seq \in Nat /\ f.seq \in Nat /\ e.deadline \in Nat /\ f.deadline \in Nat
  BY DEF Aligned, Entries
<1>2. /\ e.seq < f.seq => e.deadline <= f.deadline
      /\ f.seq < e.seq => f.deadline <= e.deadline
      /\ e.seq = f.seq => e.deadline = f.deadline
  BY Zenon DEF Aligned
<1> QED
  BY <1>1, <1>2 DEF Earlier

(* s lists the entries of S in the order of their numbers. *)
Lists(s, k, S) ==
    /\ s \in [1 .. k -> S]
    /\ \A e \in S : \E i \in 1 .. k : s[i] = e
    /\ \A i, j \in 1 .. k : i < j => s[i].seq < s[j].seq

(* Entries can be listed: the last that was made comes last. *)
LEMMA ListExists ==
    ASSUME NEW S, Aligned(S), NEW n \in Nat, \A e \in S : e.seq < n
    PROVE  \E k \in Nat : \E s : Lists(s, k, S)
<1> DEFINE P == {m \in Nat : \A T \in SUBSET S : (\A e \in T : e.seq < m)
                                => \E k \in Nat : \E s : Lists(s, k, T)}
<1>1. \A e \in S : e.seq \in Nat
  BY DEF Aligned, Entries
<1>2. 0 \in P
  <2> SUFFICES ASSUME NEW T \in SUBSET S, \A e \in T : e.seq < 0
               PROVE  \E k \in Nat : \E s : Lists(s, k, T)
    BY Zenon
  <2>1. T = {}
    BY <1>1
  <2>2. Lists(<<>>, 0, T)
    BY <2>1 DEF Lists
  <2> QED
    BY <2>2
<1>3. ASSUME NEW m \in Nat, m \in P PROVE m + 1 \in P
  <2>1. m + 1 \in Nat
    OBVIOUS
  <2> SUFFICES ASSUME NEW T \in SUBSET S, \A e \in T : e.seq < m + 1
               PROVE  \E k \in Nat : \E s : Lists(s, k, T)
    BY <2>1, Zenon
  <2> DEFINE U == {e \in T : e.seq < m}
  <2>2. PICK k \in Nat : \E s : Lists(s, k, U)
    BY <1>3, Zenon
  <2>3. PICK s : Lists(s, k, U)
    BY <2>2
  <2>4. CASE U = T
    BY <2>3, <2>4, Zenon
  <2>5. CASE U # T
    <3>1. PICK e \in T : e \notin U
      BY <2>5
    <3>2. e.seq = m
      BY <3>1, <1>1
    <3>3. \A f \in T : f \in U \/ f = e
      BY <3>2, <1>1 DEF Aligned
    <3> DEFINE l == [i \in 1 .. k + 1 |-> IF i <= k THEN s[i] ELSE e]
    <3> HIDE DEF U
    <3>4. \A i \in 1 .. k : l[i] = s[i] /\ l[i] \in U /\ i \in 1 .. k + 1
      BY <2>3 DEF Lists
    <3>5. l[k + 1] = e /\ k + 1 \in 1 .. k + 1
      OBVIOUS
    <3>6. \A i \in 1 .. k + 1 : i \in 1 .. k \/ i = k + 1
      OBVIOUS
    <3>7. U \subseteq T /\ \A f \in U : f.seq < m
      BY DEF U
    <3>8. l \in [1 .. k + 1 -> T]
      BY <3>1, <3>4, <3>5, <3>6, <3>7, Zenon
    <3>9. \A f \in T : \E i \in 1 .. k + 1 : l[i] = f
      BY <2>3, <3>3, <3>4, <3>5, Zenon DEF Lists
    <3>10. ASSUME NEW i \in 1 .. k + 1, NEW j \in 1 .. k + 1, i < j
           PROVE  l[i].seq < l[j].seq
      <4>1. i \in 1 .. k
        BY <3>10
      <4>2. CASE j \in 1 .. k
        BY <4>1, <4>2, <2>3, <3>4, <3>10 DEF Lists
      <4>3. CASE j = k + 1
        BY <4>1, <4>3, <3>2, <3>4, <3>5, <3>7, Zenon
      <4> QED
        BY <4>2, <4>3, <3>6
    <3>11. Lists(l, k + 1, T) /\ k + 1 \in Nat
      BY <3>8, <3>9, <3>10 DEF Lists
    <3> QED
      BY <3>11, Zenon
  <2> QED
    BY <2>4, <2>5
<1>4. n \in P
  <2> HIDE DEF P
  <2> QED
    BY <1>2, <1>3, Induction
<1> QED
  BY <1>4

(* HeapOrder lists them. *)
LEMMA HeapOrderLists ==
    ASSUME NEW S, Aligned(S), NEW n \in Nat, \A e \in S : e.seq < n
    PROVE  Cardinality(S) \in Nat /\ Lists(HeapOrder(S), Cardinality(S), S)
<1>1. PICK k \in Nat : \E s : Lists(s, k, S)
  BY ListExists, Zenon
<1>2. PICK s : Lists(s, k, S)
  BY <1>1, Zenon
<1>3. \A e \in S : e.seq \in Nat
  BY DEF Aligned, Entries
<1>4. \A i, j \in 1 .. k : i # j => s[i] # s[j]
  <2> SUFFICES ASSUME NEW i \in 1 .. k, NEW j \in 1 .. k, i # j PROVE s[i] # s[j]
    BY Zenon
  <2>1. s[i] \in S /\ s[j] \in S
    BY <1>2 DEF Lists
  <2>2. i < j \/ j < i
    OBVIOUS
  <2> QED
    BY <1>3, <1>2, <2>1, <2>2 DEF Lists
<1>5. s \in Bijection(1 .. k, S)
  BY <1>2, <1>4, Zenon DEF Lists, Bijection, Injection, Surjection, IsInjective
<1>6. Cardinality(S) = k /\ IsFiniteSet(S)
  BY <1>5, FS_CountingElements, FS_NatBijection, Zenon DEF ExistsBijection
<1> DEFINE Sorted(l) == \A i, j \in DOMAIN l : i < j => Earlier(l[i], l[j])
           o == HeapOrder(S)
<1>7. Sorted(s)
  <2> SUFFICES ASSUME NEW i \in 1 .. k, NEW j \in 1 .. k, i < j PROVE Earlier(s[i], s[j])
    BY <1>2 DEF Lists
  <2> QED
    BY <1>2, HeapIsFifo DEF Lists
<1>8. s \in [1 .. Cardinality(S) -> S]
  BY <1>2, <1>6, Zenon DEF Lists
<1>9. o \in [1 .. k -> S] /\ Sorted(o)
  BY <1>6, <1>7, <1>8, Zenon DEF HeapOrder
<1> HIDE DEF o
<1>10. \A i, j \in 1 .. k : i < j => o[i] \in S /\ o[j] \in S /\ o[i].seq < o[j].seq
  BY <1>9, HeapIsFifo
<1>11. \A e \in S : \E i \in 1 .. k : o[i] = e
  <2>1. \A i, j \in 1 .. k : o[i] = o[j] => i = j
    <3> SUFFICES ASSUME NEW i \in 1 .. k, NEW j \in 1 .. k, o[i] = o[j], i # j PROVE FALSE
      BY Zenon
    <3>1. i < j \/ j < i
      OBVIOUS
    <3>2. o[i] \in S /\ o[i].seq < o[i].seq
      BY <1>10, <3>1, Zenon
    <3> QED
      BY <1>3, <3>2
  <2>2. o \in Injection(1 .. k, S)
    BY <1>9, <2>1, Zenon DEF Injection, IsInjective
  <2>3. IsFiniteSet(1 .. k) /\ Cardinality(1 .. k) = k
    <3>1. 1 \in Int /\ k \in Int
      OBVIOUS
    <3>2. IsFiniteSet(1 .. k) /\ Cardinality(1 .. k) = IF 1 > k THEN 0 ELSE k - 1 + 1
      BY <3>1, FS_Interval, Zenon
    <3> QED
      BY <3>2
  <2>4. o \in Surjection(1 .. k, S)
    BY <1>6, <2>2, <2>3, FS_Injection, Zenon
  <2> QED
    BY <2>4, Zenon DEF Surjection
<1> QED
  BY <1>6, <1>9, <1>10, <1>11, Zenon DEF Lists, o

-----------------------------------------------------------------------------
(* Who waits where, and in which order *)

(* The types of the clock and of the loop *)
ClockTypes ==
    /\ now \in Nat /\ counter \in Nat /\ latency \in Nat
    /\ ready \in Seq(Coroutines)

(* Nobody sleeps past its deadline, or for longer than the latency. *)
HeapInv ==
    /\ Aligned(sleepers)
    /\ \A e \in sleepers : e.seq < counter /\ e.deadline > now /\ e.deadline <= now + latency

(* Who carries a message sleeps, or is about to be resumed. *)
WaitInv ==
    /\ \A e \in sleepers : e.live => carried[e.co] # None
    /\ \A i \in DOMAIN ready : carried[ready[i]] # None
    /\ \A c \in Coroutines : carried[c] # None =>
           (\E e \in sleepers : e.live /\ e.co = c) \/ (\E i \in DOMAIN ready : ready[i] = c)

(* The message of c was sent before that of d. *)
Ahead(c, d) == carried[c].id < carried[d].id

(* Messages wait in the order in which they were sent.  In particular nobody *)
(* waits twice.                                                              *)
WaitInOrder ==
    /\ \A e, f \in sleepers : e.live /\ f.live /\ e.seq < f.seq => Ahead(e.co, f.co)
    /\ \A i, j \in DOMAIN ready : i < j => Ahead(ready[i], ready[j])
    /\ \A i \in DOMAIN ready : \A e \in sleepers : e.live => Ahead(ready[i], e.co)

(* What holds of the messages under way *)
WaitingInv == ClockTypes /\ HeapInv /\ WaitInv /\ WaitInOrder

(* Entry e was f before the coroutines of Gone were cancelled. *)
Was(e, f, Gone) ==
    /\ e.seq = f.seq /\ e.deadline = f.deadline /\ e.co = f.co
    /\ e.live => f.live /\ f.co \notin Gone

(* The heap loses the entries of Gone, and perhaps cancelled ones. *)
HeapLoses(Gone) ==
    /\ \A e \in sleepers' : e \in Entries /\ \E f \in sleepers : Was(e, f, Gone)
    /\ \A e, f \in sleepers' : e.seq = f.seq => e = f
    /\ \A f \in sleepers : f.live /\ f.co \notin Gone => f \in sleepers'
    /\ UNCHANGED <<now, counter, latency>>

(* So does the loop; g says where the others were. *)
LoopLoses(Gone, g) ==
    /\ ready' \in Seq(Coroutines)
    /\ g \in [DOMAIN ready' -> DOMAIN ready]
    /\ \A i \in DOMAIN ready' : ready'[i] = ready[g[i]] /\ ready[g[i]] \notin Gone
    /\ \A i, j \in DOMAIN ready' : i < j => g[i] < g[j]
    /\ \A k \in DOMAIN ready : ready[k] \notin Gone => \E i \in DOMAIN ready' : g[i] = k

(* The coroutines of Gone give their messages up; the others keep theirs. *)
LetGo(Gone) == \A d \in Coroutines : carried'[d] = IF d \in Gone THEN None ELSE carried[d]

(* A heap that only loses entries stays in the order of the calls, and       *)
(* nobody in it is late.                                                     *)
LEMMA HeapLosesKeeps ==
    ASSUME WaitingInv, NEW Gone, HeapLoses(Gone)
    PROVE  HeapInv'
<1>1. Aligned(sleepers)'
  <2>1. ASSUME NEW e \in sleepers', NEW f \in sleepers', e.seq < f.seq
        PROVE  e.deadline <= f.deadline
    <3>1. PICK x \in sleepers : e.seq = x.seq /\ e.deadline = x.deadline
      BY Zenon DEF HeapLoses, Was
    <3>2. PICK y \in sleepers : f.seq = y.seq /\ f.deadline = y.deadline
      BY Zenon DEF HeapLoses, Was
    <3> QED
      BY <2>1, <3>1, <3>2, Zenon DEF WaitingInv, HeapInv, Aligned
  <2> QED
    BY <2>1, Zenon DEF Aligned, HeapLoses
<1>2. ASSUME NEW e \in sleepers'
      PROVE  e.seq < counter' /\ e.deadline > now' /\ e.deadline <= now' + latency'
  <2>1. PICK x \in sleepers : e.seq = x.seq /\ e.deadline = x.deadline
    BY Zenon DEF HeapLoses, Was
  <2> QED
    BY <2>1, Zenon DEF WaitingInv, HeapInv, HeapLoses
<1> QED
  BY <1>1, <1>2, Zenon DEF HeapInv

(* Coroutines that leave keep the others in order. *)
LEMMA LeaveKeeps ==
    ASSUME WaitingInv, NEW Gone, HeapLoses(Gone), NEW g, LoopLoses(Gone, g), LetGo(Gone)
    PROVE  WaitingInv'
<1>1. \A i \in DOMAIN ready' :
          /\ g[i] \in DOMAIN ready /\ ready'[i] = ready[g[i]]
          /\ carried'[ready'[i]] = carried[ready[g[i]]]
  <2>1. \A i \in DOMAIN ready : ready[i] \in Coroutines
    BY DEF WaitingInv, ClockTypes
  <2> QED
    BY <2>1, Zenon DEF LoopLoses, LetGo
<1>2. ASSUME NEW e \in sleepers', e.live
      PROVE  \E f \in sleepers : /\ f.live /\ e.seq = f.seq /\ e.co = f.co
                                 /\ carried'[e.co] = carried[f.co]
  <2>1. PICK f \in sleepers : Was(e, f, Gone)
    BY Zenon DEF HeapLoses
  <2>2. f.co \in Coroutines
    BY Zenon DEF WaitingInv, HeapInv, Aligned, Entries
  <2> QED
    BY <1>2, <2>1, <2>2, Zenon DEF Was, LetGo
<1>3. WaitInv'
  <2>1. ASSUME NEW e \in sleepers', e.live PROVE carried'[e.co] # None
    <3>1. PICK x \in sleepers : x.live /\ carried'[e.co] = carried[x.co]
      BY <1>2, <2>1, Zenon
    <3> QED
      BY <3>1, Zenon DEF WaitingInv, WaitInv
  <2>2. ASSUME NEW i \in DOMAIN ready' PROVE carried'[ready'[i]] # None
    <3>1. \A k \in DOMAIN ready : carried[ready[k]] # None
      BY Zenon DEF WaitingInv, WaitInv
    <3>2. g[i] \in DOMAIN ready /\ carried'[ready'[i]] = carried[ready[g[i]]]
      BY <1>1, Zenon
    <3> QED
      BY <3>1, <3>2, Zenon
  <2>3. ASSUME NEW c \in Coroutines, carried'[c] # None
        PROVE  (\E e \in sleepers' : e.live /\ e.co = c) \/ (\E i \in DOMAIN ready' : ready'[i] = c)
    <3>1. c \notin Gone /\ carried[c] # None
      BY <2>3, Zenon DEF LetGo
    <3>2. CASE \E e \in sleepers : e.live /\ e.co = c
      BY <3>1, <3>2, Zenon DEF HeapLoses
    <3>3. CASE \E k \in DOMAIN ready : ready[k] = c
      <4>1. PICK k \in DOMAIN ready : ready[k] = c
        BY <3>3
      <4>2. PICK i \in DOMAIN ready' : g[i] = k
        BY <3>1, <4>1, Zenon DEF LoopLoses
      <4> QED
        BY <1>1, <4>1, <4>2, Zenon
    <3> QED
      BY <3>1, <3>2, <3>3, Zenon DEF WaitingInv, WaitInv
  <2> QED
    BY <2>1, <2>2, <2>3, Zenon DEF WaitInv
<1>4. WaitInOrder'
  <2>1. ASSUME NEW e \in sleepers', NEW f \in sleepers', e.live, f.live, e.seq < f.seq
        PROVE  carried'[e.co].id < carried'[f.co].id
    <3>1. PICK x \in sleepers : x.live /\ e.seq = x.seq /\ carried'[e.co] = carried[x.co]
      BY <1>2, <2>1, Zenon
    <3>2. PICK y \in sleepers : y.live /\ f.seq = y.seq /\ carried'[f.co] = carried[y.co]
      BY <1>2, <2>1, Zenon
    <3> QED
      BY <2>1, <3>1, <3>2, Zenon DEF WaitingInv, WaitInOrder, Ahead
  <2>2. ASSUME NEW i \in DOMAIN ready', NEW j \in DOMAIN ready', i < j
        PROVE  carried'[ready'[i]].id < carried'[ready'[j]].id
    <3>1. g[i] < g[j]
      BY <2>2, Zenon DEF LoopLoses
    <3> QED
      BY <1>1, <3>1, Zenon DEF WaitingInv, WaitInOrder, Ahead
  <2>3. ASSUME NEW i \in DOMAIN ready', NEW e \in sleepers', e.live
        PROVE  carried'[ready'[i]].id < carried'[e.co].id
    <3>1. PICK x \in sleepers : x.live /\ carried'[e.co] = carried[x.co]
      BY <1>2, <2>3, Zenon
    <3> QED
      BY <1>1, <3>1, Zenon DEF WaitingInv, WaitInOrder, Ahead
  <2> QED
    BY <2>1, <2>2, <2>3, Zenon DEF WaitInOrder, Ahead
<1>5. ClockTypes'
  BY Zenon DEF WaitingInv, ClockTypes, HeapLoses, LoopLoses
<1> QED
  BY <1>3, <1>4, <1>5, HeapLosesKeeps, Zenon DEF WaitingInv

(* Nobody is resumed twice. *)
LEMMA ReadyOnce ==
    ASSUME Types, WaitingInv
    PROVE  /\ \A i, j \in DOMAIN ready : ready[i] = ready[j] => i = j
           /\ \A i \in DOMAIN ready : \A e \in sleepers : e.live => ready[i] # e.co
<1>1. \A i \in DOMAIN ready : i \in Nat /\ ready[i] \in Coroutines
  BY DEF WaitingInv, ClockTypes
<1>2. \A c \in Coroutines : carried[c] # None => carried[c].id \in Nat
  BY DEF Types, Messages
<1>3. \A i \in DOMAIN ready : carried[ready[i]].id \in Nat
  BY <1>1, <1>2, Zenon DEF WaitingInv, WaitInv
<1>4. \A i, j \in DOMAIN ready : i < j => ready[i] # ready[j]
  <2> SUFFICES ASSUME NEW i \in DOMAIN ready, NEW j \in DOMAIN ready, i < j, ready[i] = ready[j]
               PROVE  FALSE
    BY Zenon
  <2>1. carried[ready[i]].id < carried[ready[j]].id
    BY Zenon DEF WaitingInv, WaitInOrder, Ahead
  <2> QED
    BY <1>3, <2>1
<1>5. \A i, j \in DOMAIN ready : ready[i] = ready[j] => i = j
  BY <1>1, <1>4
<1>6. \A i \in DOMAIN ready : \A e \in sleepers : e.live => ready[i] # e.co
  <2> SUFFICES ASSUME NEW i \in DOMAIN ready, NEW e \in sleepers, e.live, ready[i] = e.co
               PROVE  FALSE
    BY Zenon
  <2>1. carried[ready[i]].id < carried[e.co].id
    BY Zenon DEF WaitingInv, WaitInOrder, Ahead
  <2> QED
    BY <1>3, <2>1
<1> QED
  BY <1>5, <1>6, Zenon

(* The loop resumes the first. *)
LEMMA LoopPops ==
    ASSUME Types, WaitingInv, NEW c, Resume(c)
    PROVE  \E g : LoopLoses({c}, g)
<1>1. ready \in Seq(Coroutines) /\ ready # <<>> /\ ready' = Tail(ready) /\ c = ready[1]
  BY DEF WaitingInv, ClockTypes, Resume
<1>2. /\ ready' \in Seq(Coroutines)
      /\ \A i \in DOMAIN ready' : i \in Nat /\ i + 1 \in DOMAIN ready /\ ready'[i] = ready[i + 1] /\ i + 1 # 1
      /\ \A k \in DOMAIN ready : k = 1 \/ (k - 1 \in DOMAIN ready' /\ k - 1 + 1 = k)
      /\ 1 \in DOMAIN ready
  BY <1>1
<1> DEFINE g == [i \in DOMAIN ready' |-> i + 1]
<1>3. \A i \in DOMAIN ready' : ready[i + 1] # c
  BY <1>1, <1>2, ReadyOnce, Zenon
<1>4. \A i, j \in DOMAIN ready' : i < j => i + 1 < j + 1
  BY <1>2
<1>5. \A k \in DOMAIN ready : ready[k] \notin {c} => \E i \in DOMAIN ready' : g[i] = k
  BY <1>1, <1>2
<1>6. LoopLoses({c}, g)
  BY <1>2, <1>3, <1>4, <1>5, Zenon DEF LoopLoses
<1> QED
  BY <1>6, Zenon

(* A coroutine that is cancelled is not resumed. *)
LEMMA LoopRemoves ==
    ASSUME Types, WaitingInv, NEW c, CancelSleep(c)
    PROVE  \E g : LoopLoses({c}, g)
<1>1. ready \in Seq(Coroutines) /\ DOMAIN ready = 1 .. Len(ready) /\ Len(ready) \in Nat
  BY DEF WaitingInv, ClockTypes
<1>2. CASE \E k \in DOMAIN ready :
               /\ ready[k] = c
               /\ ready' = SubSeq(ready, 1, k - 1) \o SubSeq(ready, k + 1, Len(ready))
  <2>1. PICK k \in DOMAIN ready :
            /\ ready[k] = c
            /\ ready' = SubSeq(ready, 1, k - 1) \o SubSeq(ready, k + 1, Len(ready))
    BY <1>2, Zenon
  <2>2. k \in Nat /\ 1 <= k /\ k <= Len(ready)
    BY <1>1
  <2>3. ready' = SubSeq(ready, 1, k - 1) \o SubSeq(ready, k + 1, Len(ready))
    BY <2>1, Zenon
  <2> DEFINE g == [i \in DOMAIN ready' |-> IF i < k THEN i ELSE i + 1]
  <2>4. ready' \in Seq(Coroutines) /\ Len(ready') = Len(ready) - 1
    BY <1>1, <2>2, <2>3, SMTT(30)
  <2>5. \A i \in DOMAIN ready' : ready'[i] = ready[IF i < k THEN i ELSE i + 1]
    <3> DEFINE x == SubSeq(ready, 1, k - 1)
               y == SubSeq(ready, k + 1, Len(ready))
    <3>1. /\ x \in Seq(Coroutines) /\ Len(x) = k - 1
          /\ y \in Seq(Coroutines) /\ Len(y) = Len(ready) - k
      BY <1>1, <2>2
    <3>2. \A i \in 1 .. k - 1 : x[i] = ready[i]
      BY <1>1, <2>2
    <3>3. \A i \in 1 .. Len(ready) - k : y[i] = ready[i + k]
      BY <1>1, <2>2
    <3> HIDE DEF x, y
    <3>4. ready' = x \o y
      BY <2>3, Zenon DEF x, y
    <3> SUFFICES ASSUME NEW i \in DOMAIN ready'
                 PROVE  ready'[i] = ready[IF i < k THEN i ELSE i + 1]
      BY Zenon
    <3>5. i \in 1 .. Len(ready) - 1
      BY <2>4
    <3>6. ready'[i] = IF i <= k - 1 THEN x[i] ELSE y[i - (k - 1)]
      BY <1>1, <2>2, <3>1, <3>4, <3>5
    <3>7. CASE i < k
      BY <2>2, <3>2, <3>5, <3>6, <3>7
    <3>8. CASE ~ (i < k)
      <4>1. i - (k - 1) \in 1 .. Len(ready) - k /\ i - (k - 1) + k = i + 1
        BY <1>1, <2>2, <3>5, <3>8
      <4> QED
        BY <2>2, <3>3, <3>5, <3>6, <3>8, <4>1, SMTT(30)
    <3> QED
      BY <3>7, <3>8
  <2>6. DOMAIN ready' = 1 .. Len(ready) - 1
    BY <2>4
  <2>7. \A i \in DOMAIN ready' : g[i] \in DOMAIN ready /\ g[i] # k
    BY <1>1, <2>2, <2>6
  <2>8. \A i, j \in DOMAIN ready' : i < j => g[i] < g[j]
    BY <1>1, <2>2, <2>6
  <2>9. \A l \in DOMAIN ready : l # k => \E i \in DOMAIN ready' : g[i] = l
    <3> SUFFICES ASSUME NEW l \in DOMAIN ready, l # k PROVE \E i \in DOMAIN ready' : g[i] = l
      BY Zenon
    <3>1. CASE l < k
      <4>1. l \in DOMAIN ready' /\ g[l] = l
        BY <1>1, <2>2, <2>6, <3>1
      <4> QED
        BY <4>1
    <3>2. CASE ~ (l < k)
      <4>1. l - 1 \in DOMAIN ready' /\ g[l - 1] = l
        BY <1>1, <2>2, <2>6, <3>2
      <4> QED
        BY <4>1
    <3> QED
      BY <3>1, <3>2
  <2>10. \A i \in DOMAIN ready : ready[i] = c <=> i = k
    BY <2>1, ReadyOnce, Zenon
  <2>11. \A i \in DOMAIN ready' : ready'[i] = ready[g[i]]
    BY <2>5
  <2>12. g \in [DOMAIN ready' -> DOMAIN ready]
    BY <2>7
  <2> HIDE DEF g
  <2>13. LoopLoses({c}, g)
    BY <2>4, <2>7, <2>8, <2>9, <2>10, <2>11, <2>12, Zenon DEF LoopLoses
  <2> QED
    BY <2>13, Zenon
<1>3. CASE (\A k \in DOMAIN ready : ready[k] # c) /\ UNCHANGED ready
  <2>1. LoopLoses({c}, [i \in DOMAIN ready |-> i])
    BY <1>1, <1>3, Zenon DEF LoopLoses
  <2> QED
    BY <2>1, Zenon
<1> QED
  BY <1>2, <1>3, Zenon DEF CancelSleep

(* A heap that does not change, or loses what is cancelled *)
LEMMA HeapKeepsLive ==
    ASSUME WaitingInv, NEW Gone, \A e \in sleepers : e.live => e.co \notin Gone,
           sleepers' \subseteq sleepers, \A e \in sleepers : e.live => e \in sleepers',
           UNCHANGED <<now, counter, latency>>
    PROVE  HeapLoses(Gone)
<1>1. \A e \in sleepers' : e \in Entries /\ Was(e, e, Gone)
  BY Zenon DEF WaitingInv, HeapInv, Aligned, Was
<1> QED
  BY <1>1, Zenon DEF WaitingInv, HeapInv, Aligned, HeapLoses

(* The heap after a cancellation *)
LEMMA HeapCancels ==
    ASSUME WaitingInv, NEW c, CancelSleep(c), latency' = latency
    PROVE  HeapLoses({c})
<1> DEFINE h(f) == [f EXCEPT !.live = (@ /\ f.co # c)]
<1>1. sleepers' = {h(f) : f \in sleepers} /\ UNCHANGED <<now, counter, latency>>
  BY Zenon DEF CancelSleep
<1>2. ASSUME NEW f \in sleepers
      PROVE  /\ h(f) \in Entries /\ Was(h(f), f, {c})
             /\ f.live /\ f.co # c => h(f) = f
             /\ h(f).seq = f.seq
  <2>1. /\ f = [deadline |-> f.deadline, seq |-> f.seq, co |-> f.co, live |-> f.live]
        /\ f.deadline \in Nat /\ f.seq \in Nat /\ f.co \in Coroutines /\ f.live \in BOOLEAN
    BY DEF WaitingInv, HeapInv, Aligned, Entries
  <2>2. h(f) = [deadline |-> f.deadline, seq |-> f.seq, co |-> f.co, live |-> (f.live /\ f.co # c)]
    BY <2>1
  <2>3. (f.live /\ f.co # c) \in BOOLEAN
    BY <2>1, Zenon
  <2>4. h(f) \in Entries
    BY <2>1, <2>2, <2>3, Zenon DEF Entries
  <2>5. h(f).seq = f.seq /\ h(f).deadline = f.deadline /\ h(f).co = f.co /\ h(f).live = (f.live /\ f.co # c)
    BY <2>2, Zenon
  <2>6. f.live /\ f.co # c => h(f) = f
    <3> SUFFICES ASSUME f.live, f.co # c PROVE h(f) = f
      BY Zenon
    <3>1. (f.live /\ f.co # c) = f.live
      BY <2>1, Zenon
    <3> QED
      BY <2>1, <2>2, <3>1, Zenon
  <2> HIDE DEF h
  <2>7. Was(h(f), f, {c})
    BY <2>5, Zenon DEF Was
  <2> QED
    BY <2>4, <2>5, <2>6, <2>7, Zenon
<1> HIDE DEF h
<1>3. \A e, f \in sleepers' : e.seq = f.seq => e = f
  <2> SUFFICES ASSUME NEW e \in sleepers', NEW f \in sleepers', e.seq = f.seq PROVE e = f
    BY Zenon
  <2>1. PICK x \in sleepers : e = h(x)
    BY <1>1, Zenon
  <2>2. PICK y \in sleepers : f = h(y)
    BY <1>1, Zenon
  <2>3. x = y
    BY <1>2, <2>1, <2>2, Zenon DEF WaitingInv, HeapInv, Aligned
  <2> QED
    BY <2>1, <2>2, <2>3, Zenon
<1>4. \A e \in sleepers' : e \in Entries /\ \E f \in sleepers : Was(e, f, {c})
  BY <1>1, <1>2, Zenon
<1>5. \A f \in sleepers : f.live /\ f.co \notin {c} => f \in sleepers'
  <2> SUFFICES ASSUME NEW f \in sleepers, f.live, f.co # c PROVE f \in sleepers'
    BY Zenon
  <2>1. h(f) = f
    BY <1>2, Zenon
  <2> QED
    BY <1>1, <2>1, Zenon
<1> QED
  BY <1>1, <1>3, <1>4, <1>5, Zenon DEF HeapLoses

-----------------------------------------------------------------------------
(* advance_to *)

(* The live entries whose time has come at t. *)
Woken(t) == {e \in sleepers : e.live /\ e.deadline <= t}

(* The entries that are due are listed in the order of their numbers. *)
LEMMA DueLists ==
    ASSUME WaitingInv, NEW t
    PROVE  \E k \in Nat : \E s \in [1 .. k -> Woken(t)] :
               Lists(s, k, Woken(t)) /\ Due(t) = [i \in 1 .. k |-> s[i].co]
<1> DEFINE due == Woken(t)
<1>1. Aligned(due) /\ counter \in Nat /\ \A e \in due : e.seq < counter
  BY Zenon DEF WaitingInv, ClockTypes, HeapInv, Aligned, Woken
<1>2. Cardinality(due) \in Nat /\ Lists(HeapOrder(due), Cardinality(due), due)
  BY <1>1, HeapOrderLists, Zenon
<1>3. HeapOrder(due) \in [1 .. Cardinality(due) -> due]
  BY <1>2, Zenon DEF Lists
<1>4. Due(t) = [i \in 1 .. Cardinality(due) |-> HeapOrder(due)[i].co]
  BY <1>3, Zenon DEF Due, Woken
<1> QED
  BY <1>2, <1>3, <1>4, Zenon

(* Time passes: who is woken is resumed after those who were woken before,   *)
(* and before those who go on sleeping.                                      *)
LEMMA AdvanceKeeps ==
    ASSUME Types, WaitingInv, NEW t \in Nat, now <= t, AdvanceTo(t), UNCHANGED <<latency, carried>>
    PROVE  WaitingInv'
<1> DEFINE due == {e \in sleepers : e.live /\ e.deadline <= t}
           L == Len(ready)
<1>1. PICK k \in Nat : \E s \in [1 .. k -> Woken(t)] :
          Lists(s, k, Woken(t)) /\ Due(t) = [i \in 1 .. k |-> s[i].co]
  BY DueLists, Zenon
<1>2. Woken(t) = due
  BY Zenon DEF Woken
<1>3. PICK s \in [1 .. k -> due] : Lists(s, k, due) /\ Due(t) = [i \in 1 .. k |-> s[i].co]
  BY <1>1, <1>2, Zenon
<1>4. \A e \in sleepers : /\ e \in Entries /\ e.co \in Coroutines
                          /\ e.deadline \in Nat /\ e.seq \in Nat
  BY Zenon DEF WaitingInv, HeapInv, Aligned, Entries
<1>5. ready \in Seq(Coroutines) /\ L \in Nat /\ DOMAIN ready = 1 .. L /\ now \in Nat /\ latency \in Nat
  BY DEF WaitingInv, ClockTypes
<1>6. Due(t) \in Seq(Coroutines) /\ Len(Due(t)) = k
  BY <1>3, <1>4
<1>7. \A i \in 1 .. k : s[i] \in sleepers /\ s[i].live /\ s[i].deadline <= t /\ Due(t)[i] = s[i].co
  BY <1>3
<1>8. ready' = ready \o Due(t) /\ now' = t /\ counter' = counter
      /\ sleepers' = {e \in sleepers : e.deadline > t}
  BY Zenon DEF AdvanceTo
<1>9. ready' \in Seq(Coroutines) /\ DOMAIN ready' = 1 .. L + k
  <2> HIDE DEF L
  <2>1. Len(ready) = L
    BY DEF L
  <2>2. ready' \in Seq(Coroutines) /\ Len(ready') = L + k
    BY <1>5, <1>6, <1>8, <2>1
  <2> QED
    BY <2>2
<1>10. \A i \in 1 .. L : i \in DOMAIN ready' /\ ready'[i] = ready[i]
  BY <1>5, <1>6, <1>8, <1>9
<1>11. \A i \in 1 .. k : L + i \in DOMAIN ready' /\ ready'[L + i] = s[i].co
  BY <1>5, <1>6, <1>7, <1>8, <1>9
<1>12. \A i \in DOMAIN ready' : i \in 1 .. L \/ \E j \in 1 .. k : i = L + j
  <2> SUFFICES ASSUME NEW i \in DOMAIN ready', i \notin 1 .. L PROVE \E j \in 1 .. k : i = L + j
    BY Zenon
  <2>1. i - L \in 1 .. k /\ i = L + (i - L)
    BY <1>5, <1>9
  <2> QED
    BY <2>1
<1>13. \A e \in sleepers : e.live => e \in sleepers' \/ \E i \in 1 .. k : s[i] = e
  <2> SUFFICES ASSUME NEW e \in sleepers, e.live, e \notin sleepers' PROVE \E i \in 1 .. k : s[i] = e
    BY Zenon
  <2>1. e \in due
    BY <1>4, <1>8
  <2> QED
    BY <1>3, <2>1, Zenon DEF Lists
<1>14. \A i \in 1 .. k : \A e \in sleepers' : s[i].seq < e.seq
  <2> SUFFICES ASSUME NEW i \in 1 .. k, NEW e \in sleepers', ~ (s[i].seq < e.seq) PROVE FALSE
    BY Zenon
  <2>1. e \in sleepers /\ s[i] \in sleepers /\ e.deadline > t /\ s[i].deadline <= t
    BY <1>7, <1>8
  <2>2. e.seq = s[i].seq \/ e.seq < s[i].seq
    BY <1>4, <2>1
  <2>3. e.deadline <= s[i].deadline
    <3>1. CASE e.seq = s[i].seq
      <4>1. e = s[i]
        BY <2>1, <3>1, Zenon DEF WaitingInv, HeapInv, Aligned
      <4> QED
        BY <1>4, <2>1, <4>1
    <3>2. CASE e.seq < s[i].seq
      BY <2>1, <3>2, Zenon DEF WaitingInv, HeapInv, Aligned
    <3> QED
      BY <2>2, <3>1, <3>2
  <2> QED
    BY <1>4, <2>1, <2>3
<1>15. \A i, j \in 1 .. k : i < j => s[i].seq < s[j].seq
  BY <1>3, Zenon DEF Lists
<1> HIDE DEF due, L
<1>16. HeapInv'
  <2>1. \A e \in sleepers : e.seq < counter /\ e.deadline <= now + latency
    BY Zenon DEF WaitingInv, HeapInv
  <2>2. \A e \in sleepers' : e \in sleepers /\ e.deadline > t
    BY <1>8, Zenon
  <2>3. \A e \in sleepers' : e.seq < counter' /\ e.deadline > now' /\ e.deadline <= now' + latency'
    <3> SUFFICES ASSUME NEW e \in sleepers' PROVE e.deadline <= t + latency
      BY <1>8, <2>1, <2>2, Zenon
    <3> QED
      BY <1>4, <1>5, <2>1, <2>2
  <2>4. Aligned(sleepers)'
    BY <2>2, Zenon DEF WaitingInv, HeapInv, Aligned
  <2> QED
    BY <2>3, <2>4, Zenon DEF HeapInv
<1>17. WaitInv'
  <2>1. \A e \in sleepers' : e.live => carried'[e.co] # None
    BY <1>8, Zenon DEF WaitingInv, WaitInv
  <2>2. ASSUME NEW i \in DOMAIN ready' PROVE carried'[ready'[i]] # None
    <3>1. CASE i \in 1 .. L
      BY <1>5, <1>10, <3>1, Zenon DEF WaitingInv, WaitInv
    <3>2. ASSUME NEW j \in 1 .. k, i = L + j PROVE carried'[ready'[i]] # None
      <4>1. ready'[i] = s[j].co /\ s[j] \in sleepers /\ s[j].live
        BY <1>7, <1>11, <3>2, Zenon
      <4>2. \A e \in sleepers : e.live => carried'[e.co] # None
        BY Zenon DEF WaitingInv, WaitInv
      <4> QED
        BY <4>1, <4>2, Zenon
    <3> QED
      BY <1>12, <3>1, <3>2, Zenon
  <2>3. ASSUME NEW c \in Coroutines, carried'[c] # None
        PROVE  (\E e \in sleepers' : e.live /\ e.co = c) \/ (\E i \in DOMAIN ready' : ready'[i] = c)
    <3>1. CASE \E e \in sleepers : e.live /\ e.co = c
      <4>1. PICK e \in sleepers : e.live /\ e.co = c
        BY <3>1, Zenon
      <4>2. CASE e \in sleepers'
        BY <4>1, <4>2, Zenon
      <4>3. ASSUME NEW j \in 1 .. k, s[j] = e PROVE L + j \in DOMAIN ready' /\ ready'[L + j] = c
        BY <1>11, <4>1, <4>3, Zenon
      <4> QED
        BY <1>13, <4>1, <4>2, <4>3, Zenon
    <3>2. CASE \E i \in DOMAIN ready : ready[i] = c
      BY <1>5, <1>10, <3>2, Zenon
    <3> QED
      BY <2>3, <3>1, <3>2, Zenon DEF WaitingInv, WaitInv
  <2> QED
    BY <2>1, <2>2, <2>3, Zenon DEF WaitInv
<1>18. WaitInOrder'
  <2>1. \A e \in sleepers' : e \in sleepers
    BY <1>8, Zenon
  <2>2. /\ \A e, f \in sleepers : e.live /\ f.live /\ e.seq < f.seq => carried[e.co].id < carried[f.co].id
        /\ \A i, j \in 1 .. L : i < j => carried[ready[i]].id < carried[ready[j]].id
        /\ \A i \in 1 .. L : \A e \in sleepers : e.live => carried[ready[i]].id < carried[e.co].id
    BY <1>5, Zenon DEF WaitingInv, WaitInOrder, Ahead
  <2>3. ASSUME NEW i \in DOMAIN ready', NEW j \in DOMAIN ready', i < j
        PROVE  carried[ready'[i]].id < carried[ready'[j]].id
    <3>1. CASE i \in 1 .. L /\ j \in 1 .. L
      BY <1>10, <2>2, <2>3, <3>1, Zenon
    <3>2. ASSUME i \in 1 .. L, NEW y \in 1 .. k, j = L + y
          PROVE  carried[ready'[i]].id < carried[ready'[j]].id
      BY <1>7, <1>10, <1>11, <2>2, <3>2, Zenon
    <3>3. ASSUME NEW x \in 1 .. k, i = L + x, NEW y \in 1 .. k, j = L + y
          PROVE  carried[ready'[i]].id < carried[ready'[j]].id
      <4>1. x < y
        BY <1>5, <2>3, <3>3 DEF L
      <4> QED
        BY <1>7, <1>11, <1>15, <2>2, <3>3, <4>1, Zenon
    <3>4. ASSUME NEW x \in 1 .. k, i = L + x PROVE j \notin 1 .. L
      BY <1>5, <2>3, <3>4 DEF L
    <3> QED
      BY <1>12, <3>1, <3>2, <3>3, <3>4, Zenon
  <2>4. ASSUME NEW i \in DOMAIN ready', NEW e \in sleepers', e.live
        PROVE  carried[ready'[i]].id < carried[e.co].id
    <3>1. CASE i \in 1 .. L
      BY <1>10, <2>1, <2>2, <2>4, <3>1, Zenon
    <3>2. ASSUME NEW x \in 1 .. k, i = L + x PROVE carried[ready'[i]].id < carried[e.co].id
      BY <1>7, <1>11, <1>14, <2>1, <2>2, <2>4, <3>2, Zenon
    <3> QED
      BY <1>12, <3>1, <3>2, Zenon
  <2> QED
    BY <2>1, <2>2, <2>3, <2>4, Zenon DEF WaitInOrder, Ahead
<1>19. ClockTypes'
  BY <1>8, <1>9, Zenon DEF WaitingInv, ClockTypes
<1> QED
  BY <1>16, <1>17, <1>18, <1>19, Zenon DEF WaitingInv

(* A coroutine that starts to sleep is the last in the heap, and its message *)
(* the last that was sent.                                                   *)
LEMMA SleepKeeps ==
    ASSUME Types, OnePlace, WaitingInv, NEW c \in Coroutines, carried[c] = None,
           latency > 0, Sleep(c, latency), UNCHANGED latency,
           NEW m, m.id = sends + 1, m # None, carried' = [carried EXCEPT ![c] = m]
    PROVE  WaitingInv'
<1> DEFINE new == [deadline |-> now + latency, seq |-> counter, co |-> c, live |-> TRUE]
<1>1. sleepers' = sleepers \cup {new} /\ counter' = counter + 1 /\ UNCHANGED <<now, ready>>
  BY Zenon DEF Sleep
<1>2. now \in Nat /\ counter \in Nat /\ latency \in Nat /\ sends \in Nat
  BY DEF WaitingInv, ClockTypes, Types
<1>3. /\ new \in Entries /\ new.deadline = now + latency /\ new.seq = counter
      /\ new.co = c /\ new.live
  BY <1>2 DEF Entries
<1>4. \A e \in sleepers : /\ e \in Entries /\ e.seq \in Nat /\ e.deadline \in Nat /\ e.co \in Coroutines
                          /\ e.seq < counter /\ e.deadline > now /\ e.deadline <= now + latency
  BY Zenon DEF WaitingInv, HeapInv, Aligned, Entries
<1> HIDE DEF new
<1>5. HeapInv'
  <2>1. /\ \A e \in sleepers : e.seq # counter /\ ~ (counter < e.seq) /\ e.seq < counter + 1
        /\ counter < counter + 1 /\ now + latency > now /\ now + latency <= now + latency
        /\ ~ (counter < counter)
    BY <1>2, <1>4
  <2>2. /\ \A e, f \in sleepers : e.seq = f.seq => e = f
        /\ \A e, f \in sleepers : e.seq < f.seq => e.deadline <= f.deadline
    BY Zenon DEF WaitingInv, HeapInv, Aligned
  <2>3. \A e, f \in sleepers' : e.seq = f.seq => e = f
    BY <1>1, <1>3, <2>1, <2>2, Zenon
  <2>4. \A e, f \in sleepers' : e.seq < f.seq => e.deadline <= f.deadline
    BY <1>1, <1>3, <1>4, <2>1, <2>2, ZenonT(60)
  <2>5. sleepers' \subseteq Entries
    BY <1>1, <1>3, <1>4, Zenon
  <2>6. Aligned(sleepers)'
    BY <2>3, <2>4, <2>5, Zenon DEF Aligned
  <2> QED
    BY <1>1, <1>3, <1>4, <2>1, <2>6, Zenon DEF HeapInv
<1>6. /\ carried'[c] = m
      /\ \A d \in Coroutines : d # c => carried'[d] = carried[d]
  BY Zenon DEF Types
<1>7. /\ \A e \in sleepers : e.live => e.co # c
      /\ \A i \in DOMAIN ready : ready[i] \in Coroutines /\ ready[i] # c
  <2>1. \A i \in DOMAIN ready : ready[i] \in Coroutines
    BY DEF WaitingInv, ClockTypes
  <2> QED
    BY <2>1, Zenon DEF WaitingInv, WaitInv
<1>8. \A d \in Coroutines : carried[d] # None => carried[d].id < m.id
  <2> SUFFICES ASSUME NEW d \in Coroutines, carried[d] # None PROVE carried[d].id < sends + 1
    BY Zenon
  <2>1. carried[d] \in sent /\ carried[d].id <= sends
    BY Zenon DEF OnePlace
  <2>2. \A x \in Messages : x.id \in Nat
    BY DEF Messages
  <2>3. carried[d].id \in Nat
    BY <2>1, <2>2, Zenon DEF Types
  <2> QED
    BY <1>2, <2>1, <2>3
<1>9. WaitInv'
  <2>1. \A e \in sleepers' : e.live => carried'[e.co] # None
    <3>1. \A e \in sleepers : e.live => carried'[e.co] # None
      BY <1>4, <1>6, <1>7, Zenon DEF WaitingInv, WaitInv
    <3>2. carried'[new.co] # None
      BY <1>3, <1>6, Zenon
    <3> QED
      BY <1>1, <3>1, <3>2, Zenon
  <2>2. \A i \in DOMAIN ready : carried'[ready[i]] # None
    BY <1>6, <1>7, Zenon DEF WaitingInv, WaitInv
  <2>3. ASSUME NEW d \in Coroutines, carried'[d] # None
        PROVE  (\E e \in sleepers' : e.live /\ e.co = d) \/ (\E i \in DOMAIN ready : ready[i] = d)
    <3>1. CASE d = c
      BY <1>1, <1>3, <3>1, Zenon
    <3>2. CASE d # c
      <4>1. (\E e \in sleepers : e.live /\ e.co = d) \/ (\E i \in DOMAIN ready : ready[i] = d)
        BY <1>6, <2>3, <3>2, Zenon DEF WaitingInv, WaitInv
      <4> QED
        BY <1>1, <4>1, Zenon
    <3> QED
      BY <3>1, <3>2, Zenon
  <2>4. ready' = ready
    BY <1>1, Zenon
  <2> QED
    BY <2>1, <2>2, <2>3, <2>4, Zenon DEF WaitInv
<1>10. WaitInOrder'
  <2>1. \A e \in sleepers : e.live => carried'[e.co] = carried[e.co] /\ carried[e.co].id < m.id
    BY <1>4, <1>6, <1>7, <1>8, Zenon DEF WaitingInv, WaitInv
  <2>2. \A i \in DOMAIN ready : carried'[ready[i]] = carried[ready[i]] /\ carried[ready[i]].id < m.id
    BY <1>6, <1>7, <1>8, Zenon DEF WaitingInv, WaitInv
  <2>3. \A e \in sleepers' : ~ (counter < e.seq)
    BY <1>1, <1>2, <1>3, <1>4
  <2>4. ASSUME NEW e \in sleepers', NEW f \in sleepers', e.live, f.live, e.seq < f.seq
        PROVE  carried'[e.co].id < carried'[f.co].id
    <3>1. e.seq # counter
      BY <2>3, <2>4, Zenon
    <3>2. e \in sleepers
      BY <1>1, <1>3, <3>1, Zenon
    <3> QED
      BY <1>1, <1>3, <1>6, <2>1, <2>4, <3>2, Zenon DEF WaitingInv, WaitInOrder, Ahead
  <2>5. ASSUME NEW i \in DOMAIN ready, NEW j \in DOMAIN ready, i < j
        PROVE  carried'[ready[i]].id < carried'[ready[j]].id
    <3>1. carried[ready[i]].id < carried[ready[j]].id
      BY <2>5, Zenon DEF WaitingInv, WaitInOrder, Ahead
    <3> QED
      BY <2>2, <3>1, Zenon
  <2>6. \A i \in DOMAIN ready' : \A e \in sleepers' : e.live => carried'[ready'[i]].id < carried'[e.co].id
    <3> SUFFICES ASSUME NEW i \in DOMAIN ready, NEW e \in sleepers', e.live
                 PROVE  carried'[ready[i]].id < carried'[e.co].id
      BY <1>1, Zenon
    <3>1. CASE e \in sleepers
      <4>1. carried[ready[i]].id < carried[e.co].id
        BY <3>1, Zenon DEF WaitingInv, WaitInOrder, Ahead
      <4> QED
        BY <2>1, <2>2, <3>1, <4>1, Zenon
    <3>2. CASE e = new
      BY <1>3, <1>6, <2>2, <3>2, Zenon
    <3> QED
      BY <1>1, <3>1, <3>2, Zenon
  <2> QED
    BY <1>1, <2>4, <2>5, <2>6, Zenon DEF WaitInOrder, Ahead
<1>11. ClockTypes'
  BY <1>1, <1>2 DEF WaitingInv, ClockTypes
<1> QED
  BY <1>5, <1>9, <1>10, <1>11, Zenon DEF WaitingInv

(* The coroutine that is resumed leaves the loop. *)
LEMMA ArriveKeeps ==
    ASSUME Types, WaitingInv, NEW c \in Coroutines, Resume(c), UNCHANGED latency,
           carried' = [carried EXCEPT ![c] = None]
    PROVE  WaitingInv'
<1>1. PICK g : LoopLoses({c}, g)
  BY LoopPops, Zenon
<1>2. ready # <<>> /\ Head(ready) = c /\ UNCHANGED <<now, counter, sleepers, latency>>
  BY Zenon DEF Resume
<1>3. 1 \in DOMAIN ready /\ ready[1] = c
  BY <1>2 DEF WaitingInv, ClockTypes
<1>4. \A e \in sleepers : e.live => e.co \notin {c}
  BY <1>3, ReadyOnce, Zenon
<1>5. HeapLoses({c})
  BY <1>2, <1>4, HeapKeepsLive, Zenon
<1>6. LetGo({c})
  BY Zenon DEF LetGo, Types
<1> QED
  BY <1>1, <1>5, <1>6, LeaveKeeps, Zenon

(* So does one that is cancelled, from wherever it waits. *)
LEMMA CancelKeeps ==
    ASSUME Types, WaitingInv, NEW c \in Coroutines, CancelSleep(c), UNCHANGED latency,
           carried' = [carried EXCEPT ![c] = None]
    PROVE  WaitingInv'
<1>1. PICK g : LoopLoses({c}, g)
  BY LoopRemoves, Zenon
<1>2. HeapLoses({c})
  BY HeapCancels, Zenon
<1>3. LetGo({c})
  BY Zenon DEF LetGo, Types
<1> QED
  BY <1>1, <1>2, <1>3, LeaveKeeps, Zenon

(* Tidying up removes cancelled entries only. *)
LEMMA TidyKeeps ==
    ASSUME Types, WaitingInv, sleepers' \subseteq sleepers, \A e \in sleepers : e.live => e \in sleepers',
           UNCHANGED <<now, counter, latency, ready, carried>>
    PROVE  WaitingInv'
<1>1. HeapLoses({})
  BY HeapKeepsLive, Zenon
<1> DEFINE g == [i \in DOMAIN ready |-> i]
<1>2. LoopLoses({}, g)
  BY Zenon DEF LoopLoses, WaitingInv, ClockTypes
<1>3. LetGo({})
  BY Zenon DEF LetGo
<1> HIDE DEF g
<1> QED
  BY <1>1, <1>2, <1>3, LeaveKeeps, Zenon

(* step() goes to a later deadline. *)
LEMMA StepKeeps ==
    ASSUME Types, WaitingInv, Step, UNCHANGED <<latency, carried>>
    PROVE  WaitingInv'
<1> DEFINE live == {e \in sleepers : e.live}
           first == CHOOSE e \in live : \A f \in live \ {e} : Earlier(e, f)
<1>1. CASE live = {}
  <2>1. sleepers' = {} /\ UNCHANGED <<now, counter, ready>>
    BY <1>1, Zenon DEF Step
  <2> QED
    BY <1>1, <2>1, TidyKeeps, Zenon
<1>2. CASE live # {}
  <2>1. \A e \in live : e \in sleepers /\ e.seq \in Nat /\ e.deadline \in Nat
    BY Zenon DEF WaitingInv, HeapInv, Aligned, Entries
  <2> DEFINE T == {e.seq : e \in live}
  <2>2. T \in SUBSET Nat /\ T # {}
    BY <1>2, <2>1, Zenon
  <2> HIDE DEF T
  <2>3. PICK x \in T : \A y \in T : x <= y
    BY <2>2, LeastNumber, Zenon
  <2>4. PICK e \in live : x = e.seq
    BY <2>3 DEF T
  <2>5. ASSUME NEW f \in live \ {e} PROVE Earlier(e, f)
    <3>1. e \in sleepers /\ f \in sleepers /\ f # e
      BY <2>4, <2>5, Zenon
    <3>2. f.seq # e.seq
      BY <3>1, Zenon DEF WaitingInv, HeapInv, Aligned
    <3>3. e.seq <= f.seq
      BY <2>3, <2>4, Zenon DEF T
    <3>4. e.seq < f.seq
      BY <2>1, <2>4, <2>5, <3>2, <3>3
    <3> QED
      BY <3>1, <3>4, HeapIsFifo, Zenon DEF WaitingInv, HeapInv
  <2>6. first \in live
    BY <2>4, <2>5, Zenon
  <2>7. AdvanceTo(first.deadline)
    BY <1>2, Zenon DEF Step
  <2> HIDE DEF first
  <2>8. first.deadline \in Nat /\ first.deadline > now /\ now \in Nat
    BY <2>1, <2>6, Zenon DEF WaitingInv, HeapInv, ClockTypes
  <2>9. now <= first.deadline
    BY <2>8
  <2> QED
    BY <2>7, <2>8, <2>9, AdvanceKeeps, Zenon
<1> QED
  BY <1>1, <1>2, Zenon

(* However the driver moves the clock, everybody keeps its place. *)
LEMMA TickKeeps ==
    ASSUME Types, WaitingInv, Tick
    PROVE  WaitingInv'
<1>1. UNCHANGED <<latency, carried>>
  BY Zenon DEF Tick, netVars
<1>2. CASE Step
  BY <1>1, <1>2, StepKeeps, Zenon
<1>3. CASE Inspect
  <2>1. sleepers' = sleepers \ TopCancelled /\ UNCHANGED <<now, counter, ready>>
    BY <1>3, Zenon DEF Inspect
  <2>2. ASSUME NEW e \in sleepers, e.live PROVE e \notin TopCancelled
    <3>1. ~ (e.seq < e.seq)
      BY DEF WaitingInv, HeapInv, Aligned, Entries
    <3>2. ~ Earlier(e, e)
      BY <3>1, HeapIsFifo, Zenon DEF WaitingInv, HeapInv
    <3> QED
      BY <2>2, <3>2, Zenon DEF TopCancelled
  <2> QED
    BY <1>1, <2>1, <2>2, TidyKeeps, Zenon
<1>4. ASSUME NEW d \in Strides, Advance(d) PROVE WaitingInv'
  <2>1. now + d \in Nat /\ now <= now + d
    BY StridesAssumption DEF WaitingInv, ClockTypes
  <2> QED
    BY <1>1, <1>4, <2>1, AdvanceKeeps, Zenon DEF Advance
<1> QED
  BY <1>2, <1>3, <1>4, Zenon DEF Tick

-----------------------------------------------------------------------------
(* What was delivered *)

(* Everything that n was given was sent before m. *)
Before(n, m) ==
    /\ \A i \in DOMAIN inbox[n] : inbox[n][i].id < m.id
    /\ \A x \in received[n] : x.id < m.id

(* What a coroutine still carries was sent after all that was delivered.     *)
(* Without latency nobody carries anything.                                  *)
BoxInv ==
    /\ latency = 0 => \A c \in Coroutines : carried[c] = None
    /\ \A n \in Nodes : \A m \in received[n] : m.id <= sends
    /\ \A c \in Coroutines : carried[c] # None => \A n \in Nodes : Before(n, carried[c])
    /\ DeliveredInOrder

(* A message that was sent after all that was delivered takes its place      *)
(* before those that were sent still later.                                  *)
LEMMA DeliverKeepsOrder ==
    ASSUME Types, DeliveredInOrder, NEW m \in Messages, \A n \in Nodes : Before(n, m),
           NEW l, DeliverPacket(m, l), received' = received
    PROVE  /\ DeliveredInOrder'
           /\ \A d : m.id < d.id => \A n \in Nodes : Before(n, d) => Before(n, d)'
<1>1. CASE inbox' = inbox
  BY <1>1, Zenon DEF DeliveredInOrder, Before
<1>2. CASE inbox' = [inbox EXCEPT ![m.to] = Append(inbox[m.to], m)]
  <2>1. m.to \in Nodes /\ inbox[m.to] \in Seq(Messages)
    BY Zenon DEF Types, Messages
  <2> DEFINE s == inbox[m.to]
             a == Append(s, m)
  <2>2. /\ \A n \in Nodes : n # m.to => inbox'[n] = inbox[n]
        /\ inbox'[m.to] = a
    BY <1>2, <2>1, Zenon DEF Types
  <2>3. /\ DOMAIN s = 1 .. Len(s) /\ Len(s) \in Nat
        /\ DOMAIN a = DOMAIN s \cup {Len(s) + 1}
        /\ \A i \in DOMAIN s : a[i] = s[i]
        /\ a[Len(s) + 1] = m
    BY <2>1, AppendMembers
  <2> HIDE DEF a
  <2>4. ASSUME NEW n \in Nodes, NEW i \in DOMAIN inbox'[n]
        PROVE  /\ \A j \in 1 .. (i - 1) : inbox'[n][j].id < inbox'[n][i].id
               /\ \A x \in received'[n] : x.id < inbox'[n][i].id
    <3>1. CASE n # m.to
      BY <2>2, <2>4, <3>1, Zenon DEF DeliveredInOrder
    <3>2. CASE n = m.to /\ i \in DOMAIN s
      <4>1. \A j \in 1 .. (i - 1) : j \in DOMAIN s
        BY <2>3, <3>2
      <4> QED
        BY <2>2, <2>3, <3>2, <4>1, Zenon DEF DeliveredInOrder
    <3>3. CASE n = m.to /\ i = Len(s) + 1
      <4>1. \A j \in 1 .. (i - 1) : j \in DOMAIN s
        BY <2>3, <3>3
      <4> QED
        BY <2>2, <2>3, <3>3, <4>1, Zenon DEF Before
    <3> QED
      BY <2>2, <2>3, <2>4, <3>1, <3>2, <3>3, Zenon
  <2>5. ASSUME NEW d, m.id < d.id, NEW n \in Nodes, Before(n, d) PROVE Before(n, d)'
    <3>1. CASE n # m.to
      BY <2>2, <2>5, <3>1, Zenon DEF Before
    <3>2. CASE n = m.to
      BY <2>2, <2>3, <2>5, <3>2, Zenon DEF Before
    <3> QED
      BY <3>1, <3>2, Zenon
  <2> QED
    BY <2>4, <2>5, Zenon DEF DeliveredInOrder
<1> QED
  BY <1>1, <1>2, DeliverPacketEffect, Zenon

(* The message that send makes comes after all that was delivered. *)
LEMMA NewIsLast ==
    ASSUME Types, OnePlace, BoxInv, NEW m, m.id = sends + 1, NEW n \in Nodes
    PROVE  Before(n, m)
<1>1. \A x \in Messages : x.id \in Nat
  BY DEF Messages
<1>2. \A x \in sent : x.id < sends + 1
  BY <1>1 DEF Types, OnePlace
<1>3. received[n] \subseteq Messages /\ \A x \in received[n] : x.id <= sends
  BY Zenon DEF Types, BoxInv
<1>4. sends \in Nat
  BY DEF Types
<1>5. \A x \in received[n] : x.id < sends + 1
  BY <1>1, <1>3, <1>4
<1> QED
  <2>1. \A i \in DOMAIN inbox[n] : inbox[n][i] \in sent
    BY Zenon DEF OnePlace
  <2>2. \A i \in DOMAIN inbox[n] : inbox[n][i].id < sends + 1
    BY <1>2, <2>1, Zenon
  <2> QED
    BY <1>5, <2>2 DEF Before

(* send: a message that is not delivered at once is the last on its way. *)
LEMMA SendBoxes ==
    ASSUME Types, OnePlace, WaitingInv, BoxInv, NEW c \in Coroutines, NEW n \in Nodes, Send(c, n)
    PROVE  BoxInv' /\ WaitingInv'
<1> DEFINE m == [id |-> sends + 1, from |-> Owner[c], to |-> n, life |-> life[n]]
<1>1. /\ carried[c] = None /\ sends < MaxSends
      /\ sends' = sends + 1 /\ received' = received /\ latency' = latency
  BY Zenon DEF Send
<1>2. m \in Messages /\ m.id = sends + 1 /\ m # None
  <2>1. sends + 1 \in 1..MaxSends /\ Owner[c] \in Nodes /\ life[n] \in 1..MaxLives
    BY <1>1, SimNetworkAssumption DEF Types
  <2>2. m \in Messages /\ m.id = sends + 1
    BY <2>1 DEF Messages
  <2>3. m.id # 0
    BY <2>1, <2>2
  <2> QED
    BY <2>2, <2>3 DEF None
<1>3. \A x \in Nodes : Before(x, m)
  <2> HIDE DEF m
  <2> QED
    BY <1>2, NewIsLast, Zenon
<1>4. \A x \in Nodes : \A y \in received'[x] : y.id <= sends'
  <2>1. \A x \in Nodes : \A y \in received[x] : y.id \in Nat /\ y.id <= sends
    BY DEF Types, BoxInv, Messages
  <2> QED
    BY <1>1, <2>1 DEF Types
<1>5. CASE UNCHANGED <<clockVars, inbox, carried, target>>
  <2>1. UNCHANGED <<now, counter, sleepers, ready, inbox, carried>>
    BY <1>5, Zenon DEF clockVars
  <2>2. BoxInv'
    BY <1>1, <1>4, <2>1, Zenon DEF BoxInv, DeliveredInOrder, Before
  <2>3. WaitingInv'
    BY <1>1, <2>1, Zenon DEF WaitingInv, ClockTypes, HeapInv, Aligned, WaitInv, WaitInOrder, Ahead
  <2> QED
    BY <2>2, <2>3
<1>6. CASE latency = 0 /\ DeliverPacket(m, life[n]) /\ UNCHANGED <<clockVars, carried, target>>
  <2>1. UNCHANGED <<now, counter, sleepers, ready, carried>>
    BY <1>6, Zenon DEF clockVars
  <2>2. WaitingInv'
    BY <1>1, <2>1, Zenon DEF WaitingInv, ClockTypes, HeapInv, Aligned, WaitInv, WaitInOrder, Ahead
  <2>3. \A d \in Coroutines : carried'[d] = None
    BY <1>6, <2>1, Zenon DEF BoxInv
  <2>4. DeliveredInOrder'
    <3> HIDE DEF m
    <3> QED
      BY <1>1, <1>2, <1>3, <1>6, DeliverKeepsOrder, Zenon DEF BoxInv
  <2> QED
    BY <1>1, <1>4, <2>2, <2>3, <2>4, Zenon DEF BoxInv
<1>7. CASE /\ latency > 0 /\ Sleep(c, latency)
           /\ carried' = [carried EXCEPT ![c] = m] /\ inbox' = inbox
  <2> HIDE DEF m
  <2>1. WaitingInv'
    BY <1>1, <1>2, <1>7, SleepKeeps, Zenon
  <2>2. ~ (latency' = 0)
    BY <1>1, <1>7 DEF WaitingInv, ClockTypes
  <2>3. ASSUME NEW d \in Coroutines, carried'[d] # None, NEW x \in Nodes PROVE Before(x, carried[d])'
    <3>1. CASE d = c
      <4>1. carried'[d] = m
        BY <1>7, <3>1, Zenon DEF Types
      <4> QED
        BY <1>1, <1>3, <1>7, <4>1, Zenon DEF Before
    <3>2. CASE d # c
      <4>1. carried'[d] = carried[d]
        BY <1>7, <3>2, Zenon DEF Types
      <4> QED
        BY <1>1, <1>7, <2>3, <4>1, Zenon DEF BoxInv, Before
    <3> QED
      BY <3>1, <3>2, Zenon
  <2>4. DeliveredInOrder'
    BY <1>1, <1>7, Zenon DEF BoxInv, DeliveredInOrder
  <2> QED
    BY <1>4, <2>1, <2>2, <2>3, <2>4, Zenon DEF BoxInv
<1> QED
  BY <1>5, <1>6, <1>7, Zenon DEF Send

(* route_message after the sleep: the coroutine that is resumed carries the  *)
(* first of the messages that are on their way.                              *)
LEMMA ArriveBoxes ==
    ASSUME Types, OnePlace, WaitingInv, BoxInv, NEW c \in Coroutines, Arrive(c)
    PROVE  BoxInv'
<1> DEFINE m == carried[c]
<1>1. /\ Resume(c) /\ m # None /\ m \in Messages
      /\ carried' = [carried EXCEPT ![c] = None]
      /\ UNCHANGED <<latency, sends, received>>
      /\ inbox' = inbox \/ DeliverPacket(m, target[c])
  BY Zenon DEF Arrive, Types
<1>2. 1 \in DOMAIN ready /\ ready[1] = c /\ \A i \in DOMAIN ready : i # 1 => 1 < i
  BY <1>1 DEF Resume, WaitingInv, ClockTypes
<1>3. /\ carried'[c] = None
      /\ \A d \in Coroutines : d # c => carried'[d] = carried[d]
  BY <1>1, Zenon DEF Types
<1>4. \A n \in Nodes : Before(n, m)
  BY <1>1, Zenon DEF BoxInv
<1>5. ASSUME NEW d \in Coroutines, d # c, carried[d] # None PROVE m.id < carried[d].id
  <2>1. CASE \E e \in sleepers : e.live /\ e.co = d
    BY <1>2, <2>1, Zenon DEF WaitingInv, WaitInOrder, Ahead
  <2>2. CASE \E i \in DOMAIN ready : ready[i] = d
    BY <1>2, <1>5, <2>2, Zenon DEF WaitingInv, WaitInOrder, Ahead
  <2> QED
    BY <1>5, <2>1, <2>2, Zenon DEF WaitingInv, WaitInv
<1> HIDE DEF m
<1>6. DeliveredInOrder' /\ \A d : m.id < d.id => \A n \in Nodes : Before(n, d) => Before(n, d)'
  <2>1. CASE inbox' = inbox
    BY <1>1, <2>1, Zenon DEF BoxInv, DeliveredInOrder, Before
  <2>2. CASE DeliverPacket(m, target[c])
    BY <1>1, <1>4, <2>2, DeliverKeepsOrder, Zenon DEF BoxInv
  <2> QED
    BY <1>1, <2>1, <2>2, Zenon
<1>7. ASSUME NEW d \in Coroutines, carried'[d] # None, NEW n \in Nodes PROVE Before(n, carried[d])'
  <2>1. d # c /\ carried'[d] = carried[d] /\ carried[d] # None
    BY <1>3, <1>7, Zenon
  <2>2. Before(n, carried[d]) /\ m.id < carried[d].id
    BY <1>5, <2>1, Zenon DEF BoxInv
  <2>3. PICK x : x = carried[d]
    BY Zenon
  <2>4. Before(n, x)'
    BY <1>6, <2>2, <2>3, Zenon
  <2> QED
    BY <2>1, <2>3, <2>4, Zenon DEF Before
<1>8. latency' = 0 => \A d \in Coroutines : carried'[d] = None
  BY <1>1, <1>3, Zenon DEF BoxInv
<1> QED
  BY <1>1, <1>6, <1>7, <1>8, Zenon DEF BoxInv

(* recv takes the first of an inbox. *)
LEMMA RecvBoxes ==
    ASSUME Types, OnePlace, BoxInv, NEW n \in Nodes, Recv(n)
    PROVE  BoxInv'
<1> DEFINE s == inbox[n]
<1>1. /\ s # <<>> /\ received' = [received EXCEPT ![n] = @ \cup {Head(s)}]
      /\ inbox' = [inbox EXCEPT ![n] = Tail(@)]
      /\ UNCHANGED <<latency, sends, carried>>
  BY Zenon DEF Recv
<1>2. s \in Seq(Messages)
  BY DEF Types
<1>3. /\ inbox'[n] = Tail(s) /\ received'[n] = received[n] \cup {s[1]}
      /\ \A x \in Nodes : x # n => inbox'[x] = inbox[x] /\ received'[x] = received[x]
  BY <1>1, <1>2 DEF Types
<1>4. /\ 1 \in DOMAIN s
      /\ \A i \in DOMAIN Tail(s) : i + 1 \in DOMAIN s /\ Tail(s)[i] = s[i + 1]
      /\ \A i \in DOMAIN Tail(s) : 1 \in 1 .. i
      /\ \A i \in DOMAIN Tail(s) : \A j \in 1 .. (i - 1) : j \in DOMAIN Tail(s) /\ j + 1 \in 1 .. i
      /\ \A i \in DOMAIN Tail(s) : (i + 1) - 1 = i
  BY <1>1, <1>2
<1>5. s[1] \in sent /\ s[1].id <= sends
  BY <1>4, Zenon DEF OnePlace
<1>6. \A k \in DOMAIN s : /\ \A j \in 1 .. (k - 1) : s[j].id < s[k].id
                          /\ \A x \in received[n] : x.id < s[k].id
  BY Zenon DEF BoxInv, DeliveredInOrder
<1> HIDE DEF s
<1>7. DeliveredInOrder'
  <2>1. ASSUME NEW x \in Nodes, NEW i \in DOMAIN inbox'[x]
        PROVE  /\ \A j \in 1 .. (i - 1) : inbox'[x][j].id < inbox'[x][i].id
               /\ \A y \in received'[x] : y.id < inbox'[x][i].id
    <3>1. CASE x # n
      BY <1>3, <2>1, <3>1, Zenon DEF BoxInv, DeliveredInOrder
    <3>2. CASE x = n
      <4>1. /\ i \in DOMAIN Tail(s) /\ i + 1 \in DOMAIN s /\ inbox'[x][i] = s[i + 1]
        BY <1>3, <1>4, <2>1, <3>2, Zenon
      <4>2. /\ \A j \in 1 .. i : s[j].id < s[i + 1].id
            /\ \A y \in received[n] : y.id < s[i + 1].id
        BY <1>4, <1>6, <4>1, Zenon
      <4>3. \A j \in 1 .. (i - 1) : inbox'[x][j] = s[j + 1] /\ j + 1 \in 1 .. i
        BY <1>3, <1>4, <3>2, <4>1, Zenon
      <4> QED
        <5>1. \A y \in received'[x] : y \in received[n] \/ y = s[1]
          BY <1>3, <3>2, Zenon
        <5>2. s[1].id < s[i + 1].id
          BY <1>4, <4>1, <4>2, Zenon
        <5> QED
          BY <4>1, <4>2, <4>3, <5>1, <5>2, Zenon
    <3> QED
      BY <3>1, <3>2, Zenon
  <2> QED
    BY <2>1, Zenon DEF DeliveredInOrder
<1>8. ASSUME NEW d \in Coroutines, carried'[d] # None, NEW x \in Nodes PROVE Before(x, carried[d])'
  <2>1. carried' = carried /\ Before(x, carried[d])
    BY <1>1, <1>8, Zenon DEF BoxInv
  <2>2. CASE x # n
    BY <1>3, <2>1, <2>2, Zenon DEF Before
  <2>3. CASE x = n
    <3>1. /\ \A i \in DOMAIN s : s[i].id < carried[d].id
          /\ \A y \in received[n] : y.id < carried[d].id
      BY <2>1, <2>3, Zenon DEF Before, s
    <3>2. \A i \in DOMAIN inbox'[x] : inbox'[x][i].id < carried'[d].id
      <4> SUFFICES ASSUME NEW i \in DOMAIN inbox'[x] PROVE inbox'[x][i].id < carried[d].id
        BY <2>1, Zenon
      <4>1. i + 1 \in DOMAIN s /\ inbox'[x][i] = s[i + 1]
        BY <1>3, <1>4, <2>3, Zenon
      <4> QED
        BY <3>1, <4>1, Zenon
    <3>3. \A y \in received'[x] : y \in received[n] \/ y = s[1]
      BY <1>3, <2>3, Zenon
    <3>4. \A y \in received'[x] : y.id < carried'[d].id
      BY <1>4, <2>1, <3>1, <3>3, Zenon
    <3> QED
      BY <3>2, <3>4, Zenon DEF Before
  <2> QED
    BY <2>2, <2>3, Zenon
<1>9. \A x \in Nodes : \A y \in received'[x] : y.id <= sends'
  BY <1>1, <1>3, <1>5, Zenon DEF BoxInv
<1> QED
  BY <1>1, <1>7, <1>8, <1>9, Zenon DEF BoxInv

-----------------------------------------------------------------------------
(* The theorems *)

(* The rest of the type invariant *)
Limits ==
    /\ sends <= MaxSends
    /\ blocked \subseteq Nodes \X Nodes
    /\ latency \in Latencies
    /\ \A n \in Nodes : Len(inbox[n]) <= InboxSize

(* The inductive invariant of the three theorems *)
OrderInv == Types /\ OnePlace /\ WaitingInv /\ BoxInv /\ Limits

(* An inbox that takes a message has room for it. *)
LEMMA DeliverKeepsLimit ==
    ASSUME Types, Limits, NEW m \in Messages, NEW l, DeliverPacket(m, l)
    PROVE  \A n \in Nodes : Len(inbox'[n]) <= InboxSize
<1>1. CASE inbox' = inbox
  BY <1>1, Zenon DEF Limits
<1>2. CASE /\ Len(inbox[m.to]) < InboxSize
           /\ inbox' = [inbox EXCEPT ![m.to] = Append(@, m)]
  <2>1. m.to \in Nodes /\ inbox[m.to] \in Seq(Messages)
    BY Zenon DEF Types, Messages
  <2>2. /\ \A n \in Nodes : n # m.to => inbox'[n] = inbox[n]
        /\ inbox'[m.to] = Append(inbox[m.to], m)
    BY <1>2, <2>1, Zenon DEF Types
  <2>3. Len(Append(inbox[m.to], m)) <= InboxSize
    BY <1>2, <2>1, SimNetworkAssumption
  <2> QED
    BY <2>2, <2>3, Zenon DEF Limits
<1> QED
  BY <1>1, <1>2, Zenon DEF DeliverPacket

(* Every step keeps within the bounds of the model, and inboxes within       *)
(* InboxSize.                                                                *)
LEMMA LimitsKept ==
    ASSUME Types, Limits, Next
    PROVE  Limits'
<1>1. ASSUME NEW c \in Coroutines, NEW n \in Nodes, Send(c, n) PROVE Limits'
  <2> DEFINE m == [id |-> sends + 1, from |-> Owner[c], to |-> n, life |-> life[n]]
  <2>1. sends < MaxSends /\ sends' = sends + 1 /\ UNCHANGED <<blocked, latency>>
    BY <1>1, Zenon DEF Send
  <2>2. sends' <= MaxSends
    BY <2>1, SimNetworkAssumption DEF Types
  <2>3. inbox' = inbox \/ DeliverPacket(m, life[n])
    BY <1>1, Zenon DEF Send
  <2>4. m \in Messages
    BY <1>1, <2>1, SimNetworkAssumption DEF Types, Messages
  <2> HIDE DEF m
  <2>5. \A x \in Nodes : Len(inbox'[x]) <= InboxSize
    BY <2>3, <2>4, DeliverKeepsLimit, Zenon DEF Limits
  <2> QED
    BY <2>1, <2>2, <2>5, Zenon DEF Limits
<1>2. ASSUME NEW c \in Coroutines, Arrive(c) PROVE Limits'
  <2>1. carried[c] \in Messages /\ UNCHANGED <<sends, blocked, latency>>
    BY <1>2, Zenon DEF Arrive, Types
  <2>2. inbox' = inbox \/ DeliverPacket(carried[c], target[c])
    BY <1>2, Zenon DEF Arrive
  <2>3. \A x \in Nodes : Len(inbox'[x]) <= InboxSize
    BY <2>1, <2>2, DeliverKeepsLimit, Zenon DEF Limits
  <2> QED
    BY <2>1, <2>3, Zenon DEF Limits
<1>3. ASSUME NEW n \in Nodes, Recv(n) PROVE Limits'
  <2>1. /\ inbox[n] # <<>> /\ inbox' = [inbox EXCEPT ![n] = Tail(@)]
        /\ UNCHANGED <<sends, blocked, latency>>
    BY <1>3, Zenon DEF Recv
  <2>2. inbox[n] \in Seq(Messages) /\ Len(inbox[n]) <= InboxSize
    BY DEF Types, Limits
  <2>3. inbox'[n] = Tail(inbox[n]) /\ \A x \in Nodes : x # n => inbox'[x] = inbox[x]
    BY <2>1, Zenon DEF Types
  <2>4. Len(Tail(inbox[n])) <= InboxSize
    BY <2>1, <2>2, SimNetworkAssumption
  <2> QED
    BY <2>1, <2>3, <2>4, Zenon DEF Limits
<1>4. ASSUME NEW n \in Nodes, Open(n) PROVE Limits'
  <2>1. inbox' = [inbox EXCEPT ![n] = <<>>] /\ UNCHANGED <<sends, blocked, latency>>
    BY <1>4, Zenon DEF Open
  <2>2. inbox'[n] = <<>> /\ \A x \in Nodes : x # n => inbox'[x] = inbox[x]
    BY <2>1, Zenon DEF Types
  <2>3. Len(<<>>) <= InboxSize
    BY SimNetworkAssumption
  <2> QED
    BY <2>1, <2>2, <2>3, Zenon DEF Limits
<1>5. ASSUME NEW A \in SUBSET Nodes, NEW B \in SUBSET Nodes, NEW symmetric,
             Partition(A, B, symmetric) \/ HealPartition(A, B, symmetric)
      PROVE  Limits'
  <2>1. Links(A, B, symmetric) \subseteq Nodes \X Nodes
    BY DEF Links
  <2> QED
    BY <1>5, <2>1, Zenon DEF Partition, HealPartition, Limits
<1>6. CASE HealAll
  BY <1>6, Zenon DEF HealAll, Limits
<1>7. ASSUME UNCHANGED <<sends, blocked, latency, inbox>> PROVE Limits'
  BY <1>7, Zenon DEF Limits
<1> QED
  BY <1>1, <1>2, <1>3, <1>4, <1>5, <1>6, <1>7, Zenon DEF Next, Cancel, Close, Tick, netVars

(* Steps that leave the clock alone, and what is on its way *)
LEMMA WaitingSame ==
    ASSUME WaitingInv, UNCHANGED <<clockVars, latency, carried>>
    PROVE  WaitingInv'
<1>1. UNCHANGED <<now, counter, sleepers, ready, latency, carried>>
  BY Zenon DEF clockVars
<1> QED
  BY <1>1, Zenon DEF WaitingInv, ClockTypes, HeapInv, Aligned, WaitInv, WaitInOrder, Ahead

(* A step that sends, receives and delivers nothing keeps the order: it may  *)
(* cancel messages under way and empty inboxes.                              *)
LEMMA BoxSame ==
    ASSUME BoxInv, UNCHANGED <<latency, sends, received>>,
           \A c \in Coroutines : carried'[c] # None => carried'[c] = carried[c],
           \A n \in Nodes : DOMAIN inbox'[n] = {} \/ inbox'[n] = inbox[n]
    PROVE  BoxInv'
<1>1. DeliveredInOrder'
  BY Zenon DEF BoxInv, DeliveredInOrder
<1>2. ASSUME NEW c \in Coroutines, carried'[c] # None, NEW n \in Nodes PROVE Before(n, carried[c])'
  <2>1. carried'[c] = carried[c] /\ Before(n, carried[c])
    BY <1>2, Zenon DEF BoxInv
  <2> QED
    BY <2>1, Zenon DEF Before
<1>3. latency' = 0 => \A c \in Coroutines : carried'[c] = None
  BY Zenon DEF BoxInv
<1> QED
  BY <1>1, <1>2, <1>3, Zenon DEF BoxInv

(* The invariant holds at first: nothing was sent. *)
LEMMA OrderInit == Init => OrderInv
<1> SUFFICES ASSUME Init PROVE OrderInv
  BY Zenon
<1>1. Types /\ OnePlace
  BY InitInv, Zenon DEF IInv
<1>2. \A n \in Nodes : inbox[n] = <<>> /\ received[n] = {}
  BY Zenon DEF Init
<1>3. DOMAIN <<>> = {} /\ Len(<<>>) <= InboxSize
  BY SimNetworkAssumption
<1>4. /\ now = 0 /\ counter = 0 /\ sleepers = {} /\ ready = <<>> /\ sends = 0 /\ blocked = {}
      /\ latency \in Latencies /\ \A c \in Coroutines : carried[c] = None
  BY Zenon DEF Init, ClockInit
<1>5. WaitingInv
  <2>1. ClockTypes
    BY <1>4, SimNetworkAssumption DEF ClockTypes
  <2> QED
    BY <1>3, <1>4, <2>1, Zenon DEF WaitingInv, HeapInv, Aligned, WaitInv, WaitInOrder
<1>6. BoxInv
  BY <1>2, <1>3, <1>4, Zenon DEF BoxInv, DeliveredInOrder
<1>7. Limits
  <2>1. sends <= MaxSends
    BY <1>4, SimNetworkAssumption
  <2> QED
    BY <1>2, <1>3, <1>4, <2>1, Zenon DEF Limits
<1> QED
  BY <1>1, <1>5, <1>6, <1>7, Zenon DEF OrderInv

(* Every step keeps it. *)
LEMMA OrderNext == OrderInv /\ [Next]_vars => OrderInv'
<1> SUFFICES ASSUME OrderInv, [Next]_vars PROVE OrderInv'
  BY Zenon
<1>1. Types /\ OnePlace /\ WaitingInv /\ BoxInv /\ Limits
  BY Zenon DEF OrderInv
<1>2. Types' /\ OnePlace'
  BY <1>1, NextStep, Zenon DEF IInv
<1>3. Limits'
  <2>1. CASE UNCHANGED vars
    BY <1>1, <2>1, Zenon DEF vars, netVars, Limits
  <2> QED
    BY <1>1, <2>1, LimitsKept, Zenon
<1>4. ASSUME NEW c \in Coroutines, NEW n \in Nodes, Send(c, n) PROVE WaitingInv' /\ BoxInv'
  BY <1>1, <1>4, SendBoxes, Zenon
<1>5. ASSUME NEW c \in Coroutines, Arrive(c) PROVE WaitingInv' /\ BoxInv'
  BY <1>1, <1>5, ArriveBoxes, ArriveKeeps, Zenon DEF Arrive
<1>6. ASSUME NEW c \in Coroutines, Cancel(c) PROVE WaitingInv' /\ BoxInv'
  <2>1. /\ CancelSleep(c) /\ carried' = [carried EXCEPT ![c] = None]
        /\ UNCHANGED <<latency, sends, received, inbox>>
    BY <1>6, Zenon DEF Cancel
  <2>2. \A d \in Coroutines : carried'[d] # None => carried'[d] = carried[d]
    BY <1>1, <2>1, Zenon DEF Types
  <2> QED
    BY <1>1, <2>1, <2>2, CancelKeeps, BoxSame, Zenon
<1>7. ASSUME NEW n \in Nodes, Recv(n) PROVE WaitingInv' /\ BoxInv'
  BY <1>1, <1>7, RecvBoxes, WaitingSame, Zenon DEF Recv
<1>8. ASSUME NEW n \in Nodes, Open(n) PROVE WaitingInv' /\ BoxInv'
  <2>1. UNCHANGED <<clockVars, latency, carried, sends, received>> /\ inbox' = [inbox EXCEPT ![n] = <<>>]
    BY <1>8, Zenon DEF Open
  <2>2. \A x \in Nodes : inbox'[x] = <<>> \/ inbox'[x] = inbox[x]
    BY <1>1, <2>1, Zenon DEF Types
  <2>3. DOMAIN <<>> = {}
    OBVIOUS
  <2> QED
    BY <1>1, <2>1, <2>2, <2>3, WaitingSame, BoxSame, Zenon
<1>9. ASSUME Tick PROVE WaitingInv' /\ BoxInv'
  <2>1. UNCHANGED <<latency, sends, received>> /\ carried' = carried /\ inbox' = inbox
    BY <1>9, Zenon DEF Tick, netVars
  <2> QED
    <3>1. WaitingInv'
      BY <1>1, <1>9, TickKeeps, Zenon
    <3>2. BoxInv'
      BY <1>1, <2>1, BoxSame, Zenon
    <3> QED
      BY <3>1, <3>2
<1>10. ASSUME UNCHANGED <<clockVars, latency, carried, sends, received, inbox>> PROVE WaitingInv' /\ BoxInv'
  BY <1>1, <1>10, WaitingSame, BoxSame, Zenon
<1>11. WaitingInv' /\ BoxInv'
  <2>1. ASSUME NEW A, NEW B, NEW symmetric,
               Partition(A, B, symmetric) \/ HealPartition(A, B, symmetric)
        PROVE  WaitingInv' /\ BoxInv'
    BY <1>10, <2>1, Zenon DEF Partition, HealPartition
  <2>2. CASE HealAll \/ UNCHANGED vars
    BY <1>10, <2>2, Zenon DEF HealAll, vars, netVars
  <2>3. ASSUME NEW n \in Nodes, Close(n) PROVE WaitingInv' /\ BoxInv'
    BY <1>10, <2>3, Zenon DEF Close
  <2> QED
    <3>1. CASE Next
      BY <1>4, <1>5, <1>6, <1>7, <1>8, <1>9, <2>1, <2>3, <2>2, <3>1, Zenon DEF Next
    <3> QED
      BY <2>2, <3>1, Zenon
<1> QED
  BY <1>2, <1>3, <1>11, Zenon DEF OrderInv

(* The variables have their types, and no inbox grows past its size. *)
THEOREM SimNetworkTypeOK == Spec => []TypeOK
<1>1. OrderInv => TypeOK
  <2> SUFFICES ASSUME OrderInv PROVE TypeOK
    BY Zenon
  <2>1. sends \in 0..MaxSends
    BY SimNetworkAssumption DEF OrderInv, Types, Limits
  <2>2. sleepers \subseteq [deadline : Nat, seq : Nat, co : Coroutines, live : BOOLEAN]
    BY Zenon DEF OrderInv, WaitingInv, HeapInv, Aligned, Entries
  <2> QED
    BY <2>1, <2>2, Zenon DEF OrderInv, Types, WaitingInv, ClockTypes, Limits, TypeOK
<1> QED
  BY <1>1, OrderInit, OrderNext, PTL DEF Spec

(* With one latency for all, messages reach each node in the order in which  *)
(* they were sent, for any number of senders, any strides of the clock and   *)
(* whatever is cancelled (sleep, advance_to, route_message).                 *)
THEOREM SimNetworkInOrder == Spec => []DeliveredInOrder
<1>1. OrderInv => DeliveredInOrder
  BY Zenon DEF OrderInv, BoxInv
<1> QED
  BY <1>1, OrderInit, OrderNext, PTL DEF Spec

(* After an advance nobody sleeps past its deadline, and who is inside       *)
(* route_message waits in exactly one place: in the heap, or to be resumed   *)
(* (advance_to, step, sleep).                                                *)
THEOREM SimNetworkNobodyOversleeps == Spec => []NobodyOversleeps
<1>1. OrderInv => NobodyOversleeps
  <2> SUFFICES ASSUME OrderInv PROVE NobodyOversleeps
    BY Zenon
  <2>1. Types /\ WaitingInv
    BY Zenon DEF OrderInv
  <2>2. \A e \in sleepers : e.deadline > now
    BY <2>1, Zenon DEF WaitingInv, HeapInv
  <2>3. ASSUME NEW c \in Coroutines, carried[c] # None
        PROVE  Cardinality({e \in sleepers : e.live /\ e.co = c})
                   + Cardinality({i \in DOMAIN ready : ready[i] = c}) = 1
    <3> DEFINE asleep == {e \in sleepers : e.live /\ e.co = c}
               woken == {i \in DOMAIN ready : ready[i] = c}
    <3>1. \A i, j \in woken : i = j
      BY <2>1, ReadyOnce, Zenon
    <3>2. \A e, f \in asleep : e = f
      <4> SUFFICES ASSUME NEW e \in asleep, NEW f \in asleep, e # f PROVE FALSE
        BY Zenon
      <4>1. /\ e \in sleepers /\ f \in sleepers /\ e.live /\ f.live /\ e.co = c /\ f.co = c
            /\ e.seq \in Nat /\ f.seq \in Nat /\ e.seq # f.seq
        BY <2>1, Zenon DEF WaitingInv, HeapInv, Aligned, Entries
      <4>2. e.seq < f.seq \/ f.seq < e.seq
        BY <4>1
      <4>3. carried[c].id < carried[c].id
        BY <2>1, <4>1, <4>2, Zenon DEF WaitingInv, WaitInOrder, Ahead
      <4>4. carried[c].id \in Nat
        BY <2>1, <2>3 DEF Types, Messages
      <4> QED
        BY <4>3, <4>4
    <3>3. asleep = {} \/ woken = {}
      BY <2>1, ReadyOnce, Zenon
    <3>4. asleep # {} \/ woken # {}
      BY <2>1, <2>3, Zenon DEF WaitingInv, WaitInv
    <3> HIDE DEF asleep, woken
    <3>5. CASE asleep = {} /\ \E i : woken = {i}
      <4>1. Cardinality(asleep) = 0 /\ Cardinality(woken) = 1
        BY <3>5, FS_EmptySet, FS_Singleton, Zenon
      <4> QED
        BY <4>1 DEF asleep, woken
    <3>6. CASE woken = {} /\ \E e : asleep = {e}
      <4>1. Cardinality(woken) = 0 /\ Cardinality(asleep) = 1
        BY <3>6, FS_EmptySet, FS_Singleton, Zenon
      <4> QED
        BY <4>1 DEF asleep, woken
    <3>7. CASE woken # {}
      <4>1. PICK i : i \in woken
        BY <3>7, Zenon
      <4>2. woken = {i}
        BY <3>1, <4>1
      <4> QED
        BY <3>3, <3>5, <3>7, <4>2, Zenon
    <3>8. CASE asleep # {}
      <4>1. PICK e : e \in asleep
        BY <3>8, Zenon
      <4>2. asleep = {e}
        BY <3>2, <4>1
      <4> QED
        BY <3>3, <3>6, <3>8, <4>2, Zenon
    <3> QED
      BY <3>4, <3>7, <3>8, Zenon DEF asleep, woken
  <2> QED
    BY <2>2, <2>3, Zenon DEF NobodyOversleeps
<1> QED
  BY <1>1, OrderInit, OrderNext, PTL DEF Spec

=============================================================================
