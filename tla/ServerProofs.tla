---------------------------- MODULE ServerProofs ----------------------------
(***************************************************************************)
(* The two servers of a node, for every number of nodes, callers,          *)
(* connections and clients: TcpTransport implements Network, and the       *)
(* status server answers a request once and shows its pages to nobody      *)
(* without the token.                                                      *)
(***************************************************************************)
EXTENDS TcpTransport, StatusServer, TLAPS

-----------------------------------------------------------------------------
(* Pipes and inboxes are sequences without repetitions: what appending a new *)
(* element and removing the head do to their elements.                       *)

(* Append adds one element, at the end. *)
LEMMA AppendMembers ==
    ASSUME NEW S, NEW s \in Seq(S), NEW m \in S
    PROVE  /\ Append(s, m) \in Seq(S)
           /\ Range(Append(s, m)) = Range(s) \cup {m}
           /\ DOMAIN Append(s, m) = DOMAIN s \cup {Len(s) + 1}
           /\ \A i \in DOMAIN s : Append(s, m)[i] = s[i]
           /\ Append(s, m)[Len(s) + 1] = m
           /\ Len(s) + 1 \notin DOMAIN s
  BY DEF Range

(* Tail drops the head and keeps the rest; an element that occurs once is    *)
(* gone when it was the head.                                                *)
LEMMA TailMembers ==
    ASSUME NEW S, NEW s \in Seq(S), s # <<>>
    PROVE  /\ Head(s) \in Range(s) /\ Head(s) \in S /\ Head(s) = s[1] /\ 1 \in DOMAIN s
           /\ Tail(s) \in Seq(S)
           /\ \A i \in DOMAIN Tail(s) : i + 1 \in DOMAIN s /\ Tail(s)[i] = s[i + 1] /\ i \in Nat /\ i # 0
           /\ \A i \in DOMAIN s : i = 1 \/ (i - 1 \in DOMAIN Tail(s) /\ s[i] = Tail(s)[i - 1])
  BY DEF Range

(* Without repetitions, the tail has every element but the head. *)
LEMMA TailRange ==
    ASSUME NEW S, NEW s \in Seq(S), s # <<>>,
           \A i, j \in DOMAIN s : s[i] = s[j] => i = j
    PROVE  Range(Tail(s)) = Range(s) \ {Head(s)}
<1>1. ASSUME NEW x \in Range(Tail(s)) PROVE x \in Range(s) \ {Head(s)}
  <2>1. PICK i \in DOMAIN Tail(s) : x = Tail(s)[i]
    BY <1>1, Zenon DEF Range
  <2>2. /\ i + 1 \in DOMAIN s /\ x = s[i + 1] /\ i + 1 # 1
        /\ 1 \in DOMAIN s /\ Head(s) = s[1]
    BY <2>1, TailMembers
  <2>. QED
    BY <2>2, Zenon DEF Range
<1>2. ASSUME NEW x \in Range(s) \ {Head(s)} PROVE x \in Range(Tail(s))
  <2>1. PICK i \in DOMAIN s : x = s[i]
    BY <1>2, Zenon DEF Range
  <2>2. i - 1 \in DOMAIN Tail(s) /\ x = Tail(s)[i - 1]
    BY <1>2, <2>1, TailMembers, Zenon
  <2>. QED
    BY <2>2, Zenon DEF Range
<1>. QED
  BY <1>1, <1>2, Zenon

(* Appending an element that does not occur keeps the elements distinct. *)
LEMMA AppendInjective ==
    ASSUME NEW S, NEW s \in Seq(S), NEW m \in S, IsInjective(s), m \notin Range(s)
    PROVE  IsInjective(Append(s, m))
<1>1. /\ DOMAIN Append(s, m) = DOMAIN s \cup {Len(s) + 1}
      /\ \A i \in DOMAIN s : Append(s, m)[i] = s[i] /\ s[i] # m
      /\ Append(s, m)[Len(s) + 1] = m
  BY AppendMembers DEF Range
<1>. QED
  BY <1>1, Zenon DEF IsInjective

(* Removing the head keeps the others distinct, and the head is gone. *)
LEMMA TailInjective ==
    ASSUME NEW S, NEW s \in Seq(S), s # <<>>, IsInjective(s)
    PROVE  /\ IsInjective(Tail(s)) /\ Tail(s) \in Seq(S)
           /\ Head(s) \in Range(s)
           /\ Range(Tail(s)) = Range(s) \ {Head(s)}
<1>1. \A i \in DOMAIN Tail(s) : i + 1 \in DOMAIN s /\ Tail(s)[i] = s[i + 1] /\ i \in Nat
  BY TailMembers, Zenon
<1>2. \A i, j \in DOMAIN s : s[i] = s[j] => i = j
  BY Zenon DEF IsInjective
<1>3. IsInjective(Tail(s))
  BY <1>1, <1>2 DEF IsInjective
<1>. QED
  BY <1>2, <1>3, TailMembers, TailRange, Zenon

(* The empty sequence *)
LEMMA EmptyInjective ==
    ASSUME NEW S
    PROVE  <<>> \in Seq(S) /\ IsInjective(<<>>) /\ Range(<<>>) = {}
  BY DEF IsInjective, Range

-----------------------------------------------------------------------------
(* The invariant *)

(* The part of the type invariant that the argument needs *)
Types ==
    /\ pc \in [Callers -> {"idle", "dial", "hello", "drain", "shut"}]
    /\ peer \in [Callers -> Nodes]
    /\ item \in [Callers -> Messages \cup {None}]
    /\ link \in [Callers -> 0..MaxDials]
    /\ table \in [Nodes -> [Nodes -> 0..MaxDials]]
    /\ dials \in 0..MaxDials
    /\ ends \in [Conns -> (Nodes \X Nodes) \cup {<<>>}]
    /\ server \in [Conns -> {"none", "accept", "hello", "serving", "ended"}]
    /\ up \in [Conns -> Seq(Messages)]
    /\ inbox \in [Nodes -> Seq(Messages)]
    /\ sends \in Nat
    /\ sent \subseteq Messages
    /\ received \in [Nodes -> SUBSET Messages]

(* Connections lead where the table and the callers think they do. *)
Wiring ==
    /\ \A k \in Conns : k > dials => server[k] = "none" /\ up[k] = <<>>
    /\ \A k \in Conns : k <= dials => ends[k] \in Nodes \X Nodes
    /\ \A c \in Callers : pc[c] = "hello" =>
           link[c] \in 1..dials /\ ends[link[c]] = <<Owner[c], peer[c]>>
    /\ \A c \in Callers : pc[c] \in {"dial", "hello"} <=> item[c] # None
    /\ \A n, p \in Nodes : table[n][p] # 0 =>
           table[n][p] \in 1..dials /\ ends[table[n][p]] = <<n, p>>

(* A message exists in one place only: with its call, on one connection to   *)
(* its addressee, or in the inbox there.                                     *)
OnePlace ==
    /\ \A m \in sent : m.id <= sends
    /\ \A c \in Callers : item[c] # None =>
           /\ item[c] \in sent
           /\ item[c].to = peer[c]
           /\ \A d \in Callers \ {c} : item[d] # item[c]
           /\ \A k \in Conns : item[c] \notin Range(up[k])
           /\ \A n \in Nodes : item[c] \notin Range(inbox[n])
    /\ \A k \in Conns :
           /\ IsInjective(up[k])
           /\ \A m \in Range(up[k]) :
                  /\ m \in sent
                  /\ m.to = ServerOf(k)
                  /\ \A j \in Conns \ {k} : m \notin Range(up[j])
                  /\ \A n \in Nodes : m \notin Range(inbox[n])
    /\ \A n \in Nodes :
           /\ IsInjective(inbox[n])
           /\ \A m \in Range(inbox[n]) : m \in sent /\ m.to = n

IInv == Types /\ Wiring /\ OnePlace

-----------------------------------------------------------------------------

(* Where a message in flight is *)
LEMMA FlyingMembers ==
    ASSUME NEW items, NEW pipes, NEW boxes, NEW m
    PROVE  m \in Flying(items, pipes, boxes) <=>
               \/ \E c \in Callers : items[c] # None /\ m = items[c]
               \/ \E k \in Conns : m \in Range(pipes[k])
               \/ \E n \in Nodes : m \in Range(boxes[n])
<1>. DEFINE held == {items[c] : c \in {d \in Callers : items[d] # None}}
            piped == UNION {Range(pipes[k]) : k \in Conns}
            boxed == UNION {Range(boxes[n]) : n \in Nodes}
<1>1. m \in held <=> \E c \in Callers : items[c] # None /\ m = items[c]
  BY Zenon
<1>2. m \in piped <=> \E k \in Conns : m \in Range(pipes[k])
  BY Zenon
<1>3. m \in boxed <=> \E n \in Nodes : m \in Range(boxes[n])
  BY Zenon
<1>4. Flying(items, pipes, boxes) = (held \cup piped) \cup boxed
  BY Zenon DEF Flying
<1>. HIDE DEF held, piped, boxed
<1>. QED
  BY <1>1, <1>2, <1>3, <1>4, Zenon

(* The same for the state and the next state *)
LEMMA InFlightMembers ==
    ASSUME NEW m
    PROVE  /\ m \in InFlight <=>
                  \/ \E c \in Callers : item[c] # None /\ m = item[c]
                  \/ \E k \in Conns : m \in Range(up[k])
                  \/ \E n \in Nodes : m \in Range(inbox[n])
           /\ m \in InFlight' <=>
                  \/ \E c \in Callers : item'[c] # None /\ m = item'[c]
                  \/ \E k \in Conns : m \in Range(up'[k])
                  \/ \E n \in Nodes : m \in Range(inbox'[n])
  BY FlyingMembers, Zenon DEF InFlight

(* Steps that only drop messages: a call that ends without writing its       *)
(* message, a handler that ends with frames unread                           *)
LEMMA DropStep ==
    ASSUME OnePlace,
           UNCHANGED <<inbox, sends, sent>>,
           \A c \in Callers : item'[c] = None \/ (item'[c] = item[c] /\ peer'[c] = peer[c]),
           \A k \in Conns : up'[k] = <<>> \/ (up'[k] = up[k] /\ ends'[k] = ends[k])
    PROVE  OnePlace' /\ InFlight' \in SUBSET InFlight
<1>1. \A c \in Callers : item'[c] # None => item'[c] = item[c] /\ peer'[c] = peer[c]
  BY Zenon
<1>2. \A k \in Conns : Range(up'[k]) \subseteq Range(up[k])
  BY EmptyInjective, Zenon
<1>3. \A k \in Conns : IsInjective(up'[k])
  BY EmptyInjective, Zenon DEF OnePlace
<1>4. \A k \in Conns : Range(up'[k]) # {} => ServerOf(k)' = ServerOf(k)
  BY EmptyInjective, Zenon DEF ServerOf
<1>5. ASSUME NEW c \in Callers, item'[c] # None
      PROVE  /\ item'[c] \in sent'
             /\ item'[c].to = peer'[c]
             /\ \A d \in Callers \ {c} : item'[d] # item'[c]
             /\ \A k \in Conns : item'[c] \notin Range(up'[k])
             /\ \A n \in Nodes : item'[c] \notin Range(inbox'[n])
  <2>1. item[c] # None /\ item'[c] = item[c] /\ peer'[c] = peer[c]
    BY <1>1, <1>5, Zenon
  <2>2. /\ item[c] \in sent
        /\ item[c].to = peer[c]
        /\ \A d \in Callers \ {c} : item[d] # item[c]
        /\ \A k \in Conns : item[c] \notin Range(up[k])
        /\ \A n \in Nodes : item[c] \notin Range(inbox[n])
    BY <2>1, Zenon DEF OnePlace
  <2>3. \A d \in Callers \ {c} : item'[d] # item'[c]
    BY <1>1, <1>5, <2>1, <2>2, Zenon
  <2>. QED
    BY <1>2, <2>1, <2>2, <2>3, Zenon
<1>6. ASSUME NEW k \in Conns, NEW m \in Range(up'[k])
      PROVE  /\ m \in sent'
             /\ m.to = ServerOf(k)'
             /\ \A j \in Conns \ {k} : m \notin Range(up'[j])
             /\ \A n \in Nodes : m \notin Range(inbox'[n])
  <2>1. m \in Range(up[k]) /\ ServerOf(k)' = ServerOf(k)
    BY <1>2, <1>4, Zenon
  <2>2. /\ m \in sent
        /\ m.to = ServerOf(k)
        /\ \A j \in Conns \ {k} : m \notin Range(up[j])
        /\ \A n \in Nodes : m \notin Range(inbox[n])
    BY <2>1, Zenon DEF OnePlace
  <2>. QED
    BY <1>2, <2>1, <2>2, Zenon
<1>7. \A n \in Nodes :
           /\ IsInjective(inbox'[n])
           /\ \A m \in Range(inbox'[n]) : m \in sent' /\ m.to = n
  BY Zenon DEF OnePlace
<1>8. \A m \in sent' : m.id <= sends'
  BY Zenon DEF OnePlace
<1>9. OnePlace'
  BY <1>3, <1>5, <1>6, <1>7, <1>8, Zenon DEF OnePlace
<1>10. ASSUME NEW m \in InFlight' PROVE m \in InFlight
  <2>1. CASE \E c \in Callers : item'[c] # None /\ m = item'[c]
    BY <2>1, <1>1, InFlightMembers, Zenon
  <2>2. CASE \E k \in Conns : m \in Range(up'[k])
    BY <2>2, <1>2, InFlightMembers, Zenon
  <2>3. CASE \E n \in Nodes : m \in Range(inbox'[n])
    BY <2>3, InFlightMembers, Zenon
  <2>. QED
    BY <1>10, <2>1, <2>2, <2>3, InFlightMembers, Zenon
<1>. QED
  BY <1>9, <1>10, Zenon

(* A message that is in no pipe and no inbox is written to connection k, and *)
(* is then with no call.                                                     *)
LEMMA WriteStep ==
    ASSUME Types, OnePlace, NEW k \in Conns, NEW m \in Messages,
           m.to = ServerOf(k), m \in sent',
           \A j \in Conns : m \notin Range(up[j]),
           \A n \in Nodes : m \notin Range(inbox[n]),
           up' = [up EXCEPT ![k] = Append(@, m)],
           sent \subseteq sent', \A h \in sent' : h.id <= sends',
           \A c \in Callers : item'[c] # None =>
               item'[c] # m /\ item'[c] = item[c] /\ peer'[c] = peer[c],
           UNCHANGED <<inbox, ends>>
    PROVE  /\ OnePlace'
           /\ up' \in [Conns -> Seq(Messages)]
           /\ \A h : h \in InFlight' => h \in InFlight \cup {m}
           /\ (\A c \in Callers : item'[c] = item[c]) => InFlight' = InFlight \cup {m}
<1>1. /\ up[k] \in Seq(Messages)
      /\ up'[k] = Append(up[k], m)
      /\ \A j \in Conns \ {k} : up'[j] = up[j]
  BY Zenon DEF Types
<1>2. Append(up[k], m) \in Seq(Messages) /\ Range(up'[k]) = Range(up[k]) \cup {m}
  BY <1>1, AppendMembers
<1>3. IsInjective(up'[k])
  BY <1>1, AppendInjective DEF OnePlace
<1>4. ASSUME NEW c \in Callers, item'[c] # None
      PROVE  /\ item'[c] \in sent'
             /\ item'[c].to = peer'[c]
             /\ \A d \in Callers \ {c} : item'[d] # item'[c]
             /\ \A j \in Conns : item'[c] \notin Range(up'[j])
             /\ \A n \in Nodes : item'[c] \notin Range(inbox'[n])
  <2>1. item[c] # None /\ item'[c] = item[c] /\ peer'[c] = peer[c] /\ item[c] # m
    BY <1>4, Zenon
  <2>2. /\ item[c] \in sent
        /\ item[c].to = peer[c]
        /\ \A d \in Callers \ {c} : item[d] # item[c]
        /\ \A j \in Conns : item[c] \notin Range(up[j])
        /\ \A n \in Nodes : item[c] \notin Range(inbox[n])
    BY <2>1, Zenon DEF OnePlace
  <2>3. \A d \in Callers \ {c} : item'[d] # item'[c]
    BY <1>4, <2>1, <2>2, Zenon
  <2>4. \A j \in Conns : item'[c] \notin Range(up'[j])
    BY <1>1, <1>2, <2>1, <2>2
  <2>. QED
    BY <2>1, <2>2, <2>3, <2>4, Zenon
<1>5. ASSUME NEW j \in Conns, NEW h \in Range(up'[j])
      PROVE  /\ h \in sent'
             /\ h.to = ServerOf(j)'
             /\ \A i \in Conns \ {j} : h \notin Range(up'[i])
             /\ \A n \in Nodes : h \notin Range(inbox'[n])
  <2>1. ServerOf(j)' = ServerOf(j)
    BY Zenon DEF ServerOf
  <2>2. CASE h = m
    <3>1. j = k
      BY <1>1, <2>2, Zenon
    <3>. QED
      BY <1>1, <2>1, <2>2, <3>1, Zenon
  <2>3. CASE h # m
    <3>1. h \in Range(up[j])
      BY <1>1, <1>2, <2>3, Zenon
    <3>2. /\ h \in sent
          /\ h.to = ServerOf(j)
          /\ \A i \in Conns \ {j} : h \notin Range(up[i])
          /\ \A n \in Nodes : h \notin Range(inbox[n])
      BY <3>1, Zenon DEF OnePlace
    <3>. QED
      BY <1>1, <1>2, <2>1, <2>3, <3>2
  <2>. QED
    BY <2>2, <2>3, Zenon
<1>6. \A n \in Nodes :
           /\ IsInjective(inbox'[n])
           /\ \A h \in Range(inbox'[n]) : h \in sent' /\ h.to = n
  BY Zenon DEF OnePlace
<1>7. \A j \in Conns : IsInjective(up'[j])
  BY <1>1, <1>3, Zenon DEF OnePlace
<1>8. OnePlace'
  BY <1>4, <1>5, <1>6, <1>7, Zenon DEF OnePlace
<1>9. up' \in [Conns -> Seq(Messages)]
  BY <1>1, <1>2, Zenon DEF Types
<1>10. \A h : (\E j \in Conns : h \in Range(up'[j])) <=>
              (\E j \in Conns : h \in Range(up[j])) \/ h = m
  BY <1>1, <1>2, Zenon
<1>11. ASSUME NEW h PROVE h \in InFlight' => h \in InFlight \cup {m}
  <2>1. h \in InFlight' <=>
            \/ \E c \in Callers : item'[c] # None /\ h = item'[c]
            \/ \E j \in Conns : h \in Range(up'[j])
            \/ \E n \in Nodes : h \in Range(inbox'[n])
    BY InFlightMembers, Zenon
  <2>2. h \in InFlight <=>
            \/ \E c \in Callers : item[c] # None /\ h = item[c]
            \/ \E j \in Conns : h \in Range(up[j])
            \/ \E n \in Nodes : h \in Range(inbox[n])
    BY InFlightMembers, Zenon
  <2>3. (\E c \in Callers : item'[c] # None /\ h = item'[c])
            => \E c \in Callers : item[c] # None /\ h = item[c]
    BY Zenon
  <2>4. (\E n \in Nodes : h \in Range(inbox'[n])) <=> \E n \in Nodes : h \in Range(inbox[n])
    BY Zenon
  <2>5. (\E j \in Conns : h \in Range(up'[j])) <=>
            (\E j \in Conns : h \in Range(up[j])) \/ h = m
    BY <1>10, Zenon
  <2>6. h \in InFlight \cup {m} <=> h \in InFlight \/ h = m
    BY Zenon
  <2>. QED
    BY <2>1, <2>2, <2>3, <2>4, <2>5, <2>6, Zenon
<1>12. ASSUME \A c \in Callers : item'[c] = item[c], NEW h
       PROVE  h \in InFlight' <=> h \in InFlight \cup {m}
  <2>1. h \in InFlight' <=>
            \/ \E c \in Callers : item'[c] # None /\ h = item'[c]
            \/ \E j \in Conns : h \in Range(up'[j])
            \/ \E n \in Nodes : h \in Range(inbox'[n])
    BY InFlightMembers, Zenon
  <2>2. h \in InFlight <=>
            \/ \E c \in Callers : item[c] # None /\ h = item[c]
            \/ \E j \in Conns : h \in Range(up[j])
            \/ \E n \in Nodes : h \in Range(inbox[n])
    BY InFlightMembers, Zenon
  <2>3. (\E c \in Callers : item'[c] # None /\ h = item'[c])
            <=> \E c \in Callers : item[c] # None /\ h = item[c]
    BY <1>12, Zenon
  <2>4. (\E n \in Nodes : h \in Range(inbox'[n])) <=> \E n \in Nodes : h \in Range(inbox[n])
    BY Zenon
  <2>5. (\E j \in Conns : h \in Range(up'[j])) <=>
            (\E j \in Conns : h \in Range(up[j])) \/ h = m
    BY <1>10, Zenon
  <2>6. h \in InFlight \cup {m} <=> h \in InFlight \/ h = m
    BY Zenon
  <2>. QED
    BY <2>1, <2>2, <2>3, <2>4, <2>5, <2>6, Zenon
<1>. QED
  BY <1>8, <1>9, <1>11, <1>12, Zenon

-----------------------------------------------------------------------------

(* The message that send makes is new. *)
LEMMA FreshMessage ==
    ASSUME IInv, NEW n \in Nodes, NEW p \in Nodes, sends < MaxSends,
           NEW m, m = [id |-> sends + 1, from |-> n, to |-> p]
    PROVE  /\ m \in Messages /\ m # None /\ m \notin sent /\ m.to = p
           /\ \A h \in sent \cup {m} : h.id <= sends + 1
           /\ \A c \in Callers : item[c] # m
           /\ \A k \in Conns : m \notin Range(up[k])
           /\ \A b \in Nodes : m \notin Range(inbox[b])
<1>1. m \in Messages
  BY TcpAssumption DEF IInv, Types, Messages
<1>2. m.id = sends + 1 /\ m.to = p
  BY Zenon
<1>3. \A h \in sent : h.id \in Nat /\ h.id <= sends
  BY DEF IInv, Types, OnePlace, Messages
<1>4. sends \in Nat
  BY Zenon DEF IInv, Types
<1>5. m \notin sent /\ \A h \in sent \cup {m} : h.id <= sends + 1
  BY <1>2, <1>3, <1>4
<1>6. m # None
  BY <1>2, <1>4, Zenon DEF None
<1>7. /\ \A c \in Callers : item[c] # m
      /\ \A k \in Conns : m \notin Range(up[k])
      /\ \A b \in Nodes : m \notin Range(inbox[b])
  BY <1>5, <1>6 DEF IInv, OnePlace
<1>. QED
  BY <1>1, <1>2, <1>5, <1>6, <1>7, Zenon

(* send on a connection of the table *)
LEMMA CallWrites ==
    ASSUME IInv, NEW c \in Callers, NEW p \in Nodes,
           NEW k \in Conns, k = table[Owner[c]][p],
           NEW m \in Messages, m # None, m.to = p,
           \A d \in Callers : item[d] # m,
           \A j \in Conns : m \notin Range(up[j]),
           \A b \in Nodes : m \notin Range(inbox[b]),
           sent' = sent \cup {m}, sends' \in Nat, \A h \in sent' : h.id <= sends',
           pc[c] = "idle",
           WriteFrame(c, k, m), peer' = [peer EXCEPT ![c] = p],
           UNCHANGED <<table, dials, ends, server, inbox, received>>
    PROVE  IInv' /\ InFlight' \in {InFlight, InFlight \cup {m}}
<1>1. Owner[c] \in Nodes
  BY TcpAssumption, Zenon
<1>3. k \in 1..dials /\ ServerOf(k) = p
  BY <1>1 DEF IInv, Wiring, ServerOf, Conns
<1>4. /\ pc' = [pc EXCEPT ![c] = "drain"]
      /\ item' = [item EXCEPT ![c] = None]
      /\ link' = [link EXCEPT ![c] = k]
      /\ up' = up \/ up' = [up EXCEPT ![k] = Append(@, m)]
  BY Zenon DEF WriteFrame
<1>5. item[c] = None
  BY Zenon DEF IInv, Wiring
<1>6. \A d \in Callers : item'[d] = item[d] /\ (item'[d] # None => peer'[d] = peer[d])
  BY <1>4, <1>5, Zenon DEF IInv, Types
<1>7. up' \in [Conns -> Seq(Messages)] /\ OnePlace' /\ InFlight' \in {InFlight, InFlight \cup {m}}
  <2>1. CASE up' = up
    <3>1. OnePlace'
      BY <2>1, <1>6 DEF IInv, OnePlace, ServerOf
    <3>2. ASSUME NEW h PROVE h \in InFlight' <=> h \in InFlight
      <4>1. (\E d \in Callers : item'[d] # None /\ h = item'[d])
                <=> \E d \in Callers : item[d] # None /\ h = item[d]
        BY <1>6, Zenon
      <4>. QED
        BY <2>1, <4>1, InFlightMembers, Zenon
    <3>. QED
      BY <2>1, <3>1, <3>2, Zenon DEF IInv, Types
  <2>2. CASE up' = [up EXCEPT ![k] = Append(@, m)]
    <3>1. m \in sent' /\ sent \subseteq sent' /\ UNCHANGED <<inbox, ends>>
      BY Zenon
    <3>2. Types /\ OnePlace
      BY Zenon DEF IInv
    <3>3. \A d \in Callers : item'[d] # None =>
              item'[d] # m /\ item'[d] = item[d] /\ peer'[d] = peer[d]
      BY <1>6, Zenon
    <3>4. m.to = ServerOf(k)
      BY <1>3, Zenon
    <3>5. /\ OnePlace' /\ up' \in [Conns -> Seq(Messages)]
          /\ (\A d \in Callers : item'[d] = item[d]) => InFlight' = InFlight \cup {m}
      BY <2>2, <3>1, <3>2, <3>3, <3>4, WriteStep, Zenon
    <3>. QED
      BY <3>5, <1>6, Zenon
  <2>. QED
    BY <2>1, <2>2, <1>4, Zenon
<1>8. Types'
  <2>1. k \in 0..MaxDials
    BY <1>3 DEF Conns
  <2>2. /\ pc' \in [Callers -> {"idle", "dial", "hello", "drain", "shut"}]
        /\ peer' \in [Callers -> Nodes]
        /\ item' \in [Callers -> Messages \cup {None}]
        /\ link' \in [Callers -> 0..MaxDials]
    BY <1>4, <2>1, Zenon DEF IInv, Types
  <2>3. sends' \in Nat /\ sent' \subseteq Messages
    BY Zenon DEF IInv, Types
  <2>. QED
    BY <1>7, <2>2, <2>3, Zenon DEF IInv, Types
<1>9. Wiring'
  <2>1. \A j \in Conns : j > dials' => server'[j] = "none" /\ up'[j] = <<>>
    <3>1. \A j \in Conns : j > dials => j # k
      BY <1>3 DEF IInv, Types
    <3>2. \A j \in Conns : j # k => up'[j] = up[j]
      BY <1>4, Zenon DEF IInv, Types
    <3>. QED
      BY <3>1, <3>2, Zenon DEF IInv, Wiring
  <2>2. \A d \in Callers : pc'[d] = "hello" =>
           link'[d] \in 1..dials' /\ ends'[link'[d]] = <<Owner[d], peer'[d]>>
    BY <1>4, Zenon DEF IInv, Wiring, Types
  <2>3. \A d \in Callers : pc'[d] \in {"dial", "hello"} <=> item'[d] # None
    BY <1>4, Zenon DEF IInv, Wiring, Types
  <2>. QED
    BY <2>1, <2>2, <2>3 DEF IInv, Wiring
<1>. QED
  BY <1>7, <1>8, <1>9, Zenon DEF IInv

(* send that has to dial: the message stays with its call *)
LEMMA CallDials ==
    ASSUME IInv, NEW c \in Callers, NEW p \in Nodes,
           NEW m \in Messages, m # None, m.to = p,
           \A d \in Callers : item[d] # m,
           \A j \in Conns : m \notin Range(up[j]),
           \A b \in Nodes : m \notin Range(inbox[b]),
           sent' = sent \cup {m}, sends' \in Nat, \A h \in sent' : h.id <= sends',
           pc[c] = "idle",
           pc' = [pc EXCEPT ![c] = "dial"],
           peer' = [peer EXCEPT ![c] = p],
           item' = [item EXCEPT ![c] = m],
           UNCHANGED <<link, table, dials, ends, server, up, inbox, received>>
    PROVE  IInv' /\ InFlight' = InFlight \cup {m}
<1>1. item[c] = None /\ item'[c] = m /\ peer'[c] = p
  BY Zenon DEF IInv, Wiring, Types
<1>2. \A d \in Callers \ {c} : item'[d] = item[d] /\ peer'[d] = peer[d] /\ pc'[d] = pc[d]
  BY Zenon DEF IInv, Types
<1>3. Types'
  BY Zenon DEF IInv, Types
<1>4. Wiring'
  <2>1. \A d \in Callers : pc'[d] = "hello" =>
           link'[d] \in 1..dials' /\ ends'[link'[d]] = <<Owner[d], peer'[d]>>
    BY Zenon DEF IInv, Wiring, Types
  <2>2. \A d \in Callers : pc'[d] \in {"dial", "hello"} <=> item'[d] # None
    BY Zenon DEF IInv, Wiring, Types
  <2>. QED
    BY <2>1, <2>2 DEF IInv, Wiring
<1>5. ASSUME NEW d \in Callers, item'[d] # None
      PROVE  /\ item'[d] \in sent'
             /\ item'[d].to = peer'[d]
             /\ \A e \in Callers \ {d} : item'[e] # item'[d]
             /\ \A k \in Conns : item'[d] \notin Range(up'[k])
             /\ \A n \in Nodes : item'[d] \notin Range(inbox'[n])
  <2>1. CASE d = c
    BY <1>1, <1>2, <2>1
  <2>2. CASE d # c
    <3>1. item'[d] = item[d] /\ peer'[d] = peer[d]
      BY <1>2, <2>2, Zenon
    <3>2. /\ item[d] \in sent
          /\ item[d].to = peer[d]
          /\ \A e \in Callers \ {d} : item[e] # item[d]
          /\ \A k \in Conns : item[d] \notin Range(up[k])
          /\ \A n \in Nodes : item[d] \notin Range(inbox[n])
      BY <1>5, <3>1, Zenon DEF IInv, OnePlace
    <3>. QED
      BY <1>1, <1>2, <3>1, <3>2
  <2>. QED
    BY <2>1, <2>2, Zenon
<1>6. OnePlace'
  <2>1. /\ \A k \in Conns :
           /\ IsInjective(up'[k])
           /\ \A h \in Range(up'[k]) :
                  /\ h \in sent'
                  /\ h.to = ServerOf(k)'
                  /\ \A j \in Conns \ {k} : h \notin Range(up'[j])
                  /\ \A n \in Nodes : h \notin Range(inbox'[n])
        /\ \A n \in Nodes :
           /\ IsInjective(inbox'[n])
           /\ \A h \in Range(inbox'[n]) : h \in sent' /\ h.to = n
    BY DEF IInv, OnePlace, ServerOf
  <2>. QED
    BY <1>5, <2>1, Zenon DEF OnePlace
<1>7. ASSUME NEW h PROVE h \in InFlight' <=> h \in InFlight \cup {m}
  <2>1. (\E d \in Callers : item'[d] # None /\ h = item'[d])
            <=> (\E d \in Callers : item[d] # None /\ h = item[d]) \/ h = m
    BY <1>1, <1>2
  <2>2. h \in InFlight \cup {m} <=> h \in InFlight \/ h = m
    BY Zenon
  <2>3. /\ (\E k \in Conns : h \in Range(up'[k])) <=> \E k \in Conns : h \in Range(up[k])
        /\ (\E n \in Nodes : h \in Range(inbox'[n])) <=> \E n \in Nodes : h \in Range(inbox[n])
    BY Zenon
  <2>. QED
    BY <2>1, <2>2, <2>3, InFlightMembers, Zenon
<1>. QED
  BY <1>3, <1>4, <1>6, <1>7, Zenon DEF IInv

(* send up to its first await is a Send of the abstract network. *)
LEMMA CallStep ==
    ASSUME IInv, NEW c \in Callers, NEW p \in Nodes, Call(c, p)
    PROVE  IInv' /\ \E m \in Messages : Net!Send(m)
<1>. DEFINE n == Owner[c]
            k == table[n][p]
<1>0. PICK m : m = [id |-> sends + 1, from |-> n, to |-> p]
  BY Zenon
<1>1. n \in Nodes /\ sends < MaxSends /\ pc[c] = "idle" /\ sends \in Nat /\ sends + 1 \in Nat
  <2>1. n \in Nodes /\ sends < MaxSends /\ pc[c] = "idle"
    BY TcpAssumption, Zenon DEF Call
  <2>2. sends \in Nat
    BY Zenon DEF IInv, Types
  <2>3. sends + 1 \in Nat
    BY <2>2
  <2>. QED
    BY <2>1, <2>2, <2>3, Zenon
<1>2. /\ m \in Messages /\ m # None /\ m \notin sent /\ m.to = p
      /\ \A h \in sent \cup {m} : h.id <= sends + 1
      /\ \A d \in Callers : item[d] # m
      /\ \A j \in Conns : m \notin Range(up[j])
      /\ \A b \in Nodes : m \notin Range(inbox[b])
  <2>1. n \in Nodes /\ p \in Nodes /\ sends < MaxSends /\ IInv
    BY <1>1, Zenon
  <2>. HIDE DEF n
  <2>. QED
    BY <1>0, <2>1, FreshMessage
<1>3. /\ sends' = sends + 1 /\ sent' = sent \cup {m}
      /\ UNCHANGED <<table, dials, ends, server, inbox, received>>
  BY <1>0, Zenon DEF Call
<1>4. \/ /\ k # 0 /\ WriteFrame(c, k, m) /\ peer' = [peer EXCEPT ![c] = p]
      \/ /\ pc' = [pc EXCEPT ![c] = "dial"]
         /\ peer' = [peer EXCEPT ![c] = p]
         /\ item' = [item EXCEPT ![c] = m]
         /\ UNCHANGED <<link, up>>
      \/ UNCHANGED <<callVars, up>>
  BY <1>0, Zenon DEF Call
<1>5. k \in 0..MaxDials
  BY <1>1 DEF IInv, Types
<1>6. sends' \in Nat /\ \A h \in sent' : h.id <= sends'
  BY <1>1, <1>2, <1>3, Zenon
<1>7. IInv' /\ InFlight' \in {InFlight, InFlight \cup {m}}
  <2>1. CASE k # 0 /\ WriteFrame(c, k, m) /\ peer' = [peer EXCEPT ![c] = p]
    <3>1. k \in Conns
      BY <1>5, <2>1, TcpAssumption DEF Conns
    <3>. QED
      BY <1>1, <1>2, <1>3, <1>6, <2>1, <3>1, CallWrites, Zenon
  <2>2. CASE /\ pc' = [pc EXCEPT ![c] = "dial"]
             /\ peer' = [peer EXCEPT ![c] = p]
             /\ item' = [item EXCEPT ![c] = m]
             /\ UNCHANGED <<link, up>>
    BY <1>1, <1>2, <1>3, <1>6, <2>2, CallDials, Zenon
  <2>3. CASE UNCHANGED <<callVars, up>>
    <3>1. UNCHANGED <<pc, peer, item, link, up>>
      BY <2>3, Zenon DEF callVars
    <3>2. Types'
      BY <1>2, <1>3, <1>6, <3>1, Zenon DEF IInv, Types
    <3>3. Wiring'
      BY <1>3, <3>1, Zenon DEF IInv, Wiring
    <3>4. OnePlace'
      BY <1>3, <1>6, <3>1 DEF IInv, OnePlace, ServerOf
    <3>5. InFlight' = InFlight
      BY <1>3, <3>1, Zenon DEF InFlight, Flying
    <3>. QED
      BY <3>2, <3>3, <3>4, <3>5, Zenon DEF IInv
  <2>. QED
    BY <1>4, <2>1, <2>2, <2>3, Zenon
<1>. QED
  BY <1>2, <1>3, <1>7, Zenon DEF Net!Send

(* The end of _get_or_connect: the message goes from its call to the new     *)
(* connection, which leads to its addressee.                                 *)
LEMMA HandshakeStep ==
    ASSUME IInv, NEW c \in Callers, Handshake(c)
    PROVE  IInv' /\ Net!Lose
<1>. DEFINE n == Owner[c]
            k == link[c]
            m == item[c]
<1>1. /\ pc[c] = "hello"
      /\ table' = [table EXCEPT ![n][peer[c]] = k]
      /\ pc' = [pc EXCEPT ![c] = "drain"]
      /\ item' = [item EXCEPT ![c] = None]
      /\ link' = [link EXCEPT ![c] = k]
      /\ up' = up \/ up' = [up EXCEPT ![k] = Append(@, m)]
      /\ UNCHANGED <<peer, dials, ends, server, inbox, sends, sent, received>>
  BY Zenon DEF Handshake, WriteFrame, histVars
<1>2. /\ k \in 1..dials /\ k \in Conns /\ ends[k] = <<n, peer[c]>>
      /\ n \in Nodes /\ peer[c] \in Nodes /\ m # None /\ m \in Messages
  <2>1. k \in 1..dials /\ ends[k] = <<n, peer[c]>> /\ m # None
    BY <1>1, Zenon DEF IInv, Wiring
  <2>2. k \in Conns
    BY <2>1, TcpAssumption DEF IInv, Types, Conns
  <2>3. n \in Nodes /\ peer[c] \in Nodes /\ m \in Messages
    BY <2>1, TcpAssumption DEF IInv, Types
  <2>. QED
    BY <2>1, <2>2, <2>3, Zenon
<1>3. ServerOf(k) = peer[c]
  BY <1>2 DEF ServerOf
<1>4. /\ m \in sent /\ m.to = peer[c]
      /\ \A d \in Callers \ {c} : item[d] # m
      /\ \A j \in Conns : m \notin Range(up[j])
      /\ \A b \in Nodes : m \notin Range(inbox[b])
  BY <1>2, Zenon DEF IInv, OnePlace
<1>5. \A d \in Callers : item'[d] # None => d # c /\ item'[d] = item[d]
  BY <1>1, Zenon DEF IInv, Types
<1>6. up' \in [Conns -> Seq(Messages)] /\ OnePlace' /\ InFlight' \in SUBSET InFlight
  <2>1. CASE up' = up
    <3>1. /\ OnePlace
          /\ UNCHANGED <<inbox, sends, sent>>
          /\ \A d \in Callers : item'[d] = None \/ (item'[d] = item[d] /\ peer'[d] = peer[d])
          /\ \A j \in Conns : up'[j] = <<>> \/ (up'[j] = up[j] /\ ends'[j] = ends[j])
      BY <1>1, <1>5, <2>1, Zenon DEF IInv
    <3>2. OnePlace' /\ InFlight' \in SUBSET InFlight
      BY <3>1, DropStep, Zenon
    <3>. QED
      BY <2>1, <3>2, Zenon DEF IInv, Types
  <2>2. CASE up' = [up EXCEPT ![k] = Append(@, m)]
    <3>1. m \in sent' /\ sent \subseteq sent' /\ UNCHANGED <<inbox, ends>>
      BY <1>1, <1>4, Zenon
    <3>2. Types /\ OnePlace
      BY Zenon DEF IInv
    <3>3. \A d \in Callers : item'[d] # None =>
              item'[d] # m /\ item'[d] = item[d] /\ peer'[d] = peer[d]
      BY <1>1, <1>4, <1>5, Zenon
    <3>4. \A h \in sent' : h.id <= sends'
      BY <1>1, Zenon DEF IInv, OnePlace
    <3>5. m \in InFlight
      BY <1>2, InFlightMembers, Zenon
    <3>6. m.to = ServerOf(k)
      BY <1>3, <1>4, Zenon
    <3>. HIDE DEF m, k
    <3>7. /\ OnePlace' /\ up' \in [Conns -> Seq(Messages)]
          /\ \A h : h \in InFlight' => h \in InFlight \cup {m}
      BY <1>2, <1>4, <2>2, <3>1, <3>2, <3>3, <3>4, <3>6, WriteStep, Zenon
    <3>. QED
      BY <3>5, <3>7, Zenon
  <2>. QED
    BY <1>1, <2>1, <2>2, Zenon
<1>7. Types'
  BY <1>1, <1>2, <1>6, Zenon DEF IInv, Types
<1>8. Wiring'
  <2>1. \A j \in Conns : j > dials' => server'[j] = "none" /\ up'[j] = <<>>
    <3>1. \A j \in Conns : j > dials => j # k
      BY <1>2 DEF IInv, Types
    <3>2. \A j \in Conns : j # k => up'[j] = up[j]
      BY <1>1, Zenon DEF IInv, Types
    <3>. QED
      BY <1>1, <3>1, <3>2, Zenon DEF IInv, Wiring
  <2>2. \A d \in Callers : pc'[d] = "hello" =>
           link'[d] \in 1..dials' /\ ends'[link'[d]] = <<Owner[d], peer'[d]>>
    BY <1>1 DEF IInv, Wiring, Types
  <2>3. \A d \in Callers : pc'[d] \in {"dial", "hello"} <=> item'[d] # None
    BY <1>1, Zenon DEF IInv, Wiring, Types
  <2>4. \A a, b \in Nodes : table'[a][b] # 0 =>
            table'[a][b] \in 1..dials' /\ ends'[table'[a][b]] = <<a, b>>
    <3>1. \A a, b \in Nodes :
              table'[a][b] = IF a = n /\ b = peer[c] THEN k ELSE table[a][b]
      BY <1>1, <1>2, Zenon DEF IInv, Types
    <3>2. \A a, b \in Nodes : table[a][b] # 0 =>
              table[a][b] \in 1..dials /\ ends[table[a][b]] = <<a, b>>
      BY Zenon DEF IInv, Wiring
    <3>3. k \in 1..dials /\ ends[k] = <<n, peer[c]>> /\ UNCHANGED <<dials, ends>>
      BY <1>1, <1>2, Zenon
    <3>. HIDE DEF n, k
    <3>4. TAKE a \in Nodes, b \in Nodes
    <3>5. CASE a = n /\ b = peer[c]
      BY <3>1, <3>3, <3>5, Zenon
    <3>6. CASE ~ (a = n /\ b = peer[c])
      <4>1. table'[a][b] = table[a][b]
        BY <3>1, <3>6, Zenon
      <4>2. dials' = dials /\ ends' = ends
        BY <3>3, Zenon
      <4>. QED
        BY <3>2, <4>1, <4>2, Zenon
    <3>. QED
      BY <3>5, <3>6, Zenon
  <2>. QED
    BY <1>1, <2>1, <2>2, <2>3, <2>4, Zenon DEF IInv, Wiring
<1>. QED
  BY <1>1, <1>6, <1>7, <1>8, Zenon DEF IInv, Net!Lose

-----------------------------------------------------------------------------
(* Steps of the server, of the receiver and of the callers that wait *)

(* _handle_client: the first frame of a pipe goes to the inbox of the server *)
(* or is dropped.                                                            *)
LEMMA ServeStep ==
    ASSUME IInv, NEW k \in Conns, Serve(k)
    PROVE  IInv' /\ Net!Lose
<1>. DEFINE n == ServerOf(k)
            m == Head(up[k])
<1>1. /\ server[k] = "serving" /\ up[k] # <<>>
      /\ UNCHANGED <<pc, peer, item, link, table, dials, ends, sends, sent, received>>
      /\ \/ up' = [up EXCEPT ![k] = <<>>] /\ server' = [server EXCEPT ![k] = "ended"]
         \/ up' = [up EXCEPT ![k] = Tail(@)] /\ server' = server
      /\ inbox' = inbox \/ inbox' = [inbox EXCEPT ![n] = Append(@, m)]
  BY Zenon DEF Serve, EndHandler, callVars, histVars
<1>2. k <= dials /\ n \in Nodes
  <2>1. k <= dials
    BY <1>1 DEF IInv, Wiring, Types, Conns
  <2>. QED
    BY <2>1, Zenon DEF IInv, Wiring, ServerOf
<1>3. /\ up[k] \in Seq(Messages) /\ inbox[n] \in Seq(Messages)
      /\ IsInjective(up[k]) /\ IsInjective(inbox[n])
  BY <1>2, Zenon DEF IInv, Types, OnePlace
<1>4. /\ IsInjective(Tail(up[k])) /\ Tail(up[k]) \in Seq(Messages)
      /\ m \in Range(up[k]) /\ m \in Messages
      /\ Range(Tail(up[k])) = Range(up[k]) \ {m}
  BY <1>1, <1>3, TailInjective, TailMembers, Zenon
<1>5. /\ \A j \in Conns \ {k} : up'[j] = up[j]
      /\ up'[k] = <<>> \/ up'[k] = Tail(up[k])
  BY <1>1, Zenon DEF IInv, Types
<1>6. /\ up'[k] \in Seq(Messages) /\ IsInjective(up'[k])
      /\ Range(up'[k]) \subseteq Range(up[k]) \ {m}
  BY <1>4, <1>5, EmptyInjective, Zenon
<1>7. /\ m \in sent /\ m.to = n
      /\ \A j \in Conns \ {k} : m \notin Range(up[j])
      /\ \A b \in Nodes : m \notin Range(inbox[b])
      /\ \A c \in Callers : item[c] # None => item[c] # m
  <2>1. ServerOf(k) = n /\ m \in Range(up[k])
    BY <1>4, Zenon
  <2>. HIDE DEF m, n
  <2>2. /\ m \in sent /\ m.to = n
        /\ \A j \in Conns \ {k} : m \notin Range(up[j])
        /\ \A b \in Nodes : m \notin Range(inbox[b])
    BY <2>1, Zenon DEF IInv, OnePlace
  <2>3. \A c \in Callers : item[c] # None => item[c] # m
    BY <2>1 DEF IInv, OnePlace
  <2>. QED
    BY <2>2, <2>3, Zenon
<1>8. Append(inbox[n], m) \in Seq(Messages) /\ IsInjective(Append(inbox[n], m))
      /\ Range(Append(inbox[n], m)) = Range(inbox[n]) \cup {m}
  BY <1>2, <1>3, <1>4, <1>7, AppendInjective, AppendMembers
<1>9. /\ \A b \in Nodes \ {n} : inbox'[b] = inbox[b]
      /\ inbox'[n] = inbox[n] \/ inbox'[n] = Append(inbox[n], m)
  BY <1>1, <1>2, Zenon DEF IInv, Types
<1>10. /\ inbox'[n] \in Seq(Messages) /\ IsInjective(inbox'[n])
       /\ Range(inbox'[n]) \subseteq Range(inbox[n]) \cup {m}
  BY <1>3, <1>8, <1>9, Zenon
<1>11. \A j \in Conns : m \notin Range(up'[j])
  BY <1>5, <1>6, <1>7, Zenon
<1>12. \A j \in Conns : Range(up'[j]) \subseteq Range(up[j])
  BY <1>5, <1>6, Zenon
<1>13. \A b \in Nodes : \A h \in Range(inbox'[b]) : h \in Range(inbox[b]) \/ (h = m /\ b = n)
  BY <1>9, <1>10, Zenon
<1>14. Types'
  <2>1. up' \in [Conns -> Seq(Messages)]
    BY <1>1, <1>6, Zenon DEF IInv, Types
  <2>2. inbox' \in [Nodes -> Seq(Messages)]
    BY <1>1, <1>2, <1>10, Zenon DEF IInv, Types
  <2>. QED
    BY <1>1, <2>1, <2>2, Zenon DEF IInv, Types
<1>15. Wiring'
  <2>1. \A j \in Conns : j > dials' => server'[j] = "none" /\ up'[j] = <<>>
    <3>1. \A j \in Conns : j > dials => j # k
      BY <1>2 DEF IInv, Types, Conns
    <3>2. \A j \in Conns : j # k => up'[j] = up[j] /\ (server[j] = "none" => server'[j] = "none")
      <4>1. server' = server \/ server' = [server EXCEPT ![k] = "ended"]
        BY <1>1, Zenon
      <4>. QED
        BY <1>5, <4>1, Zenon DEF IInv, Types
    <3>. QED
      BY <1>1, <3>1, <3>2, Zenon DEF IInv, Wiring
  <2>. QED
    BY <1>1, <2>1, Zenon DEF IInv, Wiring
<1>. HIDE DEF m, n
<1>16. OnePlace'
  <2>1. \A c \in Callers : item'[c] # None =>
           /\ item'[c] \in sent'
           /\ item'[c].to = peer'[c]
           /\ \A d \in Callers \ {c} : item'[d] # item'[c]
           /\ \A j \in Conns : item'[c] \notin Range(up'[j])
           /\ \A b \in Nodes : item'[c] \notin Range(inbox'[b])
    <3>1. \A c \in Callers : item[c] # None =>
              /\ item[c] \in sent /\ item[c].to = peer[c] /\ item[c] # m
              /\ \A d \in Callers \ {c} : item[d] # item[c]
              /\ \A j \in Conns : item[c] \notin Range(up[j])
              /\ \A b \in Nodes : item[c] \notin Range(inbox[b])
      BY <1>7, Zenon DEF IInv, OnePlace
    <3>. QED
      BY <1>1, <1>12, <1>13, <3>1, Zenon
  <2>2. ASSUME NEW j \in Conns, NEW h \in Range(up'[j])
        PROVE  /\ h \in sent'
               /\ h.to = ServerOf(j)'
               /\ \A i \in Conns \ {j} : h \notin Range(up'[i])
               /\ \A b \in Nodes : h \notin Range(inbox'[b])
    <3>1. h \in Range(up[j]) /\ h # m
      BY <1>11, <1>12, Zenon
    <3>2. /\ h \in sent
          /\ h.to = ServerOf(j)
          /\ \A i \in Conns \ {j} : h \notin Range(up[i])
          /\ \A b \in Nodes : h \notin Range(inbox[b])
      BY <3>1, Zenon DEF IInv, OnePlace
    <3>3. ServerOf(j)' = ServerOf(j)
      BY <1>1, Zenon DEF ServerOf
    <3>. QED
      BY <1>1, <1>12, <1>13, <3>1, <3>2, <3>3, Zenon
  <2>3. \A j \in Conns : IsInjective(up'[j])
    BY <1>5, <1>6, Zenon DEF IInv, OnePlace
  <2>4. \A b \in Nodes :
           /\ IsInjective(inbox'[b])
           /\ \A h \in Range(inbox'[b]) : h \in sent' /\ h.to = b
    <3>1. \A b \in Nodes : /\ IsInjective(inbox[b])
                            /\ \A h \in Range(inbox[b]) : h \in sent /\ h.to = b
      BY Zenon DEF IInv, OnePlace
    <3>2. m \in sent /\ m.to = n /\ sent' = sent
      BY <1>1, <1>7, Zenon
    <3>3. \A b \in Nodes : IsInjective(inbox'[b])
      BY <1>9, <1>10, <3>1, Zenon
    <3>4. \A b \in Nodes : \A h \in Range(inbox'[b]) : h \in sent' /\ h.to = b
      BY <1>13, <3>1, <3>2, Zenon
    <3>. QED
      BY <3>3, <3>4, Zenon
  <2>5. \A h \in sent' : h.id <= sends'
    BY <1>1, Zenon DEF IInv, OnePlace
  <2>. QED
    BY <2>1, <2>2, <2>3, <2>4, <2>5, Zenon DEF OnePlace
<1>17. ASSUME NEW h \in InFlight' PROVE h \in InFlight
  <2>1. CASE \E c \in Callers : item'[c] # None /\ h = item'[c]
    BY <1>1, <2>1, InFlightMembers, Zenon
  <2>2. CASE \E j \in Conns : h \in Range(up'[j])
    BY <1>12, <2>2, InFlightMembers, Zenon
  <2>3. CASE \E b \in Nodes : h \in Range(inbox'[b])
    <3>1. (\E b \in Nodes : h \in Range(inbox[b])) \/ h \in Range(up[k])
      BY <1>4, <1>13, <2>3, Zenon
    <3>. QED
      BY <3>1, InFlightMembers, Zenon
  <2>. QED
    BY <1>17, <2>1, <2>2, <2>3, InFlightMembers, Zenon
<1>. QED
  BY <1>1, <1>14, <1>15, <1>16, <1>17, Zenon DEF IInv, Net!Lose

(* recv hands the head of the inbox to the node it was sent to. *)
LEMMA RecvStep ==
    ASSUME IInv, NEW n \in Nodes, Recv(n)
    PROVE  IInv' /\ \E m \in Messages : Net!Receive(n, m)
<1>. DEFINE m == Head(inbox[n])
<1>1. /\ inbox[n] # <<>>
      /\ inbox[n] \in Seq(Messages) /\ IsInjective(inbox[n])
      /\ received' = [received EXCEPT ![n] = @ \cup {m}]
      /\ inbox' = [inbox EXCEPT ![n] = Tail(inbox[n])]
      /\ UNCHANGED <<pc, peer, item, link, table, dials, ends, server, up, sends, sent>>
  BY Zenon DEF Recv, IInv, Types, OnePlace, callVars, connVars
<1>2. /\ inbox'[n] = Tail(inbox[n])
      /\ \A b \in Nodes \ {n} : inbox'[b] = inbox[b]
  BY <1>1, Zenon DEF IInv, Types
<1>3. /\ IsInjective(inbox'[n]) /\ Tail(inbox[n]) \in Seq(Messages)
      /\ m \in Range(inbox[n]) /\ m \in Messages
      /\ Range(inbox'[n]) = Range(inbox[n]) \ {m}
  BY <1>1, <1>2, TailInjective, TailMembers
<1>4. m.to = n
  BY <1>3, Zenon DEF IInv, OnePlace
<1>5. /\ \A b \in Nodes \ {n} : m \notin Range(inbox[b])
      /\ \A k \in Conns : m \notin Range(up[k])
      /\ \A c \in Callers : item[c] # None => item[c] # m
  BY <1>3, <1>4 DEF IInv, OnePlace
<1>6. Types'
  BY <1>1, <1>3, Zenon DEF IInv, Types
<1>7. Wiring'
  BY <1>1, Zenon DEF IInv, Wiring
<1>. HIDE DEF m
<1>8. \A b \in Nodes : Range(inbox'[b]) \subseteq Range(inbox[b]) /\ IsInjective(inbox'[b])
  BY <1>2, <1>3, Zenon DEF IInv, OnePlace
<1>9. OnePlace'
  <2>1. \A c \in Callers : item'[c] # None =>
           /\ item'[c] \in sent'
           /\ item'[c].to = peer'[c]
           /\ \A d \in Callers \ {c} : item'[d] # item'[c]
           /\ \A j \in Conns : item'[c] \notin Range(up'[j])
           /\ \A b \in Nodes : item'[c] \notin Range(inbox'[b])
    BY <1>1, <1>8, Zenon DEF IInv, OnePlace
  <2>2. \A j \in Conns :
           /\ IsInjective(up'[j])
           /\ \A h \in Range(up'[j]) :
                  /\ h \in sent'
                  /\ h.to = ServerOf(j)'
                  /\ \A i \in Conns \ {j} : h \notin Range(up'[i])
                  /\ \A b \in Nodes : h \notin Range(inbox'[b])
    BY <1>1, <1>8, Zenon DEF IInv, OnePlace, ServerOf
  <2>3. \A b \in Nodes : \A h \in Range(inbox'[b]) : h \in sent' /\ h.to = b
    BY <1>1, <1>8, Zenon DEF IInv, OnePlace
  <2>4. \A h \in sent' : h.id <= sends'
    BY <1>1, Zenon DEF IInv, OnePlace
  <2>. QED
    BY <1>8, <2>1, <2>2, <2>3, <2>4, Zenon DEF OnePlace
<1>10. ASSUME NEW h PROVE h \in InFlight' <=> h \in InFlight /\ h # m
  <2>1. (\E b \in Nodes : h \in Range(inbox'[b]))
            <=> (\E b \in Nodes : h \in Range(inbox[b])) /\ h # m
    BY <1>2, <1>3, <1>5, Zenon
  <2>2. (\E k \in Conns : h \in Range(up'[k]))
            <=> (\E k \in Conns : h \in Range(up[k])) /\ h # m
    BY <1>1, <1>5, Zenon
  <2>3. (\E c \in Callers : item'[c] # None /\ h = item'[c])
            <=> (\E c \in Callers : item[c] # None /\ h = item[c]) /\ h # m
    BY <1>1, <1>5, Zenon
  <2>. QED
    BY <2>1, <2>2, <2>3, InFlightMembers, Zenon
<1>11. InFlight' = InFlight \ {m}
  BY <1>10, Zenon
<1>12. m \in InFlight
  BY <1>3, InFlightMembers, Zenon
<1>. QED
  BY <1>1, <1>3, <1>4, <1>6, <1>7, <1>9, <1>11, <1>12, Zenon DEF IInv, Net!Receive

(* Removing entries of the table *)
Thinner ==
    /\ table' \in [Nodes -> [Nodes -> 0..MaxDials]]
    /\ \A a, b \in Nodes : table'[a][b] = table[a][b] \/ table'[a][b] = 0

(* An entry that is removed leaves the others as they are. *)
LEMMA EntryRemoved ==
    ASSUME IInv, NEW n \in Nodes, NEW p \in Nodes,
           table' = [table EXCEPT ![n][p] = 0]
    PROVE  Thinner
<1>1. table \in [Nodes -> [Nodes -> 0..MaxDials]]
  BY Zenon DEF IInv, Types
<1>2. 0 \in 0..MaxDials
  BY TcpAssumption
<1>3. table' \in [Nodes -> [Nodes -> 0..MaxDials]]
  BY <1>1, <1>2, Zenon
<1>4. \A a, b \in Nodes : table'[a][b] = IF a = n /\ b = p THEN 0 ELSE table[a][b]
  BY <1>1, Zenon
<1>. QED
  BY <1>3, <1>4, Zenon DEF Thinner

(* A call that ends, or goes on to close its writer *)
LEMMA LeaveStep ==
    ASSUME IInv, NEW c \in Callers, NEW place \in {"idle", "shut"}, Leave(c, place),
           Thinner,
           UNCHANGED <<dials, ends, server, up, inbox, sends, sent, received>>
    PROVE  IInv' /\ Net!Lose
<1>1. /\ pc' = [pc EXCEPT ![c] = place]
      /\ peer' = [peer EXCEPT ![c] = Owner[c]]
      /\ item' = [item EXCEPT ![c] = None]
      /\ link' = [link EXCEPT ![c] = 0]
      /\ Owner[c] \in Nodes
  BY TcpAssumption, Zenon DEF Leave
<1>2. \A a, b \in Nodes : table'[a][b] = table[a][b] \/ table'[a][b] = 0
  BY Zenon DEF Thinner
<1>3. Types'
  <2>1. table' \in [Nodes -> [Nodes -> 0..MaxDials]]
    BY Zenon DEF Thinner
  <2>2. link' \in [Callers -> 0..MaxDials]
    BY <1>1, TcpAssumption DEF IInv, Types
  <2>. QED
    BY <1>1, <2>1, <2>2, Zenon DEF IInv, Types
<1>4. Wiring'
  <2>1. \A d \in Callers : pc'[d] = "hello" =>
           link'[d] \in 1..dials' /\ ends'[link'[d]] = <<Owner[d], peer'[d]>>
    BY <1>1, Zenon DEF IInv, Wiring, Types
  <2>2. \A d \in Callers : pc'[d] \in {"dial", "hello"} <=> item'[d] # None
    BY <1>1, Zenon DEF IInv, Wiring, Types
  <2>3. \A a, b \in Nodes : table'[a][b] # 0 =>
            table'[a][b] \in 1..dials' /\ ends'[table'[a][b]] = <<a, b>>
    <3>1. \A a, b \in Nodes : table[a][b] # 0 =>
              table[a][b] \in 1..dials /\ ends[table[a][b]] = <<a, b>>
      BY Zenon DEF IInv, Wiring
    <3>. QED
      BY <1>2, <3>1
  <2>. QED
    BY <2>1, <2>2, <2>3, Zenon DEF IInv, Wiring
<1>5. /\ \A d \in Callers : item'[d] = None \/ (item'[d] = item[d] /\ peer'[d] = peer[d])
      /\ \A k \in Conns : up'[k] = <<>> \/ (up'[k] = up[k] /\ ends'[k] = ends[k])
  BY <1>1, Zenon DEF IInv, Types
<1>6. OnePlace' /\ InFlight' \in SUBSET InFlight
  <2>1. OnePlace /\ UNCHANGED <<inbox, sends, sent>>
    BY Zenon DEF IInv
  <2>. QED
    BY <1>5, <2>1, DropStep, Zenon
<1>. QED
  BY <1>3, <1>4, <1>6, Zenon DEF IInv, Net!Lose

(* A step of a handler that delivers nothing *)
LEMMA HandlerStepDrops ==
    ASSUME IInv, NEW k \in Conns, server[k] # "none",
           NEW place \in {"hello", "serving", "ended"},
           server' = [server EXCEPT ![k] = place],
           up' = up \/ up' = [up EXCEPT ![k] = <<>>],
           UNCHANGED <<pc, peer, item, link, table, dials, ends, inbox, sends, sent, received>>
    PROVE  IInv' /\ Net!Lose
<1>1. \A j \in Conns : up'[j] = <<>> \/ up'[j] = up[j]
  BY Zenon DEF IInv, Types
<1>2. Types'
  <2>1. up \in [Conns -> Seq(Messages)]
    BY Zenon DEF IInv, Types
  <2>2. <<>> \in Seq(Messages)
    BY EmptyInjective, Zenon
  <2>3. [up EXCEPT ![k] = <<>>] \in [Conns -> Seq(Messages)]
    BY <2>1, <2>2, Zenon
  <2>4. up' \in [Conns -> Seq(Messages)]
    BY <2>1, <2>3, Zenon
  <2>. QED
    BY <2>4, Zenon DEF IInv, Types
<1>3. Wiring'
  <2>1. \A j \in Conns : j > dials' => server'[j] = "none" /\ up'[j] = <<>>
    BY <1>1 DEF IInv, Wiring, Types
  <2>. QED
    BY <2>1, Zenon DEF IInv, Wiring
<1>4. OnePlace' /\ InFlight' \in SUBSET InFlight
  <2>1. /\ OnePlace /\ UNCHANGED <<inbox, sends, sent>>
        /\ \A d \in Callers : item'[d] = None \/ (item'[d] = item[d] /\ peer'[d] = peer[d])
        /\ \A j \in Conns : up'[j] = <<>> \/ (up'[j] = up[j] /\ ends'[j] = ends[j])
    BY <1>1, Zenon DEF IInv
  <2>. QED
    BY <2>1, DropStep, Zenon
<1>. QED
  BY <1>2, <1>3, <1>4, Zenon DEF IInv, Net!Lose

(* A connection that is established carries nothing yet. *)
LEMMA DialStep ==
    ASSUME IInv, NEW c \in Callers, DialSucceeds(c)
    PROVE  IInv' /\ Net!Lose
<1>. DEFINE k == dials + 1
<1>1. /\ pc[c] = "dial" /\ dials < MaxDials
      /\ dials' = k
      /\ ends' = [ends EXCEPT ![k] = <<Owner[c], peer[c]>>]
      /\ server' = [server EXCEPT ![k] = "accept"]
      /\ pc' = [pc EXCEPT ![c] = "hello"]
      /\ link' = [link EXCEPT ![c] = k]
      /\ UNCHANGED <<peer, item, table, up, inbox, sends, sent, received>>
  BY Zenon DEF DialSucceeds, histVars
<1>2. k \in Conns /\ k \in Nat /\ dials \in Nat /\ k > dials
  BY <1>1, TcpAssumption DEF IInv, Types, Conns
<1>3. <<Owner[c], peer[c]>> \in Nodes \X Nodes
  BY TcpAssumption, Zenon DEF IInv, Types
<1>4. /\ ends'[k] = <<Owner[c], peer[c]>>
      /\ \A j \in Conns \ {k} : ends'[j] = ends[j] /\ server'[j] = server[j]
      /\ up[k] = <<>>
  BY <1>1, <1>2 DEF IInv, Types, Wiring
<1>5. Types'
  <2>1. dials' \in 0..MaxDials /\ link' \in [Callers -> 0..MaxDials]
    BY <1>1, <1>2 DEF IInv, Types, Conns
  <2>2. ends' \in [Conns -> (Nodes \X Nodes) \cup {<<>>}]
    BY <1>1, <1>2, <1>3, Zenon DEF IInv, Types
  <2>3. /\ server' \in [Conns -> {"none", "accept", "hello", "serving", "ended"}]
        /\ pc' \in [Callers -> {"idle", "dial", "hello", "drain", "shut"}]
    BY <1>1, <1>2, Zenon DEF IInv, Types
  <2>. QED
    BY <1>1, <2>1, <2>2, <2>3, Zenon DEF IInv, Types
<1>6. Wiring'
  <2>1. \A j \in Conns : j > dials' => server'[j] = "none" /\ up'[j] = <<>>
    <3>1. \A j \in Conns : j > dials' => j > dials /\ j # k
      BY <1>1, <1>2 DEF Conns
    <3>. QED
      BY <1>1, <1>4, <3>1, Zenon DEF IInv, Wiring
  <2>2. \A j \in Conns : j <= dials' => ends'[j] \in Nodes \X Nodes
    <3>1. \A j \in Conns : j <= dials' => j <= dials \/ j = k
      BY <1>1, <1>2 DEF Conns
    <3>. QED
      BY <1>2, <1>3, <1>4, <3>1, Zenon DEF IInv, Wiring
  <2>3. \A j \in 1..dials : j \in Conns \ {k} /\ j \in 1..dials'
    <3>1. /\ dials < MaxDials /\ dials' = dials + 1
          /\ dials \in Nat /\ MaxDials \in Nat
      BY <1>1, <1>2, TcpAssumption, Zenon
    <3>. QED
      BY <3>1 DEF Conns
  <2>4. k \in 1..dials'
    BY <1>1, <1>2
  <2>5. \A d \in Callers : pc'[d] = "hello" =>
           link'[d] \in 1..dials' /\ ends'[link'[d]] = <<Owner[d], peer'[d]>>
    <3>1. /\ pc'[c] = "hello" /\ link'[c] = k /\ peer' = peer
          /\ \A d \in Callers \ {c} : pc'[d] = pc[d] /\ link'[d] = link[d]
      BY <1>1, Zenon DEF IInv, Types
    <3>2. \A d \in Callers \ {c} : pc[d] = "hello" =>
             link[d] \in 1..dials /\ ends[link[d]] = <<Owner[d], peer[d]>>
      BY Zenon DEF IInv, Wiring
    <3>. HIDE DEF k
    <3>3. \A d \in Callers \ {c} : pc'[d] = "hello" =>
             link'[d] \in 1..dials' /\ ends'[link'[d]] = <<Owner[d], peer'[d]>>
      BY <1>4, <2>3, <3>1, <3>2
    <3>4. link'[c] \in 1..dials' /\ ends'[link'[c]] = <<Owner[c], peer'[c]>>
      BY <1>4, <2>4, <3>1, Zenon
    <3>. QED
      BY <3>3, <3>4, Zenon
  <2>6. \A d \in Callers : pc'[d] \in {"dial", "hello"} <=> item'[d] # None
    BY <1>1, Zenon DEF IInv, Wiring, Types
  <2>7. \A a, b \in Nodes : table'[a][b] # 0 =>
            table'[a][b] \in 1..dials' /\ ends'[table'[a][b]] = <<a, b>>
    <3>1. \A a, b \in Nodes : table[a][b] # 0 =>
              table[a][b] \in 1..dials /\ ends[table[a][b]] = <<a, b>>
      BY Zenon DEF IInv, Wiring
    <3>. QED
      BY <1>1, <1>4, <2>3, <3>1, Zenon
  <2>. QED
    BY <2>1, <2>2, <2>5, <2>6, <2>7, Zenon DEF Wiring
<1>7. OnePlace' /\ InFlight' \in SUBSET InFlight
  <2>1. /\ OnePlace /\ UNCHANGED <<inbox, sends, sent>>
        /\ \A d \in Callers : item'[d] = None \/ (item'[d] = item[d] /\ peer'[d] = peer[d])
        /\ \A j \in Conns : up'[j] = <<>> \/ (up'[j] = up[j] /\ ends'[j] = ends[j])
    BY <1>1, <1>4, Zenon DEF IInv
  <2>. QED
    BY <2>1, DropStep, Zenon
<1>. QED
  BY <1>1, <1>5, <1>6, <1>7, Zenon DEF IInv, Net!Lose

(* Steps that touch neither callers nor messages nor handlers *)
LEMMA QuietStep ==
    ASSUME IInv, Thinner,
           UNCHANGED <<pc, peer, item, link, dials, ends, server, up, inbox, sends, sent,
                       received>>
    PROVE  IInv' /\ Net!Lose
<1>1. Types'
  BY Zenon DEF IInv, Types, Thinner
<1>2. Wiring'
  <2>1. \A a, b \in Nodes : table'[a][b] # 0 =>
            table'[a][b] \in 1..dials' /\ ends'[table'[a][b]] = <<a, b>>
    <3>1. \A a, b \in Nodes : table[a][b] # 0 =>
              table[a][b] \in 1..dials /\ ends[table[a][b]] = <<a, b>>
      BY Zenon DEF IInv, Wiring
    <3>. QED
      BY <3>1, Zenon DEF Thinner
  <2>. QED
    BY <2>1, Zenon DEF IInv, Wiring
<1>3. OnePlace' /\ InFlight' \in SUBSET InFlight
  <2>1. /\ OnePlace /\ UNCHANGED <<inbox, sends, sent>>
        /\ \A d \in Callers : item'[d] = None \/ (item'[d] = item[d] /\ peer'[d] = peer[d])
        /\ \A j \in Conns : up'[j] = <<>> \/ (up'[j] = up[j] /\ ends'[j] = ends[j])
    BY Zenon DEF IInv
  <2>. QED
    BY <2>1, DropStep, Zenon
<1>. QED
  BY <1>1, <1>2, <1>3, Zenon DEF IInv, Net!Lose

(* The steps of a caller after its first await *)
LEMMA CallerSteps ==
    ASSUME IInv, NEW c \in Callers, CallerStep(c) \/ Cancel(c)
    PROVE  IInv' /\ Net!Lose
<1>1. table' = table => Thinner
  BY Zenon DEF IInv, Types, Thinner
<1>2. Owner[c] \in Nodes /\ peer[c] \in Nodes
  BY TcpAssumption, Zenon DEF IInv, Types
<1>3. ASSUME Return(c), UNCHANGED <<table, connVars, incoming, inbox, closeVars, histVars>>
      PROVE  IInv' /\ Net!Lose
  <2>1. /\ Leave(c, "idle") /\ table' = table
        /\ UNCHANGED <<dials, ends, server, up, inbox, sends, sent, received>>
    BY <1>3, Zenon DEF Return, connVars, histVars
  <2>. QED
    BY <1>1, <2>1, LeaveStep, Zenon
<1>4. CASE DialFails(c) \/ HandshakeFails(c) \/ DrainSucceeds(c) \/ ShutReturns(c) \/ Cancel(c)
  BY <1>3, <1>4, Zenon DEF DialFails, HandshakeFails, DrainSucceeds, ShutReturns, Cancel
<1>5. CASE DialSucceeds(c)
  BY <1>5, DialStep, Zenon
<1>6. CASE Handshake(c)
  BY <1>6, HandshakeStep, Zenon
<1>7. CASE HandshakeRefused(c)
  <2>1. /\ Leave(c, "shut") /\ table' = table
        /\ UNCHANGED <<dials, ends, server, up, inbox, sends, sent, received>>
    BY <1>7, Zenon DEF HandshakeRefused, histVars
  <2>. QED
    BY <1>1, <2>1, LeaveStep, Zenon
<1>8. CASE DrainFails(c)
  <2>1. /\ Leave(c, "shut") /\ table' = [table EXCEPT ![Owner[c]][peer[c]] = 0]
        /\ UNCHANGED <<dials, ends, server, up, inbox, sends, sent, received>>
    BY <1>8, Zenon DEF DrainFails, histVars
  <2>2. Thinner
    BY <1>2, <2>1, EntryRemoved, Zenon
  <2>. QED
    BY <2>1, <2>2, LeaveStep, Zenon
<1>. QED
  BY <1>4, <1>5, <1>6, <1>7, <1>8, Zenon DEF CallerStep

(* The steps of a handler *)
LEMMA HandlerSteps ==
    ASSUME IInv, NEW k \in Conns, HandlerStep(k)
    PROVE  IInv' /\ Net!Lose
<1>1. ASSUME server[k] # "none", NEW place \in {"hello", "serving", "ended"},
             server' = [server EXCEPT ![k] = place],
             up' = up \/ up' = [up EXCEPT ![k] = <<>>],
             UNCHANGED <<callVars, table, dials, ends, inbox, histVars>>
      PROVE  IInv' /\ Net!Lose
  <2>1. UNCHANGED <<pc, peer, item, link, table, dials, ends, inbox, sends, sent, received>>
    BY <1>1, Zenon DEF callVars, histVars
  <2>. QED
    BY <1>1, <2>1, HandlerStepDrops, Zenon
<1>2. CASE Accept(k)
  <2>1. /\ server[k] # "none"
        /\ UNCHANGED <<callVars, table, dials, ends, inbox, histVars>>
        /\ \/ server' = [server EXCEPT ![k] = "hello"] /\ up' = up
           \/ server' = [server EXCEPT ![k] = "ended"] /\ up' = [up EXCEPT ![k] = <<>>]
    BY <1>2, Zenon DEF Accept, EndHandler
  <2>. QED
    BY <1>1, <2>1, Zenon
<1>3. CASE Welcome(k)
  <2>1. /\ server[k] # "none"
        /\ UNCHANGED <<callVars, table, dials, ends, inbox, histVars>>
        /\ \/ server' = [server EXCEPT ![k] = "serving"] /\ up' = up
           \/ server' = [server EXCEPT ![k] = "ended"] /\ up' = [up EXCEPT ![k] = <<>>]
    BY <1>3, Zenon DEF Welcome, EndHandler
  <2>. QED
    BY <1>1, <2>1, Zenon
<1>4. CASE Serve(k)
  BY <1>4, ServeStep, Zenon
<1>5. CASE HandlerEnds(k)
  <2>1. /\ server[k] # "none"
        /\ UNCHANGED <<callVars, table, dials, ends, inbox, histVars>>
        /\ server' = [server EXCEPT ![k] = "ended"] /\ up' = [up EXCEPT ![k] = <<>>]
    BY <1>5, Zenon DEF HandlerEnds, EndHandler
  <2>. QED
    BY <1>1, <2>1, Zenon
<1>. QED
  BY <1>2, <1>3, <1>4, <1>5, Zenon DEF HandlerStep

(* A connection that breaks, and the steps of close *)
LEMMA QuietSteps ==
    ASSUME IInv, (\E k \in Conns : Break(k)) \/ (\E n \in Closers : CloseStep(n))
    PROVE  IInv' /\ Net!Lose
<1>1. table' = table => Thinner
  BY Zenon DEF IInv, Types, Thinner
<1>2. ASSUME Thinner, UNCHANGED <<callVars, dials, ends, server, up, inbox, histVars>>
      PROVE  IInv' /\ Net!Lose
  <2>1. UNCHANGED <<pc, peer, item, link, dials, ends, server, up, inbox, sends, sent,
                    received>>
    BY <1>2, Zenon DEF callVars, histVars
  <2>. QED
    BY <1>2, <2>1, QuietStep, Zenon
<1>3. ASSUME NEW k \in Conns, Break(k) PROVE IInv' /\ Net!Lose
  BY <1>1, <1>2, <1>3, Zenon DEF Break
<1>4. ASSUME NEW n \in Nodes, NEW p \in Nodes, ClosePeer(n, p) PROVE IInv' /\ Net!Lose
  BY <1>1, <1>2, <1>4, Zenon DEF ClosePeer
<1>5. ASSUME NEW n \in Nodes, CloseRaises(n) \/ CloseServer(n) PROVE IInv' /\ Net!Lose
  BY <1>1, <1>2, <1>5, Zenon DEF CloseRaises, CloseServer, connVars
<1>6. ASSUME NEW n \in Nodes, CloseTable(n) PROVE IInv' /\ Net!Lose
  <2>1. table' = [table EXCEPT ![n] = [p \in Nodes |-> 0]]
    BY <1>6, Zenon DEF CloseTable
  <2>2. 0 \in 0..MaxDials
    BY TcpAssumption
  <2>3. Thinner
    BY <2>1, <2>2, Zenon DEF IInv, Types, Thinner
  <2>. QED
    BY <1>2, <1>6, <2>3, Zenon DEF CloseTable, connVars
<1>. QED
  BY <1>3, <1>4, <1>5, <1>6, TcpAssumption, Zenon DEF CloseStep

(* The initial state *)
LEMMA InitInv == Init => IInv /\ Net!Init
<1>. SUFFICES ASSUME Init PROVE IInv /\ Net!Init
  BY Zenon
<1>1. 0 \in 0..MaxDials /\ \A k \in Conns : k > 0
  BY TcpAssumption DEF Conns
<1>2. Types
  <2>1. <<>> \in Seq(Messages)
    BY EmptyInjective, Zenon
  <2>2. peer \in [Callers -> Nodes] /\ 0 \in Nat
    BY TcpAssumption, Zenon DEF Init
  <2>. QED
    BY <1>1, <2>1, <2>2, Zenon DEF Init, Types
<1>3. Wiring
  <2>1. /\ \A k \in Conns : server[k] = "none" /\ up[k] = <<>> /\ ~(k <= dials)
        /\ \A c \in Callers : pc[c] = "idle" /\ item[c] = None
        /\ \A n, p \in Nodes : table[n][p] = 0
    BY <1>1 DEF Init, Conns
  <2>2. \A c \in Callers : pc[c] # "dial" /\ pc[c] # "hello"
    BY <2>1, Zenon
  <2>. QED
    BY <2>1, <2>2, Zenon DEF Wiring
<1>4. OnePlace
  BY EmptyInjective, Zenon DEF Init, OnePlace
<1>5. InFlight = {}
  <2>1. \A m : m \notin InFlight
    <3>. TAKE m
    <3>1. /\ \A c \in Callers : item[c] = None
          /\ \A k \in Conns : m \notin Range(up[k])
          /\ \A n \in Nodes : m \notin Range(inbox[n])
      BY EmptyInjective, Zenon DEF Init
    <3>. QED
      BY <3>1, InFlightMembers, Zenon
  <2>. QED
    BY <2>1, Zenon
<1>. QED
  BY <1>2, <1>3, <1>4, <1>5, Zenon DEF IInv, Init, Net!Init

(* Every step keeps the invariant and is a step of the Network or stutters. *)
LEMMA NextStep == IInv /\ [Next]_vars => IInv' /\ [Net!Next]_(Net!vars)
<1>. SUFFICES ASSUME IInv, [Next]_vars PROVE IInv' /\ [Net!Next]_(Net!vars)
  BY Zenon
<1>1. ASSUME NEW c \in Callers, NEW p \in Nodes, Call(c, p)
      PROVE  IInv' /\ [Net!Next]_(Net!vars)
  BY <1>1, CallStep, Zenon DEF Net!Next
<1>2. CASE \E c \in Callers : CallerStep(c) \/ Cancel(c)
  BY <1>2, CallerSteps, Zenon DEF Net!Next
<1>3. CASE \E k \in Conns : HandlerStep(k)
  BY <1>3, HandlerSteps, Zenon DEF Net!Next
<1>4. ASSUME NEW n \in Nodes, Recv(n) PROVE IInv' /\ [Net!Next]_(Net!vars)
  BY <1>4, RecvStep, Zenon DEF Net!Next
<1>5. CASE (\E k \in Conns : Break(k)) \/ (\E n \in Closers : CloseStep(n))
  BY <1>5, QuietSteps, Zenon DEF Net!Next
<1>6. CASE UNCHANGED vars
  <2>1. UNCHANGED <<callVars, dials, ends, server, up, table, inbox, histVars>>
    BY <1>6, Zenon DEF vars, connVars
  <2>2. IInv'
    <3>1. table' = table => Thinner
      BY Zenon DEF IInv, Types, Thinner
    <3>. QED
      BY <2>1, <3>1, QuietStep, Zenon DEF callVars, histVars
  <2>3. UNCHANGED Net!vars
    BY <2>1, Zenon DEF callVars, histVars, Net!vars, InFlight, Flying
  <2>. QED
    BY <2>2, <2>3, Zenon
<1>. QED
  BY <1>1, <1>2, <1>3, <1>4, <1>5, <1>6, Zenon DEF Next

(* TcpTransport implements the Network: whatever connections are dialled,    *)
(* replaced, broken and closed, a message reaches recv of its addressee at   *)
(* most once (send, _get_or_connect, _handle_client, recv).                  *)
THEOREM TcpTransportImplementsNetwork == Spec => ImplementsNetwork
<1>1. Init => IInv /\ Net!Init
  BY InitInv, Zenon
<1>2. IInv /\ [Next]_vars => IInv' /\ [Net!Next]_(Net!vars)
  BY NextStep, Zenon
<1>. QED
  BY <1>1, <1>2, PTL DEF Spec, ImplementsNetwork, Net!Spec

-----------------------------------------------------------------------------
(* The status server.  Handlers share nothing, so that the invariant is    *)
(* about the values of one connection: where its handler waits, what it    *)
(* has read of the head, what it knows of the request, what it has written *)
(* and whether a drain of it failed.                                       *)
Requests == [method : Methods, path : Paths, token : BOOLEAN, length : Lengths]
Written == [status : 200..500, page : BOOLEAN]

(* Only a request with the token, of the right kind, may see a page. *)
MaySee(r) == (Token => r.token) /\ r.length = "zero" /\ r.method = "GET"

HandlerInv(place, bytes, r, written, late) ==
    /\ place \in Stages /\ bytes \in 0 .. HeadSize + 1 /\ r \in Requests
    /\ written \in Seq(Written) /\ late \in BOOLEAN
    /\ Len(written) <= 2
    /\ Len(written) = 2 => late /\ written[2].status \in {400, 408}
    /\ place \in {"line", "headers", "body"} => written = <<>>
    /\ place = "drain" => Len(written) = 1
    /\ place \in {"none", "line"} => bytes = 0
    /\ place = "headers" => bytes <= HeadSize
    /\ place = "last" => written # <<>>
    /\ place = "shut" /\ bytes > 0 => written # <<>>
    /\ place # "none" => \A i \in DOMAIN written : written[i].page => MaySee(r)

StatusInv ==
    /\ listening \in BOOLEAN
    /\ connects \in [Clients -> 0..MaxConnects]
    /\ stage \in [Clients -> Stages]
    /\ head \in [Clients -> 0 .. HeadSize + 1]
    /\ request \in [Clients -> Requests]
    /\ answers \in [Clients -> Seq(Written)]
    /\ failed \in [Clients -> BOOLEAN]
    /\ \A c \in Clients : HandlerInv(stage[c], head[c], request[c], answers[c], failed[c])

(* The step of one handler leaves the others alone. *)
HandlerMoves(c, place, bytes, r, written, late) ==
    /\ stage' = [stage EXCEPT ![c] = place]
    /\ head' = [head EXCEPT ![c] = bytes]
    /\ request' = [request EXCEPT ![c] = r]
    /\ answers' = [answers EXCEPT ![c] = written]
    /\ failed' = [failed EXCEPT ![c] = late]
    /\ listening' \in BOOLEAN /\ connects' \in [Clients -> 0..MaxConnects]

(* A step of one handler keeps the invariant of all if it keeps its own. *)
LEMMA MoveKeeps ==
    ASSUME StatusInv, NEW c \in Clients, NEW place, NEW bytes, NEW r, NEW written, NEW late,
           HandlerMoves(c, place, bytes, r, written, late),
           HandlerInv(place, bytes, r, written, late)
    PROVE  StatusInv'
<1>1. /\ stage' \in [Clients -> Stages]
      /\ head' \in [Clients -> 0 .. HeadSize + 1]
      /\ request' \in [Clients -> Requests]
      /\ answers' \in [Clients -> Seq(Written)]
      /\ failed' \in [Clients -> BOOLEAN]
  <2>1. /\ place \in Stages /\ bytes \in 0 .. HeadSize + 1 /\ r \in Requests
        /\ written \in Seq(Written) /\ late \in BOOLEAN
    BY Zenon DEF HandlerInv
  <2>. QED
    BY <2>1, Zenon DEF HandlerMoves, StatusInv
<1>2. ASSUME NEW d \in Clients
      PROVE  HandlerInv(stage'[d], head'[d], request'[d], answers'[d], failed'[d])
  <2>1. CASE d = c
    <3>1. stage'[d] = place /\ head'[d] = bytes /\ request'[d] = r
          /\ answers'[d] = written /\ failed'[d] = late
      BY <2>1, Zenon DEF HandlerMoves, StatusInv
    <3>. QED
      BY <3>1, Zenon
  <2>2. CASE d # c
    <3>1. stage'[d] = stage[d] /\ head'[d] = head[d] /\ request'[d] = request[d]
          /\ answers'[d] = answers[d] /\ failed'[d] = failed[d]
      BY <2>2, Zenon DEF HandlerMoves, StatusInv
    <3>. QED
      BY <3>1, Zenon DEF StatusInv
  <2>. QED
    BY <2>1, <2>2, Zenon
<1>. QED
  BY <1>1, <1>2, Zenon DEF HandlerMoves, StatusInv

(* An answer is added to what was written: the first one, or an error behind *)
(* one whose drain failed.                                                   *)
LEMMA WriteKeeps ==
    ASSUME NEW place \in Stages, NEW bytes, NEW r, NEW written, NEW late,
           HandlerInv(place, bytes, r, written, late),
           NEW answer \in Written, answer.page => MaySee(r),
           NEW then \in {"drain", "last"}, NEW width \in 0 .. HeadSize + 1, NEW failing \in BOOLEAN,
           place # "none",
           \/ written = <<>>
           \/ place = "drain" /\ failing /\ then = "last" /\ answer.status \in {400, 408}
    PROVE  HandlerInv(then, width, r, Append(written, answer), failing)
<1>. DEFINE more == Append(written, answer)
<1>1. written \in Seq(Written) /\ r \in Requests /\ Len(written) \in Nat
  BY DEF HandlerInv
<1>2. more \in Seq(Written) /\ Len(more) = Len(written) + 1 /\ more # <<>>
      /\ more[Len(written) + 1] = answer /\ DOMAIN more = 1 .. Len(written) + 1
      /\ \A i \in 1 .. Len(written) : more[i] = written[i]
  <2>1. more \in Seq(Written) /\ Len(more) = Len(written) + 1
    BY <1>1
  <2>2. more[Len(written) + 1] = answer /\ \A i \in 1 .. Len(written) : more[i] = written[i]
    BY <1>1
  <2>. HIDE DEF more
  <2>3. DOMAIN more = 1 .. Len(written) + 1
    BY <2>1
  <2>4. more # <<>>
    BY <1>1, <2>1
  <2>. QED
    BY <2>1, <2>2, <2>3, <2>4, Zenon
<1>3. Len(written) = 0 \/ (Len(written) = 1 /\ place = "drain")
  BY DEF HandlerInv
<1>4. Len(more) <= 2 /\ (Len(more) = 2 => failing /\ more[2].status \in {400, 408})
      /\ (then = "drain" => Len(more) = 1)
  <2>1. CASE written = <<>>
    BY <1>2, <2>1
  <2>2. CASE written # <<>>
    <3>1. Len(written) = 1
      BY <1>1, <1>3, <2>2
    <3>. QED
      BY <1>2, <2>2, <3>1
  <2>. QED
    BY <2>1, <2>2, Zenon
<1>5. \A i \in DOMAIN more : more[i].page => MaySee(r)
  <2>. SUFFICES ASSUME NEW i \in DOMAIN more, more[i].page PROVE MaySee(r)
    BY Zenon
  <2>1. CASE i = Len(written) + 1
    BY <1>2, <2>1, Zenon
  <2>2. CASE i # Len(written) + 1
    <3>1. i \in DOMAIN written /\ more[i] = written[i]
      BY <1>1, <1>2, <2>2
    <3>. QED
      BY <3>1, Zenon DEF HandlerInv
  <2>. QED
    BY <2>1, <2>2, Zenon
<1>. HIDE DEF more
<1>6. then \in Stages
  BY Zenon DEF Stages
<1>7. HandlerInv(then, width, r, more, failing)
  BY <1>1, <1>2, <1>4, <1>5, <1>6, Zenon DEF HandlerInv
<1>. QED
  BY <1>7, Zenon DEF more

(* Initially nobody is connected. *)
LEMMA StatusStart == StatusInit => StatusInv
<1>. SUFFICES ASSUME StatusInit PROVE StatusInv
  BY Zenon
<1>. USE StatusAssumption
<1>1. NoRequest \in Requests /\ "none" \in Stages
  BY Zenon DEF NoRequest, Requests, Methods, Paths, Lengths, Stages
<1>2. <<>> \in Seq(Written) /\ Len(<<>>) = 0
  OBVIOUS
<1>3. HandlerInv("none", 0, NoRequest, <<>>, FALSE)
  BY <1>1, <1>2 DEF HandlerInv
<1>4. \A c \in Clients : HandlerInv(stage[c], head[c], request[c], answers[c], failed[c])
  BY <1>3, Zenon DEF StatusInit
<1>5. listening \in BOOLEAN /\ stage \in [Clients -> Stages] /\ request \in [Clients -> Requests]
  BY <1>1, Zenon DEF StatusInit
<1>6. head \in [Clients -> 0 .. HeadSize + 1] /\ connects \in [Clients -> 0..MaxConnects]
  BY DEF StatusInit
<1>7. answers \in [Clients -> Seq(Written)] /\ failed \in [Clients -> BOOLEAN]
  BY <1>2, Zenon DEF StatusInit
<1>. QED
  BY <1>4, <1>5, <1>6, <1>7, Zenon DEF StatusInv

(* The values of the connection of c, and that a step keeps a variable of it *)
LEMMA OfClient ==
    ASSUME StatusInv, NEW c \in Clients
    PROVE  /\ HandlerInv(stage[c], head[c], request[c], answers[c], failed[c])
           /\ stage[c] \in Stages /\ head[c] \in 0 .. HeadSize + 1 /\ request[c] \in Requests
           /\ answers[c] \in Seq(Written) /\ failed[c] \in BOOLEAN
           /\ stage = [stage EXCEPT ![c] = stage[c]]
           /\ head = [head EXCEPT ![c] = head[c]]
           /\ request = [request EXCEPT ![c] = request[c]]
           /\ answers = [answers EXCEPT ![c] = answers[c]]
           /\ failed = [failed EXCEPT ![c] = failed[c]]
           /\ listening \in BOOLEAN /\ connects \in [Clients -> 0..MaxConnects]
<1>1. /\ stage \in [Clients -> Stages] /\ head \in [Clients -> 0 .. HeadSize + 1]
      /\ request \in [Clients -> Requests] /\ answers \in [Clients -> Seq(Written)]
      /\ failed \in [Clients -> BOOLEAN]
      /\ listening \in BOOLEAN /\ connects \in [Clients -> 0..MaxConnects]
      /\ HandlerInv(stage[c], head[c], request[c], answers[c], failed[c])
  BY Zenon DEF StatusInv
<1>2. /\ stage = [stage EXCEPT ![c] = stage[c]]
      /\ head = [head EXCEPT ![c] = head[c]]
      /\ request = [request EXCEPT ![c] = request[c]]
      /\ answers = [answers EXCEPT ![c] = answers[c]]
      /\ failed = [failed EXCEPT ![c] = failed[c]]
  BY <1>1, Zenon
<1>3. stage[c] \in Stages /\ head[c] \in 0 .. HeadSize + 1 /\ request[c] \in Requests
  BY <1>1, Zenon
<1>4. answers[c] \in Seq(Written) /\ failed[c] \in BOOLEAN
  BY <1>1, Zenon
<1>. QED
  BY <1>1, <1>2, <1>3, <1>4, Zenon

(* Every write of a handler: the answer, the place where it drains it, and   *)
(* what becomes of the head and of the history.                              *)
LEMMA AnswerWritten ==
    ASSUME StatusInv, NEW c \in Clients, NEW answer \in Written, NEW then \in {"drain", "last"},
           NEW width \in 0 .. HeadSize + 1, NEW late \in BOOLEAN,
           Write(c, answer, then), answer.page => MaySee(request[c]), stage[c] # "none",
           \/ answers[c] = <<>>
           \/ stage[c] = "drain" /\ late /\ then = "last" /\ answer.status \in {400, 408},
           head' = [head EXCEPT ![c] = width], failed' = [failed EXCEPT ![c] = late],
           UNCHANGED <<listening, request, connects>>
    PROVE  StatusInv'
<1>1. /\ HandlerInv(stage[c], head[c], request[c], answers[c], failed[c])
      /\ stage[c] \in Stages
      /\ request = [request EXCEPT ![c] = request[c]]
      /\ listening \in BOOLEAN /\ connects \in [Clients -> 0..MaxConnects]
  BY OfClient, Zenon
<1>2. HandlerInv(then, width, request[c], Append(answers[c], answer), late)
  BY <1>1, WriteKeeps
<1>3. answers' = [answers EXCEPT ![c] = Append(answers[c], answer)]
      /\ stage' = [stage EXCEPT ![c] = then]
  BY Zenon DEF Write
<1>4. HandlerMoves(c, then, width, request[c], Append(answers[c], answer), late)
  BY <1>1, <1>3, Zenon DEF HandlerMoves
<1>. QED
  BY <1>2, <1>4, MoveKeeps, Zenon

(* The same for what a handler writes before anything else, when it leaves   *)
(* the head and the history alone                                            *)
LEMMA FirstWrite ==
    ASSUME StatusInv, NEW c \in Clients, NEW answer \in Written, NEW then \in {"drain", "last"},
           Write(c, answer, then), answer.page => MaySee(request[c]),
           stage[c] \in {"line", "headers", "body"},
           UNCHANGED <<listening, head, request, failed, connects>>
    PROVE  StatusInv'
<1>1. head[c] \in 0 .. HeadSize + 1 /\ failed[c] \in BOOLEAN
      /\ HandlerInv(stage[c], head[c], request[c], answers[c], failed[c])
      /\ head' = [head EXCEPT ![c] = head[c]] /\ failed' = [failed EXCEPT ![c] = failed[c]]
  BY OfClient, Zenon
<1>2. answers[c] = <<>> /\ stage[c] # "none" /\ UNCHANGED <<listening, request, connects>>
  BY <1>1, Zenon DEF HandlerInv
<1>. QED
  BY <1>1, <1>2, AnswerWritten, ZenonT(60)

(* The answers that a handler may write; OnMalformed repeats the kind of the *)
(* first answer.                                                             *)
LEMMA AnswersAreWritten ==
    ASSUME NEW status \in 200..500, NEW page \in BOOLEAN
    PROVE  [status |-> status, page |-> page] \in Written
BY Zenon DEF Written

(* A new handler has read and written nothing. *)
LEMMA ConnectKeeps ==
    ASSUME StatusInv, NEW c \in Clients, Connect(c)
    PROVE  StatusInv'
<1>1. /\ HandlerInv(stage[c], head[c], request[c], answers[c], failed[c])
      /\ head' = [head EXCEPT ![c] = head[c]] /\ request' = [request EXCEPT ![c] = request[c]]
      /\ listening' \in BOOLEAN /\ connects \in [Clients -> 0..MaxConnects]
  BY OfClient, Zenon DEF Connect
<1>2. connects' \in [Clients -> 0..MaxConnects]
  BY <1>1, StatusAssumption DEF Connect
<1>3. stage[c] = "none"
  BY Zenon DEF Connect
<1>4. HandlerInv("line", head[c], request[c], <<>>, FALSE)
  BY <1>1, <1>3 DEF HandlerInv, Stages
<1>5. HandlerMoves(c, "line", head[c], request[c], <<>>, FALSE)
  BY <1>1, <1>2, Zenon DEF HandlerMoves, Connect
<1>. QED
  BY <1>4, <1>5, MoveKeeps, Zenon

(* A handler reads a line, or goes on to its end. *)
LEMMA ReadKeeps ==
    ASSUME StatusInv, NEW c \in Clients, NEW place \in Stages, NEW bytes \in 0 .. HeadSize + 1,
           NEW r \in Requests,
           stage' = [stage EXCEPT ![c] = place], head' = [head EXCEPT ![c] = bytes],
           request' = [request EXCEPT ![c] = r],
           UNCHANGED <<listening, answers, failed, connects>>,
           HandlerInv(place, bytes, r, answers[c], failed[c])
    PROVE  StatusInv'
<1>1. /\ answers' = [answers EXCEPT ![c] = answers[c]]
      /\ failed' = [failed EXCEPT ![c] = failed[c]]
      /\ listening' \in BOOLEAN /\ connects' \in [Clients -> 0..MaxConnects]
  BY OfClient, Zenon
<1>2. HandlerMoves(c, place, bytes, r, answers[c], failed[c])
  BY <1>1, Zenon DEF HandlerMoves
<1>. QED
  BY <1>2, MoveKeeps, Zenon

(* The request line is the first of the head. *)
LEMMA RequestLineKeeps ==
    ASSUME StatusInv, NEW c \in Clients, NEW method \in Methods, NEW path \in Paths,
           RequestLine(c, method, path)
    PROVE  StatusInv'
<1>. DEFINE r == [NoRequest EXCEPT !.method = method, !.path = path]
<1>1. HandlerInv(stage[c], head[c], request[c], answers[c], failed[c]) /\ stage[c] = "line"
  BY OfClient, Zenon DEF RequestLine
<1>2. r \in Requests
  BY Zenon DEF NoRequest, Requests, Lengths
<1>3. stage' = [stage EXCEPT ![c] = "headers"] /\ head' = [head EXCEPT ![c] = 1]
      /\ request' = [request EXCEPT ![c] = r]
      /\ UNCHANGED <<listening, answers, failed, connects>>
  BY Zenon DEF RequestLine
<1>. HIDE DEF r
<1>4. 1 \in 0 .. HeadSize + 1 /\ 1 <= HeadSize /\ "headers" \in Stages
  BY StatusAssumption DEF Stages
<1>5. answers[c] = <<>> /\ answers[c] \in Seq(Written) /\ failed[c] \in BOOLEAN
  BY <1>1, Zenon DEF HandlerInv
<1>6. HandlerInv("headers", 1, r, answers[c], failed[c])
  BY <1>2, <1>4, <1>5 DEF HandlerInv
<1>. QED
  BY <1>2, <1>3, <1>4, <1>6, ReadKeeps, Zenon

(* A header counts towards the head, which the limit ends with a 431. *)
LEMMA HeaderKeeps ==
    ASSUME StatusInv, NEW c \in Clients, NEW r \in Changed(request[c]), Header(c, r)
    PROVE  StatusInv'
<1>1. /\ HandlerInv(stage[c], head[c], request[c], answers[c], failed[c])
      /\ stage[c] = "headers" /\ request[c] \in Requests
      /\ head' = [head EXCEPT ![c] = head[c] + 1]
      /\ failed' = [failed EXCEPT ![c] = failed[c]] /\ failed[c] \in BOOLEAN
      /\ stage = [stage EXCEPT ![c] = stage[c]]
      /\ UNCHANGED <<listening, failed, connects>>
  BY OfClient, Zenon DEF Header
<1>2. r \in Requests
  BY <1>1 DEF Changed, Requests
<1>3. head[c] + 1 \in 0 .. HeadSize + 1 /\ answers[c] = <<>> /\ answers[c] \in Seq(Written)
  BY <1>1, StatusAssumption DEF HandlerInv
<1>4. CASE head[c] + 1 <= HeadSize /\ request' = [request EXCEPT ![c] = r]
           /\ UNCHANGED <<stage, answers>>
  <2>1. HandlerInv("headers", head[c] + 1, r, answers[c], failed[c])
    BY <1>1, <1>2, <1>3, <1>4 DEF HandlerInv, Stages
  <2>2. stage' = [stage EXCEPT ![c] = "headers"] /\ "headers" \in Stages
    BY <1>1, <1>4, Zenon DEF Stages
  <2>. QED
    BY <1>1, <1>2, <1>3, <1>4, <2>1, <2>2, ReadKeeps, Zenon
<1>5. CASE Answer(c, 431) /\ UNCHANGED request
  <2>1. Write(c, [status |-> 431, page |-> FALSE], "drain")
    BY <1>5, Zenon DEF Answer
  <2>2. [status |-> 431, page |-> FALSE] \in Written
    BY DEF Written
  <2>. DEFINE answer == [status |-> 431, page |-> FALSE]
  <2>3. answer \in Written /\ Write(c, answer, "drain") /\ ~ answer.page
    BY <2>1, <2>2, Zenon
  <2>. HIDE DEF answer
  <2>4. stage[c] # "none" /\ UNCHANGED <<listening, request, connects>>
    BY <1>1, <1>5, Zenon
  <2>. QED
    BY <1>1, <1>3, <2>3, <2>4, AnswerWritten, Zenon
<1>. QED
  BY <1>4, <1>5, Zenon DEF Header

(* An error in the body of try, without a page *)
LEMMA AnswerKeeps ==
    ASSUME StatusInv, NEW c \in Clients, NEW status \in 200..500, Answer(c, status),
           stage[c] \in {"line", "headers", "body"},
           UNCHANGED <<listening, head, request, failed, connects>>
    PROVE  StatusInv'
<1>. DEFINE answer == [status |-> status, page |-> FALSE]
<1>1. answer \in Written /\ ~ answer.page
  BY AnswersAreWritten, Zenon
<1>2. Write(c, answer, "drain")
  BY Zenon DEF Answer
<1>. HIDE DEF answer
<1>. QED
  BY <1>1, <1>2, FirstWrite, Zenon

(* An except clause, when nothing was written yet: what OnMalformed repeats  *)
(* is no page.                                                               *)
LEMMA ExceptKeeps ==
    ASSUME StatusInv, NEW c \in Clients, OnTimeout(c) \/ OnMalformed(c) \/ OnException(c),
           stage[c] \in {"line", "headers", "body"},
           UNCHANGED <<listening, head, request, failed, connects>>
    PROVE  StatusInv'
<1>1. answers[c] = <<>>
  BY OfClient DEF HandlerInv
<1>2. PICK status \in {400, 408, 500} : Write(c, [status |-> status, page |-> FALSE], "last")
  <2>1. (answers[c] # <<>> /\ answers[c][1].page) = FALSE
    BY <1>1, Zenon
  <2>2. ASSUME OnMalformed(c) PROVE Write(c, [status |-> 400, page |-> FALSE], "last")
    BY <2>1, <2>2, Zenon DEF OnMalformed
  <2>3. OnTimeout(c) => Write(c, [status |-> 408, page |-> FALSE], "last")
    BY Zenon DEF OnTimeout
  <2>4. OnException(c) => Write(c, [status |-> 500, page |-> FALSE], "last")
    BY Zenon DEF OnException
  <2>5. 400 \in {400, 408, 500} /\ 408 \in {400, 408, 500} /\ 500 \in {400, 408, 500}
    OBVIOUS
  <2>. QED
    BY <2>2, <2>3, <2>4, <2>5
<1>. DEFINE answer == [status |-> status, page |-> FALSE]
<1>3. status \in 200..500
  OBVIOUS
<1>4. answer \in Written /\ ~ answer.page
  BY <1>3, AnswersAreWritten, ZenonT(60)
<1>5. Write(c, answer, "last")
  BY <1>2
<1>. HIDE DEF answer
<1>. QED
  BY <1>4, <1>5, FirstWrite, Zenon

(* A request line that is too long or malformed is answered. *)
LEMMA BadRequestLineKeeps ==
    ASSUME StatusInv, NEW c \in Clients, BadRequestLine(c) PROVE StatusInv'
<1>1. stage[c] \in {"line", "headers", "body"}
      /\ UNCHANGED <<listening, head, request, failed, connects>>
  BY Zenon DEF BadRequestLine
<1>2. 400 \in 200..500 /\ 431 \in 200..500
  OBVIOUS
<1>3. Answer(c, 431) \/ Answer(c, 400)
  BY Zenon DEF BadRequestLine
<1>. QED
  BY <1>1, <1>2, <1>3, AnswerKeeps, ZenonT(60)

(* A malformed header is answered. *)
LEMMA BadHeaderKeeps ==
    ASSUME StatusInv, NEW c \in Clients, BadHeader(c) PROVE StatusInv'
<1>1. stage[c] \in {"line", "headers", "body"} /\ Answer(c, 400)
      /\ UNCHANGED <<listening, head, request, failed, connects>>
  BY Zenon DEF BadHeader
<1>2. 400 \in 200..500
  OBVIOUS
<1>. QED
  BY <1>1, <1>2, AnswerKeeps, ZenonT(60)

(* A body is read and refused. *)
LEMMA BodyKeeps ==
    ASSUME StatusInv, NEW c \in Clients, Body(c) PROVE StatusInv'
<1>1. stage[c] \in {"line", "headers", "body"} /\ Answer(c, 400)
      /\ UNCHANGED <<listening, head, request, failed, connects>>
  BY Zenon DEF Body
<1>2. 400 \in 200..500
  OBVIOUS
<1>. QED
  BY <1>1, <1>2, AnswerKeeps, ZenonT(60)

(* A read that times out or ends early is answered. *)
LEMMA ReadFailsKeeps ==
    ASSUME StatusInv, NEW c \in Clients, ReadFails(c) PROVE StatusInv'
<1>1. stage[c] \in {"line", "headers", "body"} /\ (OnTimeout(c) \/ OnMalformed(c))
      /\ UNCHANGED <<listening, head, request, failed, connects>>
  BY Zenon DEF ReadFails
<1>. QED
  BY <1>1, ExceptKeeps, Zenon

(* A handler that reads no more keeps what it knows. *)
LEMMA PlaceKeeps ==
    ASSUME StatusInv, NEW c \in Clients, NEW place \in Stages,
           stage' = [stage EXCEPT ![c] = place],
           UNCHANGED <<listening, head, request, answers, failed, connects>>,
           HandlerInv(place, head[c], request[c], answers[c], failed[c])
    PROVE  StatusInv'
<1>1. /\ head' = [head EXCEPT ![c] = head[c]]
      /\ request' = [request EXCEPT ![c] = request[c]]
      /\ answers' = [answers EXCEPT ![c] = answers[c]]
      /\ failed' = [failed EXCEPT ![c] = failed[c]]
      /\ listening' \in BOOLEAN /\ connects' \in [Clients -> 0..MaxConnects]
  BY OfClient, Zenon
<1>2. HandlerMoves(c, place, head[c], request[c], answers[c], failed[c])
  BY <1>1, Zenon DEF HandlerMoves
<1>. QED
  BY <1>2, MoveKeeps, Zenon

(* A client that closes at once is not answered: no byte of a head came. *)
LEMMA NoRequestLineKeeps ==
    ASSUME StatusInv, NEW c \in Clients, NoRequestLine(c) PROVE StatusInv'
<1>1. HandlerInv(stage[c], head[c], request[c], answers[c], failed[c]) /\ stage[c] = "line"
  BY OfClient, Zenon DEF NoRequestLine
<1>2. HandlerInv("shut", head[c], request[c], answers[c], failed[c]) /\ "shut" \in Stages
  BY <1>1 DEF HandlerInv, Stages
<1>3. stage' = [stage EXCEPT ![c] = "shut"]
      /\ UNCHANGED <<listening, head, request, answers, failed, connects>>
  BY Zenon DEF NoRequestLine
<1>. QED
  BY <1>2, <1>3, PlaceKeeps, Zenon

(* What was written has been drained. *)
LEMMA DrainedKeeps ==
    ASSUME StatusInv, NEW c \in Clients, Drained(c) PROVE StatusInv'
<1>1. HandlerInv(stage[c], head[c], request[c], answers[c], failed[c])
      /\ stage[c] \in {"drain", "last"}
  BY OfClient, Zenon DEF Drained
<1>2. answers[c] # <<>> /\ "shut" \in Stages
  <2>1. stage[c] = "drain" => Len(answers[c]) = 1
    BY <1>1, Zenon DEF HandlerInv
  <2>2. stage[c] = "last" => answers[c] # <<>>
    BY <1>1, Zenon DEF HandlerInv
  <2>3. Len(answers[c]) = 1 => answers[c] # <<>>
    OBVIOUS
  <2>. QED
    BY <1>1, <2>1, <2>2, <2>3, Zenon DEF Stages
<1>3. HandlerInv("shut", head[c], request[c], answers[c], failed[c])
  BY <1>1, <1>2 DEF HandlerInv
<1>4. stage' = [stage EXCEPT ![c] = "shut"]
      /\ UNCHANGED <<listening, head, request, answers, failed, connects>>
  BY Zenon DEF Drained
<1>. QED
  BY <1>2, <1>3, <1>4, PlaceKeeps, Zenon

(* The connection closes, and the next one starts from nothing. *)
LEMMA ShutKeeps ==
    ASSUME StatusInv, NEW c \in Clients, Shut(c) PROVE StatusInv'
<1>1. HandlerInv(stage[c], head[c], request[c], answers[c], failed[c])
  BY OfClient, Zenon
<1>2. NoRequest \in Requests /\ "none" \in Stages /\ 0 \in 0 .. HeadSize + 1
  BY StatusAssumption DEF NoRequest, Requests, Methods, Paths, Lengths, Stages
<1>3. HandlerInv("none", 0, NoRequest, answers[c], failed[c])
  BY <1>1, <1>2 DEF HandlerInv
<1>4. stage' = [stage EXCEPT ![c] = "none"] /\ head' = [head EXCEPT ![c] = 0]
      /\ request' = [request EXCEPT ![c] = NoRequest]
      /\ UNCHANGED <<listening, answers, failed, connects>>
  BY Zenon DEF Shut
<1>. QED
  BY <1>2, <1>3, <1>4, ReadKeeps, Zenon

(* A drain that failed: the error goes behind the answer, and shows a page   *)
(* only if that did.                                                         *)
LEMMA DrainFailsKeeps ==
    ASSUME StatusInv, NEW c \in Clients, StatusDrainFails(c) PROVE StatusInv'
<1>1. /\ HandlerInv(stage[c], head[c], request[c], answers[c], failed[c])
      /\ stage[c] = "drain" /\ head[c] \in 0 .. HeadSize + 1
      /\ head' = [head EXCEPT ![c] = head[c]] /\ failed' = [failed EXCEPT ![c] = TRUE]
      /\ UNCHANGED <<listening, request, connects>>
  BY OfClient, Zenon DEF StatusDrainFails
<1>2. 1 \in DOMAIN answers[c] /\ answers[c][1].page \in BOOLEAN
      /\ (answers[c][1].page => MaySee(request[c]))
  <2>1. Len(answers[c]) = 1 /\ answers[c] \in Seq(Written)
        /\ \A i \in DOMAIN answers[c] : answers[c][i].page => MaySee(request[c])
    BY <1>1 DEF HandlerInv
  <2>2. 1 \in DOMAIN answers[c] /\ answers[c][1] \in Written
    BY <2>1
  <2>. QED
    BY <2>1, <2>2, Zenon DEF Written
<1>3. PICK answer \in Written : /\ Write(c, answer, "last") /\ answer.status \in {400, 408}
                                /\ answer.page => MaySee(request[c])
  <2>1. CASE OnTimeout(c)
    <3>. DEFINE answer == [status |-> 408, page |-> FALSE]
    <3>1. answer \in Written /\ Write(c, answer, "last") /\ answer.status = 408 /\ ~ answer.page
      BY <2>1 DEF OnTimeout, Written
    <3>. HIDE DEF answer
    <3>. QED
      BY <3>1
  <2>2. CASE OnMalformed(c)
    <3>. DEFINE page == answers[c] # <<>> /\ answers[c][1].page
                answer == [status |-> 400, page |-> page]
    <3>1. page \in BOOLEAN /\ (page => MaySee(request[c]))
      BY <1>2, Zenon
    <3>2. Write(c, answer, "last")
      BY <2>2, Zenon DEF OnMalformed
    <3>. HIDE DEF page
    <3>3. answer \in Written /\ answer.status = 400 /\ (answer.page => MaySee(request[c]))
      BY <3>1 DEF Written
    <3>. HIDE DEF answer
    <3>. QED
      BY <3>2, <3>3
  <2>. QED
    BY <2>1, <2>2, Zenon DEF StatusDrainFails
<1>4. stage[c] # "none" /\ "last" \in {"drain", "last"}
  BY <1>1, Zenon
<1>5. PICK late \in BOOLEAN : late /\ failed' = [failed EXCEPT ![c] = late]
  BY <1>1, Zenon
<1>6. \/ answers[c] = <<>>
      \/ stage[c] = "drain" /\ late /\ "last" = "last" /\ answer.status \in {400, 408}
  BY <1>1, <1>3, <1>5
<1>7. HandlerInv("last", head[c], request[c], Append(answers[c], answer), late)
  BY <1>1, <1>3, <1>4, <1>6, OfClient, WriteKeeps
<1>8. answers' = [answers EXCEPT ![c] = Append(answers[c], answer)]
      /\ stage' = [stage EXCEPT ![c] = "last"]
  BY <1>3 DEF Write
<1>9. HandlerMoves(c, "last", head[c], request[c], Append(answers[c], answer), late)
  BY <1>1, <1>5, <1>8, OfClient, Zenon DEF HandlerMoves
<1>. QED
  BY <1>7, <1>9, MoveKeeps, Zenon

(* The page is the last thing that Route comes to: the token, the length and *)
(* the method were looked at before.                                         *)
LEMMA EndOfHeadKeeps ==
    ASSUME StatusInv, NEW c \in Clients, EndOfHead(c) PROVE StatusInv'
<1>. DEFINE r == request[c]
            status == HandleRequest(r)
<1>1. /\ HandlerInv(stage[c], head[c], r, answers[c], failed[c])
      /\ stage[c] = "headers" /\ r \in Requests
      /\ UNCHANGED <<listening, head, request, failed, connects>>
      /\ Route(c, r)
  BY OfClient, Zenon DEF EndOfHead
<1>2. stage[c] \in {"line", "headers", "body"}
  BY <1>1, Zenon
<1>3. ASSUME NEW code \in {400, 401, 413, 500}, Answer(c, code) PROVE StatusInv'
  <2>1. code \in 200..500
    OBVIOUS
  <2>. QED
    BY <1>1, <1>2, <1>3, <2>1, AnswerKeeps, ZenonT(60)
<1>4. ASSUME OnMalformed(c) \/ OnException(c) PROVE StatusInv'
  BY <1>1, <1>2, <1>4, ExceptKeeps, Zenon
<1>5. ASSUME stage' = [stage EXCEPT ![c] = "body"], UNCHANGED answers PROVE StatusInv'
  <2>1. answers[c] = <<>>
    BY <1>1, ZenonT(60) DEF HandlerInv
  <2>2. HandlerInv("body", head[c], r, answers[c], failed[c]) /\ "body" \in Stages
    BY <1>1, <2>1, ZenonT(60) DEF HandlerInv, Stages
  <2>. QED
    BY <1>1, <1>5, <2>2, PlaceKeeps, Zenon
<1>6. ASSUME Write(c, [status |-> status, page |-> status = 200], "drain"),
             Token => r.token, r.length = "zero"
      PROVE  StatusInv'
  <2>. DEFINE answer == [status |-> status, page |-> status = 200]
  <2>1. status \in {200, 404, 405} /\ (status = 200 => r.method = "GET")
    BY DEF HandleRequest
  <2>. HIDE DEF status
  <2>2. answer \in Written /\ Write(c, answer, "drain")
    BY <1>6, <2>1 DEF Written
  <2>3. answer.page => MaySee(r)
    BY <1>6, <2>1, Zenon DEF MaySee
  <2>. HIDE DEF answer
  <2>. QED
    BY <1>1, <1>2, <2>2, <2>3, FirstWrite, Zenon
<1>7. CASE Token /\ ~r.token
  <2>1. Answer(c, 401) \/ OnException(c)
    BY <1>1, <1>7, Zenon DEF Route
  <2>. QED
    BY <1>3, <1>4, <2>1
<1>8. CASE Token => r.token
  <2>1. r.length \in {"zero", "invalid", "some", "large"}
    BY <1>1, Zenon DEF Requests, Lengths
  <2>2. CASE r.length = "invalid"
    <3>1. Answer(c, 400)
      BY <1>1, <1>8, <2>2 DEF Route
    <3>. QED
      BY <1>3, <3>1
  <2>3. CASE r.length = "large"
    <3>1. Answer(c, 413)
      BY <1>1, <1>8, <2>3 DEF Route
    <3>. QED
      BY <1>3, <3>1
  <2>4. CASE r.length = "some"
    <3>1. stage' = [stage EXCEPT ![c] = "body"] /\ UNCHANGED answers
      BY <1>1, <1>8, <2>4 DEF Route
    <3>. QED
      BY <1>5, <3>1, Zenon
  <2>5. CASE r.length = "zero"
    <3>1. \/ Write(c, [status |-> status, page |-> status = 200], "drain")
          \/ Answer(c, 500) \/ OnMalformed(c) \/ OnException(c)
      BY <1>1, <1>8, <2>5 DEF Route
    <3>. QED
      BY <1>3, <1>4, <1>6, <1>8, <2>5, <3>1, ZenonT(60)
  <2>. QED
    BY <2>1, <2>2, <2>3, <2>4, <2>5, Zenon
<1>. QED
  BY <1>7, <1>8, Zenon

(* Every step of the server keeps the invariant. *)
LEMMA StatusStep == StatusInv /\ [StatusNext]_statusVars => StatusInv'
<1>. SUFFICES ASSUME StatusInv, [StatusNext]_statusVars PROVE StatusInv'
  BY Zenon
<1>1. CASE Stop
  BY <1>1, Zenon DEF Stop, StatusInv
<1>2. CASE UNCHANGED statusVars
  BY <1>2, Zenon DEF statusVars, StatusInv
<1>3. ASSUME NEW c \in Clients, Connect(c) \/ StatusHandlerStep(c) PROVE StatusInv'
  BY <1>3, ConnectKeeps, RequestLineKeeps, BadRequestLineKeeps, NoRequestLineKeeps, HeaderKeeps,
     BadHeaderKeeps, EndOfHeadKeeps, BodyKeeps, ReadFailsKeeps, DrainedKeeps, DrainFailsKeeps,
     ShutKeeps, Zenon DEF StatusHandlerStep
<1>. QED
  BY <1>1, <1>2, <1>3, Zenon DEF StatusNext

(* The invariant of the status server *)
LEMMA StatusAlways == StatusSpec => []StatusInv
BY StatusStart, StatusStep, PTL DEF StatusSpec

(* Type correctness of the status server (status.py, _handle_client): the    *)
(* head never grows beyond its limit by more than the line that broke it.    *)
THEOREM StatusTypeCorrect == StatusSpec => []StatusTypeOK
<1>1. StatusInv => StatusTypeOK
  BY DEF StatusInv, StatusTypeOK, Requests, Written
<1>. QED
  BY <1>1, StatusAlways, PTL

(* A client gets one answer, and a second one only behind an answer whose     *)
(* drain failed; a handler that has read of a head does not close without     *)
(* one (status.py, _handle_client and its except clauses).                    *)
THEOREM ClientsAreAnsweredOnce == StatusSpec => []AnsweredOnce
<1>1. StatusInv => AnsweredOnce
  <2>. SUFFICES ASSUME StatusInv, NEW c \in Clients
                PROVE  /\ Len(answers[c]) = 2 => failed[c] /\ answers[c][2].status \in {400, 408}
                       /\ Len(answers[c]) <= 2
                       /\ stage[c] = "shut" /\ head[c] > 0 => answers[c] # <<>>
    BY Zenon DEF AnsweredOnce
  <2>1. HandlerInv(stage[c], head[c], request[c], answers[c], failed[c])
    BY Zenon DEF StatusInv
  <2>. QED
    BY <2>1, Zenon DEF HandlerInv
<1>. QED
  BY <1>1, StatusAlways, PTL

(* A page is only shown for a GET without a body that carries the token, when *)
(* there is one: the checks of _handle_client come before _handle_request.    *)
THEOREM PagesNeedTheToken == StatusSpec => []PageNeedsToken
<1>1. StatusInv => PageNeedsToken
  BY DEF StatusInv, HandlerInv, MaySee, PageNeedsToken
<1>. QED
  BY <1>1, StatusAlways, PTL

=============================================================================
