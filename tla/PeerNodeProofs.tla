--------------------------- MODULE PeerNodeProofs ---------------------------
(***************************************************************************)
(* The theorems about PeerNode, for every number of peers and tasks.       *)
(***************************************************************************)
EXTENDS PeerNodeInvariants, FiniteSetTheorems, SequenceTheorems, TLAPS

-----------------------------------------------------------------------------
(* Queues *)

(* Put inserts one entry, and keeps a queue a sequence of entries. *)
LEMMA PutInserts ==
    ASSUME NEW q \in Seq(Entry), NEW t \in Tasks, NEW pri \in {0, 10}
    PROVE  /\ Put(q, t, pri) \in Seq(Entry)
           /\ \E k \in 0 .. Len(q) :
                  /\ DOMAIN Put(q, t, pri) = 1 .. Len(q) + 1
                  /\ \A i \in 1 .. Len(q) + 1 :
                         Put(q, t, pri)[i] = IF i <= k THEN q[i]
                                             ELSE IF i = k + 1 THEN [task |-> t, pri |-> pri]
                                             ELSE q[i - 1]
<1> DEFINE I == {i \in DOMAIN q : q[i].pri >= pri}
           k == Cardinality(I)
           e == [task |-> t, pri |-> pri]
           first == SubSeq(q, 1, k)
           rest == SubSeq(q, k + 1, Len(q))
<1>1. Len(q) \in Nat /\ DOMAIN q = 1 .. Len(q) /\ \A i \in 1 .. Len(q) : q[i] \in Entry
  BY LenProperties, ElementOfSeq, Zenon
<1>2. k \in 0 .. Len(q)
  <2>1. 1 \in Int /\ Len(q) \in Int
    BY <1>1
  <2>2. /\ IsFiniteSet(1 .. Len(q))
        /\ Cardinality(1 .. Len(q)) = IF 1 > Len(q) THEN 0 ELSE Len(q) - 1 + 1
    BY <2>1, FS_Interval, Zenon
  <2>3. k \in Nat /\ k <= Cardinality(1 .. Len(q))
    BY <1>1, <2>2, FS_Subset, FS_CardinalityType, Zenon
  <2> QED
    BY <1>1, <2>2, <2>3
<1>3. Put(q, t, pri) = first \o <<e>> \o rest
  BY Zenon DEF Put
<1> HIDE DEF I, k
<1>4. /\ first \in Seq(Entry) /\ Len(first) = k
      /\ \A i \in 1 .. k : first[i] = q[i]
  <2>1. 1 \in Int /\ k \in Int /\ \A i \in 1 .. k : q[i] \in Entry
    BY <1>1, <1>2
  <2>2. /\ first \in Seq(Entry) /\ Len(first) = IF 1 <= k THEN k - 1 + 1 ELSE 0
        /\ \A i \in 1 .. k - 1 + 1 : first[i] = q[1 + i - 1]
    BY <2>1, SubSeqProperties
  <2> QED
    BY <1>2, <2>2
<1>5. /\ rest \in Seq(Entry) /\ Len(rest) = Len(q) - k
      /\ \A i \in 1 .. Len(q) - k : rest[i] = q[k + i]
  <2>1. k + 1 \in Int /\ Len(q) \in Int /\ \A i \in k + 1 .. Len(q) : q[i] \in Entry
    BY <1>1, <1>2
  <2>2. /\ rest \in Seq(Entry)
        /\ Len(rest) = IF k + 1 <= Len(q) THEN Len(q) - (k + 1) + 1 ELSE 0
        /\ \A i \in 1 .. Len(q) - (k + 1) + 1 : rest[i] = q[(k + 1) + i - 1]
    BY <2>1, SubSeqProperties
  <2> HIDE DEF rest
  <2>3. Len(rest) = Len(q) - k
    <3>1. Len(rest) = IF k + 1 <= Len(q) THEN Len(q) - (k + 1) + 1 ELSE 0
      BY <2>2, Zenon
    <3>2. k \in Nat /\ Len(q) \in Nat /\ k <= Len(q)
      BY <1>1, <1>2
    <3>3. CASE k + 1 <= Len(q)
      BY <3>1, <3>2, <3>3
    <3>4. CASE k = Len(q)
      BY <3>1, <3>2, <3>4
    <3> QED
      BY <3>2, <3>3, <3>4
  <2>4. ASSUME NEW i \in 1 .. Len(q) - k PROVE rest[i] = q[k + i]
    <3>1. i \in 1 .. Len(q) - (k + 1) + 1 /\ (k + 1) + i - 1 = k + i
      BY <1>1, <1>2
    <3>2. rest[i] = q[(k + 1) + i - 1]
      BY <2>2, <3>1, Zenon
    <3> QED
      BY <3>1, <3>2, Zenon
  <2> QED
    BY <2>2, <2>3, <2>4, Zenon
<1>6. <<e>> \in Seq(Entry) /\ Len(<<e>>) = 1 /\ <<e>>[1] = e
  BY DEF Entry
<1> DEFINE head == first \o <<e>>
<1> HIDE DEF e, first, rest
<1>7. /\ head \in Seq(Entry) /\ Len(head) = k + 1
      /\ \A i \in 1 .. k + 1 : head[i] = IF i <= k THEN first[i] ELSE <<e>>[i - k]
  BY <1>4, <1>6, ConcatProperties
<1> HIDE DEF head
<1> DEFINE p == head \o rest
<1>8. /\ p \in Seq(Entry) /\ Len(p) = k + 1 + (Len(q) - k)
      /\ \A i \in 1 .. k + 1 + (Len(q) - k) : p[i] = IF i <= k + 1 THEN head[i] ELSE rest[i - (k + 1)]
  <2>1. /\ p \in Seq(Entry) /\ Len(p) = Len(head) + Len(rest)
        /\ \A i \in 1 .. Len(head) + Len(rest) :
               p[i] = IF i <= Len(head) THEN head[i] ELSE rest[i - Len(head)]
    BY <1>5, <1>7, ConcatProperties, Zenon
  <2>2. Len(head) = k + 1 /\ Len(rest) = Len(q) - k
    BY <1>5, <1>7, Zenon
  <2> HIDE DEF p
  <2> QED
    BY <2>1, <2>2, Zenon
<1> HIDE DEF p
<1>9. DOMAIN p = 1 .. Len(q) + 1
  BY <1>1, <1>2, <1>8, LenProperties
<1>10. ASSUME NEW i \in 1 .. Len(q) + 1
       PROVE  p[i] = IF i <= k THEN q[i] ELSE IF i = k + 1 THEN e ELSE q[i - 1]
  <2>1. CASE i <= k
    BY <1>1, <1>2, <1>4, <1>7, <1>8, <2>1
  <2>2. CASE i = k + 1
    BY <1>1, <1>2, <1>6, <1>7, <1>8, <2>2
  <2>3. CASE i > k + 1
    <3>1. p[i] = rest[i - (k + 1)]
      BY <1>1, <1>2, <1>8, <2>3
    <3>2. i - (k + 1) \in 1 .. Len(q) - k /\ k + (i - (k + 1)) = i - 1
      BY <1>1, <1>2, <2>3
    <3>3. rest[i - (k + 1)] = q[i - 1]
      BY <1>5, <3>2, Zenon
    <3> QED
      BY <1>2, <2>3, <3>1, <3>3
  <2> QED
    BY <1>2, <2>1, <2>2, <2>3
<1>11. Put(q, t, pri) = p
  BY <1>3, Zenon DEF p, head
<1> QED
  BY <1>2, <1>8, <1>9, <1>10, <1>11, Zenon DEF e

(* A task that is not in the queue is put there, and stays the only one. *)
LEMMA PutDistinct ==
    ASSUME NEW q \in Seq(Entry), NEW t \in Tasks, NEW pri \in {0, 10},
           Distinct(q), t \notin TasksOf(q)
    PROVE  Distinct(Put(q, t, pri)) /\ TasksOf(Put(q, t, pri)) = TasksOf(q) \cup {t}
<1> DEFINE p == Put(q, t, pri)
<1>1. Len(q) \in Nat /\ DOMAIN q = 1 .. Len(q)
  BY LenProperties, Zenon
<1>2. PICK k \in 0 .. Len(q) :
          /\ DOMAIN p = 1 .. Len(q) + 1
          /\ \A i \in 1 .. Len(q) + 1 :
                 p[i] = IF i <= k THEN q[i]
                        ELSE IF i = k + 1 THEN [task |-> t, pri |-> pri] ELSE q[i - 1]
  BY PutInserts, Zenon
<1> HIDE DEF p
<1>3. /\ \A i \in 1 .. k : p[i].task = q[i].task
      /\ p[k + 1].task = t
      /\ \A i \in k + 2 .. Len(q) + 1 : p[i].task = q[i - 1].task
  BY <1>1, <1>2
<1>4. \A i \in 1 .. Len(q) : q[i].task # t
  BY <1>1, Zenon DEF TasksOf
<1>5. Distinct(p)
  <2> SUFFICES ASSUME NEW i \in 1 .. Len(q) + 1, NEW j \in 1 .. Len(q) + 1, p[i].task = p[j].task
               PROVE  i = j
    BY <1>2, Zenon DEF Distinct
  <2>1. \A a, b \in 1 .. Len(q) : q[a].task = q[b].task => a = b
    BY <1>1, Zenon DEF Distinct
  <2>2. \A a \in 1 .. Len(q) + 1 :
            \/ a = k + 1
            \/ a \in 1 .. k /\ a \in 1 .. Len(q) /\ p[a].task = q[a].task
            \/ a \in k + 2 .. Len(q) + 1 /\ a - 1 \in 1 .. Len(q) /\ p[a].task = q[a - 1].task
    BY <1>1, <1>3
  <2> QED
    BY <1>1, <1>3, <1>4, <2>1, <2>2
<1>6. TasksOf(p) = TasksOf(q) \cup {t}
  <2>1. ASSUME NEW x \in TasksOf(p) PROVE x \in TasksOf(q) \cup {t}
    <3>1. PICK i \in 1 .. Len(q) + 1 : x = p[i].task
      BY <1>2, Zenon DEF TasksOf
    <3>2. i = k + 1 \/ (i \in 1 .. Len(q) /\ x = q[i].task) \/ (i - 1 \in 1 .. Len(q) /\ x = q[i - 1].task)
      BY <1>1, <1>3, <3>1
    <3> QED
      BY <1>1, <1>3, <3>1, <3>2, Zenon DEF TasksOf
  <2>2. ASSUME NEW i \in 1 .. Len(q) PROVE q[i].task \in TasksOf(p)
    <3>1. CASE i <= k
      BY <1>1, <1>2, <1>3, <3>1 DEF TasksOf
    <3>2. CASE i > k
      <4>1. i + 1 \in k + 2 .. Len(q) + 1 /\ (i + 1) - 1 = i /\ i + 1 \in 1 .. Len(q) + 1
        BY <1>1, <3>2
      <4>2. p[i + 1].task = q[i].task
        BY <1>3, <4>1, Zenon
      <4> QED
        BY <1>2, <4>1, <4>2, Zenon DEF TasksOf
    <3> QED
      BY <1>1, <3>1, <3>2
  <2>3. t \in TasksOf(p)
    <3>1. k + 1 \in 1 .. Len(q) + 1
      BY <1>1
    <3> QED
      BY <1>2, <1>3, <3>1, Zenon DEF TasksOf
  <2> QED
    BY <1>1, <2>1, <2>2, <2>3, Zenon DEF TasksOf
<1> QED
  BY <1>5, <1>6, Zenon DEF p

(* The task at the head leaves, and no other. *)
LEMMA TailDistinct ==
    ASSUME NEW q \in Seq(Entry), q # <<>>, Distinct(q)
    PROVE  Distinct(Tail(q)) /\ TasksOf(Tail(q)) = TasksOf(q) \ {Head(q).task}
<1> DEFINE p == Tail(q)
<1>1. Len(q) \in Nat \ {0} /\ DOMAIN q = 1 .. Len(q)
  BY LenProperties, EmptySeq, Zenon
<1>2. /\ p \in Seq(Entry) /\ Len(p) = Len(q) - 1
      /\ \A i \in 1 .. Len(p) : p[i] = q[i + 1]
  BY HeadTailProperties, Zenon
<1>3. Head(q) = q[1]
  OBVIOUS
<1> HIDE DEF p
<1>4. DOMAIN p = 1 .. Len(q) - 1
  BY <1>2, LenProperties, Zenon
<1>5. \A i \in 1 .. Len(q) - 1 : p[i] = q[i + 1] /\ i + 1 \in 1 .. Len(q) /\ i + 1 # 1
  BY <1>1, <1>2
<1>6. \A i, j \in 1 .. Len(q) : q[i].task = q[j].task => i = j
  BY <1>1, Zenon DEF Distinct
<1>7. Distinct(p)
  BY <1>1, <1>4, <1>5, <1>6 DEF Distinct
<1>8. ASSUME NEW x \in TasksOf(p) PROVE x \in TasksOf(q) /\ x # q[1].task
  <2>1. PICK i \in 1 .. Len(q) - 1 : x = p[i].task
    BY <1>4, Zenon DEF TasksOf
  <2>2. 1 \in 1 .. Len(q) /\ i + 1 \in 1 .. Len(q) /\ i + 1 # 1 /\ x = q[i + 1].task
    BY <1>1, <1>5, <2>1
  <2> QED
    BY <1>1, <1>6, <2>2, Zenon DEF TasksOf
<1>9. ASSUME NEW x \in TasksOf(q), x # q[1].task PROVE x \in TasksOf(p)
  <2>1. PICK i \in 1 .. Len(q) : x = q[i].task
    BY <1>1, Zenon DEF TasksOf
  <2>2. i - 1 \in 1 .. Len(q) - 1 /\ (i - 1) + 1 = i
    BY <1>1, <1>9, <2>1
  <2>3. p[i - 1] = q[i]
    BY <1>5, <2>2, Zenon
  <2> QED
    BY <1>4, <2>1, <2>2, <2>3, Zenon DEF TasksOf
<1> QED
  BY <1>3, <1>7, <1>8, <1>9, Zenon DEF p

(* A queue of distinct tasks that lacks one is shorter than the number of   *)
(* tasks.                                                                   *)
LEMMA QueueHasRoom ==
    ASSUME NEW q \in Seq(Entry), NEW t \in Tasks, Distinct(q), t \notin TasksOf(q)
    PROVE  Len(q) < Cardinality(Tasks)
<1>1. Len(q) \in Nat /\ DOMAIN q = 1 .. Len(q) /\ \A i \in 1 .. Len(q) : q[i] \in Entry
  BY LenProperties, ElementOfSeq, Zenon
<1> DEFINE T == Tasks \ {t}
           f == [i \in 1 .. Len(q) |-> q[i].task]
<1>2. /\ IsFiniteSet(Tasks) /\ IsFiniteSet(T) /\ Cardinality(Tasks) \in Nat
      /\ Cardinality(T) = Cardinality(Tasks) - 1
  BY TasksAssumption, FS_RemoveElement, FS_CardinalityType, Zenon
<1>3. f \in [1 .. Len(q) -> T]
  BY <1>1, Zenon DEF TasksOf, Entry
<1>4. \A i, j \in 1 .. Len(q) : f[i] = f[j] => i = j
  BY <1>1, Zenon DEF Distinct
<1> HIDE DEF f, T
<1>5. f \in Injection(1 .. Len(q), T)
  BY <1>3, <1>4, Zenon DEF Injection, IsInjective
<1>6. Cardinality(1 .. Len(q)) <= Cardinality(T)
  BY <1>2, <1>5, FS_Injection, Zenon
<1>7. Cardinality(1 .. Len(q)) = IF 1 > Len(q) THEN 0 ELSE Len(q) - 1 + 1
  <2>1. 1 \in Int /\ Len(q) \in Int
    BY <1>1
  <2> QED
    BY <2>1, FS_Interval, Zenon
<1> QED
  BY <1>1, <1>2, <1>6, <1>7

(* The order in which tasks are queued again leaves none out. *)
LEMMA OrderIsComplete ==
    ASSUME NEW P, IsFiniteSet(P), NEW order \in [1 .. Cardinality(P) -> P],
           \A i, j \in 1 .. Cardinality(P) : order[i] = order[j] => i = j
    PROVE  {order[i] : i \in 1 .. Cardinality(P)} = P
<1> DEFINE size == Cardinality(P)
<1>1. size \in Nat
  BY FS_CardinalityType, Zenon
<1> HIDE DEF size
<1>2. Cardinality(1 .. size) = size
  <2>1. 1 \in Int /\ size \in Int
    BY <1>1
  <2>2. Cardinality(1 .. size) = IF 1 > size THEN 0 ELSE size - 1 + 1
    BY <2>1, FS_Interval, Zenon
  <2> QED
    BY <1>1, <2>2
<1>3. order \in Injection(1 .. size, P)
  BY Zenon DEF Injection, IsInjective, size
<1>4. order \in Surjection(1 .. size, P)
  BY <1>2, <1>3, FS_Injection, Zenon DEF size
<1>5. \A x \in P : \E i \in 1 .. size : order[i] = x
  BY <1>4, Zenon DEF Surjection
<1> QED
  BY <1>5 DEF size

(* What PeerNodeInvariants uses of sequences and finite sets. *)
LEMMA QueuesBehave == QueueFacts
<1>1. PutFacts
  BY PutInserts, PutDistinct, QueueHasRoom, Zenon DEF PutFacts
<1>2. TailFacts
  BY TailDistinct, HeadTailProperties, Zenon DEF TailFacts
<1>3. OrderFacts
  <2> SUFFICES ASSUME NEW P \in SUBSET Tasks
               PROVE  /\ Cardinality(P) \in Nat /\ Cardinality(P) <= Cardinality(Tasks)
                      /\ \A order \in [1 .. Cardinality(P) -> P] :
                             (\A i, j \in 1 .. Cardinality(P) : order[i] = order[j] => i = j)
                                 => {order[i] : i \in 1 .. Cardinality(P)} = P
    BY Zenon DEF OrderFacts
  <2>1. IsFiniteSet(P) /\ Cardinality(P) <= Cardinality(Tasks)
    BY TasksAssumption, FS_Subset, Zenon
  <2> QED
    BY <2>1, FS_CardinalityType, OrderIsComplete, Zenon
<1> QED
  BY <1>1, <1>2, <1>3, Zenon DEF QueueFacts

-----------------------------------------------------------------------------
(* The theorems *)

(* Type correctness of the mesh: whatever the peers do, stores hold records, *)
(* clocks are clocks, queues are sequences of entries.                       *)
THEOREM TypeCorrect == Spec => []TypeOK
<1>1. Init => TypeOK
  BY InitType, Zenon
<1>2. TypeOK /\ [Next]_vars => TypeOK'
  BY QueuesBehave, NextType, Zenon
<1> QED
  BY <1>1, <1>2, PTL DEF Spec

(* Causality survives crashes but for one event, for every mesh: no clock is *)
(* ahead of what a peer with a log remembers of its own events by more than  *)
(* the event whose record was appended, and whose clock was not, when the    *)
(* peer crashed (append_task, then append_clock).                            *)
THEOREM Causality == Spec => []CausalBound
<1> DEFINE Inv == MemoryInv /\ CausalInv
<1>1. Init => Inv
  BY InitType, MemoryInit, CausalInit, Zenon
<1>2. Inv /\ [Next]_vars => Inv'
  BY QueuesBehave, NextType, MemoryNext, CausalNext, Zenon DEF MemoryInv
<1>3. Inv => CausalBound
  BY Zenon DEF CausalInv, ClocksWithin, CausalBound, Reach
<1> HIDE DEF Inv
<1> QED
  BY <1>1, <1>2, <1>3, PTL DEF Spec

(* Whatever a peer with a log has announced is in the log, or, for RUNNING,   *)
(* the claim it followed: _broadcast_task_update and _recv_loop append before *)
(* anything is sent.  With and without security, for every number of peers,   *)
(* tasks and submissions, and crashes between any two appends, as long as no  *)
(* merge has voided a signature; without security none ever does.             *)
THEOREM WriteAhead == Spec /\ []SignaturesHold => []AnnouncedIsLogged
<1>1. Init => AnnouncedInv
  BY InitType, AnnouncedInit, Zenon
<1>2. AnnouncedInv /\ SignaturesHold /\ SignaturesHold' /\ [Next]_vars => AnnouncedInv'
  BY QueuesBehave, NextType, AnnouncedNext, Zenon DEF AnnouncedInv, MemoryInv
<1>3. AnnouncedInv => AnnouncedIsLogged
  <2> SUFFICES ASSUME AnnouncedInv, NEW m \in net, m.from \in WalNodes
               PROVE  LET r == log[m.from].tasks[m.task]
                      IN  IF m.rec.state = "RUNNING"
                          THEN ~ TokenGreater(m.rec.token, r.token) \/ IsTerminal(r.state)
                          ELSE /\ ClockLeq(m.rec.vc, r.vc)
                               /\ LexGeq(RecordLatticeKey(r), RecordLatticeKey(m.rec))
    BY Zenon DEF AnnouncedIsLogged
  <2>1. m.task \in Tasks
    BY Zenon DEF AnnouncedInv, MemoryInv, TypeOK, Message
  <2>2. BelowLog(m.rec, log[m.from].tasks[m.task])
    BY <2>1, Zenon DEF AnnouncedInv, LogInv
  <2> QED
    BY <2>2, Zenon DEF BelowLog, TokenLogged
<1> QED
  BY <1>1, <1>2, <1>3, PTL DEF Spec

(* A fencing token names one claim (FenceToken.next_for): with and without   *)
(* security, whatever the number of peers and tasks, whoever crashes and     *)
(* between whichever appends, and whatever the failure detectors report, in  *)
(* every run in which no merge voids a signature and no peer submits a task  *)
(* that it holds, when every peer that is started again has a log.  The same *)
(* identifier may be submitted at several peers.                             *)
THEOREM TokensNameClaims ==
    ASSUME Restarting \subseteq WalNodes
    PROVE  Spec /\ []SignaturesHold /\ [][FreshSubmits]_vars => []TokenUnique
<1>1. Init => ClaimInv
  BY InitType, ClaimInit, Zenon
<1>2. ClaimInv /\ SignaturesHold /\ SignaturesHold' /\ [Next]_vars /\ [FreshSubmits]_vars
          => ClaimInv'
  BY QueuesBehave, NextType, ClaimNext, Zenon DEF ClaimInv, MemoryInv
<1> QED
  BY <1>1, <1>2, ClaimsUnique, PTL DEF Spec

(* A worker that runs has an entry in its queue for every PENDING record    *)
(* that it holds (submit_task, _recv_loop, _reclaim_loop and                *)
(* _recover_from_wal): with and without security, whatever crashes, in      *)
(* every run in which no peer submits a task that it holds, when the queue  *)
(* has room for all tasks.                                                  *)
THEOREM PendingTasksAreServed ==
    ASSUME Cardinality(Tasks) <= QueueSize
    PROVE  Spec /\ [][FreshSubmits]_vars => []PendingIsServed
<1> DEFINE Inv == MemoryInv /\ QueueInv
<1>1. Init => Inv
  BY InitType, MemoryInit, QueueInit, Zenon
<1>2. Inv /\ [Next]_vars /\ [FreshSubmits]_vars => Inv'
  BY QueuesBehave, NextType, MemoryNext, QueueNext, Zenon DEF MemoryInv
<1>3. Inv => PendingIsServed
  <2> SUFFICES ASSUME MemoryInv, QueueInv, NEW n \in Workers, NEW t \in Tasks,
                      up[n], tasks[n][t].state = "PENDING"
               PROVE  \E i \in DOMAIN queue[n] : queue[n][i].task = t
    BY Zenon DEF PendingIsServed
  <2>1. n \in Peers
    BY RolesAssumption, Zenon
  <2>2. t \in queued[n] /\ TasksOf(queue[n]) = queued[n]
    BY <2>1, Zenon DEF QueueInv, Serves, Marked
  <2> QED
    BY <2>2, Zenon DEF TasksOf
<1> HIDE DEF Inv
<1> QED
  BY <1>1, <1>2, <1>3, PTL DEF Spec

=============================================================================
