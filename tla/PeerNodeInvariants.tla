------------------------- MODULE PeerNodeInvariants -------------------------
(***************************************************************************)
(* Two inductive invariants of PeerNode: the queues of the workers, and    *)
(* the claims that a fencing token stands for.                             *)
(***************************************************************************)
EXTENDS RecordProofs

-----------------------------------------------------------------------------
(* The queues of the workers *)

(* The tasks in the queue of n are distinct, and are the marked ones. *)
Marked(n) == Distinct(queue[n]) /\ TasksOf(queue[n]) = queued[n]

(* A marked task has a record. *)
MarkedAreKnown(n) == \A t \in queued[n] : tasks[n][t] # NoRecord

(* A worker that runs has every PENDING task in its queue. *)
Serves(n) ==
    n \in Workers /\ up[n] => \A t \in Tasks : tasks[n][t].state = "PENDING" => t \in queued[n]

QueueInv == \A n \in Peers : Marked(n) /\ MarkedAreKnown(n) /\ Serves(n)

(* What is enqueued finds room, when the queue has room for all tasks. *)
LEMMA EnqueueMarks ==
    ASSUME QueueFacts, Cardinality(Tasks) <= QueueSize, TypeOK, QueueInv,
           NEW n \in Peers, NEW t \in Tasks, NEW pri \in {0, 10}, NEW condition \in BOOLEAN, EnqueueIf(n, t, pri, condition)
    PROVE  /\ \A p \in Peers : Marked(p)'
           /\ \A p \in Peers : p # n => queued'[p] = queued[p]
           /\ queued'[n] = IF condition THEN queued[n] \cup {t} ELSE queued[n]
<1>1. queue[n] \in Seq(Entry) /\ queued[n] \in SUBSET Tasks /\ DOMAIN queue = Peers /\ DOMAIN queued = Peers
  BY Zenon DEF TypeOK
<1>2. \A p \in Peers : Marked(p)
  BY Zenon DEF QueueInv
<1>3. t \notin queued[n] => ~ Full(queue[n])
  <2> SUFFICES ASSUME t \notin queued[n] PROVE ~ Full(queue[n])
    BY Zenon
  <2>1. Len(queue[n]) < Cardinality(Tasks)
    BY <1>1, <1>2, Zenon DEF Marked, QueueFacts, PutFacts
  <2>2. Len(queue[n]) \in Nat /\ Cardinality(Tasks) \in Nat
    <3>1. Cardinality(Tasks) \in Nat
      BY Zenon DEF QueueFacts, OrderFacts
    <3> QED
      BY <1>1, <3>1
  <2> QED
    BY <2>1, <2>2, BoundsAssumption DEF Full
<1>4. CASE condition /\ t \notin queued[n]
  <2>1. /\ queue' = [queue EXCEPT ![n] = Put(queue[n], t, pri)]
        /\ queued' = [queued EXCEPT ![n] = queued[n] \cup {t}]
    BY <1>3, <1>4, Zenon DEF EnqueueIf
  <2>2. /\ Distinct(Put(queue[n], t, pri))
        /\ TasksOf(Put(queue[n], t, pri)) = queued[n] \cup {t}
    BY <1>1, <1>2, <1>4, ZenonT(60) DEF Marked, QueueFacts, PutFacts
  <2>3. /\ queue'[n] = Put(queue[n], t, pri) /\ queued'[n] = queued[n] \cup {t}
        /\ \A p \in Peers : p # n => queue'[p] = queue[p] /\ queued'[p] = queued[p]
    BY <1>1, <2>1, Zenon
  <2>4. Marked(n)'
    BY <2>2, <2>3, Zenon DEF Marked
  <2>5. \A p \in Peers : p # n => Marked(p)'
    BY <1>2, <2>3, Zenon DEF Marked
  <2> QED
    BY <1>4, <2>3, <2>4, <2>5, Zenon
<1>5. CASE ~ (condition /\ t \notin queued[n])
  <2>1. queue' = queue /\ queued' = queued
    BY <1>5, Zenon DEF EnqueueIf
  <2> QED
    BY <1>2, <1>5, <2>1, Zenon DEF Marked
<1> QED
  BY <1>4, <1>5, Zenon

(* What is dequeued loses its mark. *)
LEMMA DequeueMarks ==
    ASSUME QueueFacts, TypeOK, QueueInv, NEW n \in Peers, CanDequeue(n), Dequeue(n)
    PROVE  /\ \A p \in Peers : Marked(p)'
           /\ \A p \in Peers : p # n => queued'[p] = queued[p]
           /\ queued'[n] = queued[n] \ {Head(queue[n]).task}
<1>1. queue[n] \in Seq(Entry) /\ queue[n] # <<>> /\ DOMAIN queue = Peers /\ DOMAIN queued = Peers
  BY Zenon DEF TypeOK, CanDequeue
<1>2. \A p \in Peers : Marked(p)
  BY Zenon DEF QueueInv
<1>3. /\ queue'[n] = Tail(queue[n]) /\ queued'[n] = queued[n] \ {Head(queue[n]).task}
      /\ \A p \in Peers : p # n => queue'[p] = queue[p] /\ queued'[p] = queued[p]
  BY <1>1, Zenon DEF Dequeue
<1>4. Marked(n)'
  BY <1>1, <1>2, <1>3, Zenon DEF Marked, QueueFacts, TailFacts
<1>5. \A p \in Peers : p # n => Marked(p)'
  BY <1>2, <1>3, Zenon DEF Marked
<1> QED
  BY <1>3, <1>4, <1>5, Zenon

(* Nothing is pending at the start. *)
LEMMA QueueInit == Init => QueueInv
<1> SUFFICES ASSUME Init, NEW n \in Peers PROVE Marked(n) /\ MarkedAreKnown(n) /\ Serves(n)
  BY Zenon DEF QueueInv
<1>1. queue[n] = <<>> /\ queued[n] = {} /\ \A t \in Tasks : tasks[n][t] = NoRecord
  BY Zenon DEF Init, EmptyStore
<1>2. Marked(n)
  BY <1>1 DEF Marked, Distinct, TasksOf
<1>3. Serves(n)
  BY <1>1 DEF Serves, NoRecord
<1> QED
  BY <1>1, <1>2, <1>3, Zenon DEF MarkedAreKnown

(* Marks stay on known tasks when nothing is forgotten and only a known task *)
(* is marked.                                                                *)
LEMMA KnownStayMarked ==
    ASSUME TypeOK, QueueInv, NEW n \in Peers, NEW t \in Tasks, tasks'[n][t] # NoRecord,
           \A p \in Peers, u \in Tasks : tasks[p][u] # NoRecord => tasks'[p][u] # NoRecord,
           \A p \in Peers : p # n => queued'[p] = queued[p],
           queued'[n] \subseteq queued[n] \cup {t}
    PROVE  \A p \in Peers : MarkedAreKnown(p)'
<1> SUFFICES ASSUME NEW p \in Peers, NEW u \in queued'[p] PROVE tasks'[p][u] # NoRecord
  BY Zenon DEF MarkedAreKnown
<1>1. ASSUME u \in queued[p] PROVE tasks'[p][u] # NoRecord
  <2>1. u \in Tasks
    BY <1>1, Zenon DEF TypeOK
  <2>2. tasks[p][u] # NoRecord
    BY <1>1, Zenon DEF QueueInv, MarkedAreKnown
  <2> QED
    BY <2>1, <2>2, Zenon
<1>2. u \in queued[p] \/ (p = n /\ u = t)
  BY Zenon
<1> QED
  BY <1>1, <1>2, Zenon

(* A submission of a task that the peer does not hold puts it into the queue. *)
LEMMA SubmitServes ==
    ASSUME QueueFacts, Cardinality(Tasks) <= QueueSize, MemoryInv, TypeOK',
           QueueInv, NEW n \in Peers, NEW t \in Tasks, Submit(n, t), tasks[n][t] = NoRecord
    PROVE  QueueInv'
<1> TypeOK
  BY Zenon DEF MemoryInv
<1>1. Writes(n, t, NewTask(n))
  BY SubmitWrites, Zenon
<1>2. tasks'[n][t] # NoRecord
  BY <1>1, WritesOne, Zenon DEF Writes
<1>3. t \notin queued[n]
  BY Zenon DEF QueueInv, MarkedAreKnown
<1>4. EnqueueIf(n, t, 0, TRUE)
  BY <1>3, Zenon DEF Submit, EnqueueIf
<1>5. /\ \A p \in Peers : Marked(p)'
      /\ \A p \in Peers : p # n => queued'[p] = queued[p]
      /\ queued'[n] = queued[n] \cup {t}
  BY <1>4, EnqueueMarks, Zenon
<1>6. \A p \in Peers : MarkedAreKnown(p)'
  BY <1>1, <1>2, <1>5, WriteKeepsTasks, KnownStayMarked, Zenon
<1>7. \A p \in Peers : Serves(p)'
  BY <1>1, <1>5 DEF Writes, Stored, QueueInv, Serves
<1> QED
  BY <1>5, <1>6, <1>7, Zenon DEF QueueInv

(* A record that is received and still PENDING is put into the queue. *)
LEMMA ReceiveServes ==
    ASSUME QueueFacts, Cardinality(Tasks) <= QueueSize, MemoryInv, TypeOK', QueueInv,
           NEW n \in Peers, NEW m \in net, Receive(n, m)
    PROVE  QueueInv'
<1> TypeOK
  BY Zenon DEF MemoryInv
<1> DEFINE t == m.task
           r == Joined(tasks[n][t], m.rec)
<1>1. Writes(n, t, r)
  BY ReceiveWrites, Zenon
<1>2. EnqueueIf(n, t, 0, r.state = "PENDING")
  BY Zenon DEF Receive
<1> HIDE DEF r, t
<1>3. t \in Tasks /\ tasks'[n][t] # NoRecord
  BY <1>1, WritesOne, Zenon DEF Writes
<1>4. /\ \A p \in Peers : Marked(p)'
      /\ \A p \in Peers : p # n => queued'[p] = queued[p]
      /\ queued'[n] = IF r.state = "PENDING" THEN queued[n] \cup {t} ELSE queued[n]
  <2>1. (r.state = "PENDING") \in BOOLEAN
    BY Zenon
  <2> QED
    BY <1>2, <1>3, <2>1, EnqueueMarks, Zenon
<1>5. queued'[n] \subseteq queued[n] \cup {t}
  BY <1>4, Zenon
<1>6. \A p \in Peers : MarkedAreKnown(p)'
  BY <1>1, <1>3, <1>4, <1>5, WriteKeepsTasks, KnownStayMarked, Zenon
<1>7. \A p \in Peers : Serves(p)'
  BY <1>1, <1>4 DEF Writes, Stored, QueueInv, Serves
<1> QED
  BY <1>4, <1>6, <1>7, Zenon DEF QueueInv

(* The audit of a worker puts tasks back into the queue. *)
LEMMA ReclaimServes ==
    ASSUME QueueFacts, Cardinality(Tasks) <= QueueSize, MemoryInv, QueueInv,
           NEW n \in Peers, NEW t \in Tasks, NEW S, ReclaimEnqueue(n, t, S)
    PROVE  QueueInv'
<1> TypeOK
  BY Zenon DEF MemoryInv
<1>1. EnqueueIf(n, t, 10, TRUE) /\ UNCHANGED <<up, tasks>>
  BY Zenon DEF ReclaimEnqueue
<1>2. tasks'[n][t] # NoRecord
  <2>1. tasks[n][t].state \in {"CLAIMED", "RUNNING"}
    BY Zenon DEF ReclaimEnqueue, Reclaimable
  <2>2. tasks[n][t] # NoRecord
    BY <2>1 DEF NoRecord
  <2> QED
    BY <1>1, <2>2, Zenon
<1>3. /\ \A p \in Peers : Marked(p)'
      /\ \A p \in Peers : p # n => queued'[p] = queued[p]
      /\ queued'[n] = queued[n] \cup {t}
  BY <1>1, EnqueueMarks, Zenon
<1>4. \A p \in Peers : MarkedAreKnown(p)'
  BY <1>1, <1>2, <1>3, KnownStayMarked, Zenon
<1>5. \A p \in Peers : Serves(p)'
  BY <1>1, <1>3, Zenon DEF QueueInv, Serves
<1> QED
  BY <1>3, <1>4, <1>5, Zenon DEF QueueInv

(* A task that is skipped is not PENDING. *)
LEMMA SkipServes ==
    ASSUME QueueFacts, TypeOK, QueueInv, NEW n \in Peers, NEW S, WorkerSkip(n, S)
    PROVE  QueueInv'
<1> DEFINE h == Head(queue[n]).task
<1>1. CanDequeue(n) /\ Dequeue(n) /\ UNCHANGED <<up, tasks>>
  BY Zenon DEF WorkerSkip
<1>2. tasks[n][h].state # "PENDING"
  <2>1. Skips(n, tasks[n][h], S)
    BY Zenon DEF WorkerSkip
  <2>2. NoRecord.state # "PENDING"
    BY Zenon DEF NoRecord
  <2> QED
    BY <2>1, <2>2, Zenon DEF Skips, IsTerminal, HasActiveClaim
<1> HIDE DEF h
<1>3. /\ \A p \in Peers : Marked(p)'
      /\ \A p \in Peers : p # n => queued'[p] = queued[p]
      /\ queued'[n] = queued[n] \ {h}
  BY <1>1, DequeueMarks, Zenon DEF h
<1>4. \A p \in Peers : MarkedAreKnown(p)'
  BY <1>1, <1>3, Zenon DEF QueueInv, MarkedAreKnown
<1>5. \A p \in Peers : Serves(p)'
  BY <1>1, <1>2, <1>3, Zenon DEF QueueInv, Serves
<1> QED
  BY <1>3, <1>4, <1>5, Zenon DEF QueueInv

(* A task that is claimed is not PENDING any more. *)
LEMMA ClaimServes ==
    ASSUME QueueFacts, TypeOK, TypeOK', QueueInv, NEW n \in Peers, NEW S, NEW d,
           WorkerClaim(n, S, d)
    PROVE  QueueInv'
<1> DEFINE h == Head(queue[n]).task
           r == Claim(n, h, d)
<1>1. CanDequeue(n) /\ Dequeue(n)
  BY Zenon DEF WorkerClaim, MayClaim
<1>2. Writes(n, h, r)
  BY ClaimWrites, Zenon
<1>3. r.state = "CLAIMED"
  BY SealedIsRecord DEF Claim, TaskState
<1> HIDE DEF h, r
<1>4. /\ \A p \in Peers : Marked(p)'
      /\ \A p \in Peers : p # n => queued'[p] = queued[p]
      /\ queued'[n] = queued[n] \ {h}
  BY <1>1, DequeueMarks, Zenon DEF h
<1>5. \A p \in Peers : MarkedAreKnown(p)'
  <2>1. h \in Tasks /\ tasks'[n][h] # NoRecord
    BY <1>2, WritesOne, Zenon DEF Writes
  <2>2. queued'[n] \subseteq queued[n] \cup {h}
    BY <1>4, Zenon
  <2> QED
    BY <1>2, <1>4, <2>1, <2>2, WriteKeepsTasks, KnownStayMarked, Zenon
<1>6. \A p \in Peers : Serves(p)'
  BY <1>2, <1>3, <1>4 DEF QueueInv, Serves, Writes, Stored
<1> QED
  BY <1>4, <1>5, <1>6, Zenon DEF QueueInv

(* The other writes leave the queues alone: what they store is not PENDING,  *)
(* or the peer has no handler.                                               *)
LEMMA WriteServes ==
    ASSUME TypeOK, QueueInv, NEW n \in Peers, NEW t, NEW r, Writes(n, t, r),
           r.state # "PENDING" \/ n \notin Workers,
           UNCHANGED <<queue, queued>>
    PROVE  QueueInv'
<1>1. \A p \in Peers : Marked(p)' /\ MarkedAreKnown(p)'
  <2>1. t \in Tasks /\ tasks'[n][t] # NoRecord
    BY WritesOne, Zenon DEF Writes
  <2>2. \A p \in Peers : MarkedAreKnown(p)'
    BY <2>1, WriteKeepsTasks, KnownStayMarked, Zenon
  <2> QED
    BY <2>2, Zenon DEF QueueInv, Marked
<1>2. \A p \in Peers : Serves(p)'
  BY DEF QueueInv, Serves, Writes, Stored
<1> QED
  BY <1>1, <1>2, Zenon DEF QueueInv

(* The queue of a peer that a step leaves alone *)
LEMMA UntouchedQueue ==
    ASSUME NEW p \in Peers, Marked(p), MarkedAreKnown(p), Serves(p),
           up'[p] <=> up[p], tasks'[p] = tasks[p], queue'[p] = queue[p], queued'[p] = queued[p]
    PROVE  Marked(p)' /\ MarkedAreKnown(p)' /\ Serves(p)'
<1>1. Marked(p)'
  BY Zenon DEF Marked
<1>2. MarkedAreKnown(p)'
  BY Zenon DEF MarkedAreKnown
<1>3. Serves(p)'
  BY Zenon DEF Serves
<1> QED
  BY <1>1, <1>2, <1>3, Zenon

(* The end of a process empties the queue of the peer, which is down. *)
LEMMA HaltServes ==
    ASSUME TypeOK, QueueInv, NEW n \in Peers, Halts(n)
    PROVE  QueueInv'
<1>1. /\ ~ up'[n] /\ \A p \in Peers : p # n => (up'[p] <=> up[p]) /\ tasks'[p] = tasks[p]
  BY Zenon DEF Halts, TypeOK
<1>2. /\ queue'[n] = <<>> /\ queued'[n] = {}
      /\ \A p \in Peers : p # n => queue'[p] = queue[p] /\ queued'[p] = queued[p]
  BY Zenon DEF Halts, TypeOK
<1>3. Marked(n)' /\ MarkedAreKnown(n)' /\ Serves(n)'
  BY <1>1, <1>2 DEF Marked, Distinct, TasksOf, MarkedAreKnown, Serves
<1>4. \A p \in Peers : p # n => Marked(p)' /\ MarkedAreKnown(p)' /\ Serves(p)'
  BY <1>1, <1>2, UntouchedQueue, Zenon DEF QueueInv
<1> QED
  BY <1>3, <1>4, Zenon DEF QueueInv

(* A peer that comes back queues all PENDING tasks of its log. *)
LEMMA RestartServes ==
    ASSUME QueueFacts, Cardinality(Tasks) <= QueueSize, MemoryInv, QueueInv,
           NEW n \in Peers, Restart(n)
    PROVE  QueueInv'
<1> TypeOK
  BY Zenon DEF MemoryInv
<1> DEFINE pending == {t \in Tasks : log[n].tasks[t].state = "PENDING"}
           size == Cardinality(pending)
<1>1. size \in Nat /\ size <= QueueSize
  <2>1. size \in Nat /\ size <= Cardinality(Tasks) /\ Cardinality(Tasks) \in Nat
    BY Zenon DEF QueueFacts, OrderFacts
  <2> QED
    BY <2>1, BoundsAssumption
<1>2. PICK order \in [1 .. size -> pending] :
          /\ \A i, j \in 1 .. size : order[i] = order[j] => i = j
          /\ queue' = [queue EXCEPT ![n] = [i \in 1 .. size |-> [task |-> order[i], pri |-> 0]]]
          /\ queued' = [queued EXCEPT ![n] = {order[i] : i \in 1 .. size}]
  BY <1>1, ZenonT(60) DEF Restart, Requeue, Recovered
<1>3. {order[i] : i \in 1 .. size} = pending
  <2>1. pending \in SUBSET Tasks
    BY Zenon
  <2> QED
    BY <1>2, <2>1, Zenon DEF QueueFacts, OrderFacts
<1>4. /\ \A p \in Peers, u \in Tasks :
             tasks'[p][u] = IF p = n THEN log[n].tasks[u] ELSE tasks[p][u]
      /\ \A p \in Peers : p # n => (up'[p] <=> up[p])
      /\ \A p \in Peers : p # n => tasks'[p] = tasks[p]
  <2>1. tasks' = [tasks EXCEPT ![n] = Recovered(n)]
    BY Zenon DEF Restart
  <2>2. \A p \in Peers : p # n => tasks'[p] = tasks[p]
    BY <2>1, Zenon DEF TypeOK
  <2> QED
    BY <2>2, RestartRecovers, Zenon
<1> DEFINE q == [i \in 1 .. size |-> [task |-> order[i], pri |-> 0]]
<1>5. /\ queue'[n] = q /\ queued'[n] = pending
      /\ \A p \in Peers : p # n => queue'[p] = queue[p] /\ queued'[p] = queued[p]
  BY <1>2, <1>3, Zenon DEF TypeOK
<1>6. DOMAIN q = 1 .. size /\ \A i \in 1 .. size : q[i].task = order[i]
  BY Zenon
<1> HIDE DEF q, size
<1>7. Marked(n)'
  <2>1. Distinct(q)
    BY <1>2, <1>6 DEF Distinct
  <2>2. TasksOf(q) = pending
    BY <1>3, <1>6 DEF TasksOf
  <2> QED
    BY <1>5, <2>1, <2>2, Zenon DEF Marked
<1>8. MarkedAreKnown(n)'
  <2>1. NoRecord.state # "PENDING"
    BY Zenon DEF NoRecord
  <2> QED
    BY <1>4, <1>5, <2>1, Zenon DEF MarkedAreKnown
<1>9. Serves(n)'
  BY <1>4, <1>5, Zenon DEF Serves
<1>10. \A p \in Peers : p # n => Marked(p)' /\ MarkedAreKnown(p)' /\ Serves(p)'
  BY <1>4, <1>5, UntouchedQueue, Zenon DEF QueueInv
<1> QED
  BY <1>7, <1>8, <1>9, <1>10, Zenon DEF QueueInv

(* A submission is a step, so that FreshSubmits speaks about it. *)
LEMMA SubmitIsFresh ==
    ASSUME TypeOK, [FreshSubmits]_vars, NEW n \in Peers, NEW t \in Tasks, Submit(n, t)
    PROVE  tasks[n][t] = NoRecord
<1>1. submits \in [Tasks -> Nat] /\ submits' = [submits EXCEPT ![t] = submits[t] + 1]
  BY Zenon DEF TypeOK, Submit
<1>2. submits' # submits
  BY <1>1
<1>3. vars' # vars
  BY <1>2, Zenon DEF vars
<1> QED
  BY <1>3, Zenon DEF FreshSubmits

(* Every step keeps QueueInv. *)
LEMMA QueueNext ==
    ASSUME QueueFacts, Cardinality(Tasks) <= QueueSize, MemoryInv, QueueInv,
           TypeOK', [Next]_vars, [FreshSubmits]_vars
    PROVE  QueueInv'
<1> TypeOK /\ Held
  BY Zenon DEF MemoryInv
<1>1. ASSUME NEW n \in Peers, NEW t \in Tasks, Submit(n, t) PROVE QueueInv'
  BY <1>1, SubmitIsFresh, SubmitServes, Zenon
<1>2. ASSUME NEW n \in Peers, NEW m \in net, Receive(n, m) PROVE QueueInv'
  BY <1>2, ReceiveServes, Zenon
<1>3. ASSUME NEW n \in Peers, NEW S, WorkerSkip(n, S) PROVE QueueInv'
  BY <1>3, SkipServes, Zenon
<1>4. ASSUME NEW n \in Peers, NEW S, NEW d, WorkerClaim(n, S, d) PROVE QueueInv'
  BY <1>4, ClaimServes, Zenon
<1>5. ASSUME NEW n \in Peers, WorkerRun(n) PROVE QueueInv'
  <2>1. Writes(n, worker[n].task, Running(n))
    BY <1>5, RunWrites, Zenon
  <2>2. Running(n).state = "RUNNING"
    BY SealedIsRecord DEF Running, TaskState
  <2>3. queue' = queue /\ queued' = queued
    BY <1>5, Zenon DEF WorkerRun
  <2> QED
    BY <2>1, <2>2, <2>3, WriteServes, Zenon
<1>6. ASSUME NEW n \in Peers, WorkerReject(n) PROVE QueueInv'
  BY <1>6, Zenon DEF WorkerReject, QueueInv, Marked, MarkedAreKnown, Serves
<1>7. ASSUME NEW n \in Peers, NEW outcome \in Outcomes, WorkerCommit(n, outcome) PROVE QueueInv'
  <2>1. Writes(n, worker[n].task, Result(n, outcome))
    BY <1>7, CommitWrites, Zenon
  <2>2. Result(n, outcome).state = outcome
    BY SealedIsRecord, OutcomesAssumption DEF Result, TaskState
  <2>3. queue' = queue /\ queued' = queued
    BY <1>7, Zenon DEF WorkerCommit
  <2> QED
    BY <2>1, <2>2, <2>3, OutcomesAssumption, WriteServes, Zenon
<1>8. ASSUME NEW n \in Peers, NEW t \in Tasks, NEW S, ReclaimEnqueue(n, t, S) PROVE QueueInv'
  BY <1>8, ReclaimServes, Zenon
<1>9. ASSUME NEW n \in Peers, NEW t \in Tasks, NEW S, ReclaimRelease(n, t, S) PROVE QueueInv'
  <2>1. Writes(n, t, Released(n, t, S)) /\ n \notin Workers
    BY <1>9, ReleaseWrites, Zenon
  <2>2. queue' = queue /\ queued' = queued
    BY <1>9, Zenon DEF ReclaimRelease
  <2> QED
    BY <2>1, <2>2, WriteServes, Zenon
<1>10. ASSUME NEW n \in Peers, ReclaimEnd(n) PROVE QueueInv'
  BY <1>10, Zenon DEF ReclaimEnd, QueueInv, Marked, MarkedAreKnown, Serves
<1>11. ASSUME NEW n \in Peers, Crash(n) \/ CrashInAppend(n) PROVE QueueInv'
  <2>1. Halts(n)
    BY <1>11, Zenon DEF Crash, CrashInAppend, CutShort
  <2> QED
    BY <2>1, HaltServes, Zenon
<1>12. ASSUME NEW n \in Peers, Restart(n) PROVE QueueInv'
  BY <1>12, RestartServes, Zenon
<1>13. CASE Tick
  BY <1>13, Zenon DEF Tick, QueueInv, Marked, MarkedAreKnown, Serves
<1>14. CASE UNCHANGED vars
  BY <1>14, Zenon DEF vars, QueueInv, Marked, MarkedAreKnown, Serves
<1> QED
  BY <1>1, <1>2, <1>3, <1>4, <1>5, <1>6, <1>7, <1>8, <1>9, <1>10, <1>11, <1>12, <1>13, <1>14, Zenon
     DEF Next, NodeStep

-----------------------------------------------------------------------------
(* Claims *)

(* What SameClaim looks at *)
Shape(r) ==
    [state |-> r.state, claimed_by |-> r.claimed_by, token |-> r.token, lease |-> r.lease]

(* The records of a task: under way, in the stores and in the logs *)
Records(t) ==
    {r \in TaskRecord :
        \/ \E m \in net : m.task = t /\ m.rec = r
        \/ \E n \in Peers : tasks[n][t] = r \/ log[n].tasks[t] = r}

Claims(t) == {Shape(r) : r \in {x \in Records(t) : x.token # NoToken}}

(* A peer that holds s makes no second claim under an epoch up to e: the    *)
(* task is over for it, or the next token has a higher epoch.               *)
Covers(s, e) == IsTerminal(s.state) \/ e <= s.token.epoch

(* x covers whatever s covered. *)
CoversMore(s, x) == \A e \in Nat : Covers(s, e) => Covers(x, e)

(* The claim c of peer n is the one that its worker, in state w, is busy    *)
(* with, or a lower one.                                                    *)
UpTo(w, n, c) ==
    /\ c.token.epoch <= w.token.epoch
    /\ c.token.epoch = w.token.epoch =>
           c.claimed_by = n /\ c.lease = w.lease /\ ~ IsTerminal(c.state)

(* Whatever peer n may build its next token on, its store, its log, the     *)
(* snapshot of its audit or the token of its worker, covers claim c.        *)
Covered(n, t, c) ==
    /\ up[n] => Covers(tasks[n][t], c.token.epoch)
    /\ n \in WalNodes => Covers(log[n].tasks[t], c.token.epoch)
    /\ snap[n][t] # NoRecord => c.token.epoch <= snap[n][t].token.epoch
    /\ worker[n].pc # "idle" /\ worker[n].task = t => UpTo(worker[n], n, c)

(* The worker has a token of its own peer, which the log covers. *)
OwnToken(n) ==
    worker[n].pc # "idle" =>
        /\ worker[n].token.peer = n
        /\ n \in WalNodes => Covers(log[n].tasks[worker[n].task], worker[n].token.epoch)

Unique == \A t \in Tasks : \A c, d \in Claims(t) : c.token = d.token => SameClaim(c, d)

Issued == \A n \in Peers, t \in Tasks : \A c \in Claims(t) : c.token.peer = n => Covered(n, t, c)

TokenInv == Unique /\ Issued /\ \A n \in Peers : OwnToken(n)

(* The fields of a shape are those of the record. *)
LEMMA ShapeFields ==
    ASSUME NEW r
    PROVE  /\ Shape(r).state = r.state /\ Shape(r).claimed_by = r.claimed_by
           /\ Shape(r).token = r.token /\ Shape(r).lease = r.lease
BY Zenon DEF Shape

(* The tokens of claims have epochs. *)
LEMMA ClaimEpochs ==
    ASSUME NEW t
    PROVE  \A c \in Claims(t) : c.token.epoch \in Nat
<1> SUFFICES ASSUME NEW r \in TaskRecord PROVE Shape(r).token.epoch \in Nat
  BY Zenon DEF Claims, Records
<1> QED
  BY ShapeFields, RecordParts, Zenon

(* The same after a step *)
LEMMA ClaimEpochsNext ==
    ASSUME NEW t
    PROVE  \A c \in Claims(t)' : c.token.epoch \in Nat
<1> SUFFICES ASSUME NEW r \in TaskRecord PROVE Shape(r).token.epoch \in Nat
  BY Zenon DEF Claims, Records
<1> QED
  BY ShapeFields, RecordParts, Zenon

(* A higher record covers more. *)
LEMMA AboveCovers ==
    ASSUME NEW s \in TaskRecord, NEW x \in TaskRecord,
           LexGeq(RecordLatticeKey(x), RecordLatticeKey(s))
    PROVE  CoversMore(s, x) /\ Covers(x, s.token.epoch)
<1>1. /\ IsTerminal(s.state) => IsTerminal(x.state)
      /\ IsTerminal(s.state) = IsTerminal(x.state) => s.token.epoch <= x.token.epoch
  BY AboveMeans, Zenon
<1>2. s.token.epoch \in Nat /\ x.token.epoch \in Nat
  BY RecordParts, Zenon
<1>3. IsTerminal(x.state) \/ s.token.epoch <= x.token.epoch
  BY <1>1 DEF IsTerminal
<1>4. ASSUME NEW e \in Nat, Covers(s, e) PROVE Covers(x, e)
  BY <1>1, <1>2, <1>3, <1>4 DEF Covers
<1> QED
  BY <1>3, <1>4, Zenon DEF CoversMore, Covers

(* A join of authorised records covers what the two cover, and has the shape *)
(* of one of them.                                                           *)
LEMMA JoinedCovers ==
    ASSUME NEW s \in TaskRecord \cup {NoRecord}, NEW r \in TaskRecord,
           Authentic(s), Authentic(r)
    PROVE  LET x == Joined(s, r)
           IN  /\ CoversMore(s, x) /\ CoversMore(r, x) /\ Covers(x, r.token.epoch)
               /\ x \in TaskRecord
               /\ Shape(x) = Shape(r) \/ (s \in TaskRecord /\ Shape(x) = Shape(s))
<1> r.token.epoch \in Nat
  BY RecordParts, Zenon
<1>1. CASE s = NoRecord
  <2>1. Joined(s, r) = r
    BY <1>1, Zenon DEF Joined
  <2>2. CoversMore(s, r)
    <3>1. s.token.epoch = 0 /\ ~ IsTerminal(s.state)
      BY <1>1, Zenon DEF NoRecord, NoToken, IsTerminal
    <3> QED
      BY <3>1 DEF CoversMore, Covers
  <2>3. CoversMore(r, r) /\ Covers(r, r.token.epoch)
    BY DEF CoversMore, Covers
  <2> QED
    BY <2>1, <2>2, <2>3, Zenon
<1>2. CASE s \in TaskRecord
  <2> DEFINE x == MergeRecords(s, r)
  <2>1. Joined(s, r) = x
    BY <1>2, NoRecordType, Zenon DEF Joined
  <2>2. /\ x \in TaskRecord
        /\ \E y \in {s, r} : /\ x.state = y.state /\ x.token = y.token
                             /\ x.claimed_by = y.claimed_by /\ x.lease = y.lease
        /\ LexGeq(RecordLatticeKey(x), RecordLatticeKey(s))
        /\ LexGeq(RecordLatticeKey(x), RecordLatticeKey(r))
    BY <1>2, AuthenticMerge, Zenon
  <2> HIDE DEF x
  <2>3. Shape(x) = Shape(r) \/ Shape(x) = Shape(s)
    BY <2>2, Zenon DEF Shape
  <2>4. CoversMore(s, x) /\ CoversMore(r, x) /\ Covers(x, r.token.epoch)
    BY <1>2, <2>2, AboveCovers, Zenon
  <2> QED
    BY <1>2, <2>1, <2>2, <2>3, <2>4, Zenon
<1> QED
  BY <1>1, <1>2, Zenon

-----------------------------------------------------------------------------
(* The claims after a step *)

(* No step has a claim on u that was not there before. *)
OldClaims == \A u \in Tasks : Claims(u)' \subseteq Claims(u)

(* The log covers more than before. *)
LogCovers == \A p \in WalNodes, u \in Tasks : CoversMore(log[p].tasks[u], log'[p].tasks[u])

(* A record of the next state has the shape of a record of this one, or of  *)
(* r, if stores, logs and messages have such shapes.                        *)
LEMMA ClaimsFromRecords ==
    ASSUME NEW u \in Tasks, NEW A,
           \A y \in TaskRecord : y \in Records(u)' => \/ \E x \in Records(u) : Shape(y) = Shape(x)
                                                      \/ Shape(y) \in A
    PROVE  \A c \in Claims(u)' : c \in Claims(u) \/ (c \in A /\ c.token # NoToken)
<1> SUFFICES ASSUME NEW y \in TaskRecord, y \in Records(u)', y.token # NoToken
             PROVE  Shape(y) \in Claims(u) \/ (Shape(y) \in A /\ Shape(y).token # NoToken)
  BY Zenon DEF Claims, Records
<1>1. Shape(y).token = y.token
  BY ShapeFields, Zenon
<1>2. CASE Shape(y) \in A
  BY <1>1, <1>2, Zenon
<1>3. ASSUME NEW x \in Records(u), Shape(y) = Shape(x) PROVE Shape(y) \in Claims(u)
  <2>1. x.token # NoToken
    BY <1>1, <1>3, ShapeFields, Zenon
  <2> QED
    BY <1>3, <2>1, Zenon DEF Claims
<1> QED
  BY <1>2, <1>3, Zenon

(* Peer n puts r into its store for t, and tells others, or it ends there. *)
Puts(n, t, r) ==
    /\ t \in Tasks /\ r \in TaskRecord
    /\ \A p \in Peers : up'[p] => up[p]
    /\ \A p \in Peers, u \in Tasks :
           up'[p] => tasks'[p][u] = IF p = n /\ u = t THEN r ELSE tasks[p][u]
    /\ \A p \in Peers, u \in Tasks :
           \/ tasks'[p][u] \in {tasks[p][u], NoRecord}
           \/ p = n /\ u = t /\ tasks'[p][u] = r
    /\ \A m \in net' : m \notin net => m.rec = tasks'[n][m.task]

(* The log of n joins r for t, if anything. *)
LogPuts(n, t, r) ==
    \A p \in Peers, u \in Tasks :
        \/ log'[p].tasks[u] = log[p].tasks[u]
        \/ /\ p = n /\ u = t /\ Authentic(r)
           /\ log'[p].tasks[u] = Joined(log[p].tasks[u], r)

(* A write puts r into the store, *)
LEMMA WritesPut ==
    ASSUME NEW n \in Peers, NEW t, NEW r, Writes(n, t, r)
    PROVE  Puts(n, t, r)
<1>1. /\ t \in Tasks /\ r \in TaskRecord /\ up' = up
      /\ \A p \in Peers, u \in Tasks : tasks'[p][u] = IF p = n /\ u = t THEN r ELSE tasks[p][u]
      /\ \A m \in net' : m \notin net => m.rec = tasks'[n][m.task]
  BY Zenon DEF Writes, Stored
<1>2. \A p \in Peers, u \in Tasks :
          \/ tasks'[p][u] \in {tasks[p][u], NoRecord}
          \/ p = n /\ u = t /\ tasks'[p][u] = r
  BY <1>1
<1> QED
  BY <1>1, <1>2, Zenon DEF Puts

(* the end of the process does too, as it were, *)
LEMMA ForgetsPut ==
    ASSUME NEW n \in Peers, NEW t \in Tasks, NEW r \in TaskRecord, Forgets(n)
    PROVE  Puts(n, t, r)
<1>1. /\ \A p \in Peers : up'[p] <=> p # n /\ up[p]
      /\ \A p \in Peers, u \in Tasks : tasks'[p][u] = IF p = n THEN NoRecord ELSE tasks[p][u]
      /\ net' = net
  BY Zenon DEF Forgets
<1>2. \A p \in Peers, u \in Tasks : tasks'[p][u] \in {tasks[p][u], NoRecord}
  BY <1>1
<1>3. \A p \in Peers, u \in Tasks :
          up'[p] => tasks'[p][u] = IF p = n /\ u = t THEN r ELSE tasks[p][u]
  BY <1>1
<1> QED
  BY <1>1, <1>2, <1>3, Zenon DEF Puts

(* and the log joins it. *)
LEMMA LoggedPuts ==
    ASSUME NEW n \in Peers, NEW t \in Tasks, NEW r, Authentic(r), Logged(n, t, r)
    PROVE  LogPuts(n, t, r)
BY Zenon DEF LogPuts, Logged, LogTouches

(* After a write for t, whether it is logged or not *)
LEMMA ClaimsAfterWrite ==
    ASSUME TypeOK, SignaturesHold, NEW n \in Peers, NEW t, NEW r, Puts(n, t, r),
           LogPuts(n, t, r)
    PROVE  /\ \A u \in Tasks : \A c \in Claims(u)' :
                  c \in Claims(u) \/ (u = t /\ c = Shape(r) /\ c.token # NoToken)
           /\ LogCovers
<1>1. t \in Tasks /\ r \in TaskRecord
  BY Zenon DEF Puts
<1>2. log[n].tasks[t] \in TaskRecord \cup {NoRecord} /\ Authentic(log[n].tasks[t])
  BY <1>1, EntryTypes, Zenon DEF SignaturesHold
<1> DEFINE x == Joined(log[n].tasks[t], r)
<1>3. Authentic(r) =>
          /\ CoversMore(log[n].tasks[t], x)
          /\ Shape(x) = Shape(r) \/ (log[n].tasks[t] \in TaskRecord /\ Shape(x) = Shape(log[n].tasks[t]))
  BY <1>1, <1>2, JoinedCovers, Zenon
<1>4. \A p \in Peers, u \in Tasks :
          \/ log'[p].tasks[u] = log[p].tasks[u]
          \/ p = n /\ u = t /\ Authentic(r) /\ log'[p].tasks[u] = x
  BY <1>1, Zenon DEF LogPuts
<1> HIDE DEF x
<1>5. LogCovers
  BY <1>3, <1>4, RolesAssumption, Zenon DEF LogCovers, CoversMore
<1>6. ASSUME NEW u \in Tasks, NEW y \in TaskRecord, y \in Records(u)'
      PROVE  \/ \E z \in Records(u) : Shape(y) = Shape(z)
             \/ Shape(y) \in {k \in {Shape(r)} : u = t}
  <2>1. ASSUME NEW p \in Peers, y = tasks'[p][u] PROVE y \in Records(u) \/ (u = t /\ y = r)
    BY <2>1, NoRecordType, Zenon DEF Puts, Records
  <2>2. ASSUME NEW p \in Peers, y = log'[p].tasks[u]
        PROVE  (\E z \in Records(u) : Shape(y) = Shape(z)) \/ (u = t /\ Shape(y) = Shape(r))
    <3>1. CASE y = log[p].tasks[u]
      BY <3>1, Zenon DEF Records
    <3>2. CASE p = n /\ u = t /\ Authentic(r) /\ y = x
      <4>1. log[n].tasks[t] \in TaskRecord => log[n].tasks[t] \in Records(t)
        BY <1>1, Zenon DEF Records
      <4> QED
        BY <1>3, <3>2, <4>1, Zenon
    <3> QED
      BY <1>4, <2>2, <3>1, <3>2, Zenon
  <2>3. ASSUME NEW m \in net', m.task = u, m.rec = y PROVE y \in Records(u) \/ (u = t /\ y = r)
    <3>1. CASE m \in net
      BY <2>3, <3>1, Zenon DEF Records
    <3>2. CASE m \notin net
      <4>1. y = tasks'[n][u]
        BY <2>3, <3>2, Zenon DEF Puts
      <4> QED
        BY <2>1, <4>1, Zenon
    <3> QED
      BY <3>1, <3>2, Zenon
  <2>4. \/ \E m \in net' : m.task = u /\ m.rec = y
        \/ \E p \in Peers : tasks'[p][u] = y \/ log'[p].tasks[u] = y
    BY <1>6, Zenon DEF Records
  <2> QED
    BY <2>1, <2>2, <2>3, <2>4, Zenon
<1>7. ASSUME NEW u \in Tasks
      PROVE  \A c \in Claims(u)' :
                 c \in Claims(u) \/ (c \in {k \in {Shape(r)} : u = t} /\ c.token # NoToken)
  BY <1>6, ClaimsFromRecords, Zenon
<1> QED
  BY <1>5, <1>7, Zenon

(* The claims do not change when records stay, or are forgotten, or are    *)
(* taken from a log.                                                       *)
LEMMA ClaimsAfterRest ==
    ASSUME NEW n \in Peers,
           \A p \in Peers, u \in Tasks : log'[p].tasks[u] = log[p].tasks[u],
           \A p \in Peers, u \in Tasks : tasks'[p][u] \in {tasks[p][u], log[p].tasks[u], NoRecord},
           \A m \in net' : m \notin net => m.rec = log[n].tasks[m.task]
    PROVE  OldClaims
<1> SUFFICES ASSUME NEW u \in Tasks PROVE Claims(u)' \subseteq Claims(u)
  BY Zenon DEF OldClaims
<1>1. ASSUME NEW y \in TaskRecord, y \in Records(u)' PROVE y \in Records(u)
  <2>1. ASSUME NEW p \in Peers, y = tasks'[p][u] PROVE y \in Records(u)
    BY <2>1, NoRecordType, Zenon DEF Records
  <2>2. ASSUME NEW p \in Peers, y = log'[p].tasks[u] PROVE y \in Records(u)
    BY <2>2, Zenon DEF Records
  <2>3. ASSUME NEW m \in net', m.task = u, m.rec = y PROVE y \in Records(u)
    BY <2>3, Zenon DEF Records
  <2>4. \/ \E m \in net' : m.task = u /\ m.rec = y
        \/ \E p \in Peers : tasks'[p][u] = y \/ log'[p].tasks[u] = y
    BY <1>1, Zenon DEF Records
  <2> QED
    BY <2>1, <2>2, <2>3, <2>4, Zenon
<1>2. \A c \in Claims(u)' : c \in Claims(u) \/ (c \in {} /\ c.token # NoToken)
  BY <1>1, ClaimsFromRecords, Zenon
<1> QED
  BY <1>2, Zenon

-----------------------------------------------------------------------------
(* The two kinds of steps *)

(* A step that makes no claim keeps TokenInv, when stores and logs cover as *)
(* much as before, or a store is as its log is.                             *)
LEMMA KnownKeeps ==
    ASSUME TypeOK, TokenInv, OldClaims, LogCovers,
           \A p \in Peers, u \in Tasks : up'[p] =>
               \/ up[p] /\ CoversMore(tasks[p][u], tasks'[p][u])
               \/ p \in WalNodes /\ tasks'[p][u] = log[p].tasks[u],
           \A p \in Peers : worker'[p] = worker[p] \/ worker'[p].pc = "idle",
           \A p \in Peers, u \in Tasks : snap'[p][u] \in {snap[p][u], NoRecord}
    PROVE  TokenInv'
<1>1. Unique'
  BY Zenon DEF TokenInv, Unique, OldClaims
<1>2. ASSUME NEW p \in Peers, NEW u \in Tasks, NEW c \in Claims(u)', c.token.peer = p
      PROVE  Covered(p, u, c)'
  <2>1. c \in Claims(u) /\ c.token.epoch \in Nat
    BY ClaimEpochs, Zenon DEF OldClaims
  <2>2. Covered(p, u, c)
    BY <1>2, <2>1, Zenon DEF TokenInv, Issued
  <2>3. up'[p] => Covers(tasks'[p][u], c.token.epoch)
    BY <2>1, <2>2, Zenon DEF Covered, CoversMore
  <2>4. p \in WalNodes => Covers(log'[p].tasks[u], c.token.epoch)
    BY <2>1, <2>2, Zenon DEF Covered, LogCovers, CoversMore
  <2>5. snap'[p][u] # NoRecord => c.token.epoch <= snap'[p][u].token.epoch
    BY <2>2 DEF Covered
  <2>6. worker'[p].pc # "idle" /\ worker'[p].task = u => UpTo(worker'[p], p, c)
    BY <2>2, Zenon DEF Covered, UpTo
  <2> QED
    BY <2>3, <2>4, <2>5, <2>6, Zenon DEF Covered
<1>3. ASSUME NEW p \in Peers PROVE OwnToken(p)'
  <2> SUFFICES ASSUME worker'[p].pc # "idle"
               PROVE  /\ worker'[p].token.peer = p
                      /\ p \in WalNodes => Covers(log'[p].tasks[worker'[p].task], worker'[p].token.epoch)
    BY Zenon DEF OwnToken
  <2>1. worker'[p] = worker[p] /\ OwnToken(p)
    BY Zenon DEF TokenInv
  <2>2. worker[p].task \in Tasks
    BY <2>1, Zenon DEF TypeOK
  <2>3. worker[p].token.epoch \in Nat
    BY Zenon DEF TypeOK, WorkerState, FenceToken
  <2> QED
    BY <2>1, <2>2, <2>3, Zenon DEF OwnToken, LogCovers, CoversMore
<1> QED
  BY <1>1, <1>2, <1>3, Zenon DEF TokenInv, Issued

(* SameClaim on shapes is symmetric, and holds of a shape and itself. *)
LEMMA SameClaimSymmetric ==
    ASSUME NEW c, NEW d
    PROVE  SameClaim(c, c) /\ (SameClaim(c, d) => SameClaim(d, c))
BY Zenon DEF SameClaim, IsTerminal

(* r is a claim of n, no claim of n on t is above it, and the ones with the  *)
(* same token are the same claim.                                            *)
Fresh(n, t, r) ==
    /\ r.token.peer = n
    /\ \A c \in Claims(t) : c.token.peer = n =>
           /\ Covers(r, c.token.epoch)
           /\ c.token.epoch = r.token.epoch => SameClaim(c, Shape(r))

(* Nothing but the claim r on t is new, and the log of n covers it. *)
Issues(n, t, r) ==
    /\ \A u \in Tasks : \A c \in Claims(u)' : c \in Claims(u) \/ (u = t /\ c = Shape(r))
    /\ n \in WalNodes => Covers(log'[n].tasks[t], r.token.epoch)
    /\ snap'[n][t] = NoRecord

(* What a snapshot has was in it, or is now taken from the store. *)
SnapsAreOld ==
    \A p \in Peers, u \in Tasks : snap'[p][u] # NoRecord =>
        \/ snap'[p][u] = snap[p][u]
        \/ up[p] /\ snap'[p][u] = tasks[p][u] /\ ~ IsTerminal(tasks[p][u].state)

(* No worker but that of n moves, which is idle then or at work on r. *)
WorkerIssues(n, t, r) ==
    /\ \A p \in Peers : p # n => worker'[p] = worker[p]
    /\ worker'[n].pc # "idle" =>
           /\ worker'[n].task = t /\ worker'[n].token = r.token
           /\ UpTo(worker'[n], n, Shape(r))
           /\ \A c \in Claims(t) : c.token.peer = n => UpTo(worker'[n], n, c)

(* A step in which n writes r, a claim of its own on t, keeps TokenInv, when *)
(* no claim of n on t is above r, the ones with the same token are the same  *)
(* claim, and the log covers r.                                              *)
LEMMA IssueKeeps ==
    ASSUME TypeOK, TokenInv, LogCovers, NEW n \in Peers, NEW t, NEW r, Puts(n, t, r),
           Fresh(n, t, r), Issues(n, t, r), SnapsAreOld, WorkerIssues(n, t, r)
    PROVE  TokenInv'
<1> /\ r.token.peer = n
    /\ \A u \in Tasks : \A c \in Claims(u)' : c \in Claims(u) \/ (u = t /\ c = Shape(r))
    /\ \A c \in Claims(t) : c.token.peer = n =>
           /\ Covers(r, c.token.epoch)
           /\ c.token.epoch = r.token.epoch => SameClaim(c, Shape(r))
    /\ n \in WalNodes => Covers(log'[n].tasks[t], r.token.epoch)
    /\ snap'[n][t] = NoRecord
  BY Zenon DEF Issues, Fresh
<1> \A p \in Peers : p # n => worker'[p] = worker[p]
  BY Zenon DEF WorkerIssues
<1> t \in Tasks /\ r \in TaskRecord /\ r.token.epoch \in Nat
  BY RecordParts, Zenon DEF Puts
<1>1. /\ \A p \in Peers : up'[p] => up[p]
      /\ \A p \in Peers, u \in Tasks :
             up'[p] => tasks'[p][u] = IF p = n /\ u = t THEN r ELSE tasks[p][u]
  BY Zenon DEF Puts
<1>2. Shape(r).token = r.token
  BY ShapeFields, Zenon
<1>3. Unique'
  <2> SUFFICES ASSUME NEW u \in Tasks, NEW c \in Claims(u)', NEW d \in Claims(u)', c.token = d.token
               PROVE  SameClaim(c, d)
    BY Zenon DEF Unique
  <2>1. CASE c \in Claims(u) /\ d \in Claims(u)
    BY <2>1, Zenon DEF TokenInv, Unique
  <2>2. ASSUME NEW e \in Claims(t), e.token = r.token PROVE SameClaim(e, Shape(r))
    BY <2>2, Zenon
  <2>3. CASE u = t /\ c \in Claims(t) /\ d = Shape(r)
    BY <1>2, <2>2, <2>3, Zenon
  <2>4. CASE u = t /\ d \in Claims(t) /\ c = Shape(r)
    BY <1>2, <2>2, <2>4, SameClaimSymmetric, Zenon
  <2>5. CASE c = Shape(r) /\ d = Shape(r)
    BY <2>5, SameClaimSymmetric, Zenon
  <2> QED
    BY <2>1, <2>3, <2>4, <2>5, Zenon
<1>4. ASSUME NEW p \in Peers, NEW u \in Tasks, NEW c \in Claims(u), c.token.peer = p
      PROVE  Covered(p, u, c)'
  <2>1. Covered(p, u, c) /\ c.token.epoch \in Nat
    BY <1>4, ClaimEpochs, Zenon DEF TokenInv, Issued
  <2>2. ASSUME up'[p] PROVE Covers(tasks'[p][u], c.token.epoch)
    <3>1. up[p] /\ tasks'[p][u] = IF p = n /\ u = t THEN r ELSE tasks[p][u]
      BY <1>1, <2>2, Zenon
    <3>2. CASE p = n /\ u = t
      <4>1. Covers(r, c.token.epoch)
        BY <1>4, <3>2, Zenon
      <4> QED
        BY <3>1, <3>2, <4>1, Zenon
    <3>3. CASE p # n \/ u # t
      <4>1. tasks'[p][u] = tasks[p][u]
        BY <3>1, <3>3, Zenon
      <4>2. Covers(tasks[p][u], c.token.epoch)
        BY <2>1, <3>1, Zenon DEF Covered
      <4> QED
        BY <4>1, <4>2, Zenon
    <3> QED
      BY <3>2, <3>3, Zenon
  <2>3. p \in WalNodes => Covers(log'[p].tasks[u], c.token.epoch)
    BY <2>1, Zenon DEF Covered, LogCovers, CoversMore
  <2>4. snap'[p][u] # NoRecord => c.token.epoch <= snap'[p][u].token.epoch
    <3>1. snap'[p][u] # NoRecord =>
              \/ snap'[p][u] = snap[p][u]
              \/ up[p] /\ snap'[p][u] = tasks[p][u] /\ ~ IsTerminal(tasks[p][u].state)
      BY Zenon DEF SnapsAreOld
    <3> QED
      BY <2>1, <3>1, Zenon DEF Covered, Covers
  <2>5. worker'[p].pc # "idle" /\ worker'[p].task = u => UpTo(worker'[p], p, c)
    <3>1. CASE p = n
      <4> SUFFICES ASSUME worker'[n].pc # "idle", worker'[n].task = u PROVE UpTo(worker'[n], n, c)
        BY <3>1, Zenon
      <4>1. /\ worker'[n].task = t
            /\ \A d \in Claims(t) : d.token.peer = n => UpTo(worker'[n], n, d)
        BY Zenon DEF WorkerIssues
      <4>2. u = t
        BY <4>1, Zenon
      <4> QED
        BY <1>4, <3>1, <4>1, <4>2, Zenon
    <3>2. CASE p # n
      BY <2>1, <3>2, Zenon DEF Covered, UpTo
    <3> QED
      BY <3>1, <3>2, Zenon
  <2> QED
    BY <2>2, <2>3, <2>4, <2>5, Zenon DEF Covered
<1>5. Covered(n, t, Shape(r))'
  <2>1. up'[n] => Covers(tasks'[n][t], r.token.epoch)
    <3>1. up'[n] => tasks'[n][t] = r
      BY <1>1, Zenon
    <3>2. r.token.epoch <= r.token.epoch
      OBVIOUS
    <3> QED
      BY <3>1, <3>2, Zenon DEF Covers
  <2>2. worker'[n].pc # "idle" => UpTo(worker'[n], n, Shape(r))
    BY Zenon DEF WorkerIssues
  <2> QED
    BY <1>2, <2>1, <2>2, Zenon DEF Covered
<1>6. Issued'
  BY <1>2, <1>4, <1>5 DEF Issued
<1>7. ASSUME NEW p \in Peers PROVE OwnToken(p)'
  <2>1. CASE p = n
    <3>1. worker'[n].pc # "idle" => worker'[n].task = t /\ worker'[n].token = r.token
      BY Zenon DEF WorkerIssues
    <3> QED
      BY <2>1, <3>1, Zenon DEF OwnToken
  <2>2. CASE p # n
    <3>1. worker'[p] = worker[p] /\ OwnToken(p)
      BY <2>2, Zenon DEF TokenInv
    <3>2. worker[p].pc # "idle" => worker[p].task \in Tasks
      BY Zenon DEF TypeOK
    <3>3. worker[p].token.epoch \in Nat
      BY Zenon DEF TypeOK, WorkerState, FenceToken
    <3>4. ASSUME worker[p].pc # "idle", p \in WalNodes
          PROVE  Covers(log'[p].tasks[worker[p].task], worker[p].token.epoch)
      <4>1. CoversMore(log[p].tasks[worker[p].task], log'[p].tasks[worker[p].task])
        BY <3>2, <3>4, Zenon DEF LogCovers
      <4>2. Covers(log[p].tasks[worker[p].task], worker[p].token.epoch)
        BY <3>1, <3>4, Zenon DEF OwnToken
      <4> QED
        BY <3>3, <4>1, <4>2, Zenon DEF CoversMore
    <3> QED
      BY <3>1, <3>4, Zenon DEF OwnToken
  <2> QED
    BY <2>1, <2>2, Zenon
<1> QED
  BY <1>3, <1>6, <1>7, Zenon DEF TokenInv

-----------------------------------------------------------------------------
(* TokenInv, action by action *)

(* What the proof of TokenUnique needs *)
ClaimInv == MemoryInv /\ LogKnows /\ TokenInv

(* A claim under the next token of what covers all claims of n is fresh. *)
LEMMA NextIsFresh ==
    ASSUME NEW n \in Peers, NEW t \in Tasks, NEW k \in FenceToken, NEW r, r.token = NextFor(k, n),
           \A c \in Claims(t) : c.token.peer = n => c.token.epoch <= k.epoch
    PROVE  /\ Fresh(n, t, r) /\ r.token.epoch \in Nat
           /\ \A c \in Claims(t) : c.token.peer = n => c.token.epoch < r.token.epoch
<1>1. k.epoch \in Nat
  BY Zenon DEF FenceToken
<1>2. r.token.epoch = k.epoch + 1 /\ r.token.peer = n
  BY DEF NextFor
<1>3. \A c \in Claims(t) : c.token.epoch \in Nat
  BY ClaimEpochs, Zenon
<1>4. ASSUME NEW c \in Claims(t), c.token.peer = n
      PROVE  /\ c.token.epoch < r.token.epoch /\ c.token.epoch # r.token.epoch
             /\ c.token.epoch <= r.token.epoch
  <2>1. c.token.epoch \in Nat /\ c.token.epoch <= k.epoch
    BY <1>3, <1>4, Zenon
  <2> QED
    BY <1>1, <1>2, <2>1
<1>5. r.token.epoch \in Nat
  BY <1>1, <1>2
<1> QED
  BY <1>2, <1>4, <1>5, Zenon DEF Fresh, Covers

(* A claim has a token above all tokens of its peer, *)
LEMMA ClaimIsFresh ==
    ASSUME TypeOK, TokenInv, NEW n \in Peers, NEW t \in Tasks, NEW d, up[n],
           tasks[n][t] \in TaskRecord, ~ IsTerminal(tasks[n][t].state)
    PROVE  LET k == NextFor(tasks[n][t].token, n)
           IN  /\ Claim(n, t, d).token = k /\ k.epoch \in Nat /\ Fresh(n, t, Claim(n, t, d))
               /\ \A c \in Claims(t) : c.token.peer = n => c.token.epoch < k.epoch
<1> DEFINE r == Claim(n, t, d)
<1>1. r.token = NextFor(tasks[n][t].token, n)
  BY Zenon DEF Claim, SealRecord, SignTask, NewRecord
<1>2. tasks[n][t].token \in FenceToken
  BY RecordParts, Zenon
<1>3. \A c \in Claims(t) : c.token.peer = n => c.token.epoch <= tasks[n][t].token.epoch
  BY Zenon DEF TokenInv, Issued, Covered, Covers
<1> HIDE DEF r
<1>4. /\ Fresh(n, t, r) /\ r.token.epoch \in Nat
      /\ \A c \in Claims(t) : c.token.peer = n => c.token.epoch < r.token.epoch
  BY <1>1, <1>2, <1>3, NextIsFresh, Zenon
<1> QED
  BY <1>1, <1>4, Zenon DEF r

(* a result ends the claim of the worker, *)
LEMMA ResultIsFresh ==
    ASSUME TypeOK, TokenInv, NEW n \in Peers, NEW outcome \in Outcomes, worker[n].pc = "running"
    PROVE  Fresh(n, worker[n].task, Result(n, outcome))
<1> DEFINE t == worker[n].task
           r == Result(n, outcome)
<1>1. r.token = worker[n].token /\ r.claimed_by = n /\ IsTerminal(r.state)
  BY OutcomesAssumption, Zenon DEF Result, SealRecord, SignTask, NewRecord, IsTerminal
<1>2. r.token.peer = n
  BY <1>1, Zenon DEF TokenInv, OwnToken
<1>3. t \in Tasks
  BY Zenon DEF TypeOK
<1>4. \A c \in Claims(t) : c.token.peer = n => UpTo(worker[n], n, c)
  BY <1>3, Zenon DEF TokenInv, Issued, Covered
<1> HIDE DEF r, t
<1>5. \A c \in Claims(t) : c.token.peer = n =>
          /\ Covers(r, c.token.epoch)
          /\ c.token.epoch = r.token.epoch => SameClaim(c, Shape(r))
  BY <1>1, <1>4, ShapeFields, Zenon DEF Covers, UpTo, SameClaim
<1> QED
  BY <1>2, <1>5, Zenon DEF Fresh, r, t

(* and a release has a token above all tokens of its peer, whether it is    *)
(* made from the store or from a snapshot that is older than the store.     *)
LEMMA ReleasedIsFresh ==
    ASSUME TypeOK, Held, TokenInv, NEW n \in Peers, NEW t \in Tasks, NEW S, up[n],
           Todo(n, S)[t] # NoRecord
    PROVE  Fresh(n, t, Released(n, t, S))
<1> DEFINE x == Todo(n, S)[t]
           r == Released(n, t, S)
<1>1. r.token = NextFor(x.token, n)
  BY Zenon DEF Released, SealRecord, SignTask, NewRecord
<1>2. /\ x \in TaskRecord
      /\ \/ snap[n][t] # NoRecord /\ x = snap[n][t]
         \/ x = tasks[n][t] /\ ~ IsTerminal(tasks[n][t].state)
  BY TodoIsHeld, Zenon
<1> HIDE DEF r, x
<1>3. x.token \in FenceToken
  BY <1>2, RecordParts, Zenon
<1>4. ASSUME NEW c \in Claims(t), c.token.peer = n PROVE c.token.epoch <= x.token.epoch
  <2>1. Covered(n, t, c)
    BY <1>4, Zenon DEF TokenInv, Issued
  <2> QED
    BY <1>2, <2>1, Zenon DEF Covered, Covers
<1>5. Fresh(n, t, r)
  BY <1>1, <1>3, <1>4, NextIsFresh, Zenon
<1> QED
  BY <1>5, Zenon DEF r

(* A record that carries no claim, or one that is known *)
OldShape(t, r) == Shape(r).token # NoToken => Shape(r) \in Claims(t)

(* What is received is joined: no new claim, and nothing is covered less. *)
LEMMA JoinIsOld ==
    ASSUME TypeOK, SignaturesHold, NEW n \in Peers, NEW m \in net, Accepts(n, m)
    PROVE  LET r == Joined(tasks[n][m.task], m.rec)
           IN  CoversMore(tasks[n][m.task], r) /\ OldShape(m.task, r)
<1> DEFINE t == m.task
           r == Joined(tasks[n][t], m.rec)
<1>1. t \in Tasks /\ m.rec \in TaskRecord
  BY Zenon DEF TypeOK, Message
<1>2. tasks[n][t] \in TaskRecord \cup {NoRecord} /\ Authentic(tasks[n][t])
  BY <1>1, EntryTypes, Zenon DEF SignaturesHold
<1>3. Authentic(m.rec)
  BY Zenon DEF Accepts, Authentic
<1>4. /\ CoversMore(tasks[n][t], r)
      /\ Shape(r) = Shape(m.rec) \/ (tasks[n][t] \in TaskRecord /\ Shape(r) = Shape(tasks[n][t]))
  BY <1>1, <1>2, <1>3, JoinedCovers, Zenon
<1>5. m.rec \in Records(t) /\ (tasks[n][t] \in TaskRecord => tasks[n][t] \in Records(t))
  BY <1>1, Zenon DEF Records
<1> HIDE DEF r, t
<1>6. OldShape(t, r)
  <2>1. PICK x \in Records(t) : Shape(r) = Shape(x)
    BY <1>4, <1>5, Zenon
  <2>2. Shape(x).token = x.token
    BY ShapeFields, Zenon
  <2> QED
    BY <2>1, <2>2, Zenon DEF Claims, OldShape
<1> QED
  BY <1>4, <1>6, Zenon DEF r, t

(* No claim but that of r on t is new. *)
NewOnly(t, r) ==
    \A u \in Tasks : \A c \in Claims(u)' :
        c \in Claims(u) \/ (u = t /\ c = Shape(r) /\ c.token # NoToken)

(* A record that brings no new claim leaves the claims as they are. *)
LEMMA KnownIsOld ==
    ASSUME NEW t, NEW r, OldShape(t, r), NewOnly(t, r)
    PROVE  OldClaims
BY Zenon DEF OldClaims, OldShape, NewOnly

(* Once it is logged, the log covers a record. *)
LEMMA LogCoversNew ==
    ASSUME TypeOK, SignaturesHold, NEW n \in Peers, NEW t \in Tasks, NEW r \in TaskRecord,
           Authentic(r), Logged(n, t, r)
    PROVE  n \in WalNodes => Covers(log'[n].tasks[t], r.token.epoch)
<1>1. log[n].tasks[t] \in TaskRecord \cup {NoRecord} /\ Authentic(log[n].tasks[t])
  BY EntryTypes, Zenon DEF SignaturesHold
<1>2. Covers(Joined(log[n].tasks[t], r), r.token.epoch)
  BY <1>1, JoinedCovers, Zenon
<1> QED
  BY <1>2, Zenon DEF Logged

(* A write that is appended: the log has it, and no claims but that of r are *)
(* new.                                                                      *)
LEMMA AppendedClaims ==
    ASSUME TypeOK, SignaturesHold, SignaturesHold', LogKnows,
           NEW n \in Peers, NEW t, NEW r, Writes(n, t, r), Appends(n, t, r)
    PROVE  /\ \A u \in Tasks : \A c \in Claims(u)' :
                  c \in Claims(u) \/ (u = t /\ c = Shape(r) /\ c.token # NoToken)
           /\ LogCovers /\ Authentic(r) /\ Puts(n, t, r)
           /\ n \in WalNodes => Covers(log'[n].tasks[t], r.token.epoch)
<1>1. t \in Tasks /\ r \in TaskRecord /\ Authentic(r) /\ Puts(n, t, r)
  BY WritesAuthentic, WritesPut, Zenon DEF Writes
<1>2. Logged(n, t, r)
  BY <1>1, Zenon DEF Appends
<1>3. LogPuts(n, t, r)
  BY <1>1, <1>2, LoggedPuts, Zenon
<1>4. n \in WalNodes => Covers(log'[n].tasks[t], r.token.epoch)
  BY <1>1, <1>2, LogCoversNew, Zenon
<1> QED
  BY <1>1, <1>3, <1>4, ClaimsAfterWrite, Zenon

(* A submission finds no record of its task. *)
LEMMA SubmitKeepsTokens ==
    ASSUME SignaturesHold, SignaturesHold', ClaimInv, TypeOK', NEW n \in Peers, NEW t \in Tasks,
           Submit(n, t), tasks[n][t] = NoRecord
    PROVE  TokenInv'
<1> TypeOK /\ LogKnows /\ TokenInv
  BY Zenon DEF ClaimInv, MemoryInv
<1> DEFINE r == NewTask(n)
<1>1. Writes(n, t, r) /\ Appends(n, t, r) /\ worker' = worker /\ snap' = snap
  BY SubmitWrites, Zenon
<1>2. r.token = NoToken
  BY Zenon DEF NewTask, SealRecord, SignTask, NewRecord
<1> HIDE DEF r
<1>3. r \in TaskRecord /\ up' = up
  BY <1>1, Zenon DEF Writes, Stored
<1>4. /\ \A u \in Tasks : \A c \in Claims(u)' :
             c \in Claims(u) \/ (u = t /\ c = Shape(r) /\ c.token # NoToken)
      /\ LogCovers /\ Authentic(r)
  BY <1>1, AppendedClaims, Zenon
<1>5. OldClaims
  <2>1. OldShape(t, r)
    BY <1>2, ShapeFields, Zenon DEF OldShape
  <2>2. NewOnly(t, r)
    BY <1>4, Zenon DEF NewOnly
  <2> QED
    BY <2>1, <2>2, KnownIsOld, Zenon
<1>6. \A p \in Peers, u \in Tasks : up'[p] => up[p] /\ CoversMore(tasks[p][u], tasks'[p][u])
  <2>1. CoversMore(NoRecord, r)
    <3>1. Joined(NoRecord, r) = r /\ Authentic(NoRecord)
      BY Zenon DEF Joined, Authentic
    <3> QED
      BY <1>3, <1>4, <3>1, JoinedCovers, Zenon
  <2> QED
    BY <1>1, <1>3, <2>1 DEF Writes, Stored, CoversMore
<1> QED
  BY <1>1, <1>4, <1>5, <1>6, KnownKeeps, Zenon

(* What is received makes no claim. *)
LEMMA ReceiveKeepsTokens ==
    ASSUME SignaturesHold, SignaturesHold', ClaimInv, TypeOK', NEW n \in Peers, NEW m \in net,
           Receive(n, m)
    PROVE  TokenInv'
<1> TypeOK /\ LogKnows /\ TokenInv
  BY Zenon DEF ClaimInv, MemoryInv
<1> DEFINE t == m.task
           r == Joined(tasks[n][t], m.rec)
<1>1. Writes(n, t, r) /\ Appends(n, t, r) /\ worker' = worker /\ snap' = snap
  BY ReceiveWrites, Zenon
<1>2. CoversMore(tasks[n][t], r) /\ OldShape(t, r)
  <2>1. Accepts(n, m)
    BY Zenon DEF Receive
  <2> QED
    BY <2>1, JoinIsOld, Zenon
<1> HIDE DEF r, t
<1>3. up' = up
  BY <1>1, Zenon DEF Writes, Stored
<1>4. /\ \A u \in Tasks : \A c \in Claims(u)' :
             c \in Claims(u) \/ (u = t /\ c = Shape(r) /\ c.token # NoToken)
      /\ LogCovers
  BY <1>1, AppendedClaims, Zenon
<1>5. OldClaims
  <2>1. NewOnly(t, r)
    BY <1>4, Zenon DEF NewOnly
  <2> QED
    BY <1>2, <2>1, KnownIsOld, Zenon
<1>6. \A p \in Peers, u \in Tasks : up'[p] => up[p] /\ CoversMore(tasks[p][u], tasks'[p][u])
  BY <1>1, <1>2, <1>3 DEF Writes, Stored, CoversMore
<1> QED
  BY <1>1, <1>4, <1>5, <1>6, KnownKeeps, Zenon

(* A claim has a token above all tokens of its peer. *)
LEMMA ClaimKeepsTokens ==
    ASSUME SignaturesHold, SignaturesHold', ClaimInv, TypeOK', NEW n \in Peers, NEW S, NEW d,
           WorkerClaim(n, S, d)
    PROVE  TokenInv'
<1> TypeOK /\ Held /\ LogKnows /\ TokenInv
  BY Zenon DEF ClaimInv, MemoryInv
<1> DEFINE t == Head(queue[n]).task
           r == Claim(n, t, d)
           k == NextFor(tasks[n][t].token, n)
           w == [pc |-> "claimed", task |-> t, token |-> k, lease |-> LocalNow(n) + d]
<1>1. /\ n \in Workers /\ tasks[n][t] \in TaskRecord /\ ~ IsTerminal(tasks[n][t].state)
      /\ Writes(n, t, r) /\ Appends(n, t, r)
      /\ worker' = [worker EXCEPT ![n] = w] /\ snap' = snap
  BY ClaimWrites, Zenon
<1>2. /\ r.token = k /\ r.claimed_by = n /\ r.lease = w.lease /\ ~ IsTerminal(r.state)
      /\ w.task = t /\ w.token = k
  BY Zenon DEF Claim, SealRecord, SignTask, NewRecord, IsTerminal
<1>4. t \in Tasks /\ r \in TaskRecord /\ up[n]
  BY <1>1, Zenon DEF Writes, Stored
<1>5. /\ Fresh(n, t, r) /\ k.epoch \in Nat
      /\ \A c \in Claims(t) : c.token.peer = n => c.token.epoch < k.epoch
  <2> HIDE DEF t
  <2> QED
    BY <1>1, <1>4, ClaimIsFresh, Zenon
<1> HIDE DEF r, w, t, k
<1>7. /\ \A u \in Tasks : \A c \in Claims(u)' : c \in Claims(u) \/ (u = t /\ c = Shape(r))
      /\ LogCovers /\ Puts(n, t, r)
      /\ n \in WalNodes => Covers(log'[n].tasks[t], r.token.epoch)
  BY <1>1, AppendedClaims, Zenon
<1>10. snap'[n][t] = NoRecord
  BY <1>1, <1>4, Zenon DEF Held
<1>11. \A p \in Peers : worker'[p] = IF p = n THEN w ELSE worker[p]
  BY <1>1, Zenon DEF TypeOK
<1>12. UpTo(worker'[n], n, Shape(r)) /\ \A c \in Claims(t) : c.token.peer = n => UpTo(worker'[n], n, c)
  <2>1. UpTo(worker'[n], n, Shape(r))
    <3>1. worker'[n] = w /\ k.epoch <= k.epoch
      BY <1>5, <1>11
    <3>2. /\ Shape(r).token = k /\ Shape(r).claimed_by = n /\ Shape(r).lease = w.lease
          /\ ~ IsTerminal(Shape(r).state) /\ w.token = k
      BY <1>2, ShapeFields, Zenon
    <3> QED
      BY <3>1, <3>2, Zenon DEF UpTo
  <2>2. \A c \in Claims(t) : c.token.peer = n => UpTo(worker'[n], n, c)
    BY <1>2, <1>5, <1>11, ClaimEpochs DEF UpTo
  <2> QED
    BY <2>1, <2>2, Zenon
<1>13. Issues(n, t, r)
  BY <1>7, <1>10, Zenon DEF Issues
<1>14. SnapsAreOld
  BY <1>1, Zenon DEF SnapsAreOld
<1>15. WorkerIssues(n, t, r)
  BY <1>2, <1>11, <1>12, Zenon DEF WorkerIssues
<1> QED
  BY <1>5, <1>7, <1>13, <1>14, <1>15, IssueKeeps, Zenon

(* RUNNING is the claim of the worker again. *)
LEMMA RunKeepsTokens ==
    ASSUME SignaturesHold, ClaimInv, TypeOK', NEW n \in Peers, WorkerRun(n)
    PROVE  TokenInv'
<1> TypeOK /\ Held /\ TokenInv
  BY Zenon DEF ClaimInv, MemoryInv
<1> DEFINE t == worker[n].task
           r == Running(n)
<1>1. /\ worker[n].pc = "claimed" /\ Writes(n, t, r)
      /\ worker' = [worker EXCEPT ![n].pc = "running"] /\ log' = log /\ snap' = snap
  BY RunWrites, Zenon
<1>2. /\ r.token = worker[n].token /\ r.claimed_by = n /\ r.lease = worker[n].lease
      /\ ~ IsTerminal(r.state)
  BY Zenon DEF Running, SealRecord, SignTask, NewRecord, IsTerminal
<1>3. /\ r.token.peer = n
      /\ n \in WalNodes => Covers(log[n].tasks[t], r.token.epoch)
  BY <1>1, <1>2, Zenon DEF TokenInv, OwnToken
<1>4. \A c \in Claims(t) : c.token.peer = n => UpTo(worker[n], n, c)
  <2>1. t \in Tasks
    BY <1>1, Zenon DEF Writes
  <2> QED
    BY <1>1, <2>1, Zenon DEF TokenInv, Issued, Covered
<1> HIDE DEF r
<1>5. t \in Tasks /\ r \in TaskRecord /\ n \in Workers /\ r.token.epoch \in Nat
  BY <1>1, RecordParts, Zenon DEF Writes, Held
<1>6. /\ \A u \in Tasks : \A c \in Claims(u)' : c \in Claims(u) \/ (u = t /\ c = Shape(r))
      /\ LogCovers /\ Puts(n, t, r)
  <2>1. Puts(n, t, r)
    BY <1>1, WritesPut, Zenon
  <2>2. LogPuts(n, t, r)
    BY <1>1, Zenon DEF LogPuts
  <2> QED
    BY <2>1, <2>2, ClaimsAfterWrite, Zenon
<1>7. \A c \in Claims(t) : c.token.peer = n =>
          /\ Covers(r, c.token.epoch)
          /\ c.token.epoch = r.token.epoch => SameClaim(c, Shape(r))
  BY <1>2, <1>4, ShapeFields, Zenon DEF Covers, UpTo, SameClaim
<1> Fresh(n, t, r)
  BY <1>3, <1>7, Zenon DEF Fresh
<1>8. snap'[n][t] = NoRecord
  BY <1>1, <1>5, Zenon DEF Held
<1>9. /\ \A p \in Peers : p # n => worker'[p] = worker[p]
      /\ worker'[n].task = t /\ worker'[n].token = r.token /\ worker'[n].lease = worker[n].lease
  <2>1. /\ worker'[n] = [worker[n] EXCEPT !.pc = "running"]
        /\ \A p \in Peers : p # n => worker'[p] = worker[p]
    BY <1>1, Zenon DEF TypeOK
  <2>2. worker[n] \in WorkerState
    BY Zenon DEF TypeOK
  <2> QED
    BY <1>2, <2>1, <2>2, Zenon DEF WorkerState
<1>10. UpTo(worker'[n], n, Shape(r))
  BY <1>2, <1>5, <1>9, ShapeFields DEF UpTo
<1>11. \A c \in Claims(t) : c.token.peer = n => UpTo(worker'[n], n, c)
  BY <1>2, <1>4, <1>9 DEF UpTo
<1> HIDE DEF t
<1>12. Issues(n, t, r)
  <2>1. n \in WalNodes => Covers(log'[n].tasks[t], r.token.epoch)
    BY <1>1, <1>3, Zenon
  <2> QED
    BY <1>6, <1>8, <2>1, Zenon DEF Issues
<1>13. SnapsAreOld
  BY <1>1, Zenon DEF SnapsAreOld
<1>14. WorkerIssues(n, t, r)
  BY <1>9, <1>10, <1>11, Zenon DEF WorkerIssues
<1> QED
  BY <1>6, <1>12, <1>13, <1>14, IssueKeeps, Zenon

(* A result ends the claim of the worker. *)
LEMMA CommitKeepsTokens ==
    ASSUME SignaturesHold, SignaturesHold', ClaimInv, TypeOK', NEW n \in Peers,
           NEW outcome \in Outcomes, WorkerCommit(n, outcome)
    PROVE  TokenInv'
<1> TypeOK /\ Held /\ LogKnows /\ TokenInv
  BY Zenon DEF ClaimInv, MemoryInv
<1> DEFINE t == worker[n].task
           r == Result(n, outcome)
<1>1. /\ worker[n].pc = "running" /\ Writes(n, t, r) /\ Appends(n, t, r)
      /\ worker' = [worker EXCEPT ![n] = Idle] /\ snap' = snap
  BY CommitWrites, Zenon
<1>2. Fresh(n, t, r)
  BY <1>1, ResultIsFresh, Zenon
<1> HIDE DEF r
<1>3. t \in Tasks /\ n \in Workers
  BY <1>1, Zenon DEF Writes, Held
<1>4. /\ \A u \in Tasks : \A c \in Claims(u)' : c \in Claims(u) \/ (u = t /\ c = Shape(r))
      /\ LogCovers /\ Puts(n, t, r)
      /\ n \in WalNodes => Covers(log'[n].tasks[t], r.token.epoch)
  <2> HIDE DEF t
  <2> QED
    BY <1>1, AppendedClaims, Zenon
<1>5. snap'[n][t] = NoRecord
  BY <1>1, <1>3, Zenon DEF Held
<1>6. worker'[n].pc = "idle" /\ \A p \in Peers : p # n => worker'[p] = worker[p]
  BY <1>1, Zenon DEF TypeOK, Idle
<1> HIDE DEF t
<1>7. Issues(n, t, r)
  BY <1>4, <1>5, Zenon DEF Issues
<1>8. SnapsAreOld
  BY <1>1, Zenon DEF SnapsAreOld
<1>9. WorkerIssues(n, t, r)
  BY <1>6, Zenon DEF WorkerIssues
<1> QED
  BY <1>2, <1>4, <1>7, <1>8, <1>9, IssueKeeps, Zenon

(* A release is a claim of the peer that makes it. *)
LEMMA ReleaseKeepsTokens ==
    ASSUME SignaturesHold, SignaturesHold', ClaimInv, TypeOK', NEW n \in Peers, NEW t \in Tasks,
           NEW S, ReclaimRelease(n, t, S)
    PROVE  TokenInv'
<1> TypeOK /\ Held /\ LogKnows /\ TokenInv
  BY Zenon DEF ClaimInv, MemoryInv
<1> DEFINE r == Released(n, t, S)
<1>1. /\ n \notin Workers /\ Todo(n, S)[t] # NoRecord /\ Writes(n, t, r) /\ Appends(n, t, r)
      /\ snap' = [snap EXCEPT ![n] = [Todo(n, S) EXCEPT ![t] = NoRecord]]
      /\ worker' = worker
  BY ReleaseWrites, Zenon
<1>2. up[n]
  BY <1>1, Zenon DEF Writes, Stored
<1>3. Fresh(n, t, r)
  BY <1>1, <1>2, ReleasedIsFresh, Zenon
<1>4. \A u \in Tasks : Todo(n, S)[u] # NoRecord =>
          \/ Todo(n, S)[u] = snap[n][u]
          \/ Todo(n, S)[u] = tasks[n][u] /\ ~ IsTerminal(tasks[n][u].state)
  BY TodoIsHeld, Zenon
<1>5. DOMAIN Todo(n, S) = Tasks
  BY Zenon DEF Todo, TypeOK, Store
<1> HIDE DEF r
<1>6. /\ \A u \in Tasks : \A c \in Claims(u)' : c \in Claims(u) \/ (u = t /\ c = Shape(r))
      /\ LogCovers /\ Puts(n, t, r)
      /\ n \in WalNodes => Covers(log'[n].tasks[t], r.token.epoch)
  BY <1>1, AppendedClaims, Zenon
<1>7. /\ \A p \in Peers : p # n => snap'[p] = snap[p]
      /\ \A u \in Tasks : snap'[n][u] = IF u = t THEN NoRecord ELSE Todo(n, S)[u]
  BY <1>1, <1>5, Zenon DEF TypeOK
<1>8. \A p \in Peers, u \in Tasks : snap'[p][u] # NoRecord =>
          \/ snap'[p][u] = snap[p][u]
          \/ up[p] /\ snap'[p][u] = tasks[p][u] /\ ~ IsTerminal(tasks[p][u].state)
  BY <1>2, <1>4, <1>7, Zenon
<1>9. worker'[n].pc = "idle"
  BY <1>1, Zenon DEF Held
<1>10. Issues(n, t, r)
  BY <1>6, <1>7, Zenon DEF Issues
<1>11. SnapsAreOld
  BY <1>8, Zenon DEF SnapsAreOld
<1>12. WorkerIssues(n, t, r)
  BY <1>1, <1>9, Zenon DEF WorkerIssues
<1> QED
  BY <1>3, <1>6, <1>10, <1>11, <1>12, IssueKeeps, Zenon

(* No claim is made while records rest. *)
LEMMA RestKeepsTokens ==
    ASSUME TypeOK, TokenInv, Rests
    PROVE  TokenInv'
<1>1. OldClaims
  BY Zenon DEF OldClaims, Claims, Records, Rests
<1>2. LogCovers
  BY Zenon DEF LogCovers, CoversMore, Rests
<1>3. \A p \in Peers, u \in Tasks : up'[p] => up[p] /\ CoversMore(tasks[p][u], tasks'[p][u])
  BY Zenon DEF CoversMore, Rests
<1>4. /\ \A p \in Peers : worker'[p] = worker[p] \/ worker'[p].pc = "idle"
      /\ \A p \in Peers, u \in Tasks : snap'[p][u] \in {snap[p][u], NoRecord}
  BY Zenon DEF Rests
<1> QED
  BY <1>1, <1>2, <1>3, <1>4, KnownKeeps, Zenon

(* The end of a process forgets claims; the peer is down. *)
LEMMA ForgetKeepsTokens ==
    ASSUME TypeOK, TokenInv, NEW n \in Peers, Forgets(n), OldClaims, LogCovers
    PROVE  TokenInv'
<1>1. /\ \A p \in Peers : up'[p] <=> p # n /\ up[p]
      /\ \A p \in Peers, u \in Tasks : tasks'[p][u] = IF p = n THEN NoRecord ELSE tasks[p][u]
      /\ \A p \in Peers : worker'[p] = IF p = n THEN Idle ELSE worker[p]
      /\ \A p \in Peers, u \in Tasks : snap'[p][u] = IF p = n THEN NoRecord ELSE snap[p][u]
  BY Zenon DEF Forgets
<1>2. \A p \in Peers, u \in Tasks : up'[p] => up[p] /\ CoversMore(tasks[p][u], tasks'[p][u])
  BY <1>1, Zenon DEF CoversMore
<1>3. /\ \A p \in Peers : worker'[p] = worker[p] \/ worker'[p].pc = "idle"
      /\ \A p \in Peers, u \in Tasks : snap'[p][u] \in {snap[p][u], NoRecord}
  BY <1>1 DEF Idle
<1> QED
  BY <1>2, <1>3, KnownKeeps, Zenon

(* If the log keeps its entries, nothing is claimed. *)
LEMMA HaltKeepsTokens ==
    ASSUME TypeOK, TokenInv, NEW n \in Peers, Forgets(n),
           \A p \in Peers, u \in Tasks : log'[p].tasks[u] = log[p].tasks[u]
    PROVE  TokenInv'
<1>1. /\ \A p \in Peers, u \in Tasks : tasks'[p][u] = IF p = n THEN NoRecord ELSE tasks[p][u]
      /\ net' = net
  BY Zenon DEF Forgets
<1>2. \A p \in Peers, u \in Tasks : tasks'[p][u] \in {tasks[p][u], log[p].tasks[u], NoRecord}
  BY <1>1
<1>3. OldClaims
  BY <1>1, <1>2, ClaimsAfterRest, Zenon
<1>4. LogCovers
  BY RolesAssumption, Zenon DEF LogCovers, CoversMore
<1> QED
  BY <1>3, <1>4, ForgetKeepsTokens, Zenon

(* What an operation was about to append makes no claim, or a fresh one. *)
LEMMA InterruptedIsFresh ==
    ASSUME TypeOK, Held, TokenInv, SignaturesHold, NEW n \in Peers, NEW t \in Tasks, NEW r,
           Interrupted(n, t, r)
    PROVE  OldShape(t, r) \/ Fresh(n, t, r)
<1>1. ASSUME r = NewTask(n) PROVE OldShape(t, r)
  <2>1. r.token = NoToken
    BY <1>1, Zenon DEF NewTask, SealRecord, SignTask, NewRecord
  <2> QED
    BY <2>1, ShapeFields, Zenon DEF OldShape
<1>2. ASSUME NEW m \in net, Accepts(n, m), t = m.task, r = Joined(tasks[n][t], m.rec)
      PROVE  OldShape(t, r)
  BY <1>2, JoinIsOld, Zenon
<1>3. ASSUME NEW S, NEW d \in LeaseDurations, MayClaim(n, t, S), r = Claim(n, t, d)
      PROVE  Fresh(n, t, r)
  <2>1. up[n] /\ tasks[n][t] # NoRecord /\ ~ IsTerminal(tasks[n][t].state)
    BY <1>3, Zenon DEF MayClaim, CanDequeue, Skips
  <2>2. tasks[n][t] \in TaskRecord
    BY <2>1, EntryTypes, Zenon
  <2> QED
    BY <1>3, <2>1, <2>2, ClaimIsFresh, Zenon
<1>4. ASSUME NEW outcome \in Outcomes, MayCommit(n), t = worker[n].task, r = Result(n, outcome)
      PROVE  Fresh(n, t, r)
  BY <1>4, ResultIsFresh, Zenon DEF MayCommit
<1>5. ASSUME NEW S, MayRelease(n, t, S), r = Released(n, t, S) PROVE Fresh(n, t, r)
  BY <1>5, ReleasedIsFresh, Zenon DEF MayRelease
<1> QED
  BY <1>1, <1>2, <1>3, <1>4, <1>5, Zenon DEF Interrupted

(* A record that is logged before the process ends is claimed, at most, by  *)
(* the log, which covers it.                                                *)
LEMMA CutShortKeepsTokens ==
    ASSUME SignaturesHold, ClaimInv, NEW n \in Peers, NEW t \in Tasks, NEW r,
           CutShort(n, t, r), Interrupted(n, t, r)
    PROVE  TokenInv'
<1> TypeOK /\ Held /\ Submitted /\ LogKnows /\ TokenInv
  BY Zenon DEF ClaimInv, MemoryInv
<1>1. r \in TaskRecord /\ r # NoRecord
  BY InterruptedRecord, NoRecordType, Zenon
<1>2. up[n] /\ Forgets(n) /\ LogTouches(n, t)
  BY CutShortLogs, Zenon
<1>3. CASE ~ Authentic(r)
  <2>1. log'[n].tasks[t] = log[n].tasks[t]
    BY <1>3, CutShortLogs, Zenon
  <2>2. \A p \in Peers, u \in Tasks : log'[p].tasks[u] = log[p].tasks[u]
    BY <1>2, <2>1, Zenon DEF LogTouches
  <2> QED
    BY <1>2, <2>2, HaltKeepsTokens, Zenon
<1>4. CASE Authentic(r)
  <2>1. tasks[n][t] = NoRecord => Cardinality(Known(tasks[n])) < MaxTasks
    BY InterruptedTask, Zenon
  <2>2. Logged(n, t, r)
    BY <1>1, <1>4, <2>1, CutShortLogs, Zenon
  <2>3. Puts(n, t, r) /\ LogPuts(n, t, r)
    BY <1>1, <1>2, <1>4, <2>2, ForgetsPut, LoggedPuts, Zenon
  <2>4. /\ \A u \in Tasks : \A c \in Claims(u)' :
               c \in Claims(u) \/ (u = t /\ c = Shape(r) /\ c.token # NoToken)
        /\ LogCovers
    BY <2>3, ClaimsAfterWrite, Zenon
  <2>5. CASE OldShape(t, r)
    <3>1. NewOnly(t, r)
      BY <2>4, Zenon DEF NewOnly
    <3>2. OldClaims
      BY <2>5, <3>1, KnownIsOld, Zenon
    <3> QED
      BY <1>2, <2>4, <3>2, ForgetKeepsTokens, Zenon
  <2>6. CASE Fresh(n, t, r)
    <3>1. n \in WalNodes => Covers(log'[n].tasks[t], r.token.epoch)
      BY <1>1, <1>4, <2>2, LogCoversNew, Zenon
    <3>2. /\ \A p \in Peers : worker'[p] = IF p = n THEN Idle ELSE worker[p]
          /\ \A p \in Peers, u \in Tasks : snap'[p][u] = IF p = n THEN NoRecord ELSE snap[p][u]
      BY <1>2, Zenon DEF Forgets
    <3>3. Issues(n, t, r)
      BY <2>4, <3>1, <3>2, Zenon DEF Issues
    <3>4. SnapsAreOld
      BY <3>2, Zenon DEF SnapsAreOld
    <3>5. WorkerIssues(n, t, r)
      <4>1. Idle.pc = "idle"
        BY Zenon DEF Idle
      <4> QED
        BY <3>2, <4>1, Zenon DEF WorkerIssues
    <3> QED
      BY <2>3, <2>4, <2>6, <3>3, <3>4, <3>5, IssueKeeps, Zenon
  <2> QED
    BY <2>5, <2>6, InterruptedIsFresh, Zenon
<1> QED
  BY <1>3, <1>4, Zenon

(* A peer that comes back takes the claims of its log, which covers them. *)
LEMMA RestartKeepsTokens ==
    ASSUME Restarting \subseteq WalNodes, TypeOK, TokenInv, NEW n \in Peers, Restart(n)
    PROVE  TokenInv'
<1>1. /\ n \in Restarting
      /\ \A p \in Peers : up'[p] <=> p = n \/ up[p]
      /\ \A p \in Peers, u \in Tasks :
             tasks'[p][u] = IF p = n THEN log[n].tasks[u] ELSE tasks[p][u]
      /\ \A m \in net' : m \notin net => m.rec = log[n].tasks[m.task]
      /\ worker' = worker /\ snap' = snap /\ log' = log
  BY RestartRecovers, Zenon
<1>2. OldClaims
  BY <1>1, ClaimsAfterRest
<1>3. LogCovers
  BY <1>1, Zenon DEF LogCovers, CoversMore
<1>4. \A p \in Peers, u \in Tasks : up'[p] =>
          \/ up[p] /\ CoversMore(tasks[p][u], tasks'[p][u])
          \/ p \in WalNodes /\ tasks'[p][u] = log[p].tasks[u]
  BY <1>1 DEF CoversMore
<1> QED
  BY <1>1, <1>2, <1>3, <1>4, KnownKeeps, Zenon

-----------------------------------------------------------------------------
(* There are no claims at the start. *)
LEMMA ClaimInit == Init /\ TypeOK => ClaimInv
<1> SUFFICES ASSUME Init PROVE TokenInv
  BY MemoryInit, LogKnowsInit, Zenon DEF ClaimInv
<1>1. \A t \in Tasks : Claims(t) = {}
  BY NoRecordType, Zenon DEF Init, Claims, Records, EmptyStore
<1>2. \A n \in Peers : OwnToken(n)
  BY Zenon DEF Init, OwnToken, Idle
<1> QED
  BY <1>1, <1>2, Zenon DEF TokenInv, Unique, Issued

(* Every step keeps ClaimInv. *)
LEMMA ClaimNext ==
    ASSUME Restarting \subseteq WalNodes, ClaimInv, TypeOK', SignaturesHold, SignaturesHold',
           [Next]_vars, [FreshSubmits]_vars
    PROVE  ClaimInv'
<1> TypeOK /\ TokenInv /\ MemoryInv' /\ TypeOK' /\ LogKnows'
  BY MemoryNext, LogKnowsNext, Zenon DEF ClaimInv, MemoryInv
<1>1. ASSUME NEW n \in Peers, NEW t \in Tasks, Submit(n, t) PROVE TokenInv'
  BY <1>1, SubmitIsFresh, SubmitKeepsTokens, Zenon
<1>2. ASSUME NEW n \in Peers, NEW m \in net, Receive(n, m) PROVE TokenInv'
  BY <1>2, ReceiveKeepsTokens, Zenon
<1>3. ASSUME NEW n \in Peers, NEW S, NEW d, WorkerClaim(n, S, d) PROVE TokenInv'
  BY <1>3, ClaimKeepsTokens, Zenon
<1>4. ASSUME NEW n \in Peers, WorkerRun(n) PROVE TokenInv'
  BY <1>4, RunKeepsTokens, Zenon
<1>5. ASSUME NEW n \in Peers, NEW outcome \in Outcomes, WorkerCommit(n, outcome) PROVE TokenInv'
  BY <1>5, CommitKeepsTokens, Zenon
<1>6. ASSUME NEW n \in Peers, NEW t \in Tasks, NEW S, ReclaimRelease(n, t, S) PROVE TokenInv'
  BY <1>6, ReleaseKeepsTokens, Zenon
<1>7. ASSUME Rests PROVE TokenInv'
  BY <1>7, RestKeepsTokens, Zenon
<1>8. ASSUME NEW n \in Peers, Crash(n) PROVE TokenInv'
  <2>1. Forgets(n) /\ log' = log
    BY <1>8, HaltForgets, Zenon DEF Crash
  <2> QED
    BY <2>1, HaltKeepsTokens, Zenon
<1>9. ASSUME NEW n \in Peers, Restart(n) PROVE TokenInv'
  BY <1>9, RestartKeepsTokens, Zenon
<1>10. ASSUME NEW n \in Peers, CrashInAppend(n) PROVE TokenInv'
  <2>1. PICK t \in Tasks : \E r : CutShort(n, t, r) /\ Interrupted(n, t, r)
    BY <1>10, AppendInterrupted, Zenon
  <2> QED
    BY <2>1, CutShortKeepsTokens, Zenon
<1>11. TokenInv'
  BY <1>1, <1>2, <1>3, <1>4, <1>5, <1>6, <1>7, <1>8, <1>9, <1>10, OthersRest, Zenon
  DEF Next, NodeStep
<1> QED
  BY <1>11, Zenon DEF ClaimInv

(* TokenUnique, from what is known of all claims *)
LEMMA ClaimsUnique == ClaimInv => TokenUnique
<1> SUFFICES ASSUME ClaimInv, NEW t \in Tasks,
                    NEW r \in {m.rec : m \in {k \in net : k.task = t}} \cup {tasks[n][t] : n \in Peers},
                    NEW s \in {m.rec : m \in {k \in net : k.task = t}} \cup {tasks[n][t] : n \in Peers},
                    r.token # NoToken, s.token # NoToken, r.token = s.token
             PROVE  SameClaim(r, s)
  BY Zenon DEF TokenUnique
<1>1. TypeOK /\ Unique
  BY Zenon DEF ClaimInv, MemoryInv, TokenInv
<1>2. \A x \in {m.rec : m \in {k \in net : k.task = t}} \cup {tasks[n][t] : n \in Peers} :
          x.token # NoToken => Shape(x) \in Claims(t)
  <2>1. ASSUME NEW m \in net, m.task = t PROVE m.rec \in Records(t)
    BY <1>1, <2>1, Zenon DEF Records, TypeOK, Message
  <2>2. ASSUME NEW n \in Peers, tasks[n][t].token # NoToken PROVE tasks[n][t] \in Records(t)
    <3>1. tasks[n][t] \in TaskRecord \cup {NoRecord}
      BY <1>1, EntryTypes, Zenon
    <3>2. NoRecord.token = NoToken
      BY Zenon DEF NoRecord
    <3> QED
      BY <2>2, <3>1, <3>2, Zenon DEF Records
  <2> QED
    BY <2>1, <2>2, Zenon DEF Claims
<1>3. Shape(r) \in Claims(t) /\ Shape(s) \in Claims(t)
  BY <1>2, Zenon
<1>4. SameClaim(Shape(r), Shape(s))
  BY <1>1, <1>3, ShapeFields, Zenon DEF Unique
<1> QED
  BY <1>4, ShapeFields, Zenon DEF SameClaim

=============================================================================
