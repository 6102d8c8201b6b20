------------------------------ MODULE PeerNode ------------------------------
(***************************************************************************)
(* A mesh of PeerNodes (peerq/node.py): task submission, gossip, the       *)
(* worker that claims, runs and commits a task, the audit that reclaims    *)
(* tasks of suspected holders, and crash and recovery through the log.     *)
(*                                                                         *)
(* asyncio runs a node on one thread, so that the code between two awaits  *)
(* is one step.  The worker is suspended in _broadcast_task_update and in  *)
(* the handler; the audit is suspended in the broadcast of a release.      *)
(*                                                                         *)
(* net is the set of the records that may be under way.  A message may be  *)
(* delivered to any peer, late, never, or more than once: the gossip loop  *)
(* sends what a node holds again and again, so that copies of a record may *)
(* still be under way when the node has long replaced it.  A message that  *)
(* is in net and never delivered is one that was lost or never sent, so    *)
(* that a record can be put there when it is stored, as if the gossip loop *)
(* ran at once; for the same reason a broadcast sends in one step.         *)
(*                                                                         *)
(* The failure detector is asked at three places; S is the set of peers    *)
(* that it reports there.  Any set may be reported, or, when Accurate      *)
(* holds, exactly the peers that are down.                                 *)
(***************************************************************************)
EXTENDS Consensus, FiniteSets

CONSTANTS
    Tasks,            \* task identifiers, numbers: the order of strings is theirs
    Workers,          \* the peers that have a handler
    Submitters,       \* the peers that clients submit to
    WalNodes,         \* the peers that have a write-ahead log
    Gossiping,        \* the peers whose gossip_interval is shorter than the run
    Restarting,       \* the peers that are started again after a crash
    Accurate,         \* the failure detector makes no mistakes
    Prompt,           \* handlers return before the lease ends
    Score,            \* Score[t][p]: the rendezvous score of peer p for task t
    Offset,           \* Offset[p]: what the monotonic clock of p is ahead of now
    Outcomes,         \* DONE if some handler returns, FAILED if some handler raises
    LeaseDurations,   \* lease durations of the payloads and the default
    QueueSize,        \* maxsize of the local queue
    MaxTasks,         \* max_tasks, the bound of the task store
    MaxGossipTasks,   \* SecurityConfig.max_gossip_tasks
    MaxSubmits,       \* bound: submissions of one task identifier in the mesh
    MaxEpoch,         \* bound: epochs that claims and releases reach
    MaxTime,          \* bound: ticks of the clock
    MaxCrashes,       \* bound: crashes in the mesh
    MaxCrashTime      \* bound: the last time of a crash

ASSUME TasksAssumption == Tasks \subseteq Nat /\ IsFiniteSet(Tasks)
ASSUME RolesAssumption == Workers \subseteq Peers /\ WalNodes \subseteq Peers
ASSUME ScoreAssumption == Score \in [Tasks -> [Peers -> Nat]]
ASSUME OffsetAssumption == Offset \in [Peers -> Nat]
ASSUME OutcomesAssumption == Outcomes \subseteq {"DONE", "FAILED"}
ASSUME LeaseAssumption == LeaseDurations \subseteq Nat
ASSUME BoundsAssumption ==
    QueueSize \in Nat \ {0} /\ MaxTasks \in Nat /\ MaxGossipTasks \in Nat

VARIABLES
    up,        \* up[n]: the process of node n runs
    tasks,     \* tasks[n]: _tasks, a record or NoRecord for every task
    vc,        \* vc[n]: _vector_clock
    queue,     \* queue[n]: _queue, in the order of service
    queued,    \* queued[n]: _queued_task_ids
    worker,    \* worker[n]: the local variables of _worker_loop, and where it waits
    snap,      \* snap[n]: what is left of the snapshot of _reclaim_loop
    log,       \* log[n]: what a replay of the log of n gives, tasks and clock
    net,       \* the messages that were sent
    now,       \* time
    submits,   \* submits[t]: submissions of task t so far
    crashes    \* crashes so far

vars == <<up, tasks, vc, queue, queued, worker, snap, log, net, now, submits, crashes>>

-----------------------------------------------------------------------------
(* The local priority queue: higher priorities first, FIFO among equals *)

Entry == [task : Tasks, pri : {0, 10}]

(* Mutant: the negated priority of the heap leaks out *)
Put_Negated(q, t, pri) == Append(q, [task |-> t, pri |-> 0 - pri])

Put(q, t, pri) ==
    LET k == Cardinality({i \in DOMAIN q : q[i].pri >= pri})
    IN  SubSeq(q, 1, k) \o <<[task |-> t, pri |-> pri]>> \o SubSeq(q, k + 1, Len(q))

Full(q) == Len(q) >= QueueSize

(* Mutant: the task is marked as queued, and not put *)
EnqueueIf_MarkOnly(n, t, pri, condition) ==
    /\ queue' = queue
    /\ queued' = IF condition THEN [queued EXCEPT ![n] = @ \cup {t}] ELSE queued

(* put_nowait under suppress(QueueFull), for a task that is not queued yet *)
EnqueueIf(n, t, pri, condition) ==
    LET put == condition /\ t \notin queued[n] /\ ~ Full(queue[n])
    IN  /\ queue' = IF put THEN [queue EXCEPT ![n] = Put(@, t, pri)] ELSE queue
        /\ queued' = IF put THEN [queued EXCEPT ![n] = @ \cup {t}] ELSE queued

-----------------------------------------------------------------------------
(* The log: a task record and then the clock are appended, each with a     *)
(* flush of its own; log[n] is what _recover_from_wal makes of all that    *)
(* was appended.  LogAppend is both appends.  A process that dies between  *)
(* the two (CrashInAppend) leaves the task record without the clock.       *)

Known(store) == {t \in Tasks : store[t] # NoRecord}

Replayed(store, t, r) ==
    IF Secure /\ ~ VerifyTaskAuthorization(r) THEN store
    ELSE IF store[t] = NoRecord
         THEN IF Cardinality(Known(store)) < MaxTasks THEN [store EXCEPT ![t] = r] ELSE store
    ELSE IF Mergeable(store[t], r) THEN [store EXCEPT ![t] = MergeRecords(@, r)] ELSE store

(* Mutant: the clock is not logged *)
LogAppend_NoClock(n, t, r, v) ==
    log' = IF n \in WalNodes THEN [log EXCEPT ![n].tasks = Replayed(@, t, r)] ELSE log

(* Mutant: the task is not logged *)
LogAppend_NoTask(n, t, r, v) ==
    log' = IF n \in WalNodes THEN [log EXCEPT ![n].vc = MergeClocks(@, v)] ELSE log

LogTask(n, t, r) == log' = [log EXCEPT ![n].tasks = Replayed(@, t, r)]

LogAppend(n, t, r, v) ==
    log' = IF n \in WalNodes
           THEN [log EXCEPT ![n] = [tasks |-> Replayed(@.tasks, t, r),
                                    vc |-> MergeClocks(@.vc, v)]]
           ELSE log

EmptyStore == [t \in Tasks |-> NoRecord]

-----------------------------------------------------------------------------
(* Messages *)

GossipMessage(n, t, r) == [from |-> n, task |-> t, rec |-> r]

(* What _gossip_loop sends of a task store: the first MaxGossipTasks tasks *)
(* in the order of their names.  It sleeps before its first round.         *)
Gossip(n, store) ==
    LET known == Known(store)
        first == {t \in known : /\ n \in Gossiping
                                /\ Cardinality({u \in known : u < t}) < MaxGossipTasks}
    IN  {GossipMessage(n, t, store[t]) : t \in first}

SetTask(n, t, r) ==
    LET store == [tasks[n] EXCEPT ![t] = r]
    IN  /\ tasks' = [tasks EXCEPT ![n] = store]
        /\ net' = net \cup Gossip(n, store)

(* _broadcast_task_update: store, log, send.  The record is sealed again,  *)
(* which gives the same bytes.                                             *)
BroadcastTaskUpdate(n, t, r, v) ==
    LET store == [tasks[n] EXCEPT ![t] = r]
    IN  /\ tasks' = [tasks EXCEPT ![n] = store]
        /\ vc' = [vc EXCEPT ![n] = v]
        /\ LogAppend(n, t, r, v)
        /\ net' = net \cup Gossip(n, store) \cup {GossipMessage(n, t, r)}

-----------------------------------------------------------------------------
Idle == [pc |-> "idle", task |-> 0, token |-> NoToken, lease |-> 0]

NoSnap == EmptyStore

Init ==
    /\ up = [n \in Peers |-> TRUE]
    /\ tasks = [n \in Peers |-> EmptyStore]
    /\ vc = [n \in Peers |-> ZeroClock]
    /\ queue = [n \in Peers |-> <<>>]
    /\ queued = [n \in Peers |-> {}]
    /\ worker = [n \in Peers |-> Idle]
    /\ snap = [n \in Peers |-> NoSnap]
    /\ log = [n \in Peers |-> [tasks |-> EmptyStore, vc |-> ZeroClock]]
    /\ net = {}
    /\ now = 0
    /\ submits = [t \in Tasks |-> 0]
    /\ crashes = 0

LocalNow(n) == now + Offset[n]

(* submit_task: an existing record is overwritten; on QueueFull the record *)
(* is already stored and logged.                                           *)
MaySubmit(n, t) ==
    /\ up[n] /\ n \in Submitters
    /\ submits[t] < MaxSubmits
    /\ tasks[n][t] = NoRecord => Cardinality(Known(tasks[n])) < MaxTasks

NewTask(n) == SealRecord(n, NewRecord(n, "PENDING", 0, NoToken, 0, Increment(vc[n], n)))

Submit(n, t) ==
    LET v == Increment(vc[n], n)
    IN  /\ MaySubmit(n, t)
        /\ SetTask(n, t, NewTask(n))
        /\ vc' = [vc EXCEPT ![n] = v]
        /\ LogAppend(n, t, NewTask(n), v)
        /\ queue' = IF Full(queue[n]) THEN queue ELSE [queue EXCEPT ![n] = Put(@, t, 0)]
        /\ queued' = IF Full(queue[n]) THEN queued ELSE [queued EXCEPT ![n] = @ \cup {t}]
        /\ submits' = [submits EXCEPT ![t] = @ + 1]
        /\ UNCHANGED <<up, worker, snap, now, crashes>>

(* _recv_loop on one record of a gossip message; a record that is refused   *)
(* changes nothing.                                                         *)
Accepts(n, m) ==
    /\ up[n]
    /\ m.from # n
    /\ Secure => m.rec.signer = m.from /\ VerifyTaskAuthorization(m.rec)
    /\ IF tasks[n][m.task] = NoRecord THEN Cardinality(Known(tasks[n])) < MaxTasks
                                      ELSE Mergeable(tasks[n][m.task], m.rec)

Joined(s, r) == IF s = NoRecord THEN r ELSE MergeRecords(s, r)

Receive(n, m) ==
    LET t == m.task
        merged == Joined(tasks[n][t], m.rec)
        v == MergeClocks(vc[n], m.rec.vc)
    IN  /\ Accepts(n, m)
        /\ SetTask(n, t, merged)
        /\ EnqueueIf(n, t, 0, merged.state = "PENDING")
        /\ vc' = [vc EXCEPT ![n] = v]
        /\ LogAppend(n, t, merged, v)
        /\ UNCHANGED <<up, worker, snap, now, submits, crashes>>

-----------------------------------------------------------------------------
(* _worker_loop *)

HasActiveClaim(n, r, S) ==
    /\ r.state \in {"CLAIMED", "RUNNING"}
    /\ r.claimed_by # n
    /\ r.lease > LocalNow(n)
    /\ r.claimed_by \notin S

Skips(n, r, S) == r = NoRecord \/ IsTerminal(r.state) \/ HasActiveClaim(n, r, S)

(* Mutant: the mark of a task that leaves the queue stays *)
Dequeue_KeepsMark(n) ==
    /\ queue' = [queue EXCEPT ![n] = Tail(@)]
    /\ queued' = queued

Dequeue(n) ==
    /\ queue' = [queue EXCEPT ![n] = Tail(@)]
    /\ queued' = [queued EXCEPT ![n] = @ \ {Head(queue[n]).task}]

CanDequeue(n) == up[n] /\ n \in Workers /\ worker[n].pc = "idle" /\ queue[n] # <<>>

WorkerSkip(n, S) ==
    /\ CanDequeue(n)
    /\ Skips(n, tasks[n][Head(queue[n]).task], S)
    /\ Dequeue(n)
    /\ UNCHANGED <<up, tasks, vc, worker, snap, log, net, now, submits, crashes>>

MayClaim(n, t, S) ==
    /\ CanDequeue(n)
    /\ t = Head(queue[n]).task
    /\ ~ Skips(n, tasks[n][t], S)
    /\ NextFor(tasks[n][t].token, n).epoch <= MaxEpoch

Claim(n, t, d) ==
    SealRecord(n, NewRecord(n, "CLAIMED", n, NextFor(tasks[n][t].token, n), LocalNow(n) + d,
                            Increment(vc[n], n)))

WorkerClaim(n, S, d) ==
    LET t == Head(queue[n]).task
    IN  /\ MayClaim(n, t, S)
        /\ Dequeue(n)
        /\ BroadcastTaskUpdate(n, t, Claim(n, t, d), Increment(vc[n], n))
        /\ worker' = [worker EXCEPT ![n] =
                         [pc |-> "claimed", task |-> t, token |-> NextFor(tasks[n][t].token, n),
                          lease |-> LocalNow(n) + d]]
        /\ UNCHANGED <<up, snap, now, submits, crashes>>

(* The broadcast of the claim is over: RUNNING is stored over whatever has *)
(* been merged meanwhile.  It is not logged, and not broadcast.            *)
Running(n) ==
    SealRecord(n, NewRecord(n, "RUNNING", n, worker[n].token, worker[n].lease, vc[n]))

WorkerRun(n) ==
    /\ up[n]
    /\ worker[n].pc = "claimed"
    /\ SetTask(n, worker[n].task, Running(n))
    /\ worker' = [worker EXCEPT ![n].pc = "running"]
    /\ UNCHANGED <<up, vc, queue, queued, snap, log, now, submits, crashes>>

(* The lease ran out during the execution, or a higher token is known. *)
MustNotCommit(n) ==
    LET w == worker[n]
    IN  \/ LocalNow(n) > w.lease
        \/ TokenGreater(tasks[n][w.task].token, w.token)

WorkerReject(n) ==
    /\ up[n]
    /\ worker[n].pc = "running"
    /\ MustNotCommit(n)
    /\ worker' = [worker EXCEPT ![n] = Idle]
    /\ UNCHANGED <<up, tasks, vc, queue, queued, snap, log, net, now, submits, crashes>>

(* The handler returned (DONE) or raised (FAILED).  What follows the        *)
(* broadcast of the result, counters and a credit, is not part of the mesh. *)
MayCommit(n) == up[n] /\ worker[n].pc = "running" /\ ~ MustNotCommit(n)

Result(n, outcome) ==
    SealRecord(n, NewRecord(n, outcome, n, worker[n].token, 0, Increment(vc[n], n)))

WorkerCommit(n, outcome) ==
    /\ MayCommit(n)
    /\ BroadcastTaskUpdate(n, worker[n].task, Result(n, outcome), Increment(vc[n], n))
    /\ worker' = [worker EXCEPT ![n] = Idle]
    /\ UNCHANGED <<up, queue, queued, snap, now, submits, crashes>>

-----------------------------------------------------------------------------
(* _reclaim_loop *)

(* Mutant: a peer that is suspected can be elected *)
ElectsItself_Any(n, t, S) == \A p \in Peers : Score[t][p] <= Score[t][n]

(* _rendezvous_reclaimer elects n among itself and the peers it trusts. *)
ElectsItself(n, t, S) == \A p \in Peers \ S : Score[t][p] <= Score[t][n]

Reclaimable(n, t, r, S) ==
    /\ r.state \in {"CLAIMED", "RUNNING"}
    /\ r.claimed_by # n
    /\ r.lease <= LocalNow(n)
    /\ ElectsItself(n, t, S)

(* With a handler: the task goes into the local queue, at priority 10. *)
ReclaimEnqueue(n, t, S) ==
    /\ up[n] /\ n \in Workers
    /\ Reclaimable(n, t, tasks[n][t], S)
    /\ tasks[n][t].claimed_by \in S
    /\ EnqueueIf(n, t, 10, TRUE)
    /\ UNCHANGED <<up, tasks, vc, worker, snap, log, net, now, submits, crashes>>

(* Without one: the task is released to PENDING, from the record that the  *)
(* snapshot holds.  The first release of a round takes the snapshot; the   *)
(* others find it as it was before the broadcast of the first.             *)
Todo(n, S) ==
    IF snap[n] = NoSnap
    THEN [u \in Tasks |-> IF Reclaimable(n, u, tasks[n][u], S) THEN tasks[n][u] ELSE NoRecord]
    ELSE snap[n]

MayRelease(n, t, S) ==
    LET record == Todo(n, S)[t]
    IN  /\ up[n] /\ n \notin Workers
        /\ record # NoRecord
        /\ record.claimed_by \in S
        /\ NextFor(record.token, n).epoch <= MaxEpoch

Released(n, t, S) ==
    SealRecord(n, NewRecord(n, "PENDING", 0, NextFor(Todo(n, S)[t].token, n), 0,
                            Increment(vc[n], n)))

ReclaimRelease(n, t, S) ==
    /\ MayRelease(n, t, S)
    /\ snap' = [snap EXCEPT ![n] = [Todo(n, S) EXCEPT ![t] = NoRecord]]
    /\ BroadcastTaskUpdate(n, t, Released(n, t, S), Increment(vc[n], n))
    /\ UNCHANGED <<up, queue, queued, worker, now, submits, crashes>>

(* The round ends: the holders of the tasks that are left are not suspected. *)
ReclaimEnd(n) ==
    /\ up[n]
    /\ snap[n] # NoSnap
    /\ snap' = [snap EXCEPT ![n] = NoSnap]
    /\ UNCHANGED <<up, tasks, vc, queue, queued, worker, log, net, now, submits, crashes>>

-----------------------------------------------------------------------------
(* Crash, restart and time *)

(* What the failure detector of n may report *)
Suspicions(n) ==
    LET down == {p \in Peers \ {n} : ~ up[p]}
    IN  {S \in SUBSET (Peers \ {n}) : S = down \/ ~ Accurate}

MayHalt(n) == up[n] /\ crashes < MaxCrashes /\ now <= MaxCrashTime

(* The process ends, and all that it had in memory is gone. *)
Halts(n) ==
    /\ MayHalt(n)
    /\ crashes' = crashes + 1
    /\ up' = [up EXCEPT ![n] = FALSE]
    /\ tasks' = [tasks EXCEPT ![n] = EmptyStore]
    /\ vc' = [vc EXCEPT ![n] = ZeroClock]
    /\ queue' = [queue EXCEPT ![n] = <<>>]
    /\ queued' = [queued EXCEPT ![n] = {}]
    /\ worker' = [worker EXCEPT ![n] = Idle]
    /\ snap' = [snap EXCEPT ![n] = NoSnap]

Crash(n) == Halts(n) /\ UNCHANGED <<log, net, now, submits>>

(* The process ends between append_task and append_clock: the task record   *)
(* is in the log, its clock is not, and nothing was sent.                   *)
CutShort(n, t, r) == n \in WalNodes /\ Halts(n) /\ LogTask(n, t, r) /\ UNCHANGED <<net, now>>

CrashInAppend(n) ==
    /\ MayHalt(n)
    /\ \/ \E t \in Tasks :
             /\ MaySubmit(n, t) /\ CutShort(n, t, NewTask(n))
             /\ submits' = [submits EXCEPT ![t] = @ + 1]
       \/ \E m \in net :
             /\ Accepts(n, m) /\ CutShort(n, m.task, Joined(tasks[n][m.task], m.rec))
             /\ UNCHANGED submits
       \/ \E t \in Tasks, S \in Suspicions(n), d \in LeaseDurations :
             MayClaim(n, t, S) /\ CutShort(n, t, Claim(n, t, d)) /\ UNCHANGED submits
       \/ \E outcome \in Outcomes :
             /\ MayCommit(n) /\ CutShort(n, worker[n].task, Result(n, outcome))
             /\ UNCHANGED submits
       \/ \E t \in Tasks, S \in Suspicions(n) :
             MayRelease(n, t, S) /\ CutShort(n, t, Released(n, t, S)) /\ UNCHANGED submits

(* Mutant: the tasks of the log are not taken over *)
Recovered_None(n) == EmptyStore

Recovered(n) == log[n].tasks

(* Only PENDING tasks are queued again, in the order of the log, until the  *)
(* queue is full.                                                           *)
Requeue(n) ==
    LET pending == {t \in Tasks : Recovered(n)[t].state = "PENDING"}
        size == IF Cardinality(pending) <= QueueSize THEN Cardinality(pending) ELSE QueueSize
    IN  \E order \in [1 .. size -> pending] :
           /\ \A i, j \in 1 .. size : order[i] = order[j] => i = j
           /\ queue' = [queue EXCEPT ![n] =
                           [i \in 1 .. size |-> [task |-> order[i], pri |-> 0]]]
           /\ queued' = [queued EXCEPT ![n] = {order[i] : i \in 1 .. size}]

(* start, with _recover_from_wal.  Without a log, log[n] is as in Init. *)
Restart(n) ==
    /\ ~ up[n] /\ n \in Restarting
    /\ up' = [up EXCEPT ![n] = TRUE]
    /\ tasks' = [tasks EXCEPT ![n] = Recovered(n)]
    /\ net' = net \cup Gossip(n, Recovered(n))
    /\ vc' = [vc EXCEPT ![n] = log[n].vc]
    /\ Requeue(n)
    /\ UNCHANGED <<worker, snap, log, now, submits, crashes>>

(* The clocks of all peers advance together. *)
Tick ==
    /\ now < MaxTime
    /\ Prompt => \A n \in Peers : worker[n].pc # "idle" => LocalNow(n) < worker[n].lease
    /\ now' = now + 1
    /\ UNCHANGED <<up, tasks, vc, queue, queued, worker, snap, log, net, submits, crashes>>

NodeStep(n) ==
    \/ \E t \in Tasks : Submit(n, t)
    \/ \E m \in net : Receive(n, m)
    \/ \E S \in Suspicions(n) : WorkerSkip(n, S)
    \/ \E S \in Suspicions(n), d \in LeaseDurations : WorkerClaim(n, S, d)
    \/ WorkerRun(n)
    \/ WorkerReject(n)
    \/ \E outcome \in Outcomes : WorkerCommit(n, outcome)
    \/ \E t \in Tasks, S \in Suspicions(n) : ReclaimEnqueue(n, t, S)
    \/ \E t \in Tasks, S \in Suspicions(n) : ReclaimRelease(n, t, S)
    \/ ReclaimEnd(n)
    \/ Crash(n)
    \/ CrashInAppend(n)
    \/ Restart(n)

Next == Tick \/ \E n \in Peers : NodeStep(n)

Spec == Init /\ [][Next]_vars

-----------------------------------------------------------------------------
WorkerState ==
    [pc : {"idle", "claimed", "running"}, task : Tasks \cup {0},
     token : FenceToken, lease : Nat]

Message == [from : Peers, task : Tasks, rec : TaskRecord]

Store == [Tasks -> TaskRecord \cup {NoRecord}]

(* Types of the state of the mesh: stores, logs, snapshots and messages    *)
(* hold records of TaskRecord only.                                        *)
TypeOK ==
    /\ up \in [Peers -> BOOLEAN]
    /\ tasks \in [Peers -> Store]
    /\ vc \in [Peers -> VectorClock]
    /\ queue \in [Peers -> Seq(Entry)]
    /\ queued \in [Peers -> SUBSET Tasks]
    /\ worker \in [Peers -> WorkerState]
    /\ \A n \in Peers : worker[n].pc # "idle" => worker[n].task \in Tasks
    /\ snap \in [Peers -> Store]
    /\ log \in [Peers -> [tasks : Store, vc : VectorClock]]
    /\ net \subseteq Message
    /\ now \in Nat
    /\ submits \in [Tasks -> Nat]
    /\ crashes \in Nat

(* The events that peer p remembers of itself: its own counter in memory,  *)
(* or, while it is down, the one that its log will give back.              *)
OwnCounter(p) == IF up[p] THEN vc[p][p] ELSE log[p].vc[p]

(* A crash costs a peer at most one event of its vector clock: no clock in *)
(* the mesh, of a node, of a log, or of a record that is stored, logged or *)
(* under way, is more than one ahead of what peer p remembers of its own   *)
(* events.  The one is the event whose task record was appended when the   *)
(* process died before append_clock: _recover_from_wal takes no clock from *)
(* a task record, so that the peer numbers its next event like that one.   *)
CausalBound ==
    \A p \in WalNodes :
        LET bound == OwnCounter(p) + 1
        IN  /\ \A n \in Peers : vc[n][p] <= bound /\ log[n].vc[p] <= bound
            /\ \A n \in Peers, t \in Tasks : /\ tasks[n][t].vc[p] <= bound
                                            /\ log[n].tasks[t].vc[p] <= bound
            /\ \A m \in net : m.rec.vc[p] <= bound

(* The clock of a running peer is durable: a replay gives the same one. *)
DurableClock == \A n \in WalNodes : up[n] => log[n].vc = vc[n]

(* A merge can replace the clock of a signed record, which voids its        *)
(* signature (merge_records): the record is refused by every other peer and *)
(* dropped by a replay.  SignaturesHold: that has not happened to a record  *)
(* that a peer holds or has logged.                                         *)
Authentic(r) == Secure /\ r # NoRecord => VerifyTaskAuthorization(r)

SignaturesHold ==
    \A n \in Peers, t \in Tasks : Authentic(tasks[n][t]) /\ Authentic(log[n].tasks[t])

(* submit_task is not called for a task that the peer already holds, whose  *)
(* record it would overwrite.                                               *)
FreshSubmits == \A n \in Peers, t \in Tasks : Submit(n, t) => tasks[n][t] = NoRecord

(* A claim is identified by its fencing token (FenceToken.next_for): two    *)
(* records of a task that carry the same token, wherever they are and       *)
(* whatever crashed in between, name the same holder and the same lease     *)
(* while they are active, and the same outcome once they are terminal.      *)
(* Under SignaturesHold and FreshSubmits, and when the peers that are       *)
(* started again have a log; the default, secure, mode can break the first. *)
SameClaim(r, s) ==
    /\ r.claimed_by = s.claimed_by
    /\ ~ IsTerminal(r.state) /\ ~ IsTerminal(s.state) => r.lease = s.lease
    /\ IsTerminal(r.state) /\ IsTerminal(s.state) => r.state = s.state

TokenUnique ==
    \A t \in Tasks :
        LET records == {m.rec : m \in {k \in net : k.task = t}} \cup {tasks[n][t] : n \in Peers}
            claims == {r \in records : r.token # NoToken}
        IN  \A r, s \in claims : r.token = s.token => SameClaim(r, s)

(* Write-ahead: what a peer with a log has announced, it will remember     *)
(* after a crash.  The record that a replay gives is not below any record  *)
(* that was sent, except that RUNNING, which is never logged, comes back   *)
(* as the claim it followed (_broadcast_task_update and _recv_loop).       *)
(* Under SignaturesHold: a replay drops a record with a void signature.    *)
AnnouncedIsLogged ==
    \A m \in net : m.from \in WalNodes =>
        LET r == log[m.from].tasks[m.task]
        IN  IF m.rec.state = "RUNNING"
            THEN ~ TokenGreater(m.rec.token, r.token) \/ IsTerminal(r.state)
            ELSE /\ ClockLeq(m.rec.vc, r.vc)
                 /\ LexGeq(RecordLatticeKey(r), RecordLatticeKey(m.rec))

(* A pending task is never forgotten: while a worker holds a PENDING       *)
(* record, an entry of its queue is for that task, through submission,     *)
(* gossip, release and recovery.  Under FreshSubmits, so that a task has   *)
(* one entry at most, and when the queue has room for all tasks.           *)
PendingIsServed ==
    \A n \in Workers, t \in Tasks :
        up[n] /\ tasks[n][t].state = "PENDING"
            => \E i \in DOMAIN queue[n] : queue[n][i].task = t

-----------------------------------------------------------------------------
(* Fairness.  Every loop of a running node goes on: asyncio resumes a      *)
(* ready coroutine, the handler returns or raises, time passes.  The       *)
(* gossip loop chooses its partner at random and never stops, so that a    *)
(* record which a peer keeps holding is some day delivered to each other   *)
(* peer; nothing is assumed of a record that is replaced before that.      *)

Deliver(n, p, t) == \E m \in net : m = GossipMessage(p, t, tasks[p][t]) /\ Receive(n, m)

WorkerStep(n) ==
    \/ \E S \in Suspicions(n) : WorkerSkip(n, S)
    \/ \E S \in Suspicions(n), d \in LeaseDurations : WorkerClaim(n, S, d)
    \/ WorkerRun(n)
    \/ WorkerReject(n)
    \/ \E outcome \in Outcomes : WorkerCommit(n, outcome)

ReclaimStep(n, t) ==
    \E S \in Suspicions(n) : ReclaimEnqueue(n, t, S) \/ ReclaimRelease(n, t, S)

Fairness ==
    /\ WF_vars(Tick)
    /\ \A n \in Peers :
          /\ WF_vars(WorkerStep(n))
          /\ WF_vars(ReclaimEnd(n))
          /\ WF_vars(Restart(n))
          /\ \A t \in Tasks : WF_vars(ReclaimStep(n, t))
          /\ \A p \in Peers, t \in Tasks : WF_vars(Deliver(n, p, t))

FairSpec == Spec /\ Fairness

(* Every task that a running peer knows of reaches a result there, or the  *)
(* peer crashes: submission, gossip, claims and the audit of the leases    *)
(* together lose no task when a worker dies.  In secure mode, under        *)
(* SignaturesHold: a result whose signature a late claim has voided is     *)
(* refused by every peer, and its holder, being alive, is not reclaimed.   *)
TaskCompletes ==
    \A n \in Peers, t \in Tasks :
        up[n] /\ tasks[n][t] # NoRecord ~> ~ up[n] \/ IsTerminal(tasks[n][t].state)

-----------------------------------------------------------------------------
(* A statement of the source that the code does not meet *)

(* "if our token was superseded, we must NOT commit a stale result"        *)
(* (node.py, _worker_loop): a commit of a token when the peer has already  *)
(* accepted, and logged, a higher one.                                     *)
NoStaleCommit ==
    [][\A n \in WalNodes :
          LET w == worker[n]
          IN  w.pc = "running" /\ IsTerminal(tasks'[n][w.task].state)
                               /\ tasks'[n][w.task].token = w.token
                  => ~ TokenGreater(log[n].tasks[w.task].token, w.token)]_vars

=============================================================================
