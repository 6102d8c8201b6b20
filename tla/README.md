# PeerQ in TLA+

Specifications of the task queue in `src/peerq`, model-checked with TLC on small
instances, with theorems that TLAPS checks for all instances. Every definition
that models code is listed in `PROJECT.json` with the lines it stands for.

## 1. The system

PeerQ is a task queue without a coordinator. Each peer holds a replica of all
task records, spreads it by gossip, claims tasks under a lease with a fencing
token, runs a handler, and announces the result. All concurrency within a peer is
asyncio: the code between two awaits is one step, and what was read before an
await may be stale after it.

| Part | State | Operations | Talks to |
|---|---|---|---|
| consensus types (`consensus.py`) | none (values) | clock increment and merge, `FenceToken.next_for`, `merge_records` | used by all |
| record signatures (`crypto.py`) | keys | `sign_task`, `verify_task_authorization` | merge, node |
| node (`node.py`) | `_tasks`, `_vector_clock`, `_queue`, `_queued_task_ids`, locals of four loops | `submit_task`, receive, gossip, worker, audit of leases, `start` with recovery | all below |
| log (`wal.py`) | a file of frames | open, `append`, `replay`, `checkpoint`, `close` | node |
| priority queue (`queue.py`) | heap, one condition | `put`, `put_nowait`, `get`, `get_nowait` | node |
| credit flow control (`queue.py`) | credits and futures per peer | `acquire`, `try_acquire`, `replenish`, `init_peer` | node |
| failure detector (`failure.py`) | last heartbeat and intervals per peer | `heartbeat`, `phi`, `is_suspected` | node |
| discovery (`discovery.py`) | directory of peers with ages | announce, listen, TTL scan, `bind_node` | broadcast transport, node |
| replay cache (`security.py`) | nonces with times | `check_and_remember` | discovery, node |
| simulated network (`transport.py`) | inboxes, blocked links | `send`, `recv`, `close`, partitions | clock, node |
| TCP transport (`transport.py`) | table of connections, incoming writers, inbox | `send`, `recv`, `close`, handlers of clients | node |
| broadcast transports (`transport.py`) | inboxes | send, deliver, close | discovery |
| HTTP server (`transport.py`, `exporter.py`) | a handler per connection | read, route, answer, stop | metrics, node |
| clocks (`clock.py`) | virtual time and sleepers | `now`, `sleep`, `advance_to`, `step` | all |
| metrics (`metrics.py`) | counters, histograms | `increment`, `record`, `quantile` | node, HTTP server |

What makes the system hard: messages are lost, repeated, delayed and reordered;
a process dies between any two steps, and inside a write of the log; the worker
and the audit act on state they read before an await; the failure detector is
wrong at times; leases are points of time of the holder's clock; queues, caches
and inboxes have limits. Section `hazards` of `PROJECT.json` lists these
dangers at the line where each one bites, with the property that would catch it,
or why there is none yet.

## 2. The modules

    Consensus ──> Replicas ──> MCReplicas               merge of records
        │            └───────> RecordProofs
        └───────> PeerNode ──> MCPeerNode               the mesh
                     └───────> RecordProofs ──> PeerNodeInvariants ──> PeerNodeProofs
    Network                                             what a node relies on
      ├ implemented by SimNetwork ──> MCSimNetwork      (on SimClock)
      │                     └───────> SimNetworkProofs
      └ implemented by TcpTransport ──> MCTcpTransport
                            ├───────> ServerProofs      (the refinement)
                            └───────> LimitsProofs      (the limits)
    PriorityQueue, CreditFlow ──> MCFlow                bounded resources
                            └───> LimitsProofs
    Metrics, StatusServer ──────> MCStatus              telemetry
       │             └──────────> ServerProofs
       └────────────────────────> MonitoringProofs
    FailureDetector ────────────> MonitoringProofs      suspicion
    Wal, Discovery ─────────────> ComponentProofs       log; directory

`Consensus` has no state: it defines clocks, tokens, records, signatures, the
lattice key and `MergeRecords`. Peer identifiers are positive numbers, because
the code compares identifiers (in tokens and in the lattice key) and only their
order matters; 0 is `""` or `None`. Payload, result and error are left out. A
signature is ideal and is represented by the clock it was computed over: of the
signed fields, `vector_clock` is the only one the code replaces without signing
again, so `VerifyTaskSignature` asks whether the clock is still the signed one.
The constant operator `SigRank` is the order of signature bytes, which is
arbitrary in the code and only has to be some order.

`Replicas` delivers a set of records to replicas of one task, in any order and
number, with the rule of `_recv_loop` (store the first, merge the others).
`MCReplicas` gives eight records of one history in which a task is claimed twice
concurrently, completed by one holder, released by a third peer and failed by the
other holder.

`PeerNode` is the mesh. One action is one piece of a loop between two awaits:

| Action | Code |
|---|---|
| `Submit` | `submit_task`, with `QueueFull` after the record is stored and logged |
| `Receive` | one record of a gossip message in `_recv_loop`: authorise, merge, enqueue, log |
| `WorkerSkip`, `WorkerClaim` | `_worker_loop` up to the await of the claim's broadcast |
| `WorkerRun` | RUNNING is stored over what was merged during that await |
| `WorkerReject`, `WorkerCommit` | after the handler: lease and token checks, result |
| `ReclaimEnqueue`, `ReclaimRelease`, `ReclaimEnd` | one round of `_reclaim_loop` of a peer with and without a handler; releases work from the snapshot |
| `Crash`, `CrashInAppend` | death of the process between two steps, and inside one, between `append_task` and `append_clock` |
| `Restart` | `start` with `_recover_from_wal` |
| `Tick` | time |

`net` is the set of all messages that may be under way. Nothing is removed from
it, so a message may come late, never, or many times. Because a message that is
never delivered is a lost or an unsent one, what a node holds is in `net` at once:
the gossip loop adds no behaviour of its own (`Gossiping` may leave out peers whose
`gossip_interval` is longer than the run). `log[n]` is what a replay of n's log
yields; `Wal` looks at the file itself. The answers of the failure detector are
arbitrary sets of peers (`Accurate = FALSE`), or exactly the peers that are down.
`Offset` lets the monotonic clocks of peers differ.

Two conditions on behaviours recur below, because the code lets callers and messages
break them and then promises less. `SignaturesHold`: no record that a peer holds or has
logged has a void signature. In secure mode, the default, `merge_records` gives the
winner the merged clock and keeps its signature, so that a merge of concurrent records
voids it (without security the condition always holds). `FreshSubmits`: `submit_task` is
not called at a peer for a task that it holds, whose record it would overwrite.
`MCPeerNode` defines `IntactSpec`, the behaviours that meet both.

`Wal` is the file as a sequence of cells, so that a write may be torn in the
header, between header and payload, and in the payload. `ReplayFrom` is
`replay(strict=False)`: `Replay` gives for each offset what is read from there on. Pieces of frames that are read as a header may be taken
for any length: a torn tail or a corrupt frame, both are tried.

`PriorityQueue` has the coroutines that put and get, the waiters of the
condition, those that were woken and not resumed, and the deferred
`_async_notify` tasks. The policy is chosen by `QueueInit`, so one run covers both.
`CreditFlow` has the window of one peer, the futures in its list (a set, because
`replenish` wakes them all), the callers that were woken, and their cancellation.
`FailureDetector` is one observer and one peer; `phi >= threshold` is turned into an exact comparison of integers (the
header of the module derives it). `Discovery` is one listening node with its
directory, its replay cache and its inbox, and the senders around it.

`Network` is the abstract specification of a `Transport`: a message may be lost at
any time, may overtake others, and is handed to its addressee at most once. A call
of `send` may raise although the message arrives. `SimNetwork` and `TcpTransport`
each instantiate it with what is in flight as a function of their own state
(`InFlight`), and the property `ImplementsNetwork` is its specification.

`SimClock` is the heap of sleepers with cancelled entries in it, the virtual time,
and the queue in which the event loop resumes coroutines. `SimNetwork` extends it:
coroutines that call `route_message`, which sleeps; blocked links; inboxes;
transports that close and are replaced under the same identifier (`life`). A
message carries the incarnation it was sent to, so that `NoGhost` can be stated.

`TcpTransport` has, for every coroutine that sends, the await it is at (dial,
handshake, drain, `wait_closed`); the table of connections of every node; both ends
of every connection and the frames between them; the handlers of the server; and
`close()` step by step, with the iteration over the table that another coroutine may
disturb. A connection may break at any time (`Break`), a call may be cancelled at any
await (`Cancel`). Whether a frame passes the checks of `_verify_message` is a choice.

`Metrics` is the histogram in exact arithmetic: values are counted in half
microseconds, because the middle of a bucket is one half off, and quantiles are
fractions. `Cumulative` is what the loop of `quantile` has added up at each bucket. The
history variable `samples` is the sequence of recorded values, which the buckets
forget.
`StatusServer` is one handler per connection with the await it is at; the client
chooses what arrives. `MCFlow` and `MCStatus` each hold two components that share no
variable: a variable `half` says which one is explored.

## 3. The runs

The runs of the mesh, `discovery`, `simnet` and `tcp` take one to three minutes, the
others less. `tlc -config <cfg> <module>` repeats any of them.

| Run | Module, cfg | Distinct states | Question |
|---|---|---|---|
| `merge` | MCReplicas | 65,536 | do unsigned replicas converge, and does a merge never lose? |
| `mesh` | MCPeerNode | 125,900 | safety of two workers with logs, one crash, any suspicion (without signatures) |
| `release` | MCPeerNode, MCRelease | 34,706 | with signatures, a worker and a peer that releases two tasks from one snapshot |
| `live` | MCPeerNode, MCLive | 3,618 | with signatures, does every task complete when a worker dies? |
| `wal` | Wal, MCWal | 368,462 | durability through crashes in appends and checkpoints |
| `flow` | MCFlow | 210,674 | bound, conservation, lost wake-ups; overdrafts and sleepers |
| `detector` | FailureDetector, MCDetector | 16,188 | stability, completeness, recovery of trust |
| `discovery` | Discovery, MCDiscovery | 220,592 | replays, addresses, expiry |
| `simnet` | MCSimNetwork | 104,560 | does the simulation implement the network, in order and on time? |
| `tcp` | MCTcpTransport | 204,940 | does TCP implement the network, within its limits? |
| `status` | MCStatus | 15,904 | error bound of quantiles; one answer, token, end of requests |
| `stale_commit` | MCPeerNode, MCNoStaleCommit | violation | commits under a superseded token |

The types are part of `mesh` and, for both components, `status`; the type
invariants of the other modules document the state and hold on the same instances
(add them to `INVARIANTS`).

### What the passing runs show

- `merge`: `Convergence` (replicas that merged the same records hold equal
  records) and `UpperBound` (the result dominates every merged clock, is terminal
  when one record was, and has no lower token within its class). All orders and
  repetitions of eight records at two replicas are explored; the records contain
  two concurrent claims, two terminal records with different tokens, and a release.
- `mesh`: `CausalBound` (no clock anywhere is more than one event ahead of what its
  peer remembers of itself, crash or not), `TokenUnique` (equal tokens mean the same
  claim and the same outcome), `AnnouncedIsLogged` (a restart gives back whatever was
  announced) and `PendingIsServed` (a PENDING record has an entry in the queue). The one
  event of `CausalBound` is a record that was appended when the process died before
  `append_clock`: `_recover_from_wal` takes no clock from task records, so that the peer
  gives the number of that event to its next one. Both peers submit the same task. Three
  epochs are enough for a claim, a rival claim or a reclaim on top of it, and a late
  commit; one tick ends a lease; one crash falls at any of these points and between any
  two appends. The run is without signatures, which gives it far more merges to explore;
  with them and `IntactSpec` the same properties hold in 10,076 states. They also hold
  with gossip from both peers and two crashes (1.9 million states), and with both
  outcomes (295,000).
- `release`: the same two invariants of tokens and queues where `mesh` does not go: records
  with signatures, two tasks, a peer without a handler, `max_gossip_tasks` of 1, so that releases of an
  old snapshot meet newer claims. The third epoch is the claim on top of a release. The
  peer without a handler sends its releases and does not gossip within the run
  (`Gossiping = {1}`); with gossip from both peers (154,000 states) and with two workers
  (656,000 states) the same invariants hold, which takes longer than a run should.
- `live`: `TaskCompletes`, with signatures, in the behaviours of `IntactSpec`.
  `Accurate`, `Prompt` and `MaxCrashTime = 0` say: the detector tells the truth, handlers
  return within their lease, and a worker that crashes stays down. Without signatures
  (`Secure = FALSE`) the property holds in all behaviours. The epoch bound is not reached by these behaviours, so that
  no claim is disabled by it.
- `wal`: `DurableUnlessBuried` (no acknowledged update is lost and the log can be
  read, unless something was appended behind a torn frame) and `RecoverableGrows`
  (no step removes anything a replay would have yielded). Two crashes give a torn
  frame, a restart, and another torn write; three updates allow an append before,
  between and after them.
- `flow`: `Bounded`, `NothingLost`, and, for the reject policy, `NoLostWakeup`: with a
  `maxsize` of 1 and two coroutines on each side, every wake-up can be late.
  `NeverOverdrawn`, `NoSleeperWithCredits`: three callers, amounts 1 and 2, so that a
  caller with a small amount can pass one with a large amount.
- `detector`: `SuspicionIsStable`, `CrashIsNoticed`, `TrustReturns`. The constants keep
  the default threshold (z² = 31.5 for phi = 8) and the window is small; the
  bound on lost heartbeats (`MaxGap`) and on delay (`MaxDelay`) keep the intervals
  finite, and `MaxElapsed` is above what any window in the bounds can tolerate.
- `discovery`: `RememberedUnlessFull` (a copy of a beacon that was applied is refused
  for as long as its timestamp is accepted, unless the cache is full of entries that
  are no older), `DirectoryCatchesUp`, `DeadIsForgotten`. One sender that stops,
  restarts and moves, one of another cluster that fills the inbox and the replay
  cache, and two copies of each beacon. The cache has room for one nonce, so that
  every second beacon evicts one.
- `simnet`: `ImplementsNetwork`; `NoGhost` (no message reaches a later incarnation of
  its addressee); `DeliveredInOrder` (under one latency, in the order of the calls,
  however far an advance jumps); `NobodyOversleeps` (after an advance no deadline is
  behind the clock, and a coroutine is in the heap or about to run, not both);
  `SendReturns` (cancelled entries strand nobody). Two coroutines of one node and one
  of the other; latencies 0 and 2 against strides 1 and 2, so that a deadline is met
  exactly and jumped over; an inbox of one message; a second incarnation of a node.
- `tcp`: `ImplementsNetwork`; `LimitOvershoot` (the table exceeds the limit by at most
  one less than the calls that were connecting together); `IncomingLimit`;
  `CleanClose` (a `close()` that begins while no call is in progress does not raise
  and leaves nothing in the table); `ComesToRest` (every slot of a server is given back, and
  no call is left dialling, shaking hands or writing). Two callers of one node, two peers, a limit of one and two
  dials: two dials to one peer, two to different peers, a displaced connection, a full
  table, and a close in the middle of each.
- `status`: `QuantileError` (the exported quantile against the exact sample of that
  rank, within the bound the documentation of the histogram derives);
  `SummaryIsOrdered`; `AnsweredOnce`; `PageNeedsToken`; `RequestsEnd` (every handler gets
  to `writer.close()`). The values
  lie below, at and between the limits of buckets, in the last one and beyond; the
  head of a request has room for three lines; connections share nothing, so one client
  that connects twice is enough.

### What the violation shows

`stale_commit`: a comment in `_worker_loop` says that a result must not be committed
when the token was superseded. A higher token that arrives while the claim is being
broadcast is overwritten by RUNNING, and the check then finds only its own token.

### Conditions of the passing properties

The following were tried with TLC and make a property fail; they are conditions
of the result, not part of it.

| Property | Fails when | Because |
|---|---|---|
| `Convergence` | `Secure = TRUE` in MCReplicas.cfg | the winner of a merge gets the merged clock and keeps its signature, which no longer verifies; the next merge prefers any record that does (the docstring of `merge_records` says "Associative", consensus.py:339) |
| `TokenUnique` | `Secure = TRUE` and `SPECIFICATION Spec` in MCPeerNode.cfg (without `SignaturesHold`) | a delayed record replaces a merged one whose signature no longer verifies, and its token is issued again |
| `TokenUnique` | `SPECIFICATION Spec` in MCPeerNode.cfg (without `FreshSubmits`) | a second `submit_task` of an identifier replaces the record of the first, and its epochs start again |
| `TokenUnique` | `WalNodes = {}` in MCPeerNode.cfg | a peer that comes back without a log has forgotten its claims and issues their tokens again |
| `AnnouncedIsLogged` | `Secure = TRUE` and `SPECIFICATION Spec` in MCPeerNode.cfg (without `SignaturesHold`) | replaying merges by signature as well, so the log may give a smaller record than the one announced |
| `CausalBound` | with `OwnCounter(p)` alone as the bound | a crash between `append_task` and `append_clock` leaves a logged record whose event the recovered clock lacks |
| `PendingIsServed` | `QueueSize = 1` in MCRelease.cfg | `submit_task` stores the record before the queue refuses it, and gossip drops what the queue has no room for |
| `TaskCompletes` | `SPECIFICATION FairSpec` in MCLive.cfg (without `SignaturesHold`) | a result that is merged with a late rival claim keeps a signature that no longer verifies: other peers refuse it for ever, and its holder is alive, so that nobody reclaims the task (consensus.py:370, node.py:365) |
| `TaskCompletes` | `Prompt = FALSE`, `MaxTime = 2` in MCLive.cfg | a holder that overran its lease drops the result and, alive, is never suspected |
| `TaskCompletes` | `WalNodes = Restarting = {1, 2}`, `MaxTime = 2`, `MaxCrashTime = 1` in MCLive.cfg | a restarted holder neither queues nor audits its own claim |
| `TaskCompletes` | `Tasks = {1, 2}`, `MaxGossipTasks = 1`, `Submitters = {2}`, `Workers = {1}` in MCLive.cfg | gossip always sends the same first tasks |
| `DurableUnlessBuried` | without its proviso | `_open` appends behind a torn frame, and the next replay reads across it and may raise `WalCorruptError` (ADR 0005:11 says that a torn write must not prevent recovery) |
| `NoLostWakeup` | for the block policy as well | `notify(1)` on the shared condition may wake a waiter of the wrong side |
| `RememberedUnlessFull` | without "unless" | the full cache evicts a nonce whose window is open |
| `CrashIsNoticed` | without `Len(intervals) >= MinSamples` | in the cold start phi is 0 for good |
| `LimitOvershoot` | with `MaxConnections` alone on the right | two calls compare the table with the limit before either has entered its connection (transport.py:535) |
| `CleanClose` | without `~busy[n]` | a call in progress changes the table under the iteration of `close()`, or enters its connection after it was cleared (transport.py:565, 591) |
| `DeliveredInOrder` | when the latency changes between calls | a later message with a shorter latency overtakes |
| `AnsweredOnce` | with one answer at most | a drain that fails sends the handler to an except clause that answers again |
| `QuantileError` | for values far above the last bucket (the 100 of MCStatus) | they are all counted in it, although the bound is documented "for any recorded value x >= 2^B" (metrics.py:27) |

Other things the models show that no property forbids: an entry of the table whose
writer is closing counts towards the limit, so that with a full table its peer cannot
be dialled again; a call whose drain fails removes whichever connection its peer has
by then; the loser of two dials to one peer stays open outside the table; a client
whose write meets an idle server's timeout loses that message silently; `close()`
does not wake a coroutine blocked in `recv`. The properties of `mesh` also hold for
peers whose clocks have different origins (`Offset <- MCSkewed`, 96,828 states).

### Fairness

Safety runs assume none. `live`: weak fairness of the steps of worker, audit and
restart (asyncio resumes what is ready; loops have no exit while the node runs), of
time, and of the delivery of a record that a peer *keeps* holding (the gossip loop
picks a random partner for ever); nothing is assumed about a record that is
replaced before it is delivered, and none about submissions and crashes.
`detector`: weak fairness of the heartbeat loop, of time and of arrival; a message
may be lost only while the silence is shorter than `MaxGap`. `discovery`: weak
fairness of the listener, the TTL scan and time; strong fairness of `DeliverNew`
says that not *every* beacon of a sender that goes on sending is lost, and strong
fairness of `Announce` only makes up for the bound on nonces. `simnet`: the driver
keeps stepping the clock while there are sleepers, and the event loop resumes
coroutines whose future is done. `tcp`: weak fairness of callers and handlers at the
awaits that have a timeout. `wait_closed` has none, and with bytes left in its buffer it
returns only when the peer reads or the connection breaks: nothing is assumed of a
caller that is there, nor of `close()`, `recv` and breaks. `status`: weak fairness of
handlers, with the same exception. In `live` the fairness is that of all behaviours, and
the property is about those in which, moreover, no signature is ever voided.

## 4. The proofs

Every theorem holds for all values of the constants that satisfy the `ASSUME`s of
the modules and the hypotheses it states; the hypotheses are conditions without which
TLC refutes the property (table above), with one exception noted below.

### The merge (`RecordProofs`)

- `UnsignedReplicasConverge`: `ReplicasSpec => []Convergence`.
- `UnsignedMergeLosesNothing`: `ReplicasSpec => []UpperBound`.
- `ReplicasTypeCorrect`: `ReplicasSpec => []ReplicasTypeOK`, with and without signatures.

The first two assume that security is off and that no record is signed, which is what
`_seal_record` then produces; with signatures `Convergence` is false (see the table of
conditions). The inductive invariant `JoinInv` says that a replica holds the *join* of
what it has merged: its key is that of a merged record and no merged key is above it,
and each counter of its clock is the largest among theirs. `LexTotal`,
`LexTransitive` and `LexAntisymmetric` make the order of keys a total order,
`MergeJoins` shows that one merge takes the join of a set to the join with the new
record, and `JoinIsUnique` that a set has one join at most, because the key determines
every field but the clock (`KeyDetermines`). The order and number of deliveries
therefore cannot matter.

### The mesh (`RecordProofs`, `PeerNodeInvariants`, `PeerNodeProofs`)

For any sets of peers and tasks, roles, scores, clock offsets, lease durations and
bounds, with any crashes and any reports of the failure detectors:

| Theorem | Proves | Hypotheses | Inductive invariant |
|---|---|---|---|
| `TypeCorrect` | `TypeOK` | | `TypeOK` |
| `Causality` | `CausalBound` | | `MemoryInv /\ CausalInv` |
| `WriteAhead` | `AnnouncedIsLogged` | `[]SignaturesHold` | `AnnouncedInv == MemoryInv /\ LogKnows /\ LogInv` |
| `TokensNameClaims` | `TokenUnique` | `[]SignaturesHold`, `[][FreshSubmits]_vars`, `Restarting \subseteq WalNodes` | `ClaimInv == MemoryInv /\ LogKnows /\ TokenInv` |
| `PendingTasksAreServed` | `PendingIsServed` | `[][FreshSubmits]_vars`, `Cardinality(Tasks) <= QueueSize` | `MemoryInv /\ QueueInv` |

The hypotheses that are temporal formulas are about the behaviour: `WriteAhead` is
`Spec /\ []SignaturesHold => []AnnouncedIsLogged`, in secure mode as well as without.

`RecordProofs` says once what each action does to one entry of a store and of a log:
an action that writes a record is a `Writes(n, t, r)`, one that appends it an
`Appends(n, t, r)`. The invariants are then proved against these two shapes, and the
cases of `Next` only supply the record. A crash between two appends writes to the log a
record that was about to be stored (`Interrupted`) and forgets the rest (`Forgets`). `MemoryInv` adds to the types that worker and
audit hold on to tasks that their store has, and that nothing is known of a task that
was not submitted. `LogKnows` says that the store of a running peer and its log know
the same tasks: a replay, which stores no more than the limit, therefore drops nothing.

`CausalBound` is not inductive: while p runs its counter is in memory, and when it
crashes the bound is the counter in its log. `CausalInv` adds `DurableClock`: the
replayed clock of a running peer with a log is its clock in memory. Each action either
increments its own counter and logs the new clock, merges clocks that are all bounded,
or touches no clock. `WorkerRun` writes a record that is not logged, but with the clock
that was; `Crash` and `Restart` exchange memory for log. `CrashInAppend` logs a record
whose clock is one above that of the log; whoever then restarts counts from the log
again, so that a second crash of this kind reaches the same bound and not the next.

`AnnouncedIsLogged` speaks of messages only. `LogInv` adds the two places they come
from: what a peer stores and the claim its worker is busy with are below its log
(`BelowLog`), where RUNNING, which the code does not log, counts as the claim it
followed. As long as signatures hold, a log entry only grows in the lattice
(`AuthenticMerge`: the merge of authentic records is the join, so `Supersedes`), so that
what was below it stays so.

`TokenUnique` needs to know that a token about to be issued was never seen. `TokenInv`
says that every claim under way, in a store or in a log that names n as its issuer is
*covered* by whatever n may build its next token on: its store while it runs, its log,
the snapshot of its audit and the token of its worker each have an epoch as high, or,
store and log, a result. `next_for` goes one above what n has, so its token is new
(`Fresh`); a crash moves the cover from memory to the log, which is where the log of
whoever restarts is needed. A claim that was appended by a process that died is known to
its log alone, and covered there.

`PendingIsServed` rests on the set `_queued_task_ids`. `QueueInv` says that the tasks in a
queue are distinct and are exactly the marked ones, and that a running worker has
marked every PENDING record. Under `FreshSubmits` a task has one entry at most, because
what is marked is known (`MarkedAreKnown`), so the queue has room for all. Submitting a
task that the peer holds leaves two entries under one mark; the argument ends there,
although TLC found no counterexample with a longer queue. That is the exception.

What the proofs use of sequences and cardinalities is collected in `QueueFacts`
(putting inserts one entry, taking removes one, a one-to-one order of a finite set
enumerates it), a hypothesis of the lemmas of the first two modules. `PeerNodeProofs`
proves it as `QueuesBehave` from the library, and no theorem depends on it.

### The networks

For any nodes, coroutines, connections, latencies, strides and bounds:

- `SimNetworkImplementsNetwork` and `SimNetworkNoGhost` (`SimNetworkProofs`). The
  invariant `IInv` says that a message is in one place only (carried by one coroutine,
  or at one position of one inbox), that a coroutine remembers the incarnation its
  message was sent to, and that an inbox holds messages to its own node and incarnation.
- `SimNetworkTypeOK`, `SimNetworkInOrder` (`DeliveredInOrder`) and
  `SimNetworkNobodyOversleeps` (`NobodyOversleeps`), in the same module. Under one
  latency the order of the heap, by deadline and then by number, is the order of the
  calls (`Aligned`). `OrderInv` adds to `IInv` that whoever carries a message is in the
  heap or about to be resumed; that messages wait in the order in which they were sent,
  those to be resumed before those in the heap (`WaitInOrder`), so that nobody waits in
  two places; and that all of them were sent after everything delivered (`BoxInv`). An
  advance moves the boundary between loop and heap, a cancellation or a `close()` leaves
  the rest in order (`LeaveKeeps`).
- `TcpTransportImplementsNetwork` (`ServerProofs`). The invariant
  `IInv` has types, `Wiring` (which states of a call, of the two ends of a
  connection and of the table go together) and `OnePlace` (as above, with a pipe per
  connection). The steps of callers come first, then those of handlers, `recv` and
  `close()`, and the refinement: each step is a `Send`, a `Lose`,
  a `Receive` or a stutter of `Network`.
- `OutgoingLimitHolds`, `IncomingLimitHolds`, `CloseIsClean` (`LimitsProofs`), from an
  invariant that counts entries and connecting calls together and says that a node
  whose `close()` found it idle has no call that could still enter a connection.

### The log (`ComponentProofs`)

For any updates, payload sizes and numbers of crashes: `WalTypeCorrect`, `WalDurable`
(`DurableUnlessBuried`) and `WalRecoverableGrows` (`RecoverableGrows`). The lemmas are
about the replay of any file. `ReplayReads` unfolds it at an offset, `ReplayInduction`
carries a statement from the end of the file to its front. By them what is appended
behind a file takes nothing away from its replay (`ReplayGrows`), a file that reads
cleanly goes on with what is appended (`CleanGoesOn`), a torn frame at the end adds
nothing and does not fail (`TailReads`), and how pieces of frames are misread decides
only whether the replay fails, not what it yields before (`GarbageOnlyFails`). The
inductive invariant `WalInv` is then short: the memory of a running node has what its
log has (`MemHasLog`, which a checkpoint relies on), and until a frame is buried the log
reads without failing and has what was acknowledged (`LogHasAcked`).

### Discovery (`ComponentProofs`)

For any senders, addresses, nonces, windows and sizes: `DiscoveryTypeCorrect` and
`BeaconsAreRemembered` (`RememberedUnlessFull`). Entries of the replay cache are in
order of age, because it is filled at the back, and that is what makes popping
expired ones from the front sufficient (`UnexpiredKeeps`). `Guarded`, the core of
`DiscoveryInv`, says of each copy under way of a beacon that was applied and is still
fresh: the entry made for it is in the cache and at most as old as the beacon, or the
cache is full of entries at most as old. An entry is thus never the first of the
two to expire. TLC has checked this invariant also for a cache of two entries and three nonces
(9.5 million states).

### Flow control and status server (`LimitsProofs`, `ServerProofs`)

For any coroutines, sizes and amounts: `QueueIsBounded` (every operation leaves the
heap alone, pushes in the step that found room, or pops), `WakeupsAreNotLost` (under
the reject policy, while there is an item and anybody waits, a notification is deferred
or somebody is awake), `WindowIsNeverOverdrawn` and `SleepersLackCredits`.
`ItemsAreNotLost` needs to know that a heap that is not empty has a first item.
`LostInv` says so of every part of the heap, which a push and a pop preserve, together
with the numbers of the items in heap and hands being exactly those given out so far.

For any clients, requests and sizes: `StatusTypeCorrect`, `ClientsAreAnsweredOnce` and
`PagesNeedTheToken`. `StatusInv` holds for each handler on its own, because handlers
share only the listening socket; it says at which stages an answer may have been
written and may still be, and that a handler past a check has a request that passed it.

### Histogram and failure detector (`MonitoringProofs`)

For every `sub_bucket_bits`, every largest octave and any values: `MetricsTypeCorrect`,
`QuantilesAreClose` (`QuantileError`) and `SummariesAreOrdered` (`SummaryIsOrdered`). The
inductive invariant `MetricsInv` has the types, `Spans` (all samples lie between `low`
and `high`, which are values once there is a sample) and `Sorted` (up to each bucket there are as many
counts as samples with an index up to it). The index grows with the value
(`IndexGrows`), so the first bucket at which the counts reach a rank is the bucket of
the sample of that rank (`BucketIs`, `SampleIs`); the middle of a bucket is as close to
every value in it as the documentation says (`BucketError`); and clamping between
the extremes does not lead away from a value between them (`Clamping`).

For every window, threshold and variance floor: `DetectorTypeCorrect` and
`SuspicionStays` (`SuspicionIsStable`). Without a heartbeat the window does not change,
sums over it are numbers, and the left side of the comparison grows with the silence.

### Induction

The theorems of the library that induct over an operator are of no use to the provers
here. `LeastNumber` and `Induction` derive induction over a *set* of numbers from the
well-foundedness of `<`; the set is given by the statement to be proved. Recursive
functions are unfolded from their definition after `Recursion` (or `ReplayReads`,
`SumsExist`) has shown that such a function exists.

### Assumptions and what is only model-checked

The assumptions are the named `ASSUME`s of the modules: peers are positive numbers,
tasks are a finite set of numbers, workers and peers with a log are peers, scores and
offsets are numbers, outcomes are DONE and FAILED, sizes and limits are numbers (of
headers, payloads, windows and copies of a datagram positive ones), nodes, callers and
coroutines are finite sets where they are counted, and `_min` starts above every value.
TLC evaluates them in the runs.

Every safety property of the passing runs is a theorem. Only model-checked are:

- Every liveness property (TLAPS has no fairness or ENABLED here): `TaskCompletes`,
  `CrashIsNoticed`, `TrustReturns`, `DirectoryCatchesUp`, `DeadIsForgotten`,
  `SendReturns`, `ComesToRest`, `RequestsEnd`.
- `MCTypeOK` of `status` as such; its two halves are the theorems `StatusTypeCorrect`
  and `MetricsTypeCorrect`.

## 5. Not modelled

- `stop()` followed by `start()` on the same node object; a gossip message with
  several records is received record by record; submissions have priority 0.
- In `PeerNode`: an append that raises; checkpoint records in a replay, which no code of
  the node writes (`Wal` has them).
- Power failure and `fsync`, size limits of the log, a torn magic header.
- Cancellation of a waiter of the priority queue.
- In `SimNetwork`: a second transport that registers under an identifier while the first
  is open, and whose entry the first one's `close()` then removes (transport.py:250, 274,
  299). A new transport opens only after the old one has closed.
- In `PeerNode`: the freshness check and replay cache of messages, the key ring,
  and the credit message that follows a commit.
- In `Discovery`: beacons without security, wall clocks that differ, the field
  checks of a beacon (a malformed one changes nothing).
- The message codec and the signatures of messages; a frame that arrives in pieces.
- In `TcpTransport`: sockets that the garbage collector closes after a failed
  handshake; a `send` to an unknown address; a call refused because `close()` has
  begun, which changes nothing.
- In `StatusServer`: the contents of pages. In `Metrics`: rounding of floats in
  `q * count` and in the exported text, the sum and the mean.
- `RateLimiter` and the limits of `SecurityConfig`: they drop what the network may lose.
- Command line and package interface: input and output that no decision depends on.

## 6. Open ends

1. Messages with the replay cache in front of `Receive` in `PeerNode`; what a peer with
   a void signature can still rely on.
2. `FailureDetector` composed with the mesh, in place of `Suspicions`; the mesh on top
   of `Network` instead of its own set of messages.
3. An abstract task (submitted, held under a token, finished) that the mesh
   implements as far as it does; an abstract log that `Wal` implements.
4. Proofs: `PendingIsServed` when a peer submits a task again that it holds.
