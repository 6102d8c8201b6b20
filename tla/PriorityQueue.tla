---------------------------- MODULE PriorityQueue ----------------------------
(***************************************************************************)
(* BackpressurePriorityQueue of peerq/queue.py: coroutines that put and    *)
(* get, and the asyncio.Condition they wait on.                            *)
(*                                                                         *)
(* The lock of the condition is never held across an await other than that *)
(* of wait(), which gives it up, so that every operation is one step from  *)
(* its call, or from its wake-up, to its return or to its wait().  notify  *)
(* wakes the first waiter that is not woken yet, whoever it is; the waiter *)
(* looks at the queue again when the event loop resumes it.                *)
(***************************************************************************)
EXTENDS Naturals, Sequences, FiniteSets

CONSTANTS
    Putters,       \* coroutines that put
    Getters,       \* coroutines that get
    Priorities,    \* priorities of items
    MaxSize,       \* maxsize, 0 for an unbounded queue
    MaxItems       \* bound: items that are put

ASSUME SizesAssumption == MaxSize \in Nat /\ MaxItems \in Nat /\ Priorities \subseteq Nat

VARIABLES
    policy,     \* the policy that the constructor was given
    heap,       \* _heap: a set of entries [pri, seq]
    seq,        \* _seq
    waiters,    \* the waiters of the condition that are not woken yet, in order
    woken,      \* the waiters that are woken and not resumed yet
    wants,      \* wants[p]: the priority that a waiting putter came with
    notifies,   \* tasks of _async_notify that have not run yet
    got         \* history: the entries that were taken

queueVars == <<policy, heap, seq, waiters, woken, wants, notifies, got>>

QueueInit ==
    /\ policy \in {"reject-on-full", "block-on-full"}
    /\ heap = {}
    /\ seq = 0
    /\ waiters = <<>>
    /\ woken = {}
    /\ wants = [p \in Putters |-> 0]
    /\ notifies = 0
    /\ got = {}

IsFull == MaxSize > 0 /\ Cardinality(heap) >= MaxSize

Waiting(c) == c \in woken \/ \E i \in DOMAIN waiters : waiters[i] = c

(* notify() on a list of waiters: the first one is woken. *)
Notify(list) ==
    IF list = <<>> THEN waiters' = list /\ woken' = woken
    ELSE waiters' = Tail(list) /\ woken' = woken \cup {Head(list)}

(* The same, by a coroutine c that may just have been woken itself *)
NotifyBy(c) ==
    IF waiters = <<>> THEN waiters' = waiters /\ woken' = woken \ {c}
    ELSE waiters' = Tail(waiters) /\ woken' = (woken \ {c}) \cup {Head(waiters)}

WaitBy(c) ==
    /\ waiters' = Append(waiters, c)
    /\ woken' = woken \ {c}

Push(pri) ==
    /\ heap' = heap \cup {[pri |-> pri, seq |-> seq]}
    /\ seq' = seq + 1

(* The heap order: higher priority first, then the lower sequence number *)
Before(x, y) == x.pri > y.pri \/ (x.pri = y.pri /\ x.seq < y.seq)

First == CHOOSE x \in heap : \A y \in heap \ {x} : Before(x, y)

(* Mutant: the first entry is read and stays *)
Pop_Peek ==
    /\ heap' = heap
    /\ got' = got \cup {First}

Pop ==
    /\ heap' = heap \ {First}
    /\ got' = got \cup {First}

-----------------------------------------------------------------------------
(* Mutant: nobody is told of the item *)
PutNowait_Silent(pri) ==
    /\ seq < MaxItems
    /\ ~ IsFull
    /\ Push(pri)
    /\ UNCHANGED <<waiters, woken, wants, notifies, got>>

(* put_nowait: the condition is never locked here, so that a task is made    *)
(* that will notify.                                                         *)
PutNowait(pri) ==
    /\ seq < MaxItems
    /\ ~ IsFull
    /\ Push(pri)
    /\ notifies' = notifies + 1
    /\ UNCHANGED <<waiters, woken, wants, got>>

AsyncNotify ==
    /\ notifies > 0
    /\ notifies' = notifies - 1
    /\ Notify(waiters)
    /\ UNCHANGED <<heap, seq, wants, got>>

(* put, from its call or from a wake-up of its wait(); a full queue rejects, *)
(* which changes nothing, or makes the caller wait.                          *)
PutStep(p, pri) ==
    IF IsFull
    THEN /\ policy = "block-on-full"
         /\ WaitBy(p)
         /\ wants' = [wants EXCEPT ![p] = pri]
         /\ UNCHANGED <<heap, seq, notifies, got>>
    ELSE /\ Push(pri)
         /\ NotifyBy(p)
         /\ UNCHANGED <<wants, notifies, got>>

Put(p, pri) == seq < MaxItems /\ ~ Waiting(p) /\ PutStep(p, pri)

(* Mutant: "if" in place of "while": the queue is not looked at again *)
ResumePut_NoRecheck(p) ==
    /\ seq < MaxItems
    /\ p \in woken
    /\ Push(wants[p])
    /\ NotifyBy(p)
    /\ UNCHANGED <<wants, notifies, got>>

ResumePut(p) == seq < MaxItems /\ p \in woken /\ PutStep(p, wants[p])

GetNowait ==
    /\ heap # {}
    /\ Pop
    /\ notifies' = notifies + 1
    /\ UNCHANGED <<seq, waiters, woken, wants>>

GetStep(g) ==
    /\ IF heap = {} THEN WaitBy(g) /\ UNCHANGED <<heap, got>> ELSE Pop /\ NotifyBy(g)
    /\ UNCHANGED <<seq, wants, notifies>>

Get(g) == ~ Waiting(g) /\ GetStep(g)

ResumeGet(g) == g \in woken /\ GetStep(g)

Operation ==
    \/ \E pri \in Priorities : PutNowait(pri)
    \/ AsyncNotify
    \/ \E p \in Putters, pri \in Priorities : Put(p, pri)
    \/ \E p \in Putters : ResumePut(p)
    \/ GetNowait
    \/ \E g \in Getters : Get(g)
    \/ \E g \in Getters : ResumeGet(g)

QueueNext == Operation /\ UNCHANGED policy

QueueSpec == QueueInit /\ [][QueueNext]_queueVars

-----------------------------------------------------------------------------
(* Types: the heap holds entries with the priorities of the callers, and a *)
(* coroutine that waits is a putter or a getter.                           *)
QueueTypeOK ==
    /\ policy \in {"reject-on-full", "block-on-full"}
    /\ heap \subseteq [pri : Priorities, seq : 0 .. MaxItems - 1]
    /\ seq \in 0 .. MaxItems
    /\ waiters \in Seq(Putters \cup Getters)
    /\ woken \subseteq Putters \cup Getters
    /\ notifies \in Nat
    /\ got \subseteq [pri : Priorities, seq : 0 .. MaxItems - 1]

(* The queue never holds more than maxsize items, whoever waited: a putter *)
(* that was woken finds the room taken when another put came first.        *)
Bounded == MaxSize > 0 => Cardinality(heap) <= MaxSize

(* Each item that was put is in the queue or was handed out, exactly once. *)
NothingLost ==
    /\ heap \cap got = {}
    /\ {x.seq : x \in heap \cup got} = 0 .. seq - 1
    /\ Cardinality(heap \cup got) = seq

(* No getter sleeps while the queue has an item and nobody is on the way   *)
(* to take it: put_nowait leaves its wake-up to a task of its own, put and *)
(* get wake one waiter each.  Under the blocking policy putters wait on    *)
(* the same condition and may get the wake-up that a getter needs.         *)
NoLostWakeup ==
    (/\ policy = "reject-on-full"
     /\ heap # {}
     /\ \E g \in Getters, i \in DOMAIN waiters : waiters[i] = g)
        => notifies > 0 \/ woken # {}

=============================================================================
