------------------------------ MODULE SimClock ------------------------------
(***************************************************************************)
(* SimClock of peerq/clock.py, as it is used by coroutines that sleep and  *)
(* by a driver that advances virtual time, and the part of the event loop  *)
(* that resumes coroutines in the order in which their futures were set.   *)
(*                                                                         *)
(* advance_to only sets futures: a coroutine runs when the driver yields,  *)
(* perhaps after further advances, and then sees the time of that moment.  *)
(* The actions say nothing of the variables of other modules.              *)
(***************************************************************************)
EXTENDS Naturals, Sequences, FiniteSets, Functions

CONSTANTS
    Coroutines,   \* the coroutines that sleep
    Strides       \* arguments of advance()

ASSUME StridesAssumption == Strides \subseteq Nat

VARIABLES
    now,        \* _now
    counter,    \* _counter
    sleepers,   \* _sleepers: deadline, sequence number, coroutine; live is FALSE
                \* once the future is cancelled
    ready       \* the coroutines whose future is set, in the order of their callbacks

clockVars == <<now, counter, sleepers, ready>>

ClockInit ==
    /\ now = 0
    /\ counter = 0
    /\ sleepers = {}
    /\ ready = <<>>

(* Mutant: without the counter the later of two calls may come first *)
Earlier_LaterCallFirst(e, f) ==
    e.deadline < f.deadline \/ (e.deadline = f.deadline /\ e.seq > f.seq)

(* The order of the tuples in the heap *)
Earlier(e, f) == e.deadline < f.deadline \/ (e.deadline = f.deadline /\ e.seq < f.seq)

(* sleep() up to its await, for a positive delay.  A delay of 0 yields and   *)
(* leaves no trace in the clock.                                             *)
Sleep(c, delay) ==
    /\ sleepers' = sleepers \cup {[deadline |-> now + delay, seq |-> counter,
                                   co |-> c, live |-> TRUE]}
    /\ counter' = counter + 1
    /\ UNCHANGED <<now, ready>>

(* The task that sleeps is cancelled.  The entry stays in the heap until it  *)
(* is popped; a task whose future was set before raises when it is resumed.  *)
CancelSleep(c) ==
    /\ sleepers' = {[e EXCEPT !.live = (@ /\ e.co # c)] : e \in sleepers}
    /\ \/ \E i \in DOMAIN ready :
              /\ ready[i] = c
              /\ ready' = SubSeq(ready, 1, i - 1) \o SubSeq(ready, i + 1, Len(ready))
       \/ (\A i \in DOMAIN ready : ready[i] # c) /\ UNCHANGED ready
    /\ UNCHANGED <<now, counter>>

(* The order in which entries are popped *)
HeapOrder(S) ==
    CHOOSE s \in [1 .. Cardinality(S) -> S] : \A i, j \in DOMAIN s : i < j => Earlier(s[i], s[j])

(* The coroutines that advance_to(t) wakes *)
Due(t) ==
    LET due == HeapOrder({e \in sleepers : e.live /\ e.deadline <= t})
    IN  [i \in DOMAIN due |-> due[i].co]

(* Mutant: "break" at a deadline that equals the target *)
AdvanceTo_LeavesExact(t) ==
    /\ ready' = ready \o Due(t - 1)
    /\ sleepers' = {e \in sleepers : e.deadline >= t}
    /\ now' = t
    /\ UNCHANGED counter

AdvanceTo(t) ==
    /\ ready' = ready \o Due(t)
    /\ sleepers' = {e \in sleepers : e.deadline > t}
    /\ now' = t
    /\ UNCHANGED counter

Advance(d) == AdvanceTo(now + d)

(* The cancelled entries at the top, which step, next_deadline and           *)
(* has_pending_sleepers pop first                                            *)
TopCancelled ==
    {e \in sleepers : \A f \in sleepers : f.live => Earlier(e, f)}

(* Mutant: cancelled entries are not popped before the top is looked at *)
Step_StopsAtCancelled ==
    /\ TopCancelled = {}
    /\ LET first == CHOOSE e \in sleepers : \A f \in sleepers \ {e} : Earlier(e, f)
       IN  AdvanceTo(first.deadline)

(* step(): to the first deadline of an entry that is not cancelled.  Without *)
(* one it only tidies up.                                                    *)
Step ==
    LET live == {e \in sleepers : e.live}
        first == CHOOSE e \in live : \A f \in live \ {e} : Earlier(e, f)
    IN  IF live = {}
        THEN sleepers' = {} /\ UNCHANGED <<now, counter, ready>>
        ELSE AdvanceTo(first.deadline)

(* has_pending_sleepers() and next_deadline() tidy up and report. *)
Inspect ==
    /\ sleepers' = sleepers \ TopCancelled
    /\ UNCHANGED <<now, counter, ready>>

(* The event loop runs the next coroutine whose future is set. *)
Resume(c) ==
    /\ ready # <<>> /\ Head(ready) = c
    /\ ready' = Tail(ready)
    /\ UNCHANGED <<now, counter, sleepers>>

=============================================================================
