--------------------------- MODULE LimitsProofs ----------------------------
(***************************************************************************)
(* The bounded resources, for every value of the constants: the queue and  *)
(* the credits of the flow control, and the connections of TcpTransport,   *)
(* with what close() leaves of them.                                       *)
(***************************************************************************)
EXTENDS PriorityQueue, CreditFlow, TcpTransport, FiniteSetTheorems, TLAPS

-----------------------------------------------------------------------------
(* The queue.  The bound needs the heap to be finite, or else it has no    *)
(* size, and a waiting putter to have come with a priority.                *)
BoundedInv == IsFiniteSet(heap) /\ Bounded /\ wants \in [Putters -> Nat]

(* What an operation does to the items: nothing, a push when there is room,   *)
(* or a pop.                                                                 *)
HeapStep ==
    \/ UNCHANGED <<heap, seq, got>>
    \/ ~ IsFull /\ UNCHANGED got /\ \E pri \in Nat : Push(pri)
    \/ heap # {} /\ Pop /\ UNCHANGED seq

(* Every operation takes one of these steps: the room is checked in the step *)
(* that pushes, by a putter that was woken as well.                          *)
LEMMA OperationsOnHeap == [QueueNext]_queueVars /\ wants \in [Putters -> Nat] => HeapStep
<1>. SUFFICES ASSUME [QueueNext]_queueVars, wants \in [Putters -> Nat] PROVE HeapStep
  BY Zenon
<1>1. ASSUME NEW p \in Putters, NEW pri \in Nat, PutStep(p, pri) PROVE HeapStep
  BY <1>1, Zenon DEF PutStep, HeapStep
<1>2. ASSUME NEW g \in Getters, GetStep(g) PROVE HeapStep
  BY <1>2, Zenon DEF GetStep, HeapStep
<1>3. CASE \E pri \in Priorities : PutNowait(pri)
  BY <1>3, SizesAssumption, Zenon DEF PutNowait, HeapStep
<1>4. CASE AsyncNotify
  BY <1>4, Zenon DEF AsyncNotify, HeapStep
<1>5. CASE \E p \in Putters, pri \in Priorities : Put(p, pri)
  BY <1>1, <1>5, SizesAssumption, Zenon DEF Put
<1>6. CASE \E p \in Putters : ResumePut(p)
  <2>1. PICK p \in Putters : PutStep(p, wants[p])
    BY <1>6, Zenon DEF ResumePut
  <2>2. wants[p] \in Nat
    BY Zenon
  <2>. QED
    BY <1>1, <2>1, <2>2, Zenon
<1>7. CASE GetNowait
  BY <1>7, Zenon DEF GetNowait, HeapStep
<1>8. CASE \E g \in Getters : Get(g) \/ ResumeGet(g)
  BY <1>2, <1>8, Zenon DEF Get, ResumeGet
<1>9. CASE UNCHANGED queueVars
  BY <1>9, Zenon DEF queueVars, HeapStep
<1>. QED
  BY <1>3, <1>4, <1>5, <1>6, <1>7, <1>8, <1>9, Zenon DEF QueueNext, Operation

(* A waiting putter came with a priority. *)
LEMMA WantsType ==
    wants \in [Putters -> Nat] /\ [QueueNext]_queueVars => wants' \in [Putters -> Nat]
<1>. SUFFICES ASSUME wants \in [Putters -> Nat], [QueueNext]_queueVars
              PROVE  wants' \in [Putters -> Nat]
  BY Zenon
<1>1. ASSUME NEW p \in Putters, NEW pri \in Nat, PutStep(p, pri)
      PROVE  wants' \in [Putters -> Nat]
  BY <1>1, Zenon DEF PutStep
<1>2. CASE \E p \in Putters, pri \in Priorities : Put(p, pri)
  BY <1>1, <1>2, SizesAssumption, Zenon DEF Put
<1>3. CASE \E p \in Putters : ResumePut(p)
  BY <1>1, <1>3, Zenon DEF ResumePut
<1>4. CASE UNCHANGED wants
  BY <1>4, Zenon
<1>. QED
  BY <1>2, <1>3, <1>4, Zenon
  DEF QueueNext, Operation, PutNowait, AsyncNotify, GetNowait, Get, ResumeGet, GetStep, queueVars

(* The limit of the queue: no interleaving of puts, gets and wake-ups takes *)
(* it beyond maxsize (queue.py, put and put_nowait).                        *)
THEOREM QueueIsBounded == QueueSpec => []Bounded
<1>1. QueueInit => BoundedInv
  <2>. SUFFICES ASSUME QueueInit PROVE BoundedInv
    BY Zenon
  <2>1. heap = {} /\ wants \in [Putters -> Nat]
    BY Zenon DEF QueueInit
  <2>2. IsFiniteSet({}) /\ Cardinality({}) = 0
    BY FS_EmptySet, Zenon
  <2>. QED
    BY <2>1, <2>2, SizesAssumption DEF BoundedInv, Bounded
<1>2. BoundedInv /\ [QueueNext]_queueVars => BoundedInv'
  <2>. SUFFICES ASSUME BoundedInv, [QueueNext]_queueVars PROVE BoundedInv'
    BY Zenon
  <2>0. HeapStep /\ wants' \in [Putters -> Nat]
    BY OperationsOnHeap, WantsType, Zenon DEF BoundedInv
  <2>1. CASE UNCHANGED <<heap, seq, got>>
    BY <2>0, <2>1, Zenon DEF BoundedInv, Bounded
  <2>2. CASE ~ IsFull /\ UNCHANGED got /\ \E pri \in Nat : Push(pri)
    <3>1. PICK x : heap' = heap \cup {x}
      BY <2>2, Zenon DEF Push
    <3>2. /\ IsFiniteSet(heap') /\ Cardinality(heap) \in Nat
          /\ Cardinality(heap') = Cardinality(heap)
             \/ Cardinality(heap') = Cardinality(heap) + 1
      BY <3>1, FS_AddElement, FS_CardinalityType, Zenon DEF BoundedInv
    <3>. QED
      BY <2>0, <2>2, <3>2, SizesAssumption DEF BoundedInv, Bounded, IsFull
  <2>3. CASE heap # {} /\ Pop /\ UNCHANGED seq
    <3>1. /\ IsFiniteSet(heap') /\ Cardinality(heap) \in Nat /\ Cardinality(heap') \in Nat
          /\ Cardinality(heap') <= Cardinality(heap)
      BY <2>3, FS_Subset, FS_CardinalityType, Zenon DEF BoundedInv, Pop
    <3>. QED
      BY <2>0, <3>1, SizesAssumption DEF BoundedInv, Bounded
  <2>. QED
    BY <2>0, <2>1, <2>2, <2>3, Zenon DEF HeapStep
<1>3. BoundedInv => Bounded
  BY Zenon DEF BoundedInv
<1>. QED
  BY <1>1, <1>2, <1>3, PTL DEF QueueSpec

(* Nothing is lost.  A pop takes an item of the heap only if one of them     *)
(* comes before all others; that every set of items has such a first one is  *)
(* part of the invariant, for a pop leaves a smaller set and a push adds one *)
(* item to be compared with the first.  Sequence numbers tell items apart.   *)
HasFirst(S) == \E x \in S : \A y \in S \ {x} : Before(x, y)

Items == heap \cup got

LostInv ==
    /\ seq \in Nat /\ wants \in [Putters -> Nat]
    /\ Items \subseteq [pri : Nat, seq : Nat]
    /\ IsFiniteSet(Items) /\ Cardinality(Items) = seq
    /\ heap \cap got = {}
    /\ {x.seq : x \in Items} = 0 .. seq - 1
    /\ \A S \in SUBSET heap : S # {} => HasFirst(S)

(* Before orders items by priority and age. *)
LEMMA BeforeIsOrder ==
    ASSUME NEW x \in [pri : Nat, seq : Nat], NEW y \in [pri : Nat, seq : Nat],
           NEW z \in [pri : Nat, seq : Nat]
    PROVE  /\ Before(x, y) /\ Before(y, z) => Before(x, z)
           /\ x.seq # y.seq => Before(x, y) \/ Before(y, x)
BY DEF Before

(* A new item keeps first items: it is the first, or that of the others is. *)
LEMMA PushHasFirst ==
    ASSUME NEW H \in SUBSET [pri : Nat, seq : Nat], \A S \in SUBSET H : S # {} => HasFirst(S),
           NEW e \in [pri : Nat, seq : Nat], \A x \in H : x.seq # e.seq,
           NEW S \in SUBSET (H \cup {e}), S # {}
    PROVE  HasFirst(S)
<1>1. CASE e \notin S
  <2>1. S \in SUBSET H
    BY <1>1, Zenon
  <2>. QED
    BY <2>1, Zenon
<1>2. CASE S = {e}
  BY <1>2, Zenon DEF HasFirst
<1>3. CASE e \in S /\ S # {e}
  <2>1. S \ {e} \in SUBSET H /\ S \ {e} # {}
    BY <1>3, Zenon
  <2>2. PICK f \in S \ {e} : \A y \in (S \ {e}) \ {f} : Before(f, y)
    BY <2>1, Zenon DEF HasFirst
  <2>3. f \in [pri : Nat, seq : Nat] /\ f.seq # e.seq
    BY <2>1, <2>2, Zenon
  <2>4. CASE Before(f, e)
    <3>1. \A y \in S \ {f} : Before(f, y)
      BY <2>2, <2>4, Zenon
    <3>. QED
      BY <2>2, <3>1, Zenon DEF HasFirst
  <2>5. CASE Before(e, f)
    <3>1. ASSUME NEW y \in S \ {e} PROVE Before(e, y)
      <4>1. y \in [pri : Nat, seq : Nat] /\ (y = f \/ Before(f, y))
        BY <2>1, <2>2, Zenon
      <4>. QED
        BY <2>3, <2>5, <4>1, BeforeIsOrder, Zenon
    <3>. QED
      BY <1>3, <3>1, Zenon DEF HasFirst
  <2>. QED
    BY <2>3, <2>4, <2>5, BeforeIsOrder, Zenon
<1>. QED
  BY <1>1, <1>2, <1>3, Zenon

(* A push adds one item, with a sequence number of its own. *)
LEMMA PushKeepsItems ==
    ASSUME LostInv, NEW pri \in Nat, Push(pri), UNCHANGED got, wants' \in [Putters -> Nat]
    PROVE  LostInv'
<1>. DEFINE e == [pri |-> pri, seq |-> seq]
<1>1. /\ e \in [pri : Nat, seq : Nat] /\ e.seq = seq
      /\ seq \in Nat /\ seq' = seq + 1 /\ heap' = heap \cup {e} /\ Items' = Items \cup {e}
  BY Zenon DEF Push, LostInv, Items
<1>. HIDE DEF e
<1>2. \A x \in Items : x.seq \in 0 .. seq - 1
  BY Zenon DEF LostInv
<1>3. \A x \in Items : x.seq # e.seq
  BY <1>1, <1>2
<1>4. e \notin Items
  BY <1>3, Zenon
<1>5. IsFiniteSet(Items') /\ Cardinality(Items') = seq'
  BY <1>1, <1>4, FS_AddElement, Zenon DEF LostInv
<1>6. {x.seq : x \in Items'} = 0 .. seq' - 1
  <2>1. {x.seq : x \in Items'} = {x.seq : x \in Items} \cup {seq}
    BY <1>1, Zenon
  <2>2. {x.seq : x \in Items} = 0 .. seq - 1
    BY Zenon DEF LostInv
  <2>. QED
    BY <1>1, <2>1, <2>2
<1>7. heap' \cap got' = {}
  BY <1>1, <1>4, Zenon DEF LostInv, Items
<1>8. \A S \in SUBSET heap' : S # {} => HasFirst(S)
  <2>. SUFFICES ASSUME NEW S \in SUBSET heap', S # {} PROVE HasFirst(S)
    BY Zenon
  <2>1. heap \in SUBSET [pri : Nat, seq : Nat] /\ \A x \in heap : x.seq # e.seq
    BY <1>3, Zenon DEF LostInv, Items
  <2>2. \A T \in SUBSET heap : T # {} => HasFirst(T)
    BY Zenon DEF LostInv
  <2>3. S \in SUBSET (heap \cup {e})
    BY <1>1, Zenon
  <2>. QED
    BY <1>1, <2>1, <2>2, <2>3, PushHasFirst, Zenon
<1>9. Items' \subseteq [pri : Nat, seq : Nat] /\ seq' \in Nat
  BY <1>1 DEF LostInv
<1>. QED
  BY <1>5, <1>6, <1>7, <1>8, <1>9, Zenon DEF LostInv, HasFirst

(* A pop hands out the first item, and there is one. *)
LEMMA PopKeepsItems ==
    ASSUME LostInv, heap # {}, Pop, UNCHANGED seq, wants' \in [Putters -> Nat]
    PROVE  LostInv'
<1>1. HasFirst(heap)
  BY Zenon DEF LostInv
<1>2. First \in heap
  BY <1>1, Zenon DEF HasFirst, First
<1>3. Items' = Items /\ heap' = heap \ {First} /\ got' = got \cup {First} /\ seq' = seq
  BY <1>2, Zenon DEF Items, Pop
<1>4. heap' \cap got' = {} /\ SUBSET heap' \subseteq SUBSET heap
  BY <1>2, <1>3, Zenon DEF LostInv
<1>. QED
  BY <1>3, <1>4, Zenon DEF LostInv, HasFirst

(* Each item is in the queue or was handed out, exactly once, whoever put    *)
(* it and took it (queue.py, heappush and heappop).                          *)
THEOREM ItemsAreNotLost == QueueSpec => []NothingLost
<1>1. QueueInit => LostInv
  <2>. SUFFICES ASSUME QueueInit PROVE LostInv
    BY Zenon
  <2>1. heap = {} /\ got = {} /\ Items = {} /\ seq = 0 /\ wants \in [Putters -> Nat]
    BY Zenon DEF QueueInit, Items
  <2>2. IsFiniteSet({}) /\ Cardinality({}) = 0
    BY FS_EmptySet, Zenon
  <2>. QED
    BY <2>1, <2>2 DEF LostInv
<1>2. LostInv /\ [QueueNext]_queueVars => LostInv'
  <2>. SUFFICES ASSUME LostInv, [QueueNext]_queueVars PROVE LostInv'
    BY Zenon
  <2>1. HeapStep /\ wants' \in [Putters -> Nat]
    BY OperationsOnHeap, WantsType, Zenon DEF LostInv
  <2>2. CASE UNCHANGED <<heap, seq, got>>
    BY <2>1, <2>2, Zenon DEF LostInv, Items, HasFirst
  <2>. QED
    BY <2>1, <2>2, PushKeepsItems, PopKeepsItems, Zenon DEF HeapStep
<1>3. LostInv => NothingLost
  BY Zenon DEF LostInv, Items, NothingLost
<1>. QED
  BY <1>1, <1>2, <1>3, PTL DEF QueueSpec

(* The inductive form of NoLostWakeup: without blocking puts, whoever waits  *)
(* beside a queue that holds an item is about to be woken.                   *)
WakeupInv ==
    /\ notifies \in Nat
    /\ policy = "reject-on-full" /\ heap # {} /\ waiters # <<>> => notifies > 0 \/ woken # {}

(* No wake-up is lost: with the policy that rejects, a getter sleeps beside *)
(* an item only while somebody else is on the way to it (queue.py, the      *)
(* notify of put and get and the task that put_nowait and get_nowait leave  *)
(* it to).                                                                  *)
THEOREM WakeupsAreNotLost == QueueSpec => []NoLostWakeup
<1>1. QueueInit => WakeupInv
  BY DEF QueueInit, WakeupInv
<1>2. WakeupInv /\ [QueueNext]_queueVars => WakeupInv'
  <2>. SUFFICES ASSUME WakeupInv, [QueueNext]_queueVars PROVE WakeupInv'
    BY Zenon
  <2>1. ASSUME NEW c, NotifyBy(c), notifies' = notifies, policy' = policy PROVE WakeupInv'
    BY <2>1, Zenon DEF NotifyBy, WakeupInv
  <2>2. ASSUME notifies' = notifies + 1 PROVE WakeupInv'
    BY <2>2 DEF WakeupInv
  <2>3. ASSUME NEW p \in Putters, NEW pri, PutStep(p, pri), policy' = policy PROVE WakeupInv'
    BY <2>1, <2>3, Zenon DEF PutStep, WakeupInv
  <2>4. ASSUME NEW g \in Getters, GetStep(g), policy' = policy PROVE WakeupInv'
    BY <2>1, <2>4, Zenon DEF GetStep, WakeupInv
  <2>5. CASE \E pri \in Priorities : PutNowait(pri)
    BY <2>2, <2>5, Zenon DEF PutNowait
  <2>6. CASE AsyncNotify /\ policy' = policy
    <3>1. waiters' = <<>> \/ woken' # {}
      BY <2>6, Zenon DEF AsyncNotify, Notify
    <3>2. notifies' \in Nat
      BY <2>6 DEF AsyncNotify, WakeupInv
    <3>. QED
      BY <3>1, <3>2, Zenon DEF WakeupInv
  <2>7. CASE policy' = policy /\ \E p \in Putters, pri \in Priorities : Put(p, pri)
    BY <2>3, <2>7, Zenon DEF Put
  <2>8. CASE policy' = policy /\ \E p \in Putters : ResumePut(p)
    BY <2>3, <2>8, Zenon DEF ResumePut
  <2>9. CASE GetNowait
    BY <2>2, <2>9, Zenon DEF GetNowait
  <2>10. CASE policy' = policy /\ \E g \in Getters : Get(g) \/ ResumeGet(g)
    BY <2>4, <2>10, Zenon DEF Get, ResumeGet
  <2>11. CASE UNCHANGED queueVars
    BY <2>11, Zenon DEF queueVars, WakeupInv
  <2>. QED
    BY <2>5, <2>6, <2>7, <2>8, <2>9, <2>10, <2>11, Zenon DEF QueueNext, Operation
<1>3. WakeupInv => NoLostWakeup
  BY DEF WakeupInv, NoLostWakeup
<1>. QED
  BY <1>1, <1>2, <1>3, PTL DEF QueueSpec

-----------------------------------------------------------------------------
(* The credits.  A coroutine that sleeps has asked for an amount, as one     *)
(* that was woken has, and is not among those.                               *)
CreditInv ==
    /\ credits \in Nat /\ balance = credits
    /\ asks \in [Senders -> Nat]
    /\ sleepers \subseteq Senders /\ ready \subseteq Senders /\ sleepers \cap ready = {}
    /\ \A s \in sleepers \cup ready : asks[s] # 0
    /\ NoSleeperWithCredits

(* acquire, from a call or from a wake-up, by a coroutine that does not sleep *)
LEMMA AcquireKeepsBooks ==
    ASSUME CreditInv, NEW s \in Senders \ sleepers, NEW amount \in Nat \ {0},
           AcquireStep(s, amount), UNCHANGED missed
    PROVE  CreditInv'
<1>1. CASE credits < amount
  <2>1. /\ sleepers' = sleepers \cup {s} /\ ready' = ready \ {s}
        /\ asks' = [asks EXCEPT ![s] = amount]
        /\ credits' = credits /\ balance' = balance /\ missed' = missed
    BY <1>1, Zenon DEF AcquireStep
  <2>2. asks'[s] = amount /\ \A r \in sleepers \cup (ready \ {s}) : asks'[r] = asks[r]
    BY <2>1, Zenon DEF CreditInv
  <2>3. NoSleeperWithCredits'
    BY <1>1, <2>1, <2>2, Zenon DEF CreditInv, NoSleeperWithCredits
  <2>. QED
    BY <2>1, <2>2, <2>3, Zenon DEF CreditInv
<1>2. CASE ~ credits < amount
  <2>1. /\ sleepers' = sleepers /\ ready' = ready \ {s}
        /\ asks' = [asks EXCEPT ![s] = 0]
        /\ credits' = credits - amount /\ balance' = balance - amount /\ missed' = missed
    BY <1>2, Zenon DEF AcquireStep, Take
  <2>2. \A r \in sleepers \cup (ready \ {s}) : asks'[r] = asks[r] /\ asks[r] \in Nat
    BY <2>1, Zenon DEF CreditInv
  <2>3. credits' \in Nat /\ credits' <= credits /\ credits \in Nat
    BY <1>2, <2>1 DEF CreditInv
  <2>4. NoSleeperWithCredits'
    BY <2>1, <2>2, <2>3 DEF CreditInv, NoSleeperWithCredits
  <2>. QED
    BY <2>1, <2>2, <2>3, <2>4, Zenon DEF CreditInv
<1>. QED
  BY <1>1, <1>2, Zenon

(* The invariant of the window is inductive. *)
LEMMA CreditStep == CreditInv /\ [CreditNext]_creditVars => CreditInv'
<1>. SUFFICES ASSUME CreditInv, [CreditNext]_creditVars PROVE CreditInv'
  BY Zenon
<1>1. ASSUME NEW amount \in Amounts, InitPeer(amount) PROVE CreditInv'
  <2>1. amount \in Nat
    BY AmountsAssumption, Zenon
  <2>. QED
    BY <1>1, <2>1, Zenon DEF InitPeer, CreditInv, NoSleeperWithCredits
<1>2. ASSUME NEW s \in Senders, NEW amount \in Amounts, Acquire(s, amount) PROVE CreditInv'
  <2>1. amount \in Nat \ {0} /\ s \notin sleepers
    BY <1>2, AmountsAssumption, Zenon DEF Acquire, CreditInv
  <2>. QED
    BY <1>2, <2>1, AcquireKeepsBooks, Zenon DEF Acquire
<1>3. ASSUME NEW s \in Senders, Resume(s) PROVE CreditInv'
  <2>1. asks[s] \in Nat \ {0} /\ s \notin sleepers
    BY <1>3, Zenon DEF Resume, CreditInv
  <2>. QED
    BY <1>3, <2>1, AcquireKeepsBooks, Zenon DEF Resume
<1>4. ASSUME NEW amount \in Amounts, TryAcquire(amount) PROVE CreditInv'
  <2>1. /\ amount \in Nat /\ credits \in Nat /\ credits' = credits - amount
        /\ credits >= amount /\ balance' = balance - amount
        /\ UNCHANGED <<sleepers, ready, asks, missed>>
    BY <1>4, AmountsAssumption, Zenon DEF TryAcquire, CreditInv
  <2>2. NoSleeperWithCredits'
    BY <2>1 DEF CreditInv, NoSleeperWithCredits
  <2>. QED
    BY <2>1, <2>2 DEF CreditInv
<1>5. ASSUME NEW s \in Senders, CancelAcquire(s) PROVE CreditInv'
  <2>1. /\ sleepers' = sleepers \ {s} /\ ready' = ready \ {s} /\ missed' = missed \ {s}
        /\ asks' = [asks EXCEPT ![s] = 0] /\ UNCHANGED <<credits, balance>>
    BY <1>5, Zenon DEF CancelAcquire
  <2>2. \A r \in sleepers' \cup ready' : asks'[r] = asks[r]
    BY <2>1, Zenon DEF CreditInv
  <2>3. NoSleeperWithCredits'
    BY <2>1, <2>2, Zenon DEF CreditInv, NoSleeperWithCredits
  <2>. QED
    BY <2>1, <2>2, <2>3, Zenon DEF CreditInv
<1>6. ASSUME NEW amount \in Amounts, Replenish(amount) PROVE CreditInv'
  <2>1. credits' \in Nat /\ credits' > 0 /\ balance' = credits' /\ asks' = asks
    BY <1>6, AmountsAssumption DEF Replenish, CreditInv
  <2>2. sleepers' = {} /\ ready' = ready \cup sleepers
    BY <1>6, <2>1, Zenon DEF Replenish
  <2>. QED
    BY <2>1, <2>2, Zenon DEF CreditInv, NoSleeperWithCredits
<1>7. CASE UNCHANGED creditVars
  BY <1>7, Zenon DEF creditVars, CreditInv, NoSleeperWithCredits
<1>. QED
  BY <1>1, <1>2, <1>3, <1>4, <1>5, <1>6, <1>7, Zenon DEF CreditNext

(* A new window has its initial credits and nobody waits for them. *)
LEMMA CreditStart == CreditInit => CreditInv
  BY AmountsAssumption DEF CreditInit, CreditInv, NoSleeperWithCredits

(* The window is never overdrawn and no credit appears or disappears, however *)
(* calls, wake-ups, cancellations and replenishments follow each other        *)
(* (queue.py, acquire, try_acquire and replenish).                            *)
THEOREM WindowIsNeverOverdrawn == CreditSpec => []NeverOverdrawn
<1>1. CreditInv => NeverOverdrawn
  BY DEF CreditInv, NeverOverdrawn
<1>. QED
  BY <1>1, CreditStart, CreditStep, PTL DEF CreditSpec

(* Nobody sleeps beside the credits it asked for, except behind an init_peer  *)
(* (queue.py, replenish).                                                     *)
THEOREM SleepersLackCredits == CreditSpec => []NoSleeperWithCredits
<1>1. CreditInv => NoSleeperWithCredits
  BY Zenon DEF CreditInv
<1>. QED
  BY <1>1, CreditStart, CreditStep, PTL DEF CreditSpec

-----------------------------------------------------------------------------
(* The connections *)

(* The part of the type invariant that the argument needs *)
Shapes ==
    /\ pc \in [Callers -> {"idle", "dial", "hello", "drain", "shut"}]
    /\ peer \in [Callers -> Nodes]
    /\ link \in [Callers -> Nat]
    /\ table \in [Nodes -> [Nodes -> Nat]]
    /\ dials \in Nat
    /\ incoming \in [Nodes -> SUBSET Conns]
    /\ closing \in [Nodes -> {"no", "peers", "failed", "incoming", "done"}]
    /\ size \in [Nodes -> Nat]
    /\ busy \in [Nodes -> BOOLEAN]
    /\ crowd \in [Nodes -> Nat]

(* The history variable counts at least the callers that connect now. *)
CrowdCounted == \A n \in Nodes : Cardinality(Connecting(n)) <= crowd[n]

(* Once close() has begun with no call in progress, none is begun, and the   *)
(* table of the node is left to close().                                     *)
Undisturbed(n) ==
    /\ \A c \in Callers : Owner[c] = n => pc[c] = "idle"
    /\ closing[n] # "failed"
    /\ closing[n] = "peers" => size[n] = Cardinality(Entries(n))
    /\ closing[n] \in {"incoming", "done"} => Entries(n) = {}

QuietClose == \A n \in Nodes : closing[n] # "no" /\ ~busy[n] => Undisturbed(n)

LimitsInv == Shapes /\ CrowdCounted /\ LimitOvershoot /\ IncomingLimit /\ QuietClose

-----------------------------------------------------------------------------

(* The sets that are counted are finite. *)
LEMMA Finite ==
    /\ \A n : IsFiniteSet(Entries(n)) /\ Cardinality(Entries(n)) \in Nat
    /\ \A n : IsFiniteSet(Connecting(n)) /\ Cardinality(Connecting(n)) \in Nat
    /\ \A S \in SUBSET Conns : IsFiniteSet(S) /\ Cardinality(S) \in Nat
<1>1. \A n : Entries(n) \in SUBSET Nodes /\ Connecting(n) \in SUBSET Callers
  BY Zenon DEF Entries, Connecting
<1>2. IsFiniteSet(Conns)
  BY FS_Interval, TcpAssumption DEF Conns
<1>3. ASSUME NEW S, IsFiniteSet(S), NEW T \in SUBSET S
      PROVE  IsFiniteSet(T) /\ Cardinality(T) \in Nat
  BY <1>3, FS_Subset, FS_CardinalityType, Zenon
<1>4. \A n : IsFiniteSet(Entries(n)) /\ Cardinality(Entries(n)) \in Nat
  BY <1>1, <1>3, TcpAssumption, Zenon
<1>5. \A n : IsFiniteSet(Connecting(n)) /\ Cardinality(Connecting(n)) \in Nat
  BY <1>1, <1>3, TcpAssumption, Zenon
<1>6. \A S \in SUBSET Conns : IsFiniteSet(S) /\ Cardinality(S) \in Nat
  BY <1>2, <1>3, Zenon
<1>. QED
  BY <1>4, <1>5, <1>6, Zenon

(* The same in the next state *)
LEMMA FiniteNext ==
    /\ \A n : IsFiniteSet(Entries(n)') /\ Cardinality(Entries(n)') \in Nat
    /\ \A n : IsFiniteSet(Connecting(n)') /\ Cardinality(Connecting(n)') \in Nat
<1>1. \A n : Entries(n)' \in SUBSET Nodes /\ Connecting(n)' \in SUBSET Callers
  BY Zenon DEF Entries, Connecting
<1>2. ASSUME NEW S, IsFiniteSet(S), NEW T \in SUBSET S
      PROVE  IsFiniteSet(T) /\ Cardinality(T) \in Nat
  BY <1>2, FS_Subset, FS_CardinalityType, Zenon
<1>3. \A n : IsFiniteSet(Entries(n)') /\ Cardinality(Entries(n)') \in Nat
  BY <1>1, <1>2, TcpAssumption, Zenon
<1>4. \A n : IsFiniteSet(Connecting(n)') /\ Cardinality(Connecting(n)') \in Nat
  BY <1>1, <1>2, TcpAssumption, Zenon
<1>. QED
  BY <1>3, <1>4, Zenon

(* Steps that add neither an entry nor a caller that connects *)
LEMMA CountsShrink ==
    ASSUME CrowdCounted, LimitOvershoot, crowd \in [Nodes -> Nat], crowd' = crowd,
           \A n \in Nodes : /\ Entries(n)' \subseteq Entries(n)
                            /\ Connecting(n)' \subseteq Connecting(n)
    PROVE  CrowdCounted' /\ LimitOvershoot'
<1>1. \A n \in Nodes : /\ Cardinality(Entries(n)') <= Cardinality(Entries(n))
                       /\ Cardinality(Connecting(n)') <= Cardinality(Connecting(n))
  BY Finite, FS_Subset, Zenon
<1>2. CrowdCounted'
  BY <1>1, Finite, FiniteNext DEF CrowdCounted
<1>3. LimitOvershoot'
  BY <1>1, Finite, FiniteNext, TcpAssumption DEF LimitOvershoot
<1>. QED
  BY <1>2, <1>3, Zenon

(* A call that begins to dial found room in the table. *)
LEMMA CountsDial ==
    ASSUME CrowdCounted, LimitOvershoot, crowd \in [Nodes -> Nat],
           NEW c \in Callers, NEW n \in Nodes, ~AtLimit(n), c \notin Connecting(n),
           crowd' = [crowd EXCEPT ![n] =
                         IF @ > Cardinality(Connecting(n)) THEN @ ELSE @ + 1],
           Connecting(n)' = Connecting(n) \cup {c},
           \A b \in Nodes \ {n} : Connecting(b)' = Connecting(b),
           \A b \in Nodes : Entries(b)' = Entries(b)
    PROVE  CrowdCounted' /\ LimitOvershoot'
<1>0. Cardinality(Connecting(n)') = Cardinality(Connecting(n)) + 1
  BY Finite, FS_AddElement
<1>1. /\ Cardinality(Connecting(n)') = Cardinality(Connecting(n)) + 1
      /\ Cardinality(Connecting(n)) \in Nat /\ Cardinality(Entries(n)) \in Nat
      /\ Cardinality(Connecting(n)) <= crowd[n] /\ crowd[n] \in Nat
      /\ Cardinality(Entries(n)) < MaxConnections /\ MaxConnections \in Nat
  BY <1>0, Finite, TcpAssumption DEF AtLimit, CrowdCounted
<1>2. /\ crowd'[n] = IF crowd[n] > Cardinality(Connecting(n)) THEN crowd[n] ELSE crowd[n] + 1
      /\ \A b \in Nodes \ {n} : crowd'[b] = crowd[b]
  BY Zenon
<1>3. crowd'[n] >= Cardinality(Connecting(n)) + 1 /\ crowd'[n] \in Nat
  BY <1>1, <1>2
<1>4. Cardinality(Connecting(n)') <= crowd'[n]
  BY <1>1, <1>3, Zenon
<1>5. Cardinality(Entries(n)') + Cardinality(Connecting(n)') <=
          IF crowd'[n] = 0 THEN 0 ELSE MaxConnections + crowd'[n] - 1
  <2>1. Cardinality(Entries(n)') = Cardinality(Entries(n))
    BY Zenon
  <2>. QED
    BY <1>1, <1>3, <2>1
<1>6. CrowdCounted'
  BY <1>2, <1>4, Zenon DEF CrowdCounted
<1>7. LimitOvershoot'
  BY <1>2, <1>5, Zenon DEF LimitOvershoot
<1>. QED
  BY <1>6, <1>7, Zenon

(* A handshake that succeeds trades a caller that connects for an entry. *)
LEMMA CountsHandshake ==
    ASSUME CrowdCounted, LimitOvershoot, crowd \in [Nodes -> Nat], crowd' = crowd,
           NEW c \in Callers, NEW n \in Nodes, c \in Connecting(n), NEW p \in Nodes,
           Connecting(n)' = Connecting(n) \ {c},
           Entries(n)' \in SUBSET (Entries(n) \cup {p}),
           \A b \in Nodes \ {n} : Connecting(b)' = Connecting(b) /\ Entries(b)' = Entries(b)
    PROVE  CrowdCounted' /\ LimitOvershoot'
<1>1. /\ Cardinality(Connecting(n)') = Cardinality(Connecting(n)) - 1
      /\ Cardinality(Connecting(n)) \in Nat /\ Cardinality(Entries(n)) \in Nat
  BY Finite, FS_RemoveElement
<1>2. Cardinality(Entries(n)') <= Cardinality(Entries(n)) + 1
  <2>0. /\ IsFiniteSet(Entries(n) \cup {p})
        /\ Cardinality(Entries(n) \cup {p}) =
               IF p \in Entries(n) THEN Cardinality(Entries(n))
                                   ELSE Cardinality(Entries(n)) + 1
    BY Finite, FS_AddElement, Zenon
  <2>1. /\ IsFiniteSet(Entries(n) \cup {p})
        /\ Cardinality(Entries(n) \cup {p}) \in Nat
        /\ Cardinality(Entries(n) \cup {p}) <= Cardinality(Entries(n)) + 1
    BY <1>1, <2>0
  <2>2. Cardinality(Entries(n)') <= Cardinality(Entries(n) \cup {p})
    BY <2>1, FS_Subset, Zenon
  <2>. QED
    BY <1>1, <2>1, <2>2, FiniteNext
<1>3. Cardinality(Entries(n)') \in Nat /\ Cardinality(Connecting(n)') \in Nat
  BY FiniteNext, Zenon
<1>4. Cardinality(Connecting(n)') <= crowd[n]
  BY <1>1, <1>3 DEF CrowdCounted
<1>5. Cardinality(Entries(n)') + Cardinality(Connecting(n)') <=
          IF crowd[n] = 0 THEN 0 ELSE MaxConnections + crowd[n] - 1
  <2>1. Cardinality(Entries(n)) + Cardinality(Connecting(n)) <=
            IF crowd[n] = 0 THEN 0 ELSE MaxConnections + crowd[n] - 1
    BY Zenon DEF LimitOvershoot
  <2>. QED
    BY <1>1, <1>2, <1>3, <2>1, TcpAssumption
<1>6. CrowdCounted'
  BY <1>4, Zenon DEF CrowdCounted
<1>7. LimitOvershoot'
  BY <1>5 DEF LimitOvershoot
<1>. QED
  BY <1>6, <1>7, Zenon

-----------------------------------------------------------------------------

(* What a step of a caller may do to the variables of this module *)
CallerEffect(c) ==
    /\ pc[c] # "idle" \/ closing[Owner[c]] = "no"
    /\ \E x \in {"idle", "dial", "hello", "drain", "shut"} : pc' = [pc EXCEPT ![c] = x]
    /\ \A b \in Nodes : b # Owner[c] => table'[b] = table[b]
    /\ UNCHANGED <<incoming, closing, size, busy>>

(* A step of a caller keeps the types and stays within its node. *)
LEMMA CallerEffects ==
    ASSUME Shapes, NEW c \in Callers,
           (\E p \in Nodes : Call(c, p)) \/ CallerStep(c) \/ Cancel(c)
    PROVE  Shapes' /\ CallerEffect(c)
<1>1. /\ pc[c] \in {"idle", "dial", "hello", "drain", "shut"} /\ pc = [pc EXCEPT ![c] = pc[c]]
      /\ Owner[c] \in Nodes /\ peer[c] \in Nodes /\ link[c] \in Nat
  BY TcpAssumption, Zenon DEF Shapes
<1>2. ASSUME pc[c] # "idle", NEW place \in {"idle", "shut"}, Leave(c, place),
             table' = table \/ table' = [table EXCEPT ![Owner[c]][peer[c]] = 0],
             UNCHANGED <<dials, incoming, closeVars, crowd>>
      PROVE  Shapes' /\ CallerEffect(c)
  <2>1. table' \in [Nodes -> [Nodes -> Nat]]
    <3>1. [table EXCEPT ![Owner[c]][peer[c]] = 0] \in [Nodes -> [Nodes -> Nat]]
      BY <1>1, Zenon DEF Shapes
    <3>. QED
      BY <1>2, <3>1, Zenon DEF Shapes
  <2>2. Shapes'
    BY <1>1, <1>2, <2>1, Zenon DEF Shapes, Leave, closeVars
  <2>3. \A b \in Nodes : b # Owner[c] => table'[b] = table[b]
    BY <1>1, <1>2, Zenon DEF Shapes
  <2>4. CallerEffect(c)
    BY <1>2, <2>3, Zenon DEF CallerEffect, Leave, closeVars
  <2>. QED
    BY <2>2, <2>4, Zenon
<1>3. CASE DialFails(c) \/ HandshakeFails(c) \/ DrainSucceeds(c) \/ ShutReturns(c) \/ Cancel(c)
  <2>1. /\ pc[c] # "idle" /\ Leave(c, "idle") /\ table' = table
        /\ UNCHANGED <<dials, incoming, closeVars, crowd>>
    BY <1>3, Zenon DEF DialFails, HandshakeFails, DrainSucceeds, ShutReturns, Cancel, Return,
                connVars, histVars
  <2>. QED
    BY <1>2, <2>1, Zenon
<1>4. CASE HandshakeRefused(c)
  <2>1. /\ pc[c] # "idle" /\ Leave(c, "shut") /\ table' = table
        /\ UNCHANGED <<dials, incoming, closeVars, crowd>>
    BY <1>4, Zenon DEF HandshakeRefused, histVars
  <2>. QED
    BY <1>2, <2>1, Zenon
<1>5. CASE DrainFails(c)
  <2>1. /\ pc[c] # "idle" /\ Leave(c, "shut")
        /\ table' = [table EXCEPT ![Owner[c]][peer[c]] = 0]
        /\ UNCHANGED <<dials, incoming, closeVars, crowd>>
    BY <1>5, Zenon DEF DrainFails, histVars
  <2>. QED
    BY <1>2, <2>1, Zenon
<1>6. CASE DialSucceeds(c)
  <2>1. /\ pc[c] # "idle"
        /\ pc' = [pc EXCEPT ![c] = "hello"] /\ link' = [link EXCEPT ![c] = dials + 1]
        /\ dials' = dials + 1
        /\ UNCHANGED <<peer, table, incoming, closing, size, busy, crowd>>
    BY <1>6, Zenon DEF DialSucceeds, closeVars, histVars
  <2>2. Shapes'
    BY <2>1 DEF Shapes
  <2>3. CallerEffect(c)
    BY <2>1, Zenon DEF CallerEffect
  <2>. QED
    BY <2>2, <2>3, Zenon
<1>7. CASE Handshake(c)
  <2>1. /\ pc[c] # "idle"
        /\ pc' = [pc EXCEPT ![c] = "drain"] /\ link' = [link EXCEPT ![c] = link[c]]
        /\ table' = [table EXCEPT ![Owner[c]][peer[c]] = link[c]]
        /\ UNCHANGED <<peer, dials, incoming, closing, size, busy, crowd>>
    BY <1>7, Zenon DEF Handshake, WriteFrame, closeVars, histVars
  <2>2. table' \in [Nodes -> [Nodes -> Nat]]
    BY <1>1, <2>1, Zenon DEF Shapes
  <2>3. \A b \in Nodes : b # Owner[c] => table'[b] = table[b]
    BY <1>1, <2>1, Zenon DEF Shapes
  <2>4. Shapes'
    BY <1>1, <2>1, <2>2, Zenon DEF Shapes
  <2>5. CallerEffect(c)
    BY <2>1, <2>3, Zenon DEF CallerEffect
  <2>. QED
    BY <2>4, <2>5, Zenon
<1>8. ASSUME NEW p \in Nodes, Call(c, p) PROVE Shapes' /\ CallerEffect(c)
  <2>. DEFINE n == Owner[c]
  <2>1. /\ closing[n] = "no" /\ pc[c] = "idle"
        /\ UNCHANGED <<table, dials, incoming, closing, size, busy>>
        /\ \/ /\ pc' = [pc EXCEPT ![c] = "drain"]
              /\ link' = [link EXCEPT ![c] = table[n][p]]
              /\ peer' = [peer EXCEPT ![c] = p] /\ crowd' = crowd
           \/ /\ pc' = [pc EXCEPT ![c] = "dial"]
              /\ peer' = [peer EXCEPT ![c] = p] /\ link' = link
              /\ crowd' = [crowd EXCEPT ![n] =
                               IF @ > Cardinality(Connecting(n)) THEN @ ELSE @ + 1]
           \/ UNCHANGED <<pc, peer, link, crowd>>
    BY <1>8, Zenon DEF Call, Closed, WriteFrame, callVars, closeVars
  <2>2. table[n][p] \in Nat
    BY <1>1 DEF Shapes
  <2>3. crowd' \in [Nodes -> Nat]
    <3>1. crowd[n] \in Nat /\ crowd[n] + 1 \in Nat /\ crowd \in [Nodes -> Nat]
      BY <1>1 DEF Shapes
    <3>. QED
      BY <2>1, <3>1, Zenon
  <2>4. link' \in [Callers -> Nat] /\ peer' \in [Callers -> Nodes]
    BY <2>1, <2>2 DEF Shapes
  <2>5. Shapes'
    BY <2>1, <2>3, <2>4, Zenon DEF Shapes
  <2>6. \E x \in {"idle", "dial", "hello", "drain", "shut"} : pc' = [pc EXCEPT ![c] = x]
    BY <1>1, <2>1, Zenon
  <2>7. CallerEffect(c)
    BY <2>1, <2>6, Zenon DEF CallerEffect
  <2>. QED
    BY <2>5, <2>7, Zenon
<1>. QED
  BY <1>3, <1>4, <1>5, <1>6, <1>7, <1>8, Zenon DEF CallerStep

(* A caller disturbs no node that is closing undisturbed. *)
LEMMA CallerElsewhere ==
    ASSUME Shapes, QuietClose, NEW c \in Callers, CallerEffect(c)
    PROVE  QuietClose'
<1>. SUFFICES ASSUME NEW n \in Nodes, closing'[n] # "no", ~busy'[n]
              PROVE  Undisturbed(n)'
  BY Zenon DEF QuietClose
<1>1. closing[n] # "no" /\ Undisturbed(n) /\ size'[n] = size[n] /\ closing'[n] = closing[n]
  BY Zenon DEF QuietClose, CallerEffect
<1>2. Owner[c] # n
  BY <1>1, Zenon DEF CallerEffect, Undisturbed
<1>3. table'[n] = table[n] /\ \A d \in Callers \ {c} : pc'[d] = pc[d]
  BY <1>2, Zenon DEF CallerEffect, Shapes
<1>4. Entries(n)' = Entries(n)
  BY <1>3, Zenon DEF Entries
<1>5. \A d \in Callers : Owner[d] = n => pc'[d] = "idle"
  BY <1>1, <1>2, <1>3, Zenon DEF Undisturbed
<1>. QED
  BY <1>1, <1>4, <1>5, Zenon DEF Undisturbed

(* What a caller's move does to the set of those that connect *)
LEMMA ConnectingMoves ==
    ASSUME Shapes, NEW c \in Callers, NEW x, pc' = [pc EXCEPT ![c] = x]
    PROVE  /\ \A b \in Nodes \ {Owner[c]} : Connecting(b)' = Connecting(b)
           /\ x \in {"dial", "hello"} =>
                  Connecting(Owner[c])' = Connecting(Owner[c]) \cup {c}
           /\ x \notin {"dial", "hello"} =>
                  Connecting(Owner[c])' = Connecting(Owner[c]) \ {c}
<1>1. pc'[c] = x /\ \A d \in Callers \ {c} : pc'[d] = pc[d]
  BY Zenon DEF Shapes
<1>. QED
  BY <1>1, Zenon DEF Connecting

(* The counts after a step of a caller *)
LEMMA CallerCounts ==
    ASSUME LimitsInv, NEW c \in Callers,
           (\E p \in Nodes : Call(c, p)) \/ CallerStep(c) \/ Cancel(c)
    PROVE  CrowdCounted' /\ LimitOvershoot'
<1>. DEFINE n == Owner[c]
<1>1. /\ Shapes /\ CrowdCounted /\ LimitOvershoot /\ crowd \in [Nodes -> Nat]
      /\ n \in Nodes /\ peer[c] \in Nodes
  BY TcpAssumption, Zenon DEF LimitsInv, Shapes
<1>2. ASSUME NEW x \in {"idle", "drain", "shut"}, pc' = [pc EXCEPT ![c] = x],
             table' = table \/ table' = [table EXCEPT ![n][peer[c]] = 0],
             crowd' = crowd
      PROVE  CrowdCounted' /\ LimitOvershoot'
  <2>1. \A b \in Nodes : Connecting(b)' \subseteq Connecting(b)
    BY <1>1, <1>2, ConnectingMoves, Zenon
  <2>2. \A a, b \in Nodes : table'[a][b] = table[a][b] \/ table'[a][b] = 0
    <3>1. CASE table' = table
      BY <3>1, Zenon
    <3>2. CASE table' = [table EXCEPT ![n][peer[c]] = 0]
      BY <1>1, <3>2, Zenon DEF Shapes
    <3>. QED
      BY <1>2, <3>1, <3>2, Zenon
  <2>3. \A b \in Nodes : Entries(b)' \subseteq Entries(b)
    BY <2>2, Zenon DEF Entries
  <2>. QED
    BY <1>1, <1>2, <2>1, <2>3, CountsShrink, Zenon
<1>3. CASE DialFails(c) \/ HandshakeFails(c) \/ DrainSucceeds(c) \/ ShutReturns(c) \/ Cancel(c)
  <2>1. pc' = [pc EXCEPT ![c] = "idle"] /\ table' = table /\ crowd' = crowd
    BY <1>3, Zenon DEF DialFails, HandshakeFails, DrainSucceeds, ShutReturns, Cancel, Return, Leave,
                histVars
  <2>. QED
    BY <1>2, <2>1, Zenon
<1>4. CASE HandshakeRefused(c) \/ DrainFails(c)
  <2>1. /\ pc' = [pc EXCEPT ![c] = "shut"] /\ crowd' = crowd
        /\ table' = table \/ table' = [table EXCEPT ![n][peer[c]] = 0]
    BY <1>4, Zenon DEF HandshakeRefused, DrainFails, Leave, histVars
  <2>. QED
    BY <1>2, <2>1, Zenon
<1>5. CASE DialSucceeds(c)
  <2>1. /\ pc[c] = "dial" /\ pc' = [pc EXCEPT ![c] = "hello"]
        /\ table' = table /\ crowd' = crowd
    BY <1>5, Zenon DEF DialSucceeds, histVars
  <2>2. \A b \in Nodes : Connecting(b)' \subseteq Connecting(b)
    <3>1. c \in Connecting(n)
      BY <2>1, Zenon DEF Connecting
    <3>2. /\ Connecting(n)' = Connecting(n) \cup {c}
          /\ \A b \in Nodes \ {n} : Connecting(b)' = Connecting(b)
      BY <1>1, <2>1, ConnectingMoves, Zenon
    <3>. QED
      BY <3>1, <3>2, Zenon
  <2>3. \A b \in Nodes : Entries(b)' \subseteq Entries(b)
    BY <2>1, Zenon DEF Entries
  <2>. QED
    BY <1>1, <2>1, <2>2, <2>3, CountsShrink, Zenon
<1>6. CASE Handshake(c)
  <2>1. /\ pc[c] = "hello" /\ pc' = [pc EXCEPT ![c] = "drain"]
        /\ table' = [table EXCEPT ![n][peer[c]] = link[c]]
        /\ crowd' = crowd
    BY <1>6, Zenon DEF Handshake, WriteFrame, histVars
  <2>2. /\ c \in Connecting(n) /\ Connecting(n)' = Connecting(n) \ {c}
        /\ \A b \in Nodes \ {n} : Connecting(b)' = Connecting(b)
    <3>1. c \in Connecting(n)
      BY <2>1, Zenon DEF Connecting
    <3>2. "drain" \notin {"dial", "hello"}
      BY Zenon
    <3>3. /\ Connecting(n)' = Connecting(n) \ {c}
          /\ \A b \in Nodes \ {n} : Connecting(b)' = Connecting(b)
      BY <1>1, <2>1, <3>2, ConnectingMoves, Zenon
    <3>. QED
      BY <3>1, <3>3, Zenon
  <2>3. \A a, b \in Nodes : (a # n \/ b # peer[c]) => table'[a][b] = table[a][b]
    BY <1>1, <2>1, Zenon DEF Shapes
  <2>4. /\ Entries(n)' \in SUBSET (Entries(n) \cup {peer[c]})
        /\ \A b \in Nodes \ {n} : Entries(b)' = Entries(b)
    BY <1>1, <2>3 DEF Entries
  <2>. QED
    BY <1>1, <2>1, <2>2, <2>4, CountsHandshake
<1>7. ASSUME NEW p \in Nodes, Call(c, p) PROVE CrowdCounted' /\ LimitOvershoot'
  <2>1. /\ pc[c] = "idle" /\ table' = table
        /\ \/ pc' = [pc EXCEPT ![c] = "drain"] /\ crowd' = crowd
           \/ /\ ~AtLimit(n) /\ pc' = [pc EXCEPT ![c] = "dial"]
              /\ crowd' = [crowd EXCEPT ![n] =
                               IF @ > Cardinality(Connecting(n)) THEN @ ELSE @ + 1]
           \/ pc' = pc /\ crowd' = crowd
    BY <1>7, Zenon DEF Call, WriteFrame, callVars
  <2>2. CASE pc' = [pc EXCEPT ![c] = "drain"] /\ crowd' = crowd
    BY <1>2, <2>1, <2>2, Zenon
  <2>3. CASE /\ ~AtLimit(n) /\ pc' = [pc EXCEPT ![c] = "dial"]
             /\ crowd' = [crowd EXCEPT ![n] =
                              IF @ > Cardinality(Connecting(n)) THEN @ ELSE @ + 1]
    <3>1. c \notin Connecting(n)
      BY <2>1, Zenon DEF Connecting
    <3>2. /\ Connecting(n)' = Connecting(n) \cup {c}
          /\ \A b \in Nodes \ {n} : Connecting(b)' = Connecting(b)
      BY <1>1, <2>3, ConnectingMoves, Zenon
    <3>3. \A b \in Nodes : Entries(b)' = Entries(b)
      BY <2>1, Zenon DEF Entries
    <3>. QED
      BY <1>1, <2>3, <3>1, <3>2, <3>3, CountsDial, Zenon
  <2>4. CASE pc' = pc /\ crowd' = crowd
    <3>1. \A b \in Nodes : Entries(b)' = Entries(b) /\ Connecting(b)' = Connecting(b)
      BY <2>1, <2>4, Zenon DEF Entries, Connecting
    <3>. QED
      BY <1>1, <2>4, <3>1, CountsShrink, Zenon
  <2>. QED
    BY <2>1, <2>2, <2>3, <2>4, Zenon
<1>. QED
  BY <1>3, <1>4, <1>5, <1>6, <1>7, Zenon DEF CallerStep

(* Handlers count and register in one step. *)
LEMMA HandlerSteps ==
    ASSUME LimitsInv, NEW k \in Conns, HandlerStep(k)
    PROVE  LimitsInv'
<1>. DEFINE n == ServerOf(k)
<1>1. UNCHANGED <<pc, peer, link, table, dials, closing, size, busy, crowd>>
  BY Zenon DEF HandlerStep, Accept, Welcome, Serve, HandlerEnds, callVars, closeVars, histVars
<1>2. \/ incoming' = incoming
      \/ incoming' = [incoming EXCEPT ![n] = @ \ {k}]
      \/ /\ Cardinality(incoming[n]) < MaxConnections
         /\ incoming' = [incoming EXCEPT ![n] = @ \cup {k}]
  BY Zenon DEF HandlerStep, Accept, Welcome, Serve, HandlerEnds, EndHandler
<1>3. incoming \in [Nodes -> SUBSET Conns]
  BY Zenon DEF LimitsInv, Shapes
<1>4. incoming' \in [Nodes -> SUBSET Conns]
  BY <1>2, <1>3, Zenon
<1>5. \A b \in Nodes : Cardinality(incoming'[b]) <= MaxConnections
  <2>. TAKE b \in Nodes
  <2>1. /\ IsFiniteSet(incoming[b]) /\ Cardinality(incoming[b]) \in Nat
        /\ Cardinality(incoming[b]) <= MaxConnections
        /\ MaxConnections \in Nat
    BY <1>3, Finite, TcpAssumption, Zenon DEF LimitsInv, IncomingLimit
  <2>2. CASE incoming'[b] = incoming[b]
    BY <2>1, <2>2, Zenon
  <2>3. CASE incoming'[b] = incoming[b] \ {k}
    <3>1. Cardinality(incoming[b] \ {k}) \in {Cardinality(incoming[b]), Cardinality(incoming[b]) - 1}
      BY <2>1, FS_RemoveElement, Zenon
    <3>. QED
      BY <2>1, <2>3, <3>1
  <2>4. CASE Cardinality(incoming[b]) < MaxConnections /\ incoming'[b] = incoming[b] \cup {k}
    <3>1. Cardinality(incoming[b] \cup {k}) \in {Cardinality(incoming[b]), Cardinality(incoming[b]) + 1}
      BY <2>1, FS_AddElement, Zenon
    <3>. QED
      BY <2>1, <2>4, <3>1
  <2>. QED
    BY <1>2, <1>3, <2>2, <2>3, <2>4, Zenon
<1>6. Shapes'
  BY <1>1, <1>4, Zenon DEF LimitsInv, Shapes
<1>7. \A b \in Nodes : Entries(b)' = Entries(b) /\ Connecting(b)' = Connecting(b)
  BY <1>1, Zenon DEF Entries, Connecting
<1>8. CrowdCounted' /\ LimitOvershoot'
  BY <1>1, <1>7, CountsShrink, Zenon DEF LimitsInv, Shapes
<1>9. QuietClose'
  BY <1>1, <1>7, Zenon DEF LimitsInv, QuietClose, Undisturbed
<1>. QED
  BY <1>5, <1>6, <1>8, <1>9, Zenon DEF LimitsInv, IncomingLimit

(* Nothing of this module changes when a connection breaks, when a message   *)
(* is received, or when nothing happens.                                     *)
LEMMA OtherSteps ==
    ASSUME LimitsInv,
           (\E k \in Conns : Break(k)) \/ (\E n \in Nodes : Recv(n)) \/ UNCHANGED vars
    PROVE  LimitsInv'
<1>1. UNCHANGED <<pc, peer, link, table, dials, incoming, closing, size, busy, crowd>>
  BY Zenon DEF Break, Recv, vars, callVars, connVars, closeVars, histVars
<1>2. Shapes' /\ IncomingLimit'
  BY <1>1, Zenon DEF LimitsInv, Shapes, IncomingLimit
<1>3. \A b \in Nodes : Entries(b)' = Entries(b) /\ Connecting(b)' = Connecting(b)
  BY <1>1, Zenon DEF Entries, Connecting
<1>4. CrowdCounted' /\ LimitOvershoot'
  BY <1>1, <1>3, CountsShrink, Zenon DEF LimitsInv, Shapes
<1>5. QuietClose'
  BY <1>1, <1>3, Zenon DEF LimitsInv, QuietClose, Undisturbed
<1>. QED
  BY <1>2, <1>4, <1>5, Zenon DEF LimitsInv

(* The steps of close(): the first decides whether a call is in progress. *)
LEMMA CloseSteps ==
    ASSUME LimitsInv, NEW n \in Nodes, CloseStep(n)
    PROVE  LimitsInv'
<1>1. UNCHANGED <<pc, peer, link, dials, crowd>>
  BY Zenon DEF CloseStep, ClosePeer, CloseRaises, CloseTable, CloseServer, callVars, connVars, histVars
<1>2. /\ Shapes /\ CrowdCounted /\ LimitOvershoot /\ IncomingLimit /\ QuietClose
      /\ crowd \in [Nodes -> Nat]
      /\ Cardinality(Entries(n)) \in Nat
  BY Finite, Zenon DEF LimitsInv, Shapes
<1>3. \A b \in Nodes : Connecting(b)' = Connecting(b)
  BY <1>1, Zenon DEF Connecting
<1>4. ASSUME ~busy'[n], closing[n] = "no" \/ Iterating(n),
             busy' = [busy EXCEPT ![n] = @ \/ (closing[n] = "no" /\ InProgress(n))]
      PROVE  \A c \in Callers : Owner[c] = n => pc'[c] = "idle"
  <2>1. ~busy[n] /\ ~(closing[n] = "no" /\ InProgress(n))
    BY <1>2, <1>4, Zenon DEF Shapes
  <2>2. CASE closing[n] = "no"
    BY <1>1, <2>1, <2>2, Zenon DEF InProgress
  <2>3. CASE closing[n] # "no"
    BY <1>1, <1>2, <2>1, <2>3, Zenon DEF QuietClose, Undisturbed
  <2>. QED
    BY <2>2, <2>3, Zenon
<1>5. ASSUME \A b \in Nodes \ {n} : /\ table'[b] = table[b] /\ closing'[b] = closing[b]
                                    /\ size'[b] = size[b] /\ busy'[b] = busy[b],
             closing'[n] # "no" /\ ~busy'[n] => Undisturbed(n)'
      PROVE  QuietClose'
  <2>1. \A b \in Nodes \ {n} : Entries(b)' = Entries(b)
    BY <1>5, Zenon DEF Entries
  <2>2. \A b \in Nodes \ {n} : closing'[b] # "no" /\ ~busy'[b] => Undisturbed(b)'
    BY <1>1, <1>2, <1>5, <2>1 DEF QuietClose, Undisturbed
  <2>. QED
    BY <1>5, <2>2, Zenon DEF QuietClose
<1>6. ASSUME NEW p \in Nodes, ClosePeer(n, p) PROVE LimitsInv'
  <2>1. /\ closing' = [closing EXCEPT ![n] = "peers"]
        /\ size' = [size EXCEPT ![n] = Cardinality(Entries(n))]
        /\ busy' = [busy EXCEPT ![n] = @ \/ (closing[n] = "no" /\ InProgress(n))]
        /\ closing[n] = "no" \/ Iterating(n)
        /\ UNCHANGED <<table, incoming>>
    BY <1>6, Zenon DEF ClosePeer
  <2>2. Shapes' /\ IncomingLimit'
    BY <1>1, <1>2, <2>1, Zenon DEF Shapes, IncomingLimit
  <2>3. \A b \in Nodes : Entries(b)' = Entries(b)
    BY <2>1, Zenon DEF Entries
  <2>4. /\ closing'[n] = "peers" /\ size'[n] = Cardinality(Entries(n)')
        /\ \A b \in Nodes \ {n} : /\ table'[b] = table[b] /\ closing'[b] = closing[b]
                                  /\ size'[b] = size[b] /\ busy'[b] = busy[b]
    BY <1>2, <2>1, <2>3, Zenon DEF Shapes
  <2>5. closing'[n] # "no" /\ ~busy'[n] => Undisturbed(n)'
    BY <1>4, <2>1, <2>4, Zenon DEF Undisturbed
  <2>6. QuietClose'
    BY <1>5, <2>4, <2>5, Zenon
  <2>7. CrowdCounted' /\ LimitOvershoot'
    BY <1>1, <1>2, <1>3, <2>3, CountsShrink, Zenon
  <2>. QED
    BY <2>2, <2>6, <2>7, Zenon DEF LimitsInv
<1>7. ASSUME CloseRaises(n) PROVE LimitsInv'
  <2>1. /\ closing' = [closing EXCEPT ![n] = "failed"]
        /\ size' = [size EXCEPT ![n] = 0]
        /\ closing[n] = "peers" /\ size[n] # Cardinality(Entries(n))
        /\ UNCHANGED <<table, incoming, busy>>
    BY <1>7, Zenon DEF CloseRaises, Iterating
  <2>2. Shapes' /\ IncomingLimit'
    BY <1>1, <1>2, <2>1, Zenon DEF Shapes, IncomingLimit
  <2>3. \A b \in Nodes : Entries(b)' = Entries(b)
    BY <2>1, Zenon DEF Entries
  <2>4. /\ closing'[n] = "failed"
        /\ \A b \in Nodes \ {n} : /\ table'[b] = table[b] /\ closing'[b] = closing[b]
                                  /\ size'[b] = size[b] /\ busy'[b] = busy[b]
    BY <1>2, <2>1, Zenon DEF Shapes
  <2>5. busy'[n]
    BY <1>2, <2>1, Zenon DEF QuietClose, Undisturbed
  <2>6. QuietClose'
    BY <1>5, <2>4, <2>5, Zenon
  <2>7. CrowdCounted' /\ LimitOvershoot'
    BY <1>1, <1>2, <1>3, <2>3, CountsShrink, Zenon
  <2>. QED
    BY <2>2, <2>6, <2>7, Zenon DEF LimitsInv
<1>8. ASSUME CloseTable(n) PROVE LimitsInv'
  <2>1. /\ table' = [table EXCEPT ![n] = [p \in Nodes |-> 0]]
        /\ closing' = [closing EXCEPT ![n] = "incoming"]
        /\ size' = [size EXCEPT ![n] = 0]
        /\ busy' = [busy EXCEPT ![n] = @ \/ (closing[n] = "no" /\ InProgress(n))]
        /\ closing[n] = "no" \/ Iterating(n)
        /\ UNCHANGED incoming
    BY <1>8, Zenon DEF CloseTable
  <2>2. table' \in [Nodes -> [Nodes -> Nat]]
    BY <1>2, <2>1, Zenon DEF Shapes
  <2>3. Shapes' /\ IncomingLimit'
    BY <1>1, <1>2, <2>1, <2>2, Zenon DEF Shapes, IncomingLimit
  <2>4. /\ \A p \in Nodes : table'[n][p] = 0
        /\ closing'[n] = "incoming"
        /\ \A b \in Nodes \ {n} : /\ table'[b] = table[b] /\ closing'[b] = closing[b]
                                  /\ size'[b] = size[b] /\ busy'[b] = busy[b]
    BY <1>2, <2>1, Zenon DEF Shapes
  <2>5. Entries(n)' = {} /\ \A b \in Nodes : Entries(b)' \subseteq Entries(b)
    BY <2>4, Zenon DEF Entries
  <2>6. closing'[n] # "no" /\ ~busy'[n] => Undisturbed(n)'
    BY <1>4, <2>1, <2>4, <2>5, Zenon DEF Undisturbed
  <2>7. QuietClose'
    BY <1>5, <2>4, <2>6, Zenon
  <2>8. CrowdCounted' /\ LimitOvershoot'
    BY <1>1, <1>2, <1>3, <2>5, CountsShrink, Zenon
  <2>. QED
    BY <2>3, <2>7, <2>8, Zenon DEF LimitsInv
<1>9. ASSUME CloseServer(n) PROVE LimitsInv'
  <2>1. /\ closing[n] = "incoming"
        /\ closing' = [closing EXCEPT ![n] = "done"]
        /\ incoming' = [incoming EXCEPT ![n] = {}]
        /\ UNCHANGED <<table, size, busy>>
    BY <1>9, Zenon DEF CloseServer
  <2>2. Shapes'
    BY <1>1, <1>2, <2>1, Zenon DEF Shapes
  <2>3. IncomingLimit'
    BY <1>2, <2>1, FS_EmptySet, TcpAssumption DEF Shapes, IncomingLimit
  <2>4. \A b \in Nodes : Entries(b)' = Entries(b)
    BY <2>1, Zenon DEF Entries
  <2>5. /\ closing'[n] = "done"
        /\ \A b \in Nodes \ {n} : /\ table'[b] = table[b] /\ closing'[b] = closing[b]
                                  /\ size'[b] = size[b] /\ busy'[b] = busy[b]
    BY <1>2, <2>1, Zenon DEF Shapes
  <2>6. closing'[n] # "no" /\ ~busy'[n] => Undisturbed(n)'
    BY <1>1, <1>2, <2>1, <2>4, <2>5, Zenon DEF QuietClose, Undisturbed
  <2>7. QuietClose'
    BY <1>5, <2>5, <2>6, Zenon
  <2>8. CrowdCounted' /\ LimitOvershoot'
    BY <1>1, <1>2, <1>3, <2>4, CountsShrink, Zenon
  <2>. QED
    BY <2>2, <2>3, <2>7, <2>8, Zenon DEF LimitsInv
<1>. QED
  BY <1>6, <1>7, <1>8, <1>9, Zenon DEF CloseStep

(* The initial state *)
LEMMA InitLimits == Init => LimitsInv
<1>. SUFFICES ASSUME Init PROVE LimitsInv
  BY Zenon
<1>1. Shapes
  <2>1. peer \in [Callers -> Nodes]
    BY TcpAssumption, Zenon DEF Init
  <2>. QED
    BY <2>1, Zenon DEF Init, Shapes
<1>2. \A n \in Nodes : Entries(n) = {} /\ Connecting(n) = {}
  BY Zenon DEF Init, Entries, Connecting
<1>3. CrowdCounted /\ LimitOvershoot
  <2>1. \A n \in Nodes : /\ Cardinality(Entries(n)) = 0
                         /\ Cardinality(Connecting(n)) = 0
                         /\ crowd[n] = 0
    BY <1>2, FS_EmptySet, Zenon DEF Init
  <2>. QED
    BY <2>1 DEF CrowdCounted, LimitOvershoot
<1>4. IncomingLimit
  BY FS_EmptySet, TcpAssumption DEF Init, IncomingLimit
<1>5. QuietClose
  BY Zenon DEF Init, QuietClose
<1>. QED
  BY <1>1, <1>3, <1>4, <1>5, Zenon DEF LimitsInv

(* Every step keeps the invariant. *)
LEMMA NextLimits == LimitsInv /\ [Next]_vars => LimitsInv'
<1>. SUFFICES ASSUME LimitsInv, [Next]_vars PROVE LimitsInv'
  BY Zenon
<1>1. ASSUME NEW c \in Callers, (\E p \in Nodes : Call(c, p)) \/ CallerStep(c) \/ Cancel(c)
      PROVE  LimitsInv'
  <2>1. Shapes' /\ CallerEffect(c)
    BY <1>1, CallerEffects, Zenon DEF LimitsInv
  <2>2. CrowdCounted' /\ LimitOvershoot'
    BY <1>1, CallerCounts, Zenon
  <2>3. IncomingLimit'
    BY <2>1, Zenon DEF LimitsInv, IncomingLimit, CallerEffect
  <2>4. QuietClose'
    BY <2>1, CallerElsewhere, Zenon DEF LimitsInv
  <2>. QED
    BY <2>1, <2>2, <2>3, <2>4, Zenon DEF LimitsInv
<1>2. CASE \E c \in Callers, p \in Nodes : Call(c, p)
  BY <1>1, <1>2, Zenon
<1>3. CASE \E c \in Callers : CallerStep(c) \/ Cancel(c)
  BY <1>1, <1>3, Zenon
<1>4. CASE \E k \in Conns : HandlerStep(k)
  BY <1>4, HandlerSteps, Zenon
<1>5. CASE (\E k \in Conns : Break(k)) \/ (\E n \in Nodes : Recv(n)) \/ UNCHANGED vars
  BY <1>5, OtherSteps, Zenon
<1>6. CASE \E n \in Closers : CloseStep(n)
  BY <1>6, CloseSteps, TcpAssumption, Zenon
<1>. QED
  BY <1>2, <1>3, <1>4, <1>5, <1>6, Zenon DEF Next

(* The table of outgoing connections exceeds max_connections by at most one  *)
(* less than the callers that were ever connecting at a time                 *)
(* (_get_or_connect).                                                        *)
THEOREM OutgoingLimitHolds == Spec => []LimitOvershoot
<1>1. LimitsInv => LimitOvershoot
  BY Zenon DEF LimitsInv
<1>. QED
  BY <1>1, InitLimits, NextLimits, PTL DEF Spec

(* Incoming connections never exceed max_connections (_handle_client). *)
THEOREM IncomingLimitHolds == Spec => []IncomingLimit
<1>1. LimitsInv => IncomingLimit
  BY Zenon DEF LimitsInv
<1>. QED
  BY <1>1, InitLimits, NextLimits, PTL DEF Spec

(* close() that begins with no call of send in progress neither raises nor   *)
(* leaves a connection in the table.                                         *)
THEOREM CloseIsClean == Spec => []CleanClose
<1>1. LimitsInv => CleanClose
  BY Zenon DEF LimitsInv, QuietClose, Undisturbed, CleanClose
<1>. QED
  BY <1>1, InitLimits, NextLimits, PTL DEF Spec

=============================================================================
