----------------------------- MODULE CreditFlow -----------------------------
(***************************************************************************)
(* CreditFlowController of peerq/queue.py, for the window of one peer:     *)
(* coroutines that acquire credits, the futures they wait on, and          *)
(* replenish, which a credit message triggers.                             *)
(*                                                                         *)
(* A coroutine that waits is resumed some time after its future was set;   *)
(* until then others may acquire, or it may be cancelled.  The order in    *)
(* which the coroutines that are ready run is left open, and so is that in *)
(* which they wait: whoever sets one future sets them all.                 *)
(***************************************************************************)
EXTENDS Integers

CONSTANTS
    Senders,      \* coroutines that acquire
    Amounts,      \* amounts that are acquired and replenished
    Initial,      \* initial_credits
    MaxCredits,   \* bound: credits of the window
    MaxCalls      \* bound: calls of acquire

ASSUME AmountsAssumption == Amounts \subseteq Nat \ {0} /\ Initial \in Nat

VARIABLES
    credits,    \* _credits[peer]
    sleepers,   \* _waiters[peer]: the coroutines whose futures are in the list
    ready,      \* coroutines whose future is set and that are not resumed yet
    asks,      \* asks[s]: the amount that s is acquiring, 0 if it is not
    calls,      \* calls of acquire so far
    balance,    \* history: initial credits plus replenished minus acquired ones
    missed      \* history: the sleepers that the last init_peer passed over

creditVars == <<credits, sleepers, ready, asks, calls, balance, missed>>

CreditInit ==
    /\ credits = Initial
    /\ sleepers = {}
    /\ ready = {}
    /\ asks = [s \in Senders |-> 0]
    /\ calls = 0
    /\ balance = Initial
    /\ missed = {}

Take(s, amount) ==
    /\ credits' = credits - amount
    /\ balance' = balance - amount
    /\ asks' = [asks EXCEPT ![s] = 0]

(* Mutant: "if" in place of "while": a woken sender does not look again *)
AcquireStep_NoRecheck(s, amount) ==
    IF credits < amount /\ s \notin ready
    THEN /\ sleepers' = sleepers \cup {s}
         /\ asks' = [asks EXCEPT ![s] = amount]
         /\ ready' = ready
         /\ UNCHANGED <<credits, balance>>
    ELSE Take(s, amount) /\ ready' = ready \ {s} /\ UNCHANGED sleepers

(* acquire, from its call or from a wake-up *)
AcquireStep(s, amount) ==
    IF credits < amount
    THEN /\ sleepers' = sleepers \cup {s}
         /\ asks' = [asks EXCEPT ![s] = amount]
         /\ ready' = ready \ {s}
         /\ UNCHANGED <<credits, balance>>
    ELSE Take(s, amount) /\ ready' = ready \ {s} /\ UNCHANGED sleepers

Acquire(s, amount) ==
    /\ asks[s] = 0
    /\ calls < MaxCalls
    /\ calls' = calls + 1
    /\ UNCHANGED missed
    /\ AcquireStep(s, amount)

Resume(s) ==
    /\ s \in ready
    /\ UNCHANGED <<calls, missed>>
    /\ AcquireStep(s, asks[s])

(* try_acquire; when it fails it changes nothing *)
TryAcquire(amount) ==
    /\ credits >= amount
    /\ credits' = credits - amount
    /\ balance' = balance - amount
    /\ UNCHANGED <<sleepers, ready, asks, calls, missed>>

(* The coroutine that acquires is cancelled; its future leaves the list. *)
CancelAcquire(s) ==
    /\ asks[s] > 0
    /\ sleepers' = sleepers \ {s}
    /\ ready' = ready \ {s}
    /\ asks' = [asks EXCEPT ![s] = 0]
    /\ missed' = missed \ {s}
    /\ UNCHANGED <<credits, calls, balance>>

(* Mutant: one waiter is woken *)
Replenish_One(amount) ==
    /\ credits + amount <= MaxCredits
    /\ credits' = credits + amount
    /\ balance' = balance + amount
    /\ \E s \in sleepers : ready' = ready \cup {s} /\ sleepers' = sleepers \ {s}
    /\ missed' = {}
    /\ UNCHANGED <<asks, calls>>

(* replenish: the loop wakes waiters while there are credits, and takes none, *)
(* so that it wakes them all.                                                 *)
Replenish(amount) ==
    /\ credits + amount <= MaxCredits
    /\ credits' = credits + amount
    /\ balance' = balance + amount
    /\ ready' = IF credits' > 0 THEN ready \cup sleepers ELSE ready
    /\ sleepers' = IF credits' > 0 THEN {} ELSE sleepers
    /\ missed' = {}
    /\ UNCHANGED <<asks, calls>>

(* init_peer on a window that is in use; it wakes nobody *)
InitPeer(amount) ==
    /\ credits' = amount
    /\ balance' = amount
    /\ missed' = sleepers
    /\ UNCHANGED <<sleepers, ready, asks, calls>>

CreditNext ==
    \/ \E amount \in Amounts : InitPeer(amount)
    \/ \E s \in Senders, amount \in Amounts : Acquire(s, amount)
    \/ \E s \in Senders : Resume(s)
    \/ \E amount \in Amounts : TryAcquire(amount)
    \/ \E s \in Senders : CancelAcquire(s)
    \/ \E amount \in Amounts : Replenish(amount)

CreditSpec == CreditInit /\ [][CreditNext]_creditVars

-----------------------------------------------------------------------------
(* Types: the credits of the window, the callers that sleep or were woken, *)
(* and the amount that each of them asked for.                             *)
CreditTypeOK ==
    /\ credits \in Int /\ balance \in Int
    /\ sleepers \subseteq Senders
    /\ ready \subseteq Senders
    /\ asks \in [Senders -> Amounts \cup {0}]
    /\ calls \in Nat
    /\ missed \subseteq Senders

(* The window is never overdrawn, however wake-ups, new calls and          *)
(* cancellations interleave, and no credit appears or disappears.          *)
NeverOverdrawn == credits >= 0 /\ credits = balance

(* No sender sleeps while the window has its amount: each is woken by the  *)
(* replenish that made it possible.  Only init_peer, which wakes nobody,   *)
(* leaves sleepers behind, until the next replenish.                       *)
NoSleeperWithCredits ==
    \A s \in sleepers \ missed : asks[s] > credits

=============================================================================
