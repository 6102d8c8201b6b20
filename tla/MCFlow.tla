------------------------------- MODULE MCFlow -------------------------------
(***************************************************************************)
(* An instance of PriorityQueue and one of CreditFlow, the two bounded     *)
(* resources of peerq/queue.py, for model checking.  They share no         *)
(* variable, so that each is explored while the other rests.               *)
(***************************************************************************)
EXTENDS PriorityQueue, CreditFlow

VARIABLE half   \* which of the two is explored

mcVars == <<queueVars, creditVars, half>>

MCInit == QueueInit /\ CreditInit /\ half \in {"queue", "credit"}

MCNext ==
    /\ \/ half = "queue" /\ QueueNext /\ UNCHANGED creditVars
       \/ half = "credit" /\ CreditNext /\ UNCHANGED queueVars
    /\ UNCHANGED half

MCSpec == MCInit /\ [][MCNext]_mcVars

=============================================================================
