----------------------------- MODULE MCPeerNode -----------------------------
(***************************************************************************)
(* Instances of PeerNode for model checking.                               *)
(***************************************************************************)
EXTENDS PeerNode

MCSigRank(v) == v[1] + 5 * v[2]

(* Rendezvous scores: peer 2 wins task 1, peer 1 wins task 2. *)
MCScore == [t \in Tasks |-> [p \in Peers |-> IF t = 1 THEN p ELSE 10 - p]]

(* Clocks that agree, and clocks of two processes that do not: peer 2 sees   *)
(* the leases of peer 1 end a tick early.                                    *)
MCOffset == [p \in Peers |-> 0]

MCSkewed == [p \in Peers |-> p - 1]

(* The behaviours in which no merge voids a signature and no submission      *)
(* overwrites a record                                                       *)
IntactSpec == Init /\ [][Next /\ SignaturesHold' /\ FreshSubmits]_vars

FairIntactSpec == IntactSpec /\ Fairness

=============================================================================
