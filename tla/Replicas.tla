------------------------------ MODULE Replicas ------------------------------
(***************************************************************************)
(* What the merge of peerq/consensus.py promises: replicas of one task     *)
(* that have merged the same records hold the same record, whatever the    *)
(* order in which the records came and however often.  The store of a      *)
(* replica follows the rule of PeerNode._recv_loop: the first record is    *)
(* stored as it is, every later one is merged into what is there.          *)
(***************************************************************************)
EXTENDS Consensus

CONSTANTS
    Replica,   \* the replicas of one task
    Universe   \* the records that peers have sent

ASSUME UniverseAssumption == Universe \subseteq TaskRecord

VARIABLES
    stores,    \* stores[i]: the record that replica i holds
    seen       \* seen[i]: the records that replica i has merged

replicaVars == <<stores, seen>>

ReplicasInit ==
    /\ stores = [i \in Replica |-> NoRecord]
    /\ seen = [i \in Replica |-> {}]

Accept(i, r) ==
    /\ stores' = [stores EXCEPT ![i] = IF @ = NoRecord THEN r ELSE MergeRecords(@, r)]
    /\ seen' = [seen EXCEPT ![i] = @ \cup {r}]

(* A record that neither is authorised nor finds an authorised one is refused. *)
DeliverRecord(i, r) ==
    /\ Secure => VerifyTaskAuthorization(r)
    /\ Accept(i, r)

ReplicasNext == \E i \in Replica, r \in Universe : DeliverRecord(i, r)

ReplicasSpec == ReplicasInit /\ [][ReplicasNext]_replicaVars

-----------------------------------------------------------------------------
(* Types: a replica holds a record of TaskRecord, or none. *)
ReplicasTypeOK ==
    /\ stores \in [Replica -> TaskRecord \cup {NoRecord}]
    /\ seen \in [Replica -> SUBSET Universe]

(* Strong eventual consistency of merge_records: two replicas that have    *)
(* merged the same set of records, in whatever order and number, hold      *)
(* equal records (the commutative, associative and idempotent merge that   *)
(* the docstring of merge_records promises).                               *)
Convergence == \A i, j \in Replica : seen[i] = seen[j] => stores[i] = stores[j]

(* The lattice never loses: the record that a replica holds dominates the  *)
(* clock of every record it has merged, is terminal as soon as one of them *)
(* was, and never carries a token below that of a merged record of the     *)
(* same terminal class (the order of _record_lattice_key).                 *)
UpperBound ==
    \A i \in Replica : \A r \in seen[i] :
        /\ ClockLeq(r.vc, stores[i].vc)
        /\ IsTerminal(r.state) => IsTerminal(stores[i].state)
        /\ IsTerminal(r.state) = IsTerminal(stores[i].state)
               => ~ TokenGreater(r.token, stores[i].token)

=============================================================================
