------------------------------ MODULE Consensus ------------------------------
(***************************************************************************)
(* The data types of peerq/consensus.py and the record authorisation of    *)
(* peerq/crypto.py: vector clocks, fencing tokens, task records, the       *)
(* lattice key and the merge of two records.  There is no state here; the  *)
(* modules that have some extend this one.                                 *)
(*                                                                         *)
(* Peer identifiers are positive naturals, so that the order of strings in *)
(* the code is the order of numbers; 0 stands for both "" and None.  A     *)
(* vector clock is a total function: the code prunes the zero counters, so *)
(* that a missing key and a zero are the same value.  The payload, result  *)
(* and error of a record are left out: what a handler returned is told     *)
(* apart by DONE and FAILED.                                               *)
(***************************************************************************)
EXTENDS Naturals, Sequences

CONSTANTS
    Peers,       \* identifiers of the peers of the mesh
    Secure,      \* SecurityConfig.enabled
    SigRank(_)   \* an arbitrary order on signature bytes, given by the signed clock

ASSUME PeersAssumption == Peers \subseteq Nat \ {0}
ASSUME SecureAssumption == Secure \in BOOLEAN

-----------------------------------------------------------------------------
(* Vector clocks *)

VectorClock == [Peers -> Nat]

ZeroClock == [p \in Peers |-> 0]

Increment(v, p) == [v EXCEPT ![p] = @ + 1]

MergeClocks(v, w) == [p \in Peers |-> IF v[p] >= w[p] THEN v[p] ELSE w[p]]

ClockLeq(v, w) == \A p \in Peers : v[p] <= w[p]

-----------------------------------------------------------------------------
(* Fencing tokens: (epoch, peer_id), compared lexicographically *)

FenceToken == [epoch : Nat, peer : Peers \cup {0}]

NoToken == [epoch |-> 0, peer |-> 0]

(* Mutant: a task that has a token keeps it *)
NextFor_Keeps(k, p) == IF k = NoToken THEN [epoch |-> 1, peer |-> p] ELSE k

NextFor(k, p) == [epoch |-> k.epoch + 1, peer |-> p]

TokenGreater(k, l) ==
    \/ k.epoch > l.epoch
    \/ k.epoch = l.epoch /\ k.peer > l.peer

-----------------------------------------------------------------------------
(* Task records.  "none" is the state of a record that a store does not have. *)

TaskState == {"PENDING", "CLAIMED", "RUNNING", "FAILED", "DONE"}

IsTerminal(state) == state \in {"DONE", "FAILED"}

LatticeRank == [PENDING |-> 0, CLAIMED |-> 1, RUNNING |-> 2, FAILED |-> 3, DONE |-> 4]

(* to_dict and from_dict carry a record of this set unchanged; from_dict       *)
(* refuses what is not in it.                                                  *)
(* The signature of a record is represented by the clock it was computed over: *)
(* of the signed fields, vector_clock is the only one that the code replaces   *)
(* without signing again.  An unsigned record has signer 0.                    *)
TaskRecord ==
    [state : TaskState, claimed_by : Peers \cup {0}, token : FenceToken, lease : Nat,
     vc : VectorClock, updated_by : Peers \cup {0},
     signer : Peers \cup {0}, signed : VectorClock]

NoRecord ==
    [state |-> "none", claimed_by |-> 0, token |-> NoToken, lease |-> 0,
     vc |-> ZeroClock, updated_by |-> 0, signer |-> 0, signed |-> ZeroClock]

(* TaskRecord(...) as node n builds it, before _seal_record *)
NewRecord(n, state, claimed_by, token, lease, vc) ==
    [state |-> state, claimed_by |-> claimed_by, token |-> token, lease |-> lease,
     vc |-> vc, updated_by |-> n, signer |-> 0, signed |-> ZeroClock]

SignTask(n, r) == [r EXCEPT !.signer = n, !.signed = r.vc]

SealRecord(n, r) == IF Secure THEN SignTask(n, r) ELSE r

VerifyTaskSignature(r) == r.signer \in Peers /\ r.signed = r.vc

VerifyTaskAuthorization(r) ==
    /\ VerifyTaskSignature(r)
    /\ r.claimed_by # 0 => r.signer = r.claimed_by /\ r.token.peer = r.claimed_by

-----------------------------------------------------------------------------
(* The join of two records *)

(* (0, b"") for an unsigned record, (1, bytes) for a signed one *)
SignatureKey(r) ==
    IF r.signer # 0 /\ SigRank(r.signed) \in Nat THEN 1 + SigRank(r.signed) ELSE 0

(* Mutant: the key without the rank of the state *)
RecordLatticeKey_NoRank(r) ==
    << IF IsTerminal(r.state) THEN 1 ELSE 0,
       r.token.epoch, r.token.peer, r.updated_by, r.claimed_by, r.lease >>

RecordLatticeKey(r) ==
    << IF IsTerminal(r.state) THEN 1 ELSE 0,
       r.token.epoch, r.token.peer,
       LatticeRank[r.state], r.updated_by, r.claimed_by, r.lease,
       SignatureKey(r), r.signer >>

LexGeq(k, l) ==
    \/ k = l
    \/ \E i \in 1 .. Len(k) : k[i] > l[i] /\ \A j \in 1 .. i - 1 : k[j] = l[j]

Winner(r, s) == IF LexGeq(RecordLatticeKey(r), RecordLatticeKey(s)) THEN r ELSE s

(* FALSE is the ValueError "neither record is cryptographically authorized" *)
Mergeable(r, s) ==
    Secure => VerifyTaskAuthorization(r) \/ VerifyTaskAuthorization(s)

(* Mutant: the winner keeps its own clock instead of the merged one *)
MergeRecords_WinnerClock(r, s) ==
    IF Secure /\ VerifyTaskAuthorization(r) # VerifyTaskAuthorization(s)
    THEN IF VerifyTaskAuthorization(r) THEN r ELSE s
    ELSE Winner(r, s)

MergeRecords(r, s) ==
    IF Secure /\ VerifyTaskAuthorization(r) # VerifyTaskAuthorization(s)
    THEN IF VerifyTaskAuthorization(r) THEN r ELSE s
    ELSE [Winner(r, s) EXCEPT !.vc = MergeClocks(r.vc, s.vc)]

=============================================================================
