---------------------------- MODULE RecordProofs ----------------------------
(***************************************************************************)
(* What happens to the records of tasks: the operators of Consensus (the   *)
(* order of lattice keys is total, and without signatures merge_records    *)
(* returns one of its arguments under the merged clock, and never the      *)
(* lower one); the theorems about Replicas, where the merge is a join, so  *)
(* that replicas that have merged the same records agree; and what the     *)
(* actions of PeerNode do, as facts about single entries of stores and     *)
(* logs, with the invariants on them: types, causality, and what a log     *)
(* knows.                                                                  *)
(***************************************************************************)
EXTENDS PeerNode, Replicas, TLAPS

-----------------------------------------------------------------------------
(* Types of the operators *)

(* Clocks are closed under increment and merge; the empty clock is one. *)
LEMMA ClockTypes ==
    ASSUME NEW v \in VectorClock, NEW w \in VectorClock, NEW p \in Peers
    PROVE  /\ ZeroClock \in VectorClock
           /\ Increment(v, p) \in VectorClock
           /\ MergeClocks(v, w) \in VectorClock
BY DEF VectorClock, ZeroClock, Increment, MergeClocks

(* Tokens: the one that no claim has, and the successor of any. *)
LEMMA TokenTypes ==
    ASSUME NEW k \in FenceToken, NEW p \in Peers
    PROVE  /\ NoToken \in FenceToken
           /\ NextFor(k, p) \in FenceToken
BY DEF FenceToken, NoToken, NextFor

(* A sealed new record is a record, with the clock it was made with. *)
LEMMA SealedType ==
    ASSUME NEW n \in Peers, NEW state \in TaskState, NEW claimed_by \in Peers \cup {0},
           NEW token \in FenceToken, NEW lease \in Nat, NEW v \in VectorClock
    PROVE  /\ SealRecord(n, NewRecord(n, state, claimed_by, token, lease, v)) \in TaskRecord
           /\ SealRecord(n, NewRecord(n, state, claimed_by, token, lease, v)).vc = v
<1>1. ZeroClock \in VectorClock
  BY ClockTypes DEF VectorClock, ZeroClock
<1> QED
  BY <1>1, ZenonT(60) DEF SealRecord, SignTask, NewRecord, TaskRecord

(* NoRecord is not a record, and its parts have the types of a record's. *)
LEMMA NoRecordType ==
    /\ NoRecord \notin TaskRecord
    /\ NoRecord.token \in FenceToken
    /\ NoRecord.vc = ZeroClock
    /\ ZeroClock \in VectorClock
BY DEF NoRecord, TaskRecord, TaskState, FenceToken, NoToken, ZeroClock, VectorClock

(* The merge of two records is a record; its clock is one of theirs, or the *)
(* merge of the two.                                                        *)
LEMMA MergeType ==
    ASSUME NEW r \in TaskRecord, NEW s \in TaskRecord
    PROVE  /\ MergeRecords(r, s) \in TaskRecord
           /\ MergeRecords(r, s).vc \in {r.vc, s.vc, MergeClocks(r.vc, s.vc)}
<1>1. r.vc \in VectorClock /\ s.vc \in VectorClock
  BY DEF TaskRecord
<1>2. MergeClocks(r.vc, s.vc) \in VectorClock
  BY <1>1 DEF VectorClock, MergeClocks
<1>3. Winner(r, s) \in TaskRecord
  BY DEF Winner
<1>4. LET x == [Winner(r, s) EXCEPT !.vc = MergeClocks(r.vc, s.vc)]
      IN  x \in TaskRecord /\ x.vc = MergeClocks(r.vc, s.vc)
  BY <1>2, <1>3 DEF TaskRecord
<1> QED
  BY <1>4 DEF MergeRecords

-----------------------------------------------------------------------------
(* The order of keys *)

(* Keys of records have nine parts. *)
Key == {k \in [1 .. 9 -> Nat] : Len(k) = 9}

(* What it means to be above: the first part that differs decides. *)
Above(k, l) == \E i \in 1 .. 9 : k[i] > l[i] /\ \A j \in 1 .. i - 1 : k[j] = l[j]

(* The order of tuples, for keys *)
LEMMA LexIsAbove ==
    ASSUME NEW k \in Key, NEW l \in Key
    PROVE  LexGeq(k, l) <=> k = l \/ Above(k, l)
  BY Zenon DEF LexGeq, Above, Key

(* Two keys are equal, or there is a first part in which they differ. *)
LEMMA LexTotal ==
    ASSUME NEW k \in Key, NEW l \in Key
    PROVE  LexGeq(k, l) \/ LexGeq(l, k)
<1>1. \A i \in 1 .. 9 : k[i] \in Nat /\ l[i] \in Nat
  BY DEF Key
<1>2. CASE \A i \in 1 .. 9 : k[i] = l[i]
  <2>1. k = l
    BY <1>2 DEF Key
  <2> QED
    BY <2>1 DEF LexGeq
<1>3. CASE \E i \in 1 .. 9 : k[i] # l[i]
  <2> DEFINE Differ(i) == k[i] # l[i] /\ \A j \in 1 .. i - 1 : k[j] = l[j]
  <2>1. \E i \in 1 .. 9 : Differ(i)
    <3>1. CASE k[1] # l[1]
      BY <3>1
    <3>2. CASE k[1] = l[1] /\ k[2] # l[2]
      BY <3>2
    <3>3. CASE k[1] = l[1] /\ k[2] = l[2] /\ k[3] # l[3]
      BY <3>3
    <3>4. CASE k[1] = l[1] /\ k[2] = l[2] /\ k[3] = l[3] /\ k[4] # l[4]
      BY <3>4
    <3> DEFINE Four == k[1] = l[1] /\ k[2] = l[2] /\ k[3] = l[3] /\ k[4] = l[4]
    <3>5. CASE Four /\ k[5] # l[5]
      BY <3>5
    <3>6. CASE Four /\ k[5] = l[5] /\ k[6] # l[6]
      BY <3>6
    <3>7. CASE Four /\ k[5] = l[5] /\ k[6] = l[6] /\ k[7] # l[7]
      BY <3>7
    <3>8. CASE Four /\ k[5] = l[5] /\ k[6] = l[6] /\ k[7] = l[7] /\ k[8] # l[8]
      BY <3>8
    <3>9. CASE Four /\ k[5] = l[5] /\ k[6] = l[6] /\ k[7] = l[7] /\ k[8] = l[8] /\ k[9] # l[9]
      BY <3>9
    <3> QED
      BY <1>3, <3>1, <3>2, <3>3, <3>4, <3>5, <3>6, <3>7, <3>8, <3>9
  <2>2. PICK i \in 1 .. 9 : Differ(i)
    BY <2>1
  <2>3. k[i] > l[i] \/ l[i] > k[i]
    BY <1>1, <2>2
  <2>4. Above(k, l) \/ Above(l, k)
    BY <2>2, <2>3 DEF Above
  <2> QED
    BY <2>4, LexIsAbove
<1> QED
  BY <1>2, <1>3

(* What is above what is above is above. *)
LEMMA LexTransitive ==
    ASSUME NEW k \in Key, NEW l \in Key, NEW m \in Key, LexGeq(k, l), LexGeq(l, m)
    PROVE  LexGeq(k, m)
<1>1. \A i \in 1 .. 9 : k[i] \in Nat /\ l[i] \in Nat /\ m[i] \in Nat
  BY DEF Key
<1>2. CASE k = l \/ l = m
  BY <1>2
<1>3. CASE Above(k, l) /\ Above(l, m)
  <2>1. PICK i \in 1 .. 9 : k[i] > l[i] /\ \A j \in 1 .. i - 1 : k[j] = l[j]
    BY <1>3 DEF Above
  <2>2. PICK h \in 1 .. 9 : l[h] > m[h] /\ \A j \in 1 .. h - 1 : l[j] = m[j]
    BY <1>3 DEF Above
  <2>3. CASE i <= h
    <3>1. k[i] > m[i]
      BY <1>1, <2>1, <2>2, <2>3
    <3>2. \A j \in 1 .. i - 1 : k[j] = m[j]
      BY <2>1, <2>2, <2>3
    <3> QED
      BY <3>1, <3>2, LexIsAbove DEF Above
  <2>4. CASE h < i
    <3>1. k[h] > m[h]
      BY <1>1, <2>1, <2>2, <2>4
    <3>2. \A j \in 1 .. h - 1 : k[j] = m[j]
      BY <2>1, <2>2, <2>4
    <3> QED
      BY <3>1, <3>2, LexIsAbove DEF Above
  <2> QED
    BY <2>3, <2>4
<1> QED
  BY <1>2, <1>3, LexIsAbove

(* Only equal keys are above each other. *)
LEMMA LexAntisymmetric ==
    ASSUME NEW k \in Key, NEW l \in Key, LexGeq(k, l), LexGeq(l, k)
    PROVE  k = l
<1>1. \A i \in 1 .. 9 : k[i] \in Nat /\ l[i] \in Nat
  BY DEF Key
<1>2. SUFFICES ASSUME Above(k, l), Above(l, k) PROVE FALSE
  BY LexIsAbove
<1>3. PICK i \in 1 .. 9 : k[i] > l[i] /\ \A j \in 1 .. i - 1 : k[j] = l[j]
  BY <1>2 DEF Above
<1>4. PICK h \in 1 .. 9 : l[h] > k[h] /\ \A j \in 1 .. h - 1 : l[j] = k[j]
  BY <1>2 DEF Above
<1>5. CASE i < h
  BY <1>1, <1>3, <1>4, <1>5
<1>6. CASE h < i
  BY <1>1, <1>3, <1>4, <1>6
<1>7. CASE h = i
  BY <1>1, <1>3, <1>4, <1>7
<1> QED
  BY <1>5, <1>6, <1>7

-----------------------------------------------------------------------------
(* Records and their keys *)

(* The numbers that a record holds *)
LEMMA RecordParts ==
    ASSUME NEW r \in TaskRecord
    PROVE  /\ r.token \in FenceToken /\ r.token.epoch \in Nat /\ r.token.peer \in Nat
           /\ r.updated_by \in Nat /\ r.claimed_by \in Nat /\ r.lease \in Nat
           /\ r.signer \in Nat /\ r.vc \in VectorClock
<1>1. /\ r.token \in FenceToken /\ r.lease \in Nat /\ r.signer \in Peers \cup {0}
      /\ r.updated_by \in Peers \cup {0} /\ r.claimed_by \in Peers \cup {0}
      /\ r.vc \in VectorClock
  BY DEF TaskRecord
<1>2. r.token.epoch \in Nat /\ r.token.peer \in Peers \cup {0}
  BY <1>1 DEF FenceToken
<1>3. \A p \in Peers \cup {0} : p \in Nat
  BY PeersAssumption
<1> QED
  BY <1>1, <1>2, <1>3

(* The key of a record is a key. *)
LEMMA KeyType ==
    ASSUME NEW r \in TaskRecord
    PROVE  RecordLatticeKey(r) \in Key
<1>1. SignatureKey(r) \in Nat
  BY DEF SignatureKey
<1>2. LatticeRank[r.state] \in Nat
  BY DEF TaskRecord, TaskState, LatticeRank
<1>3. RecordLatticeKey(r) =
          << IF IsTerminal(r.state) THEN 1 ELSE 0, r.token.epoch, r.token.peer,
             LatticeRank[r.state], r.updated_by, r.claimed_by, r.lease,
             SignatureKey(r), r.signer >>
  BY DEF RecordLatticeKey
<1> QED
  BY <1>1, <1>2, <1>3, RecordParts DEF Key

(* The clock of a record has no part in its key. *)
LEMMA ReclockType ==
    ASSUME NEW r \in TaskRecord, NEW v \in VectorClock
    PROVE  LET s == [r EXCEPT !.vc = v]
           IN  /\ s \in TaskRecord /\ s.vc = v
               /\ s.state = r.state /\ s.token = r.token /\ s.updated_by = r.updated_by
               /\ s.claimed_by = r.claimed_by /\ s.lease = r.lease
               /\ s.signer = r.signer /\ s.signed = r.signed
               /\ RecordLatticeKey(s) = RecordLatticeKey(r)
<1> DEFINE s == [r EXCEPT !.vc = v]
<1>1. s \in TaskRecord /\ s.vc = v
  BY DEF TaskRecord
<1>2. /\ s.state = r.state /\ s.token = r.token /\ s.updated_by = r.updated_by
      /\ s.claimed_by = r.claimed_by /\ s.lease = r.lease
      /\ s.signer = r.signer /\ s.signed = r.signed
  BY DEF TaskRecord
<1> HIDE DEF s
<1>3. RecordLatticeKey(s) = RecordLatticeKey(r)
  BY <1>2 DEF RecordLatticeKey, SignatureKey
<1> QED
  BY <1>1, <1>2, <1>3 DEF s

(* A record above another is terminal if the other is, and among records of *)
(* one terminal class its token is not the lower one.                       *)
LEMMA AboveMeans ==
    ASSUME NEW r \in TaskRecord, NEW s \in TaskRecord,
           LexGeq(RecordLatticeKey(s), RecordLatticeKey(r))
    PROVE  /\ IsTerminal(r.state) => IsTerminal(s.state)
           /\ IsTerminal(r.state) = IsTerminal(s.state)
                  => ~ TokenGreater(r.token, s.token) /\ r.token.epoch <= s.token.epoch
<1> DEFINE k == RecordLatticeKey(s)
           l == RecordLatticeKey(r)
<1>1. k \in Key /\ l \in Key
  BY KeyType
<1>2. k = l \/ Above(k, l)
  BY <1>1, LexIsAbove
<1>3. /\ k[1] = (IF IsTerminal(s.state) THEN 1 ELSE 0) /\ k[2] = s.token.epoch /\ k[3] = s.token.peer
      /\ l[1] = (IF IsTerminal(r.state) THEN 1 ELSE 0) /\ l[2] = r.token.epoch /\ l[3] = r.token.peer
  BY DEF RecordLatticeKey
<1> HIDE DEF k, l
<1>4. \A h \in 1 .. 9 : k[h] \in Nat /\ l[h] \in Nat
  BY <1>1 DEF Key
<1>5. k[1] >= l[1] /\ (k[1] = l[1] => k[2] >= l[2]) /\ (k[1] = l[1] /\ k[2] = l[2] => k[3] >= l[3])
  <2>1. CASE k = l
    BY <1>4, <2>1
  <2>2. CASE Above(k, l)
    <3>1. PICK h \in 1 .. 9 : k[h] > l[h] /\ \A j \in 1 .. h - 1 : k[j] = l[j]
      BY <2>2 DEF Above
    <3> QED
      BY <1>4, <3>1
  <2> QED
    BY <1>2, <2>1, <2>2
<1>6. IsTerminal(r.state) => IsTerminal(s.state)
  BY <1>3, <1>5
<1>7. IsTerminal(r.state) = IsTerminal(s.state)
          => ~ TokenGreater(r.token, s.token) /\ r.token.epoch <= s.token.epoch
  BY <1>3, <1>4, <1>5 DEF TokenGreater
<1> QED
  BY <1>6, <1>7

(* Without signatures, and where both are authorised or neither, a merge is *)
(* one of the two records, the higher one, under the merged clock.          *)
LEMMA MergeOfEquals ==
    ASSUME NEW r \in TaskRecord, NEW s \in TaskRecord,
           Secure => VerifyTaskAuthorization(r) = VerifyTaskAuthorization(s)
    PROVE  LET m == MergeRecords(r, s)
           IN  /\ m \in TaskRecord /\ m.vc = MergeClocks(r.vc, s.vc)
               /\ \E x \in {r, s} :
                     /\ m.state = x.state /\ m.token = x.token /\ m.claimed_by = x.claimed_by
                     /\ m.lease = x.lease /\ m.signer = x.signer /\ m.signed = x.signed
                     /\ RecordLatticeKey(m) = RecordLatticeKey(x)
               /\ LexGeq(RecordLatticeKey(m), RecordLatticeKey(r))
               /\ LexGeq(RecordLatticeKey(m), RecordLatticeKey(s))
<1> DEFINE w == Winner(r, s)
           v == MergeClocks(r.vc, s.vc)
           m == [w EXCEPT !.vc = v]
<1>1. MergeRecords(r, s) = m
  BY DEF MergeRecords
<1>2. w \in {r, s} /\ w \in TaskRecord
  BY DEF Winner
<1>3. /\ LexGeq(RecordLatticeKey(w), RecordLatticeKey(r))
      /\ LexGeq(RecordLatticeKey(w), RecordLatticeKey(s))
  <2>1. RecordLatticeKey(r) \in Key /\ RecordLatticeKey(s) \in Key
    BY KeyType
  <2>2. LexGeq(RecordLatticeKey(r), RecordLatticeKey(s)) \/ LexGeq(RecordLatticeKey(s), RecordLatticeKey(r))
    BY <2>1, LexTotal
  <2>3. LexGeq(RecordLatticeKey(r), RecordLatticeKey(r)) /\ LexGeq(RecordLatticeKey(s), RecordLatticeKey(s))
    BY DEF LexGeq
  <2> QED
    BY <2>2, <2>3 DEF Winner
<1>4. v \in VectorClock
  <2>1. r.vc \in VectorClock /\ s.vc \in VectorClock
    BY RecordParts
  <2> QED
    BY <2>1 DEF MergeClocks, VectorClock
<1> HIDE DEF w, v
<1>5. /\ m \in TaskRecord /\ m.vc = v
      /\ m.state = w.state /\ m.token = w.token /\ m.claimed_by = w.claimed_by
      /\ m.lease = w.lease /\ m.signer = w.signer /\ m.signed = w.signed
      /\ RecordLatticeKey(m) = RecordLatticeKey(w)
  BY <1>2, <1>4, ReclockType
<1> HIDE DEF m
<1> QED
  BY <1>1, <1>2, <1>3, <1>5 DEF v

-----------------------------------------------------------------------------
(* A record that _seal_record left alone, as it does without security *)
Unsigned(r) == r.signer = 0 /\ r.signed = ZeroClock

-----------------------------------------------------------------------------
(* Records and their keys *)

(* Unsigned records with one key differ in their clocks only. *)
LEMMA KeyDetermines ==
    ASSUME NEW r \in TaskRecord, NEW s \in TaskRecord, Unsigned(r), Unsigned(s),
           RecordLatticeKey(r) = RecordLatticeKey(s), r.vc = s.vc
    PROVE  r = s
<1>1. /\ r.token.epoch = s.token.epoch /\ r.token.peer = s.token.peer
      /\ LatticeRank[r.state] = LatticeRank[s.state]
      /\ r.updated_by = s.updated_by /\ r.claimed_by = s.claimed_by /\ r.lease = s.lease
  BY Zenon DEF RecordLatticeKey
<1>2. r.state = s.state
  BY <1>1 DEF TaskRecord, TaskState, LatticeRank
<1>3. r.token = s.token
  BY <1>1 DEF TaskRecord, FenceToken
<1>4. r.signer = s.signer /\ r.signed = s.signed
  BY Zenon DEF Unsigned
<1> QED
  BY <1>1, <1>2, <1>3, <1>4 DEF TaskRecord

-----------------------------------------------------------------------------
(* Joins *)

(* r is the join of the records of S: under the key of one of them, which no *)
(* other exceeds, it carries the least clock above them all.                 *)
IsJoin(r, S) ==
    /\ \E s \in S : RecordLatticeKey(r) = RecordLatticeKey(s)
    /\ \A s \in S : LexGeq(RecordLatticeKey(r), RecordLatticeKey(s))
    /\ \A s \in S : ClockLeq(s.vc, r.vc)
    /\ \A p \in Peers : \E s \in S : s.vc[p] = r.vc[p]

UnsignedRecord == {r \in TaskRecord : Unsigned(r)}

(* A set of records has one join at most. *)
LEMMA JoinIsUnique ==
    ASSUME NEW S \in SUBSET UnsignedRecord, NEW r \in UnsignedRecord, NEW s \in UnsignedRecord,
           IsJoin(r, S), IsJoin(s, S)
    PROVE  r = s
<1>1. \A x \in UnsignedRecord : RecordLatticeKey(x) \in Key
  BY KeyType, Zenon DEF UnsignedRecord
<1>2. LexGeq(RecordLatticeKey(r), RecordLatticeKey(s))
  BY Zenon DEF IsJoin
<1>3. LexGeq(RecordLatticeKey(s), RecordLatticeKey(r))
  BY Zenon DEF IsJoin
<1>4. RecordLatticeKey(r) = RecordLatticeKey(s)
  BY <1>1, <1>2, <1>3, LexAntisymmetric, Zenon
<1>5. r.vc \in VectorClock /\ s.vc \in VectorClock /\ \A x \in S : x.vc \in VectorClock
  BY Zenon DEF UnsignedRecord, TaskRecord
<1>6. ASSUME NEW p \in Peers PROVE r.vc[p] = s.vc[p]
  <2>1. PICK x \in S : x.vc[p] = r.vc[p]
    BY <1>6, Zenon DEF IsJoin
  <2>2. PICK y \in S : y.vc[p] = s.vc[p]
    BY <1>6, Zenon DEF IsJoin
  <2>3. x.vc[p] <= s.vc[p] /\ y.vc[p] <= r.vc[p]
    BY <1>6, Zenon DEF IsJoin, ClockLeq
  <2> QED
    BY <1>5, <1>6, <2>1, <2>2, <2>3 DEF VectorClock
<1>7. r.vc = s.vc
  BY <1>5, <1>6 DEF VectorClock
<1> QED
  BY <1>4, <1>7, KeyDetermines, Zenon DEF UnsignedRecord

(* merge_records of a join and a record is the join with that record. *)
LEMMA MergeJoins ==
    ASSUME ~ Secure, NEW S \in SUBSET UnsignedRecord, NEW r \in UnsignedRecord,
           NEW x \in UnsignedRecord, IsJoin(r, S)
    PROVE  MergeRecords(r, x) \in UnsignedRecord /\ IsJoin(MergeRecords(r, x), S \cup {x})
<1> DEFINE v == MergeClocks(r.vc, x.vc)
           m == MergeRecords(r, x)
<1>1. \A y \in UnsignedRecord : RecordLatticeKey(y) \in Key /\ y.vc \in VectorClock
  BY KeyType, RecordParts, Zenon DEF UnsignedRecord
<1>2. /\ m \in TaskRecord /\ m.vc = v
      /\ \E y \in {r, x} : /\ m.signer = y.signer /\ m.signed = y.signed
                            /\ RecordLatticeKey(m) = RecordLatticeKey(y)
      /\ LexGeq(RecordLatticeKey(m), RecordLatticeKey(r))
      /\ LexGeq(RecordLatticeKey(m), RecordLatticeKey(x))
  BY MergeOfEquals, Zenon DEF UnsignedRecord
<1> HIDE DEF m
<1>3. m \in UnsignedRecord
  BY <1>2, Zenon DEF UnsignedRecord, Unsigned
<1>4. \E s \in S \cup {x} : RecordLatticeKey(m) = RecordLatticeKey(s)
  BY <1>2, Zenon DEF IsJoin
<1>5. ASSUME NEW s \in S \cup {x} PROVE LexGeq(RecordLatticeKey(m), RecordLatticeKey(s))
  <2>1. CASE s = x
    BY <1>2, <2>1, Zenon
  <2>2. CASE s \in S
    <3>1. LexGeq(RecordLatticeKey(r), RecordLatticeKey(s))
      BY <2>2, Zenon DEF IsJoin
    <3> QED
      BY <1>1, <1>2, <1>3, <2>2, <3>1, LexTransitive, Zenon
  <2> QED
    BY <1>5, <2>1, <2>2, Zenon
<1>6. ASSUME NEW s \in S \cup {x} PROVE ClockLeq(s.vc, v)
  <2>1. ASSUME NEW p \in Peers PROVE s.vc[p] <= v[p]
    <3>1. r.vc[p] \in Nat /\ x.vc[p] \in Nat /\ s.vc[p] \in Nat
      BY <1>1, <1>6, <2>1, Zenon DEF VectorClock
    <3>2. s.vc[p] <= r.vc[p] \/ s = x
      BY <1>6, <2>1, Zenon DEF IsJoin, ClockLeq
    <3> QED
      BY <2>1, <3>1, <3>2 DEF MergeClocks
  <2> QED
    BY <2>1, Zenon DEF ClockLeq
<1>7. ASSUME NEW p \in Peers PROVE \E s \in S \cup {x} : s.vc[p] = v[p]
  <2>1. PICK s \in S : s.vc[p] = r.vc[p]
    BY <1>7, Zenon DEF IsJoin
  <2>2. v[p] = r.vc[p] \/ v[p] = x.vc[p]
    BY <1>7, Zenon DEF MergeClocks
  <2> QED
    BY <2>1, <2>2, Zenon
<1> HIDE DEF v
<1> QED
  BY <1>2, <1>3, <1>4, <1>5, <1>6, <1>7, Zenon DEF IsJoin, m

-----------------------------------------------------------------------------
(* The replicas *)

(* Every replica holds the join of what it has merged. *)
JoinInv ==
    /\ stores \in [Replica -> UnsignedRecord \cup {NoRecord}]
    /\ seen \in [Replica -> SUBSET Universe]
    /\ \A i \in Replica :
           IF seen[i] = {} THEN stores[i] = NoRecord
           ELSE stores[i] \in UnsignedRecord /\ IsJoin(stores[i], seen[i])

(* One record is its own join. *)
LEMMA SingleJoin ==
    ASSUME NEW x \in UnsignedRecord
    PROVE  IsJoin(x, {x}) /\ x # NoRecord
<1>1. x.vc \in VectorClock /\ x.state # "none"
  BY Zenon DEF UnsignedRecord, TaskRecord, TaskState
<1>2. ClockLeq(x.vc, x.vc)
  BY <1>1 DEF ClockLeq, VectorClock
<1>3. LexGeq(RecordLatticeKey(x), RecordLatticeKey(x))
  BY Zenon DEF LexGeq
<1>4. x # NoRecord
  BY <1>1 DEF NoRecord
<1> QED
  BY <1>2, <1>3, <1>4, Zenon DEF IsJoin

(* Without signatures JoinInv is kept by every delivery. *)
LEMMA JoinInvariant ==
    ASSUME ~ Secure, Universe \subseteq UnsignedRecord
    PROVE  ReplicasSpec => []JoinInv
<1>1. ReplicasInit => JoinInv
  BY Zenon DEF ReplicasInit, JoinInv
<1>2. JoinInv /\ [ReplicasNext]_replicaVars => JoinInv'
  <2> SUFFICES ASSUME JoinInv, [ReplicasNext]_replicaVars PROVE JoinInv'
    BY Zenon
  <2>1. CASE UNCHANGED replicaVars
    BY <2>1, Zenon DEF replicaVars, JoinInv
  <2>2. ASSUME NEW i \in Replica, NEW x \in Universe, Accept(i, x) PROVE JoinInv'
    <3> DEFINE new == IF stores[i] = NoRecord THEN x ELSE MergeRecords(stores[i], x)
    <3>1. /\ stores' = [stores EXCEPT ![i] = new]
          /\ seen' = [seen EXCEPT ![i] = seen[i] \cup {x}]
      BY <2>2, Zenon DEF Accept
    <3>2. x \in UnsignedRecord /\ seen[i] \subseteq UnsignedRecord
      BY <2>2, Zenon DEF JoinInv
    <3>3. new \in UnsignedRecord /\ IsJoin(new, seen[i] \cup {x})
      <4>1. CASE seen[i] = {}
        <5>1. stores[i] = NoRecord /\ seen[i] \cup {x} = {x}
          BY <4>1, Zenon DEF JoinInv
        <5> QED
          BY <3>2, <5>1, SingleJoin, Zenon
      <4>2. CASE seen[i] # {}
        <5>1. stores[i] \in UnsignedRecord /\ IsJoin(stores[i], seen[i])
          BY <4>2, Zenon DEF JoinInv
        <5>2. stores[i] # NoRecord
          BY <5>1, SingleJoin, Zenon
        <5> QED
          BY <3>2, <5>1, <5>2, MergeJoins, Zenon
      <4> QED
        BY <4>1, <4>2, Zenon
    <3> HIDE DEF new
    <3>4. /\ stores' \in [Replica -> UnsignedRecord \cup {NoRecord}]
          /\ seen' \in [Replica -> SUBSET Universe]
      BY <2>2, <3>1, <3>3, Zenon DEF JoinInv
    <3>5. ASSUME NEW j \in Replica
          PROVE  IF seen'[j] = {} THEN stores'[j] = NoRecord
                 ELSE stores'[j] \in UnsignedRecord /\ IsJoin(stores'[j], seen'[j])
      <4>1. CASE j = i
        <5>1. stores'[i] = new /\ seen'[i] = seen[i] \cup {x}
          BY <2>2, <3>1, Zenon DEF JoinInv
        <5> QED
          BY <3>3, <4>1, <5>1, Zenon
      <4>2. CASE j # i
        <5>1. stores'[j] = stores[j] /\ seen'[j] = seen[j]
          BY <3>1, <3>5, <4>2, Zenon DEF JoinInv
        <5> QED
          BY <3>5, <5>1, Zenon DEF JoinInv
      <4> QED
        BY <4>1, <4>2, Zenon
    <3> QED
      BY <3>4, <3>5, Zenon DEF JoinInv
  <2> QED
    BY <2>1, <2>2, Zenon DEF ReplicasNext, DeliverRecord
<1> QED
  BY <1>1, <1>2, PTL DEF ReplicasSpec

(* Strong eventual consistency: without signatures, replicas that have       *)
(* merged the same records hold the same record, for any records that may    *)
(* ever be sent (merge_records, "Commutative", "Associative", "Idempotent"). *)
THEOREM UnsignedReplicasConverge ==
    ASSUME ~ Secure, Universe \subseteq UnsignedRecord
    PROVE  ReplicasSpec => []Convergence
<1>1. JoinInv => Convergence
  <2> SUFFICES ASSUME JoinInv, NEW i \in Replica, NEW j \in Replica, seen[i] = seen[j]
               PROVE  stores[i] = stores[j]
    BY Zenon DEF Convergence
  <2>1. CASE seen[i] = {}
    BY <2>1, Zenon DEF JoinInv
  <2>2. CASE seen[i] # {}
    <3>1. /\ stores[i] \in UnsignedRecord /\ IsJoin(stores[i], seen[i])
          /\ stores[j] \in UnsignedRecord /\ IsJoin(stores[j], seen[i])
      BY <2>2, Zenon DEF JoinInv
    <3>2. seen[i] \in SUBSET UnsignedRecord
      BY Zenon DEF JoinInv
    <3> QED
      BY <3>1, <3>2, JoinIsUnique, Zenon
  <2> QED
    BY <2>1, <2>2, Zenon
<1> QED
  BY <1>1, JoinInvariant, PTL

(* Nothing that was merged is lost: clocks, results and, among records of    *)
(* one terminal class, tokens only grow (_record_lattice_key).               *)
THEOREM UnsignedMergeLosesNothing ==
    ASSUME ~ Secure, Universe \subseteq UnsignedRecord
    PROVE  ReplicasSpec => []UpperBound
<1>1. JoinInv => UpperBound
  <2> SUFFICES ASSUME JoinInv, NEW i \in Replica, NEW r \in seen[i]
               PROVE  /\ ClockLeq(r.vc, stores[i].vc)
                      /\ IsTerminal(r.state) => IsTerminal(stores[i].state)
                      /\ IsTerminal(r.state) = IsTerminal(stores[i].state)
                             => ~ TokenGreater(r.token, stores[i].token)
    BY Zenon DEF UpperBound
  <2> DEFINE s == stores[i]
  <2>1. s \in UnsignedRecord /\ r \in UnsignedRecord /\ IsJoin(s, seen[i])
    BY Zenon DEF JoinInv
  <2>2. s \in TaskRecord /\ r \in TaskRecord /\ LexGeq(RecordLatticeKey(s), RecordLatticeKey(r))
    BY <2>1, Zenon DEF UnsignedRecord, IsJoin
  <2> HIDE DEF s
  <2>3. /\ IsTerminal(r.state) => IsTerminal(s.state)
        /\ IsTerminal(r.state) = IsTerminal(s.state) => ~ TokenGreater(r.token, s.token)
    BY <2>2, AboveMeans, Zenon
  <2>4. ClockLeq(r.vc, s.vc)
    BY <2>1, Zenon DEF IsJoin
  <2> QED
    BY <2>3, <2>4, Zenon DEF s
<1> QED
  BY <1>1, JoinInvariant, PTL

(* Type correctness, with and without signatures: a replica holds a record *)
(* whatever it has merged (the last line of merge_records replaces a field *)
(* of a record by a value of the same type).                               *)
THEOREM ReplicasTypeCorrect == ReplicasSpec => []ReplicasTypeOK
<1>1. ReplicasInit => ReplicasTypeOK
  BY Zenon DEF ReplicasInit, ReplicasTypeOK
<1>2. ReplicasTypeOK /\ [ReplicasNext]_replicaVars => ReplicasTypeOK'
  <2> SUFFICES ASSUME ReplicasTypeOK, [ReplicasNext]_replicaVars PROVE ReplicasTypeOK'
    BY Zenon
  <2>1. CASE UNCHANGED replicaVars
    BY <2>1, Zenon DEF replicaVars, ReplicasTypeOK
  <2>2. ASSUME NEW i \in Replica, NEW x \in Universe, Accept(i, x) PROVE ReplicasTypeOK'
    <3> DEFINE new == IF stores[i] = NoRecord THEN x ELSE MergeRecords(stores[i], x)
    <3>1. x \in TaskRecord
      BY UniverseAssumption, Zenon
    <3>2. stores[i] = NoRecord \/ stores[i] \in TaskRecord
      BY Zenon DEF ReplicasTypeOK
    <3>3. new \in TaskRecord
      BY <3>1, <3>2, MergeType, Zenon
    <3>4. /\ stores' = [stores EXCEPT ![i] = new]
          /\ seen' = [seen EXCEPT ![i] = seen[i] \cup {x}]
      BY <2>2, Zenon DEF Accept
    <3> HIDE DEF new
    <3> QED
      BY <3>3, <3>4, Zenon DEF ReplicasTypeOK
  <2> QED
    BY <2>1, <2>2, Zenon DEF ReplicasNext, DeliverRecord
<1> QED
  BY <1>1, <1>2, PTL DEF ReplicasSpec

-----------------------------------------------------------------------------
(* Writing a record *)

(* The merge of two records that are both authorised, or unsigned *)
LEMMA AuthenticMerge ==
    ASSUME NEW r \in TaskRecord, NEW s \in TaskRecord, Authentic(r), Authentic(s)
    PROVE  LET m == MergeRecords(r, s)
           IN  /\ m \in TaskRecord /\ m.vc = MergeClocks(r.vc, s.vc)
               /\ \E x \in {r, s} :
                     /\ m.state = x.state /\ m.token = x.token /\ m.claimed_by = x.claimed_by
                     /\ m.lease = x.lease /\ m.signer = x.signer /\ m.signed = x.signed
                     /\ RecordLatticeKey(m) = RecordLatticeKey(x)
               /\ LexGeq(RecordLatticeKey(m), RecordLatticeKey(r))
               /\ LexGeq(RecordLatticeKey(m), RecordLatticeKey(s))
<1>1. r # NoRecord /\ s # NoRecord
  BY NoRecordType, Zenon
<1>2. Secure => VerifyTaskAuthorization(r) /\ VerifyTaskAuthorization(s)
  BY <1>1, Zenon DEF Authentic
<1>3. Secure => VerifyTaskAuthorization(r) = VerifyTaskAuthorization(s)
  BY <1>2 DEF VerifyTaskAuthorization, VerifyTaskSignature
<1> QED
  BY <1>3, MergeOfEquals, Zenon

(* Every entry of a store, a log or a snapshot is a record or NoRecord. *)
LEMMA EntryTypes ==
    ASSUME TypeOK, NEW p \in Peers, NEW u \in Tasks
    PROVE  /\ tasks[p][u] \in TaskRecord \cup {NoRecord}
           /\ snap[p][u] \in TaskRecord \cup {NoRecord}
           /\ log[p].tasks[u] \in TaskRecord \cup {NoRecord}
<1>1. tasks[p] \in Store /\ snap[p] \in Store /\ log[p].tasks \in Store
  BY Zenon DEF TypeOK
<1> QED
  BY <1>1, Zenon DEF Store

(* The parts of any entry of a store have their types. *)
LEMMA StoreParts ==
    ASSUME NEW store \in Store, NEW t \in Tasks
    PROVE  store[t].token \in FenceToken /\ store[t].vc \in VectorClock
<1>1. CASE store[t] \in TaskRecord
  BY <1>1, Zenon DEF TaskRecord
<1>2. CASE store[t] = NoRecord
  BY <1>2, NoRecordType, Zenon
<1> QED
  BY <1>1, <1>2, Zenon DEF Store

(* Replaying a record keeps a store a store; every clock in it was there, or *)
(* is that of the record, or the merge of such two.                          *)
LEMMA ReplayedType ==
    ASSUME NEW store \in Store, NEW t \in Tasks, NEW r \in TaskRecord
    PROVE  /\ Replayed(store, t, r) \in Store
           /\ \A u \in Tasks : Replayed(store, t, r)[u].vc
                  \in {store[u].vc, r.vc, MergeClocks(store[u].vc, r.vc)}
<1>1. store[t] # NoRecord => store[t] \in TaskRecord
  BY Zenon DEF Store
<1>2. CASE Replayed(store, t, r) = store
  BY <1>2, Zenon
<1>3. CASE Replayed(store, t, r) = [store EXCEPT ![t] = r]
  BY <1>3, Zenon DEF Store
<1>4. CASE /\ store[t] # NoRecord
           /\ Replayed(store, t, r) = [store EXCEPT ![t] = MergeRecords(@, r)]
  BY <1>1, <1>4, MergeType, Zenon DEF Store
<1> QED
  BY <1>2, <1>3, <1>4, Zenon DEF Replayed

(* A joined record is a record. *)
LEMMA JoinedType ==
    ASSUME NEW s \in TaskRecord \cup {NoRecord}, NEW r \in TaskRecord
    PROVE  Joined(s, r) \in TaskRecord /\ Joined(s, r) # NoRecord
<1>1. Joined(s, r) \in TaskRecord
  BY MergeType, Zenon DEF Joined
<1> QED
  BY <1>1, NoRecordType, Zenon

(* A counter that is at most a counter that grew is at most what it became. *)
LEMMA AtMostTrans ==
    ASSUME NEW a \in Nat, NEW b \in Nat, NEW c \in Nat, a <= b, b <= c
    PROVE  a <= c
OBVIOUS

(* Node n stores r for t, and sends what it holds then. *)
Stored(n, t, r) ==
    /\ up[n] /\ up' = up
    /\ \A p \in Peers, u \in Tasks :
           tasks'[p][u] = IF p = n /\ u = t THEN r ELSE tasks[p][u]
    /\ net \subseteq net'
    /\ \A m \in net' : m \notin net => m.from = n /\ m.rec = tasks'[n][m.task]

(* Nothing but the entry for t in the log of n changes. *)
LogTouches(n, t) ==
    \A p \in Peers, u \in Tasks : p # n \/ u # t => log'[p].tasks[u] = log[p].tasks[u]

Logged(n, t, r) ==
    /\ LogTouches(n, t)
    /\ log'[n].tasks[t] = IF n \in WalNodes THEN Joined(log[n].tasks[t], r)
                                            ELSE log[n].tasks[t]

(* The store of a running peer and its log know the same tasks, so that a   *)
(* replay drops nothing for want of room.                                   *)
LogKnows ==
    \A n \in WalNodes, t \in Tasks :
        up[n] => (log[n].tasks[t] = NoRecord <=> tasks[n][t] = NoRecord)

(* The worker and the audit hold on to tasks that their store has. *)
Held ==
    \A n \in Peers :
        /\ worker[n].pc # "idle" =>
               up[n] /\ n \in Workers /\ tasks[n][worker[n].task] # NoRecord
        /\ \A t \in Tasks : snap[n][t] # NoRecord =>
               up[n] /\ n \notin Workers /\ tasks[n][t] # NoRecord

(* There is no record of a task before it was submitted. *)
Submitted ==
    \A t \in Tasks : submits[t] = 0 =>
        /\ \A n \in Peers : tasks[n][t] = NoRecord /\ log[n].tasks[t] = NoRecord
        /\ \A m \in net : m.task # t

(* What the gossip loop sends is in the store, under its task. *)
LEMMA GossipSends ==
    ASSUME NEW n, NEW store
    PROVE  \A m \in Gossip(n, store) : m.from = n /\ m.rec = store[m.task]
<1> SUFFICES ASSUME NEW m \in Gossip(n, store) PROVE m.from = n /\ m.rec = store[m.task]
  BY Zenon
<1>1. PICK u \in Known(store) : m = GossipMessage(n, u, store[u])
  BY ZenonT(60) DEF Gossip
<1> QED
  BY <1>1, Zenon DEF GossipMessage

(* SetTask stores. *)
LEMMA SetTaskStores ==
    ASSUME TypeOK, NEW n \in Peers, NEW t \in Tasks, NEW r,
           up[n], up' = up, SetTask(n, t, r)
    PROVE  Stored(n, t, r)
<1>1. /\ tasks' = [tasks EXCEPT ![n] = [tasks[n] EXCEPT ![t] = r]]
      /\ net' = net \cup Gossip(n, [tasks[n] EXCEPT ![t] = r])
  BY Zenon DEF SetTask
<1>2. /\ tasks'[n] = [tasks[n] EXCEPT ![t] = r]
      /\ \A p \in Peers, u \in Tasks :
             tasks'[p][u] = IF p = n /\ u = t THEN r ELSE tasks[p][u]
  BY <1>1, Zenon DEF TypeOK, Store
<1>3. net' = net \cup Gossip(n, tasks'[n])
  BY <1>1, <1>2, Zenon
<1>4. \A m \in Gossip(n, tasks'[n]) : m.from = n /\ m.rec = tasks'[n][m.task]
  BY GossipSends
<1>5. net \subseteq net' /\ \A m \in net' : m \notin net => m.from = n /\ m.rec = tasks'[n][m.task]
  BY <1>3, <1>4, Zenon
<1> QED
  BY <1>2, <1>5, Zenon DEF Stored

(* So does a broadcast. *)
LEMMA BroadcastStores ==
    ASSUME TypeOK, NEW n \in Peers, NEW t \in Tasks, NEW r, NEW v,
           up[n], up' = up, BroadcastTaskUpdate(n, t, r, v)
    PROVE  Stored(n, t, r)
<1>1. /\ tasks' = [tasks EXCEPT ![n] = [tasks[n] EXCEPT ![t] = r]]
      /\ net' = net \cup Gossip(n, [tasks[n] EXCEPT ![t] = r]) \cup {GossipMessage(n, t, r)}
  BY Zenon DEF BroadcastTaskUpdate
<1>2. /\ tasks'[n] = [tasks[n] EXCEPT ![t] = r]
      /\ \A p \in Peers, u \in Tasks :
             tasks'[p][u] = IF p = n /\ u = t THEN r ELSE tasks[p][u]
  BY <1>1, Zenon DEF TypeOK, Store
<1>3. net' = net \cup Gossip(n, tasks'[n]) \cup {GossipMessage(n, t, r)}
  BY <1>1, <1>2, Zenon
<1>4. \A m \in Gossip(n, tasks'[n]) : m.from = n /\ m.rec = tasks'[n][m.task]
  BY GossipSends
<1>5. LET m == GossipMessage(n, t, r) IN m.from = n /\ m.rec = tasks'[n][m.task]
  BY <1>2, Zenon DEF GossipMessage
<1>6. net \subseteq net' /\ \A m \in net' : m \notin net => m.from = n /\ m.rec = tasks'[n][m.task]
  BY <1>3, <1>4, <1>5, Zenon
<1> QED
  BY <1>2, <1>6, Zenon DEF Stored

(* An append touches one entry, whether the clock follows or not. *)
LEMMA AppendTouches ==
    ASSUME TypeOK, NEW n \in Peers, NEW t \in Tasks, NEW r, NEW v,
           LogAppend(n, t, r, v) \/ LogTask(n, t, r)
    PROVE  LogTouches(n, t)
<1>1. log[n].tasks \in Store /\ DOMAIN log = Peers
  BY Zenon DEF TypeOK
<1>2. \A u \in Tasks : u # t => Replayed(log[n].tasks, t, r)[u] = log[n].tasks[u]
  BY <1>1, Zenon DEF Replayed, Store
<1>3. \A p \in Peers : p # n => log'[p] = log[p]
  BY <1>1, Zenon DEF LogAppend, LogTask
<1>4. log'[n].tasks = log[n].tasks \/ log'[n].tasks = Replayed(log[n].tasks, t, r)
  <2>1. CASE LogAppend(n, t, r, v)
    BY <1>1, <2>1, Zenon DEF LogAppend
  <2>2. CASE LogTask(n, t, r)
    BY <1>1, <2>2, Zenon DEF LogTask, TypeOK
  <2> QED
    BY <2>1, <2>2, Zenon
<1> QED
  BY <1>2, <1>3, <1>4, Zenon DEF LogTouches

(* An append of an authorised record that the store has room for joins. *)
LEMMA AppendLogs ==
    ASSUME TypeOK, LogKnows, NEW n \in Peers, NEW t \in Tasks, NEW r, NEW v,
           Authentic(r), r # NoRecord, up[n],
           LogAppend(n, t, r, v) \/ (n \in WalNodes /\ LogTask(n, t, r)),
           tasks[n][t] = NoRecord => Cardinality(Known(tasks[n])) < MaxTasks
    PROVE  Logged(n, t, r)
<1>1. log[n].tasks \in Store /\ DOMAIN log = Peers
  BY Zenon DEF TypeOK
<1>2. LogTouches(n, t)
  BY AppendTouches, Zenon
<1>3. CASE n \in WalNodes
  <2>1. Known(log[n].tasks) = Known(tasks[n])
    BY <1>3, Zenon DEF LogKnows, Known
  <2>2. log[n].tasks[t] = NoRecord => Cardinality(Known(log[n].tasks)) < MaxTasks
    BY <1>3, <2>1, Zenon DEF LogKnows
  <2>3. Replayed(log[n].tasks, t, r)[t] = Joined(log[n].tasks[t], r)
    BY <1>1, <2>2, Zenon DEF Replayed, Joined, Mergeable, Store, Authentic
  <2>4. log'[n].tasks = Replayed(log[n].tasks, t, r)
    <3>1. CASE LogAppend(n, t, r, v)
      BY <1>1, <1>3, <3>1, Zenon DEF LogAppend
    <3>2. CASE LogTask(n, t, r)
      BY <1>1, <3>2, Zenon DEF LogTask, TypeOK
    <3> QED
      BY <3>1, <3>2, Zenon
  <2> QED
    BY <1>2, <1>3, <2>3, <2>4, Zenon DEF Logged
<1>4. CASE n \notin WalNodes
  BY <1>2, <1>4, Zenon DEF Logged, LogAppend
<1> QED
  BY <1>3, <1>4, Zenon

-----------------------------------------------------------------------------
(* The actions that write a record *)

(* What every one of them does: r, a record, is stored for t by n; if it is *)
(* appended to the log, the log of n changes for t only, and joins r unless *)
(* a replay would drop it.                                                  *)
Writes(n, t, r) ==
    /\ t \in Tasks /\ r \in TaskRecord /\ r # NoRecord
    /\ Stored(n, t, r)

Appends(n, t, r) ==
    /\ LogTouches(n, t)
    /\ Authentic(r) /\ LogKnows => Logged(n, t, r)

(* Nothing but the entry for t in the store of n changes. *)
OthersKept(n, t) ==
    \A p \in Peers, u \in Tasks : p # n \/ u # t => tasks'[p][u] = tasks[p][u]

(* A write puts r in one place and leaves the others alone. *)
LEMMA WritesOne ==
    ASSUME NEW n \in Peers, NEW t, NEW r, Writes(n, t, r)
    PROVE  /\ tasks'[n][t] = r
           /\ OthersKept(n, t)
<1>1. /\ t \in Tasks
      /\ \A p \in Peers, u \in Tasks : tasks'[p][u] = IF p = n /\ u = t THEN r ELSE tasks[p][u]
  BY Zenon DEF Writes, Stored
<1>2. tasks'[n][t] = r
  BY <1>1, Zenon
<1>3. ASSUME NEW p \in Peers, NEW u \in Tasks, p # n \/ u # t
      PROVE  tasks'[p][u] = tasks[p][u]
  <2>1. tasks'[p][u] = IF p = n /\ u = t THEN r ELSE tasks[p][u]
    BY <1>1, Zenon
  <2> QED
    BY <1>3, <2>1, Zenon
<1> QED
  BY <1>2, <1>3, Zenon DEF OthersKept

(* What is written is authorised if the signatures hold afterwards. *)
LEMMA WritesAuthentic ==
    ASSUME NEW n \in Peers, NEW t, NEW r, Writes(n, t, r), SignaturesHold'
    PROVE  Authentic(r)
<1>1. t \in Tasks /\ tasks'[n][t] = r
  BY WritesOne, Zenon DEF Writes
<1>2. Authentic(tasks[n][t])'
  BY <1>1, Zenon DEF SignaturesHold
<1>3. Authentic(tasks'[n][t])
  BY <1>2 DEF Authentic
<1> QED
  BY <1>1, <1>3, Zenon

(* A sealed record is not NoRecord. *)
LEMMA SealedIsRecord ==
    ASSUME NEW n, NEW state \in TaskState, NEW c, NEW k, NEW l, NEW v
    PROVE  SealRecord(n, NewRecord(n, state, c, k, l, v)).state = state
BY Zenon DEF SealRecord, SignTask, NewRecord

(* What a store holds after a step is a record, unless it is NoRecord. *)
LEMMA StoredIsRecord ==
    ASSUME TypeOK', NEW n \in Peers, NEW t \in Tasks, NEW r, Stored(n, t, r),
           r.state \in TaskState
    PROVE  Writes(n, t, r)
<1>1. tasks'[n][t] = r
  BY Zenon DEF Stored
<1>2. tasks'[n][t] \in TaskRecord \cup {NoRecord}
  BY DEF TypeOK, Store
<1>3. NoRecord.state \notin TaskState
  BY Zenon DEF NoRecord, TaskState
<1> QED
  BY <1>1, <1>2, <1>3, Zenon DEF Writes

(* submit_task stores and logs a new record. *)
LEMMA SubmitWrites ==
    ASSUME TypeOK, TypeOK', NEW n \in Peers, NEW t \in Tasks, Submit(n, t)
    PROVE  Writes(n, t, NewTask(n)) /\ Appends(n, t, NewTask(n)) /\ UNCHANGED <<worker, snap>>
<1> DEFINE r == NewTask(n)
           v == Increment(vc[n], n)
<1>1. /\ up[n] /\ up' = up /\ SetTask(n, t, r) /\ LogAppend(n, t, r, v)
      /\ tasks[n][t] = NoRecord => Cardinality(Known(tasks[n])) < MaxTasks
      /\ UNCHANGED <<worker, snap>>
  BY Zenon DEF Submit, MaySubmit
<1>2. r.state \in TaskState
  BY SealedIsRecord DEF TaskState, NewTask
<1> HIDE DEF r, v
<1>3. Stored(n, t, r)
  BY <1>1, SetTaskStores, Zenon
<1>4. LogTouches(n, t)
  BY <1>1, AppendTouches, Zenon
<1>5. Writes(n, t, r)
  BY <1>2, <1>3, StoredIsRecord, Zenon
<1>6. Authentic(r) /\ LogKnows => Logged(n, t, r)
  BY <1>1, <1>5, AppendLogs, Zenon DEF Writes
<1> QED
  BY <1>1, <1>4, <1>5, <1>6, Zenon DEF Appends, r

(* A record that is received is joined with what the store has. *)
LEMMA ReceiveWrites ==
    ASSUME TypeOK, TypeOK', NEW n \in Peers, NEW m \in net, Receive(n, m)
    PROVE  LET r == Joined(tasks[n][m.task], m.rec)
           IN  /\ m.rec \in TaskRecord /\ UNCHANGED <<worker, snap>>
               /\ Writes(n, m.task, r) /\ Appends(n, m.task, r)
<1> DEFINE t == m.task
           r == Joined(tasks[n][t], m.rec)
           v == MergeClocks(vc[n], m.rec.vc)
<1>1. t \in Tasks /\ m.rec \in TaskRecord
  BY Zenon DEF TypeOK, Message
<1>2. /\ up[n] /\ up' = up /\ SetTask(n, t, r) /\ LogAppend(n, t, r, v)
      /\ tasks[n][t] = NoRecord => Cardinality(Known(tasks[n])) < MaxTasks
      /\ UNCHANGED <<worker, snap>>
  BY Zenon DEF Receive, Accepts
<1>3. r \in TaskRecord
  <2>1. tasks[n][t] = NoRecord \/ tasks[n][t] \in TaskRecord
    BY <1>1, EntryTypes, Zenon
  <2> QED
    BY <1>1, <2>1, MergeType, Zenon DEF Joined
<1>4. r # NoRecord
  BY <1>3, NoRecordType, Zenon
<1> HIDE DEF r, v, t
<1>5. Stored(n, t, r)
  BY <1>1, <1>2, SetTaskStores, Zenon
<1>6. LogTouches(n, t)
  BY <1>1, <1>2, AppendTouches, Zenon
<1>7. Authentic(r) /\ LogKnows => Logged(n, t, r)
  BY <1>1, <1>2, <1>4, AppendLogs, Zenon
<1> QED
  BY <1>1, <1>2, <1>3, <1>4, <1>5, <1>6, <1>7, Zenon DEF Appends, Writes, r, t

(* A broadcast of a record for a task that the store has writes and logs. *)
LEMMA BroadcastWrites ==
    ASSUME TypeOK, TypeOK', NEW n \in Peers, NEW t \in Tasks, NEW r, NEW v,
           up[n], up' = up, BroadcastTaskUpdate(n, t, r, v),
           tasks[n][t] # NoRecord, r.state \in TaskState
    PROVE  Writes(n, t, r) /\ Appends(n, t, r)
<1>1. Stored(n, t, r)
  BY BroadcastStores, Zenon
<1>2. LogAppend(n, t, r, v)
  BY Zenon DEF BroadcastTaskUpdate
<1>3. LogTouches(n, t)
  BY <1>2, AppendTouches, Zenon
<1>4. Writes(n, t, r)
  BY <1>1, StoredIsRecord, Zenon
<1>5. Authentic(r) /\ LogKnows => Logged(n, t, r)
  BY <1>2, <1>4, AppendLogs, Zenon DEF Writes
<1> QED
  BY <1>3, <1>4, <1>5, Zenon DEF Appends

(* A claim is made on top of a record that is not terminal. *)
LEMMA ClaimWrites ==
    ASSUME TypeOK, TypeOK', NEW n \in Peers, NEW S, NEW d, WorkerClaim(n, S, d)
    PROVE  LET t == Head(queue[n]).task
           IN  /\ n \in Workers /\ tasks[n][t] \in TaskRecord /\ ~ IsTerminal(tasks[n][t].state)
               /\ Writes(n, t, Claim(n, t, d)) /\ Appends(n, t, Claim(n, t, d))
               /\ worker' = [worker EXCEPT ![n] =
                                [pc |-> "claimed", task |-> t, token |-> NextFor(tasks[n][t].token, n),
                                 lease |-> LocalNow(n) + d]]
               /\ snap' = snap
<1> DEFINE t == Head(queue[n]).task
           r == Claim(n, t, d)
           v == Increment(vc[n], n)
<1>1. CanDequeue(n) /\ Dequeue(n)
  BY Zenon DEF WorkerClaim, MayClaim
<1>2. t \in Tasks /\ up[n] /\ n \in Workers
  <2>1. queue[n] \in Seq(Entry) /\ queue[n] # <<>>
    BY <1>1, Zenon DEF TypeOK, CanDequeue
  <2>2. Head(queue[n]) \in Entry
    BY <2>1
  <2> QED
    BY <1>1, <2>2, Zenon DEF CanDequeue, Entry
<1>3. /\ BroadcastTaskUpdate(n, t, r, v) /\ up' = up /\ snap' = snap
      /\ worker' = [worker EXCEPT ![n] =
                       [pc |-> "claimed", task |-> t, token |-> NextFor(tasks[n][t].token, n),
                        lease |-> LocalNow(n) + d]]
  BY Zenon DEF WorkerClaim
<1>4. tasks[n][t] # NoRecord /\ ~ IsTerminal(tasks[n][t].state)
  BY Zenon DEF WorkerClaim, MayClaim, Skips
<1>5. tasks[n][t] \in TaskRecord
  BY <1>2, <1>4, EntryTypes, Zenon
<1>6. r.state \in TaskState
  BY SealedIsRecord, Zenon DEF TaskState, Claim
<1> HIDE DEF t, r, v
<1>7. Writes(n, t, r) /\ Appends(n, t, r)
  BY <1>2, <1>3, <1>4, <1>6, BroadcastWrites, Zenon
<1> QED
  BY <1>2, <1>3, <1>4, <1>5, <1>7, Zenon DEF t, r

(* RUNNING is stored, whatever the store has by then, and not logged. *)
LEMMA RunWrites ==
    ASSUME TypeOK, TypeOK', NEW n \in Peers, WorkerRun(n)
    PROVE  /\ worker[n].pc = "claimed" /\ Writes(n, worker[n].task, Running(n))
           /\ worker' = [worker EXCEPT ![n].pc = "running"]
           /\ UNCHANGED <<log, snap, submits>>
<1>1. /\ up[n] /\ up' = up /\ worker[n].pc = "claimed" /\ SetTask(n, worker[n].task, Running(n))
      /\ worker' = [worker EXCEPT ![n].pc = "running"]
      /\ UNCHANGED <<log, snap, submits>>
  BY Zenon DEF WorkerRun
<1>2. worker[n].task \in Tasks
  BY <1>1, Zenon DEF TypeOK
<1>3. Running(n).state \in TaskState
  BY SealedIsRecord DEF TaskState, Running
<1>4. Stored(n, worker[n].task, Running(n))
  BY <1>1, <1>2, SetTaskStores, Zenon
<1>5. Writes(n, worker[n].task, Running(n))
  BY <1>2, <1>3, <1>4, StoredIsRecord, Zenon
<1> QED
  BY <1>1, <1>5, Zenon

(* A result is stored and logged. *)
LEMMA CommitWrites ==
    ASSUME TypeOK, TypeOK', Held, NEW n \in Peers, NEW outcome \in Outcomes,
           WorkerCommit(n, outcome)
    PROVE  LET t == worker[n].task
               r == Result(n, outcome)
           IN  /\ worker[n].pc = "running" /\ Writes(n, t, r) /\ Appends(n, t, r)
               /\ worker' = [worker EXCEPT ![n] = Idle]
               /\ UNCHANGED <<snap, submits>>
<1> DEFINE t == worker[n].task
           r == Result(n, outcome)
           v == Increment(vc[n], n)
<1>1. /\ up[n] /\ up' = up /\ worker[n].pc = "running" /\ BroadcastTaskUpdate(n, t, r, v)
      /\ worker' = [worker EXCEPT ![n] = Idle]
      /\ UNCHANGED <<snap, submits>>
  BY Zenon DEF WorkerCommit, MayCommit
<1>2. t \in Tasks /\ tasks[n][t] # NoRecord
  BY <1>1, Zenon DEF TypeOK, Held
<1>3. r.state \in TaskState
  BY SealedIsRecord, OutcomesAssumption DEF TaskState, Result
<1> HIDE DEF t, r, v
<1>4. Writes(n, t, r) /\ Appends(n, t, r)
  BY <1>1, <1>2, <1>3, BroadcastWrites, Zenon
<1> QED
  BY <1>1, <1>4, Zenon DEF t, r

(* Every task of the round is in the store; what a new snapshot has is the   *)
(* record of the store, which is not terminal.                               *)
LEMMA TodoIsHeld ==
    ASSUME TypeOK, Held, NEW n \in Peers, NEW S, NEW u \in Tasks, Todo(n, S)[u] # NoRecord
    PROVE  /\ tasks[n][u] # NoRecord /\ Todo(n, S)[u] \in TaskRecord
           /\ \/ snap[n][u] # NoRecord /\ Todo(n, S)[u] = snap[n][u]
              \/ Todo(n, S)[u] = tasks[n][u] /\ ~ IsTerminal(tasks[n][u].state)
<1>1. tasks[n][u] \in TaskRecord \cup {NoRecord} /\ snap[n][u] \in TaskRecord \cup {NoRecord}
  BY EntryTypes, Zenon
<1>2. CASE snap[n] = NoSnap
  <2>1. Todo(n, S)[u] = IF Reclaimable(n, u, tasks[n][u], S) THEN tasks[n][u] ELSE NoRecord
    BY <1>2, Zenon DEF Todo
  <2>2. Reclaimable(n, u, tasks[n][u], S)
    BY <2>1, Zenon
  <2>3. ~ IsTerminal(tasks[n][u].state)
    BY <2>2, Zenon DEF Reclaimable, IsTerminal
  <2> QED
    BY <1>1, <2>1, <2>2, <2>3, Zenon
<1>3. CASE snap[n] # NoSnap
  <2>1. Todo(n, S)[u] = snap[n][u]
    BY <1>3, Zenon DEF Todo
  <2> QED
    BY <1>1, <2>1, Zenon DEF Held
<1> QED
  BY <1>2, <1>3, Zenon

(* A release is stored and logged, and its task leaves the snapshot. *)
LEMMA ReleaseWrites ==
    ASSUME TypeOK, TypeOK', Held, NEW n \in Peers, NEW t \in Tasks, NEW S,
           ReclaimRelease(n, t, S)
    PROVE  LET r == Released(n, t, S)
           IN  /\ n \notin Workers /\ Todo(n, S)[t] # NoRecord
               /\ Writes(n, t, r) /\ Appends(n, t, r)
               /\ snap' = [snap EXCEPT ![n] = [Todo(n, S) EXCEPT ![t] = NoRecord]]
               /\ UNCHANGED <<worker, submits>>
<1> DEFINE r == Released(n, t, S)
           v == Increment(vc[n], n)
<1>1. /\ up[n] /\ up' = up /\ n \notin Workers /\ Todo(n, S)[t] # NoRecord
      /\ BroadcastTaskUpdate(n, t, r, v)
      /\ snap' = [snap EXCEPT ![n] = [Todo(n, S) EXCEPT ![t] = NoRecord]]
      /\ UNCHANGED <<worker, submits>>
  BY Zenon DEF ReclaimRelease, MayRelease
<1>2. tasks[n][t] # NoRecord
  BY <1>1, TodoIsHeld, Zenon
<1>3. r.state \in TaskState
  BY SealedIsRecord, Zenon DEF TaskState, Released
<1> HIDE DEF r, v
<1>4. Writes(n, t, r) /\ Appends(n, t, r)
  BY <1>1, <1>2, <1>3, BroadcastWrites, Zenon
<1> QED
  BY <1>1, <1>4, Zenon DEF r

-----------------------------------------------------------------------------
(* The records that are written *)

(* The clock of the next event of n is a clock. *)
LEMMA EventType ==
    ASSUME TypeOK, NEW n \in Peers
    PROVE  Increment(vc[n], n) \in VectorClock
BY ClockTypes, ZenonT(60) DEF TypeOK

(* submit_task makes a record, *)
LEMMA NewTaskType ==
    ASSUME TypeOK, NEW n \in Peers
    PROVE  NewTask(n) \in TaskRecord /\ NewTask(n).vc = Increment(vc[n], n)
<1>1. "PENDING" \in TaskState /\ NoToken \in FenceToken /\ 0 \in Nat
  BY DEF TaskState, FenceToken, NoToken
<1>2. 0 \in Peers \cup {0}
  BY Zenon
<1>3. Increment(vc[n], n) \in VectorClock
  BY EventType, Zenon
<1> QED
  BY <1>1, <1>2, <1>3, SealedType, Zenon DEF NewTask

(* a claim is one, *)
LEMMA ClaimType ==
    ASSUME TypeOK, NEW n \in Peers, NEW t \in Tasks, NEW d \in LeaseDurations
    PROVE  /\ NextFor(tasks[n][t].token, n) \in FenceToken /\ LocalNow(n) + d \in Nat
           /\ Claim(n, t, d) \in TaskRecord /\ Claim(n, t, d).vc = Increment(vc[n], n)
<1>1. tasks[n] \in Store
  BY Zenon DEF TypeOK
<1>2. NextFor(tasks[n][t].token, n) \in FenceToken
  BY <1>1, StoreParts, TokenTypes, Zenon
<1>3. LocalNow(n) + d \in Nat
  BY LeaseAssumption, OffsetAssumption DEF LocalNow, TypeOK
<1>4. "CLAIMED" \in TaskState /\ n \in Peers \cup {0}
  BY Zenon DEF TaskState
<1>5. Increment(vc[n], n) \in VectorClock
  BY EventType, Zenon
<1>6. Claim(n, t, d) \in TaskRecord /\ Claim(n, t, d).vc = Increment(vc[n], n)
  BY <1>2, <1>3, <1>4, <1>5, SealedType, Zenon DEF Claim
<1> QED
  BY <1>2, <1>3, <1>6, Zenon

(* a result is one, *)
LEMMA ResultType ==
    ASSUME TypeOK, NEW n \in Peers, NEW outcome \in Outcomes
    PROVE  Result(n, outcome) \in TaskRecord /\ Result(n, outcome).vc = Increment(vc[n], n)
<1>1. worker[n].token \in FenceToken
  BY Zenon DEF TypeOK, WorkerState
<1>2. outcome \in TaskState /\ 0 \in Nat
  BY OutcomesAssumption DEF TaskState
<1> QED
  BY <1>1, <1>2, EventType, SealedType, Zenon DEF Result

(* and so is a release. *)
LEMMA ReleasedType ==
    ASSUME TypeOK, NEW n \in Peers, NEW t \in Tasks, NEW S
    PROVE  /\ Todo(n, S) \in Store
           /\ Released(n, t, S) \in TaskRecord /\ Released(n, t, S).vc = Increment(vc[n], n)
<1>1. Todo(n, S) \in Store
  BY DEF Todo, TypeOK, Store
<1>2. NextFor(Todo(n, S)[t].token, n) \in FenceToken
  <2>1. Todo(n, S)[t].token \in FenceToken
    BY <1>1, StoreParts, Zenon
  <2> QED
    BY <2>1, TokenTypes, Zenon
<1>3. "PENDING" \in TaskState /\ 0 \in Nat
  BY DEF TaskState
<1>4. 0 \in Peers \cup {0}
  BY Zenon
<1>5. Increment(vc[n], n) \in VectorClock
  BY EventType, Zenon
<1>6. Released(n, t, S) \in TaskRecord /\ Released(n, t, S).vc = Increment(vc[n], n)
  BY <1>2, <1>3, <1>4, <1>5, SealedType, Zenon DEF Released
<1> QED
  BY <1>1, <1>6, Zenon

-----------------------------------------------------------------------------
(* The other actions *)

(* Records stay as they are; a worker or an audit may let go of its tasks. *)
Rests ==
    /\ UNCHANGED <<up, tasks, log, net, submits>>
    /\ \A p \in Peers : /\ worker'[p] = worker[p] \/ worker'[p].pc = "idle"
                        /\ \A u \in Tasks : snap'[p][u] \in {snap[p][u], NoRecord}

(* These actions write no record. *)
LEMMA OthersRest ==
    ASSUME TypeOK,
           \/ UNCHANGED vars \/ Tick
           \/ \E n \in Peers : \/ \E S : WorkerSkip(n, S)
                               \/ WorkerReject(n)
                               \/ \E t \in Tasks : \E S : ReclaimEnqueue(n, t, S)
                               \/ ReclaimEnd(n)
    PROVE  Rests
<1>1. CASE UNCHANGED vars
  BY <1>1, Zenon DEF vars, Rests
<1>2. CASE Tick
  BY <1>2, Zenon DEF Tick, Rests
<1>3. ASSUME NEW n \in Peers, NEW S, WorkerSkip(n, S) PROVE Rests
  BY <1>3, Zenon DEF WorkerSkip, Rests
<1>4. ASSUME NEW n \in Peers, WorkerReject(n) PROVE Rests
  <2>1. \A p \in Peers : worker'[p] = worker[p] \/ worker'[p].pc = "idle"
    BY <1>4, Zenon DEF WorkerReject, TypeOK, Idle
  <2> QED
    BY <1>4, <2>1, Zenon DEF WorkerReject, Rests
<1>5. ASSUME NEW n \in Peers, NEW t \in Tasks, NEW S, ReclaimEnqueue(n, t, S) PROVE Rests
  BY <1>5, Zenon DEF ReclaimEnqueue, Rests
<1>6. ASSUME NEW n \in Peers, ReclaimEnd(n) PROVE Rests
  <2>1. \A p \in Peers, u \in Tasks : snap'[p][u] \in {snap[p][u], NoRecord}
    BY <1>6, Zenon DEF ReclaimEnd, TypeOK, NoSnap, EmptyStore
  <2> QED
    BY <1>6, <2>1, Zenon DEF ReclaimEnd, Rests
<1> QED
  BY <1>1, <1>2, <1>3, <1>4, <1>5, <1>6, Zenon

(* Node n has lost what it had in memory, and nothing was sent. *)
Forgets(n) ==
    /\ \A p \in Peers : up'[p] <=> p # n /\ up[p]
    /\ \A p \in Peers, u \in Tasks :
           tasks'[p][u] = IF p = n THEN NoRecord ELSE tasks[p][u]
    /\ \A p \in Peers : worker'[p] = IF p = n THEN Idle ELSE worker[p]
    /\ \A p \in Peers, u \in Tasks :
           snap'[p][u] = IF p = n THEN NoRecord ELSE snap[p][u]
    /\ net' = net

(* That is what the end of a process does. *)
LEMMA HaltForgets ==
    ASSUME TypeOK, NEW n \in Peers, Halts(n), net' = net
    PROVE  Forgets(n)
<1>1. \A p \in Peers : up'[p] <=> p # n /\ up[p]
  BY Zenon DEF Halts, TypeOK
<1>2. \A p \in Peers, u \in Tasks : tasks'[p][u] = IF p = n THEN NoRecord ELSE tasks[p][u]
  BY Zenon DEF Halts, TypeOK, EmptyStore
<1>3. \A p \in Peers : worker'[p] = IF p = n THEN Idle ELSE worker[p]
  BY Zenon DEF Halts, TypeOK
<1>4. \A p \in Peers, u \in Tasks : snap'[p][u] = IF p = n THEN NoRecord ELSE snap[p][u]
  BY Zenon DEF Halts, TypeOK, NoSnap, EmptyStore
<1> QED
  BY <1>1, <1>2, <1>3, <1>4, Zenon DEF Forgets

(* The operation that was about to append r for t when the process ended *)
Interrupted(n, t, r) ==
    \/ /\ MaySubmit(n, t) /\ r = NewTask(n)
       /\ submits' = [submits EXCEPT ![t] = @ + 1]
    \/ /\ \E m \in net : Accepts(n, m) /\ t = m.task /\ r = Joined(tasks[n][t], m.rec)
       /\ submits' = submits
    \/ /\ \E S : \E d \in LeaseDurations : MayClaim(n, t, S) /\ r = Claim(n, t, d)
       /\ submits' = submits
    \/ /\ \E outcome \in Outcomes :
              MayCommit(n) /\ t = worker[n].task /\ r = Result(n, outcome)
       /\ submits' = submits
    \/ /\ \E S : MayRelease(n, t, S) /\ r = Released(n, t, S)
       /\ submits' = submits

(* r is what n joins from a message. *)
FromMessage(n, t, r) == \E m \in net : m.task = t /\ r = Joined(tasks[n][t], m.rec)

(* It had a record to append, which carries the next event of n, or is what *)
(* n joined from a message.                                                 *)
LEMMA InterruptedRecord ==
    ASSUME TypeOK, NEW n \in Peers, NEW t \in Tasks, NEW r, Interrupted(n, t, r)
    PROVE  /\ r \in TaskRecord /\ submits' \in [Tasks -> Nat]
           /\ r.vc = Increment(vc[n], n) \/ FromMessage(n, t, r)
<1> DEFINE Goal == r \in TaskRecord /\ (r.vc = Increment(vc[n], n) \/ FromMessage(n, t, r))
<1>1. ASSUME r = NewTask(n) PROVE Goal
  BY <1>1, NewTaskType, Zenon
<1>2. ASSUME NEW m \in net, t = m.task, r = Joined(tasks[n][t], m.rec) PROVE Goal
  <2>1. m.rec \in TaskRecord
    BY Zenon DEF TypeOK, Message
  <2>2. tasks[n][t] \in TaskRecord \cup {NoRecord}
    BY EntryTypes, Zenon
  <2>3. r \in TaskRecord
    BY <1>2, <2>1, <2>2, JoinedType, Zenon
  <2>4. FromMessage(n, t, r)
    BY <1>2, Zenon DEF FromMessage
  <2> QED
    BY <2>3, <2>4, Zenon
<1>3. ASSUME NEW d \in LeaseDurations, r = Claim(n, t, d) PROVE Goal
  BY <1>3, ClaimType, Zenon
<1>4. ASSUME NEW outcome \in Outcomes, r = Result(n, outcome) PROVE Goal
  BY <1>4, ResultType, Zenon
<1>5. ASSUME NEW S, r = Released(n, t, S) PROVE Goal
  BY <1>5, ReleasedType, Zenon
<1>6. submits' \in [Tasks -> Nat]
  <2>1. submits \in [Tasks -> Nat]
    BY Zenon DEF TypeOK
  <2>2. submits' = submits \/ submits' = [submits EXCEPT ![t] = submits[t] + 1]
    BY Zenon DEF Interrupted
  <2> QED
    BY <2>1, <2>2
<1>7. Goal
  <2> HIDE DEF Goal
  <2> QED
    BY <1>1, <1>2, <1>3, <1>4, <1>5, Zenon DEF Interrupted
<1> QED
  BY <1>6, <1>7, Zenon

(* A crash inside an append interrupts one of the operations that append. *)
LEMMA AppendInterrupted ==
    ASSUME TypeOK, NEW n \in Peers, CrashInAppend(n)
    PROVE  \E t \in Tasks : \E r : CutShort(n, t, r) /\ Interrupted(n, t, r)
<1> DEFINE Goal == \E t \in Tasks : \E r : CutShort(n, t, r) /\ Interrupted(n, t, r)
<1>1. ASSUME NEW t \in Tasks, MaySubmit(n, t), CutShort(n, t, NewTask(n)),
             submits' = [submits EXCEPT ![t] = @ + 1]
      PROVE  Goal
  BY <1>1, Zenon DEF Interrupted
<1>2. ASSUME NEW m \in net, Accepts(n, m), CutShort(n, m.task, Joined(tasks[n][m.task], m.rec)),
             submits' = submits
      PROVE  Goal
  <2>1. m.task \in Tasks
    BY Zenon DEF TypeOK, Message
  <2> QED
    BY <1>2, <2>1, Zenon DEF Interrupted
<1>3. ASSUME NEW t \in Tasks, NEW S, NEW d \in LeaseDurations, MayClaim(n, t, S),
             CutShort(n, t, Claim(n, t, d)), submits' = submits
      PROVE  Goal
  BY <1>3, Zenon DEF Interrupted
<1>4. ASSUME NEW outcome \in Outcomes, MayCommit(n),
             CutShort(n, worker[n].task, Result(n, outcome)), submits' = submits
      PROVE  Goal
  <2>1. worker[n].task \in Tasks
    BY <1>4, Zenon DEF TypeOK, MayCommit
  <2> QED
    BY <1>4, <2>1, Zenon DEF Interrupted
<1>5. ASSUME NEW t \in Tasks, NEW S, MayRelease(n, t, S), CutShort(n, t, Released(n, t, S)),
             submits' = submits
      PROVE  Goal
  BY <1>5, Zenon DEF Interrupted
<1> HIDE DEF Goal
<1>6. Goal
  BY <1>1, <1>2, <1>3, <1>4, <1>5, Zenon DEF CrashInAppend
<1> QED
  BY <1>6, Zenon DEF Goal

(* The task of it has been submitted, and the store has it or has room. *)
LEMMA InterruptedTask ==
    ASSUME TypeOK, Held, Submitted, NEW n \in Peers, NEW t \in Tasks, NEW r,
           Interrupted(n, t, r)
    PROVE  /\ submits'[t] # 0 /\ \A u \in Tasks : submits'[u] = 0 => submits[u] = 0
           /\ tasks[n][t] = NoRecord => Cardinality(Known(tasks[n])) < MaxTasks
<1> DEFINE Room == tasks[n][t] = NoRecord => Cardinality(Known(tasks[n])) < MaxTasks
<1>1. CASE MaySubmit(n, t) /\ submits' = [submits EXCEPT ![t] = @ + 1]
  <2>1. submits \in [Tasks -> Nat] /\ submits' = [submits EXCEPT ![t] = submits[t] + 1]
    BY <1>1, Zenon DEF TypeOK
  <2>2. submits'[t] # 0 /\ \A u \in Tasks : submits'[u] = 0 => submits[u] = 0
    BY <2>1
  <2> QED
    BY <1>1, <2>2, Zenon DEF MaySubmit
<1>2. ASSUME submits' = submits, NEW m \in net, Accepts(n, m), t = m.task
      PROVE  Room /\ submits[t] # 0
  BY <1>2, Zenon DEF Accepts, Submitted
<1>3. ASSUME tasks[n][t] # NoRecord PROVE Room /\ submits[t] # 0
  BY <1>3, Zenon DEF Submitted
<1>4. ASSUME NEW S, MayClaim(n, t, S) PROVE tasks[n][t] # NoRecord
  BY <1>4, Zenon DEF MayClaim, Skips
<1>5. ASSUME MayCommit(n), t = worker[n].task PROVE tasks[n][t] # NoRecord
  BY <1>5, Zenon DEF MayCommit, Held
<1>6. ASSUME NEW S, MayRelease(n, t, S) PROVE tasks[n][t] # NoRecord
  BY <1>6, TodoIsHeld, Zenon DEF MayRelease
<1>7. CASE submits' = submits /\ Room /\ submits[t] # 0
  BY <1>7, Zenon
<1> HIDE DEF Room
<1> QED
  BY <1>1, <1>2, <1>3, <1>4, <1>5, <1>6, <1>7, Zenon DEF Interrupted

(* Memory is lost; the log gets r if it is authorised, and stays as it was  *)
(* otherwise.                                                               *)
LEMMA CutShortLogs ==
    ASSUME TypeOK, NEW n \in Peers, NEW t \in Tasks, NEW r, CutShort(n, t, r)
    PROVE  /\ n \in WalNodes /\ up[n] /\ Forgets(n) /\ LogTouches(n, t)
           /\ log'[n].tasks = Replayed(log[n].tasks, t, r)
           /\ \A p \in Peers : log'[p].vc = log[p].vc
           /\ ~ Authentic(r) => log'[n].tasks[t] = log[n].tasks[t]
           /\ /\ LogKnows /\ Authentic(r) /\ r # NoRecord
              /\ tasks[n][t] = NoRecord => Cardinality(Known(tasks[n])) < MaxTasks
              => Logged(n, t, r)
<1>1. /\ n \in WalNodes /\ up[n] /\ Halts(n) /\ net' = net
      /\ log' = [log EXCEPT ![n].tasks = Replayed(log[n].tasks, t, r)]
      /\ LogTask(n, t, r)
  BY Zenon DEF CutShort, Halts, MayHalt, LogTask
<1>2. Forgets(n)
  BY <1>1, HaltForgets, Zenon
<1>3. LogTouches(n, t)
  BY <1>1, AppendTouches, Zenon
<1>4. log'[n].tasks = Replayed(log[n].tasks, t, r) /\ \A p \in Peers : log'[p].vc = log[p].vc
  <2>1. DOMAIN log = Peers /\ log[n] \in [tasks : Store, vc : VectorClock]
    BY Zenon DEF TypeOK
  <2> QED
    BY <1>1, <2>1, Zenon
<1>5. ~ Authentic(r) => log'[n].tasks[t] = log[n].tasks[t]
  BY <1>4, Zenon DEF Authentic, Replayed
<1>6. /\ LogKnows /\ Authentic(r) /\ r # NoRecord
      /\ tasks[n][t] = NoRecord => Cardinality(Known(tasks[n])) < MaxTasks
      => Logged(n, t, r)
  BY <1>1, AppendLogs, Zenon
<1> QED
  BY <1>1, <1>2, <1>3, <1>4, <1>5, <1>6, Zenon

(* A restart takes the tasks of the log. *)
LEMMA RestartRecovers ==
    ASSUME TypeOK, NEW n \in Peers, Restart(n)
    PROVE  /\ n \in Restarting /\ ~ up[n]
           /\ \A p \in Peers : up'[p] <=> p = n \/ up[p]
           /\ \A p \in Peers, u \in Tasks :
                  tasks'[p][u] = IF p = n THEN log[n].tasks[u] ELSE tasks[p][u]
           /\ net \subseteq net'
           /\ \A m \in net' : m \notin net => m.from = n /\ m.rec = log[n].tasks[m.task]
           /\ UNCHANGED <<worker, snap, log, submits>>
<1>1. /\ n \in Restarting /\ ~ up[n]
      /\ up' = [up EXCEPT ![n] = TRUE]
      /\ tasks' = [tasks EXCEPT ![n] = log[n].tasks]
      /\ net' = net \cup Gossip(n, log[n].tasks)
      /\ UNCHANGED <<worker, snap, log, submits>>
  BY Zenon DEF Restart, Recovered
<1>2. \A m \in Gossip(n, log[n].tasks) : m.from = n /\ m.rec = log[n].tasks[m.task]
  BY GossipSends, SMTT(30)
<1>3. \A p \in Peers : up'[p] <=> p = n \/ up[p]
  BY <1>1, Zenon DEF TypeOK
<1>4. \A p \in Peers, u \in Tasks :
          tasks'[p][u] = IF p = n THEN log[n].tasks[u] ELSE tasks[p][u]
  BY <1>1, Zenon DEF TypeOK
<1> QED
  BY <1>1, <1>2, <1>3, <1>4, Zenon

-----------------------------------------------------------------------------
(* Held and Submitted, with and without security *)

MemoryInv == TypeOK /\ Held /\ Submitted

(* A write forgets no task. *)
LEMMA WriteKeepsTasks ==
    ASSUME NEW n \in Peers, NEW t, NEW r, Writes(n, t, r)
    PROVE  \A p \in Peers, u \in Tasks : tasks[p][u] # NoRecord => tasks'[p][u] # NoRecord
BY SMTT(30) DEF Writes, Stored

(* Held after a write: whoever holds a task held it before, or n holds t, or *)
(* has taken a task from its store.                                          *)
LEMMA WriteKeepsHeld ==
    ASSUME TypeOK, Held, NEW n \in Peers, NEW t, NEW r, Writes(n, t, r),
           \A p \in Peers : worker'[p].pc # "idle" =>
               \/ worker[p].pc # "idle" /\ worker'[p].task = worker[p].task
               \/ p = n /\ n \in Workers /\ worker'[p].task = t,
           \A p \in Peers, u \in Tasks : snap'[p][u] # NoRecord =>
               up[p] /\ p \notin Workers /\ tasks[p][u] # NoRecord
    PROVE  Held'
<1>1. \A p \in Peers, u \in Tasks : tasks[p][u] # NoRecord => tasks'[p][u] # NoRecord
  BY WriteKeepsTasks, Zenon
<1>2. t \in Tasks /\ tasks'[n][t] # NoRecord /\ up[n] /\ up' = up
  BY DEF Writes, Stored
<1>3. ASSUME NEW p \in Peers, worker'[p].pc # "idle"
      PROVE  up'[p] /\ p \in Workers /\ tasks'[p][worker'[p].task] # NoRecord
  <2>1. CASE worker[p].pc # "idle" /\ worker'[p].task = worker[p].task
    <3>1. worker[p].task \in Tasks /\ up[p] /\ p \in Workers /\ tasks[p][worker[p].task] # NoRecord
      BY <2>1, Zenon DEF TypeOK, Held
    <3> QED
      BY <1>1, <1>2, <2>1, <3>1, SMTT(30)
  <2>2. CASE p = n /\ n \in Workers /\ worker'[p].task = t
    BY <1>2, <2>2, Zenon
  <2> QED
    BY <1>3, <2>1, <2>2, Zenon
<1> QED
  BY <1>1, <1>2, <1>3, Zenon DEF Held

(* Submitted after a write for a task that is submitted *)
LEMMA WriteKeepsSubmitted ==
    ASSUME TypeOK', Submitted, NEW n \in Peers, NEW t, NEW r, Writes(n, t, r), LogTouches(n, t),
           submits'[t] # 0, \A u \in Tasks : submits'[u] = 0 => submits[u] = 0
    PROVE  Submitted'
<1> SUFFICES ASSUME NEW u \in Tasks, submits'[u] = 0
             PROVE  /\ \A p \in Peers : tasks'[p][u] = NoRecord /\ log'[p].tasks[u] = NoRecord
                    /\ \A m \in net' : m.task # u
  BY Zenon DEF Submitted
<1>1. /\ u # t
      /\ \A p \in Peers : tasks[p][u] = NoRecord /\ log[p].tasks[u] = NoRecord
      /\ \A m \in net : m.task # u
  BY Zenon DEF Submitted
<1>2. \A p \in Peers : tasks'[p][u] = NoRecord /\ log'[p].tasks[u] = NoRecord
  BY <1>1 DEF Writes, Stored, LogTouches
<1>3. ASSUME NEW m \in net', m \notin net PROVE m.task # u
  <2>1. m.rec = tasks'[n][m.task]
    BY <1>3, Zenon DEF Writes, Stored
  <2>2. m.rec # NoRecord
    <3>1. m.rec \in TaskRecord
      BY Zenon DEF TypeOK, Message
    <3> QED
      BY <3>1, NoRecordType, Zenon
  <2> QED
    BY <1>2, <2>1, <2>2, Zenon
<1> QED
  BY <1>1, <1>2, <1>3, Zenon

(* Before the first step nothing is held and nothing submitted. *)
LEMMA MemoryInit == Init /\ TypeOK => MemoryInv
<1> SUFFICES ASSUME Init, TypeOK PROVE MemoryInv
  BY Zenon
<1>1. TypeOK
  BY Zenon
<1>2. Held
  BY Zenon DEF Init, Held, Idle, NoSnap, EmptyStore
<1>3. Submitted
  BY Zenon DEF Init, Submitted, EmptyStore
<1> QED
  BY <1>1, <1>2, <1>3, Zenon DEF MemoryInv

(* Every step keeps MemoryInv. *)
LEMMA MemoryNext == MemoryInv /\ TypeOK' /\ [Next]_vars => MemoryInv'
<1> SUFFICES ASSUME MemoryInv, TypeOK', [Next]_vars PROVE MemoryInv'
  BY Zenon
<1> TypeOK /\ Held /\ Submitted
  BY Zenon DEF MemoryInv
<1> DEFINE Memory == Held /\ Submitted
<1>1. ASSUME NEW n \in Peers, Forgets(n), \A u \in Tasks : submits'[u] = 0 => submits[u] = 0,
             \A p \in Peers, u \in Tasks : submits'[u] = 0 => log'[p].tasks[u] = log[p].tasks[u]
      PROVE  Memory'
  <2>1. Held'
    <3>1. ASSUME NEW p \in Peers, p # n
          PROVE  /\ worker'[p].pc # "idle" =>
                        up'[p] /\ p \in Workers /\ tasks'[p][worker'[p].task] # NoRecord
                 /\ \A u \in Tasks : snap'[p][u] # NoRecord =>
                        up'[p] /\ p \notin Workers /\ tasks'[p][u] # NoRecord
      <4>1. /\ worker'[p] = worker[p] /\ (up'[p] <=> up[p])
            /\ \A u \in Tasks : tasks'[p][u] = tasks[p][u] /\ snap'[p][u] = snap[p][u]
        BY <1>1, <3>1 DEF Forgets
      <4>2. worker[p].pc # "idle" => worker[p].task \in Tasks
        BY Zenon DEF TypeOK
      <4>3. /\ worker[p].pc # "idle" =>
                   up[p] /\ p \in Workers /\ tasks[p][worker[p].task] # NoRecord
            /\ \A u \in Tasks : snap[p][u] # NoRecord =>
                   up[p] /\ p \notin Workers /\ tasks[p][u] # NoRecord
        BY Zenon DEF Held
      <4> QED
        BY <4>1, <4>2, <4>3
    <3>2. worker'[n].pc = "idle" /\ \A u \in Tasks : snap'[n][u] = NoRecord
      <4>1. worker'[n] = Idle /\ \A u \in Tasks : snap'[n][u] = NoRecord
        BY <1>1, Zenon DEF Forgets
      <4>2. Idle.pc = "idle"
        BY Zenon DEF Idle
      <4> QED
        BY <4>1, <4>2, Zenon
    <3> QED
      BY <3>1, <3>2, Zenon DEF Held
  <2>2. Submitted'
    <3>1. \A p \in Peers, u \in Tasks : tasks[p][u] = NoRecord => tasks'[p][u] = NoRecord
      BY <1>1 DEF Forgets
    <3>2. net' = net
      BY <1>1, Zenon DEF Forgets
    <3> SUFFICES ASSUME NEW u \in Tasks, submits'[u] = 0
                 PROVE  /\ \A p \in Peers : tasks'[p][u] = NoRecord /\ log'[p].tasks[u] = NoRecord
                        /\ \A m \in net' : m.task # u
      BY Zenon DEF Submitted
    <3>3. /\ \A p \in Peers : tasks[p][u] = NoRecord /\ log[p].tasks[u] = NoRecord
          /\ \A m \in net : m.task # u
      BY <1>1, Zenon DEF Submitted
    <3>4. \A p \in Peers : log'[p].tasks[u] = log[p].tasks[u]
      BY <1>1, Zenon
    <3> QED
      BY <3>1, <3>2, <3>3, <3>4, Zenon
  <2> QED
    BY <2>1, <2>2, Zenon
<1>2. ASSUME NEW n \in Peers, NEW t \in Tasks, Submit(n, t) PROVE Memory'
  <2> DEFINE r == NewTask(n)
  <2>1. Writes(n, t, r) /\ LogTouches(n, t) /\ worker' = worker /\ snap' = snap
    BY <1>2, SubmitWrites, Zenon DEF Appends
  <2>2. submits'[t] # 0 /\ \A u \in Tasks : submits'[u] = 0 => submits[u] = 0
    <3>1. submits' = [submits EXCEPT ![t] = submits[t] + 1]
      BY <1>2, Zenon DEF Submit
    <3>2. submits \in [Tasks -> Nat]
      BY Zenon DEF TypeOK
    <3> QED
      BY <3>1, <3>2
  <2> HIDE DEF r
  <2>3. \A p \in Peers, u \in Tasks : snap'[p][u] # NoRecord =>
            up[p] /\ p \notin Workers /\ tasks[p][u] # NoRecord
    BY <2>1, Zenon DEF Held
  <2>4. Held'
    BY <2>1, <2>3, WriteKeepsHeld, Zenon
  <2>5. Submitted'
    BY <2>1, <2>2, WriteKeepsSubmitted, Zenon
  <2> QED
    BY <2>4, <2>5, Zenon
<1>3. ASSUME NEW n \in Peers, NEW m \in net, Receive(n, m) PROVE Memory'
  <2> DEFINE t == m.task
             r == Joined(tasks[n][t], m.rec)
  <2>1. Writes(n, t, r) /\ LogTouches(n, t) /\ worker' = worker /\ snap' = snap
    BY <1>3, ReceiveWrites, Zenon DEF Appends
  <2>2. t \in Tasks /\ submits[t] # 0 /\ submits' = submits
    <3>1. submits' = submits
      BY <1>3, Zenon DEF Receive
    <3>2. t \in Tasks
      BY <2>1, Zenon DEF Writes
    <3> QED
      BY <3>1, <3>2, Zenon DEF Submitted
  <2> HIDE DEF r, t
  <2>3. \A p \in Peers, u \in Tasks : snap'[p][u] # NoRecord =>
            up[p] /\ p \notin Workers /\ tasks[p][u] # NoRecord
    BY <2>1, Zenon DEF Held
  <2>4. Held'
    BY <2>1, <2>3, WriteKeepsHeld, Zenon
  <2>5. Submitted'
    BY <2>1, <2>2, WriteKeepsSubmitted, Zenon
  <2> QED
    BY <2>4, <2>5, Zenon
<1>4. ASSUME NEW n \in Peers, NEW S, NEW d, WorkerClaim(n, S, d) PROVE Memory'
  <2> DEFINE t == Head(queue[n]).task
             r == Claim(n, t, d)
             w == [pc |-> "claimed", task |-> t, token |-> NextFor(tasks[n][t].token, n),
                   lease |-> LocalNow(n) + d]
  <2>1. /\ Writes(n, t, r) /\ LogTouches(n, t) /\ n \in Workers /\ tasks[n][t] \in TaskRecord
        /\ worker' = [worker EXCEPT ![n] = w] /\ snap' = snap
    BY <1>4, ClaimWrites, Zenon DEF Appends
  <2>2. t \in Tasks /\ submits[t] # 0 /\ submits' = submits
    <3>1. submits' = submits
      BY <1>4, Zenon DEF WorkerClaim
    <3>2. t \in Tasks /\ tasks[n][t] # NoRecord
      BY <2>1, NoRecordType, Zenon DEF Writes
    <3> QED
      BY <3>1, <3>2, Zenon DEF Submitted
  <2>3. w.task = t
    BY Zenon
  <2> HIDE DEF r, t, w
  <2>4. \A p \in Peers, u \in Tasks : snap'[p][u] # NoRecord =>
            up[p] /\ p \notin Workers /\ tasks[p][u] # NoRecord
    BY <2>1, Zenon DEF Held
  <2>5. \A p \in Peers : worker'[p] = IF p = n THEN w ELSE worker[p]
    BY <2>1, Zenon DEF TypeOK
  <2>6. Held'
    BY <2>1, <2>3, <2>4, <2>5, WriteKeepsHeld
  <2>7. Submitted'
    BY <2>1, <2>2, WriteKeepsSubmitted, Zenon
  <2> QED
    BY <2>6, <2>7, Zenon
<1>5. ASSUME NEW n \in Peers, WorkerRun(n) PROVE Memory'
  <2> DEFINE t == worker[n].task
             r == Running(n)
  <2>1. /\ Writes(n, t, r) /\ worker[n].pc = "claimed"
        /\ worker' = [worker EXCEPT ![n].pc = "running"]
        /\ log' = log /\ snap' = snap /\ submits' = submits
    BY <1>5, RunWrites, Zenon
  <2>2. t \in Tasks /\ tasks[n][t] # NoRecord
    BY <2>1, Zenon DEF TypeOK, Held
  <2>3. submits[t] # 0 /\ LogTouches(n, t)
    BY <2>1, <2>2, Zenon DEF Submitted, LogTouches
  <2>4. \A p \in Peers : worker'[p].pc # "idle" =>
            worker[p].pc # "idle" /\ worker'[p].task = worker[p].task
    BY <2>1 DEF TypeOK, WorkerState
  <2> HIDE DEF r, t
  <2>5. \A p \in Peers, u \in Tasks : snap'[p][u] # NoRecord =>
            up[p] /\ p \notin Workers /\ tasks[p][u] # NoRecord
    BY <2>1, Zenon DEF Held
  <2>6. Held'
    BY <2>1, <2>4, <2>5, WriteKeepsHeld, Zenon
  <2>7. Submitted'
    BY <2>1, <2>3, WriteKeepsSubmitted, Zenon
  <2> QED
    BY <2>6, <2>7, Zenon
<1>6. ASSUME NEW n \in Peers, NEW outcome \in Outcomes, WorkerCommit(n, outcome) PROVE Memory'
  <2> DEFINE t == worker[n].task
             r == Result(n, outcome)
  <2>1. /\ Writes(n, t, r) /\ LogTouches(n, t) /\ worker[n].pc = "running"
        /\ worker' = [worker EXCEPT ![n] = Idle]
        /\ snap' = snap /\ submits' = submits
    BY <1>6, CommitWrites, Zenon DEF Appends
  <2>2. t \in Tasks /\ tasks[n][t] # NoRecord
    BY <2>1, Zenon DEF Held, Writes
  <2>3. submits[t] # 0
    BY <2>2, Zenon DEF Submitted
  <2>4. \A p \in Peers : worker'[p].pc # "idle" =>
            worker[p].pc # "idle" /\ worker'[p].task = worker[p].task
    BY <2>1, Zenon DEF TypeOK, Idle
  <2> HIDE DEF r, t
  <2>5. \A p \in Peers, u \in Tasks : snap'[p][u] # NoRecord =>
            up[p] /\ p \notin Workers /\ tasks[p][u] # NoRecord
    BY <2>1, Zenon DEF Held
  <2>6. Held'
    BY <2>1, <2>4, <2>5, WriteKeepsHeld, Zenon
  <2>7. Submitted'
    BY <2>1, <2>3, WriteKeepsSubmitted, Zenon
  <2> QED
    BY <2>6, <2>7, Zenon
<1>7. ASSUME NEW n \in Peers, NEW t \in Tasks, NEW S, ReclaimRelease(n, t, S) PROVE Memory'
  <2> DEFINE r == Released(n, t, S)
  <2>1. /\ Writes(n, t, r) /\ LogTouches(n, t) /\ n \notin Workers /\ Todo(n, S)[t] # NoRecord
        /\ snap' = [snap EXCEPT ![n] = [Todo(n, S) EXCEPT ![t] = NoRecord]]
        /\ worker' = worker /\ submits' = submits
    BY <1>7, ReleaseWrites, Zenon DEF Appends
  <2>2. \A u \in Tasks : Todo(n, S)[u] # NoRecord => tasks[n][u] # NoRecord
    BY TodoIsHeld, Zenon
  <2>3. submits[t] # 0
    BY <2>1, <2>2, Zenon DEF Submitted
  <2>4. DOMAIN Todo(n, S) = Tasks
    BY Zenon DEF Todo, TypeOK, Store
  <2> HIDE DEF r
  <2>5. \A p \in Peers, u \in Tasks : snap'[p][u] # NoRecord =>
            up[p] /\ p \notin Workers /\ tasks[p][u] # NoRecord
    <3>1. \A p \in Peers : p # n => snap'[p] = snap[p]
      BY <2>1, Zenon DEF TypeOK
    <3>2. \A u \in Tasks : snap'[n][u] # NoRecord => Todo(n, S)[u] # NoRecord
      BY <2>1, <2>4, Zenon DEF TypeOK
    <3>3. \A u \in Tasks : snap'[n][u] # NoRecord => up[n] /\ n \notin Workers /\ tasks[n][u] # NoRecord
      BY <2>1, <2>2, <3>2, Zenon DEF Writes, Stored
    <3> QED
      BY <3>1, <3>3, SMTT(30) DEF Held
  <2>6. Held'
    BY <2>1, <2>5, WriteKeepsHeld, Zenon
  <2>7. Submitted'
    BY <2>1, <2>3, WriteKeepsSubmitted, Zenon
  <2> QED
    BY <2>6, <2>7, Zenon
<1>8. ASSUME Rests PROVE Memory'
  BY <1>8 DEF Rests, Held, Submitted
<1>9. ASSUME NEW n \in Peers, Crash(n) PROVE Memory'
  <2>1. Forgets(n) /\ log' = log /\ submits' = submits
    BY <1>9, HaltForgets, Zenon DEF Crash
  <2> QED
    BY <1>1, <2>1, Zenon
<1>10. ASSUME NEW n \in Peers, Restart(n) PROVE Memory'
  <2>0. \A p \in Peers : worker[p].pc # "idle" => worker[p].task \in Tasks
    BY Zenon DEF TypeOK
  <2>1. Held'
    BY <1>10, <2>0, RestartRecovers DEF Held
  <2>2. ASSUME NEW u \in Tasks, submits[u] = 0, NEW m \in net' PROVE m.task # u
    <3>1. m.rec \in TaskRecord
      BY Zenon DEF TypeOK, Message
    <3>2. log[n].tasks[u] = NoRecord /\ \A k \in net : k.task # u
      BY <2>2, Zenon DEF Submitted
    <3>3. m \notin net => m.rec = log[n].tasks[m.task]
      BY <1>10, RestartRecovers, Zenon
    <3> QED
      BY <3>1, <3>2, <3>3, NoRecordType, Zenon
  <2>3. Submitted'
    BY <1>10, <2>2, RestartRecovers DEF Submitted
  <2> QED
    BY <2>1, <2>3, Zenon
<1>11. ASSUME NEW n \in Peers, CrashInAppend(n) PROVE Memory'
  <2>1. PICK t \in Tasks : \E r : CutShort(n, t, r) /\ Interrupted(n, t, r)
    BY <1>11, AppendInterrupted, Zenon
  <2>2. PICK r : CutShort(n, t, r) /\ Interrupted(n, t, r)
    BY <2>1, Zenon
  <2>3. Forgets(n) /\ LogTouches(n, t)
    BY <2>2, CutShortLogs, Zenon
  <2>4. submits'[t] # 0 /\ \A u \in Tasks : submits'[u] = 0 => submits[u] = 0
    BY <2>2, InterruptedTask, Zenon
  <2>5. \A p \in Peers, u \in Tasks : submits'[u] = 0 => log'[p].tasks[u] = log[p].tasks[u]
    BY <2>3, <2>4, Zenon DEF LogTouches
  <2> QED
    BY <1>1, <2>3, <2>4, <2>5, Zenon
<1> HIDE DEF Memory
<1>12. Memory'
  BY <1>2, <1>3, <1>4, <1>5, <1>6, <1>7, <1>8, <1>9, <1>10, <1>11, OthersRest, Zenon
  DEF Next, NodeStep
<1> QED
  BY <1>12, Zenon DEF Memory, MemoryInv

-----------------------------------------------------------------------------
(* LogKnows, as long as the signatures hold *)

(* LogKnows after a write that was logged *)
LEMMA WriteKeepsLogKnows ==
    ASSUME TypeOK, LogKnows, NEW n \in Peers, NEW t, NEW r, Writes(n, t, r), Logged(n, t, r)
    PROVE  LogKnows'
<1>1. t \in Tasks /\ r \in TaskRecord /\ r # NoRecord /\ up' = up
  BY Zenon DEF Writes, Stored
<1>2. log[n].tasks[t] \in TaskRecord \cup {NoRecord}
  BY <1>1, EntryTypes, Zenon
<1>3. n \in WalNodes => log'[n].tasks[t] # NoRecord /\ tasks'[n][t] # NoRecord
  <2>1. tasks'[n][t] = r
    BY WritesOne, Zenon
  <2>2. n \in WalNodes => log'[n].tasks[t] = Joined(log[n].tasks[t], r)
    BY Zenon DEF Logged
  <2> QED
    BY <1>1, <1>2, <2>1, <2>2, JoinedType, Zenon
<1>4. \A p \in Peers, u \in Tasks : p # n \/ u # t => tasks'[p][u] = tasks[p][u]
  <2>1. OthersKept(n, t)
    BY WritesOne, Zenon
  <2> QED
    BY <2>1, Zenon DEF OthersKept
<1>5. \A p \in Peers, u \in Tasks : p # n \/ u # t => log'[p].tasks[u] = log[p].tasks[u]
  BY Zenon DEF Logged, LogTouches
<1>6. ASSUME NEW p \in WalNodes, NEW u \in Tasks, up[p]
      PROVE  log'[p].tasks[u] = NoRecord <=> tasks'[p][u] = NoRecord
  <2>1. p \in Peers /\ (log[p].tasks[u] = NoRecord <=> tasks[p][u] = NoRecord)
    BY <1>6, RolesAssumption, Zenon DEF LogKnows
  <2>2. CASE p = n /\ u = t
    BY <1>3, <2>2, Zenon
  <2>3. CASE p # n \/ u # t
    BY <1>4, <1>5, <2>1, <2>3, Zenon
  <2> QED
    BY <2>2, <2>3, Zenon
<1> QED
  BY <1>1, <1>6, Zenon DEF LogKnows

(* At the start no store and no log knows a task. *)
LEMMA LogKnowsInit == Init => LogKnows
BY RolesAssumption, SMTT(30) DEF Init, LogKnows, EmptyStore

(* Every step keeps LogKnows, if the records that it leaves are authorised. *)
LEMMA LogKnowsNext ==
    ASSUME MemoryInv, TypeOK', LogKnows, [Next]_vars, SignaturesHold'
    PROVE  LogKnows'
<1> TypeOK /\ Held /\ Submitted
  BY Zenon DEF MemoryInv
<1>1. ASSUME NEW n \in Peers, NEW t, NEW r, Writes(n, t, r), Appends(n, t, r) PROVE LogKnows'
  <2>1. Authentic(r)
    BY <1>1, WritesAuthentic, Zenon
  <2> QED
    BY <1>1, <2>1, WriteKeepsLogKnows, Zenon DEF Appends
<1>2. ASSUME NEW n \in Peers, NEW t \in Tasks, Submit(n, t) PROVE LogKnows'
  BY <1>1, <1>2, SubmitWrites, Zenon
<1>3. ASSUME NEW n \in Peers, NEW m \in net, Receive(n, m) PROVE LogKnows'
  BY <1>1, <1>3, ReceiveWrites, Zenon
<1>4. ASSUME NEW n \in Peers, NEW S, NEW d, WorkerClaim(n, S, d) PROVE LogKnows'
  BY <1>1, <1>4, ClaimWrites, ZenonT(30)
<1>5. ASSUME NEW n \in Peers, WorkerRun(n) PROVE LogKnows'
  <2> DEFINE t == worker[n].task
  <2>1. Writes(n, t, Running(n)) /\ worker[n].pc = "claimed" /\ log' = log
    BY <1>5, RunWrites, Zenon
  <2>2. tasks[n][t] # NoRecord
    BY <2>1, Zenon DEF Held
  <2>3. up' = up /\ \A p \in Peers, u \in Tasks : tasks'[p][u] = NoRecord <=> tasks[p][u] = NoRecord
    BY <2>1, <2>2, SMTT(30) DEF Writes, Stored
  <2> QED
    BY <2>1, <2>3, RolesAssumption, Zenon DEF LogKnows
<1>6. ASSUME NEW n \in Peers, NEW outcome \in Outcomes, WorkerCommit(n, outcome) PROVE LogKnows'
  BY <1>1, <1>6, CommitWrites, Zenon
<1>7. ASSUME NEW n \in Peers, NEW t \in Tasks, NEW S, ReclaimRelease(n, t, S) PROVE LogKnows'
  BY <1>1, <1>7, ReleaseWrites, Zenon
<1>8. ASSUME Rests PROVE LogKnows'
  BY <1>8, Zenon DEF Rests, LogKnows
<1>9. ASSUME NEW n \in Peers, Forgets(n),
             \A p \in Peers, u \in Tasks : p # n => log'[p].tasks[u] = log[p].tasks[u]
      PROVE  LogKnows'
  <2> SUFFICES ASSUME NEW p \in WalNodes, NEW u \in Tasks, up'[p]
               PROVE  log'[p].tasks[u] = NoRecord <=> tasks'[p][u] = NoRecord
    BY Zenon DEF LogKnows
  <2>1. p \in Peers
    BY RolesAssumption, Zenon
  <2>2. p # n /\ up[p]
    BY <1>9, <2>1, Zenon DEF Forgets
  <2>3. tasks'[p][u] = tasks[p][u]
    BY <1>9, <2>1, <2>2, Zenon DEF Forgets
  <2> QED
    BY <1>9, <2>1, <2>2, <2>3, Zenon DEF LogKnows
<1>10. ASSUME NEW n \in Peers, Restart(n) PROVE LogKnows'
  BY <1>10, RestartRecovers, RolesAssumption DEF LogKnows
<1>11. ASSUME NEW n \in Peers, Crash(n) PROVE LogKnows'
  <2>1. Forgets(n) /\ log' = log
    BY <1>11, HaltForgets, Zenon DEF Crash
  <2> QED
    BY <1>9, <2>1, Zenon
<1>12. ASSUME NEW n \in Peers, CrashInAppend(n) PROVE LogKnows'
  <2>1. PICK t \in Tasks : \E r : CutShort(n, t, r) /\ Interrupted(n, t, r)
    BY <1>12, AppendInterrupted, Zenon
  <2>2. Forgets(n) /\ LogTouches(n, t)
    BY <2>1, CutShortLogs, Zenon
  <2> QED
    BY <1>9, <2>2, Zenon DEF LogTouches
<1> QED
  BY <1>2, <1>3, <1>4, <1>5, <1>6, <1>7, <1>8, <1>10, <1>11, <1>12, OthersRest, Zenon
  DEF Next, NodeStep

-----------------------------------------------------------------------------
(* Causality.  CausalBound is not inductive alone: a crash leaves only the *)
(* log, which has to hold the clock that the peer had.                     *)

Reach(p) == OwnCounter(p) + 1

(* CausalBound, with a name for the bound *)
ClocksWithin ==
    \A p \in WalNodes :
        /\ \A n \in Peers : vc[n][p] <= Reach(p) /\ log[n].vc[p] <= Reach(p)
        /\ \A n \in Peers, t \in Tasks : /\ tasks[n][t].vc[p] <= Reach(p)
                                        /\ log[n].tasks[t].vc[p] <= Reach(p)
        /\ \A m \in net : m.rec.vc[p] <= Reach(p)

CausalInv == TypeOK /\ DurableClock /\ ClocksWithin

(* Replaying r onto a store adds no clock above a bound on both. *)
LEMMA ReplayedBound ==
    ASSUME NEW store \in Store, NEW t \in Tasks, NEW r \in TaskRecord, NEW p \in Peers,
           NEW b \in Nat, r.vc[p] <= b, \A u \in Tasks : store[u].vc[p] <= b
    PROVE  \A u \in Tasks : Replayed(store, t, r)[u].vc[p] <= b
<1> SUFFICES ASSUME NEW u \in Tasks PROVE Replayed(store, t, r)[u].vc[p] <= b
  BY Zenon
<1>1. Replayed(store, t, r)[u].vc \in {store[u].vc, r.vc, MergeClocks(store[u].vc, r.vc)}
  BY ReplayedType, Zenon
<1>2. MergeClocks(store[u].vc, r.vc)[p] <= b
  BY Zenon DEF MergeClocks
<1> QED
  BY <1>1, <1>2, Zenon

(* What a peer with a log remembers of its own events is a number, and so is *)
(* the bound.                                                                *)
LEMMA ReachType ==
    ASSUME TypeOK, NEW p \in WalNodes
    PROVE  Reach(p) \in Nat
<1>1. vc[p] \in VectorClock /\ log[p].vc \in VectorClock /\ p \in Peers
  BY RolesAssumption, Zenon DEF TypeOK
<1>2. OwnCounter(p) \in Nat
  BY <1>1, Zenon DEF OwnCounter, VectorClock
<1> QED
  BY <1>2 DEF Reach

(* The clock of a joined record is within a bound on both. *)
LEMMA JoinedBound ==
    ASSUME NEW s \in TaskRecord \cup {NoRecord}, NEW r \in TaskRecord, NEW p \in Peers,
           NEW b \in Nat, s.vc[p] <= b, r.vc[p] <= b
    PROVE  Joined(s, r).vc[p] <= b
<1>1. Joined(s, r).vc \in {s.vc, r.vc, MergeClocks(s.vc, r.vc)}
  BY MergeType, Zenon DEF Joined
<1>2. MergeClocks(s.vc, r.vc)[p] <= b
  BY Zenon DEF MergeClocks
<1> QED
  BY <1>1, <1>2, Zenon

(* A step in which n stores and logs r and takes clock v: the clock grows,  *)
(* only the counter of n may pass its bound, and the bound follows it.      *)
LEMMA StoreStep ==
    ASSUME CausalInv, TypeOK', NEW n \in Peers, NEW t, NEW r, NEW v \in VectorClock,
           Writes(n, t, r), LogAppend(n, t, r, v), vc' = [vc EXCEPT ![n] = v],
           \A p \in Peers : vc[n][p] <= v[p],
           \A p \in WalNodes \ {n} : v[p] <= Reach(p) /\ r.vc[p] <= Reach(p),
           n \in WalNodes => r.vc[n] <= v[n] + 1
    PROVE  CausalInv'
<1> USE RolesAssumption
<1> TypeOK /\ ClocksWithin
  BY Zenon DEF CausalInv
<1> t \in Tasks /\ r \in TaskRecord /\ up[n] /\ up' = up
  BY Zenon DEF Writes, Stored
<1>1. \A p \in WalNodes : Reach(p)' = IF p = n THEN v[n] + 1 ELSE Reach(p)
  <2>1. CASE n \in WalNodes
    BY <2>1, Zenon DEF Reach, OwnCounter, LogAppend, TypeOK
  <2>2. CASE n \notin WalNodes
    BY <2>2, Zenon DEF Reach, OwnCounter, LogAppend, TypeOK
  <2> QED
    BY <2>1, <2>2, Zenon
<1>2. \A p \in WalNodes : Reach(p) \in Nat
  BY ReachType, Zenon
<1>3. \A p \in WalNodes : Reach(p)' \in Nat /\ Reach(p) <= Reach(p)'
  <2> SUFFICES ASSUME NEW p \in WalNodes
               PROVE  Reach(p)' \in Nat /\ Reach(p) <= Reach(p)'
    BY Zenon
  <2>1. v[n] \in Nat /\ vc[n][n] \in Nat /\ vc[n][n] <= v[n]
    <3>1. vc[n] \in VectorClock
      BY Zenon DEF TypeOK
    <3> QED
      BY <3>1, Zenon DEF VectorClock
  <2>2. CASE p = n
    <3>1. Reach(p) = vc[n][n] + 1 /\ Reach(p)' = v[n] + 1
      BY <1>1, <2>2, Zenon DEF Reach, OwnCounter
    <3> QED
      BY <2>1, <3>1
  <2>3. CASE p # n
    <3>1. Reach(p)' = Reach(p) /\ Reach(p) \in Nat
      BY <1>1, <1>2, <2>3, Zenon
    <3>2. \A i \in Nat : i <= i
      OBVIOUS
    <3> QED
      BY <3>1, <3>2, Zenon
  <2> QED
    BY <2>2, <2>3, Zenon
<1>4. \A p \in WalNodes : v[p] <= Reach(p)' /\ r.vc[p] <= Reach(p)'
  BY <1>1, <1>2 DEF VectorClock
<1>5. DurableClock'
  <2>1. n \in WalNodes => MergeClocks(log[n].vc, v) = v
    <3> SUFFICES ASSUME n \in WalNodes PROVE MergeClocks(log[n].vc, v) = v
      BY Zenon
    <3>1. log[n].vc = vc[n]
      BY Zenon DEF CausalInv, DurableClock
    <3>2. vc[n] \in VectorClock
      BY Zenon DEF TypeOK
    <3> QED
      BY <3>1, <3>2, SMTT(30) DEF MergeClocks, VectorClock
  <2> QED
    BY <2>1, Zenon DEF DurableClock, LogAppend, CausalInv, TypeOK
<1>6. ASSUME NEW p \in WalNodes, NEW k \in Peers
      PROVE  vc'[k][p] <= Reach(p)' /\ log'[k].vc[p] <= Reach(p)'
  <2>1. vc[k][p] \in Nat /\ log[k].vc[p] \in Nat
    <3>1. vc[k] \in VectorClock /\ log[k].vc \in VectorClock
      BY Zenon DEF TypeOK
    <3> QED
      BY <3>1, Zenon DEF VectorClock
  <2>2. vc[k][p] <= Reach(p)' /\ log[k].vc[p] <= Reach(p)'
    <3>1. vc[k][p] <= Reach(p) /\ log[k].vc[p] <= Reach(p)
      BY Zenon DEF ClocksWithin
    <3> QED
      BY <1>2, <1>3, <2>1, <3>1, AtMostTrans, Zenon
  <2>3. vc'[k] = vc[k] \/ vc'[k] = v
    BY Zenon DEF TypeOK
  <2>4. log'[k].vc = log[k].vc \/ log'[k].vc = MergeClocks(log[k].vc, v)
    BY Zenon DEF LogAppend, TypeOK
  <2>5. MergeClocks(log[k].vc, v)[p] <= Reach(p)'
    BY <1>4, <2>2, Zenon DEF MergeClocks
  <2> QED
    BY <1>4, <2>2, <2>3, <2>4, <2>5, Zenon
<1>7. ASSUME NEW p \in WalNodes, NEW k \in Peers
      PROVE  \A u \in Tasks : /\ tasks'[k][u].vc[p] <= Reach(p)'
                              /\ log'[k].tasks[u].vc[p] <= Reach(p)'
  <2>1. tasks[k] \in Store /\ log[k].tasks \in Store
    BY Zenon DEF TypeOK
  <2>2. \A u \in Tasks : tasks[k][u].vc[p] \in Nat /\ log[k].tasks[u].vc[p] \in Nat
    BY <2>1, StoreParts, Zenon DEF VectorClock
  <2>3. \A u \in Tasks : /\ tasks[k][u].vc[p] <= Reach(p)'
                         /\ log[k].tasks[u].vc[p] <= Reach(p)'
    <3>1. \A u \in Tasks : /\ tasks[k][u].vc[p] <= Reach(p)
                           /\ log[k].tasks[u].vc[p] <= Reach(p)
      BY Zenon DEF ClocksWithin
    <3>2. Reach(p) \in Nat /\ Reach(p)' \in Nat /\ Reach(p) <= Reach(p)'
      BY <1>2, <1>3, Zenon
    <3> QED
      BY <2>2, <3>1, <3>2, AtMostTrans, Zenon
  <2>4. \A u \in Tasks : tasks'[k][u] = tasks[k][u] \/ tasks'[k][u] = r
    <3>1. tasks'[n][t] = r /\ OthersKept(n, t)
      BY WritesOne, Zenon
    <3> QED
      BY <3>1, Zenon DEF OthersKept
  <2>5. log'[k].tasks = log[k].tasks \/ log'[k].tasks = Replayed(log[k].tasks, t, r)
    BY Zenon DEF LogAppend, TypeOK
  <2>6. \A u \in Tasks : Replayed(log[k].tasks, t, r)[u].vc[p] <= Reach(p)'
    BY <1>3, <1>4, <2>1, <2>3, ReplayedBound, Zenon
  <2> QED
    BY <1>4, <2>3, <2>4, <2>5, <2>6, Zenon
<1>8. ASSUME NEW p \in WalNodes, NEW m \in net' PROVE m.rec.vc[p] <= Reach(p)'
  <2>1. CASE m \in net
    <3>1. m.rec.vc \in VectorClock
      BY <2>1, Zenon DEF TypeOK, Message, TaskRecord
    <3>2. m.rec.vc[p] <= Reach(p)
      BY <2>1, Zenon DEF ClocksWithin
    <3> QED
      BY <1>2, <1>3, <3>1, <3>2, AtMostTrans, Zenon DEF VectorClock
  <2>2. CASE m \notin net
    <3>1. m.rec = tasks'[n][m.task]
      BY <2>2, Zenon DEF Writes, Stored
    <3>2. m.task \in Tasks
      BY Zenon DEF TypeOK, Message
    <3> QED
      BY <1>7, <3>1, <3>2, Zenon
  <2> QED
    BY <2>1, <2>2, Zenon
<1>9. ClocksWithin'
  BY <1>6, <1>7, <1>8, Zenon DEF ClocksWithin
<1> QED
  BY <1>5, <1>9, Zenon DEF CausalInv

(* The step of a peer that counts an event, stores and logs a record with   *)
(* the new clock                                                            *)
LEMMA EventStep ==
    ASSUME CausalInv, TypeOK', NEW n \in Peers, NEW t, NEW r,
           Writes(n, t, r), LogAppend(n, t, r, Increment(vc[n], n)),
           vc' = [vc EXCEPT ![n] = Increment(vc[n], n)], r.vc = Increment(vc[n], n)
    PROVE  CausalInv'
<1> DEFINE v == Increment(vc[n], n)
<1>1. vc[n] \in VectorClock
  BY Zenon DEF CausalInv, TypeOK
<1>2. \A p \in WalNodes : vc[n][p] <= Reach(p)
  BY Zenon DEF CausalInv, ClocksWithin
<1>3. /\ v \in VectorClock /\ v[n] <= v[n] + 1
      /\ \A p \in Peers : vc[n][p] <= v[p]
      /\ \A p \in WalNodes \ {n} : v[p] <= Reach(p)
  BY <1>1, <1>2, RolesAssumption DEF Increment, VectorClock
<1> HIDE DEF v
<1>4. LogAppend(n, t, r, v) /\ vc' = [vc EXCEPT ![n] = v] /\ r.vc = v
  BY Zenon DEF v
<1> QED
  BY <1>3, <1>4, StoreStep, Zenon

(* So is a broadcast. *)
LEMMA BroadcastStep ==
    ASSUME CausalInv, TypeOK', NEW n \in Peers, NEW t, NEW r, Writes(n, t, r),
           BroadcastTaskUpdate(n, t, r, Increment(vc[n], n)), r.vc = Increment(vc[n], n)
    PROVE  CausalInv'
<1>1. LogAppend(n, t, r, Increment(vc[n], n)) /\ vc' = [vc EXCEPT ![n] = Increment(vc[n], n)]
  BY Zenon DEF BroadcastTaskUpdate
<1> QED
  BY <1>1, EventStep, Zenon

(* A peer that receives a record takes the merge of the two clocks. *)
LEMMA ReceiveCausal ==
    ASSUME CausalInv, TypeOK', NEW n \in Peers, NEW m \in net, Receive(n, m)
    PROVE  CausalInv'
<1> USE RolesAssumption
<1> DEFINE t == m.task
           s == tasks[n][t]
           r == Joined(s, m.rec)
           v == MergeClocks(vc[n], m.rec.vc)
<1> TypeOK /\ ClocksWithin
  BY Zenon DEF CausalInv
<1>1. m.rec \in TaskRecord /\ Writes(n, t, r)
  BY ReceiveWrites, Zenon
<1>2. LogAppend(n, t, r, v) /\ vc' = [vc EXCEPT ![n] = v]
  BY Zenon DEF Receive
<1>3. t \in Tasks /\ r \in TaskRecord /\ up[n]
  BY <1>1, Zenon DEF Writes, Stored
<1>4. vc[n] \in VectorClock /\ m.rec.vc \in VectorClock /\ s.vc \in VectorClock
  <2>1. tasks[n] \in Store /\ vc[n] \in VectorClock
    BY Zenon DEF TypeOK
  <2> QED
    BY <1>1, <1>3, <2>1, StoreParts, RecordParts, Zenon
<1>5. v \in VectorClock /\ \A p \in Peers : vc[n][p] <= v[p]
  BY <1>4 DEF MergeClocks, VectorClock
<1>6. r.vc \in {s.vc, m.rec.vc, MergeClocks(s.vc, m.rec.vc)}
  <2>1. s = NoRecord \/ s \in TaskRecord
    BY <1>3, EntryTypes, Zenon
  <2> HIDE DEF s
  <2> QED
    BY <1>1, <2>1, MergeType, Zenon DEF Joined
<1>7. \A p \in WalNodes : /\ vc[n][p] <= Reach(p)
                          /\ m.rec.vc[p] <= Reach(p)
                          /\ s.vc[p] <= Reach(p)
  BY <1>3, Zenon DEF ClocksWithin
<1>8. \A p \in WalNodes : v[p] <= Reach(p) /\ MergeClocks(s.vc, m.rec.vc)[p] <= Reach(p)
  BY <1>7, Zenon DEF MergeClocks
<1> HIDE DEF r, v, s, t
<1>9. \A p \in WalNodes : r.vc[p] <= Reach(p)
  BY <1>6, <1>7, <1>8, Zenon
<1>10. n \in WalNodes => r.vc[n] <= v[n] + 1
  <2>1. n \in WalNodes => r.vc[n] <= vc[n][n] + 1
    BY <1>3, <1>9, Zenon DEF Reach, OwnCounter
  <2>2. r.vc[n] \in Nat /\ vc[n][n] \in Nat /\ v[n] \in Nat /\ vc[n][n] <= v[n]
    BY <1>3, <1>4, <1>5, RecordParts, Zenon DEF VectorClock
  <2> QED
    BY <2>1, <2>2
<1> QED
  BY <1>1, <1>2, <1>5, <1>8, <1>9, <1>10, StoreStep, Zenon

(* RUNNING is stored with the clock that the peer has. *)
LEMMA RunCausal ==
    ASSUME CausalInv, TypeOK', NEW n \in Peers, WorkerRun(n)
    PROVE  CausalInv'
<1> DEFINE t == worker[n].task
           r == Running(n)
<1> TypeOK /\ ClocksWithin
  BY Zenon DEF CausalInv
<1>1. Writes(n, t, r) /\ log' = log
  BY RunWrites, Zenon
<1>2. vc' = vc /\ up' = up
  BY Zenon DEF WorkerRun
<1>3. r.vc = vc[n]
  BY Zenon DEF Running, SealRecord, SignTask, NewRecord
<1>4. \A p \in WalNodes : Reach(p)' = Reach(p)
  BY <1>1, <1>2, Zenon DEF Reach, OwnCounter
<1> HIDE DEF r, t
<1>5. \A k \in Peers, u \in Tasks : tasks'[k][u] = tasks[k][u] \/ tasks'[k][u] = r
  BY <1>1 DEF Writes, Stored
<1>6. \A p \in WalNodes : \A k \in Peers, u \in Tasks : tasks'[k][u].vc[p] <= Reach(p)
  BY <1>3, <1>5, Zenon DEF ClocksWithin
<1>7. \A m \in net' : m \in net \/ \E u \in Tasks : m.rec = tasks'[n][u]
  BY <1>1, Zenon DEF Writes, Stored, TypeOK, Message
<1>8. ClocksWithin'
  BY <1>1, <1>2, <1>4, <1>6, <1>7, Zenon DEF ClocksWithin
<1>9. DurableClock'
  BY <1>1, <1>2, Zenon DEF CausalInv, DurableClock
<1> QED
  BY <1>8, <1>9, Zenon DEF CausalInv

(* A crash takes the clock of the peer, which its log has; the records in   *)
(* the log may be new, within the same bound.                               *)
LEMMA HaltCausal ==
    ASSUME CausalInv, TypeOK', NEW n \in Peers, Halts(n), net' = net,
           \A p \in Peers : log'[p].vc = log[p].vc,
           \A p \in WalNodes : \A k \in Peers, u \in Tasks : log'[k].tasks[u].vc[p] <= Reach(p)
    PROVE  CausalInv'
<1> USE RolesAssumption
<1> TypeOK /\ ClocksWithin /\ DurableClock
  BY Zenon DEF CausalInv
<1>1. /\ up[n] /\ up' = [up EXCEPT ![n] = FALSE]
      /\ vc' = [vc EXCEPT ![n] = ZeroClock]
  BY Zenon DEF Halts, MayHalt
<1>2. ASSUME NEW p \in WalNodes PROVE Reach(p)' = Reach(p)
  <2>1. CASE p = n
    <3>1. log[p].vc = vc[p]
      BY <1>1, <2>1, Zenon DEF DurableClock
    <3> QED
      BY <1>1, <2>1, <3>1, Zenon DEF Reach, OwnCounter, TypeOK
  <2>2. CASE p # n
    BY <1>1, <2>2, Zenon DEF Reach, OwnCounter, TypeOK
  <2> QED
    BY <2>1, <2>2, Zenon
<1>3. \A k \in Peers : vc'[k] = vc[k] \/ vc'[k] = ZeroClock
  BY <1>1, Zenon DEF TypeOK
<1>4. \A k \in Peers, u \in Tasks : tasks'[k][u] = tasks[k][u] \/ tasks'[k][u].vc = ZeroClock
  <2>1. \A p \in Peers, u \in Tasks : tasks'[p][u] = IF p = n THEN NoRecord ELSE tasks[p][u]
    BY HaltForgets, Zenon DEF Forgets
  <2> SUFFICES ASSUME NEW k \in Peers, NEW u \in Tasks
               PROVE  tasks'[k][u] = tasks[k][u] \/ tasks'[k][u].vc = ZeroClock
    BY Zenon
  <2>2. tasks'[k][u] = IF k = n THEN NoRecord ELSE tasks[k][u]
    BY <2>1, Zenon
  <2> QED
    BY <2>2, NoRecordType, Zenon
<1>5. \A p \in WalNodes : ZeroClock[p] <= Reach(p)
  BY ReachType DEF ZeroClock
<1>6. ClocksWithin'
  <2>1. \A p \in WalNodes, k \in Peers : vc'[k][p] <= Reach(p)
    BY <1>3, <1>5, Zenon DEF ClocksWithin
  <2>2. \A p \in WalNodes : \A k \in Peers, u \in Tasks : tasks'[k][u].vc[p] <= Reach(p)
    BY <1>4, <1>5, Zenon DEF ClocksWithin
  <2> QED
    BY <1>1, <1>2, <2>1, <2>2, Zenon DEF ClocksWithin
<1>7. DurableClock'
  BY <1>1, Zenon DEF DurableClock, TypeOK
<1> QED
  BY <1>6, <1>7, Zenon DEF CausalInv

(* A record that is logged without its clock is one event ahead at most. *)
LEMMA CutShortCausal ==
    ASSUME CausalInv, TypeOK', NEW n \in Peers, NEW t \in Tasks, NEW r,
           CutShort(n, t, r), Interrupted(n, t, r)
    PROVE  CausalInv'
<1> USE RolesAssumption
<1> TypeOK /\ ClocksWithin
  BY Zenon DEF CausalInv
<1>1. /\ n \in WalNodes /\ up[n] /\ LogTouches(n, t)
      /\ log'[n].tasks = Replayed(log[n].tasks, t, r)
      /\ \A p \in Peers : log'[p].vc = log[p].vc
  BY CutShortLogs, Zenon
<1>2. r \in TaskRecord /\ (r.vc = Increment(vc[n], n) \/ FromMessage(n, t, r))
  BY InterruptedRecord, Zenon
<1>3. ASSUME NEW p \in WalNodes PROVE r.vc[p] <= Reach(p)
  <2>1. CASE r.vc = Increment(vc[n], n)
    <3>1. vc[n] \in VectorClock /\ vc[n][p] <= Reach(p)
      BY Zenon DEF TypeOK, ClocksWithin
    <3>2. CASE p = n
      <4>1. Reach(p) = vc[n][n] + 1
        BY <1>1, <3>2, Zenon DEF Reach, OwnCounter
      <4>2. r.vc[p] = vc[n][n] + 1 /\ vc[n][n] \in Nat
        BY <2>1, <3>1, <3>2, Zenon DEF Increment, VectorClock
      <4> QED
        BY <4>1, <4>2
    <3>3. CASE p # n
      <4>1. r.vc[p] = vc[n][p]
        BY <2>1, <3>1, <3>3, Zenon DEF Increment, VectorClock
      <4> QED
        BY <3>1, <4>1, Zenon
    <3> QED
      BY <3>2, <3>3, Zenon
  <2>2. CASE FromMessage(n, t, r)
    <3> PICK m \in net : m.task = t /\ r = Joined(tasks[n][t], m.rec)
      BY <2>2, Zenon DEF FromMessage
    <3>1. m.rec \in TaskRecord
      BY Zenon DEF TypeOK, Message
    <3>2. tasks[n][t] \in TaskRecord \cup {NoRecord}
      BY EntryTypes, Zenon
    <3>3. m.rec.vc[p] <= Reach(p) /\ tasks[n][t].vc[p] <= Reach(p)
      BY Zenon DEF ClocksWithin
    <3> QED
      BY <3>1, <3>2, <3>3, ReachType, JoinedBound, Zenon
  <2> QED
    BY <1>2, <2>1, <2>2, Zenon
<1>4. ASSUME NEW p \in WalNodes, NEW k \in Peers, NEW u \in Tasks
      PROVE  log'[k].tasks[u].vc[p] <= Reach(p)
  <2>1. \A w \in Tasks : log[k].tasks[w].vc[p] <= Reach(p)
    BY Zenon DEF ClocksWithin
  <2>2. CASE k = n
    <3>1. log[n].tasks \in Store
      BY Zenon DEF TypeOK
    <3>2. \A w \in Tasks : Replayed(log[n].tasks, t, r)[w].vc[p] <= Reach(p)
      BY <1>2, <1>3, <2>1, <2>2, <3>1, ReachType, ReplayedBound, Zenon
    <3> QED
      BY <1>1, <2>2, <3>2, Zenon
  <2>3. CASE k # n
    BY <1>1, <2>1, <2>3, Zenon DEF LogTouches
  <2> QED
    BY <2>2, <2>3, Zenon
<1>5. Halts(n) /\ net' = net
  BY Zenon DEF CutShort
<1> QED
  BY <1>1, <1>4, <1>5, HaltCausal, Zenon

(* A peer that comes back takes the clock of its log. *)
LEMMA RestartCausal ==
    ASSUME CausalInv, TypeOK', NEW n \in Peers, Restart(n)
    PROVE  CausalInv'
<1> USE RolesAssumption
<1> TypeOK /\ ClocksWithin /\ DurableClock
  BY Zenon DEF CausalInv
<1>1. /\ ~ up[n] /\ up' = [up EXCEPT ![n] = TRUE] /\ log' = log
      /\ vc' = [vc EXCEPT ![n] = log[n].vc]
  BY Zenon DEF Restart, Recovered
<1>2. \A p \in WalNodes : Reach(p)' = Reach(p)
  BY <1>1, Zenon DEF Reach, OwnCounter, TypeOK
<1>3. \A k \in Peers : vc'[k] = vc[k] \/ vc'[k] = log[k].vc
  BY <1>1, Zenon DEF TypeOK
<1>4. \A k \in Peers, u \in Tasks : tasks'[k][u] = tasks[k][u] \/ tasks'[k][u] = log[k].tasks[u]
  <2>1. \A p \in Peers, u \in Tasks :
            tasks'[p][u] = IF p = n THEN log[n].tasks[u] ELSE tasks[p][u]
    BY RestartRecovers, Zenon
  <2> SUFFICES ASSUME NEW k \in Peers, NEW u \in Tasks
               PROVE  tasks'[k][u] = tasks[k][u] \/ tasks'[k][u] = log[k].tasks[u]
    BY Zenon
  <2>2. tasks'[k][u] = IF k = n THEN log[n].tasks[u] ELSE tasks[k][u]
    BY <2>1, Zenon
  <2> QED
    BY <2>2, Zenon
<1>5. \A m \in net' : m \in net \/ \E u \in Tasks : m.rec = log[n].tasks[u]
  <2>1. \A m \in net' : m.task \in Tasks
    BY Zenon DEF TypeOK, Message
  <2>2. \A m \in net' : m \notin net => m.rec = log[n].tasks[m.task]
    BY RestartRecovers, Zenon
  <2> QED
    BY <2>1, <2>2, Zenon
<1>6. ClocksWithin'
  <2>1. \A p \in WalNodes, k \in Peers : vc'[k][p] <= Reach(p)
    BY <1>3, Zenon DEF ClocksWithin
  <2>2. \A p \in WalNodes : \A k \in Peers, u \in Tasks : tasks'[k][u].vc[p] <= Reach(p)
    BY <1>4, Zenon DEF ClocksWithin
  <2>3. \A p \in WalNodes : \A m \in net' : m.rec.vc[p] <= Reach(p)
    BY <1>5, Zenon DEF ClocksWithin
  <2> QED
    BY <1>1, <1>2, <2>1, <2>2, <2>3, Zenon DEF ClocksWithin
<1>7. DurableClock'
  BY <1>1, Zenon DEF DurableClock, TypeOK
<1> QED
  BY <1>6, <1>7, Zenon DEF CausalInv

(* At the start all clocks are zero. *)
LEMMA CausalInit == Init /\ TypeOK => CausalInv
<1> SUFFICES ASSUME Init, TypeOK PROVE CausalInv
  BY Zenon
<1>1. DurableClock
  BY RolesAssumption, Zenon DEF Init, DurableClock
<1>2. \A n \in Peers : vc[n] = ZeroClock /\ log[n].vc = ZeroClock
  BY Zenon DEF Init
<1>3. \A n \in Peers, t \in Tasks : tasks[n][t].vc = ZeroClock /\ log[n].tasks[t].vc = ZeroClock
  BY NoRecordType, Zenon DEF Init, EmptyStore
<1>4. \A p \in WalNodes : ZeroClock[p] <= Reach(p)
  BY ReachType, RolesAssumption DEF ZeroClock
<1>5. net = {}
  BY Zenon DEF Init
<1>6. ClocksWithin
  BY <1>2, <1>3, <1>4, <1>5, Zenon DEF ClocksWithin
<1> QED
  BY <1>1, <1>6, Zenon DEF CausalInv

(* Every step keeps the bound on the clocks. *)
LEMMA CausalNext ==
    ASSUME MemoryInv, CausalInv, TypeOK', [Next]_vars
    PROVE  CausalInv'
<1> TypeOK /\ Held
  BY Zenon DEF MemoryInv
<1>1. ASSUME UNCHANGED <<up, tasks, vc, log, net>> PROVE CausalInv'
  BY <1>1, Zenon DEF CausalInv, DurableClock, ClocksWithin, OwnCounter, Reach
<1>2. CASE UNCHANGED vars \/ Tick
  BY <1>1, <1>2, Zenon DEF vars, Tick
<1>3. ASSUME NEW n \in Peers, NEW t \in Tasks, Submit(n, t) PROVE CausalInv'
  <2> DEFINE r == NewTask(n)
  <2>1. Writes(n, t, r)
    BY <1>3, SubmitWrites, Zenon
  <2>2. r.vc = Increment(vc[n], n)
    BY Zenon DEF NewTask, SealRecord, SignTask, NewRecord
  <2>3. LogAppend(n, t, r, Increment(vc[n], n)) /\ vc' = [vc EXCEPT ![n] = Increment(vc[n], n)]
    BY <1>3, Zenon DEF Submit
  <2> QED
    BY <2>1, <2>2, <2>3, EventStep, Zenon
<1>4. ASSUME NEW n \in Peers, NEW m \in net, Receive(n, m) PROVE CausalInv'
  BY <1>4, ReceiveCausal, Zenon
<1>5. ASSUME NEW n \in Peers, NEW S, WorkerSkip(n, S) PROVE CausalInv'
  BY <1>1, <1>5, Zenon DEF WorkerSkip
<1>6. ASSUME NEW n \in Peers, NEW S, NEW d, WorkerClaim(n, S, d) PROVE CausalInv'
  <2> DEFINE t == Head(queue[n]).task
             r == Claim(n, t, d)
  <2>1. Writes(n, t, r)
    BY <1>6, ClaimWrites, Zenon
  <2>2. r.vc = Increment(vc[n], n)
    BY Zenon DEF Claim, SealRecord, SignTask, NewRecord
  <2>3. BroadcastTaskUpdate(n, t, r, Increment(vc[n], n))
    BY <1>6, Zenon DEF WorkerClaim
  <2> QED
    BY <2>1, <2>2, <2>3, BroadcastStep, Zenon
<1>7. ASSUME NEW n \in Peers, WorkerRun(n) PROVE CausalInv'
  BY <1>7, RunCausal, Zenon
<1>8. ASSUME NEW n \in Peers, WorkerReject(n) PROVE CausalInv'
  BY <1>1, <1>8, Zenon DEF WorkerReject
<1>9. ASSUME NEW n \in Peers, NEW outcome \in Outcomes, WorkerCommit(n, outcome)
      PROVE CausalInv'
  <2> DEFINE r == Result(n, outcome)
  <2>1. Writes(n, worker[n].task, r)
    BY <1>9, CommitWrites, Zenon
  <2>2. r.vc = Increment(vc[n], n)
    BY Zenon DEF Result, SealRecord, SignTask, NewRecord
  <2>3. BroadcastTaskUpdate(n, worker[n].task, r, Increment(vc[n], n))
    BY <1>9, Zenon DEF WorkerCommit
  <2> QED
    BY <2>1, <2>2, <2>3, BroadcastStep, Zenon
<1>10. ASSUME NEW n \in Peers, NEW t \in Tasks, NEW S, ReclaimEnqueue(n, t, S) PROVE CausalInv'
  BY <1>1, <1>10, Zenon DEF ReclaimEnqueue
<1>11. ASSUME NEW n \in Peers, NEW t \in Tasks, NEW S, ReclaimRelease(n, t, S) PROVE CausalInv'
  <2> DEFINE r == Released(n, t, S)
  <2>1. Writes(n, t, r)
    BY <1>11, ReleaseWrites, Zenon
  <2>2. r.vc = Increment(vc[n], n)
    BY Zenon DEF Released, SealRecord, SignTask, NewRecord
  <2>3. BroadcastTaskUpdate(n, t, r, Increment(vc[n], n))
    BY <1>11, Zenon DEF ReclaimRelease
  <2> QED
    BY <2>1, <2>2, <2>3, BroadcastStep, Zenon
<1>12. ASSUME NEW n \in Peers, ReclaimEnd(n) PROVE CausalInv'
  BY <1>1, <1>12, Zenon DEF ReclaimEnd
<1>13. ASSUME NEW n \in Peers, Crash(n) PROVE CausalInv'
  <2>1. Halts(n) /\ log' = log /\ net' = net
    BY <1>13, Zenon DEF Crash
  <2>2. \A p \in WalNodes : \A k \in Peers, u \in Tasks : log'[k].tasks[u].vc[p] <= Reach(p)
    BY <2>1, Zenon DEF CausalInv, ClocksWithin
  <2> QED
    BY <2>1, <2>2, HaltCausal, Zenon
<1>14. ASSUME NEW n \in Peers, Restart(n) PROVE CausalInv'
  BY <1>14, RestartCausal, Zenon
<1>15. ASSUME NEW n \in Peers, CrashInAppend(n) PROVE CausalInv'
  BY <1>15, AppendInterrupted, CutShortCausal, Zenon
<1> QED
  BY <1>2, <1>3, <1>4, <1>5, <1>6, <1>7, <1>8, <1>9, <1>10, <1>11, <1>12, <1>13, <1>14, <1>15,
     Zenon
  DEF Next, NodeStep

-----------------------------------------------------------------------------
(* What is below an entry of a log *)

(* The log has token k, a higher one, or a result. *)
TokenLogged(k, s) == s # NoRecord /\ (~ TokenGreater(k, s.token) \/ IsTerminal(s.state))

(* The log makes up for record r: RUNNING, which is not logged, comes back  *)
(* as a claim under its token at least, any other record as itself at least. *)
BelowLog(r, s) ==
    /\ s # NoRecord
    /\ IF r.state = "RUNNING" THEN TokenLogged(r.token, s)
       ELSE ClockLeq(r.vc, s.vc) /\ LexGeq(RecordLatticeKey(s), RecordLatticeKey(r))

(* What a peer holds, what it has sent, and the claim that its worker is    *)
(* busy with are all below its log.                                         *)
LogInv ==
    \A n \in WalNodes, t \in Tasks :
        /\ up[n] /\ tasks[n][t] # NoRecord => BelowLog(tasks[n][t], log[n].tasks[t])
        /\ \A m \in net : m.from = n /\ m.task = t => BelowLog(m.rec, log[n].tasks[t])
        /\ worker[n].pc # "idle" /\ worker[n].task = t =>
               TokenLogged(worker[n].token, log[n].tasks[t])

(* x, which the log has now, is at least s, which it had before. *)
Supersedes(x, s) ==
    /\ x \in TaskRecord
    /\ ClockLeq(s.vc, x.vc) /\ LexGeq(RecordLatticeKey(x), RecordLatticeKey(s))

(* An entry is at least itself. *)
LEMMA SupersedesItself ==
    ASSUME NEW x \in TaskRecord
    PROVE  Supersedes(x, x)
<1>1. \A p \in Peers : x.vc[p] \in Nat
  BY RecordParts, Zenon DEF VectorClock
<1>2. ClockLeq(x.vc, x.vc)
  <2>1. \A i \in Nat : i <= i
    OBVIOUS
  <2> QED
    BY <1>1, <2>1, Zenon DEF ClockLeq
<1>3. LexGeq(RecordLatticeKey(x), RecordLatticeKey(x))
  BY RecordParts DEF LexGeq
<1> QED
  BY <1>2, <1>3, Zenon DEF Supersedes

(* Tokens stay logged when the entry grows. *)
LEMMA TokenStaysLogged ==
    ASSUME NEW k \in FenceToken, NEW s \in TaskRecord, NEW x, Supersedes(x, s), TokenLogged(k, s)
    PROVE  TokenLogged(k, x)
<1>1. x \in TaskRecord /\ LexGeq(RecordLatticeKey(x), RecordLatticeKey(s)) /\ x # NoRecord
  BY NoRecordType, Zenon DEF Supersedes
<1>2. /\ IsTerminal(s.state) => IsTerminal(x.state)
      /\ IsTerminal(s.state) = IsTerminal(x.state) => ~ TokenGreater(s.token, x.token)
  BY <1>1, AboveMeans, Zenon
<1>3. /\ s.token.epoch \in Nat /\ s.token.peer \in Nat
      /\ x.token.epoch \in Nat /\ x.token.peer \in Nat
  BY <1>1, RecordParts, Zenon
<1>4. k.epoch \in Nat /\ k.peer \in Nat
  <2>1. k.epoch \in Nat /\ k.peer \in Peers \cup {0}
    BY Zenon DEF FenceToken
  <2>2. \A p \in Peers \cup {0} : p \in Nat
    BY PeersAssumption
  <2> QED
    BY <2>1, <2>2, Zenon
<1>5. CASE ~ IsTerminal(x.state)
  <2>1. ~ TokenGreater(k, s.token) /\ ~ TokenGreater(s.token, x.token)
    BY <1>2, <1>5 DEF TokenLogged, IsTerminal
  <2>2. ~ TokenGreater(k, x.token)
    BY <1>3, <1>4, <2>1 DEF TokenGreater
  <2> QED
    BY <1>1, <2>2, Zenon DEF TokenLogged
<1> QED
  BY <1>1, <1>5, Zenon DEF TokenLogged

(* So do records. *)
LEMMA RecordStaysLogged ==
    ASSUME NEW r \in TaskRecord, NEW s \in TaskRecord, NEW x, Supersedes(x, s), BelowLog(r, s)
    PROVE  BelowLog(r, x)
<1>1. x \in TaskRecord /\ x # NoRecord
  BY NoRecordType, Zenon DEF Supersedes
<1>2. CASE r.state = "RUNNING"
  <2>1. r.token \in FenceToken
    BY RecordParts, Zenon
  <2>2. TokenLogged(r.token, x)
    BY <1>2, <2>1, TokenStaysLogged, Zenon DEF BelowLog
  <2> QED
    BY <1>1, <1>2, <2>2, Zenon DEF BelowLog
<1>3. CASE r.state # "RUNNING"
  <2>1. r.vc \in VectorClock /\ s.vc \in VectorClock /\ x.vc \in VectorClock
    BY <1>1, RecordParts, Zenon
  <2>2. ClockLeq(r.vc, x.vc)
    <3>1. \A p \in Peers : r.vc[p] <= s.vc[p] /\ s.vc[p] <= x.vc[p]
      BY <1>3, Zenon DEF BelowLog, Supersedes, ClockLeq
    <3>2. \A p \in Peers : r.vc[p] \in Nat /\ s.vc[p] \in Nat /\ x.vc[p] \in Nat
      BY <2>1, Zenon DEF VectorClock
    <3>3. \A p \in Peers : r.vc[p] <= x.vc[p]
      <4> TAKE p \in Peers
      <4>1. /\ r.vc[p] <= s.vc[p] /\ s.vc[p] <= x.vc[p]
            /\ r.vc[p] \in Nat /\ s.vc[p] \in Nat /\ x.vc[p] \in Nat
        BY <3>1, <3>2, Zenon
      <4> QED
        BY <4>1
    <3> QED
      BY <3>3, Zenon DEF ClockLeq
  <2>3. /\ RecordLatticeKey(r) \in Key /\ RecordLatticeKey(s) \in Key
        /\ RecordLatticeKey(x) \in Key
    BY <1>1, KeyType, Zenon
  <2>4. LexGeq(RecordLatticeKey(x), RecordLatticeKey(r))
    BY <1>3, <2>3, LexTransitive, Zenon DEF BelowLog, Supersedes
  <2> QED
    BY <1>1, <1>3, <2>2, <2>4, Zenon DEF BelowLog
<1> QED
  BY <1>2, <1>3, Zenon

(* A join of two records that are authorised is above both. *)
LEMMA JoinIsAbove ==
    ASSUME NEW s \in TaskRecord \cup {NoRecord}, NEW r \in TaskRecord, Authentic(s), Authentic(r)
    PROVE  /\ s # NoRecord => Supersedes(Joined(s, r), s)
           /\ Supersedes(Joined(s, r), r)
<1>1. CASE s = NoRecord
  <2>1. Joined(s, r) = r /\ r.vc \in VectorClock
    BY <1>1, RecordParts, Zenon DEF Joined
  <2>2. ClockLeq(r.vc, r.vc) /\ LexGeq(RecordLatticeKey(r), RecordLatticeKey(r))
    BY <2>1 DEF ClockLeq, VectorClock, LexGeq
  <2> QED
    BY <1>1, <2>1, <2>2, Zenon DEF Supersedes
<1>2. CASE s # NoRecord
  <2> DEFINE x == MergeRecords(s, r)
  <2>1. Joined(s, r) = x /\ s \in TaskRecord
    BY <1>2, Zenon DEF Joined
  <2>2. /\ x \in TaskRecord /\ x.vc = MergeClocks(s.vc, r.vc)
        /\ LexGeq(RecordLatticeKey(x), RecordLatticeKey(s))
        /\ LexGeq(RecordLatticeKey(x), RecordLatticeKey(r))
    BY <1>2, <2>1, AuthenticMerge, Zenon
  <2>3. s.vc \in VectorClock /\ r.vc \in VectorClock
    BY <2>1, RecordParts, Zenon
  <2> HIDE DEF x
  <2>4. ClockLeq(s.vc, x.vc) /\ ClockLeq(r.vc, x.vc)
    BY <2>2, <2>3 DEF ClockLeq, MergeClocks, VectorClock
  <2> QED
    BY <2>1, <2>2, <2>4, Zenon DEF Supersedes
<1> QED
  BY <1>1, <1>2, Zenon

(* What is above a record makes up for it. *)
LEMMA AboveIsBelowLog ==
    ASSUME NEW r \in TaskRecord, NEW x, Supersedes(x, r)
    PROVE  BelowLog(r, x) /\ TokenLogged(r.token, x)
<1>1. /\ x \in TaskRecord /\ x # NoRecord
      /\ ClockLeq(r.vc, x.vc) /\ LexGeq(RecordLatticeKey(x), RecordLatticeKey(r))
  BY NoRecordType, Zenon DEF Supersedes
<1>2. TokenLogged(r.token, x)
  BY <1>1, AboveMeans DEF TokenLogged, IsTerminal
<1> QED
  BY <1>1, <1>2, Zenon DEF BelowLog

-----------------------------------------------------------------------------
(* LogInv, step by step *)

(* The log makes up for everything that it made up for before. *)
LogGrows ==
    \A n \in WalNodes, t \in Tasks :
        /\ \A r \in TaskRecord : BelowLog(r, log[n].tasks[t]) => BelowLog(r, log'[n].tasks[t])
        /\ \A k \in FenceToken : TokenLogged(k, log[n].tasks[t]) => TokenLogged(k, log'[n].tasks[t])

(* A record that is logged does not take back any other, and is itself logged. *)
LEMMA AppendGrows ==
    ASSUME TypeOK, SignaturesHold, NEW n \in Peers, NEW t \in Tasks, NEW r \in TaskRecord,
           Authentic(r), Logged(n, t, r)
    PROVE  /\ LogGrows
           /\ n \in WalNodes => /\ BelowLog(r, log'[n].tasks[t])
                                /\ TokenLogged(r.token, log'[n].tasks[t])
<1> DEFINE s == log[n].tasks[t]
           x == Joined(s, r)
<1>1. s \in TaskRecord \cup {NoRecord} /\ Authentic(s)
  BY EntryTypes, Zenon DEF SignaturesHold
<1>2. (s # NoRecord => Supersedes(x, s)) /\ Supersedes(x, r)
  BY <1>1, JoinIsAbove, Zenon
<1>3. n \in WalNodes => log'[n].tasks[t] = x
  BY Zenon DEF Logged
<1>4. \A p \in WalNodes, u \in Tasks : p # n \/ u # t => log'[p].tasks[u] = log[p].tasks[u]
  BY RolesAssumption, Zenon DEF Logged, LogTouches
<1> HIDE DEF s, x
<1>5. BelowLog(r, x) /\ TokenLogged(r.token, x)
  BY <1>2, AboveIsBelowLog, Zenon
<1>6. ASSUME NEW k \in FenceToken, TokenLogged(k, s) PROVE TokenLogged(k, x)
  BY <1>1, <1>2, <1>6, TokenStaysLogged, Zenon DEF TokenLogged
<1>7. ASSUME NEW y \in TaskRecord, BelowLog(y, s) PROVE BelowLog(y, x)
  BY <1>1, <1>2, <1>7, RecordStaysLogged, Zenon DEF BelowLog
<1>8. LogGrows
  <2> SUFFICES ASSUME NEW p \in WalNodes, NEW u \in Tasks
               PROVE  /\ \A y \in TaskRecord : BelowLog(y, log[p].tasks[u]) => BelowLog(y, log'[p].tasks[u])
                      /\ \A k \in FenceToken :
                             TokenLogged(k, log[p].tasks[u]) => TokenLogged(k, log'[p].tasks[u])
    BY Zenon DEF LogGrows
  <2>1. CASE p = n /\ u = t
    BY <1>3, <1>6, <1>7, <2>1, Zenon DEF s
  <2>2. CASE p # n \/ u # t
    BY <1>4, <2>2, Zenon
  <2> QED
    BY <2>1, <2>2, Zenon
<1> QED
  BY <1>3, <1>5, <1>8, Zenon

(* LogInv after a write: what n writes is below its log, and a worker that   *)
(* is busy was busy with the same claim before, or has a logged token.       *)
LEMMA WriteKeepsLogInv ==
    ASSUME TypeOK, TypeOK', LogInv, LogGrows, NEW n \in Peers, NEW t, NEW r, Writes(n, t, r),
           n \in WalNodes => BelowLog(r, log'[n].tasks[t]),
           \A p \in WalNodes : worker'[p].pc # "idle" =>
               \/ /\ worker[p].pc # "idle"
                  /\ worker'[p].task = worker[p].task /\ worker'[p].token = worker[p].token
               \/ TokenLogged(worker'[p].token, log'[p].tasks[worker'[p].task])
    PROVE  LogInv'
<1> SUFFICES ASSUME NEW p \in WalNodes, NEW u \in Tasks
             PROVE  /\ up'[p] /\ tasks'[p][u] # NoRecord => BelowLog(tasks'[p][u], log'[p].tasks[u])
                    /\ \A m \in net' : m.from = p /\ m.task = u => BelowLog(m.rec, log'[p].tasks[u])
                    /\ worker'[p].pc # "idle" /\ worker'[p].task = u =>
                           TokenLogged(worker'[p].token, log'[p].tasks[u])
  BY Zenon DEF LogInv
<1>1. /\ p \in Peers /\ t \in Tasks /\ up' = up
      /\ tasks'[p][u] = IF p = n /\ u = t THEN r ELSE tasks[p][u]
  BY RolesAssumption, Zenon DEF Writes, Stored
<1>2. /\ \A y \in TaskRecord : BelowLog(y, log[p].tasks[u]) => BelowLog(y, log'[p].tasks[u])
      /\ \A k \in FenceToken : TokenLogged(k, log[p].tasks[u]) => TokenLogged(k, log'[p].tasks[u])
  BY Zenon DEF LogGrows
<1>3. up'[p] /\ tasks'[p][u] # NoRecord => BelowLog(tasks'[p][u], log'[p].tasks[u])
  <2>1. CASE p = n /\ u = t
    BY <1>1, <2>1, Zenon
  <2>2. CASE p # n \/ u # t
    <3>1. tasks[p][u] # NoRecord => tasks[p][u] \in TaskRecord
      BY <1>1, EntryTypes, Zenon
    <3>2. up[p] /\ tasks[p][u] # NoRecord => BelowLog(tasks[p][u], log[p].tasks[u])
      BY Zenon DEF LogInv
    <3> QED
      BY <1>1, <1>2, <2>2, <3>1, <3>2, Zenon
  <2> QED
    BY <2>1, <2>2, Zenon
<1>4. ASSUME NEW m \in net', m.from = p, m.task = u PROVE BelowLog(m.rec, log'[p].tasks[u])
  <2>1. m.rec \in TaskRecord
    BY Zenon DEF TypeOK, Message
  <2>2. CASE m \in net
    <3>1. BelowLog(m.rec, log[p].tasks[u])
      BY <1>4, <2>2, Zenon DEF LogInv
    <3> QED
      BY <1>2, <2>1, <3>1, Zenon
  <2>3. CASE m \notin net
    <3>1. p = n /\ m.rec = tasks'[p][u] /\ up[n]
      BY <1>4, <2>3, Zenon DEF Writes, Stored
    <3> QED
      BY <1>1, <1>3, <2>1, <3>1, NoRecordType, Zenon
  <2> QED
    BY <2>2, <2>3, Zenon
<1>5. ASSUME worker'[p].pc # "idle", worker'[p].task = u
      PROVE  TokenLogged(worker'[p].token, log'[p].tasks[u])
  <2>1. CASE /\ worker[p].pc # "idle"
             /\ worker'[p].task = worker[p].task /\ worker'[p].token = worker[p].token
    <3>1. worker[p].token \in FenceToken
      BY <1>1, Zenon DEF TypeOK, WorkerState
    <3>2. TokenLogged(worker[p].token, log[p].tasks[u])
      BY <1>5, <2>1, Zenon DEF LogInv
    <3> QED
      BY <1>2, <2>1, <3>1, <3>2, Zenon
  <2> QED
    BY <1>5, <2>1, Zenon
<1> QED
  BY <1>3, <1>4, <1>5, Zenon

(* LogInv after a write that is appended *)
LEMMA AppendKeepsLogInv ==
    ASSUME TypeOK, TypeOK', SignaturesHold, SignaturesHold', LogKnows, LogInv,
           NEW n \in Peers, NEW t, NEW r, Writes(n, t, r), Appends(n, t, r),
           \A p \in Peers : worker'[p].pc # "idle" =>
               \/ /\ worker[p].pc # "idle"
                  /\ worker'[p].task = worker[p].task /\ worker'[p].token = worker[p].token
               \/ p = n /\ worker'[p].task = t /\ worker'[p].token = r.token
    PROVE  LogInv'
<1>1. t \in Tasks /\ r \in TaskRecord /\ Authentic(r) /\ Logged(n, t, r)
  BY WritesAuthentic, Zenon DEF Writes, Appends
<1>2. /\ LogGrows
      /\ n \in WalNodes => BelowLog(r, log'[n].tasks[t]) /\ TokenLogged(r.token, log'[n].tasks[t])
  BY <1>1, AppendGrows, Zenon
<1>3. \A p \in WalNodes : worker'[p].pc # "idle" =>
          \/ /\ worker[p].pc # "idle"
             /\ worker'[p].task = worker[p].task /\ worker'[p].token = worker[p].token
          \/ TokenLogged(worker'[p].token, log'[p].tasks[worker'[p].task])
  BY <1>2, RolesAssumption, Zenon
<1> QED
  BY <1>2, <1>3, WriteKeepsLogInv, Zenon

(* LogInv after the end of a process whose log has not lost anything *)
LEMMA HaltKeepsLogInv ==
    ASSUME TypeOK, LogInv, LogGrows, NEW n \in Peers, Forgets(n)
    PROVE  LogInv'
<1> SUFFICES ASSUME NEW p \in WalNodes, NEW u \in Tasks
             PROVE  /\ up'[p] /\ tasks'[p][u] # NoRecord => BelowLog(tasks'[p][u], log'[p].tasks[u])
                    /\ \A m \in net' : m.from = p /\ m.task = u => BelowLog(m.rec, log'[p].tasks[u])
                    /\ worker'[p].pc # "idle" /\ worker'[p].task = u =>
                           TokenLogged(worker'[p].token, log'[p].tasks[u])
  BY Zenon DEF LogInv
<1>1. p \in Peers
  BY RolesAssumption, Zenon
<1>2. /\ \A y \in TaskRecord : BelowLog(y, log[p].tasks[u]) => BelowLog(y, log'[p].tasks[u])
      /\ \A k \in FenceToken : TokenLogged(k, log[p].tasks[u]) => TokenLogged(k, log'[p].tasks[u])
  BY Zenon DEF LogGrows
<1>3. /\ up'[p] <=> p # n /\ up[p]
      /\ tasks'[p][u] = IF p = n THEN NoRecord ELSE tasks[p][u]
      /\ worker'[p] = IF p = n THEN Idle ELSE worker[p]
      /\ net' = net
  BY <1>1, Zenon DEF Forgets
<1>4. \A m \in net' : m.from = p /\ m.task = u => BelowLog(m.rec, log'[p].tasks[u])
  <2>1. \A m \in net : m.rec \in TaskRecord
    BY Zenon DEF TypeOK, Message
  <2> QED
    BY <1>2, <1>3, <2>1, Zenon DEF LogInv
<1>5. CASE p = n
  <2>1. ~ up'[p] /\ worker'[p] = Idle
    BY <1>3, <1>5, Zenon
  <2>2. Idle.pc = "idle"
    BY Zenon DEF Idle
  <2> QED
    BY <1>4, <2>1, <2>2, Zenon
<1>6. CASE p # n
  <2>1. (up'[p] <=> up[p]) /\ tasks'[p][u] = tasks[p][u] /\ worker'[p] = worker[p]
    BY <1>3, <1>6, Zenon
  <2>2. tasks[p][u] # NoRecord => tasks[p][u] \in TaskRecord
    BY <1>1, EntryTypes, Zenon
  <2>3. worker[p].token \in FenceToken
    BY <1>1, Zenon DEF TypeOK, WorkerState
  <2>4. /\ up[p] /\ tasks[p][u] # NoRecord => BelowLog(tasks[p][u], log[p].tasks[u])
        /\ worker[p].pc # "idle" /\ worker[p].task = u =>
               TokenLogged(worker[p].token, log[p].tasks[u])
    BY Zenon DEF LogInv
  <2> QED
    BY <1>2, <1>4, <2>1, <2>2, <2>3, <2>4, Zenon
<1> QED
  BY <1>5, <1>6, Zenon

(* What the proof of AnnouncedIsLogged needs *)
AnnouncedInv == MemoryInv /\ LogKnows /\ LogInv

(* Nothing has been announced at the start. *)
LEMMA AnnouncedInit == Init /\ TypeOK => AnnouncedInv
<1>1. Init => LogInv
  BY RolesAssumption DEF Init, LogInv, EmptyStore, Idle
<1> QED
  BY <1>1, MemoryInit, LogKnowsInit, Zenon DEF AnnouncedInv

(* Every step keeps AnnouncedInv, as long as the signatures hold. *)
LEMMA AnnouncedNext ==
    ASSUME AnnouncedInv, TypeOK', [Next]_vars, SignaturesHold, SignaturesHold'
    PROVE  AnnouncedInv'
<1> /\ TypeOK /\ Held /\ Submitted /\ LogKnows /\ LogInv
    /\ MemoryInv' /\ TypeOK' /\ LogKnows'
  BY MemoryNext, LogKnowsNext, Zenon DEF AnnouncedInv, MemoryInv
<1>2. ASSUME NEW n \in Peers, NEW t \in Tasks, Submit(n, t) PROVE LogInv'
  <2>1. Writes(n, t, NewTask(n)) /\ Appends(n, t, NewTask(n)) /\ worker' = worker
    BY <1>2, SubmitWrites, Zenon
  <2> QED
    BY <2>1, AppendKeepsLogInv, Zenon
<1>3. ASSUME NEW n \in Peers, NEW m \in net, Receive(n, m) PROVE LogInv'
  <2> DEFINE r == Joined(tasks[n][m.task], m.rec)
  <2>1. Writes(n, m.task, r) /\ Appends(n, m.task, r) /\ worker' = worker
    BY <1>3, ReceiveWrites, Zenon
  <2> HIDE DEF r
  <2> QED
    BY <2>1, AppendKeepsLogInv, Zenon
<1>4. ASSUME NEW n \in Peers, NEW S, NEW d, WorkerClaim(n, S, d) PROVE LogInv'
  <2> DEFINE t == Head(queue[n]).task
             r == Claim(n, t, d)
             w == [pc |-> "claimed", task |-> t, token |-> NextFor(tasks[n][t].token, n),
                   lease |-> LocalNow(n) + d]
  <2>1. /\ Writes(n, t, r) /\ Appends(n, t, r)
        /\ worker' = [worker EXCEPT ![n] = w]
    BY <1>4, ClaimWrites, Zenon
  <2>2. w.task = t /\ w.token = r.token
    BY Zenon DEF Claim, SealRecord, SignTask, NewRecord
  <2> HIDE DEF r, t, w
  <2>3. \A p \in Peers : worker'[p] = IF p = n THEN w ELSE worker[p]
    BY <2>1, Zenon DEF TypeOK
  <2> QED
    BY <2>1, <2>2, <2>3, AppendKeepsLogInv
<1>5. ASSUME NEW n \in Peers, WorkerRun(n) PROVE LogInv'
  <2> DEFINE t == worker[n].task
             r == Running(n)
  <2>1. /\ Writes(n, t, r) /\ worker[n].pc = "claimed"
        /\ worker' = [worker EXCEPT ![n].pc = "running"] /\ log' = log
    BY <1>5, RunWrites, Zenon
  <2>2. LogGrows
    BY <2>1, Zenon DEF LogGrows
  <2>3. r.state = "RUNNING" /\ r.token = worker[n].token
    BY Zenon DEF Running, SealRecord, SignTask, NewRecord
  <2>4. n \in WalNodes => TokenLogged(worker[n].token, log[n].tasks[t])
    BY <2>1, Zenon DEF LogInv, Writes, AnnouncedInv
  <2> HIDE DEF r, t
  <2>5. n \in WalNodes => BelowLog(r, log'[n].tasks[t])
    BY <2>1, <2>3, <2>4, Zenon DEF BelowLog, TokenLogged
  <2>6. \A p \in Peers : worker'[p].pc # "idle" =>
            /\ worker[p].pc # "idle"
            /\ worker'[p].task = worker[p].task /\ worker'[p].token = worker[p].token
    <3>1. /\ worker'[n] = [worker[n] EXCEPT !.pc = "running"]
          /\ \A p \in Peers : p # n => worker'[p] = worker[p]
      BY <2>1, Zenon DEF TypeOK
    <3>2. worker[n] \in WorkerState
      BY Zenon DEF TypeOK
    <3>3. worker'[n].task = worker[n].task /\ worker'[n].token = worker[n].token
      BY <3>1, <3>2, Zenon DEF WorkerState
    <3> QED
      BY <2>1, <3>1, <3>3, Zenon
  <2> QED
    BY <2>1, <2>2, <2>5, <2>6, RolesAssumption, WriteKeepsLogInv, Zenon
<1>6. ASSUME NEW n \in Peers, NEW outcome \in Outcomes, WorkerCommit(n, outcome) PROVE LogInv'
  <2> DEFINE t == worker[n].task
             r == Result(n, outcome)
  <2>1. /\ Writes(n, t, r) /\ Appends(n, t, r)
        /\ worker' = [worker EXCEPT ![n] = Idle]
    BY <1>6, CommitWrites, Zenon
  <2> HIDE DEF r, t
  <2>2. \A p \in Peers : worker'[p].pc # "idle" => worker'[p] = worker[p]
    BY <2>1, Zenon DEF TypeOK, Idle
  <2> QED
    BY <2>1, <2>2, AppendKeepsLogInv, Zenon
<1>7. ASSUME NEW n \in Peers, NEW t \in Tasks, NEW S, ReclaimRelease(n, t, S) PROVE LogInv'
  <2>1. Writes(n, t, Released(n, t, S)) /\ Appends(n, t, Released(n, t, S)) /\ worker' = worker
    BY <1>7, ReleaseWrites, Zenon
  <2> QED
    BY <2>1, AppendKeepsLogInv, Zenon
<1>8. ASSUME Rests PROVE LogInv'
  BY <1>8, RolesAssumption, Zenon DEF Rests, LogInv
<1>9. ASSUME NEW n \in Peers, Crash(n) PROVE LogInv'
  <2>1. Forgets(n) /\ log' = log
    BY <1>9, HaltForgets, Zenon DEF Crash
  <2>2. LogGrows
    BY <2>1, Zenon DEF LogGrows
  <2> QED
    BY <2>1, <2>2, HaltKeepsLogInv, Zenon
<1>10. ASSUME NEW n \in Peers, Restart(n) PROVE LogInv'
  <2>1. /\ \A p \in Peers : up'[p] <=> p = n \/ up[p]
        /\ \A p \in Peers, u \in Tasks :
               tasks'[p][u] = IF p = n THEN log[n].tasks[u] ELSE tasks[p][u]
        /\ \A m \in net' : m \notin net => m.from = n /\ m.rec = log[n].tasks[m.task]
        /\ log' = log /\ worker' = worker
    BY <1>10, RestartRecovers, Zenon
  <2>2. ASSUME NEW u \in Tasks, log[n].tasks[u] # NoRecord
        PROVE  BelowLog(log[n].tasks[u], log[n].tasks[u])
    <3>1. log[n].tasks[u] \in TaskRecord
      BY <2>2, EntryTypes, Zenon
    <3>2. Supersedes(log[n].tasks[u], log[n].tasks[u])
      BY <3>1, SupersedesItself, Zenon
    <3> QED
      BY <3>1, <3>2, AboveIsBelowLog, Zenon
  <2>3. \A m \in net' : m.rec \in TaskRecord /\ m.rec # NoRecord
    BY NoRecordType, Zenon DEF TypeOK, Message
  <2>4. ASSUME NEW p \in WalNodes, NEW u \in Tasks, up'[p], tasks'[p][u] # NoRecord
        PROVE  BelowLog(tasks'[p][u], log[p].tasks[u])
    <3>1. p \in Peers
      BY RolesAssumption, Zenon
    <3>2. (p = n \/ up[p]) /\ tasks'[p][u] = IF p = n THEN log[n].tasks[u] ELSE tasks[p][u]
      BY <2>1, <2>4, <3>1, Zenon
    <3>3. CASE p = n
      BY <2>2, <2>4, <3>2, <3>3, Zenon
    <3>4. CASE p # n
      BY <2>4, <3>2, <3>4, Zenon DEF LogInv
    <3> QED
      BY <3>3, <3>4, Zenon
  <2>5. ASSUME NEW p \in WalNodes, NEW u \in Tasks, NEW m \in net', m.from = p, m.task = u
        PROVE  BelowLog(m.rec, log[p].tasks[u])
    <3>1. CASE m \in net
      BY <2>5, <3>1, Zenon DEF LogInv
    <3>2. CASE m \notin net
      BY <2>1, <2>2, <2>3, <2>5, <3>2, Zenon
    <3> QED
      BY <3>1, <3>2, Zenon
  <2> QED
    BY <2>1, <2>4, <2>5, Zenon DEF LogInv
<1>11. ASSUME NEW n \in Peers, CrashInAppend(n) PROVE LogInv'
  <2>1. PICK t \in Tasks : \E r : CutShort(n, t, r) /\ Interrupted(n, t, r)
    BY <1>11, AppendInterrupted, Zenon
  <2>2. PICK r : CutShort(n, t, r) /\ Interrupted(n, t, r)
    BY <2>1, Zenon
  <2>3. r \in TaskRecord /\ r # NoRecord
    BY <2>2, InterruptedRecord, NoRecordType, Zenon
  <2>4. tasks[n][t] = NoRecord => Cardinality(Known(tasks[n])) < MaxTasks
    BY <2>2, InterruptedTask, Zenon
  <2>5. LogGrows
    <3>1. CASE Authentic(r)
      <4>1. Logged(n, t, r)
        BY <2>2, <2>3, <2>4, <3>1, CutShortLogs, Zenon
      <4> QED
        BY <2>3, <3>1, <4>1, AppendGrows, Zenon
    <3>2. CASE ~ Authentic(r)
      <4>1. LogTouches(n, t) /\ log'[n].tasks[t] = log[n].tasks[t]
        BY <2>2, <3>2, CutShortLogs, Zenon
      <4>2. \A p \in WalNodes, u \in Tasks : log'[p].tasks[u] = log[p].tasks[u]
        BY <4>1, RolesAssumption, Zenon DEF LogTouches
      <4> QED
        BY <4>2, Zenon DEF LogGrows
    <3> QED
      BY <3>1, <3>2, Zenon
  <2>6. Forgets(n)
    BY <2>2, CutShortLogs, Zenon
  <2> QED
    BY <2>5, <2>6, HaltKeepsLogInv, Zenon
<1>12. LogInv'
  BY <1>2, <1>3, <1>4, <1>5, <1>6, <1>7, <1>8, <1>9, <1>10, <1>11, OthersRest, Zenon
  DEF Next, NodeStep
<1> QED
  BY <1>12, Zenon DEF AnnouncedInv

-----------------------------------------------------------------------------
(* Queues of distinct tasks.  What the proofs use of sequences and of finite *)
(* sets is a hypothesis here, and PeerNodeProofs proves it from the theorems *)
(* of the library.                                                           *)

TasksOf(q) == {q[i].task : i \in DOMAIN q}

Distinct(q) == \A i, j \in DOMAIN q : q[i].task = q[j].task => i = j

(* Put keeps a queue a queue.  A task that is not in it finds room, is put   *)
(* there, and stays the only one.                                            *)
PutFacts ==
    \A q \in Seq(Entry), t \in Tasks, pri \in {0, 10} :
        /\ Put(q, t, pri) \in Seq(Entry)
        /\ Distinct(q) /\ t \notin TasksOf(q) =>
               /\ Len(q) < Cardinality(Tasks)
               /\ Distinct(Put(q, t, pri))
               /\ TasksOf(Put(q, t, pri)) = TasksOf(q) \cup {t}

(* The task at the head leaves, and no other. *)
TailFacts ==
    \A q \in Seq(Entry) : q # <<>> =>
        /\ Head(q) \in Entry /\ Tail(q) \in Seq(Entry)
        /\ Distinct(q) => /\ Distinct(Tail(q))
                          /\ TasksOf(Tail(q)) = TasksOf(q) \ {Head(q).task}

(* The order in which tasks are queued again leaves none out. *)
OrderFacts ==
    \A P \in SUBSET Tasks :
        /\ Cardinality(P) \in Nat /\ Cardinality(P) <= Cardinality(Tasks)
        /\ \A order \in [1 .. Cardinality(P) -> P] :
               (\A i, j \in 1 .. Cardinality(P) : order[i] = order[j] => i = j)
                   => {order[i] : i \in 1 .. Cardinality(P)} = P

QueueFacts == PutFacts /\ TailFacts /\ OrderFacts

-----------------------------------------------------------------------------
(* Type correctness *)

(* What the gossip loop sends of a store are messages. *)
LEMMA GossipType ==
    ASSUME NEW n \in Peers, NEW store \in Store
    PROVE  Gossip(n, store) \subseteq Message
<1>1. \A t \in Known(store) : t \in Tasks /\ store[t] \in TaskRecord
  BY Zenon DEF Known, Store
<1>2. \A t \in Known(store) : GossipMessage(n, t, store[t]) \in Message
  BY <1>1, Zenon DEF GossipMessage, Message
<1> QED
  BY <1>2, ZenonT(60) DEF Gossip

(* Appending to the log keeps its type. *)
LEMMA LogAppendType ==
    ASSUME TypeOK, NEW n \in Peers, NEW t \in Tasks, NEW r \in TaskRecord,
           NEW v \in VectorClock, LogAppend(n, t, r, v)
    PROVE  log' \in [Peers -> [tasks : Store, vc : VectorClock]]
<1>1. log[n].tasks \in Store /\ log[n].vc \in VectorClock
  BY Zenon DEF TypeOK
<1>2. Replayed(log[n].tasks, t, r) \in Store
  BY <1>1, ReplayedType, Zenon
<1>3. MergeClocks(log[n].vc, v) \in VectorClock
  BY <1>1, ClockTypes, Zenon
<1> QED
  BY <1>2, <1>3, Zenon DEF LogAppend, TypeOK

(* Storing a record, with the gossip that follows, keeps the types. *)
LEMMA SetTaskType ==
    ASSUME TypeOK, NEW n \in Peers, NEW t \in Tasks, NEW r \in TaskRecord, SetTask(n, t, r)
    PROVE  tasks' \in [Peers -> Store] /\ net' \subseteq Message
<1> DEFINE store == [tasks[n] EXCEPT ![t] = r]
<1>1. store \in Store
  BY Zenon DEF TypeOK, Store
<1>2. Gossip(n, store) \subseteq Message
  BY <1>1, GossipType, Zenon
<1> QED
  BY <1>1, <1>2, ZenonT(60) DEF SetTask, TypeOK

(* A broadcast, which stores, logs and sends, keeps the types. *)
LEMMA BroadcastType ==
    ASSUME TypeOK, NEW n \in Peers, NEW t \in Tasks, NEW r \in TaskRecord,
           NEW v \in VectorClock, BroadcastTaskUpdate(n, t, r, v)
    PROVE  /\ tasks' \in [Peers -> Store] /\ net' \subseteq Message
           /\ vc' \in [Peers -> VectorClock]
           /\ log' \in [Peers -> [tasks : Store, vc : VectorClock]]
<1> DEFINE store == [tasks[n] EXCEPT ![t] = r]
<1>1. store \in Store
  BY Zenon DEF TypeOK, Store
<1>2. Gossip(n, store) \subseteq Message
  BY <1>1, GossipType, Zenon
<1>3. GossipMessage(n, t, r) \in Message
  BY Zenon DEF GossipMessage, Message
<1>4. log' \in [Peers -> [tasks : Store, vc : VectorClock]]
  BY LogAppendType, Zenon DEF BroadcastTaskUpdate
<1> QED
  BY <1>1, <1>2, <1>3, <1>4, ZenonT(60) DEF BroadcastTaskUpdate, TypeOK

(* put_nowait under suppress(QueueFull) keeps the types. *)
LEMMA EnqueueType ==
    ASSUME PutFacts, TypeOK, NEW n \in Peers, NEW t \in Tasks, NEW pri \in {0, 10},
           NEW condition, EnqueueIf(n, t, pri, condition)
    PROVE  queue' \in [Peers -> Seq(Entry)] /\ queued' \in [Peers -> SUBSET Tasks]
<1>1. Put(queue[n], t, pri) \in Seq(Entry)
  BY Zenon DEF TypeOK, PutFacts
<1> QED
  BY <1>1, Zenon DEF EnqueueIf, TypeOK

(* What leaves the queue names a task, and the rest keeps its type. *)
LEMMA DequeueType ==
    ASSUME TailFacts, TypeOK, NEW n \in Peers, CanDequeue(n), Dequeue(n)
    PROVE  /\ Head(queue[n]).task \in Tasks
           /\ queue' \in [Peers -> Seq(Entry)] /\ queued' \in [Peers -> SUBSET Tasks]
<1>1. queue[n] \in Seq(Entry) /\ queue[n] # <<>>
  BY Zenon DEF TypeOK, CanDequeue
<1>2. Head(queue[n]) \in Entry /\ Tail(queue[n]) \in Seq(Entry)
  BY <1>1, Zenon DEF TailFacts
<1> QED
  BY <1>2, ZenonT(60) DEF Dequeue, TypeOK, Entry

(* The initial state has its types. *)
LEMMA InitType == Init => TypeOK
<1> SUFFICES ASSUME Init PROVE TypeOK
  BY Zenon
<1>1. EmptyStore \in Store /\ ZeroClock \in VectorClock
  BY Zenon DEF EmptyStore, Store, ZeroClock, VectorClock
<1>2. Idle \in WorkerState /\ Idle.pc = "idle"
  BY Zenon DEF Idle, WorkerState, FenceToken, NoToken
<1>3. <<>> \in Seq(Entry)
  OBVIOUS
<1> QED
  BY <1>1, <1>2, <1>3, Zenon DEF Init, TypeOK, NoSnap

(* Every step keeps the types. *)
LEMMA NextType ==
    ASSUME QueueFacts, TypeOK, [Next]_vars
    PROVE  TypeOK'
<1> PutFacts /\ TailFacts /\ OrderFacts
  BY Zenon DEF QueueFacts
<1> USE PeersAssumption
<1>1. CASE UNCHANGED vars
  BY <1>1, Zenon DEF vars, TypeOK
<1>2. CASE Tick
  BY <1>2 DEF Tick, TypeOK
<1>3. ASSUME NEW n \in Peers, NEW t \in Tasks, Submit(n, t) PROVE TypeOK'
  <2>1. Increment(vc[n], n) \in VectorClock
    BY EventType, Zenon
  <2>2. NewTask(n) \in TaskRecord
    BY NewTaskType, Zenon
  <2>3. tasks' \in [Peers -> Store] /\ net' \subseteq Message
    BY <1>3, <2>2, SetTaskType, ZenonT(60) DEF Submit
  <2>4. log' \in [Peers -> [tasks : Store, vc : VectorClock]]
    BY <1>3, <2>1, <2>2, LogAppendType, Zenon DEF Submit
  <2>5. vc' \in [Peers -> VectorClock] /\ UNCHANGED <<up, worker, snap, now, crashes>>
    BY <1>3, <2>1, Zenon DEF Submit, TypeOK
  <2>6. queue' \in [Peers -> Seq(Entry)]
    <3>1. Put(queue[n], t, 0) \in Seq(Entry)
      BY Zenon DEF TypeOK, PutFacts
    <3> QED
      BY <1>3, <3>1, Zenon DEF Submit, TypeOK
  <2>7. queued' \in [Peers -> SUBSET Tasks]
    BY <1>3, Zenon DEF Submit, TypeOK
  <2>8. submits' \in [Tasks -> Nat]
    <3>1. submits \in [Tasks -> Nat] /\ submits' = [submits EXCEPT ![t] = submits[t] + 1]
      BY <1>3, Zenon DEF Submit, TypeOK
    <3> QED
      BY <3>1
  <2> QED
    BY <2>3, <2>4, <2>5, <2>6, <2>7, <2>8, Zenon DEF TypeOK
<1>4. ASSUME NEW n \in Peers, NEW m \in net, Receive(n, m) PROVE TypeOK'
  <2> DEFINE merged == Joined(tasks[n][m.task], m.rec)
             v == MergeClocks(vc[n], m.rec.vc)
  <2>1. m.task \in Tasks /\ m.rec \in TaskRecord /\ m.rec.vc \in VectorClock
    BY Zenon DEF TypeOK, Message, TaskRecord
  <2>2. v \in VectorClock
    BY <2>1, ClockTypes, Zenon DEF TypeOK
  <2>3. tasks[n][m.task] \in TaskRecord \cup {NoRecord}
    BY <2>1, EntryTypes, Zenon
  <2>4. merged \in TaskRecord
    BY <2>1, <2>3, JoinedType, Zenon
  <2>5. tasks' \in [Peers -> Store] /\ net' \subseteq Message
    BY <1>4, <2>1, <2>4, SetTaskType, ZenonT(60) DEF Receive
  <2>6. log' \in [Peers -> [tasks : Store, vc : VectorClock]]
    BY <1>4, <2>1, <2>2, <2>4, LogAppendType, ZenonT(60) DEF Receive
  <2>7. queue' \in [Peers -> Seq(Entry)] /\ queued' \in [Peers -> SUBSET Tasks]
    BY <1>4, <2>1, EnqueueType, ZenonT(60) DEF Receive
  <2> QED
    BY <1>4, <2>2, <2>5, <2>6, <2>7, ZenonT(60) DEF Receive, TypeOK
<1>5. ASSUME NEW n \in Peers, NEW S, WorkerSkip(n, S) PROVE TypeOK'
  <2>1. queue' \in [Peers -> Seq(Entry)] /\ queued' \in [Peers -> SUBSET Tasks]
    BY <1>5, DequeueType, ZenonT(60) DEF WorkerSkip
  <2> QED
    BY <1>5, <2>1, ZenonT(60) DEF WorkerSkip, TypeOK
<1>6. ASSUME NEW n \in Peers, NEW S, NEW d \in LeaseDurations, WorkerClaim(n, S, d)
      PROVE TypeOK'
  <2> DEFINE t == Head(queue[n]).task
             token == NextFor(tasks[n][t].token, n)
             v == Increment(vc[n], n)
             lease == LocalNow(n) + d
             r == Claim(n, t, d)
  <2>1. CanDequeue(n) /\ Dequeue(n)
    BY <1>6, ZenonT(60) DEF WorkerClaim, MayClaim
  <2>2. /\ t \in Tasks
        /\ queue' \in [Peers -> Seq(Entry)] /\ queued' \in [Peers -> SUBSET Tasks]
    BY <2>1, DequeueType, Zenon
  <2>3. token \in FenceToken /\ lease \in Nat /\ r \in TaskRecord
    BY <2>2, ClaimType, Zenon
  <2>4. v \in VectorClock
    BY EventType, Zenon
  <2>7. BroadcastTaskUpdate(n, t, r, v)
    BY <1>6, ZenonT(60) DEF WorkerClaim
  <2>8. /\ tasks' \in [Peers -> Store] /\ net' \subseteq Message
        /\ vc' \in [Peers -> VectorClock]
        /\ log' \in [Peers -> [tasks : Store, vc : VectorClock]]
    BY <2>2, <2>3, <2>4, <2>7, BroadcastType, Zenon
  <2> DEFINE w == [pc |-> "claimed", task |-> t, token |-> token, lease |-> lease]
  <2>9. w \in WorkerState /\ w.task \in Tasks
    BY <2>2, <2>3, Zenon DEF WorkerState
  <2>10. worker' = [worker EXCEPT ![n] = w]
    BY <1>6, ZenonT(60) DEF WorkerClaim
  <2>11. UNCHANGED <<up, snap, now, submits, crashes>>
    BY <1>6, ZenonT(60) DEF WorkerClaim
  <2> HIDE DEF w
  <2> QED
    BY <2>2, <2>8, <2>9, <2>10, <2>11, Zenon DEF TypeOK
<1>7. ASSUME NEW n \in Peers, WorkerRun(n) PROVE TypeOK'
  <2> DEFINE w == worker[n]
             r == Running(n)
  <2>1. w \in WorkerState /\ w.task \in Tasks /\ vc[n] \in VectorClock
    BY <1>7, Zenon DEF WorkerRun, TypeOK
  <2>2. w.token \in FenceToken /\ w.lease \in Nat
    BY <2>1, Zenon DEF WorkerState
  <2>3. r \in TaskRecord
    BY <2>1, <2>2, SealedType, Zenon DEF Running, TaskState
  <2>4. tasks' \in [Peers -> Store] /\ net' \subseteq Message
    BY <1>7, <2>1, <2>3, SetTaskType, Zenon DEF WorkerRun
  <2> QED
    BY <1>7, <2>1, <2>4, ZenonT(60) DEF WorkerRun, TypeOK, WorkerState
<1>8. ASSUME NEW n \in Peers, WorkerReject(n) PROVE TypeOK'
  BY <1>8, ZenonT(60) DEF WorkerReject, TypeOK, Idle, WorkerState, FenceToken, NoToken
<1>9. ASSUME NEW n \in Peers, NEW outcome \in Outcomes, WorkerCommit(n, outcome) PROVE TypeOK'
  <2> DEFINE w == worker[n]
  <2>1. w.task \in Tasks
    BY <1>9, Zenon DEF WorkerCommit, MayCommit, TypeOK
  <2>2. Increment(vc[n], n) \in VectorClock
    BY EventType, Zenon
  <2>3. Result(n, outcome) \in TaskRecord
    BY ResultType, Zenon
  <2>4. /\ tasks' \in [Peers -> Store] /\ net' \subseteq Message
        /\ vc' \in [Peers -> VectorClock]
        /\ log' \in [Peers -> [tasks : Store, vc : VectorClock]]
    BY <1>9, <2>1, <2>2, <2>3, BroadcastType, Zenon DEF WorkerCommit
  <2> QED
    BY <1>9, <2>4, ZenonT(60) DEF WorkerCommit, TypeOK, Idle, WorkerState, FenceToken, NoToken
<1>10. ASSUME NEW n \in Peers, NEW t \in Tasks, NEW S, ReclaimEnqueue(n, t, S) PROVE TypeOK'
  <2>1. queue' \in [Peers -> Seq(Entry)] /\ queued' \in [Peers -> SUBSET Tasks]
    BY <1>10, EnqueueType, ZenonT(60) DEF ReclaimEnqueue
  <2> QED
    BY <1>10, <2>1, Zenon DEF ReclaimEnqueue, TypeOK
<1>11. ASSUME NEW n \in Peers, NEW t \in Tasks, NEW S, ReclaimRelease(n, t, S) PROVE TypeOK'
  <2> DEFINE todo == Todo(n, S)
             r == Released(n, t, S)
             v == Increment(vc[n], n)
  <2>1. todo \in Store /\ r \in TaskRecord
    BY ReleasedType, Zenon
  <2>2. [todo EXCEPT ![t] = NoRecord] \in Store
    BY <2>1, Zenon DEF Store
  <2>3. v \in VectorClock
    BY EventType, Zenon
  <2>4. /\ snap' = [snap EXCEPT ![n] = [todo EXCEPT ![t] = NoRecord]]
        /\ BroadcastTaskUpdate(n, t, r, v)
        /\ UNCHANGED <<up, queue, queued, worker, now, submits, crashes>>
    BY <1>11, Zenon DEF ReclaimRelease
  <2> HIDE DEF todo, v, r
  <2>5. /\ tasks' \in [Peers -> Store] /\ net' \subseteq Message
        /\ vc' \in [Peers -> VectorClock]
        /\ log' \in [Peers -> [tasks : Store, vc : VectorClock]]
    BY <2>1, <2>3, <2>4, BroadcastType, Zenon
  <2> QED
    BY <2>2, <2>4, <2>5, ZenonT(60) DEF TypeOK
<1>12. ASSUME NEW n \in Peers, ReclaimEnd(n) PROVE TypeOK'
  BY <1>12, Zenon DEF ReclaimEnd, TypeOK, NoSnap, EmptyStore, Store
<1>13. ASSUME NEW n \in Peers, Halts(n), net' = net, now' = now, submits' \in [Tasks -> Nat],
              log' \in [Peers -> [tasks : Store, vc : VectorClock]]
       PROVE  TypeOK'
  <2>1. EmptyStore \in Store /\ ZeroClock \in VectorClock
    BY Zenon DEF EmptyStore, Store, ZeroClock, VectorClock
  <2>2. Idle \in WorkerState /\ Idle.pc = "idle"
    BY Zenon DEF Idle, WorkerState, FenceToken, NoToken
  <2>3. <<>> \in Seq(Entry)
    OBVIOUS
  <2> QED
    BY <1>13, <2>1, <2>2, <2>3 DEF Halts, TypeOK, NoSnap
<1>14. ASSUME NEW n \in Peers, Restart(n) PROVE TypeOK'
  <2> DEFINE pending == {t \in Tasks : Recovered(n)[t].state = "PENDING"}
             size == IF Cardinality(pending) <= QueueSize THEN Cardinality(pending) ELSE QueueSize
  <2>1. size \in Nat
    BY BoundsAssumption, Zenon DEF OrderFacts
  <2>2. /\ up' = [up EXCEPT ![n] = TRUE]
        /\ tasks' = [tasks EXCEPT ![n] = log[n].tasks]
        /\ net' = net \cup Gossip(n, log[n].tasks)
        /\ vc' = [vc EXCEPT ![n] = log[n].vc]
        /\ UNCHANGED <<worker, snap, log, now, submits, crashes>>
    BY <1>14, ZenonT(60) DEF Restart, Recovered
  <2>3. PICK order \in [1 .. size -> pending] :
           /\ queue' = [queue EXCEPT ![n] = [i \in 1 .. size |-> [task |-> order[i], pri |-> 0]]]
           /\ queued' = [queued EXCEPT ![n] = {order[i] : i \in 1 .. size}]
    BY <1>14, ZenonT(60) DEF Restart, Requeue
  <2> DEFINE q == [i \in 1 .. size |-> [task |-> order[i], pri |-> 0]]
  <2>4. pending \subseteq Tasks
    BY Zenon
  <2> HIDE DEF pending, size
  <2>5. q \in Seq(Entry)
    BY <2>1, <2>4 DEF Entry
  <2>6. {order[i] : i \in 1 .. size} \subseteq Tasks
    BY <2>4, Zenon
  <2>7. log[n].tasks \in Store /\ log[n].vc \in VectorClock
    BY Zenon DEF TypeOK
  <2>8. Gossip(n, log[n].tasks) \subseteq Message
    BY <2>7, GossipType, Zenon
  <2> HIDE DEF q
  <2> QED
    BY <2>2, <2>3, <2>5, <2>6, <2>7, <2>8, Zenon DEF TypeOK, q
<1>15. ASSUME NEW n \in Peers, Crash(n) PROVE TypeOK'
  <2>1. /\ Halts(n) /\ net' = net /\ now' = now /\ submits' \in [Tasks -> Nat]
        /\ log' \in [Peers -> [tasks : Store, vc : VectorClock]]
    BY <1>15, Zenon DEF Crash, TypeOK
  <2> QED
    BY <1>13, <2>1, Zenon
<1>16. ASSUME NEW n \in Peers, CrashInAppend(n) PROVE TypeOK'
  <2>1. PICK t \in Tasks : \E r : CutShort(n, t, r) /\ Interrupted(n, t, r)
    BY <1>16, AppendInterrupted, Zenon
  <2>2. PICK r : CutShort(n, t, r) /\ Interrupted(n, t, r)
    BY <2>1, Zenon
  <2>3. r \in TaskRecord /\ submits' \in [Tasks -> Nat]
    BY <2>2, InterruptedRecord, Zenon
  <2>4. /\ Halts(n) /\ net' = net /\ now' = now
        /\ log' = [log EXCEPT ![n].tasks = Replayed(log[n].tasks, t, r)]
    BY <2>2, Zenon DEF CutShort, LogTask
  <2>5. log \in [Peers -> [tasks : Store, vc : VectorClock]]
    BY Zenon DEF TypeOK
  <2>6. Replayed(log[n].tasks, t, r) \in Store
    <3>1. log[n].tasks \in Store
      BY <2>5, Zenon
    <3> QED
      BY <2>3, <3>1, ReplayedType, Zenon
  <2>7. log' \in [Peers -> [tasks : Store, vc : VectorClock]]
    BY <2>4, <2>5, <2>6, Zenon
  <2> QED
    BY <1>13, <2>3, <2>4, <2>7, Zenon
<1> QED
  BY <1>1, <1>2, <1>3, <1>4, <1>5, <1>6, <1>7, <1>8, <1>9, <1>10, <1>11, <1>12, <1>14, <1>15,
     <1>16, Zenon
  DEF Next, NodeStep

=============================================================================
