-------------------------- MODULE ComponentProofs ---------------------------
(***************************************************************************)
(* Two components for every value of their constants: the write-ahead log, *)
(* and the discovery of peers with its replay cache.                       *)
(***************************************************************************)
EXTENDS Wal, Discovery, WellFoundedInduction, TLAPS

-----------------------------------------------------------------------------
(* Induction *)

(* A set of numbers has a least one. *)
LEMMA LeastNumber ==
    ASSUME NEW T \in SUBSET Nat, T # {}
    PROVE  \E x \in T : \A y \in T : x <= y
<1> DEFINE R == {ss \in Nat \X Nat : ss[1] < ss[2]}
<1>1. IsWellFoundedOn(R, Nat)
  BY NatLessThanWellFounded DEF OpToRel
<1>2. PICK x \in T : \A y \in T : <<y, x>> \notin R
  BY <1>1, WFMin, Zenon
<1>3. ASSUME NEW y \in T PROVE x <= y
  <2>1. x \in Nat /\ y \in Nat
    OBVIOUS
  <2>2. ~ (y < x)
    BY <1>2, <2>1, Zenon
  <2> QED
    BY <2>1, <2>2
<1> QED
  BY <1>3

(* A set that has 0, and with every number the next one, has them all. *)
LEMMA Induction ==
    ASSUME NEW P, 0 \in P, \A n \in Nat : n \in P => n + 1 \in P
    PROVE  Nat \subseteq P
<1> SUFFICES ASSUME NEW n \in Nat, n \notin P PROVE FALSE
  OBVIOUS
<1> DEFINE T == {k \in Nat : k \notin P}
<1>1. PICK x \in T : \A y \in T : x <= y
  <2>1. T \in SUBSET Nat /\ T # {}
    OBVIOUS
  <2> HIDE DEF T
  <2> QED
    BY <2>1, LeastNumber
<1>2. x \in Nat /\ x # 0 /\ x \notin P
  OBVIOUS
<1>3. x - 1 \in Nat /\ x - 1 + 1 = x
  BY <1>2
<1>4. x - 1 \in P
  BY <1>1, <1>3
<1> QED
  BY <1>2, <1>3, <1>4

(* A set that has n, and with all later numbers the one before them, has all *)
(* numbers up to n.                                                          *)
LEMMA Downwards ==
    ASSUME NEW n \in Nat, NEW G, n \in G,
           \A o \in 1 .. n - 1 : (\A p \in o + 1 .. n : p \in G) => o \in G
    PROVE  1 .. n \subseteq G
<1> DEFINE P == {k \in Nat : \A o \in 1 .. n : n - k <= o => o \in G}
<1>1. 0 \in P
  OBVIOUS
<1>2. ASSUME NEW k \in Nat, k \in P PROVE k + 1 \in P
  <2>1. \A o \in 1 .. n : n - k <= o => o \in G
    BY <1>2
  <2> SUFFICES ASSUME NEW o \in 1 .. n, n - (k + 1) <= o PROVE o \in G
    BY <1>2
  <2>2. CASE n - k <= o
    BY <2>1, <2>2
  <2>3. CASE ~ (n - k <= o)
    <3>1. o \in 1 .. n - 1 /\ \A p \in o + 1 .. n : p \in 1 .. n /\ n - k <= p
      BY <1>2, <2>3
    <3> QED
      BY <2>1, <3>1
  <2> QED
    BY <2>2, <2>3
<1>3. n \in P
  <2> HIDE DEF P
  <2> QED
    BY <1>1, <1>2, Induction
<1> QED
  BY <1>3

-----------------------------------------------------------------------------
(* The write-ahead log: replay *)

(* A log is cells of frames, whole ones and pieces. *)
Frames == [updates : SUBSET Updates, size : Nat \ {0}]

FileCells == [frame : Frames, part : Nat \ {0}]

Files == Seq(FileCells)

(* The offsets at which a replay may be: those of cells, and the end of the  *)
(* file.                                                                     *)
LEMMA FileTypes ==
    ASSUME NEW file \in Files
    PROVE  /\ Len(file) \in Nat
           /\ \A o \in 1 .. Len(file) + 1 : o # Len(file) + 1 => o \in 1 .. Len(file)
           /\ \A o \in 1 .. Len(file) : /\ file[o].frame \in Frames
                                         /\ file[o].frame.size \in Nat \ {0}
                                         /\ file[o].frame.updates \subseteq Updates
                                         /\ file[o].part \in Nat \ {0}
<1>1. Len(file) \in Nat /\ \A o \in 1 .. Len(file) : file[o] \in FileCells
  BY DEF Files
<1>2. \A o \in 1 .. Len(file) : file[o].frame \in Frames /\ file[o].part \in Nat \ {0}
  BY <1>1, Zenon DEF FileCells
<1>3. \A f \in Frames : f.size \in Nat \ {0} /\ f.updates \subseteq Updates
  BY DEF Frames
<1>4. \A o \in 1 .. Len(file) + 1 : o # Len(file) + 1 => o \in 1 .. Len(file)
  BY <1>1
<1> QED
  BY <1>1, <1>2, <1>3, <1>4, Zenon

(* The result of a frame depends only on what comes behind it. *)
LEMMA ReadsAhead ==
    ASSUME NEW file \in Files, NEW garbage, NEW o \in 1 .. Len(file) + 1, NEW g, NEW h,
           \A p \in o + 1 .. Len(file) + 1 : g[p] = h[p]
    PROVE  ReadFrame(file, garbage, g, o) = ReadFrame(file, garbage, h, o)
<1>1. CASE o = Len(file) + 1
  BY <1>1 DEF ReadFrame
<1>2. CASE o # Len(file) + 1
  <2> DEFINE f == file[o].frame
             next == o + HeaderCells + f.size
  <2>1. o \in 1 .. Len(file) /\ f \in Frames
    BY <1>2, FileTypes
  <2>2. f.size \in Nat \ {0} /\ HeaderCells \in Nat \ {0}
    BY <2>1, CellsAssumption DEF Frames
  <2>3. ~ (next > Len(file) + 1) => g[next] = h[next]
    <3>1. Len(file) \in Nat
      BY DEF Files
    <3> SUFFICES ASSUME ~ (next > Len(file) + 1) PROVE next \in o + 1 .. Len(file) + 1
      OBVIOUS
    <3> HIDE DEF f
    <3> QED
      BY <2>1, <2>2, <3>1
  <2> QED
    BY <1>2, <2>3, Zenon DEF ReadFrame
<1> QED
  BY <1>1, <1>2

(* replay reads the file frame by frame. *)
LEMMA ReplayReads ==
    ASSUME NEW file \in Files, NEW garbage
    PROVE  \A o \in 1 .. Len(file) + 1 :
               Replay(file, garbage)[o] = ReadFrame(file, garbage, Replay(file, garbage), o)
<1> DEFINE N == Len(file) + 1
           Is(h, k) == h = [o \in N - k .. N |-> ReadFrame(file, garbage, h, o)]
           P == {k \in Nat : k < N => \E h : Is(h, k)}
<1>1. N \in Nat /\ N >= 1
  BY DEF Files
<1>2. 0 \in P
  <2> DEFINE eof == [end |-> "eof", updates |-> {}]
             h == [o \in N - 0 .. N |-> eof]
  <2>1. \A o \in N - 0 .. N : o = N
    BY <1>1
  <2>2. \A o \in N - 0 .. N : ReadFrame(file, garbage, h, o) = eof
    BY <2>1, Zenon DEF ReadFrame
  <2>3. Is(h, 0)
    BY <2>2, Zenon
  <2> QED
    BY <2>3
<1>3. ASSUME NEW k \in Nat, k \in P PROVE k + 1 \in P
  <2> SUFFICES ASSUME k + 1 < N PROVE \E h : Is(h, k + 1)
    BY <1>3
  <2>1. PICK h : Is(h, k)
    BY <1>1, <1>3
  <2> DEFINE h2 == [o \in N - (k + 1) .. N |-> IF o = N - (k + 1)
                                               THEN ReadFrame(file, garbage, h, o) ELSE h[o]]
  <2>2. /\ \A o \in N - (k + 1) .. N : o \in 1 .. N
        /\ \A o \in N - (k + 1) .. N : o # N - (k + 1) => o \in N - k .. N
        /\ \A o \in N - (k + 1) .. N : \A p \in o + 1 .. N :
               p \in N - (k + 1) .. N /\ p # N - (k + 1)
    BY <1>1
  <2>3. \A o \in N - (k + 1) .. N : o # N - (k + 1) => h[o] = ReadFrame(file, garbage, h, o)
    BY <2>1, <2>2, Zenon
  <2>4. \A o \in N - (k + 1) .. N : h2[o] = ReadFrame(file, garbage, h, o)
    BY <2>3, Zenon
  <2>5. \A o \in N - (k + 1) .. N : \A p \in o + 1 .. N : h2[p] = h[p]
    BY <2>2, Zenon
  <2>6. \A o \in N - (k + 1) .. N :
            ReadFrame(file, garbage, h, o) = ReadFrame(file, garbage, h2, o)
    <3> HIDE DEF h2
    <3> QED
      BY <2>2, <2>5, ReadsAhead
  <2>7. h2 = [o \in N - (k + 1) .. N |-> h2[o]]
    OBVIOUS
  <2> HIDE DEF h2
  <2>8. Is(h2, k + 1)
    BY <2>4, <2>6, <2>7, Zenon
  <2> QED
    BY <2>8, Zenon
<1>4. N - 1 \in P
  <2>1. N - 1 \in Nat
    BY <1>1
  <2> HIDE DEF P
  <2> QED
    BY <1>2, <1>3, <2>1, Induction
<1>5. N - 1 < N /\ N - (N - 1) = 1
  BY <1>1
<1>6. \E h : h = [o \in 1 .. N |-> ReadFrame(file, garbage, h, o)]
  BY <1>4, <1>5
<1>7. Replay(file, garbage) = CHOOSE h : h = [o \in 1 .. N |-> ReadFrame(file, garbage, h, o)]
  BY DEF Replay
<1>8. Replay(file, garbage) = [o \in 1 .. N |-> ReadFrame(file, garbage, Replay(file, garbage), o)]
  BY <1>6, <1>7, Zenon
<1> HIDE DEF N
<1>9. \A o \in 1 .. N : Replay(file, garbage)[o] = ReadFrame(file, garbage, Replay(file, garbage), o)
  BY <1>8, Zenon
<1> QED
  BY <1>9 DEF N

(* The offset behind the frame that the cell at o belongs to, if o is its    *)
(* first cell                                                                *)
Behind(file, o) == o + HeaderCells + file[o].frame.size

(* The frame at offset o is all there. *)
Whole(file, o) ==
    /\ o \in 1 .. Len(file)
    /\ Behind(file, o) <= Len(file) + 1
    /\ IsPart(file, o, file[o].frame, HeaderCells + file[o].frame.size)

(* The frame at offset o is read, or the replay ends there. *)
IsRead(file, o, at) ==
    at[o] = [end |-> at[Behind(file, o)].end,
             updates |-> at[Behind(file, o)].updates \cup file[o].frame.updates]

(* The replay ends at o with nothing more. *)
EndsAt(o, at, garbage) ==
    \E end \in {"torn", "corrupt", garbage} : at[o] = [end |-> end, updates |-> {}]

(* A frame that is there is read, and one that is not ends the replay. *)
LEMMA ReadsWhole ==
    ASSUME NEW file \in Files, NEW garbage, NEW o \in 1 .. Len(file)
    PROVE  /\ Behind(file, o) \in Nat /\ o < Behind(file, o)
           /\ Whole(file, o) => IsRead(file, o, Replay(file, garbage))
           /\ ~ Whole(file, o) => EndsAt(o, Replay(file, garbage), garbage)
<1> DEFINE f == file[o].frame
           next == Behind(file, o)
           rest == Replay(file, garbage)
<1>1. Len(file) \in Nat /\ f.size \in Nat \ {0} /\ HeaderCells \in Nat \ {0}
  BY FileTypes, CellsAssumption
<1>2. next = o + HeaderCells + f.size
  BY Zenon DEF Behind
<1>3. o \in 1 .. Len(file) + 1 /\ o # Len(file) + 1
  BY <1>1
<1>4. rest[o] = ReadFrame(file, garbage, rest, o)
  BY <1>3, ReplayReads, Zenon
<1> HIDE DEF f, next, rest
<1>5. next \in Nat /\ o < next /\ (next <= Len(file) + 1 <=> ~ (next > Len(file) + 1))
  BY <1>1, <1>2
<1>6. next <= Len(file) + 1 => ~ (o + HeaderCells > Len(file) + 1)
  BY <1>1, <1>2
<1>7. IsPart(file, o, f, HeaderCells + f.size) => IsPart(file, o, f, HeaderCells)
  BY <1>1 DEF IsPart
<1>8. Whole(file, o) <=> next <= Len(file) + 1 /\ IsPart(file, o, f, HeaderCells + f.size)
  BY Zenon DEF Whole, next, f
<1>9. Whole(file, o) => rest[o] = [end |-> rest[next].end, updates |-> rest[next].updates \cup f.updates]
  BY <1>2, <1>3, <1>4, <1>5, <1>6, <1>7, <1>8, Zenon DEF ReadFrame, f
<1>10. ~ Whole(file, o) => \E end \in {"torn", "corrupt", garbage} : rest[o] = [end |-> end, updates |-> {}]
  <2> SUFFICES ASSUME ~ Whole(file, o)
               PROVE  \/ rest[o] = [end |-> "torn", updates |-> {}]
                      \/ rest[o] = [end |-> "corrupt", updates |-> {}]
                      \/ rest[o] = [end |-> garbage, updates |-> {}]
    BY Zenon
  <2> QED
    BY <1>2, <1>3, <1>4, <1>5, <1>8, Zenon DEF ReadFrame, f
<1> QED
  BY <1>5, <1>9, <1>10, Zenon DEF rest, next, f, IsRead, EndsAt

(* Where no whole frame is, the replay ends with nothing. *)
LEMMA TornEnds ==
    ASSUME NEW file \in Files, NEW garbage \in {"torn", "corrupt"}, NEW o \in 1 .. Len(file), ~ Whole(file, o)
    PROVE  /\ Replay(file, garbage)[o].updates = {}
           /\ Replay(file, garbage)[o].end \in {"torn", "corrupt"}
           /\ Replay(file, garbage)[o] = [end |-> Replay(file, garbage)[o].end, updates |-> {}]
<1>1. EndsAt(o, Replay(file, garbage), garbage)
  BY ReadsWhole, Zenon
<1>2. PICK end \in {"torn", "corrupt", garbage} : Replay(file, garbage)[o] = [end |-> end, updates |-> {}]
  BY <1>1, Zenon DEF EndsAt
<1> QED
  BY <1>2

(* At its end the file is clean. *)
LEMMA ReadsEnd ==
    ASSUME NEW file \in Files, NEW garbage
    PROVE  Replay(file, garbage)[Len(file) + 1] = [end |-> "eof", updates |-> {}]
<1>1. Len(file) + 1 \in 1 .. Len(file) + 1
  BY FileTypes
<1> QED
  BY <1>1, ReplayReads, Zenon DEF ReadFrame

(* To show something of the replay from every offset: show it of the end, of *)
(* a frame that is there when it holds behind it, and of one that is not.    *)
LEMMA ReplayInduction ==
    ASSUME NEW file \in Files, NEW G, Len(file) + 1 \in G,
           \A o \in 1 .. Len(file) : Whole(file, o) /\ Behind(file, o) \in G => o \in G,
           \A o \in 1 .. Len(file) : ~ Whole(file, o) => o \in G
    PROVE  1 .. Len(file) + 1 \subseteq G
<1> DEFINE n == Len(file) + 1
<1>1. Len(file) \in Nat /\ n \in Nat /\ n - 1 = Len(file)
  BY FileTypes
<1>2. ASSUME NEW o \in 1 .. n - 1, \A p \in o + 1 .. n : p \in G PROVE o \in G
  <2>1. o \in 1 .. Len(file)
    BY <1>1
  <2>2. CASE Whole(file, o)
    <3>1. Behind(file, o) \in Nat /\ o < Behind(file, o) /\ Behind(file, o) <= n
      BY <2>1, <2>2, ReadsWhole, Zenon DEF Whole
    <3>2. Behind(file, o) \in o + 1 .. n
      BY <1>1, <2>1, <3>1
    <3> QED
      BY <1>2, <2>1, <2>2, <3>2, Zenon
  <2> QED
    BY <2>1, <2>2, Zenon
<1> HIDE DEF n
<1>3. 1 .. n \subseteq G
  BY <1>1, <1>2, Downwards DEF n
<1> QED
  BY <1>3 DEF n

(* What a replay yields is a result. *)
LEMMA ReplayTypes ==
    ASSUME NEW file \in Files, NEW garbage \in {"torn", "corrupt"}
    PROVE  \A o \in 1 .. Len(file) + 1 :
               Replay(file, garbage)[o] \in [end : {"eof", "torn", "corrupt"}, updates : SUBSET Updates]
<1> DEFINE T == [end : {"eof", "torn", "corrupt"}, updates : SUBSET Updates]
           G == {o \in 1 .. Len(file) + 1 : Replay(file, garbage)[o] \in T}
<1>1. Len(file) \in Nat
  BY FileTypes
<1>2. Len(file) + 1 \in G
  <2>1. Len(file) + 1 \in 1 .. Len(file) + 1
    BY <1>1
  <2> QED
    BY <2>1, ReadsEnd
<1>3. ASSUME NEW o \in 1 .. Len(file), Whole(file, o), Behind(file, o) \in G PROVE o \in G
  <2> DEFINE rest == Replay(file, garbage)[Behind(file, o)]
  <2>1. /\ Replay(file, garbage)[o] =
               [end |-> rest.end, updates |-> rest.updates \cup file[o].frame.updates]
        /\ rest \in T
    BY <1>3, ReadsWhole, Zenon DEF IsRead
  <2>2. file[o].frame.updates \subseteq Updates
    BY FileTypes, Zenon
  <2>3. o \in 1 .. Len(file) + 1
    BY <1>1
  <2> HIDE DEF rest
  <2> QED
    BY <2>1, <2>2, <2>3
<1>4. ASSUME NEW o \in 1 .. Len(file), ~ Whole(file, o) PROVE o \in G
  <2> DEFINE r == Replay(file, garbage)[o]
  <2>1. r.end \in {"torn", "corrupt"} /\ r = [end |-> r.end, updates |-> {}]
    BY <1>4, TornEnds
  <2>2. o \in 1 .. Len(file) + 1
    BY <1>1
  <2> HIDE DEF r
  <2>3. r \in T
    BY <2>1
  <2> QED
    BY <2>2, <2>3 DEF r
<1> HIDE DEF G
<1>5. 1 .. Len(file) + 1 \subseteq G
  BY <1>2, <1>3, <1>4, ReplayInduction
<1> QED
  BY <1>5 DEF G

(* How the pieces of a header are read changes nothing of what is yielded,   *)
(* and nothing of a replay that does not fail.                               *)
LEMMA GarbageOnlyFails ==
    ASSUME NEW file \in Files
    PROVE  /\ ReplayFrom(file, "torn").updates = ReplayFrom(file, "corrupt").updates
           /\ ReplayFrom(file, "corrupt").end # "corrupt" =>
                  ReplayFrom(file, "torn").end = ReplayFrom(file, "corrupt").end
<1> DEFINE t == Replay(file, "torn")
           c == Replay(file, "corrupt")
           Same(o) == t[o].updates = c[o].updates /\ (c[o].end # "corrupt" => t[o].end = c[o].end)
           G == {o \in 1 .. Len(file) + 1 : Same(o)}
<1>1. Len(file) \in Nat
  BY FileTypes
<1>2. Len(file) + 1 \in G
  <2>1. Len(file) + 1 \in 1 .. Len(file) + 1
    BY <1>1
  <2> QED
    BY <2>1, ReadsEnd, Zenon
<1>3. ASSUME NEW o \in 1 .. Len(file), Whole(file, o), Behind(file, o) \in G PROVE o \in G
  <2> DEFINE b == Behind(file, o)
             x == file[o].frame.updates
  <2>1. /\ t[o] = [end |-> t[b].end, updates |-> t[b].updates \cup x]
        /\ c[o] = [end |-> c[b].end, updates |-> c[b].updates \cup x]
    <3>1. IsRead(file, o, t) /\ IsRead(file, o, c)
      BY <1>3, ReadsWhole, Zenon
    <3> QED
      BY <3>1, Zenon DEF IsRead
  <2>2. Same(b)
    BY <1>3, Zenon
  <2>3. o \in 1 .. Len(file) + 1
    BY <1>1
  <2> HIDE DEF t, c, b, x
  <2>4. Same(o)
    BY <2>1, <2>2
  <2> QED
    BY <2>3, <2>4 
<1>4. ASSUME NEW o \in 1 .. Len(file), ~ Whole(file, o) PROVE o \in G
  <2>1. o \in 1 .. Len(file) + 1 /\ o # Len(file) + 1
    BY <1>1
  <2>2. t[o].updates = {} /\ c[o].updates = {}
    BY <1>4, TornEnds, Zenon
  <2>3. t[o] = ReadFrame(file, "torn", t, o) /\ c[o] = ReadFrame(file, "corrupt", c, o)
    BY <2>1, ReplayReads, Zenon
  <2>4. ~ (Behind(file, o) <= Len(file) + 1) => Behind(file, o) > Len(file) + 1
    <3>1. Behind(file, o) \in Nat
      BY ReadsWhole, Zenon
    <3> QED
      BY <1>1, <3>1
  <2> DEFINE f == file[o].frame
             next == o + HeaderCells + f.size
  <2>5. next > Len(file) + 1 \/ ~ IsPart(file, o, f, HeaderCells + f.size)
    BY <1>4, <2>4, Zenon DEF Whole, Behind
  <2> HIDE DEF t, c
  <2>6. CASE o + HeaderCells > Len(file) + 1
    <3>1. t[o] = c[o]
      BY <2>1, <2>3, <2>6, Zenon DEF ReadFrame
    <3> QED
      BY <2>1, <3>1 DEF t, c
  <2>7. CASE ~ (o + HeaderCells > Len(file) + 1) /\ ~ IsPart(file, o, f, HeaderCells)
    <3>1. c[o] = [end |-> "corrupt", updates |-> {}]
      BY <2>1, <2>3, <2>7, Zenon DEF ReadFrame
    <3>2. c[o].end = "corrupt"
      BY <3>1
    <3>3. Same(o)
      BY <2>2, <3>2, Zenon
    <3> QED
      BY <2>1, <3>3, Zenon DEF t, c
  <2>8. CASE ~ (o + HeaderCells > Len(file) + 1) /\ IsPart(file, o, f, HeaderCells)
    <3>1. t[o] = c[o]
      <4>1. CASE next > Len(file) + 1
        BY <2>1, <2>3, <2>8, <4>1, Zenon DEF ReadFrame
      <4>2. CASE ~ (next > Len(file) + 1) /\ ~ IsPart(file, o, f, HeaderCells + f.size)
        BY <2>1, <2>3, <2>8, <4>2, Zenon DEF ReadFrame
      <4> QED
        BY <2>5, <4>1, <4>2, Zenon
    <3> QED
      BY <2>1, <3>1 DEF t, c
  <2> QED
    BY <2>6, <2>7, <2>8
<1> HIDE DEF G
<1>5. 1 .. Len(file) + 1 \subseteq G
  BY <1>2, <1>3, <1>4, ReplayInduction
<1>6. 1 \in G
  BY <1>1, <1>5
<1> QED
  BY <1>6 DEF G, ReplayFrom

-----------------------------------------------------------------------------
(* The write-ahead log: appending *)

(* What was written stays where it is. *)
LEMMA Appended ==
    ASSUME NEW file \in Files, NEW ext \in Files
    PROVE  /\ file \o ext \in Files
           /\ Len(file \o ext) = Len(file) + Len(ext)
           /\ \A i \in 1 .. Len(file) : (file \o ext)[i] = file[i]
           /\ \A i \in 1 .. Len(ext) : (file \o ext)[Len(file) + i] = ext[i]
  BY DEF Files

(* Frames that are there stay there. *)
LEMMA WholeStays ==
    ASSUME NEW file \in Files, NEW ext \in Files, NEW o \in 1 .. Len(file)
    PROVE  /\ (file \o ext)[o] = file[o]
           /\ Behind(file \o ext, o) = Behind(file, o)
           /\ o \in 1 .. Len(file \o ext)
           /\ Whole(file, o) => Whole(file \o ext, o)
           /\ Whole(file \o ext, o) /\ Behind(file, o) <= Len(file) + 1 => Whole(file, o)
<1> DEFINE new == file \o ext
           f == file[o].frame
           k == HeaderCells + f.size
<1>1. /\ Len(file) \in Nat /\ Len(ext) \in Nat /\ Len(new) = Len(file) + Len(ext)
      /\ \A i \in 1 .. Len(file) : new[i] = file[i]
  BY Appended, FileTypes, Zenon
<1>2. f.size \in Nat \ {0} /\ HeaderCells \in Nat \ {0}
  BY FileTypes, CellsAssumption
<1> HIDE DEF new, f
<1>3. new[o] = file[o] /\ o \in 1 .. Len(new)
  BY <1>1
<1>4. Behind(new, o) = Behind(file, o) /\ Behind(file, o) = o + HeaderCells + f.size
  BY <1>3 DEF Behind, f
<1>5. k \in Nat /\ Behind(file, o) = o + k
  BY <1>2, <1>4
<1> HIDE DEF k
<1>6. ASSUME o + k <= Len(file) + 1 PROVE IsPart(new, o, f, k) <=> IsPart(file, o, f, k)
  <2>1. \A i \in 1 .. k : o + i - 1 \in 1 .. Len(file)
    BY <1>1, <1>5, <1>6
  <2> QED
    BY <1>1, <2>1, Zenon DEF IsPart
<1>7. o + k <= Len(file) + 1 => o + k <= Len(new) + 1
  BY <1>1, <1>5
<1> QED
  BY <1>3, <1>4, <1>5, <1>6, <1>7, Zenon DEF Whole, f, k, new

(* Whatever is written behind a file, a replay yields at least as much. *)
LEMMA ReplayGrows ==
    ASSUME NEW file \in Files, NEW ext \in Files, NEW garbage \in {"torn", "corrupt"}
    PROVE  ReplayFrom(file, garbage).updates \subseteq ReplayFrom(file \o ext, garbage).updates
<1> DEFINE new == file \o ext
           old == Replay(file, garbage)
           res == Replay(new, garbage)
           G == {o \in 1 .. Len(file) + 1 : old[o].updates \subseteq res[o].updates}
<1>1. Len(file) \in Nat /\ new \in Files
  BY FileTypes, Appended
<1>2. Len(file) + 1 \in G
  <2>1. Len(file) + 1 \in 1 .. Len(file) + 1
    BY <1>1
  <2>2. old[Len(file) + 1].updates = {}
    BY ReadsEnd
  <2> QED
    BY <2>1, <2>2
<1>3. ASSUME NEW o \in 1 .. Len(file), Whole(file, o), Behind(file, o) \in G PROVE o \in G
  <2> DEFINE b == Behind(file, o)
             x == file[o].frame.updates
  <2>1. new[o] = file[o] /\ Behind(new, o) = b /\ o \in 1 .. Len(new) /\ Whole(new, o)
    BY <1>3, WholeStays, Zenon
  <2>2. old[o] = [end |-> old[b].end, updates |-> old[b].updates \cup x]
    <3>1. IsRead(file, o, old)
      BY <1>3, ReadsWhole, Zenon
    <3> QED
      BY <3>1, Zenon DEF IsRead
  <2>3. res[o] = [end |-> res[b].end, updates |-> res[b].updates \cup x]
    <3> HIDE DEF new
    <3>1. IsRead(new, o, res)
      BY <1>1, <2>1, ReadsWhole, Zenon
    <3> QED
      BY <2>1, <3>1, Zenon DEF IsRead
  <2>4. old[b].updates \subseteq res[b].updates
    BY <1>3, Zenon
  <2>5. o \in 1 .. Len(file) + 1
    BY <1>1
  <2> HIDE DEF old, res, b, x
  <2>6. old[o].updates \subseteq res[o].updates
    BY <2>2, <2>4, <2>3
  <2> QED
    BY <2>5, <2>6
<1>4. ASSUME NEW o \in 1 .. Len(file), ~ Whole(file, o) PROVE o \in G
  <2>1. o \in 1 .. Len(file) + 1
    BY <1>1
  <2>2. old[o].updates = {}
    BY <1>4, TornEnds, Zenon
  <2> QED
    BY <2>1, <2>2
<1> HIDE DEF G
<1>5. 1 .. Len(file) + 1 \subseteq G
  BY <1>2, <1>3, <1>4, ReplayInduction
<1>6. 1 \in G
  BY <1>1, <1>5
<1> QED
  BY <1>6 DEF G, ReplayFrom

(* Behind a clean file a replay goes on with what was written. *)
LEMMA CleanGoesOn ==
    ASSUME NEW file \in Files, NEW ext \in Files, NEW garbage \in {"torn", "corrupt"},
           ReplayFrom(file, garbage).end = "eof"
    PROVE  LET new == ReplayFrom(file \o ext, garbage)
               tail == Replay(file \o ext, garbage)[Len(file) + 1]
           IN  /\ new.end = tail.end
               /\ new.updates = ReplayFrom(file, garbage).updates \cup tail.updates
<1> DEFINE new == file \o ext
           old == Replay(file, garbage)
           res == Replay(new, garbage)
           tail == res[Len(file) + 1]
           On(o) == /\ res[o].end = tail.end
                    /\ res[o].updates = old[o].updates \cup tail.updates
           G == {o \in 1 .. Len(file) + 1 : old[o].end = "eof" => On(o)}
<1>1. Len(file) \in Nat /\ new \in Files
  BY FileTypes, Appended
<1>2. Len(file) + 1 \in G
  <2>1. Len(file) + 1 \in 1 .. Len(file) + 1
    BY <1>1
  <2>2. old[Len(file) + 1].updates = {}
    BY ReadsEnd
  <2> HIDE DEF old, res
  <2>3. On(Len(file) + 1)
    BY <2>2
  <2> QED
    BY <2>1, <2>3
<1>3. ASSUME NEW o \in 1 .. Len(file), Whole(file, o), Behind(file, o) \in G PROVE o \in G
  <2> DEFINE b == Behind(file, o)
             x == file[o].frame.updates
  <2>1. new[o] = file[o] /\ Behind(new, o) = b /\ o \in 1 .. Len(new) /\ Whole(new, o)
    BY <1>3, WholeStays, Zenon
  <2>2. old[o] = [end |-> old[b].end, updates |-> old[b].updates \cup x]
    <3>1. IsRead(file, o, old)
      BY <1>3, ReadsWhole, Zenon
    <3> QED
      BY <3>1, Zenon DEF IsRead
  <2>3. res[o] = [end |-> res[b].end, updates |-> res[b].updates \cup x]
    <3> HIDE DEF new
    <3>1. IsRead(new, o, res)
      BY <1>1, <2>1, ReadsWhole, Zenon
    <3> QED
      BY <2>1, <3>1, Zenon DEF IsRead
  <2>4. old[b].end = "eof" => On(b)
    BY <1>3, Zenon
  <2>5. o \in 1 .. Len(file) + 1
    BY <1>1
  <2> HIDE DEF old, res, b, x, tail
  <2>6. old[o].end = "eof" => On(o)
    BY <2>2, <2>4, <2>3
  <2> QED
    BY <2>5, <2>6
<1>4. ASSUME NEW o \in 1 .. Len(file), ~ Whole(file, o) PROVE o \in G
  <2>1. o \in 1 .. Len(file) + 1
    BY <1>1
  <2>2. old[o].end \in {"torn", "corrupt"}
    BY <1>4, TornEnds, Zenon
  <2> HIDE DEF old
  <2>3. old[o].end # "eof"
    BY <2>2
  <2> QED
    BY <2>1, <2>3
<1> HIDE DEF G
<1>5. 1 .. Len(file) + 1 \subseteq G
  BY <1>2, <1>3, <1>4, ReplayInduction
<1>6. 1 \in G
  BY <1>1, <1>5
<1> QED
  BY <1>6 DEF G, ReplayFrom

(* The file with the first k cells of frame f behind it *)
LEMMA CellsAppended ==
    ASSUME NEW file \in Files, NEW f \in Frames, NEW k \in Nat
    PROVE  /\ Cells(f, k) \in Files /\ file \o Cells(f, k) \in Files
           /\ Len(file \o Cells(f, k)) = Len(file) + k
           /\ \A i \in 1 .. k : (file \o Cells(f, k))[Len(file) + i] = [frame |-> f, part |-> i]
<1> DEFINE c == Cells(f, k)
<1>1. \A i \in 1 .. k : [frame |-> f, part |-> i] \in FileCells
  BY DEF FileCells
<1>2. c \in Files /\ Len(c) = k /\ \A i \in 1 .. k : c[i] = [frame |-> f, part |-> i]
  BY <1>1 DEF Cells, Files
<1> HIDE DEF c
<1>3. /\ file \o c \in Files /\ Len(file \o c) = Len(file) + Len(c)
      /\ \A i \in 1 .. Len(c) : (file \o c)[Len(file) + i] = c[i]
  BY <1>2, Appended, Zenon
<1> QED
  BY <1>2, <1>3, Zenon DEF c

(* What a replay makes of these cells: a frame that is there is read, one of *)
(* which a part is missing is a torn tail.                                   *)
LEMMA TailReads ==
    ASSUME NEW file \in Files, NEW f \in Frames, NEW k \in 1 .. HeaderCells + f.size,
           NEW garbage
    PROVE  Replay(file \o Cells(f, k), garbage)[Len(file) + 1] =
               IF k = HeaderCells + f.size THEN [end |-> "eof", updates |-> f.updates]
                                           ELSE [end |-> "torn", updates |-> {}]
<1> DEFINE new == file \o Cells(f, k)
           o == Len(file) + 1
           res == Replay(new, garbage)
<1>1. Len(file) \in Nat /\ f.size \in Nat \ {0} /\ HeaderCells \in Nat \ {0} /\ k \in Nat \ {0}
  BY FileTypes, CellsAssumption DEF Frames
<1>2. /\ new \in Files /\ Len(new) = Len(file) + k
      /\ \A i \in 1 .. k : new[Len(file) + i] = [frame |-> f, part |-> i]
  BY <1>1, CellsAppended, Zenon
<1> HIDE DEF new, res
<1>3. /\ o \in 1 .. Len(new) + 1 /\ o # Len(new) + 1 /\ o \in Nat
      /\ (o + HeaderCells > Len(new) + 1 <=> k < HeaderCells)
      /\ (o + HeaderCells + f.size > Len(new) + 1 <=> k # HeaderCells + f.size)
      /\ (k = HeaderCells + f.size => o + HeaderCells + f.size = Len(new) + 1)
      /\ (k = HeaderCells + f.size => ~ (k < HeaderCells))
  <2>1. Len(new) = Len(file) + k
    BY <1>2, Zenon
  <2> QED
    BY <1>1, <2>1, SMTT(30)
<1>4. new[o] = [frame |-> f, part |-> 1] /\ new[o].frame = f
  BY <1>1, <1>2
<1>5. res[o] = ReadFrame(new, garbage, res, o)
  <2> HIDE DEF o
  <2> QED
    BY <1>2, <1>3, ReplayReads DEF res
<1>6. ASSUME NEW j \in Nat, j <= k PROVE IsPart(new, o, f, j)
  <2>1. \A i \in 1 .. j : i \in 1 .. k /\ o + i - 1 = Len(file) + i
    BY <1>1, <1>6
  <2> QED
    BY <1>2, <2>1, Zenon DEF IsPart
<1>7. CASE k < HeaderCells
  <2>1. o + HeaderCells > Len(new) + 1 /\ k # HeaderCells + f.size
    BY <1>3, <1>7, Zenon
  <2>2. res[o] = [end |-> "torn", updates |-> {}]
    BY <1>3, <1>5, <2>1, Zenon DEF ReadFrame
  <2> QED
    BY <2>1, <2>2, Zenon DEF res, new
<1>8. CASE ~ (k < HeaderCells)
  <2>1. IsPart(new, o, f, HeaderCells)
    BY <1>1, <1>6, <1>8
  <2>2. CASE k # HeaderCells + f.size
    <3>1. res[o] = [end |-> "torn", updates |-> {}]
      BY <1>3, <1>4, <1>5, <1>8, <2>1, <2>2, Zenon DEF ReadFrame
    <3> QED
      BY <2>2, <3>1, Zenon DEF res, new
  <2>3. CASE k = HeaderCells + f.size
    <3>1. IsPart(new, o, f, HeaderCells + f.size)
      BY <1>1, <1>6, <2>3
    <3>2. res[Len(new) + 1] = [end |-> "eof", updates |-> {}]
      BY <1>2, ReadsEnd, Zenon DEF res
    <3>3. res[o] = [end |-> res[Len(new) + 1].end,
                    updates |-> res[Len(new) + 1].updates \cup f.updates]
      BY <1>3, <1>4, <1>5, <1>8, <2>1, <2>3, <3>1, Zenon DEF ReadFrame
    <3>4. res[o] = [end |-> "eof", updates |-> f.updates]
      BY <3>2, <3>3
    <3> QED
      BY <2>3, <3>4, Zenon DEF res, new
  <2> QED
    BY <2>2, <2>3
<1> QED
  BY <1>7, <1>8

(* A frame that is written never completes torn cells before it: the first   *)
(* of its cells is not the one that is missing.                              *)
LEMMA NothingCompleted ==
    ASSUME NEW file \in Files, NEW f \in Frames, NEW k \in 1 .. HeaderCells + f.size,
           NEW garbage \in {"torn", "corrupt"}
    PROVE  ReplayFrom(file \o Cells(f, k), garbage).updates
               \subseteq ReplayFrom(file, garbage).updates \cup f.updates
<1> DEFINE ext == Cells(f, k)
           new == file \o ext
           old == Replay(file, garbage)
           res == Replay(new, garbage)
           G == {o \in 1 .. Len(file) + 1 : res[o].updates \subseteq old[o].updates \cup f.updates}
<1>1. Len(file) \in Nat /\ k \in Nat \ {0}
  BY FileTypes, CellsAssumption DEF Frames
<1>2. /\ ext \in Files /\ new \in Files /\ Len(new) = Len(file) + k
      /\ \A i \in 1 .. k : new[Len(file) + i] = [frame |-> f, part |-> i]
  BY <1>1, CellsAppended, ZenonT(60)
<1>3. Len(file) + 1 \in G
  <2>1. Len(file) + 1 \in 1 .. Len(file) + 1
    BY <1>1
  <2>2. res[Len(file) + 1].updates \subseteq f.updates
    <3>1. res[Len(file) + 1] = IF k = HeaderCells + f.size THEN [end |-> "eof", updates |-> f.updates]
                                                           ELSE [end |-> "torn", updates |-> {}]
      BY TailReads, Zenon
    <3> HIDE DEF res
    <3> QED
      BY <3>1
  <2> QED
    BY <2>1, <2>2
<1>4. ASSUME NEW o \in 1 .. Len(file), Whole(file, o), Behind(file, o) \in G PROVE o \in G
  <2> DEFINE b == Behind(file, o)
             x == file[o].frame.updates
  <2>1. new[o] = file[o] /\ Behind(new, o) = b /\ o \in 1 .. Len(new) /\ Whole(new, o)
    <3> HIDE DEF ext
    <3> QED
      BY <1>2, <1>4, WholeStays, Zenon
  <2>2. old[o] = [end |-> old[b].end, updates |-> old[b].updates \cup x]
    <3>1. IsRead(file, o, old)
      BY <1>4, ReadsWhole, Zenon
    <3> QED
      BY <3>1, Zenon DEF IsRead
  <2>3. res[o] = [end |-> res[b].end, updates |-> res[b].updates \cup x]
    <3> HIDE DEF new
    <3>1. IsRead(new, o, res)
      BY <1>2, <2>1, ReadsWhole, Zenon
    <3> QED
      BY <2>1, <3>1, Zenon DEF IsRead
  <2>4. res[b].updates \subseteq old[b].updates \cup f.updates
    BY <1>4, Zenon
  <2>5. o \in 1 .. Len(file) + 1
    BY <1>1
  <2> HIDE DEF old, res, b, x
  <2>6. res[o].updates \subseteq old[o].updates \cup f.updates
    BY <2>2, <2>3, <2>4
  <2> QED
    BY <2>5, <2>6
<1>5. ASSUME NEW o \in 1 .. Len(file), ~ Whole(file, o) PROVE o \in G
  <2>1. o \in 1 .. Len(file) + 1 /\ o \in Nat
    BY <1>1
  <2>2. /\ new[o] = file[o] /\ Behind(new, o) = Behind(file, o) /\ o \in 1 .. Len(new)
        /\ Whole(new, o) => ~ (Behind(file, o) <= Len(file) + 1)
    <3> HIDE DEF ext
    <3> QED
      BY <1>2, <1>5, WholeStays, Zenon
  <2>3. ASSUME Whole(new, o) PROVE FALSE
    <3> DEFINE g == file[o].frame
               j == HeaderCells + g.size
               i == Len(file) + 2 - o
    <3>1. g.size \in Nat \ {0} /\ HeaderCells \in Nat \ {0}
      BY FileTypes, CellsAssumption
    <3>2. IsPart(new, o, g, j)
      BY <2>2, <2>3, Zenon DEF Whole
    <3>3. Behind(file, o) = o + HeaderCells + g.size
      BY DEF Behind
    <3> HIDE DEF new, g
    <3>4. i \in 1 .. j /\ o + i - 1 = Len(file) + 1 /\ i # 1
      BY <1>1, <2>1, <2>2, <2>3, <3>1, <3>3
    <3>5. new[Len(file) + 1] = [frame |-> g, part |-> i]
      BY <3>2, <3>4 DEF IsPart
    <3>6. new[Len(file) + 1] = [frame |-> f, part |-> 1]
      BY <1>1, <1>2
    <3>7. new[Len(file) + 1].part = i /\ new[Len(file) + 1].part = 1
      BY <3>5, <3>6
    <3> QED
      BY <3>4, <3>7
  <2>4. res[o].updates = {}
    <3> HIDE DEF new
    <3> QED
      BY <1>2, <2>2, <2>3, TornEnds, Zenon DEF res
  <2> QED
    BY <2>1, <2>4
<1> HIDE DEF G
<1>6. 1 .. Len(file) + 1 \subseteq G
  BY <1>3, <1>4, <1>5, ReplayInduction
<1>7. 1 \in G
  BY <1>1, <1>6
<1> QED
  BY <1>7 DEF G, ReplayFrom

-----------------------------------------------------------------------------
(* The write-ahead log: the invariant *)

(* The updates that a replay of the file yields *)
Yield(file) == ReplayFrom(file, "torn").updates

(* A replay would not fail, however the pieces of a header were read. *)
Sound(file) == ReplayFrom(file, "corrupt").end # "corrupt"

(* The types, for files of any length *)
WalTypes ==
    /\ disk \in Files
    /\ status \in {"closed", "open", "failed"}
    /\ mem \subseteq Updates /\ acked \subseteq Updates
    /\ buried \in BOOLEAN
    /\ crashes \in 0 .. MaxCrashes

(* The memory of a node that runs has all that its log has. *)
MemHasLog == status = "open" => Yield(disk) \subseteq mem

(* Until a frame is buried the log has all that was acknowledged, and the    *)
(* memory of a node that runs has it too.                                    *)
LogHasAcked ==
    ~ buried => /\ Sound(disk)
                /\ acked \subseteq Yield(disk)
                /\ status # "failed"
                /\ status = "open" => acked \subseteq mem

(* The inductive invariant *)
WalInv == WalTypes /\ MemHasLog /\ LogHasAcked

(* What a replay yields, and that it does not fail, for a file that is clean *)
(* and a frame of which k cells were written                                 *)
LEMMA CleanWrite ==
    ASSUME NEW file \in Files, Clean(file), NEW f \in Frames, NEW k \in 1 .. HeaderCells + f.size
    PROVE  /\ Sound(file \o Cells(f, k))
           /\ k = HeaderCells + f.size => Yield(file \o Cells(f, k)) = Yield(file) \cup f.updates
<1> DEFINE ext == Cells(f, k)
           new == file \o ext
<1>1. k \in Nat
  BY CellsAssumption DEF Frames
<1>2. ext \in Files /\ new \in Files
  BY <1>1, CellsAppended, Zenon
<1>3. ReplayFrom(file, "corrupt").end = "eof" /\ ReplayFrom(file, "torn").end = "eof"
  <2>1. ReplayFrom(file, "corrupt").end = "eof"
    BY Zenon DEF Clean
  <2>2. ReplayFrom(file, "corrupt").end # "corrupt"
    BY <2>1
  <2> QED
    BY <2>1, <2>2, GarbageOnlyFails, Zenon
<1>4. ASSUME NEW garbage \in {"torn", "corrupt"}
      PROVE  Replay(new, garbage)[Len(file) + 1] =
                 IF k = HeaderCells + f.size THEN [end |-> "eof", updates |-> f.updates]
                                             ELSE [end |-> "torn", updates |-> {}]
  BY TailReads, Zenon
<1> HIDE DEF ext
<1>5. ASSUME NEW garbage \in {"torn", "corrupt"}, ReplayFrom(file, garbage).end = "eof"
      PROVE  /\ ReplayFrom(new, garbage).end = Replay(new, garbage)[Len(file) + 1].end
             /\ ReplayFrom(new, garbage).updates =
                    ReplayFrom(file, garbage).updates \cup Replay(new, garbage)[Len(file) + 1].updates
  BY <1>2, <1>5, CleanGoesOn
<1>6. Sound(new)
  <2> DEFINE t == Replay(new, "corrupt")[Len(file) + 1]
  <2>1. ReplayFrom(new, "corrupt").end = t.end
    BY <1>3, <1>5, Zenon
  <2>2. t = IF k = HeaderCells + f.size THEN [end |-> "eof", updates |-> f.updates]
                                        ELSE [end |-> "torn", updates |-> {}]
    BY <1>4, Zenon
  <2> HIDE DEF t
  <2>3. t.end # "corrupt"
    BY <2>2
  <2> QED
    BY <2>1, <2>3, Zenon DEF Sound
<1>7. ASSUME k = HeaderCells + f.size PROVE Yield(new) = Yield(file) \cup f.updates
  <2> DEFINE t == Replay(new, "torn")[Len(file) + 1]
  <2>1. ReplayFrom(new, "torn").updates = ReplayFrom(file, "torn").updates \cup t.updates
    BY <1>3, <1>5, Zenon
  <2>2. t = [end |-> "eof", updates |-> f.updates]
    BY <1>4, <1>7, Zenon
  <2> HIDE DEF t
  <2>3. t.updates = f.updates
    BY <2>2
  <2> QED
    BY <2>1, <2>3, Zenon DEF Yield
<1> QED
  BY <1>6, <1>7, Zenon DEF ext

(* Whatever the file was, a write takes nothing from it and adds no more     *)
(* than its own updates.                                                     *)
LEMMA AnyWrite ==
    ASSUME NEW file \in Files, NEW f \in Frames, NEW k \in 1 .. HeaderCells + f.size
    PROVE  /\ file \o Cells(f, k) \in Files
           /\ Yield(file) \subseteq Yield(file \o Cells(f, k))
           /\ Yield(file \o Cells(f, k)) \subseteq Yield(file) \cup f.updates
<1>1. k \in Nat
  BY CellsAssumption DEF Frames
<1>2. Cells(f, k) \in Files /\ file \o Cells(f, k) \in Files
  BY <1>1, CellsAppended, Zenon
<1>3. ReplayFrom(file, "torn").updates \subseteq ReplayFrom(file \o Cells(f, k), "torn").updates
  BY <1>2, ReplayGrows
<1>4. ReplayFrom(file \o Cells(f, k), "torn").updates \subseteq ReplayFrom(file, "torn").updates \cup f.updates
  BY NothingCompleted
<1> QED
  BY <1>2, <1>3, <1>4, Zenon DEF Yield

(* A log that consists of one frame yields that frame. *)
LEMMA OneFrame ==
    ASSUME NEW f \in Frames
    PROVE  LET new == Cells(f, HeaderCells + f.size)
           IN  new \in Files /\ Sound(new) /\ Yield(new) = f.updates
<1> DEFINE k == HeaderCells + f.size
           new == Cells(f, k)
<1>1. k \in Nat /\ k \in 1 .. HeaderCells + f.size
  BY CellsAssumption DEF Frames
<1>2. <<>> \in Files /\ Len(<<>>) = 0
  BY DEF Files
<1>3. new \in Files
  BY <1>1, <1>2, CellsAppended, Zenon
<1>4. <<>> \o new = new
  BY <1>3 DEF Files
<1>5. \A garbage : ReplayFrom(<<>>, garbage) = [end |-> "eof", updates |-> {}]
  <2>1. 0 + 1 = 1
    OBVIOUS
  <2> QED
    BY <1>2, <2>1, ReadsEnd DEF ReplayFrom
<1>6. Clean(<<>>) /\ Yield(<<>>) = {}
  BY <1>5 DEF Clean, Yield
<1>7. Sound(<<>> \o new) /\ Yield(<<>> \o new) = Yield(<<>>) \cup f.updates
  BY <1>1, <1>2, <1>6, CleanWrite, Zenon
<1> HIDE DEF k
<1> QED
  BY <1>3, <1>4, <1>6, <1>7, Zenon DEF k

(* A node that has never run *)
LEMMA WalStarts == WalInit => WalInv
<1> SUFFICES ASSUME WalInit PROVE WalInv
  OBVIOUS
<1>1. <<>> \in Files /\ Len(<<>>) = 0
  BY DEF Files
<1>2. ReplayFrom(<<>>, "corrupt").end # "corrupt"
  <2>1. 0 + 1 = 1
    OBVIOUS
  <2> QED
    BY <1>1, <2>1, ReadsEnd DEF ReplayFrom
<1>3. crashes \in 0 .. MaxCrashes
  BY CellsAssumption DEF WalInit
<1> QED
  BY <1>1, <1>2, <1>3, Zenon DEF WalInit, WalInv, WalTypes, MemHasLog, LogHasAcked, Sound

(* Every step keeps the invariant, and takes nothing from the log. *)
Kept == WalInv' /\ Yield(disk) \subseteq Yield(disk')

(* Opening the log reads what it has, and leaves it as it is. *)
LEMMA OpenKeeps == WalInv /\ Open => Kept
<1> SUFFICES ASSUME WalInv, Open PROVE Kept
  OBVIOUS
<1>1. PICK garbage \in {"torn", "corrupt"} :
          LET result == ReplayFrom(disk, garbage)
          IN  IF result.end = "corrupt"
              THEN status' = "failed" /\ mem' = {}
              ELSE status' = "open" /\ mem' = result.updates
  BY Zenon DEF Open
<1>2. UNCHANGED <<disk, acked, buried, crashes>>
  BY Zenon DEF Open
<1>3. WalTypes /\ disk \in Files
  BY Zenon DEF WalInv, WalTypes
<1>4. ReplayFrom(disk, garbage).updates = Yield(disk)
  BY <1>3, GarbageOnlyFails, Zenon DEF Yield
<1>5. ReplayFrom(disk, garbage).end = "corrupt" => ~ Sound(disk)
  BY <1>3, GarbageOnlyFails, Zenon DEF Sound
<1>6. Yield(disk) \subseteq Updates
  <2>1. 1 \in 1 .. Len(disk) + 1
    BY <1>3, FileTypes
  <2>2. Replay(disk, "torn")[1] \in [end : {"eof", "torn", "corrupt"}, updates : SUBSET Updates]
    BY <1>3, <2>1, ReplayTypes
  <2> QED
    BY <2>2, Zenon DEF Yield, ReplayFrom
<1>7. CASE ReplayFrom(disk, garbage).end = "corrupt"
  <2>1. status' = "failed" /\ mem' = {} /\ buried
    BY <1>1, <1>5, <1>7, Zenon DEF WalInv, LogHasAcked
  <2> QED
    BY <1>2, <1>3, <2>1 DEF Kept, WalInv, WalTypes, MemHasLog, LogHasAcked
<1>8. CASE ReplayFrom(disk, garbage).end # "corrupt"
  <2>1. status' = "open" /\ mem' = Yield(disk)
    BY <1>1, <1>4, <1>8, Zenon
  <2> QED
    BY <1>2, <1>3, <1>6, <2>1 DEF Kept, WalInv, WalTypes, MemHasLog, LogHasAcked
<1> QED
  BY <1>7, <1>8

(* append: the new frame is read when the log was clean. *)
LEMMA AppendKeeps ==
    ASSUME WalInv, NEW u \in Updates, NEW size \in PayloadCells, AppendRecord(u, size)
    PROVE  Kept
<1> DEFINE f == Frame({u}, size)
           k == HeaderCells + size
           new == disk \o Cells(f, k)
<1>1. /\ status = "open" /\ disk' = new /\ buried' = (buried \/ ~ Clean(disk))
      /\ mem' = mem \cup {u} /\ acked' = acked \cup {u} /\ UNCHANGED <<status, crashes>>
  BY Zenon DEF AppendRecord, WriteFrame
<1>2. f \in Frames /\ f.size = size /\ f.updates = {u} /\ k \in 1 .. HeaderCells + f.size /\ k = HeaderCells + f.size
  BY CellsAssumption DEF Frame, Frames
<1>3. disk \in Files /\ WalTypes
  BY Zenon DEF WalInv, WalTypes
<1> HIDE DEF f, k
<1>4. new \in Files /\ Yield(disk) \subseteq Yield(new) /\ Yield(new) \subseteq Yield(disk) \cup {u}
  BY <1>2, <1>3, AnyWrite
<1>5. Clean(disk) => Sound(new) /\ Yield(new) = Yield(disk) \cup {u}
  BY <1>2, <1>3, CleanWrite
<1> HIDE DEF new
<1>6. WalTypes'
  BY <1>1, <1>3, <1>4 DEF WalTypes
<1>7. MemHasLog'
  BY <1>1, <1>4 DEF WalInv, MemHasLog
<1>8. LogHasAcked'
  BY <1>1, <1>5, Zenon DEF WalInv, LogHasAcked
<1> QED
  BY <1>1, <1>4, <1>6, <1>7, <1>8, Zenon DEF Kept, WalInv

(* A crash in append leaves a torn tail, which a replay passes over. *)
LEMMA CrashInAppendKeeps ==
    ASSUME WalInv, NEW u \in Updates, NEW size \in PayloadCells,
           NEW k \in 0 .. HeaderCells + size - 1, CrashInAppend(u, size, k)
    PROVE  Kept
<1> DEFINE f == Frame({u}, size)
           new == disk \o Cells(f, k)
<1>1. /\ crashes < MaxCrashes /\ crashes' = crashes + 1 /\ acked' = acked
      /\ status' = "closed" /\ mem' = {}
      /\ IF k = 0 THEN UNCHANGED <<disk, buried>>
                  ELSE disk' = new /\ buried' = (buried \/ ~ Clean(disk))
  BY Zenon DEF CrashInAppend, WriteFrame
<1>2. f \in Frames /\ (k # 0 => k \in 1 .. HeaderCells + f.size)
  BY CellsAssumption DEF Frame, Frames
<1>3. disk \in Files /\ WalTypes /\ crashes' \in 0 .. MaxCrashes
  BY <1>1, CellsAssumption DEF WalInv, WalTypes
<1> HIDE DEF f
<1>4. k # 0 => new \in Files /\ Yield(disk) \subseteq Yield(new)
  BY <1>2, <1>3, AnyWrite
<1>5. k # 0 /\ Clean(disk) => Sound(new)
  BY <1>2, <1>3, CleanWrite
<1> HIDE DEF new
<1>6. CASE k = 0
  BY <1>1, <1>3, <1>6 DEF Kept, WalInv, WalTypes, MemHasLog, LogHasAcked
<1>7. CASE k # 0
  <2>1. disk' = new /\ buried' = (buried \/ ~ Clean(disk))
    BY <1>1, <1>7, Zenon
  <2>2. WalTypes'
    BY <1>1, <1>3, <1>4, <1>7, <2>1 DEF WalTypes
  <2>3. MemHasLog' /\ LogHasAcked'
    BY <1>1, <1>4, <1>5, <1>7, <2>1, Zenon DEF WalInv, MemHasLog, LogHasAcked
  <2> QED
    BY <1>4, <1>7, <2>1, <2>2, <2>3, Zenon DEF Kept, WalInv
<1> QED
  BY <1>6, <1>7

(* What the renamed file of a checkpoint holds *)
LEMMA CheckpointFile ==
    ASSUME WalInv, status = "open", NEW size \in PayloadCells
    PROVE  LET new == CheckpointCells(size, HeaderCells + size)
           IN  /\ new \in Files /\ Sound(new)
               /\ Yield(new) = mem /\ Yield(disk) \subseteq Yield(new)
               /\ ~ StillBuried => acked \subseteq mem
<1> DEFINE f == Frame(mem, size)
<1>1. f \in Frames /\ f.size = size /\ f.updates = mem
  BY CellsAssumption DEF Frame, Frames, WalInv, WalTypes
<1>2. CheckpointCells(size, HeaderCells + size) = Cells(f, HeaderCells + f.size)
  BY <1>1 DEF CheckpointCells
<1> HIDE DEF f
<1>3. LET new == Cells(f, HeaderCells + f.size)
      IN  new \in Files /\ Sound(new) /\ Yield(new) = f.updates
  BY <1>1, OneFrame
<1>4. Yield(disk) \subseteq mem
  BY Zenon DEF WalInv, MemHasLog
<1>5. ~ StillBuried => acked \subseteq mem
  BY Zenon DEF StillBuried, WalInv, LogHasAcked
<1> QED
  BY <1>1, <1>2, <1>3, <1>4, <1>5, Zenon

(* checkpoint() that returns: the log is one frame with all of the memory. *)
LEMMA CheckpointKeeps ==
    ASSUME WalInv, NEW size \in PayloadCells, Checkpoint(size)
    PROVE  Kept
<1> DEFINE new == CheckpointCells(size, HeaderCells + size)
<1>1. /\ status = "open" /\ disk' = new /\ buried' = StillBuried
      /\ UNCHANGED <<status, mem, acked, crashes>>
  BY Zenon DEF Checkpoint
<1>2. /\ new \in Files /\ Sound(new)
      /\ Yield(new) = mem /\ Yield(disk) \subseteq Yield(new)
      /\ ~ StillBuried => acked \subseteq mem
  BY <1>1, CheckpointFile
<1> HIDE DEF new
<1>3. StillBuried \in BOOLEAN
  BY DEF StillBuried
<1> QED
  BY <1>1, <1>2, <1>3 DEF Kept, WalInv, WalTypes, MemHasLog, LogHasAcked

(* A crash in checkpoint leaves the old file or the new one. *)
LEMMA CrashInCheckpointKeeps ==
    ASSUME WalInv, NEW size \in PayloadCells, NEW k \in 0 .. HeaderCells + size,
           CrashInCheckpoint(size, k)
    PROVE  Kept
<1> DEFINE new == CheckpointCells(size, HeaderCells + size)
<1>1. /\ status = "open" /\ crashes < MaxCrashes /\ crashes' = crashes + 1
      /\ status' = "closed" /\ mem' = {} /\ acked' = acked
  BY Zenon DEF CrashInCheckpoint
<1>2. WalTypes /\ crashes' \in 0 .. MaxCrashes
  BY <1>1, CellsAssumption DEF WalInv, WalTypes
<1>3. CASE k = HeaderCells + size
  <2>1. disk' = new /\ buried' = StillBuried
    BY <1>3, Zenon DEF CrashInCheckpoint
  <2>2. /\ new \in Files /\ Sound(new)
        /\ Yield(new) = mem /\ Yield(disk) \subseteq Yield(new)
        /\ ~ StillBuried => acked \subseteq mem
    BY <1>1, CheckpointFile
  <2> HIDE DEF new
  <2>3. StillBuried \in BOOLEAN
    BY DEF StillBuried
  <2> QED
    BY <1>1, <1>2, <2>1, <2>2, <2>3 DEF Kept, WalInv, WalTypes, MemHasLog, LogHasAcked
<1>4. CASE k # HeaderCells + size
  <2>1. disk' = disk /\ buried' = buried
    BY <1>4, Zenon DEF CrashInCheckpoint, CheckpointCells
  <2> QED
    BY <1>1, <1>2, <2>1 DEF Kept, WalInv, WalTypes, MemHasLog, LogHasAcked
<1> QED
  BY <1>3, <1>4

(* Every step keeps the invariant, and what can be recovered. *)
LEMMA WalSteps == WalInv /\ [WalNext]_walVars => Kept
<1> SUFFICES ASSUME WalInv, [WalNext]_walVars PROVE Kept
  BY Zenon
<1>1. CASE Close
  BY <1>1 DEF Close, Kept, WalInv, WalTypes, MemHasLog, LogHasAcked
<1>2. CASE UNCHANGED walVars
  BY <1>2 DEF walVars, Kept, WalInv, WalTypes, MemHasLog, LogHasAcked
<1> QED
  BY <1>1, <1>2, OpenKeeps, AppendKeeps, CrashInAppendKeeps, CheckpointKeeps,
     CrashInCheckpointKeeps, Zenon DEF WalNext

-----------------------------------------------------------------------------

(* Cells count from 1, and updates are those of the node. *)
THEOREM WalTypeCorrect == WalSpec => []WalTypeOK
<1>1. WalInv => WalTypeOK
  <2> SUFFICES ASSUME WalInv PROVE WalTypeOK
    OBVIOUS
  <2>1. \A i \in DOMAIN disk : disk[i].part \in Nat \ {0}
    <3>1. DOMAIN disk = 1 .. Len(disk)
      BY DEF WalInv, WalTypes, Files
    <3> QED
      BY <3>1, FileTypes, Zenon DEF WalInv, WalTypes
  <2> QED
    BY <2>1, Zenon DEF WalInv, WalTypes, WalTypeOK
<1>2. WalInv /\ [WalNext]_walVars => WalInv'
  BY WalSteps, Zenon DEF Kept
<1> QED
  BY <1>1, <1>2, WalStarts, PTL DEF WalSpec

(* Crash durability (append, checkpoint, replay): for frames of any size and *)
(* any number of crashes, at any cell, a replay does not fail and a node     *)
(* that runs has every update whose append returned, until a frame is        *)
(* written behind torn cells.                                                *)
THEOREM WalDurable == WalSpec => []DurableUnlessBuried
<1>1. WalInv => DurableUnlessBuried
  BY Zenon DEF WalInv, LogHasAcked, DurableUnlessBuried
<1>2. WalInv /\ [WalNext]_walVars => WalInv'
  BY WalSteps, Zenon DEF Kept
<1> QED
  BY <1>1, <1>2, WalStarts, PTL DEF WalSpec

(* No append, checkpoint or crash takes anything from what a replay of the   *)
(* log yields, whether frames are buried in it or not.                       *)
THEOREM WalRecoverableGrows == WalSpec => RecoverableGrows
<1>1. WalInv /\ [WalNext]_walVars => WalInv'
  BY WalSteps, Zenon DEF Kept
<1>2. WalInv /\ [WalNext]_walVars =>
          [ReplayFrom(disk, "torn").updates \subseteq ReplayFrom(disk', "torn").updates]_walVars
  BY WalSteps, Zenon DEF Kept, Yield
<1> QED
  BY <1>1, <1>2, WalStarts, PTL DEF WalSpec, RecoverableGrows

-----------------------------------------------------------------------------
(* Discovery: the replay cache *)

CacheEntries == [nonce : Nonces, age : 0 .. ReplayWindow + 1]

(* Entries are in the order in which they were made. *)
OldestFirst(entries) == \A i, j \in DOMAIN entries : i < j => entries[j].age <= entries[i].age

(* The entry that was made for b is there, or the cache is full of entries   *)
(* that were made later.                                                     *)
Covers(entries, b) ==
    \/ \E i \in DOMAIN entries : entries[i].nonce = b.nonce /\ entries[i].age <= b.age
    \/ Len(entries) = CacheSize /\ \A i \in DOMAIN entries : entries[i].age <= b.age

(* Entries have a nonce and an age. *)
LEMMA EntryTypes ==
    /\ \A e \in CacheEntries : e.nonce \in Nonces /\ e.age \in Nat /\ e.age <= ReplayWindow + 1
    /\ \A n \in Nonces : \A a \in Nat : a <= ReplayWindow + 1 => [nonce |-> n, age |-> a] \in CacheEntries
  BY DiscoveryAssumption DEF CacheEntries

(* What is left is the rest of the cache from the first entry that has not   *)
(* expired.                                                                  *)
LEMMA UnexpiredIsSuffix ==
    ASSUME NEW entries \in Seq(CacheEntries)
    PROVE  \E k \in 1 .. Len(entries) + 1 :
               /\ Unexpired(entries) = SubSeq(entries, k, Len(entries))
               /\ \A j \in 1 .. k - 1 : entries[j].age > ReplayWindow
               /\ k <= Len(entries) => entries[k].age <= ReplayWindow
<1> DEFINE N == Len(entries)
           First(i) == /\ \A j \in 1 .. i - 1 : entries[j].age > ReplayWindow
                       /\ i <= N => entries[i].age <= ReplayWindow
           T == {i \in 1 .. N : entries[i].age <= ReplayWindow}
<1>1. N \in Nat /\ \A i \in 1 .. N : entries[i].age \in Nat
  BY EntryTypes
<1>2. \E i \in 1 .. N + 1 : First(i)
  <2>1. CASE T = {}
    <3>1. \A j \in 1 .. N : entries[j].age > ReplayWindow
      BY <1>1, <2>1, DiscoveryAssumption
    <3> HIDE DEF N
    <3>2. First(N + 1) /\ N + 1 \in 1 .. N + 1
      BY <1>1, <3>1
    <3> QED
      BY <3>2
  <2>2. CASE T # {}
    <3>1. T \in SUBSET Nat
      BY <1>1
    <3>2. PICK k \in T : \A y \in T : k <= y
      <4> HIDE DEF T
      <4> QED
        BY <2>2, <3>1, LeastNumber
    <3>3. k \in 1 .. N /\ entries[k].age <= ReplayWindow
      OBVIOUS
    <3>4. ASSUME NEW j \in 1 .. k - 1 PROVE entries[j].age > ReplayWindow
      <4>1. j \in 1 .. N /\ ~ (k <= j)
        BY <1>1, <3>3
      <4>2. ~ (entries[j].age <= ReplayWindow)
        BY <3>2, <4>1
      <4> QED
        BY <1>1, <4>1, <4>2, DiscoveryAssumption
    <3> QED
      BY <1>1, <3>3, <3>4
  <2> QED
    BY <2>1, <2>2, Zenon
<1> DEFINE first == CHOOSE i \in 1 .. N + 1 : First(i)
<1>3. first \in 1 .. N + 1 /\ First(first)
  <2> HIDE DEF First
  <2> QED
    BY <1>2, Zenon
<1>4. Unexpired(entries) = SubSeq(entries, first, N)
  BY Zenon DEF Unexpired
<1> HIDE DEF first
<1> QED
  BY <1>3, <1>4, Zenon

(* Expired entries are gone, the others are there, in their order. *)
LEMMA UnexpiredKeeps ==
    ASSUME NEW entries \in Seq(CacheEntries), OldestFirst(entries)
    PROVE  LET kept == Unexpired(entries)
           IN  /\ kept \in Seq(CacheEntries) /\ Len(kept) <= Len(entries)
               /\ OldestFirst(kept)
               /\ \A i \in DOMAIN kept : kept[i].age <= ReplayWindow
               /\ \A i \in DOMAIN entries : entries[i].age <= ReplayWindow =>
                      \E j \in DOMAIN kept : kept[j] = entries[i]
               /\ (\A i \in DOMAIN entries : entries[i].age <= ReplayWindow) => kept = entries
<1> DEFINE N == Len(entries)
           kept == Unexpired(entries)
<1>1. /\ N \in Nat /\ DOMAIN entries = 1 .. N
      /\ \A i \in 1 .. N : entries[i] \in CacheEntries /\ entries[i].age \in Nat
  BY EntryTypes
<1>2. PICK k \in 1 .. N + 1 :
          /\ kept = SubSeq(entries, k, N)
          /\ \A j \in 1 .. k - 1 : entries[j].age > ReplayWindow
          /\ k <= N => entries[k].age <= ReplayWindow
  BY UnexpiredIsSuffix
<1> HIDE DEF kept
<1>3. /\ kept \in Seq(CacheEntries) /\ Len(kept) = N + 1 - k
      /\ DOMAIN kept = 1 .. N + 1 - k
      /\ \A i \in 1 .. N + 1 - k : kept[i] = entries[i + k - 1]
  BY <1>1, <1>2
<1>4. \A i \in 1 .. N + 1 - k : i + k - 1 \in k .. N /\ i + k - 1 \in 1 .. N
  BY <1>1, <1>2
<1>5. OldestFirst(kept)
  <2> SUFFICES ASSUME NEW i \in 1 .. N + 1 - k, NEW j \in 1 .. N + 1 - k, i < j
               PROVE  kept[j].age <= kept[i].age
    BY <1>3, Zenon DEF OldestFirst
  <2>1. i + k - 1 < j + k - 1
    BY <1>1, <1>2
  <2> QED
    BY <1>1, <1>3, <1>4, <2>1, Zenon DEF OldestFirst
<1>6. ASSUME NEW i \in 1 .. N + 1 - k PROVE kept[i].age <= ReplayWindow
  <2>1. i + k - 1 \in 1 .. N /\ k \in 1 .. N /\ (k < i + k - 1 \/ k = i + k - 1)
    BY <1>1, <1>2, <1>4
  <2>2. entries[k].age <= ReplayWindow
    BY <1>1, <1>2, <2>1
  <2>3. entries[i + k - 1].age <= entries[k].age
    <3>1. CASE k = i + k - 1
      BY <1>1, <2>1, <3>1
    <3>2. CASE k < i + k - 1
      BY <1>1, <2>1, <3>2, Zenon DEF OldestFirst
    <3> QED
      BY <2>1, <3>1, <3>2
  <2> QED
    <3>1. kept[i].age = entries[i + k - 1].age
      BY <1>3, Zenon
    <3>2. entries[i + k - 1].age \in Nat /\ entries[k].age \in Nat
      BY <1>1, <2>1, Zenon
    <3> QED
      BY <2>2, <2>3, <3>1, <3>2, DiscoveryAssumption, SMTT(30)
<1>7. ASSUME NEW i \in 1 .. N, entries[i].age <= ReplayWindow
      PROVE  \E j \in DOMAIN kept : kept[j] = entries[i]
  <2>1. ~ (i \in 1 .. k - 1)
    BY <1>1, <1>2, <1>7, DiscoveryAssumption
  <2>2. i + 1 - k \in 1 .. N + 1 - k /\ i + 1 - k + k - 1 = i
    BY <1>1, <1>2, <2>1
  <2> QED
    BY <1>3, <2>2, Zenon
<1>8. ASSUME \A i \in 1 .. N : entries[i].age <= ReplayWindow PROVE kept = entries
  <2>1. k = 1
    <3> SUFFICES ASSUME k # 1 PROVE FALSE
      BY Zenon
    <3>1. 1 \in 1 .. k - 1 /\ 1 \in 1 .. N
      BY <1>1, <1>2
    <3> QED
      BY <1>1, <1>2, <1>8, <3>1, DiscoveryAssumption
  <2> QED
    BY <1>1, <1>2, <2>1
<1>9. Len(kept) <= N
  BY <1>1, <1>2, <1>3
<1> QED
  BY <1>1, <1>3, <1>5, <1>6, <1>7, <1>8, <1>9, Zenon DEF kept

(* A nonce that is looked for while a beacon with it could pass is not among *)
(* the expired ones.                                                         *)
LEMMA UnexpiredCovers ==
    ASSUME NEW entries \in Seq(CacheEntries), OldestFirst(entries),
           NEW b \in Beacon, b.age <= ReplayWindow, Covers(entries, b)
    PROVE  Covers(Unexpired(entries), b)
<1> DEFINE kept == Unexpired(entries)
<1>1. b.age \in Nat /\ ReplayWindow \in Nat
  BY DiscoveryAssumption DEF Beacon
<1>2. /\ \A i \in DOMAIN entries : entries[i].age <= ReplayWindow =>
             \E j \in DOMAIN kept : kept[j] = entries[i]
      /\ (\A i \in DOMAIN entries : entries[i].age <= ReplayWindow) => kept = entries
  BY UnexpiredKeeps, Zenon
<1> HIDE DEF kept
<1>3. \A i \in DOMAIN entries : entries[i].age <= b.age => entries[i].age <= ReplayWindow
  <2> SUFFICES ASSUME NEW i \in DOMAIN entries, entries[i].age <= b.age
               PROVE  entries[i].age <= ReplayWindow
    BY Zenon
  <2>1. entries[i] \in CacheEntries
    OBVIOUS
  <2>2. entries[i].age \in Nat
    BY <2>1, EntryTypes, Zenon
  <2> QED
    BY <1>1, <2>2
<1> QED
  BY <1>2, <1>3, Zenon DEF Covers, kept

(* check_and_remember: the cache keeps its size and its order, holds a nonce *)
(* that it did not know, and covers what it covered before.  An entry that   *)
(* is evicted was the oldest.                                                *)
LEMMA RememberKeeps ==
    ASSUME NEW entries \in Seq(CacheEntries), OldestFirst(entries), Len(entries) <= CacheSize,
           NEW nonce \in Nonces
    PROVE  /\ Remember(entries, nonce) \in Seq(CacheEntries)
           /\ Len(Remember(entries, nonce)) <= CacheSize
           /\ OldestFirst(Remember(entries, nonce))
           /\ ~ Remembers(Unexpired(entries), nonce) =>
                  \E i \in DOMAIN Remember(entries, nonce) :
                      Remember(entries, nonce)[i] = [nonce |-> nonce, age |-> 0]
           /\ \A b \in Beacon : b.age <= ReplayWindow /\ Covers(entries, b)
                                  => Covers(Remember(entries, nonce), b)
<1> DEFINE kept == Unexpired(entries)
           e == [nonce |-> nonce, age |-> 0]
           all == Append(kept, e)
           L == Len(kept)
           new == Remember(entries, nonce)
<1>1. /\ kept \in Seq(CacheEntries) /\ Len(kept) <= Len(entries)
      /\ OldestFirst(kept)
  BY UnexpiredKeeps, Zenon
<1>2. \A b \in Beacon : b.age <= ReplayWindow /\ Covers(entries, b) => Covers(kept, b)
  BY UnexpiredCovers, Zenon
<1>3. new = IF Remembers(kept, nonce) THEN kept
            ELSE IF Len(all) > CacheSize THEN Tail(all) ELSE all
  BY Zenon DEF Remember
<1> HIDE DEF kept, new
<1>4. /\ L \in Nat /\ L <= CacheSize /\ DOMAIN kept = 1 .. L /\ CacheSize \in Nat /\ CacheSize # 0
      /\ \A i \in 1 .. L : kept[i] \in CacheEntries
  BY <1>1, DiscoveryAssumption
<1>5. \A i \in 1 .. L : kept[i].age \in Nat
  BY <1>4, EntryTypes, Zenon
<1>6. e \in CacheEntries /\ e.nonce = nonce /\ e.age = 0
  BY DiscoveryAssumption DEF CacheEntries
<1> HIDE DEF e
<1>7. \A b \in Beacon : b.age \in Nat /\ e.age <= b.age
  BY <1>6 DEF Beacon
<1>8. CASE Remembers(kept, nonce)
  <2>1. new = kept
    BY <1>3, <1>8, Zenon
  <2> QED
    BY <1>1, <1>2, <1>4, <1>8, <2>1, Zenon DEF new, kept
<1>9. CASE ~ Remembers(kept, nonce)
  <2>1. /\ all \in Seq(CacheEntries) /\ Len(all) = L + 1 /\ DOMAIN all = 1 .. L + 1
        /\ \A i \in 1 .. L : i \in DOMAIN all /\ all[i] = kept[i]
        /\ L + 1 \in DOMAIN all /\ all[L + 1] = e
    BY <1>1, <1>4, <1>6
  <2>2. \A i, j \in 1 .. L + 1 : i < j => all[j].age <= all[i].age
    <3> SUFFICES ASSUME NEW i \in 1 .. L + 1, NEW j \in 1 .. L + 1, i < j
                 PROVE  all[j].age <= all[i].age
      BY Zenon
    <3>1. i \in 1 .. L /\ (j \in 1 .. L \/ j = L + 1)
      BY <1>4
    <3>2. CASE j \in 1 .. L
      BY <1>1, <1>4, <2>1, <3>1, <3>2, Zenon DEF OldestFirst
    <3>3. CASE j = L + 1
      <4>1. 0 <= kept[i].age
        BY <1>5, <3>1
      <4> QED
        BY <1>6, <2>1, <3>1, <3>3, <4>1, Zenon
    <3> QED
      BY <3>1, <3>2, <3>3, Zenon
  <2> HIDE DEF all
  <2>5. /\ Len(all) > CacheSize => L = CacheSize /\ L # 0
        /\ ~ (Len(all) > CacheSize) => Len(all) <= CacheSize /\ L # CacheSize
    <3>1. Len(all) = L + 1 /\ L \in Nat /\ L <= CacheSize /\ CacheSize \in Nat /\ CacheSize # 0
      BY <1>4, <2>1, Zenon
    <3> HIDE DEF L
    <3> QED
      BY <3>1
  <2>3. CASE ~ (Len(all) > CacheSize)
    <3>1. new = all
      BY <1>3, <1>9, <2>3, Zenon
    <3>2. Len(all) <= CacheSize /\ Len(kept) # CacheSize
      BY <2>3, <2>5, Zenon
    <3>3. ASSUME NEW b \in Beacon, Covers(kept, b) PROVE Covers(all, b)
      BY <1>4, <2>1, <3>2, <3>3, Zenon DEF Covers
    <3>4. OldestFirst(all)
      BY <2>1, <2>2, Zenon DEF OldestFirst
    <3> QED
      BY <1>2, <2>1, <3>1, <3>2, <3>3, <3>4, Zenon DEF new, e
  <2>4. CASE Len(all) > CacheSize
    <3>1. new = Tail(all)
      BY <1>3, <1>9, <2>4, Zenon
    <3>2. L = CacheSize /\ L # 0
      BY <2>4, <2>5, Zenon
    <3>3. /\ new \in Seq(CacheEntries) /\ Len(new) = L /\ DOMAIN new = 1 .. L
          /\ \A i \in 1 .. L : i + 1 \in 1 .. L + 1 /\ new[i] = all[i + 1]
      BY <1>4, <2>1, <3>1
    <3>4. L \in DOMAIN new /\ new[L] = e
      BY <1>4, <2>1, <3>2, <3>3
    <3>5. OldestFirst(new)
      <4> SUFFICES ASSUME NEW i \in 1 .. L, NEW j \in 1 .. L, i < j
                   PROVE  new[j].age <= new[i].age
        BY <3>3, Zenon DEF OldestFirst
      <4>1. i + 1 < j + 1
        BY <1>4
      <4> QED
        BY <2>2, <3>3, <4>1, Zenon
    <3>6. ASSUME NEW b \in Beacon, Covers(kept, b) PROVE Covers(new, b)
      <4>1. CASE \A i \in 1 .. L : kept[i].age <= b.age
        <5>1. ASSUME NEW i \in 1 .. L PROVE new[i].age <= b.age
          <6>1. i + 1 \in 1 .. L \/ i + 1 = L + 1
            BY <1>4
          <6> QED
            BY <1>7, <2>1, <3>3, <4>1, <6>1, Zenon
        <5> QED
          BY <3>2, <3>3, <5>1, Zenon DEF Covers
      <4>2. ASSUME NEW i \in 1 .. L, kept[i].nonce = b.nonce, kept[i].age <= b.age
            PROVE  Covers(new, b)
        <5>1. CASE i = 1
          <6>1. ASSUME NEW j \in 1 .. L PROVE kept[j].age <= b.age
            <7>1. CASE j = 1
              BY <4>2, <5>1, <7>1, Zenon
            <7>2. CASE j # 1
              <8>1. 1 < j /\ 1 \in 1 .. L
                BY <1>4, <7>2
              <8>2. kept[j].age <= kept[1].age
                BY <1>1, <1>4, <8>1, Zenon DEF OldestFirst
              <8> QED
                BY <1>5, <1>7, <4>2, <5>1, <8>1, <8>2
            <7> QED
              BY <7>1, <7>2, Zenon
          <6> QED
            BY <4>1, <6>1, Zenon
        <5>2. CASE i # 1
          <6>1. i - 1 \in 1 .. L /\ i - 1 + 1 = i
            BY <1>4, <5>2
          <6>2. new[i - 1] = kept[i]
            BY <2>1, <3>3, <6>1
          <6> QED
            BY <3>3, <4>2, <6>1, <6>2, Zenon DEF Covers
        <5> QED
          BY <5>1, <5>2, Zenon
      <4> QED
        BY <1>4, <3>6, <4>1, <4>2, Zenon DEF Covers
    <3>7. Len(new) <= CacheSize
      BY <1>4, <3>2, <3>3
    <3> QED
      BY <1>2, <3>3, <3>4, <3>5, <3>6, <3>7, Zenon DEF new, e
  <2> QED
    BY <2>3, <2>4, Zenon
<1> QED
  BY <1>8, <1>9, Zenon

-----------------------------------------------------------------------------
(* Discovery: the invariant *)

(* A beacon that was applied, and that could pass once more *)
MayPass(b) == b.nonce \in applied /\ b.age <= ReplayWindow

Guarded == \A b \in UnderWay : MayPass(b) => Covers(cache, b)

(* A datagram in the air has copies that are still to come. *)
Aloft == \A b \in air : b.copies # 0

DiscoveryInv == DiscoveryTypeOK /\ OldestFirst(cache) /\ Aloft /\ Guarded

(* The fields of a beacon *)
LEMMA BeaconTypes ==
    /\ \A b \in Beacon : /\ b.nonce \in Nonces /\ b.from \in Senders /\ b.address \in Addresses
                          /\ b.age \in Nat /\ b.copies \in 0 .. MaxCopies
    /\ MaxCopies \in Nat /\ MaxCopies # 0 /\ ReplayWindow \in Nat
  BY DiscoveryAssumption DEF Beacon

(* The cache and what was applied stay, and datagrams are only copied,       *)
(* moved or dropped.                                                         *)
LEMMA GuardedStays ==
    ASSUME Guarded, UNCHANGED <<cache, applied>>,
           \A y \in UnderWay' : \E x \in UnderWay : x.nonce = y.nonce /\ x.age = y.age
    PROVE  Guarded'
<1> SUFFICES ASSUME NEW y \in UnderWay', MayPass(y)' PROVE Covers(cache', y)
  BY Zenon DEF Guarded
<1>1. PICK x \in UnderWay : x.nonce = y.nonce /\ x.age = y.age
  BY Zenon
<1>2. MayPass(x)
  BY <1>1, Zenon DEF MayPass
<1>3. Covers(cache, x)
  BY <1>2, Zenon DEF Guarded
<1> QED
  BY <1>1, <1>3, Zenon DEF Covers

(* A new beacon has a nonce of which there is no trace. *)
LEMMA AnnounceKeeps ==
    ASSUME DiscoveryInv, NEW s \in Senders, Announce(s)
    PROVE  DiscoveryInv'
<1>1. PICK nonce \in Nonces :
          /\ Free(nonce)
          /\ air' = air \cup {[nonce |-> nonce, from |-> s, address |-> address[s],
                               age |-> 0, copies |-> MaxCopies]}
          /\ applied' = applied \ {nonce}
  BY Zenon DEF Announce
<1>2. /\ timer' = [timer EXCEPT ![s] = BeaconInterval]
      /\ UNCHANGED <<running, address, starts, inbox, cache, peers, scan, node>>
  BY Zenon DEF Announce
<1> DEFINE new == [nonce |-> nonce, from |-> s, address |-> address[s],
                   age |-> 0, copies |-> MaxCopies]
<1>3. new \in Beacon /\ new.nonce = nonce /\ new.copies # 0
  BY DiscoveryAssumption DEF DiscoveryInv, DiscoveryTypeOK, Beacon
<1>4. air' = air \cup {new}
  BY <1>1, Zenon
<1> HIDE DEF new
<1>5. timer' \in [Senders -> 0 .. BeaconInterval]
  BY <1>2, DiscoveryAssumption DEF DiscoveryInv, DiscoveryTypeOK
<1>6. DiscoveryTypeOK'
  BY <1>1, <1>2, <1>3, <1>4, <1>5, Zenon DEF DiscoveryInv, DiscoveryTypeOK
<1>7. Aloft'
  BY <1>3, <1>4, Zenon DEF DiscoveryInv, Aloft
<1>8. Guarded'
  <2> SUFFICES ASSUME NEW b \in UnderWay', MayPass(b)' PROVE Covers(cache', b)
    BY Zenon DEF Guarded
  <2>1. b \in UnderWay \/ b = new
    BY <1>2, <1>4, Zenon DEF UnderWay
  <2>2. b # new
    BY <1>1, <1>3, Zenon DEF MayPass
  <2>3. MayPass(b)
    BY <1>1, Zenon DEF MayPass
  <2> QED
    BY <1>2, <2>1, <2>2, <2>3, Zenon DEF DiscoveryInv, Guarded
<1> QED
  BY <1>2, <1>6, <1>7, <1>8, Zenon DEF DiscoveryInv

(* Append adds one element, at the end. *)
LEMMA Appends ==
    ASSUME NEW S, NEW s \in Seq(S), NEW e \in S, NEW limit \in Nat, Len(s) < limit
    PROVE  /\ Append(s, e) \in Seq(S) /\ Len(Append(s, e)) <= limit
           /\ \A i \in DOMAIN Append(s, e) :
                  Append(s, e)[i] = e \/ (i \in DOMAIN s /\ Append(s, e)[i] = s[i])
  OBVIOUS

(* A copy of a datagram has its nonce and its timestamp. *)
LEMMA DatagramKeeps ==
    ASSUME DiscoveryInv, NEW b \in air, DatagramReceived(b)
    PROVE  DiscoveryInv'
<1> DEFINE copy == [b EXCEPT !.copies = 0]
           left == [b EXCEPT !.copies = @ - 1]
<1>1. /\ Len(inbox) < InboxSize /\ inbox' = Append(inbox, copy)
      /\ air' = (air \ {b}) \cup (IF b.copies = 1 THEN {} ELSE {left})
      /\ UNCHANGED <<running, address, starts, timer, cache, peers, scan, node, applied>>
  BY Zenon DEF DatagramReceived
<1>2. b \in Beacon /\ b.copies # 0
  BY Zenon DEF DiscoveryInv, DiscoveryTypeOK, Aloft
<1>3. /\ copy \in Beacon /\ copy.nonce = b.nonce /\ copy.age = b.age
      /\ left.nonce = b.nonce /\ left.age = b.age
  BY <1>2, BeaconTypes DEF Beacon
<1>4. b.copies # 1 => left \in Beacon /\ left.copies # 0
  BY <1>2, BeaconTypes DEF Beacon
<1> HIDE DEF copy, left
<1>5. inbox \in Seq(Beacon) /\ InboxSize \in Nat
  BY DiscoveryAssumption DEF DiscoveryInv, DiscoveryTypeOK
<1>6. /\ inbox' \in Seq(Beacon) /\ Len(inbox') <= InboxSize
      /\ \A i \in DOMAIN inbox' : inbox'[i] = copy \/ (i \in DOMAIN inbox /\ inbox'[i] = inbox[i])
  <2>1. inbox' = Append(inbox, copy) /\ Len(inbox) < InboxSize /\ copy \in Beacon
    BY <1>1, <1>3, Zenon
  <2> QED
    BY <1>5, <2>1, Appends
<1>7. air' \subseteq Beacon /\ Aloft'
  BY <1>1, <1>4, Zenon DEF DiscoveryInv, DiscoveryTypeOK, Aloft
<1>8. DiscoveryTypeOK'
  BY <1>1, <1>6, <1>7, Zenon DEF DiscoveryInv, DiscoveryTypeOK
<1>9. \A y \in UnderWay' : \E x \in UnderWay : x.nonce = y.nonce /\ x.age = y.age
  <2> SUFFICES ASSUME NEW y \in UnderWay'
               PROVE  \E x \in UnderWay : x.nonce = y.nonce /\ x.age = y.age
    BY Zenon
  <2>1. y \in UnderWay \/ y = copy \/ y = left
    BY <1>1, <1>6, Zenon DEF UnderWay
  <2>2. b \in UnderWay
    BY Zenon DEF UnderWay
  <2> QED
    BY <1>3, <2>1, <2>2, Zenon
<1>10. Guarded'
  BY <1>1, <1>9, GuardedStays, Zenon DEF DiscoveryInv
<1> QED
  BY <1>1, <1>7, <1>8, <1>10, Zenon DEF DiscoveryInv

(* A round of the listener: what it remembers covers the beacon it applies,  *)
(* and all that was covered.                                                 *)
LEMMA ListenKeeps ==
    ASSUME DiscoveryInv, Listen
    PROVE  DiscoveryInv'
<1> DEFINE b == Head(inbox)
<1>1. /\ inbox # <<>> /\ inbox' = Tail(inbox)
      /\ cache' = IF b.age <= ReplayWindow THEN Remember(cache, b.nonce) ELSE cache
      /\ UNCHANGED <<running, address, starts, timer, air, scan>>
  BY Zenon DEF Listen
<1>2. \/ /\ Accepts(b) /\ peers' = Entered(b)
         /\ node' = IF b.from \in Directory THEN node ELSE OnDiscovered(b.from, b.address)
         /\ applied' = applied \cup {b.nonce}
      \/ UNCHANGED <<peers, node, applied>>
  BY Zenon DEF Listen
<1>3. /\ inbox \in Seq(Beacon) /\ Len(inbox) <= InboxSize /\ InboxSize \in Nat
  BY DiscoveryAssumption DEF DiscoveryInv, DiscoveryTypeOK
<1>4. /\ b \in Beacon
      /\ inbox' \in Seq(Beacon) /\ Len(inbox') <= InboxSize
      /\ \A i \in DOMAIN inbox' : i + 1 \in DOMAIN inbox /\ inbox'[i] = inbox[i + 1]
  BY <1>1, <1>3
<1> HIDE DEF b
<1>5. /\ b.nonce \in Nonces /\ b.from \in Senders /\ b.address \in Addresses
  BY <1>4, BeaconTypes, Zenon
<1>6. /\ cache \in Seq(CacheEntries) /\ OldestFirst(cache) /\ Len(cache) <= CacheSize
  BY Zenon DEF DiscoveryInv, DiscoveryTypeOK, CacheEntries
<1>7. /\ cache' \in Seq(CacheEntries) /\ OldestFirst(cache)' /\ Len(cache') <= CacheSize
      /\ \A x \in Beacon : x.age <= ReplayWindow /\ Covers(cache, x) => Covers(cache', x)
      /\ Accepts(b) => \E i \in DOMAIN cache' : cache'[i] = [nonce |-> b.nonce, age |-> 0]
  BY <1>1, <1>5, <1>6, RememberKeeps, Zenon DEF Accepts
<1>8. peers' \in [Senders -> [address : Addresses, age : 0 .. Ttl + 1] \cup {Unknown}]
  <2>1. [address |-> b.address, age |-> 0] \in [address : Addresses, age : 0 .. Ttl + 1]
    BY <1>5, DiscoveryAssumption
  <2>2. peers \in [Senders -> [address : Addresses, age : 0 .. Ttl + 1] \cup {Unknown}]
    BY Zenon DEF DiscoveryInv, DiscoveryTypeOK
  <2> QED
    BY <1>2, <1>5, <2>1, <2>2, Zenon DEF Entered
<1>9. node' \in [Senders -> Addresses \cup {0}]
  <2>1. node \in [Senders -> Addresses \cup {0}]
    BY Zenon DEF DiscoveryInv, DiscoveryTypeOK
  <2> QED
    BY <1>2, <1>5, <2>1, Zenon DEF OnDiscovered
<1>10. applied' \subseteq Nonces
  BY <1>2, <1>5, Zenon DEF DiscoveryInv, DiscoveryTypeOK
<1>11. DiscoveryTypeOK'
  BY <1>1, <1>4, <1>7, <1>8, <1>9, <1>10, Zenon DEF DiscoveryInv, DiscoveryTypeOK, CacheEntries
<1>12. Aloft'
  BY <1>1, Zenon DEF DiscoveryInv, Aloft
<1>13. Guarded'
  <2> SUFFICES ASSUME NEW x \in UnderWay', MayPass(x)' PROVE Covers(cache', x)
    BY Zenon DEF Guarded
  <2>1. x \in UnderWay
    BY <1>1, <1>4, Zenon DEF UnderWay
  <2>2. x \in Beacon
    <3>1. CASE x \in air
      BY <3>1, Zenon DEF DiscoveryInv, DiscoveryTypeOK
    <3>2. CASE x \notin air
      <4>1. PICK i \in DOMAIN inbox : x = inbox[i]
        BY <2>1, <3>2, Zenon DEF UnderWay
      <4> QED
        BY <1>3, <4>1
    <3> QED
      BY <3>1, <3>2, Zenon
  <2>3. x.age <= ReplayWindow /\ x.nonce \in applied'
    BY Zenon DEF MayPass
  <2>4. CASE x.nonce \in applied
    <3>1. MayPass(x)
      BY <2>3, <2>4, Zenon DEF MayPass
    <3>2. Covers(cache, x)
      BY <2>1, <3>1, Zenon DEF DiscoveryInv, Guarded
    <3> QED
      BY <1>7, <2>2, <2>3, <3>2, Zenon
  <2>5. CASE x.nonce \notin applied
    <3>1. Accepts(b) /\ x.nonce = b.nonce
      BY <1>2, <2>3, <2>5, Zenon
    <3>2. PICK i \in DOMAIN cache' : cache'[i] = [nonce |-> b.nonce, age |-> 0]
      BY <1>7, <3>1, Zenon
    <3>3. cache'[i].nonce = x.nonce /\ cache'[i].age = 0
      BY <3>1, <3>2
    <3>4. 0 <= x.age
      BY <2>2, BeaconTypes
    <3> QED
      BY <3>3, <3>4, Zenon DEF Covers
  <2> QED
    BY <2>4, <2>5, Zenon
<1> QED
  BY <1>7, <1>11, <1>12, <1>13, Zenon DEF DiscoveryInv

(* Ages grow up to one more than their limit, and keep their order. *)
LEMMA OlderGrows ==
    ASSUME NEW limit \in Nat, NEW x \in 0 .. limit + 1, NEW y \in 0 .. limit + 1
    PROVE  /\ Older(x, limit) \in 0 .. limit + 1
           /\ x <= y => Older(x, limit) <= Older(y, limit)
           /\ Older(x, limit) <= x + 1
  BY DEF Older

(* A beacon and the entry that was made for it grow older together. *)
LEMMA TickKeeps ==
    ASSUME DiscoveryInv, Tick
    PROVE  DiscoveryInv'
<1> DEFINE W == ReplayWindow
           N == Len(cache)
<1>1. /\ inbox = <<>> /\ inbox' = inbox
      /\ timer' = [s \in Senders |-> Sooner(timer[s])] /\ scan' = Sooner(scan)
      /\ UNCHANGED <<running, address, starts, node, applied>>
  BY Zenon DEF Tick
<1>2. air' = {[b EXCEPT !.age = @ + 1] : b \in {c \in air : c.age <= ReplayWindow}}
  BY DEF Tick
<1>3. cache' = [i \in DOMAIN cache |-> [cache[i] EXCEPT !.age = Older(@, W)]]
  BY Zenon DEF Tick
<1>4. peers' = [s \in Senders |-> IF peers[s] = Unknown THEN Unknown
                                  ELSE [peers[s] EXCEPT !.age = Older(@, Ttl)]]
  BY Zenon DEF Tick
<1>5. W \in Nat /\ Ttl \in Nat /\ air \subseteq Beacon
  BY DiscoveryAssumption DEF DiscoveryInv, DiscoveryTypeOK
<1>6. /\ N \in Nat /\ DOMAIN cache = 1 .. N /\ OldestFirst(cache) /\ N <= CacheSize
      /\ \A i \in 1 .. N : cache[i] \in CacheEntries
  <2>1. cache \in Seq(CacheEntries) /\ OldestFirst(cache) /\ Len(cache) <= CacheSize
    BY Zenon DEF DiscoveryInv, DiscoveryTypeOK, CacheEntries
  <2> QED
    BY <2>1
<1>7. \A y \in air' : \E x \in air : /\ x.age <= W /\ y.nonce = x.nonce /\ y.age = x.age + 1
                                     /\ y \in Beacon /\ y.copies # 0
  <2> SUFFICES ASSUME NEW y \in air'
               PROVE  \E x \in air : /\ x.age <= W /\ y.nonce = x.nonce /\ y.age = x.age + 1
                                     /\ y \in Beacon /\ y.copies # 0
    BY Zenon
  <2>1. PICK x \in air : x.age <= W /\ y = [x EXCEPT !.age = @ + 1]
    BY <1>2
  <2>2. x \in Beacon /\ x.copies # 0
    BY <1>5, Zenon DEF DiscoveryInv, Aloft
  <2>3. y \in Beacon /\ y.nonce = x.nonce /\ y.age = x.age + 1 /\ y.copies = x.copies
    BY <1>5, <2>1, <2>2 DEF Beacon
  <2> QED
    BY <2>1, <2>2, <2>3, Zenon
<1>8. \A i \in 1 .. N : /\ cache[i].age \in 0 .. W + 1
                        /\ cache'[i].nonce = cache[i].nonce /\ cache'[i].age = Older(cache[i].age, W)
                        /\ cache'[i] \in CacheEntries
  <2> SUFFICES ASSUME NEW i \in 1 .. N
               PROVE  /\ cache[i].age \in 0 .. W + 1
                      /\ cache'[i].nonce = cache[i].nonce /\ cache'[i].age = Older(cache[i].age, W)
                      /\ cache'[i] \in CacheEntries
    BY Zenon
  <2>1. cache'[i] = [cache[i] EXCEPT !.age = Older(@, W)]
    BY <1>3, <1>6, Zenon
  <2>2. cache[i] \in CacheEntries /\ cache[i].age \in 0 .. W + 1
    BY <1>6 DEF CacheEntries
  <2>3. Older(cache[i].age, W) \in 0 .. W + 1
    BY <1>5, <2>2, OlderGrows, Zenon
  <2> QED
    BY <2>1, <2>2, <2>3 DEF CacheEntries
<1>9. cache' \in Seq(CacheEntries) /\ Len(cache') = N /\ DOMAIN cache' = 1 .. N
  <2>1. cache' = [i \in 1 .. N |-> cache'[i]]
    BY <1>3, <1>6, Zenon
  <2>2. N \in Nat
    BY <1>6
  <2> HIDE DEF N
  <2> QED
    BY <1>8, <2>1, <2>2
<1> HIDE DEF W
<1>10. OldestFirst(cache)'
  <2> SUFFICES ASSUME NEW i \in 1 .. N, NEW j \in 1 .. N, i < j
               PROVE  cache'[j].age <= cache'[i].age
    BY <1>9, Zenon DEF OldestFirst
  <2>1. cache[j].age <= cache[i].age
    BY <1>6, Zenon DEF OldestFirst
  <2> QED
    BY <1>5, <1>8, <2>1, OlderGrows, Zenon
<1>11. Guarded'
  <2> SUFFICES ASSUME NEW y \in UnderWay', MayPass(y)' PROVE Covers(cache', y)
    BY Zenon DEF Guarded
  <2>1. y \in air'
    BY <1>1 DEF UnderWay
  <2>2. PICK x \in air : x.age <= W /\ y.nonce = x.nonce /\ y.age = x.age + 1 /\ y \in Beacon
    BY <1>7, <2>1, Zenon
  <2>3. x \in UnderWay /\ MayPass(x)
    BY <1>1, <2>2, Zenon DEF UnderWay, MayPass, W
  <2>4. Covers(cache, x)
    BY <2>3, Zenon DEF DiscoveryInv, Guarded
  <2>5. ASSUME NEW i \in 1 .. N, cache[i].age <= x.age PROVE cache'[i].age <= y.age
    <3>1. Older(cache[i].age, W) <= cache[i].age + 1
      BY <1>5, <1>8, OlderGrows, Zenon
    <3>2. /\ cache[i].age \in Nat /\ x.age \in Nat /\ Older(cache[i].age, W) \in Nat
      <4>1. Older(cache[i].age, W) \in 0 .. W + 1 /\ cache[i].age \in 0 .. W + 1
        BY <1>5, <1>8, OlderGrows, Zenon
      <4> QED
        BY <1>5, <4>1, BeaconTypes
    <3>3. Older(cache[i].age, W) <= x.age + 1
      BY <2>5, <3>1, <3>2
    <3> QED
      BY <1>8, <2>2, <3>3, Zenon
  <2> QED
    BY <1>6, <1>8, <1>9, <2>2, <2>4, <2>5, Zenon DEF Covers
<1>12. timer' \in [Senders -> 0 .. BeaconInterval] /\ scan' \in 0 .. ScanInterval
  BY <1>1, DiscoveryAssumption DEF DiscoveryInv, DiscoveryTypeOK, Sooner
<1>13. peers' \in [Senders -> [address : Addresses, age : 0 .. Ttl + 1] \cup {Unknown}]
  <2> SUFFICES ASSUME NEW s \in Senders, peers[s] # Unknown
               PROVE  [peers[s] EXCEPT !.age = Older(@, Ttl)] \in [address : Addresses, age : 0 .. Ttl + 1]
    BY <1>4, Zenon
  <2>1. peers[s] \in [address : Addresses, age : 0 .. Ttl + 1]
    BY Zenon DEF DiscoveryInv, DiscoveryTypeOK
  <2>2. Older(peers[s].age, Ttl) \in 0 .. Ttl + 1
    BY <1>5, <2>1, OlderGrows
  <2> QED
    BY <2>1, <2>2
<1>14. DiscoveryTypeOK'
  BY <1>1, <1>6, <1>7, <1>9, <1>12, <1>13, Zenon DEF DiscoveryInv, DiscoveryTypeOK, CacheEntries
<1>15. Aloft'
  BY <1>7, Zenon DEF Aloft
<1> QED
  BY <1>10, <1>11, <1>14, <1>15, Zenon DEF DiscoveryInv

(* Senders stop and start, and the directory is scanned, without touching    *)
(* datagrams, nonces or the cache.                                           *)
LEMMA OthersKeep ==
    ASSUME DiscoveryInv,
           \/ \E s \in Senders : StopSender(s)
           \/ \E s \in Senders, a \in Addresses : StartSender(s, a)
           \/ TtlScan
           \/ UNCHANGED discoveryVars
    PROVE  DiscoveryInv'
<1>1. UNCHANGED <<air, inbox, cache, applied>>
  BY Zenon DEF StopSender, StartSender, TtlScan, discoveryVars
<1>2. Guarded' /\ Aloft' /\ OldestFirst(cache)'
  BY <1>1, Zenon DEF DiscoveryInv, Guarded, Aloft, OldestFirst, UnderWay, MayPass, Covers
<1>3. DiscoveryTypeOK'
  <2>1. ASSUME NEW s \in Senders, StopSender(s) PROVE DiscoveryTypeOK'
    BY <2>1, Zenon DEF StopSender, DiscoveryInv, DiscoveryTypeOK
  <2>2. ASSUME NEW s \in Senders, NEW a \in Addresses, StartSender(s, a) PROVE DiscoveryTypeOK'
    <3>1. 0 \in 0 .. BeaconInterval
      BY DiscoveryAssumption
    <3> QED
      BY <2>2, <3>1, Zenon DEF StartSender, DiscoveryInv, DiscoveryTypeOK
  <2>3. ASSUME TtlScan PROVE DiscoveryTypeOK'
    <3>1. ScanInterval \in 0 .. ScanInterval
      BY DiscoveryAssumption
    <3> QED
      BY <2>3, <3>1, Zenon DEF TtlScan, DiscoveryInv, DiscoveryTypeOK
  <2>4. ASSUME UNCHANGED discoveryVars PROVE DiscoveryTypeOK'
    BY <2>4, Zenon DEF discoveryVars, DiscoveryInv, DiscoveryTypeOK
  <2> QED
    BY <2>1, <2>2, <2>3, <2>4, Zenon
<1> QED
  BY <1>2, <1>3, Zenon DEF DiscoveryInv

(* At first nothing is under way, and nothing is remembered. *)
LEMMA DiscoveryStarts == DiscoveryInit => DiscoveryInv
<1> SUFFICES ASSUME DiscoveryInit PROVE DiscoveryInv
  BY Zenon
<1>1. /\ air = {} /\ inbox = <<>> /\ cache = <<>> /\ applied = {}
      /\ inbox \in Seq(Beacon) /\ cache \in Seq(CacheEntries)
      /\ Len(inbox) <= InboxSize /\ Len(cache) <= CacheSize
      /\ 0 \in 0 .. BeaconInterval /\ ScanInterval \in 0 .. ScanInterval
  BY DiscoveryAssumption DEF DiscoveryInit
<1>2. DiscoveryTypeOK
  BY <1>1, Zenon DEF DiscoveryInit, DiscoveryTypeOK, CacheEntries
<1>3. OldestFirst(cache)
  BY <1>1 DEF OldestFirst
<1>4. Aloft /\ Guarded
  BY <1>1, Zenon DEF Aloft, Guarded, MayPass
<1> QED
  BY <1>2, <1>3, <1>4, Zenon DEF DiscoveryInv

(* Every step keeps the invariant. *)
LEMMA DiscoverySteps == DiscoveryInv /\ [DiscoveryNext]_discoveryVars => DiscoveryInv'
  BY AnnounceKeeps, DatagramKeeps, ListenKeeps, TickKeeps, OthersKeep, Zenon DEF DiscoveryNext

(* The inbox of the broadcast transport and the replay cache never exceed    *)
(* their limits (datagram_received, check_and_remember), whatever they are.  *)
THEOREM DiscoveryTypeCorrect == DiscoverySpec => []DiscoveryTypeOK
<1>1. DiscoveryInv => DiscoveryTypeOK
  BY Zenon DEF DiscoveryInv
<1> QED
  BY <1>1, DiscoveryStarts, DiscoverySteps, PTL DEF DiscoverySpec

(* A copy of an applied beacon whose timestamp is still fresh meets its      *)
(* nonce in the replay cache, or CacheSize nonces that were remembered       *)
(* later: _listen_loop and check_and_remember, for every window and size.    *)
THEOREM BeaconsAreRemembered == DiscoverySpec => []RememberedUnlessFull
<1>1. ASSUME DiscoveryInv PROVE RememberedUnlessFull
  <2> SUFFICES ASSUME NEW b \in UnderWay, b.nonce \in applied, b.age <= ReplayWindow
               PROVE  \/ Remembers(Unexpired(cache), b.nonce)
                      \/ /\ Len(Unexpired(cache)) = CacheSize
                         /\ \A i \in DOMAIN Unexpired(cache) : Unexpired(cache)[i].age <= b.age
    BY Zenon DEF RememberedUnlessFull
  <2>1. Covers(cache, b)
    BY <1>1, Zenon DEF DiscoveryInv, Guarded, MayPass
  <2>2. cache \in Seq(CacheEntries) /\ OldestFirst(cache)
    BY <1>1, Zenon DEF DiscoveryInv, DiscoveryTypeOK, CacheEntries
  <2>3. b \in Beacon
    <3>1. air \subseteq Beacon /\ inbox \in Seq(Beacon)
      BY <1>1, Zenon DEF DiscoveryInv, DiscoveryTypeOK
    <3> QED
      BY <3>1 DEF UnderWay
  <2>4. Covers(Unexpired(cache), b)
    BY <2>1, <2>2, <2>3, UnexpiredCovers, Zenon
  <2> QED
    BY <2>4, Zenon DEF Covers, Remembers
<1> QED
  BY <1>1, DiscoveryStarts, DiscoverySteps, PTL DEF DiscoverySpec

=============================================================================
