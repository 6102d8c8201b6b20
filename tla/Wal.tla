--------------------------------- MODULE Wal ---------------------------------
(***************************************************************************)
(* The write-ahead log of peerq/wal.py, with process crashes in the middle *)
(* of an append or of a checkpoint.                                        *)
(*                                                                         *)
(* The file is a sequence of cells that stand for runs of bytes: a frame   *)
(* is HeaderCells cells of header and then one or more of payload, so that *)
(* a write can be torn inside the header, between header and payload and   *)
(* inside the payload.  The magic of the file is one small write and is    *)
(* left out.  A record is an update of the state of a node, a checkpoint   *)
(* holds a set of updates; replaying joins them.                           *)
(*                                                                         *)
(* Replay finds the next frame by the length in the header at its offset.  *)
(* Nine bytes that were not written as one header may be read as any       *)
(* length and type: as a frame that ends beyond the file, which replay     *)
(* takes for a torn tail, or as a corrupt one; the CRC excludes the third  *)
(* possibility, that they are read as a record.                            *)
(***************************************************************************)
EXTENDS Naturals, Sequences, FiniteSets

CONSTANTS
    HeaderCells,    \* cells of a frame header
    PayloadCells,   \* numbers of cells that a payload may have
    MaxUpdates,     \* bound: updates of the node
    MaxCrashes      \* bound: crashes

ASSUME CellsAssumption ==
    /\ HeaderCells \in Nat \ {0} /\ PayloadCells \subseteq Nat \ {0}
    /\ MaxUpdates \in Nat /\ MaxCrashes \in Nat

VARIABLES
    disk,      \* the cells of the file
    status,    \* "closed", "open", or "failed": replay raised WalCorruptError
    mem,       \* the updates in the memory of the node
    acked,     \* the updates whose append returned
    buried,    \* history: a frame was written behind torn cells
    crashes

walVars == <<disk, status, mem, acked, buried, crashes>>

(* The updates that a frame carries, one or the set of a checkpoint, and the *)
(* cells of its payload.                                                     *)
Frame(updates, size) == [updates |-> updates, size |-> size]

(* The first k cells of a frame *)
Cells(f, k) == [i \in 1 .. k |-> [frame |-> f, part |-> i]]

-----------------------------------------------------------------------------
(* replay(strict=False), from offset o: the updates it yields, and how it ends. *)
(* How a header made of pieces is read is given by garbage.                     *)

IsPart(file, o, f, k) == \A i \in 1 .. k : file[o + i - 1] = [frame |-> f, part |-> i]

(* The frame at offset o, with the result of what comes behind it *)
ReadFrame(file, garbage, rest, o) ==
    LET f == file[o].frame
        next == o + HeaderCells + f.size
    IN  IF o = Len(file) + 1 THEN [end |-> "eof", updates |-> {}]
        ELSE IF o + HeaderCells > Len(file) + 1 THEN [end |-> "torn", updates |-> {}]
        ELSE IF ~ IsPart(file, o, f, HeaderCells) THEN [end |-> garbage, updates |-> {}]
        ELSE IF next > Len(file) + 1 THEN [end |-> "torn", updates |-> {}]
        ELSE IF ~ IsPart(file, o, f, HeaderCells + f.size)
             THEN [end |-> "corrupt", updates |-> {}]
        ELSE [end |-> rest[next].end, updates |-> rest[next].updates \cup f.updates]

Replay(file, garbage) ==
    LET at[o \in 1 .. Len(file) + 1] == ReadFrame(file, garbage, at, o)
    IN  at

(* Mutant: a torn tail raises, as with strict=True *)
ReplayFrom_Strict(file, garbage) ==
    LET at[o \in 1 .. Len(file) + 1] ==
          IF o = Len(file) + 1 THEN [end |-> "eof", updates |-> {}]
          ELSE LET f == file[o].frame
                   next == o + HeaderCells + f.size
               IN  IF next > Len(file) + 1 \/ ~ IsPart(file, o, f, next - o)
                   THEN [end |-> "corrupt", updates |-> {}]
                   ELSE [at[next] EXCEPT !.updates = @ \cup f.updates]
    IN  at[1]

ReplayFrom(file, garbage) == Replay(file, garbage)[1]

Clean(file) == ReplayFrom(file, "corrupt").end = "eof"

-----------------------------------------------------------------------------
WalInit ==
    /\ disk = <<>>
    /\ status = "closed"
    /\ mem = {}
    /\ acked = {}
    /\ buried = FALSE
    /\ crashes = 0

(* WriteAheadLog(path) and the replay of PeerNode.start: the file is opened  *)
(* for appending as it is.                                                   *)
Open ==
    /\ status # "open"
    /\ \E garbage \in {"torn", "corrupt"} :
          LET result == ReplayFrom(disk, garbage)
          IN  IF result.end = "corrupt"
              THEN status' = "failed" /\ mem' = {}
              ELSE status' = "open" /\ mem' = result.updates
    /\ UNCHANGED <<disk, acked, buried, crashes>>

(* The node makes an update, and logs it. *)
Updates == 1 .. MaxUpdates

NewUpdate(u) == u \in Updates /\ u \notin mem \cup acked

WriteFrame(f, k) ==
    /\ disk' = disk \o Cells(f, k)
    /\ buried' = (buried \/ ~ Clean(disk))

AppendRecord(u, size) ==
    LET f == Frame({u}, size)
    IN  /\ status = "open"
        /\ NewUpdate(u)
        /\ WriteFrame(f, HeaderCells + size)
        /\ mem' = mem \cup {u}
        /\ acked' = acked \cup {u}
        /\ UNCHANGED <<status, crashes>>

(* The process dies in append, when only k cells have reached the file. *)
CrashInAppend(u, size, k) ==
    /\ status = "open"
    /\ NewUpdate(u)
    /\ crashes < MaxCrashes
    /\ crashes' = crashes + 1
    /\ IF k = 0 THEN UNCHANGED <<disk, buried>> ELSE WriteFrame(Frame({u}, size), k)
    /\ status' = "closed"
    /\ mem' = {}
    /\ UNCHANGED acked

(* Mutant: the checkpoint is written over the log itself *)
CheckpointCells_InPlace(size, k) == Cells(Frame(mem, size), k)

(* What the path holds when k cells of the checkpoint have been written to   *)
(* the temporary file: it is renamed over the log when it is complete.       *)
CheckpointCells(size, k) ==
    IF k = HeaderCells + size THEN Cells(Frame(mem, size), k) ELSE disk

(* A checkpoint has the frames behind torn cells again, from the memory of   *)
(* the node, unless a replay has missed them already.                        *)
StillBuried == buried /\ ~ acked \subseteq mem

(* checkpoint(): close, write the temporary file, rename it, open again.  A  *)
(* temporary file that a crash left behind is truncated by the next one.     *)
Checkpoint(size) ==
    /\ status = "open"
    /\ disk' = CheckpointCells(size, HeaderCells + size)
    /\ buried' = StillBuried
    /\ UNCHANGED <<status, mem, acked, crashes>>

CrashInCheckpoint(size, k) ==
    /\ status = "open"
    /\ crashes < MaxCrashes
    /\ crashes' = crashes + 1
    /\ disk' = CheckpointCells(size, k)
    /\ buried' = IF k = HeaderCells + size THEN StillBuried ELSE buried
    /\ status' = "closed"
    /\ mem' = {}
    /\ UNCHANGED acked

(* stop() *)
Close ==
    /\ status = "open"
    /\ status' = "closed"
    /\ mem' = {}
    /\ UNCHANGED <<disk, acked, buried, crashes>>

WalNext ==
    \/ Open
    \/ Close
    \/ \E u \in Updates, size \in PayloadCells : AppendRecord(u, size)
    \/ \E u \in Updates, size \in PayloadCells :
          \E k \in 0 .. HeaderCells + size - 1 : CrashInAppend(u, size, k)
    \/ \E size \in PayloadCells : Checkpoint(size)
    \/ \E size \in PayloadCells : \E k \in 0 .. HeaderCells + size : CrashInCheckpoint(size, k)

WalSpec == WalInit /\ [][WalNext]_walVars

-----------------------------------------------------------------------------
(* Types: the cells of a frame count from 1 (ReplayFrom reads them so). *)
WalTypeOK ==
    /\ \A i \in DOMAIN disk : disk[i].part \in Nat \ {0}
    /\ status \in {"closed", "open", "failed"}
    /\ mem \subseteq Updates /\ acked \subseteq Updates
    /\ buried \in BOOLEAN
    /\ crashes \in 0 .. MaxCrashes

(* Crash durability: a torn write never prevents the recovery, and a node  *)
(* that is running has every update whose append returned, through any     *)
(* number of crashes in appends and in checkpoints, as long as no frame    *)
(* has been appended behind the torn cells.                                *)
DurableUnlessBuried ==
    ~ buried => /\ status # "failed"
                /\ status = "open" => acked \subseteq mem

(* Historical entries are never damaged: what a replay yields, up to a     *)
(* torn place, only grows; an append leaves the earlier frames alone, and  *)
(* a checkpoint replaces them by a frame that holds all of their updates,  *)
(* also when the process dies on the way.                                  *)
RecoverableGrows ==
    [][ReplayFrom(disk, "torn").updates \subseteq ReplayFrom(disk', "torn").updates]_walVars

=============================================================================
