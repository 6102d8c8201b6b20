--------------------------- MODULE FailureDetector ---------------------------
(***************************************************************************)
(* The phi-accrual detector of peerq/failure.py at one node, for one peer  *)
(* that it monitors, and the heartbeats that the peer sends                *)
(* (PeerNode._heartbeat_loop).                                             *)
(*                                                                         *)
(* Time is relative: elapsed is the time since the last heartbeat.  phi is *)
(* a growing function of (elapsed - mean) / deviation, so that it reaches  *)
(* the threshold exactly when that quotient reaches a constant z (5.61 for *)
(* the threshold 8); squared, and multiplied by the square of the number n *)
(* of intervals, the comparison is one of integers:                        *)
(*     (n * elapsed - sum)^2  >=  z^2 * max(n * squares - sum^2, n^2 * floor) *)
(***************************************************************************)
EXTENDS Naturals, Sequences

CONSTANTS
    Period,        \* heartbeat_interval
    WindowSize,    \* window_size
    MinSamples,    \* min_samples
    ThresholdNum,  \* z^2 of the threshold, as a fraction
    ThresholdDen,
    FloorDen,      \* variance_floor is 1 / FloorDen
    MaxDelay,      \* bound: time that a heartbeat is under way
    MaxGap,        \* bound: silence in which a heartbeat may be lost
    MaxElapsed     \* bound: where elapsed stops

ASSUME DetectorAssumption ==
    /\ Period \in Nat \ {0} /\ WindowSize \in Nat \ {0} /\ MinSamples \in Nat \ {0}
    /\ ThresholdNum \in Nat \ {0} /\ ThresholdDen \in Nat \ {0} /\ FloorDen \in Nat \ {0}
    /\ MaxDelay \in Nat /\ MaxGap \in Nat /\ MaxElapsed \in Nat
    /\ MaxGap + Period + MaxDelay < MaxElapsed

VARIABLES
    alive,      \* the monitored peer runs
    timer,      \* its _heartbeat_loop sleeps that long
    transit,    \* the ages of the heartbeats that are under way
    known,      \* the peer is in _last_heartbeat
    elapsed,    \* now - _last_heartbeat
    intervals   \* _intervals

detectorVars == <<alive, timer, transit, known, elapsed, intervals>>

DetectorInit ==
    /\ alive = TRUE
    /\ timer = 0
    /\ transit = {}
    /\ known = FALSE
    /\ elapsed = 0
    /\ intervals = <<>>

Beat ==
    /\ alive /\ timer = 0
    /\ timer' = Period
    /\ transit' = transit \cup {0}
    /\ UNCHANGED <<alive, known, elapsed, intervals>>

(* deque(maxlen=window_size).append *)
Window(s) == IF Len(s) > WindowSize THEN Tail(s) ELSE s

(* Mutant: a heartbeat that comes late is dropped as an outlier *)
Heartbeat_DropsLate ==
    /\ intervals' = IF known /\ elapsed \in 1 .. 2 * Period
                    THEN Window(Append(intervals, elapsed)) ELSE intervals
    /\ known' = TRUE
    /\ elapsed' = IF known /\ elapsed > 2 * Period THEN elapsed ELSE 0

Heartbeat ==
    /\ intervals' = IF known /\ elapsed > 0 THEN Window(Append(intervals, elapsed)) ELSE intervals
    /\ known' = TRUE
    /\ elapsed' = 0

Arrive(age) ==
    /\ age \in transit
    /\ transit' = transit \ {age}
    /\ Heartbeat
    /\ UNCHANGED <<alive, timer>>

Lose(age) ==
    /\ age \in transit
    /\ elapsed <= MaxGap
    /\ transit' = transit \ {age}
    /\ UNCHANGED <<alive, timer, known, elapsed, intervals>>

Crash ==
    /\ alive
    /\ alive' = FALSE
    /\ timer' = 0
    /\ UNCHANGED <<transit, known, elapsed, intervals>>

Tick ==
    /\ alive => timer > 0
    /\ \A age \in transit : age < MaxDelay
    /\ timer' = IF alive THEN timer - 1 ELSE timer
    /\ transit' = {age + 1 : age \in transit}
    /\ elapsed' = IF elapsed < MaxElapsed THEN elapsed + 1 ELSE elapsed
    /\ UNCHANGED <<alive, known, intervals>>

DetectorNext ==
    \/ Beat
    \/ \E age \in transit : Arrive(age)
    \/ \E age \in transit : Lose(age)
    \/ Crash
    \/ Tick

DetectorSpec == DetectorInit /\ [][DetectorNext]_detectorVars

-----------------------------------------------------------------------------
Sum(s) ==
    LET upTo[k \in 0 .. Len(s)] == IF k = 0 THEN 0 ELSE upTo[k - 1] + s[k]
    IN  upTo[Len(s)]

Squares(s) == Sum([k \in 1 .. Len(s) |-> s[k] * s[k]])

(* Mutant: the cold start lasts one interval longer *)
WarmedUp_OffByOne == Len(intervals) > MinSamples

WarmedUp == Len(intervals) >= MinSamples

(* Mutant: a heartbeat that comes early counts like a late one *)
FarAboveMean_AnySide ==
    LET n == Len(intervals)
        total == Sum(intervals)
        late == IF n * elapsed > total THEN n * elapsed - total ELSE total - n * elapsed
        spread == FloorDen * (n * Squares(intervals) - total * total)
    IN  ThresholdDen * FloorDen * late * late
            >= ThresholdNum * (IF spread >= n * n THEN spread ELSE n * n)

(* The elapsed time is z deviations above the mean: late is n times the   *)
(* difference, spread is n^2 times the variance with its floor, scaled.   *)
FarAboveMean ==
    LET n == Len(intervals)
        total == Sum(intervals)
        late == n * elapsed - total
        spread == FloorDen * (n * Squares(intervals) - total * total)
    IN  /\ n * elapsed > total
        /\ ThresholdDen * FloorDen * late * late
               >= ThresholdNum * (IF spread >= n * n THEN spread ELSE n * n)

(* is_suspected: phi is infinite for a peer that was never heard of, and 0 in *)
(* the cold start.                                                            *)
Suspected == known => WarmedUp /\ elapsed > 0 /\ FarAboveMean

-----------------------------------------------------------------------------
(* Types: the window of _intervals has at most window_size intervals, all of *)
(* them positive (heartbeat ignores a delta that is not).                  *)
DetectorTypeOK ==
    /\ alive \in BOOLEAN /\ known \in BOOLEAN
    /\ timer \in 0 .. Period
    /\ transit \subseteq 0 .. MaxDelay
    /\ elapsed \in 0 .. MaxElapsed
    /\ intervals \in Seq(1 .. MaxElapsed) /\ Len(intervals) <= WindowSize

(* Only a heartbeat ends a suspicion: while none arrives, phi does not fall *)
(* below the threshold again, whatever the intervals in the window are.     *)
SuspicionIsStable == [][known /\ Suspected /\ elapsed' > elapsed => Suspected']_detectorVars

(* Beat and Tick are the loop of the peer and the clock; a heartbeat that is *)
(* under way arrives, or is lost, before Tick exceeds MaxDelay.              *)
DetectorFairSpec ==
    /\ DetectorSpec
    /\ WF_detectorVars(Beat)
    /\ WF_detectorVars(Tick)
    /\ WF_detectorVars(\E age \in transit : Arrive(age))

(* Completeness: the silence of a crashed peer is noticed, however irregular *)
(* its heartbeats were, once min_samples intervals have been seen.           *)
CrashIsNoticed == ~ alive /\ Len(intervals) >= MinSamples ~> Suspected

(* A wrong suspicion is withdrawn: a peer that goes on sending is trusted   *)
(* again (or crashes), although its long silence is now in the window.      *)
TrustReturns == alive /\ Suspected ~> ~ Suspected \/ ~ alive

=============================================================================
