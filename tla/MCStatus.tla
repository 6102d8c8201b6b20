------------------------------ MODULE MCStatus ------------------------------
(***************************************************************************)
(* An instance of Metrics and one of StatusServer for model checking.      *)
(* They share no variable, so that each is explored while the other rests. *)
(***************************************************************************)
EXTENDS Metrics, StatusServer

VARIABLE half   \* which of the two is explored

mcVars == <<metricVars, statusVars, half>>

MCInit == MetricsInit /\ StatusInit /\ half \in {"metrics", "status"}

MCNext ==
    /\ \/ half = "metrics" /\ MetricsNext /\ UNCHANGED statusVars
       \/ half = "status" /\ StatusNext /\ UNCHANGED metricVars
    /\ UNCHANGED half

MCSpec == MCInit /\ [][MCNext]_mcVars /\ StatusFairness

(* Two sub-buckets per octave; values below, at and between the limits of    *)
(* buckets, at the end of the last one (16 microseconds), and far beyond.    *)
MCValues == {0, 3, 5, 9, 15, 31, 100}

(* The types of both *)
MCTypeOK == MetricsTypeOK /\ StatusTypeOK

=============================================================================
