------------------------------- MODULE Metrics -------------------------------
(***************************************************************************)
(* LogLinearHistogram and MetricsCollector of peerq/metrics.py, for one of *)
(* the histograms and one of the counters of a node, and what              *)
(* format_prometheus_text of peerq/exporter.py reads of them.              *)
(*                                                                         *)
(* Values are numbers of half microseconds: the code truncates what it     *)
(* records to whole microseconds and reports the middle of a bucket, so    *)
(* that halves are all that it takes.  A quantile is a pair of naturals,   *)
(* the numerator and the denominator of q.                                 *)
(***************************************************************************)
EXTENDS Naturals, Sequences, FiniteSets, FiniteSetsExt

CONSTANTS
    SubBucketBits,  \* sub_bucket_bits
    MaxOctave,      \* max_octave, the logarithm of max_value rounded up
    Values,         \* the latencies that are recorded
    Infinity,       \* more than any of them: what _min starts with
    MaxSamples,     \* bound: how many of them
    MaxCount        \* bound: increments of the counter

ASSUME MetricsAssumption ==
    /\ SubBucketBits \in 1..16 /\ MaxOctave \in Nat
    /\ Values \subseteq Nat /\ Infinity \in Nat /\ \A v \in Values : v < Infinity
    /\ MaxSamples \in Nat /\ MaxCount \in Nat

VARIABLES
    counts,     \* _counts: how many values each bucket holds
    total,      \* _total_count
    low, high,  \* _min and _max
    counter,    \* one entry of _counters
    samples     \* history: the values that were recorded

metricVars == <<counts, total, low, high, counter, samples>>

-----------------------------------------------------------------------------

(* 1 << n *)
Pow2[n \in Nat] == IF n = 0 THEN 1 ELSE 2 * Pow2[n - 1]

SubBucketCount == Pow2[SubBucketBits]

OctaveCount == Max({1, MaxOctave + 1 - SubBucketBits})

TotalBuckets == SubBucketCount + OctaveCount * SubBucketCount

Buckets == 0 .. TotalBuckets - 1

(* bit_length() - 1 of a positive number *)
Octave(i) == CHOOSE e \in 0..i : Pow2[e] <= i /\ i < Pow2[e + 1]

(* Mutant: octaves are counted without the linear part before them *)
ValueToIndex_NoLinearPart(v) ==
    LET i == v \div 2
        octave == Octave(i)
    IN  IF i < SubBucketCount THEN i
        ELSE Min({(octave - SubBucketBits) * SubBucketCount
                      + ((i \div Pow2[octave - SubBucketBits]) % SubBucketCount),
                  TotalBuckets - 1})

(* _value_to_index *)
ValueToIndex(v) ==
    LET i == v \div 2
        octave == Octave(i)
    IN  IF i < SubBucketCount THEN i
        ELSE Min({SubBucketCount + (octave - SubBucketBits) * SubBucketCount
                      + ((i \div Pow2[octave - SubBucketBits]) % SubBucketCount),
                  TotalBuckets - 1})

(* _index_to_approx_value: the middle of the bucket, in halves *)
IndexToApproxValue(b) ==
    LET offset == b - SubBucketCount
        shift == offset \div SubBucketCount
        width == Pow2[shift]
    IN  IF b < SubBucketCount THEN 2 * b + 1
        ELSE 2 * (Pow2[shift + SubBucketBits] + (offset % SubBucketCount) * width) + width

(* How many values there are up to each bucket, cumulative of the loop in quantile *)
Cumulative(c) ==
    LET upTo[b \in Buckets] == IF b = 0 THEN c[0] ELSE upTo[b - 1] + c[b] IN upTo

(* Rank of the sample that stands for a quantile, ceil(q * count) *)
Rank(q, n) == (q[1] * n + q[2] - 1) \div q[2]

(* The first bucket up to which there are that many values *)
Bucket(rank) == Min({b \in Buckets : Cumulative(counts)[b] >= rank})

(* Mutant: the middle of a bucket as it is *)
Clamp_Open(v) == v

(* Within what was recorded *)
Clamp(v) == Max({low, Min({high, v})})

(* quantile *)
Quantile(q) ==
    CASE total = 0 -> 0
      [] total > 0 /\ q[1] = 0 -> low
      [] total > 0 /\ q[1] >= q[2] -> high
      [] OTHER -> Clamp(IndexToApproxValue(Bucket(Rank(q, total))))

(* What is exported of the histogram *)
Quantiles == <<<<1, 2>>, <<95, 100>>, <<99, 100>>, <<999, 1000>>>>

Summary ==
    [count |-> total,
     min |-> IF total = 0 THEN 0 ELSE low,
     max |-> IF total = 0 THEN 0 ELSE high,
     p |-> [i \in DOMAIN Quantiles |-> Quantile(Quantiles[i])]]

-----------------------------------------------------------------------------

MetricsInit ==
    /\ counts = [b \in Buckets |-> 0]
    /\ total = 0
    /\ low = Infinity /\ high = 0
    /\ counter = 0
    /\ samples = <<>>

(* record_latency *)
Record(v) ==
    /\ total < MaxSamples
    /\ counts' = [counts EXCEPT ![ValueToIndex(v)] = @ + 1]
    /\ total' = total + 1
    /\ low' = Min({low, v})
    /\ high' = Max({high, v})
    /\ samples' = Append(samples, v)
    /\ UNCHANGED counter

(* increment *)
Increment ==
    /\ counter < MaxCount
    /\ counter' = counter + 1
    /\ UNCHANGED <<counts, total, low, high, samples>>

MetricsNext == (\E v \in Values : Record(v)) \/ Increment

MetricsSpec == MetricsInit /\ [][MetricsNext]_metricVars

-----------------------------------------------------------------------------

MetricsTypeOK ==
    /\ counts \in [Buckets -> 0..MaxSamples] /\ total \in 0..MaxSamples
    /\ low \in Values \cup {Infinity} /\ high \in Values \cup {0}
    /\ counter \in 0..MaxCount
    /\ samples \in Seq(Values) /\ Len(samples) = total

(* The samples up to a value *)
UpTo(v) == {k \in DOMAIN samples : samples[k] <= v}

(* The sample of that rank among all that were recorded *)
Sample(rank) == Min({v \in Values : Cardinality(UpTo(v)) >= rank})

Distance(a, b) == IF a > b THEN a - b ELSE b - a

(* The error bound of the documentation of LogLinearHistogram, for the       *)
(* quantile that is reported against the sample of that rank: relative       *)
(* 2^-B from 2^B on, half a microsecond below, whatever else was recorded,   *)
(* values above the last bucket included.  Those themselves are not held to  *)
(* it.                                                                       *)
QuantileError ==
    \A i \in DOMAIN Quantiles :
        total > 0 =>
            LET x == Sample(Rank(Quantiles[i], Len(samples)))
                e == Distance(Quantile(Quantiles[i]), x)
            IN  IF x < 2 * SubBucketCount THEN e <= 1
                ELSE x < 2 * Pow2[Max({MaxOctave, SubBucketBits}) + 1]
                         => e * SubBucketCount <= x

(* A summary that is exported is in order, even at the end of the last       *)
(* bucket, where the middle of a bucket may exceed everything recorded, and  *)
(* counts what the buckets hold, so that quantile finds every rank.          *)
SummaryIsOrdered ==
    /\ Summary.min <= Summary.p[1] /\ Summary.p[Len(Quantiles)] <= Summary.max
    /\ \A i, j \in DOMAIN Quantiles : i <= j => Summary.p[i] <= Summary.p[j]
    /\ Summary.count = Cumulative(counts)[TotalBuckets - 1]

=============================================================================
