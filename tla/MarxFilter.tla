----------------------------- MODULE MarxFilter -----------------------------
(***************************************************************************)
(* The MARX clock filter (filter.c) as sync_ntp_time drives it: each       *)
(* accepted exchange adds one sample to g_samples and then runs the        *)
(* outlier filter over the array, in place, with k = 3, one step per       *)
(* iteration of its loop.                                                  *)
(*                                                                         *)
(* A sample is abstracted to the delay the filter looks at. The array keeps *)
(* its MAX_SAMPLES cells at all times: the cells at and above              *)
(* g_sample_count hold stale data the filter loop does read. Delays are at *)
(* most 10 s here (sync_ntp_time rejects longer ones before the filter),   *)
(* so that the UINT64_MAX saturations of the threshold cannot be reached.  *)
(*                                                                         *)
(* Names of the specification carry the prefix Marx, so that one module    *)
(* can hold the proofs about this filter and about FreqDiscipline.         *)
(***************************************************************************)
EXTENDS Integers, Sequences, FiniteSets

CONSTANTS MAX_SAMPLES,  \* cells of g_samples (64 in the source)
          Delays,       \* round-trip delays that exchanges measure
          K,            \* multiple of the MAD that is tolerated (3 in the source)
          TimeMayFail   \* whether gettimeofday can fail

ASSUME MarxAssumption == /\ MAX_SAMPLES \in Nat \ {0}
                         /\ Delays \subseteq Nat
                         /\ K \in Nat
                         /\ TimeMayFail \in BOOLEAN

VARIABLES g_samples,       \* the whole array, stale cells included
          g_sample_count,  \* g_sample_count
          valid_count,     \* what marx_filter_outliers last returned
          running,         \* whether marx_filter_outliers is in its loop
          cell,            \* its loop counter i
          filtered,        \* its filtered
          threshold,       \* its threshold
          before           \* the live samples the last filter run started from (history)

locals    == <<running, cell, filtered, threshold>>
marx_vars == <<g_samples, g_sample_count, valid_count, locals, before>>

Cells == 0 .. (MAX_SAMPLES - 1)

\* The samples in use: cells 0 .. count-1.
Live(a, n) == [i \in 1..n |-> a[i - 1]]

-----------------------------------------------------------------------------
\* marx_add_sample_us: a full buffer drops the new sample.
AddedCount(n) == IF n >= MAX_SAMPLES THEN n ELSE n + 1

Added(a, n, delay) == IF n >= MAX_SAMPLES THEN a ELSE [a EXCEPT ![n] = delay]

\* Mutant of Removed: the shift goes one cell too far, into the stale ones.
RemovedPastEnd(a, n, index) ==
    IF index < n THEN [i \in Cells |-> IF i \in index .. (n - 1) /\ i + 1 \in Cells
                                        THEN a[i + 1] ELSE a[i]]
                 ELSE a

\* marx_remove_sample: shift the cells above index down by one; the last live
\* cell keeps its old content. An index outside the live cells does nothing.
Removed(a, n, index) ==
    IF index < n THEN [i \in Cells |-> IF i \in index .. (n - 2) THEN a[i + 1] ELSE a[i]]
                 ELSE a

RemovedCount(n, index) == IF index < n THEN n - 1 ELSE n

\* The index of the median in the sorted array, the lower one of the two when
\* the count is even.
Middle(n) == IF n % 2 = 0 THEN n \div 2 - 1 ELSE n \div 2

\* marx_median: the cell a bubble sort leaves at the middle.
Median(s) ==
    CHOOSE m \in {s[i] : i \in DOMAIN s} :
        /\ Cardinality({i \in DOMAIN s : s[i] < m}) <= Middle(Len(s))
        /\ Cardinality({i \in DOMAIN s : s[i] <= m}) > Middle(Len(s))

AbsDev(d, m) == IF d > m THEN d - m ELSE m - d

Deviations(s, m) == [i \in 1 .. Len(s) |-> AbsDev(s[i], m)]

\* Mutant of Threshold: the deviation alone, the median forgotten.
ThresholdWithoutMedian(s) == K * Median(Deviations(s, Median(s)))

\* Median plus K times the median absolute deviation.
Threshold(s) == Median(s) + K * Median(Deviations(s, Median(s)))

-----------------------------------------------------------------------------
\* marx_filter_outliers(g_samples, n, K) up to its loop: it leaves fewer than
\* three samples alone.
FilterBegin(a, n) ==
    /\ g_samples' = a
    /\ g_sample_count' = n
    /\ before' = Live(a, n)
    /\ cell' = 0
    /\ filtered' = 0
    /\ \/ n < 3 /\ valid_count' = n /\ running' = FALSE /\ threshold' = 0
       \/ n >= 3 /\ running' = TRUE /\ threshold' = Threshold(Live(a, n)) /\ UNCHANGED valid_count

\* An accepted exchange of sync_ntp_time: add the sample, then filter.
AddSample(delay) ==
    /\ ~running
    /\ FilterBegin(Added(g_samples, g_sample_count, delay), AddedCount(g_sample_count))

\* The same when gettimeofday fails: there is no new sample.
NoSample ==
    /\ TimeMayFail /\ ~running
    /\ FilterBegin(g_samples, g_sample_count)

\* Mutant of KeepCell: the cell is counted but not moved to the front.
KeepCellInPlace ==
    /\ running /\ cell < Len(before)
    /\ g_samples[cell] <= threshold
    /\ filtered' = filtered + 1
    /\ cell' = cell + 1
    /\ UNCHANGED <<g_samples, g_sample_count, valid_count, running, threshold, before>>

\* An iteration that keeps its cell: it is moved to the front.
KeepCell ==
    /\ running /\ cell < Len(before)
    /\ g_samples[cell] <= threshold
    /\ g_samples' = [g_samples EXCEPT ![filtered] = g_samples[cell]]
    /\ filtered' = filtered + 1
    /\ cell' = cell + 1
    /\ UNCHANGED <<g_sample_count, valid_count, running, threshold, before>>

\* An iteration that hands its index to marx_remove_sample, which shifts the
\* array under the loop and lowers the count the loop does not look at.
RemoveCell ==
    /\ running /\ cell < Len(before)
    /\ g_samples[cell] > threshold
    /\ g_samples' = Removed(g_samples, g_sample_count, cell)
    /\ g_sample_count' = RemovedCount(g_sample_count, cell)
    /\ cell' = cell + 1
    /\ UNCHANGED <<valid_count, running, filtered, threshold, before>>

\* The return, and with it the end of the locals.
FilterReturn ==
    /\ running /\ cell = Len(before)
    /\ valid_count' = IF filtered < Len(before) THEN filtered ELSE Len(before)
    /\ running' = FALSE
    /\ cell' = 0
    /\ filtered' = 0
    /\ threshold' = 0
    /\ UNCHANGED <<g_samples, g_sample_count, before>>

MarxInit ==
    /\ g_samples = [i \in Cells |-> 0]
    /\ g_sample_count = 0
    /\ valid_count = 0
    /\ running = FALSE
    /\ cell = 0
    /\ filtered = 0
    /\ threshold = 0
    /\ before = <<>>

MarxNext ==
    \/ \E delay \in Delays : AddSample(delay)
    \/ NoSample
    \/ KeepCell
    \/ RemoveCell
    \/ FilterReturn

MarxSpec == MarxInit /\ [][MarxNext]_marx_vars

-----------------------------------------------------------------------------
\* A sample the filter must keep: any of fewer than three, otherwise one whose
\* delay does not exceed median + K * MAD.
Passes(d) == Len(before) < 3 \/ d <= Threshold(before)

\* The filter never empties the buffer and never reports an empty one: the
\* "No valid samples" branch of sync_ntp_time, which drops the synchronised
\* state, is not taken while there is a sample (filter.c:131-148).
FilterLeavesSample == ~running /\ before # <<>> => valid_count >= 1 /\ g_sample_count >= 1

\* Whatever stale cells the loop reads and however marx_remove_sample shifts the
\* array under it, every sample in use, at every point of the loop, is one that
\* was in use when the filter began, and has only moved towards the front. (That
\* none is lost is not so: see the README on filter.c:143.)
NoStaleSample ==
    \A c \in 0 .. (g_sample_count - 1) : \E i \in (c + 1) .. Len(before) : g_samples[c] = before[i]

\* The returned count is never more than the samples in use, and that many cells
\* from the first hold inliers.
ValidSamplesPass ==
    /\ valid_count <= g_sample_count
    /\ \A c \in 0 .. (valid_count - 1) : Passes(g_samples[c])

\* When the last sample is no outlier, no sample in use is one.
LastPassesAllPass ==
    before # <<>> /\ Passes(before[Len(before)]) =>
        \A c \in 0 .. (g_sample_count - 1) : Passes(g_samples[c])

\* What marx_filter_outliers leaves, although stale cells are read and the cells
\* move while the loop counts: the count it returns is one of inliers, and an
\* outlier stays in use behind them only when the last sample was one. (With two
\* outliers at the end the removal of the first moves the last into the cell the
\* loop has just left, and it does stay, filter.c:143.)
SurvivorsPass == ~running => ValidSamplesPass /\ LastPassesAllPass

=============================================================================
