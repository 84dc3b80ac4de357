-------------------------- MODULE DisciplineProofs --------------------------
(***************************************************************************)
(* What becomes of a sample that sync_ntp_time has accepted: first the     *)
(* MARX filter, then the discipline of frequency and poll interval. Both   *)
(* run in main, one after the other, and share no state; each has its own  *)
(* specification, MarxSpec and Spec.                                       *)
(*                                                                         *)
(* The filter, for every size of the array, every K and all delays: it     *)
(* never empties the array, brings back no stale sample, and the count it  *)
(* returns is that of inliers in front.                                    *)
(*                                                                         *)
(* The discipline, for every clamp and every poll field that servers send: *)
(* the frequency stays within the clamp across restarts, crashes and       *)
(* foreign files, and the loop filter coupled to it.                       *)
(***************************************************************************)
EXTENDS FreqDiscipline, MarxFilter, SequenceTheorems, WellFoundedInduction,
        FiniteSetTheorems, TLAPS

-----------------------------------------------------------------------------
(* Frequency and poll interval                                              *)

USE FreqAssumption

-----------------------------------------------------------------------------
\* A weighted mean of two frequencies within the clamp is within the clamp.
LEMMA BetweenClamped == \A a, b \in Ppm : Between(a, b) \subseteq Ppm
  BY DEF Between, Ppm

\* adjust_poll_interval does not pass the maximum.
LEMMA AdjustPollBounded ==
    ASSUME poll \in Int, poll <= POLL_INTERVAL_MAX, NEW peer \in PeerPolls,
           NEW quality \in {"good", "fair", "bad"}
    PROVE  AdjustPoll(peer, quality) \in Int /\ AdjustPoll(peer, quality) <= POLL_INTERVAL_MAX
  <1>1. peer \in Int /\ POLL_INTERVAL_MIN \in Int /\ POLL_INTERVAL_MAX \in Int
    OBVIOUS
  <1>2. Lower(poll, peer) \in Int /\ Lower(poll, peer) <= POLL_INTERVAL_MAX
    BY <1>1 DEF Lower
  <1> QED
    BY <1>1, <1>2 DEF AdjustPoll

\* The state machine keeps the frequencies within the clamp.
LEMMA EstimateClamped ==
    ASSUME TypeOK, NEW e \in Ppm, Estimate(e)
    PROVE  /\ ppm' \in Ppm /\ filter' \in Ppm /\ est' \in Ppm
           /\ fstate' \in {"NSET", "FSET", "SYNC"}
  BY BetweenClamped DEF Estimate, TypeOK

-----------------------------------------------------------------------------
\* Every step keeps the types and the clamp.
LEMMA InvStep == TypeOK /\ [Next]_vars => TypeOK'
  <1> SUFFICES ASSUME TypeOK, [Next]_vars PROVE TypeOK'
    OBVIOUS
  <1> USE DEF TypeOK
  <1>1. CASE Start
    <2>1. 0 \in Ppm
      BY DEF Ppm
    <2>2. Loadable(file) => file \in Ppm
      BY DEF Loadable, Ppm
    <2>3. LongAgo \in (-LongAgo) .. LongAgo
      OBVIOUS
    <2> QED
      BY <1>1, <2>1, <2>2, <2>3 DEF Start
  <1>2. CASE Exit
    BY <1>2 DEF Exit, freq
  <1>3. CASE Save
    BY <1>3 DEF Save, freq, Ppm
  <1>4. CASE Crash
    BY <1>4 DEF Crash, freq
  <1>5. CASE Exchange
    <2>1. PICK peer \in PeerPolls, quality \in {"good", "fair", "bad"} : Correct(peer, quality)
      BY <1>5 DEF Exchange
    <2>2. poll' \in Int /\ poll' <= POLL_INTERVAL_MAX
      BY <2>1, AdjustPollBounded DEF Correct
    <2> QED
      BY <2>1, <2>2 DEF Correct, freq
  <1>6. CASE Update
    <2>1. ppm' \in Ppm /\ filter' \in Ppm /\ est' \in Ppm /\ fstate' \in {"NSET", "FSET", "SYNC"}
      <3>1. CASE UNCHANGED freq
        BY <3>1 DEF freq
      <3>2. CASE \E e \in Ppm : Estimate(e)
        BY <3>2, EstimateClamped
      <3> QED
        BY <1>6, <3>1, <3>2 DEF Update
    <2>2. age' \in (-LongAgo) .. LongAgo
      BY <1>6 DEF Update
    <2> QED
      BY <1>6, <2>1, <2>2 DEF Update, ApplyFrequency
  <1>7. CASE Tick
    BY <1>7 DEF Tick, freq, AtMost
  <1>8. CASE UNCHANGED vars
    BY <1>8 DEF vars, freq
  <1> QED
    BY <1>1, <1>2, <1>3, <1>4, <1>5, <1>6, <1>7, <1>8 DEF Next

\* The frequency is within the clamp in every state, after any restart, crash or
\* foreign file: load_frequency_persistent refuses what the clamp would cut.
THEOREM FrequencyClamped == Spec => []TypeOK
  <1>1. Init => TypeOK
    BY DEF Init, TypeOK, Ppm
  <1> QED
    BY <1>1, InvStep, PTL DEF Spec

\* FilterFollows is inductive as it stands: only Start, which clears the
\* filter, and Update touch the two frequencies, and Update leaves the filter
\* alone outside SYNC, where it is still 0.
LEMMA FilterStep == FilterFollows /\ [Next]_vars => FilterFollows'
  <1> SUFFICES ASSUME FilterFollows, [Next]_vars PROVE FilterFollows'
    OBVIOUS
  <1> USE DEF FilterFollows
  <1>1. CASE Start
    BY <1>1 DEF Start
  <1>2. CASE Exit \/ Save \/ Crash \/ Exchange \/ Tick \/ UNCHANGED vars
    BY <1>2 DEF Exit, Save, Crash, Exchange, Correct, Tick, vars, freq
  <1>3. CASE Update
    <2>1. CASE UNCHANGED freq
      BY <2>1 DEF freq
    <2>2. CASE \E e \in Ppm : Estimate(e)
      BY <2>2 DEF Estimate
    <2> QED
      BY <1>3, <2>1, <2>2 DEF Update
  <1> QED
    BY <1>1, <1>2, <1>3 DEF Next

\* The loop filter never drifts away from the frequency it filters: from the
\* first update in SYNC on the two are equal, whatever comes between updates.
THEOREM FilterStaysCoupled == Spec => []FilterFollows
  <1>1. Init => FilterFollows
    BY DEF Init, FilterFollows
  <1> QED
    BY <1>1, FilterStep, PTL DEF Spec

HIDE FreqAssumption

-----------------------------------------------------------------------------
(* The filter                                                               *)

USE MarxAssumption

-----------------------------------------------------------------------------
(* marx_median                                                              *)

\* A set of natural numbers that is not empty has a smallest element.
LEMMA LeastNatural ==
    ASSUME NEW S \in SUBSET Nat, S # {}
    PROVE  \E x \in S : \A y \in S : x <= y
  <1> DEFINE R == OpToRel(<, Nat)
  <1>1. IsWellFoundedOn(R, Nat)
    BY NatLessThanWellFounded
  <1>2. PICK x \in S : \A y \in S : <<y, x>> \notin R
    <2> HIDE DEF R
    <2> QED
      BY <1>1, WFMin
  <1>3. \A y \in S : ~(y < x)
    BY <1>2 DEF OpToRel
  <1> QED
    BY <1>3

\* The indices of a sequence are finitely many, and so are any of them.
LEMMA IndicesFinite ==
    ASSUME NEW s \in Seq(Nat), NEW D \in SUBSET DOMAIN s
    PROVE  /\ IsFiniteSet(D) /\ Cardinality(D) \in Nat /\ Cardinality(D) <= Len(s)
           /\ IsFiniteSet(DOMAIN s) /\ Cardinality(DOMAIN s) = Len(s)
  <1>1. DOMAIN s = 1 .. Len(s) /\ Len(s) \in Nat
    BY LenProperties
  <1>2. IsFiniteSet(1 .. Len(s)) /\ Cardinality(1 .. Len(s)) = Len(s)
    BY <1>1, FS_Interval
  <1>3. IsFiniteSet(D) /\ Cardinality(D) <= Len(s)
    BY <1>1, <1>2, FS_Subset
  <1> QED
    BY <1>1, <1>2, <1>3, FS_CardinalityType

\* Among any samples there is a largest: the one with the fewest above it.
LEMMA LargestSample ==
    ASSUME NEW s \in Seq(Nat), NEW D \in SUBSET DOMAIN s, D # {}
    PROVE  \E k \in D : \A j \in D : s[j] <= s[k]
  <1> DEFINE Above(k) == {j \in D : s[j] > s[k]}
             Counts   == {Cardinality(Above(k)) : k \in D}
  <1>1. \A k \in D : s[k] \in Nat
    BY LenProperties, ElementOfSeq
  <1>2. \A k \in D : IsFiniteSet(Above(k)) /\ Cardinality(Above(k)) \in Nat
    BY IndicesFinite
  <1>3. Counts \in SUBSET Nat /\ Counts # {}
    BY <1>2
  <1>4. PICK x \in Counts : \A y \in Counts : x <= y
    BY <1>3, LeastNatural
  <1>5. PICK k \in D : x = Cardinality(Above(k))
    BY <1>4
  <1>6. ASSUME NEW j \in D, s[j] > s[k]
        PROVE  FALSE
    <2>1. Above(j) \in SUBSET Above(k) /\ j \in Above(k) /\ j \notin Above(j)
      BY <1>1, <1>6
    <2>2. Cardinality(Above(j)) <= Cardinality(Above(k)) /\ Cardinality(Above(j)) # Cardinality(Above(k))
      BY <1>2, <2>1, FS_Subset
    <2>3. Cardinality(Above(k)) <= Cardinality(Above(j))
      BY <1>4, <1>5
    <2>4. Cardinality(Above(j)) \in Nat /\ Cardinality(Above(k)) \in Nat
      BY <1>2
    <2> HIDE DEF Above
    <2> QED
      BY <2>2, <2>3, <2>4
  <1> QED
    BY <1>1, <1>6

\* The position of the median is an index of the array, and so far in front
\* that no more than half of the samples come behind it.
LEMMA MiddleBounds ==
    ASSUME NEW n \in Nat, n > 0
    PROVE  Middle(n) \in 0 .. (n - 1) /\ 2 * (n - Middle(n) - 1) <= n
  BY DEF Middle

\* What the sort of marx_median leaves at the middle is a sample, with no more
\* than Middle samples below it and more than that up to it.
LEMMA MedianSplits ==
    ASSUME NEW s \in Seq(Nat), Len(s) > 0
    PROVE  /\ Median(s) \in Nat
           /\ Cardinality({i \in DOMAIN s : s[i] <= Median(s)}) > Middle(Len(s))
  <1> DEFINE V      == {s[i] : i \in DOMAIN s}
             UpTo(m)  == {i \in DOMAIN s : s[i] <= m}
             Below(m) == {i \in DOMAIN s : s[i] < m}
             G        == {m \in V : Cardinality(UpTo(m)) > Middle(Len(s))}
  <1>1. DOMAIN s = 1 .. Len(s) /\ Len(s) \in Nat /\ DOMAIN s # {} /\ \A i \in DOMAIN s : s[i] \in Nat
    BY LenProperties, ElementOfSeq
  <1>2. Middle(Len(s)) \in 0 .. (Len(s) - 1)
    BY <1>1, MiddleBounds
  <1>3. \A m : Cardinality(UpTo(m)) \in Nat /\ Cardinality(Below(m)) \in Nat
    BY IndicesFinite
  <1>4. G # {}
    <2>1. PICK k \in DOMAIN s : \A j \in DOMAIN s : s[j] <= s[k]
      BY <1>1, LargestSample
    <2>2. UpTo(s[k]) = DOMAIN s
      BY <2>1
    <2>3. Cardinality(UpTo(s[k])) = Len(s)
      BY <2>2, IndicesFinite
    <2>4. s[k] \in V
      OBVIOUS
    <2> HIDE DEF UpTo, V
    <2>5. Cardinality(UpTo(s[k])) > Middle(Len(s))
      BY <1>1, <1>2, <2>3
    <2> QED
      BY <2>4, <2>5
  <1>5. G \in SUBSET Nat
    BY <1>1
  <1>6. PICK m \in G : \A y \in G : m <= y
    BY <1>4, <1>5, LeastNatural
  <1>7. m \in Nat /\ m \in V /\ Cardinality(UpTo(m)) > Middle(Len(s))
    BY <1>5, <1>6
  <1>8. Cardinality(Below(m)) <= Middle(Len(s))
    <2>1. CASE Below(m) = {}
      <3>1. Cardinality(Below(m)) = 0
        BY <2>1, FS_EmptySet
      <3> QED
        BY <1>2, <3>1
    <2>2. CASE Below(m) # {}
      <3>1. PICK k \in Below(m) : \A j \in Below(m) : s[j] <= s[k]
        BY <2>2, LargestSample
      <3>2. s[k] \in V /\ s[k] \in Nat /\ s[k] < m
        BY <1>1, <3>1
      <3>3. Below(m) = UpTo(s[k])
        <4>1. ASSUME NEW i \in DOMAIN s, s[i] <= s[k] PROVE s[i] < m
          BY <1>1, <1>7, <3>2, <4>1
        <4> QED
          BY <3>1, <4>1
      <3>4. s[k] \notin G
        <4> HIDE DEF G
        <4> QED
          BY <1>6, <1>7, <3>2
      <3>5. ~(Cardinality(UpTo(s[k])) > Middle(Len(s)))
        <4> HIDE DEF UpTo, V
        <4> QED
          BY <3>2, <3>4
      <3> HIDE DEF UpTo, Below
      <3>6. Cardinality(UpTo(s[k])) \in Nat /\ Middle(Len(s)) \in Int
        BY <1>1, <1>2, <1>3
      <3> QED
        BY <3>3, <3>5, <3>6
    <2> QED
      BY <2>1, <2>2
  <1> HIDE DEF G
  <1>9. \E x \in V : Cardinality(Below(x)) <= Middle(Len(s)) /\ Cardinality(UpTo(x)) > Middle(Len(s))
    BY <1>7, <1>8
  <1>10. Median(s) \in V /\ Cardinality(UpTo(Median(s))) > Middle(Len(s))
    BY <1>9 DEF Median
  <1> QED
    BY <1>1, <1>10

\* At most half of the samples exceed the threshold: it is no less than the
\* median, whatever the deviations are.
LEMMA FewOutliers ==
    ASSUME NEW s \in Seq(Nat), Len(s) > 0
    PROVE  /\ Threshold(s) \in Nat
           /\ 2 * Cardinality({j \in DOMAIN s : s[j] > Threshold(s)}) <= Len(s)
  <1> DEFINE m    == Median(s)
             dev  == Deviations(s, m)
             Up   == {i \in DOMAIN s : s[i] <= m}
             Out  == {j \in DOMAIN s : s[j] > Threshold(s)}
  <1>1. DOMAIN s = 1 .. Len(s) /\ Len(s) \in Nat /\ \A i \in DOMAIN s : s[i] \in Nat
    BY LenProperties, ElementOfSeq
  <1>2. m \in Nat /\ Cardinality(Up) > Middle(Len(s))
    BY MedianSplits
  <1>3. dev \in Seq(Nat) /\ Len(dev) = Len(s)
    <2> HIDE DEF m
    <2>1. \A i \in 1 .. Len(s) : AbsDev(s[i], m) \in Nat
      BY <1>1, <1>2 DEF AbsDev
    <2>2. dev \in [1 .. Len(s) -> Nat]
      BY <2>1 DEF Deviations
    <2> QED
      BY <1>1, <2>2, IsASeq
  <1>4. Median(dev) \in Nat
    <2> HIDE DEF dev
    <2> QED
      BY <1>3, MedianSplits
  <1>5. Threshold(s) \in Nat /\ Threshold(s) >= m
    <2>1. Threshold(s) = m + K * Median(dev)
      BY DEF Threshold
    <2>2. K * Median(dev) \in Nat
      BY <1>4
    <2> HIDE DEF m, dev
    <2> QED
      BY <1>2, <2>1, <2>2
  <1>6. Out \in SUBSET (DOMAIN s \ Up)
    <2> HIDE DEF m
    <2> QED
      BY <1>1, <1>2, <1>5
  <1>7. Cardinality(DOMAIN s \ Up) = Len(s) - Cardinality(Up) /\ IsFiniteSet(DOMAIN s \ Up)
    <2>1. DOMAIN s \cap Up = Up
      OBVIOUS
    <2>2. IsFiniteSet(DOMAIN s) /\ Cardinality(DOMAIN s) = Len(s)
      BY IndicesFinite
    <2> HIDE DEF Up
    <2> QED
      BY <2>1, <2>2, FS_Difference
  <1>8. Cardinality(Out) <= Len(s) - Cardinality(Up)
    BY <1>6, <1>7, FS_Subset
  <1>9. Cardinality(Up) \in Nat /\ Cardinality(Out) \in Nat
    BY IndicesFinite
  <1>10. Middle(Len(s)) \in 0 .. (Len(s) - 1) /\ 2 * (Len(s) - Middle(Len(s)) - 1) <= Len(s)
    BY <1>1, MiddleBounds
  <1> HIDE DEF m, dev, Up, Out
  <1>11. 2 * Cardinality(Out) <= Len(s)
    BY <1>1, <1>2, <1>8, <1>9, <1>10
  <1> QED
    BY <1>5, <1>11 DEF Out

-----------------------------------------------------------------------------
(* Counting outliers                                                        *)

\* The samples above t among the first k.
OutliersUpTo(s, t, k) == {j \in DOMAIN s : j <= k /\ s[j] > t}

\* Looking further finds no fewer outliers.
LEMMA MoreOutliers ==
    ASSUME NEW s \in Seq(Nat), NEW t \in Nat, NEW k \in Int, NEW l \in Int, k <= l
    PROVE  /\ Cardinality(OutliersUpTo(s, t, k)) \in Nat
           /\ Cardinality(OutliersUpTo(s, t, k)) <= Cardinality(OutliersUpTo(s, t, l))
  <1>1. DOMAIN s \subseteq Int
    BY LenProperties
  <1>2. OutliersUpTo(s, t, k) \in SUBSET OutliersUpTo(s, t, l)
    BY <1>1 DEF OutliersUpTo
  <1>3. /\ OutliersUpTo(s, t, l) \in SUBSET DOMAIN s
        /\ OutliersUpTo(s, t, k) \in SUBSET DOMAIN s
    BY DEF OutliersUpTo
  <1>4. IsFiniteSet(OutliersUpTo(s, t, l)) /\ Cardinality(OutliersUpTo(s, t, k)) \in Nat
    BY <1>3, IndicesFinite
  <1> QED
    BY <1>2, <1>4, FS_Subset

\* An outlier behind the first k is one more.
LEMMA OneMoreOutlier ==
    ASSUME NEW s \in Seq(Nat), NEW t \in Nat, NEW k \in Int, NEW l \in Int,
           NEW j \in DOMAIN s, k < j, j <= l, s[j] > t
    PROVE  /\ Cardinality(OutliersUpTo(s, t, k)) \in Nat /\ Cardinality(OutliersUpTo(s, t, l)) \in Nat
           /\ Cardinality(OutliersUpTo(s, t, l)) >= Cardinality(OutliersUpTo(s, t, k)) + 1
  <1>1. DOMAIN s \subseteq Int
    BY LenProperties
  <1>2. /\ OutliersUpTo(s, t, k) \cup {j} \in SUBSET OutliersUpTo(s, t, l)
        /\ j \notin OutliersUpTo(s, t, k)
    BY <1>1 DEF OutliersUpTo
  <1>3. /\ OutliersUpTo(s, t, l) \in SUBSET DOMAIN s
        /\ OutliersUpTo(s, t, k) \in SUBSET DOMAIN s
    BY DEF OutliersUpTo
  <1>4. /\ IsFiniteSet(OutliersUpTo(s, t, l)) /\ Cardinality(OutliersUpTo(s, t, l)) \in Nat
        /\ IsFiniteSet(OutliersUpTo(s, t, k)) /\ Cardinality(OutliersUpTo(s, t, k)) \in Nat
    BY <1>3, IndicesFinite
  <1>5. Cardinality(OutliersUpTo(s, t, k) \cup {j}) = Cardinality(OutliersUpTo(s, t, k)) + 1
    BY <1>2, <1>4, FS_AddElement
  <1>6. Cardinality(OutliersUpTo(s, t, k) \cup {j}) <= Cardinality(OutliersUpTo(s, t, l))
    BY <1>2, <1>4, FS_Subset
  <1> QED
    BY <1>4, <1>5, <1>6

-----------------------------------------------------------------------------
(* The invariant of the loop                                                *)

\* How many samples marx_remove_sample has taken away.
Gone == Len(before) - g_sample_count

MarxType ==
    /\ g_samples \in [Cells -> Nat]
    /\ before \in Seq(Nat)
    /\ Len(before) <= MAX_SAMPLES
    /\ g_sample_count \in 0 .. Len(before)
    /\ running \in BOOLEAN
    /\ valid_count \in Nat /\ cell \in Nat /\ filtered \in Nat /\ threshold \in Nat

\* What the array holds in the loop: inliers in front, from the loop counter on
\* the samples that Gone removals have moved, and behind the last one in use
\* copies of it. An iteration that has neither kept nor removed anything has
\* read such a copy.
CellsInv ==
    running =>
        /\ Len(before) >= 3 /\ threshold = Threshold(before)
        /\ cell <= Len(before) /\ filtered + Gone <= cell
        /\ \A c \in 0 .. (filtered - 1) : g_samples[c] <= threshold
        /\ \A c \in cell .. (Len(before) - 1) :
              g_samples[c] = IF c < g_sample_count THEN before[c + Gone + 1]
                                                   ELSE before[Len(before)]
        /\ filtered + Gone = cell \/ before[Len(before)] > threshold

\* Every removal has met another outlier. As long as nothing has been kept every
\* iteration has removed, and the loop has looked at every second sample.
CountInv ==
    running =>
        /\ Cardinality(OutliersUpTo(before, threshold, cell + Gone)) >= Gone
        /\ filtered = 0 =>
              /\ cell = Gone
              /\ cell > 0 => Cardinality(OutliersUpTo(before, threshold, 2 * cell - 1)) >= cell

\* What is known of the array when the filter has returned.
RestInv == FilterLeavesSample /\ SurvivorsPass

\* Every cell the loop can read holds a sample that was in use at this place or
\* behind it when the filter began.
FrontInv ==
    \A c \in 0 .. (Len(before) - 1) : \E i \in (c + 1) .. Len(before) : g_samples[c] = before[i]

MarxInv == MarxType /\ CellsInv /\ CountInv /\ FrontInv /\ RestInv

\* The filter begins: nothing has been kept or removed.
LEMMA BeginStep ==
    ASSUME MarxType, NEW a \in [Cells -> Nat], NEW n \in 0 .. MAX_SAMPLES, FilterBegin(a, n)
    PROVE  MarxInv'
  <1>1. /\ before' \in Seq(Nat) /\ Len(before') = n /\ DOMAIN before' = 1 .. n
        /\ \A j \in 1 .. n : before'[j] = a[j - 1]
    <2>1. \A j \in 1 .. n : a[j - 1] \in Nat
      BY DEF Cells
    <2>2. before' = [j \in 1 .. n |-> a[j - 1]]
      BY DEF FilterBegin, Live
    <2> QED
      BY <2>1, <2>2
  <1>2. g_samples' = a /\ g_sample_count' = n /\ cell' = 0 /\ filtered' = 0 /\ Gone' = 0
    BY <1>1 DEF FilterBegin, Gone
  <1>3. FrontInv'
    <2> SUFFICES ASSUME NEW c \in 0 .. (n - 1)
                 PROVE  \E k \in (c + 1) .. n : a[c] = before'[k]
      BY <1>1, <1>2 DEF FrontInv
    <2>1. c + 1 \in (c + 1) .. n /\ c + 1 \in 1 .. n /\ (c + 1) - 1 = c
      OBVIOUS
    <2> QED
      BY <1>1, <2>1
  <1>4. CASE n < 3
    <2>1. running' = FALSE /\ valid_count' = n /\ threshold' = 0
      BY <1>4 DEF FilterBegin
    <2>2. \A d : Passes(d)'
      BY <1>1, <1>4 DEF Passes
    <2>3. before' # <<>> => n >= 1
      BY <1>1
    <2>4. RestInv'
      BY <1>2, <2>1, <2>2, <2>3 DEF RestInv, FilterLeavesSample, SurvivorsPass, ValidSamplesPass, LastPassesAllPass
    <2>5. MarxType'
      <3>1. n \in 0 .. n /\ n <= MAX_SAMPLES /\ n \in Nat /\ 0 \in Nat
        OBVIOUS
      <3> QED
        BY <1>1, <1>2, <2>1, <3>1, Zenon DEF MarxType
    <2> QED
      BY <1>3, <2>1, <2>4, <2>5 DEF MarxInv, CellsInv, CountInv
  <1>5. CASE n >= 3
    <2>1. running' = TRUE /\ valid_count' = valid_count /\ threshold' = Threshold(before')
      BY <1>5 DEF FilterBegin
    <2>2. threshold' \in Nat
      <3>1. Len(before') > 0
        BY <1>1, <1>5
      <3>2. Threshold(before') \in Nat
        BY <1>1, <3>1, FewOutliers
      <3> QED
        BY <2>1, <3>2
    <2>3. MarxType'
      BY <1>1, <1>2, <2>1, <2>2 DEF MarxType
    <2>4. CellsInv'
      <3>1. \A c \in 0 .. (n - 1) : a[c] = before'[c + 0 + 1]
        BY <1>1
      <3> QED
        BY <1>1, <1>2, <1>5, <2>1, <3>1 DEF CellsInv
    <2>5. CountInv'
      <3>1. Cardinality(OutliersUpTo(before', threshold', 0 + 0)) \in Nat
        BY <1>1, <2>2, MoreOutliers
      <3> QED
        BY <1>2, <3>1 DEF CountInv
    <2>6. RestInv'
      BY <2>1 DEF RestInv, FilterLeavesSample, SurvivorsPass, ValidSamplesPass, LastPassesAllPass
    <2> QED
      BY <1>3, <2>3, <2>4, <2>5, <2>6 DEF MarxInv
  <1> QED
    BY <1>4, <1>5

\* At most half of the samples the loop works on are above its threshold.
LEMMA HalfOutliers ==
    ASSUME MarxType, CellsInv, running, NEW k \in Int
    PROVE  /\ Cardinality(OutliersUpTo(before, threshold, k)) \in Nat
           /\ 2 * Cardinality(OutliersUpTo(before, threshold, k)) <= Len(before)
  <1> DEFINE Out == {j \in DOMAIN before : before[j] > threshold}
  <1>1. before \in Seq(Nat) /\ Len(before) > 0 /\ Len(before) \in Nat /\ threshold = Threshold(before)
    BY LenProperties DEF MarxType, CellsInv
  <1>2. 2 * Cardinality(Out) <= Len(before)
    BY <1>1, FewOutliers
  <1>3. OutliersUpTo(before, threshold, k) \in SUBSET Out /\ Out \in SUBSET DOMAIN before
    BY DEF OutliersUpTo
  <1>4. /\ IsFiniteSet(Out) /\ Cardinality(Out) \in Nat
        /\ Cardinality(OutliersUpTo(before, threshold, k)) \in Nat
    BY <1>1, <1>3, IndicesFinite
  <1>5. Cardinality(OutliersUpTo(before, threshold, k)) <= Cardinality(Out)
    BY <1>3, <1>4, FS_Subset
  <1> HIDE DEF Out
  <1> QED
    BY <1>1, <1>2, <1>4, <1>5

\* The types the loop's steps start from.
LEMMA LoopFacts ==
    ASSUME MarxInv, running
    PROVE  /\ before \in Seq(Nat) /\ Len(before) \in Nat /\ Len(before) >= 3
           /\ DOMAIN before = 1 .. Len(before) /\ Len(before) <= MAX_SAMPLES
           /\ g_samples \in [Cells -> Nat] /\ g_sample_count \in 0 .. Len(before)
           /\ cell \in Nat /\ filtered \in Nat /\ threshold \in Nat /\ Gone \in Nat
           /\ Gone = Len(before) - g_sample_count
           /\ threshold = Threshold(before)
  BY LenProperties DEF MarxInv, MarxType, CellsInv, Gone

\* While the loop works the properties of its result say nothing.
LEMMA LoopRest == ASSUME running' PROVE RestInv'
  BY DEF RestInv, FilterLeavesSample, SurvivorsPass, ValidSamplesPass, LastPassesAllPass

\* A cell that is kept joins the inliers in front.
LEMMA KeepStep ==
    ASSUME MarxInv, KeepCell
    PROVE  MarxInv'
  <1>1. /\ running /\ running' /\ cell < Len(before) /\ g_samples[cell] <= threshold
        /\ g_samples' = [g_samples EXCEPT ![filtered] = g_samples[cell]]
        /\ filtered' = filtered + 1 /\ cell' = cell + 1 /\ running' = running
        /\ UNCHANGED <<g_sample_count, valid_count, threshold, before>>
    BY DEF KeepCell
  <1>2. /\ before \in Seq(Nat) /\ Len(before) \in Nat /\ Len(before) >= 3
        /\ DOMAIN before = 1 .. Len(before) /\ Len(before) <= MAX_SAMPLES
        /\ g_samples \in [Cells -> Nat] /\ g_sample_count \in 0 .. Len(before)
        /\ cell \in Nat /\ filtered \in Nat /\ threshold \in Nat /\ Gone \in Nat
    BY <1>1, LoopFacts
  <1>3. Gone' = Gone
    BY <1>1 DEF Gone
  <1>4. filtered + Gone <= cell /\ filtered <= cell /\ filtered \in Cells /\ cell \in Cells
    BY <1>1, <1>2 DEF MarxInv, CellsInv, Cells
  <1>5. g_samples' \in [Cells -> Nat]
    BY <1>1, <1>2, <1>4
  <1>6. MarxType'
    <2>1. valid_count \in Nat /\ running \in BOOLEAN /\ cell + 1 \in Nat /\ filtered + 1 \in Nat
      BY <1>2 DEF MarxInv, MarxType
    <2> QED
      BY <1>1, <1>2, <1>5, <2>1, Zenon DEF MarxType
  <1>7. CellsInv'
    <2>1. \A c \in 0 .. filtered : g_samples'[c] <= threshold
      <3> SUFFICES ASSUME NEW c \in 0 .. filtered PROVE g_samples'[c] <= threshold
        OBVIOUS
      <3>1. c \in Cells
        BY <1>1, <1>2, <1>4 DEF Cells
      <3>2. CASE c = filtered
        BY <1>1, <1>2, <1>4, <3>2
      <3>3. CASE c # filtered
        <4>1. c \in 0 .. (filtered - 1)
          BY <1>2, <3>3
        <4> QED
          BY <1>1, <1>2, <3>1, <3>3, <4>1 DEF MarxInv, CellsInv
      <3> QED
        BY <3>2, <3>3
    <2>2. \A c \in (cell + 1) .. (Len(before) - 1) : g_samples'[c] = g_samples[c]
      <3> SUFFICES ASSUME NEW c \in (cell + 1) .. (Len(before) - 1) PROVE g_samples'[c] = g_samples[c]
        OBVIOUS
      <3>1. c \in Cells /\ c # filtered
        BY <1>2, <1>4 DEF Cells
      <3> QED
        BY <1>1, <1>2, <3>1
    <2>3. \A c \in (cell + 1) .. (Len(before) - 1) :
              g_samples'[c] = IF c < g_sample_count THEN before[c + Gone + 1]
                                                    ELSE before[Len(before)]
      <3>1. \A c \in (cell + 1) .. (Len(before) - 1) : c \in cell .. (Len(before) - 1)
        BY <1>2
      <3> QED
        BY <1>1, <2>2, <3>1 DEF MarxInv, CellsInv
    <2>4. /\ cell + 1 <= Len(before) /\ filtered + 1 + Gone <= cell + 1
          /\ filtered + 1 + Gone = cell + 1 \/ before[Len(before)] > threshold
          /\ (filtered + 1) - 1 = filtered
      BY <1>1, <1>2, <1>4 DEF MarxInv, CellsInv
    <2>5. threshold = Threshold(before)
      BY <1>1, LoopFacts
    <2> QED
      BY <1>1, <1>2, <1>3, <2>1, <2>3, <2>4, <2>5 DEF CellsInv
  <1>8. CountInv'
    <2>1. Cardinality(OutliersUpTo(before, threshold, cell + Gone)) >= Gone
      BY <1>1 DEF MarxInv, CountInv
    <2>2. /\ Cardinality(OutliersUpTo(before, threshold, cell + Gone)) \in Nat
          /\ Cardinality(OutliersUpTo(before, threshold, cell + 1 + Gone)) \in Nat
          /\ Cardinality(OutliersUpTo(before, threshold, cell + Gone))
               <= Cardinality(OutliersUpTo(before, threshold, cell + 1 + Gone))
      BY <1>2, MoreOutliers
    <2>3. filtered' # 0
      BY <1>1, <1>2
    <2>4. Cardinality(OutliersUpTo(before, threshold, cell + 1 + Gone)) >= Gone
      BY <1>2, <2>1, <2>2
    <2> QED
      BY <1>1, <1>3, <2>3, <2>4 DEF CountInv
  <1>9. FrontInv'
    <2> SUFFICES ASSUME NEW c \in 0 .. (Len(before) - 1)
                 PROVE  \E k \in (c + 1) .. Len(before) : g_samples'[c] = before[k]
      BY <1>1 DEF FrontInv
    <2>1. c \in Cells
      BY <1>2 DEF Cells
    <2>2. CASE c = filtered
      <3>1. cell \in 0 .. (Len(before) - 1)
        BY <1>1, <1>2
      <3>2. PICK k \in (cell + 1) .. Len(before) : g_samples[cell] = before[k]
        BY <3>1 DEF MarxInv, FrontInv
      <3>3. k \in (c + 1) .. Len(before)
        BY <1>2, <1>4, <2>2, <3>2
      <3> QED
        BY <1>1, <1>2, <2>1, <2>2, <3>2, <3>3
    <2>3. CASE c # filtered
      BY <1>1, <1>2, <2>1, <2>3 DEF MarxInv, FrontInv
    <2> QED
      BY <2>2, <2>3
  <1> QED
    BY <1>1, <1>6, <1>7, <1>8, <1>9, LoopRest DEF MarxInv

\* What marx_remove_sample does to the cells the loop has still to read: each
\* but the last gets its neighbour's sample.
LEMMA RemoveMoves ==
    ASSUME MarxInv, RemoveCell, cell < g_sample_count
    PROVE  /\ g_samples' \in [Cells -> Nat]
           /\ \A c \in 0 .. (cell - 1) : g_samples'[c] = g_samples[c]
           /\ \A c \in (cell + 1) .. (Len(before) - 1) :
                 g_samples'[c] = IF c < g_sample_count - 1 THEN before[c + Gone + 2]
                                                           ELSE before[Len(before)]
  <1>1. /\ running
        /\ g_samples' = [c \in Cells |-> IF c \in cell .. (g_sample_count - 2)
                                           THEN g_samples[c + 1] ELSE g_samples[c]]
    BY DEF RemoveCell, Removed
  <1>2. /\ before \in Seq(Nat) /\ Len(before) \in Nat /\ Len(before) <= MAX_SAMPLES
        /\ g_samples \in [Cells -> Nat] /\ g_sample_count \in 0 .. Len(before)
        /\ cell \in Nat /\ Gone \in Nat /\ Gone = Len(before) - g_sample_count
    BY <1>1, LoopFacts
  <1>3. \A c \in cell .. (Len(before) - 1) :
            g_samples[c] = IF c < g_sample_count THEN before[c + Gone + 1] ELSE before[Len(before)]
    BY <1>1 DEF MarxInv, CellsInv
  <1>4. g_samples' \in [Cells -> Nat]
    <2>1. \A c \in Cells : c \in cell .. (g_sample_count - 2) => c + 1 \in Cells
      BY <1>2 DEF Cells
    <2> QED
      BY <1>1, <1>2, <2>1
  <1>5. ASSUME NEW c \in 0 .. (cell - 1)
        PROVE  g_samples'[c] = g_samples[c]
    <2>1. c \in Cells /\ c \notin cell .. (g_sample_count - 2)
      BY <1>2 DEF Cells
    <2> QED
      BY <1>1, <2>1
  <1>6. ASSUME NEW c \in (cell + 1) .. (Len(before) - 1)
        PROVE  g_samples'[c] = IF c < g_sample_count - 1 THEN before[c + Gone + 2]
                                                         ELSE before[Len(before)]
    <2>1. c \in Cells /\ c \in cell .. (Len(before) - 1) /\ c \in Int
      BY <1>2 DEF Cells
    <2>2. CASE c < g_sample_count - 1
      <3>1. c \in cell .. (g_sample_count - 2) /\ c + 1 \in cell .. (Len(before) - 1)
        BY <1>2, <2>1, <2>2
      <3>2. g_samples'[c] = g_samples[c + 1]
        BY <1>1, <2>1, <3>1
      <3>3. c + 1 < g_sample_count /\ (c + 1) + Gone + 1 = c + Gone + 2
        BY <1>2, <2>1, <2>2
      <3>4. g_samples[c + 1] = before[(c + 1) + Gone + 1]
        BY <1>3, <3>1, <3>3
      <3> QED
        BY <2>2, <3>2, <3>3, <3>4
    <2>3. CASE ~(c < g_sample_count - 1)
      <3>1. c \notin cell .. (g_sample_count - 2)
        BY <1>2, <2>1, <2>3
      <3>2. g_samples'[c] = g_samples[c]
        BY <1>1, <2>1, <3>1
      <3>3. c < g_sample_count => c + Gone + 1 = Len(before)
        BY <1>2, <2>1, <2>3
      <3>4. g_samples[c] = before[Len(before)]
        BY <1>3, <2>1, <3>3
      <3> QED
        BY <2>3, <3>2, <3>4
    <2> QED
      BY <2>2, <2>3
  <1> QED
    BY <1>4, <1>5, <1>6

\* An outlier among the samples in use is removed: the loop has met another
\* sample above the threshold, and passes over the one that takes its place.
LEMMA RemoveLive ==
    ASSUME MarxInv, RemoveCell, cell < g_sample_count
    PROVE  MarxInv'
  <1>1. /\ running /\ running' = running /\ cell < Len(before) /\ g_samples[cell] > threshold
        /\ g_sample_count' = g_sample_count - 1 /\ cell' = cell + 1
        /\ UNCHANGED <<valid_count, filtered, threshold, before>>
    BY DEF RemoveCell, RemovedCount
  <1>2. /\ before \in Seq(Nat) /\ Len(before) \in Nat /\ Len(before) >= 3
        /\ DOMAIN before = 1 .. Len(before) /\ Len(before) <= MAX_SAMPLES
        /\ g_samples \in [Cells -> Nat] /\ g_sample_count \in 0 .. Len(before)
        /\ cell \in Nat /\ filtered \in Nat /\ threshold \in Nat /\ Gone \in Nat
        /\ Gone = Len(before) - g_sample_count
        /\ threshold = Threshold(before)
    BY <1>1, LoopFacts
  <1>3. Gone' = Gone + 1 /\ g_sample_count' \in 0 .. Len(before)
    BY <1>1, <1>2 DEF Gone
  <1>4. MarxType'
    <2>1. valid_count \in Nat /\ running \in BOOLEAN /\ cell + 1 \in Nat
      BY <1>2 DEF MarxInv, MarxType
    <2>2. g_samples' \in [Cells -> Nat]
      BY RemoveMoves
    <2> QED
      BY <1>1, <1>2, <1>3, <2>1, <2>2, Zenon DEF MarxType
  <1>5. CellsInv'
    <2>1. filtered + Gone <= cell /\ (filtered + Gone = cell \/ before[Len(before)] > threshold)
      BY <1>1 DEF MarxInv, CellsInv
    <2>2. /\ cell + 1 <= Len(before) /\ filtered + (Gone + 1) <= cell + 1
          /\ filtered + (Gone + 1) = cell + 1 \/ before[Len(before)] > threshold
      <3>1. cell + 1 <= Len(before) /\ filtered + (Gone + 1) <= cell + 1
        BY <1>1, <1>2, <2>1
      <3>2. filtered + Gone = cell => filtered + (Gone + 1) = cell + 1
        BY <1>2
      <3> QED
        BY <2>1, <3>1, <3>2
    <2>3. \A c \in 0 .. (filtered - 1) : g_samples'[c] <= threshold
      <3>1. \A c \in 0 .. (filtered - 1) : c \in 0 .. (cell - 1)
        BY <1>2, <2>1
      <3> QED
        BY <1>1, <3>1, RemoveMoves DEF MarxInv, CellsInv
    <2>4. \A c \in (cell + 1) .. (Len(before) - 1) :
              g_samples'[c] = IF c < g_sample_count - 1 THEN before[c + (Gone + 1) + 1]
                                                        ELSE before[Len(before)]
      <3>1. \A c \in Int : c + (Gone + 1) + 1 = c + Gone + 2
        BY <1>2
      <3> QED
        BY <1>2, <3>1, RemoveMoves
    <2> QED
      BY <1>1, <1>2, <1>3, <2>2, <2>3, <2>4 DEF CellsInv
  <1>6. cell + Gone + 1 \in DOMAIN before /\ before[cell + Gone + 1] > threshold
    <2>1. cell \in cell .. (Len(before) - 1) /\ cell + Gone + 1 \in 1 .. Len(before)
      BY <1>1, <1>2
    <2> QED
      BY <1>1, <1>2, <2>1 DEF MarxInv, CellsInv
  <1>7. Cardinality(OutliersUpTo(before, threshold, (cell + 1) + (Gone + 1))) >= Gone + 1
    <2>1. Cardinality(OutliersUpTo(before, threshold, cell + Gone)) >= Gone
      BY <1>1 DEF MarxInv, CountInv
    <2>2. /\ Cardinality(OutliersUpTo(before, threshold, cell + Gone)) \in Nat
          /\ Cardinality(OutliersUpTo(before, threshold, (cell + 1) + (Gone + 1))) \in Nat
          /\ Cardinality(OutliersUpTo(before, threshold, (cell + 1) + (Gone + 1)))
                >= Cardinality(OutliersUpTo(before, threshold, cell + Gone)) + 1
      <3>1. /\ cell + Gone \in Int /\ (cell + 1) + (Gone + 1) \in Int
            /\ cell + Gone < cell + Gone + 1 /\ cell + Gone + 1 <= (cell + 1) + (Gone + 1)
        BY <1>2
      <3> QED
        BY <1>2, <1>6, <3>1, OneMoreOutlier
    <2> QED
      BY <1>2, <2>1, <2>2
  <1>8. CountInv'
    <2>1. ASSUME filtered = 0
          PROVE  /\ cell + 1 = Gone + 1
                 /\ Cardinality(OutliersUpTo(before, threshold, 2 * (cell + 1) - 1)) >= cell + 1
      <3>1. /\ cell = Gone
            /\ cell > 0 => Cardinality(OutliersUpTo(before, threshold, 2 * cell - 1)) >= cell
        BY <1>1, <2>1 DEF MarxInv, CountInv
      <3>2. /\ 2 * cell - 1 \in Int /\ 2 * (cell + 1) - 1 \in Int
            /\ 2 * cell - 1 < cell + Gone + 1 /\ cell + Gone + 1 <= 2 * (cell + 1) - 1
        BY <1>2, <3>1
      <3>3. /\ Cardinality(OutliersUpTo(before, threshold, 2 * cell - 1)) \in Nat
            /\ Cardinality(OutliersUpTo(before, threshold, 2 * (cell + 1) - 1)) \in Nat
            /\ Cardinality(OutliersUpTo(before, threshold, 2 * (cell + 1) - 1))
                  >= Cardinality(OutliersUpTo(before, threshold, 2 * cell - 1)) + 1
        BY <1>2, <1>6, <3>2, OneMoreOutlier
      <3>4. cell + 1 = Gone + 1
        BY <3>1
      <3>5. Cardinality(OutliersUpTo(before, threshold, 2 * cell - 1)) >= cell
        BY <1>2, <3>1, <3>3
      <3>6. Cardinality(OutliersUpTo(before, threshold, 2 * (cell + 1) - 1)) >= cell + 1
        BY <1>2, <3>3, <3>5
      <3> QED
        BY <3>4, <3>6
    <2> QED
      BY <1>1, <1>3, <1>7, <2>1 DEF CountInv
  <1>9. FrontInv'
    <2> SUFFICES ASSUME NEW c \in 0 .. (Len(before) - 1)
                 PROVE  \E k \in (c + 1) .. Len(before) : g_samples'[c] = before[k]
      BY <1>1 DEF FrontInv
    <2>1. g_samples' = [x \in Cells |-> IF x \in cell .. (g_sample_count - 2)
                                         THEN g_samples[x + 1] ELSE g_samples[x]]
      BY DEF RemoveCell, Removed
    <2>2. c \in Cells
      BY <1>2 DEF Cells
    <2>3. CASE c \in cell .. (g_sample_count - 2)
      <3>1. c + 1 \in 0 .. (Len(before) - 1)
        BY <1>2, <2>3
      <3>2. PICK k \in ((c + 1) + 1) .. Len(before) : g_samples[c + 1] = before[k]
        BY <3>1 DEF MarxInv, FrontInv
      <3>3. k \in (c + 1) .. Len(before)
        BY <3>2
      <3> QED
        BY <2>1, <2>2, <2>3, <3>2, <3>3
    <2>4. CASE c \notin cell .. (g_sample_count - 2)
      BY <2>1, <2>2, <2>4 DEF MarxInv, FrontInv
    <2> QED
      BY <2>3, <2>4
  <1> QED
    BY <1>1, <1>4, <1>5, <1>8, <1>9, LoopRest DEF MarxInv

\* An iteration that reads a stale cell above the threshold changes nothing but
\* the counter: the last sample is an outlier, and something has been kept, or
\* more than half of the samples would be outliers.
LEMMA RemoveStale ==
    ASSUME MarxInv, RemoveCell, ~(cell < g_sample_count)
    PROVE  MarxInv'
  <1>1. /\ running /\ running' = running /\ cell < Len(before) /\ g_samples[cell] > threshold
        /\ cell' = cell + 1
        /\ UNCHANGED <<g_samples, g_sample_count, valid_count, filtered, threshold, before>>
    BY DEF RemoveCell, Removed, RemovedCount
  <1>2. /\ before \in Seq(Nat) /\ Len(before) \in Nat /\ Len(before) >= 3
        /\ DOMAIN before = 1 .. Len(before) /\ Len(before) <= MAX_SAMPLES
        /\ g_samples \in [Cells -> Nat] /\ g_sample_count \in 0 .. Len(before)
        /\ cell \in Nat /\ filtered \in Nat /\ threshold \in Nat /\ Gone \in Nat
        /\ Gone = Len(before) - g_sample_count
        /\ threshold = Threshold(before)
    BY <1>1, LoopFacts
  <1>3. Gone' = Gone
    BY <1>1 DEF Gone
  <1>4. before[Len(before)] > threshold
    <2>1. cell \in cell .. (Len(before) - 1)
      BY <1>1, <1>2
    <2> QED
      BY <1>1, <2>1 DEF MarxInv, CellsInv
  <1>5. filtered # 0
    <2> SUFFICES ASSUME filtered = 0 PROVE FALSE
      OBVIOUS
    <2>1. /\ cell = Gone
          /\ cell > 0 => Cardinality(OutliersUpTo(before, threshold, 2 * cell - 1)) >= cell
      BY <1>1 DEF MarxInv, CountInv
    <2>2. 2 * cell >= Len(before) /\ cell > 0
      BY <1>2, <2>1
    <2>3. CASE 2 * cell = Len(before)
      <3>1. /\ 2 * cell - 1 \in Int /\ 2 * cell \in Int
            /\ 2 * cell - 1 < Len(before) /\ Len(before) <= 2 * cell /\ Len(before) \in DOMAIN before
        BY <1>2, <2>3
      <3>2. /\ Cardinality(OutliersUpTo(before, threshold, 2 * cell - 1)) \in Nat
            /\ Cardinality(OutliersUpTo(before, threshold, 2 * cell)) \in Nat
            /\ Cardinality(OutliersUpTo(before, threshold, 2 * cell))
                  >= Cardinality(OutliersUpTo(before, threshold, 2 * cell - 1)) + 1
        BY <1>2, <1>4, <3>1, OneMoreOutlier
      <3>3. 2 * Cardinality(OutliersUpTo(before, threshold, 2 * cell)) <= Len(before)
        BY <1>1, <3>1, HalfOutliers DEF MarxInv
      <3> QED
        BY <1>2, <2>1, <2>2, <2>3, <3>2, <3>3
    <2>4. CASE 2 * cell # Len(before)
      <3>1. 2 * cell - 1 \in Int
        BY <1>2
      <3>2. /\ Cardinality(OutliersUpTo(before, threshold, 2 * cell - 1)) \in Nat
            /\ 2 * Cardinality(OutliersUpTo(before, threshold, 2 * cell - 1)) <= Len(before)
        BY <1>1, <3>1, HalfOutliers DEF MarxInv
      <3>3. Cardinality(OutliersUpTo(before, threshold, 2 * cell - 1)) >= cell
        BY <2>1, <2>2
      <3>4. 2 * cell > Len(before)
        <4>1. 2 * cell \in Nat /\ Len(before) \in Nat
          BY <1>2
        <4> QED
          BY <2>2, <2>4, <4>1
      <3>5. \A n, l \in Nat, k \in Nat : k >= n /\ 2 * n > l => ~(2 * k <= l)
        OBVIOUS
      <3> QED
        BY <1>2, <3>2, <3>3, <3>4, <3>5
    <2> QED
      BY <2>3, <2>4
  <1>6. MarxType'
    <2>1. valid_count \in Nat /\ running \in BOOLEAN /\ cell + 1 \in Nat
      BY <1>2 DEF MarxInv, MarxType
    <2> QED
      BY <1>1, <1>2, <2>1, Zenon DEF MarxType
  <1>7. CellsInv'
    <2>1. cell + 1 <= Len(before) /\ filtered + Gone <= cell + 1
      BY <1>1, <1>2 DEF MarxInv, CellsInv
    <2>2. \A c \in (cell + 1) .. (Len(before) - 1) : c \in cell .. (Len(before) - 1)
      BY <1>2
    <2> QED
      BY <1>1, <1>2, <1>3, <1>4, <2>1, <2>2 DEF MarxInv, CellsInv
  <1>8. CountInv'
    <2>1. Cardinality(OutliersUpTo(before, threshold, cell + Gone)) >= Gone
      BY <1>1 DEF MarxInv, CountInv
    <2>2. /\ Cardinality(OutliersUpTo(before, threshold, cell + Gone)) \in Nat
          /\ Cardinality(OutliersUpTo(before, threshold, cell + 1 + Gone)) \in Nat
          /\ Cardinality(OutliersUpTo(before, threshold, cell + Gone))
               <= Cardinality(OutliersUpTo(before, threshold, cell + 1 + Gone))
      BY <1>2, MoreOutliers
    <2>3. Cardinality(OutliersUpTo(before, threshold, cell + 1 + Gone)) >= Gone
      BY <1>2, <2>1, <2>2
    <2> QED
      BY <1>1, <1>3, <1>5, <2>3 DEF CountInv
  <1>9. FrontInv'
    BY <1>1 DEF MarxInv, FrontInv
  <1> QED
    BY <1>1, <1>6, <1>7, <1>8, <1>9, LoopRest DEF MarxInv

\* The loop is over: every iteration has kept a cell, removed one, or read a
\* copy of a last sample that is an outlier.
LEMMA ReturnStep ==
    ASSUME MarxInv, FilterReturn
    PROVE  MarxInv'
  <1>1. /\ running /\ running' = FALSE /\ cell = Len(before)
        /\ valid_count' = IF filtered < Len(before) THEN filtered ELSE Len(before)
        /\ cell' = 0 /\ filtered' = 0 /\ threshold' = 0
        /\ UNCHANGED <<g_samples, g_sample_count, before>>
    BY DEF FilterReturn
  <1>2. /\ before \in Seq(Nat) /\ Len(before) \in Nat /\ Len(before) >= 3
        /\ DOMAIN before = 1 .. Len(before) /\ Len(before) <= MAX_SAMPLES
        /\ g_samples \in [Cells -> Nat] /\ g_sample_count \in 0 .. Len(before)
        /\ cell \in Nat /\ filtered \in Nat /\ threshold \in Nat /\ Gone \in Nat
        /\ Gone = Len(before) - g_sample_count
        /\ threshold = Threshold(before)
    BY <1>1, LoopFacts
  <1>3. /\ filtered + Gone <= cell /\ (filtered + Gone = cell \/ before[Len(before)] > threshold)
        /\ \A c \in 0 .. (filtered - 1) : g_samples[c] <= threshold
    BY <1>1 DEF MarxInv, CellsInv
  <1>4. filtered <= g_sample_count /\ valid_count' = filtered /\ valid_count' \in Nat
    BY <1>1, <1>2, <1>3
  <1>5. \A d : Passes(d)' <=> d <= threshold
    BY <1>1, <1>2 DEF Passes
  <1>6. 2 * Gone <= Len(before)
    <2>1. cell + Gone \in Int
      BY <1>2
    <2>2. /\ Cardinality(OutliersUpTo(before, threshold, cell + Gone)) \in Nat
          /\ 2 * Cardinality(OutliersUpTo(before, threshold, cell + Gone)) <= Len(before)
      BY <1>1, <2>1, HalfOutliers DEF MarxInv
    <2>3. Cardinality(OutliersUpTo(before, threshold, cell + Gone)) >= Gone
      BY <1>1 DEF MarxInv, CountInv
    <2> QED
      BY <1>2, <2>2, <2>3
  <1>7. filtered # 0
    <2>1. filtered = 0 => cell = Gone
      BY <1>1 DEF MarxInv, CountInv
    <2> QED
      BY <1>1, <1>2, <1>6, <2>1
  <1>8. FilterLeavesSample'
    BY <1>1, <1>2, <1>4, <1>7 DEF FilterLeavesSample
  <1>9. ValidSamplesPass'
    BY <1>1, <1>3, <1>4, <1>5 DEF ValidSamplesPass
  <1>10. LastPassesAllPass'
    <2> SUFFICES ASSUME Passes(before[Len(before)])'
                 PROVE  \A c \in 0 .. (g_sample_count - 1) : g_samples[c] <= threshold
      BY <1>1, <1>5 DEF LastPassesAllPass
    <2>1. before[Len(before)] <= threshold /\ before[Len(before)] \in Nat
      <3>1. Len(before) \in 1 .. Len(before)
        BY <1>2
      <3>2. before[Len(before)] \in Nat
        BY <1>2, <3>1, ElementOfSeq
      <3> QED
        BY <1>1, <1>2, <3>2 DEF Passes
    <2>2. filtered = g_sample_count
      BY <1>1, <1>2, <1>3, <2>1
    <2> QED
      BY <1>3, <2>2
  <1>11. MarxType'
    <2>1. FALSE \in BOOLEAN /\ 0 \in Nat
      OBVIOUS
    <2> QED
      BY <1>1, <1>2, <1>4, <2>1, Zenon DEF MarxType
  <1>12. FrontInv'
    BY <1>1 DEF MarxInv, FrontInv
  <1> QED
    BY <1>1, <1>8, <1>9, <1>10, <1>11, <1>12 DEF MarxInv, CellsInv, CountInv, RestInv, SurvivorsPass

\* Every step of the filter and of its caller keeps the invariant.
LEMMA MarxStep == MarxInv /\ [MarxNext]_marx_vars => MarxInv'
  <1> SUFFICES ASSUME MarxInv, [MarxNext]_marx_vars PROVE MarxInv'
    OBVIOUS
  <1>1. /\ MarxType /\ g_samples \in [Cells -> Nat] /\ g_sample_count \in 0 .. MAX_SAMPLES
    BY LenProperties DEF MarxInv, MarxType
  <1>2. CASE \E delay \in Delays : AddSample(delay)
    <2>1. PICK delay \in Delays : AddSample(delay)
      BY <1>2
    <2>2. Added(g_samples, g_sample_count, delay) \in [Cells -> Nat]
      BY <1>1 DEF Added
    <2>3. AddedCount(g_sample_count) \in 0 .. MAX_SAMPLES
      BY <1>1 DEF AddedCount
    <2> QED
      BY <1>1, <2>1, <2>2, <2>3, BeginStep DEF AddSample
  <1>3. CASE NoSample
    BY <1>1, <1>3, BeginStep DEF NoSample
  <1>4. CASE KeepCell
    BY <1>4, KeepStep
  <1>5. CASE RemoveCell
    BY <1>5, RemoveLive, RemoveStale
  <1>6. CASE FilterReturn
    BY <1>6, ReturnStep
  <1>7. CASE UNCHANGED marx_vars
    BY <1>7 DEF marx_vars, locals, MarxInv, MarxType, CellsInv, CountInv, Gone, FrontInv,
                Passes, RestInv, FilterLeavesSample, SurvivorsPass, ValidSamplesPass, LastPassesAllPass
  <1> QED
    BY <1>2, <1>3, <1>4, <1>5, <1>6, <1>7 DEF MarxNext

\* The inductive invariant holds in every state of the filter: what the array
\* holds while it is compacted and shifted, and how many outliers were met.
THEOREM MarxInvariance == MarxSpec => []MarxInv
  <1>1. MarxInit => MarxInv
    <2> SUFFICES ASSUME MarxInit PROVE MarxInv
      OBVIOUS
    <2>1. before = <<>> /\ before \in Seq(Nat) /\ Len(before) = 0 /\ DOMAIN before = {}
      BY DEF MarxInit
    <2>2. MarxType
      <3>1. g_samples \in [Cells -> Nat] /\ 0 \in Nat /\ 0 \in 0 .. 0 /\ 0 <= MAX_SAMPLES
        BY DEF MarxInit
      <3>2. FALSE \in BOOLEAN
        OBVIOUS
      <3> QED
        BY <2>1, <3>1, <3>2, Zenon DEF MarxInit, MarxType
    <2>3. FrontInv
      BY <2>1 DEF FrontInv
    <2>4. RestInv
      BY <2>1 DEF MarxInit, RestInv, FilterLeavesSample, SurvivorsPass, ValidSamplesPass, LastPassesAllPass
    <2> QED
      BY <2>2, <2>3, <2>4 DEF MarxInit, MarxInv, CellsInv, CountInv
  <1> QED
    BY <1>1, MarxStep, PTL DEF MarxSpec

\* For every size of the array, every multiple K and all delays: the filter
\* leaves a sample and reports one, so that sync_ntp_time never gives up its
\* synchronised state for want of a valid sample.
THEOREM FilterKeepsOne == MarxSpec => []FilterLeavesSample
  <1>1. MarxInv => FilterLeavesSample
    BY DEF MarxInv, RestInv
  <1> QED
    BY <1>1, MarxInvariance, PTL

\* At every point of the loop of marx_filter_outliers the samples in use are
\* samples it began with: no stale cell and no shift brings back an older one.
THEOREM NoSampleIsStale == MarxSpec => []NoStaleSample
  <1>1. MarxInv => NoStaleSample
    <2> SUFFICES ASSUME MarxInv, NEW c \in 0 .. (g_sample_count - 1)
                 PROVE  \E i \in (c + 1) .. Len(before) : g_samples[c] = before[i]
      BY DEF NoStaleSample
    <2>1. c \in 0 .. (Len(before) - 1)
      BY LenProperties DEF MarxInv, MarxType
    <2> QED
      BY <2>1 DEF MarxInv, FrontInv
  <1> QED
    BY <1>1, MarxInvariance, PTL

\* The count that marx_filter_outliers returns is one of inliers in use, and an
\* outlier can survive the filter only behind a last sample that is one.
THEOREM SurvivorsAreInliers == MarxSpec => []SurvivorsPass
  <1>1. MarxInv => SurvivorsPass
    BY DEF MarxInv, RestInv
  <1> QED
    BY <1>1, MarxInvariance, PTL

=============================================================================
