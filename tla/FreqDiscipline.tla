--------------------------- MODULE FreqDiscipline ---------------------------
(***************************************************************************)
(* What an accepted exchange does to the clock and to the daemon's notion  *)
(* of its frequency (time_sync.c): the poll interval, the slew or step of  *)
(* the clock, the frequency state machine NSET - FSET - SYNC, and the      *)
(* frequency file that survives restarts and crashes.                      *)
(*                                                                         *)
(* A frequency is an integer (PPM). What the FLL and PLL formulas yield is *)
(* any frequency within the clamp, and a weighted mean of two frequencies  *)
(* any value between them: nothing below depends on the gains.             *)
(***************************************************************************)
EXTENDS Integers

CONSTANTS POLL_INTERVAL_MIN,  \* 4 in the source
          POLL_INTERVAL_MAX,  \* 12
          UPDATE_MIN,         \* FREQ_UPDATE_INTERVAL_MIN_SEC (64)
          MAX_PPM,            \* FREQ_OFFSET_MAX_PPM (128)
          PeerPolls,          \* poll fields packets carry (int8_t)
          NoFile,             \* no frequency file, or one without a number
          LongAgo             \* bound: age from which nothing is told apart

ASSUME FreqAssumption ==
    /\ POLL_INTERVAL_MIN \in Nat /\ POLL_INTERVAL_MAX \in Nat
    /\ POLL_INTERVAL_MIN <= POLL_INTERVAL_MAX
    /\ UPDATE_MIN \in Nat \ {0}
    /\ MAX_PPM \in Nat \ {0}
    /\ PeerPolls \subseteq Int
    /\ NoFile \notin Int
    /\ LongAgo \in Nat /\ LongAgo >= UPDATE_MIN /\ LongAgo >= 2^POLL_INTERVAL_MAX

Ppm == (-MAX_PPM) .. MAX_PPM

VARIABLES pc,      \* down, idle, update, save
          poll,    \* g_local_poll
          fstate,  \* g_freq_state.state
          ppm,     \* g_freq_state.ppm
          filter,  \* g_freq_state.ppm_filter
          est,     \* the last frequency the formulas yielded (history)
          age,     \* clock minus last_update, at most LongAgo (negative: stepped back)
          file,    \* the frequency file
          slew     \* what adjtime is busy with: nothing, an offset, a frequency

freq == <<fstate, ppm, filter, est>>
vars == <<pc, poll, freq, age, file, slew>>

AtMost(n, bound) == IF n < bound THEN n ELSE bound
Lower(a, b)      == IF a < b THEN a ELSE b

\* The values a weighted mean of a and b may have.
Between(a, b) == IF a < b THEN a .. b ELSE b .. a

-----------------------------------------------------------------------------
(* Start, exit and crash                                                    *)

\* Mutant of Loadable: any number in the file is taken.
LoadableAny(f) == f # NoFile

\* load_frequency_persistent: what the file must hold.
Loadable(f) == f # NoFile /\ f > -MAX_PPM /\ f < MAX_PPM

\* init_frequency_discipline and load_frequency_persistent: last_update 0 is
\* long ago.
Start ==
    /\ pc = "down"
    /\ fstate' = IF Loadable(file) THEN "FSET" ELSE "NSET"
    /\ ppm' = IF Loadable(file) THEN file ELSE 0
    /\ filter' = 0 /\ est' = 0
    /\ age' = LongAgo
    /\ poll' = POLL_INTERVAL_MIN
    /\ pc' = "idle"
    /\ UNCHANGED <<file, slew>>

\* save_frequency_persistent at exit: fopen empties the file before the number
\* is written. Nothing is written before SYNC or when fopen fails.
Exit ==
    /\ pc = "idle"
    /\ \/ fstate = "SYNC" /\ pc' = "save" /\ file' = NoFile
       \/ pc' = "down" /\ UNCHANGED file
    /\ UNCHANGED <<poll, freq, age, slew>>

Save ==
    /\ pc = "save"
    /\ file' = ppm
    /\ pc' = "down"
    /\ UNCHANGED <<poll, freq, age, slew>>

Crash ==
    /\ pc # "down"
    /\ pc' = "down"
    /\ UNCHANGED <<poll, freq, age, file, slew>>

-----------------------------------------------------------------------------
(* An accepted exchange                                                     *)

\* adjust_poll_interval: a lower interval of the server is taken as it is; a
\* bad delay or offset widens it, a good one narrows it.
AdjustPoll(peer, quality) ==
    LET p == Lower(poll, peer)
    IN  IF quality = "bad" /\ p < POLL_INTERVAL_MAX THEN p + 1
        ELSE IF quality = "good" /\ p > POLL_INTERVAL_MIN THEN p - 1
        ELSE p

\* apply_time_correction_slew_or_step after the new poll interval is stored: a
\* step clears what adjtime was busy with and moves the clock that last_update
\* is compared with, a slew replaces it; both may fail.
Correct(peer, quality) ==
    /\ pc = "idle"
    /\ poll' = AdjustPoll(peer, quality)
    /\ \/ slew' \in {slew, "offset"} /\ UNCHANGED age
       \/ slew' = "none" /\ age' \in (-LongAgo) .. LongAgo
    /\ pc' = "update"
    /\ UNCHANGED <<freq, file>>

\* 1LL << poll, at least UPDATE_MIN. A negative shift is undefined: the shift
\* count is taken modulo 64, the result is huge, or negative and raised.
TimeConstants ==
    IF poll >= 0 THEN {IF 2^poll < UPDATE_MIN THEN UPDATE_MIN ELSE 2^poll}
                 ELSE {UPDATE_MIN, LongAgo + 1}

\* Mutant of Estimate: the first estimate is stored without the new state.
EstimateKeepsState(e) ==
    /\ est' = e
    /\ \/ fstate = "NSET" /\ ppm' = e /\ UNCHANGED <<filter, fstate>>
       \/ fstate = "FSET" /\ fstate' = "SYNC" /\ ppm' \in Between(ppm, e) /\ UNCHANGED filter
       \/ fstate = "SYNC" /\ filter' \in Between(filter, e) /\ ppm' = filter' /\ UNCHANGED fstate

\* Mutant of Estimate: SYNC applies the estimate and not the filtered one.
EstimateUnfiltered(e) ==
    /\ est' = e
    /\ \/ fstate = "NSET" /\ fstate' = "FSET" /\ ppm' = e /\ UNCHANGED filter
       \/ fstate = "FSET" /\ fstate' = "SYNC" /\ ppm' \in Between(ppm, e) /\ UNCHANGED filter
       \/ fstate = "SYNC" /\ filter' \in Between(filter, e) /\ ppm' = e /\ UNCHANGED fstate

\* The frequency state machine with the estimate e of calculate_fll_ppm or
\* calculate_pll_ppm. apply_loop_filter starts from ppm_filter, not from ppm.
Estimate(e) ==
    /\ est' = e
    /\ \/ fstate = "NSET" /\ fstate' = "FSET" /\ ppm' = e /\ UNCHANGED filter
       \/ fstate = "FSET" /\ fstate' = "SYNC" /\ ppm' \in Between(ppm, e) /\ UNCHANGED filter
       \/ fstate = "SYNC" /\ filter' \in Between(filter, e) /\ ppm' = filter' /\ UNCHANGED fstate

\* apply_frequency_adjustment: adjtime is called when adjtimex fails or the
\* kernel does not call itself synchronised, and replaces the slew under way.
ApplyFrequency ==
    \/ UNCHANGED slew
    \/ ppm' # 0 /\ slew' = "frequency"

\* update_frequency_discipline_internal: last_update is set by every call,
\* also by one that came too early to change the frequency.
Update ==
    /\ pc = "update"
    /\ \E tc \in TimeConstants :
          \/ age >= tc /\ \E e \in Ppm : Estimate(e)
          \/ age < tc /\ UNCHANGED freq
    /\ ApplyFrequency
    /\ age' = 0
    /\ pc' = "idle"
    /\ UNCHANGED <<poll, file>>

-----------------------------------------------------------------------------
\* A second passes; a slew comes to its end (external: the kernel).
Tick ==
    /\ age' = AtMost(age + 1, LongAgo)
    /\ slew' \in {slew, "none"}
    /\ UNCHANGED <<pc, poll, freq, file>>

\* The file may be anything an administrator or an earlier version left.
Init ==
    /\ pc = "down"
    /\ poll = POLL_INTERVAL_MIN
    /\ fstate = "NSET" /\ ppm = 0 /\ filter = 0 /\ est = 0
    /\ age = LongAgo
    /\ file \in {NoFile} \cup (-MAX_PPM - 1) .. (MAX_PPM + 1)
    /\ slew = "none"

Exchange == \E peer \in PeerPolls, quality \in {"good", "fair", "bad"} : Correct(peer, quality)

Next == Start \/ Exit \/ Save \/ Crash \/ Exchange \/ Update \/ Tick

Spec == Init /\ [][Next]_vars

\* The daemon is started, and an exchange that has begun is finished.
LiveSpec == Spec /\ WF_vars(Start) /\ WF_vars(Update)

-----------------------------------------------------------------------------
(* Properties                                                               *)

\* Every variable stays in its domain; the frequency stays within the clamp
\* whatever the file of an earlier run contains, although only the estimates
\* are clamped. The poll interval has a maximum only: a server's own poll field
\* takes it below the minimum.
TypeOK ==
    /\ pc \in {"down", "idle", "update", "save"}
    /\ poll \in Int /\ poll <= POLL_INTERVAL_MAX
    /\ fstate \in {"NSET", "FSET", "SYNC"}
    /\ ppm \in Ppm /\ filter \in Ppm /\ est \in Ppm
    /\ age \in (-LongAgo) .. LongAgo
    /\ file \in {NoFile} \cup Int
    /\ slew \in {"none", "offset", "frequency"}

\* An exchange that comes a whole time constant after the one before.
WideExchange == pc = "update" /\ poll >= 0 /\ age >= UPDATE_MIN /\ age >= 2^poll

\* A daemon that keeps running and whose exchanges are again and again that far
\* apart disciplines its frequency in the end.
ReachesSync == (<>[](pc # "down") /\ []<>WideExchange) => <>(fstate = "SYNC")

\* ppm_filter and ppm are two frequencies that the three states update in
\* different ways: from the first update in SYNC on, and for as long as the
\* process lives, the filter holds the frequency that is applied and saved;
\* before that it is still 0.
FilterFollows == filter # 0 => fstate = "SYNC" /\ filter = ppm

=============================================================================
