---------------------------- MODULE ClockThread -----------------------------
(***************************************************************************)
(* The clock thread of dntpd (threads.c): its start, its correction loop   *)
(* with a timed wait on a condition, and stop and cleanup at exit, beside  *)
(* main's exchanges.                                                       *)
(*                                                                         *)
(* clock_thread_init falls through into its own error path and destroys    *)
(* the mutex and the condition it has just initialised. What later calls   *)
(* do with them is undefined; ub is the choice of the C library:           *)
(*   einval  lock, unlock and wait return EINVAL at once (glibc);          *)
(*   works   destroy had no effect (musl).                                 *)
(*                                                                         *)
(* Times are seconds: clock is CLOCK_REALTIME (since 1970), sync is        *)
(* g_last_sync_ts (NTP, since 1900; 0 before the first exchange).          *)
(***************************************************************************)
EXTENDS Integers

CONSTANTS DELTA,     \* NTP_UNIX_EPOCH_DELTA (2208988800 in the source)
          PANIC,     \* 1000 * panic_threshold: offset in us against threshold * 10^9
          FRAC,      \* seconds frac * 1000, wrapped to 32 bits, may add (4)
          MaxClock   \* bound: the largest clock reading

ASSUME ClockAssumption ==
    DELTA \in Nat /\ PANIC \in Nat /\ FRAC \in Nat /\ MaxClock \in Nat

Nobody == "nobody"

VARIABLES ub,        \* outcome of using the destroyed mutex
          servers,   \* g_server_count > 0
          running,   \* g_clock_thread_running
          holder,    \* owner of clock_mutex
          shutdown,  \* g_shutdown_requested
          pcM,       \* main
          twice,     \* cleanup_resources will run once more, from atexit
          pcC,       \* the clock thread
          clock,
          sync,
          now,       \* the thread's clock reading
          off,       \* the thread's offset
          extra      \* corrections begun since the stop (history, at most 2)

main   == <<pcM, twice, shutdown, servers>>
times  == <<clock, sync>>
result == <<now, off>>
vars   == <<ub, main, running, holder, pcC, times, result, extra>>

\* pthread_mutex_lock and pthread_mutex_unlock of clock_mutex by t.
CanTake == ub = "einval" \/ holder = Nobody
Take(t) == holder' = IF ub = "einval" THEN holder ELSE t
Release == holder' = Nobody

-----------------------------------------------------------------------------
(* main                                                                     *)

\* signal_handler
SignalHandler ==
    /\ ~shutdown
    /\ shutdown' = TRUE
    /\ UNCHANGED <<ub, pcM, twice, servers, running, holder, pcC, times, result, extra>>

\* start_clock_thread. Without servers there is no clock thread.
StartClock ==
    /\ pcM = "start"
    /\ \/ /\ ~servers
          /\ pcM' = "loop"
          /\ UNCHANGED <<pcC, twice>>
       \/ /\ servers
          /\ pcM' = "loop" /\ pcC' = "new"
          /\ UNCHANGED twice
       \/ /\ servers                      \* init, create or detach fails
          /\ pcC' \in {"none", "new"}
          /\ pcM' = "stop" /\ twice' = TRUE
    /\ UNCHANGED <<ub, shutdown, servers, running, holder, times, result, extra>>

\* Mutant of Exchange: the clock reading is stored without the change of epoch.
ExchangeUnixTime ==
    /\ pcM = "loop"
    /\ servers
    /\ sync' = clock
    /\ clock' \in 0 .. MaxClock
    /\ UNCHANGED <<ub, main, running, holder, pcC, result, extra>>

\* An exchange: g_last_sync_ts is the clock reading t4, the correction follows.
Exchange ==
    /\ pcM = "loop"
    /\ servers
    /\ sync' = DELTA + clock
    /\ clock' \in 0 .. MaxClock
    /\ UNCHANGED <<ub, main, running, holder, pcC, result, extra>>

LeaveLoop ==
    /\ pcM = "loop"
    /\ shutdown
    /\ pcM' = "stop"
    /\ UNCHANGED <<ub, twice, shutdown, servers, running, holder, pcC, times, result, extra>>

\* -q: main leaves after the round.
QuitAfterSync ==
    /\ pcM = "loop"
    /\ servers
    /\ pcM' = "stop"
    /\ UNCHANGED <<ub, twice, shutdown, servers, running, holder, pcC, times, result, extra>>

\* stop_clock_thread
StopTest ==
    /\ pcM = "stop"
    /\ pcM' = IF running THEN "clear" ELSE "cleanup"
    /\ UNCHANGED <<ub, twice, shutdown, servers, running, holder, pcC, times, result, extra>>

StopClear ==
    /\ pcM = "clear"
    /\ running' = FALSE
    /\ extra' = 0
    /\ pcM' = "signal"
    /\ UNCHANGED <<ub, twice, shutdown, servers, holder, pcC, times, result>>

\* The signal wakes the thread if it waits and is lost otherwise; pthread_join
\* of the detached thread does not wait.
StopSignal ==
    /\ pcM = "signal"
    /\ CanTake
    /\ pcC' = IF pcC = "waiting" THEN "woken" ELSE pcC
    /\ pcM' = "cleanup"
    /\ UNCHANGED <<ub, twice, shutdown, servers, running, holder, times, result, extra>>

\* cleanup_clock_thread and the rest of cleanup_resources, which frees the
\* servers; after a failed start it runs again from atexit.
Cleanup ==
    /\ pcM = "cleanup"
    /\ servers' = FALSE
    /\ pcM' = IF twice THEN "stop" ELSE "exited"
    /\ twice' = FALSE
    /\ UNCHANGED <<ub, shutdown, running, holder, pcC, times, result, extra>>

-----------------------------------------------------------------------------
(* the clock thread, which ends with the process                            *)

At(from) == pcC = from /\ pcM # "exited"

\* clock_thread_main: a thread that is first scheduled after the cleanup finds
\* no servers.
ClockBegin ==
    /\ At("new")
    /\ IF servers THEN pcC' = "flag" /\ UNCHANGED running
                  ELSE pcC' = "done" /\ running' = FALSE
    /\ UNCHANGED <<ub, main, holder, times, result, extra>>

\* The thread sets its own flag, after a stop that found it clear, if need be.
ClockFlag ==
    /\ At("flag")
    /\ running' = TRUE
    /\ pcC' = "test"
    /\ UNCHANGED <<ub, main, holder, times, result, extra>>

\* Mutant of ClockTest: the flag is not looked at again.
ClockTestIgnored ==
    /\ At("test")
    /\ pcC' = "time"
    /\ UNCHANGED <<ub, main, running, holder, times, result, extra>>

ClockTest ==
    /\ At("test")
    /\ pcC' = IF running THEN "time" ELSE "done"
    /\ UNCHANGED <<ub, main, running, holder, times, result, extra>>

\* gettimeofday, which may fail.
ClockTime ==
    /\ At("time")
    /\ \/ pcC' = "sync" /\ now' = clock
       \/ pcC' = "test" /\ UNCHANGED now
    /\ UNCHANGED <<ub, main, running, holder, times, off, extra>>

\* g_last_sync_ts under g_mutex, possibly after another exchange.
ClockOffset ==
    /\ At("sync")
    /\ \E f \in 0 .. FRAC : off' = now - (IF sync = 0 THEN 0 ELSE sync + f)
    /\ pcC' = "apply"
    /\ UNCHANGED <<ub, main, running, holder, times, now, extra>>

\* check_panic_condition
PanicCondition(o) == o > PANIC \/ -o > PANIC

\* apply_time_correction_slew_or_step; clock_settime refuses times before 1970.
ClockApply ==
    /\ At("apply")
    /\ clock' = IF ~PanicCondition(off) /\ clock + off \in 0 .. MaxClock
                THEN clock + off ELSE clock
    /\ extra' = IF ~running /\ extra < 2 THEN extra + 1 ELSE extra
    /\ pcC' = "publish"
    /\ UNCHANGED <<ub, main, running, holder, sync, result>>

\* update_system_clock: last_offset_us and last_correction, which only status
\* requests read, are not kept.
ClockPublish ==
    /\ At("publish")
    /\ CanTake
    /\ Take("clock")
    /\ now' = 0 /\ off' = 0
    /\ pcC' = "unlock"
    /\ UNCHANGED <<ub, main, running, times, extra>>

\* Mutant of ClockUnlock: the mutex stays locked.
ClockNoUnlock ==
    /\ At("unlock")
    /\ pcC' = "wait"
    /\ UNCHANGED <<ub, main, running, holder, times, result, extra>>

ClockUnlock ==
    /\ At("unlock")
    /\ Release
    /\ pcC' = "wait"
    /\ UNCHANGED <<ub, main, running, times, result, extra>>

\* clock_gettime fails, or pthread_cond_timedwait: EINVAL, which ends the loop,
\* or the wait.
ClockWait ==
    /\ At("wait")
    /\ \/ pcC' = "test"
       \/ CanTake /\ pcC' = IF ub = "einval" THEN "done" ELSE "waiting"
    /\ UNCHANGED <<ub, main, running, holder, times, result, extra>>

\* ETIMEDOUT goes on, a signal or a spurious wake-up ends the loop; both take
\* the mutex again.
ClockTimeout ==
    /\ At("waiting")
    /\ CanTake
    /\ pcC' = "test"
    /\ UNCHANGED <<ub, main, running, holder, times, result, extra>>

ClockWoken ==
    /\ \/ At("woken") \/ At("waiting")
    /\ CanTake
    /\ pcC' = "done"
    /\ UNCHANGED <<ub, main, running, holder, times, result, extra>>

-----------------------------------------------------------------------------
\* A second passes (external: CLOCK_REALTIME).
Tick ==
    /\ clock < MaxClock
    /\ pcM # "exited"
    /\ clock' = clock + 1
    /\ UNCHANGED <<ub, main, running, holder, pcC, sync, result, extra>>

Exited == pcM = "exited" /\ UNCHANGED vars

Init ==
    /\ ub \in {"einval", "works"}
    /\ servers \in BOOLEAN
    /\ running = FALSE /\ holder = Nobody /\ shutdown = FALSE
    /\ pcM = "start" /\ twice = FALSE
    /\ pcC = "none"
    /\ clock \in 0 .. MaxClock
    /\ sync = 0 /\ now = 0 /\ off = 0
    /\ extra = 0

MainStep  == StartClock \/ LeaveLoop \/ StopTest \/ StopClear \/ StopSignal \/ Cleanup
ClockStep == \/ ClockBegin \/ ClockFlag \/ ClockTest \/ ClockTime \/ ClockOffset \/ ClockApply
             \/ ClockPublish \/ ClockUnlock \/ ClockWait \/ ClockTimeout \/ ClockWoken

Next == MainStep \/ ClockStep \/ SignalHandler \/ Exchange \/ QuitAfterSync \/ Tick \/ Exited

Spec == Init /\ [][Next]_vars

\* The scheduler runs both threads.
LiveSpec == Spec /\ WF_vars(MainStep) /\ WF_vars(ClockStep)

-----------------------------------------------------------------------------
(* Properties                                                               *)

\* Every variable stays in its domain.
TypeOK ==
    /\ ub \in {"einval", "works"}
    /\ servers \in BOOLEAN /\ running \in BOOLEAN /\ shutdown \in BOOLEAN /\ twice \in BOOLEAN
    /\ holder \in {Nobody, "clock"}
    /\ pcM \in {"start", "loop", "stop", "clear", "signal", "cleanup", "exited"}
    /\ pcC \in {"none", "new", "flag", "test", "time", "sync", "apply", "publish", "unlock", "wait",
               "waiting", "woken", "done"}
    /\ clock \in 0 .. MaxClock
    /\ sync \in {0} \cup DELTA .. (DELTA + MaxClock)
    /\ now \in 0 .. MaxClock
    /\ off \in Int
    /\ extra \in 0 .. 2

\* Once stop_clock_thread has cleared the flag the thread finishes at most the
\* correction it is at: no store of its own undoes the stop, and a signal that
\* is lost because the thread does not wait yet costs no second round.
AtMostOneMore == extra <= 1

\* A signal ends the daemon as far as the clock thread is concerned: whatever
\* the destroyed mutex does, stop_clock_thread does not wait for ever.
StopCompletes == shutdown ~> pcM = "exited"

=============================================================================
