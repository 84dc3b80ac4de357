----------------------------- MODULE LeapSecond -----------------------------
(***************************************************************************)
(* Leap second handling of dntpd (leap_second.c): an event is scheduled    *)
(* from the leap indicator of a packet or from a leap file, and applied by *)
(* the check that follows a successful exchange. All callers run in the    *)
(* main thread; the lock calls nest.                                       *)
(*                                                                         *)
(* The code only compares differences of clock readings, so the model has  *)
(* no absolute time: sec is the second of the minute, due and since are    *)
(* the distances of event_time and last_check_time, which saturate where   *)
(* the code no longer tells values apart.                                  *)
(***************************************************************************)
EXTENDS Integers, PthreadMutex

CONSTANTS MINUTE,  \* seconds of a minute, and of a pending offset (60 in the source)
          EVENT,   \* LEAP_SECOND_EVENT_INTERVAL_SEC (60)
          CHECK    \* LEAP_SECOND_CHECK_INTERVAL_SEC (300)

ASSUME LeapAssumption == /\ MINUTE \in Nat \ {0, 1}
                         /\ EVENT \in Nat \ {0}
                         /\ CHECK \in Nat \ {0}

Directions == {"positive", "negative"}

VARIABLES mutex,      \* g_leap_second_mutex
          pc,         \* where main is
          scheduled,  \* event_scheduled
          dir,        \* pending_leap_dir
          file,       \* the leap file of today: absent, unusable or a direction
          due,        \* seconds until event_time (0: reached)
          since,      \* seconds since last_check_time, at most CHECK
          sec,        \* second of the current minute
          age         \* seconds since the event was scheduled (history)

event == <<scheduled, dir, due, age>>
vars  == <<mutex, pc, event, file, since, sec>>

AtMost(n, bound) == IF n < bound THEN n ELSE bound

-----------------------------------------------------------------------------
\* Mutant of EndOfMinute: the end of the minute after this one.
EndOfMinuteNext == 2 * MINUTE - sec

\* leap_second_get_end_of_minute_time, as a distance from now.
EndOfMinute == MINUTE - sec

\* The event lies EVENT before the end of the minute, or EVENT after it when
\* that moment has passed.
EventDistance == IF EndOfMinute - EVENT > 0 THEN EndOfMinute - EVENT
                                            ELSE EndOfMinute + EVENT

\* Mutant of Schedule: a new announcement replaces the pending event.
ScheduleAlways(d) == scheduled' = TRUE /\ dir' = d /\ due' = EventDistance /\ age' = 0

\* leap_second_schedule_event: a pending event stays as it is.
Schedule(d) ==
    IF scheduled THEN UNCHANGED event
    ELSE scheduled' = TRUE /\ dir' = d /\ due' = EventDistance /\ age' = 0

\* handle_leap_indicator for a packet with LI 1 or 2.
HandleLeapIndicator(li) ==
    /\ pc = "idle"
    /\ CanLock(mutex, "main")
    /\ Schedule(li)
    /\ UNCHANGED <<mutex, pc, file, since, sec>>

-----------------------------------------------------------------------------
(* leap_second_integration_check: leap_second_check_file, then              *)
(* leap_second_check_and_apply                                              *)

Lock   == CanLock(mutex, "main") /\ mutex' = AfterLock(mutex, "main")
Unlock == mutex' = AfterUnlock(mutex, "main")

\* It is too early for another look at the file.
CheckFileTooEarly ==
    /\ pc = "idle"
    /\ CanLock(mutex, "main")
    /\ since < CHECK
    /\ pc' = "apply"
    /\ UNCHANGED <<mutex, event, file, since, sec>>

\* No file for today.
CheckFileAbsent ==
    /\ pc = "idle"
    /\ CanLock(mutex, "main")
    /\ since >= CHECK
    /\ file = "absent"
    /\ since' = 0
    /\ pc' = "apply"
    /\ UNCHANGED <<mutex, event, file, sec>>

\* The file cannot be opened, read or understood: -1, no apply, and the next
\* check looks at it again.
CheckFileError ==
    /\ pc = "idle"
    /\ CanLock(mutex, "main")
    /\ since >= CHECK
    /\ file = "unusable"
    /\ UNCHANGED vars

\* The file has a direction; the mutex stays locked for the nested call.
CheckFileFound ==
    /\ pc = "idle"
    /\ since >= CHECK
    /\ file \in Directions
    /\ Lock
    /\ pc' = "schedule"
    /\ UNCHANGED <<event, file, since, sec>>

\* leap_second_schedule_event under leap_second_check_file.
CheckFileSchedule ==
    /\ pc = "schedule"
    /\ CanLock(mutex, "main")
    /\ Schedule(file)
    /\ Unlock
    /\ since' = 0
    /\ pc' = "apply"
    /\ UNCHANGED <<file, sec>>

\* leap_second_check_and_apply: nothing to do yet.
NotDue ==
    /\ pc = "apply"
    /\ CanLock(mutex, "main")
    /\ ~(scheduled /\ due = 0)
    /\ pc' = "idle"
    /\ UNCHANGED <<mutex, event, file, since, sec>>

Due ==
    /\ pc = "apply"
    /\ scheduled /\ due = 0
    /\ Lock
    /\ pc' = "correct"
    /\ UNCHANGED <<event, file, since, sec>>

Offset(d) == IF d = "positive" THEN MINUTE ELSE -MINUTE

\* leap_second_apply_correction under leap_second_check_and_apply. The event is
\* cleared even when clock_settime refuses.
ApplyCorrection ==
    /\ pc = "correct"
    /\ CanLock(mutex, "main")
    /\ Unlock
    /\ \/ since' = AtMost(since + Offset(dir), CHECK)
       \/ UNCHANGED since
    /\ scheduled' = FALSE /\ dir' = "none" /\ due' = 0 /\ age' = 0
    /\ pc' = "idle"
    /\ UNCHANGED <<file, sec>>

\* leap_second_cleanup, at exit.
Cleanup ==
    /\ pc = "idle"
    /\ CanLock(mutex, "main")
    /\ scheduled' = FALSE /\ dir' = "none" /\ due' = 0 /\ age' = 0
    /\ since' = CHECK
    /\ pc' = "exited"
    /\ UNCHANGED <<mutex, file, sec>>

-----------------------------------------------------------------------------
\* A second passes (external: CLOCK_REALTIME).
Tick ==
    /\ sec' = (sec + 1) % MINUTE
    /\ due' = IF due > 0 THEN due - 1 ELSE 0
    /\ age' = IF scheduled THEN AtMost(age + 1, EVENT + 1) ELSE 0
    /\ since' = AtMost(since + 1, CHECK)
    /\ UNCHANGED <<mutex, pc, scheduled, dir, file>>

\* leap_second_init: last_check_time 0 is long ago.
Init ==
    /\ mutex = FreeMutex
    /\ pc = "idle"
    /\ scheduled = FALSE /\ dir = "none" /\ due = 0 /\ age = 0
    /\ file \in {"absent", "unusable"} \cup Directions
    /\ since = CHECK
    /\ sec \in 0 .. (MINUTE - 1)

IntegrationCheck == \/ CheckFileTooEarly \/ CheckFileAbsent \/ CheckFileFound
                    \/ CheckFileSchedule \/ NotDue \/ Due \/ ApplyCorrection

Next == \/ IntegrationCheck \/ CheckFileError \/ Cleanup \/ Tick
        \/ \E li \in Directions : HandleLeapIndicator(li)

Spec == Init /\ [][Next]_vars

-----------------------------------------------------------------------------
(* Properties                                                               *)

\* Every variable stays in its domain.
TypeOK ==
    /\ mutex \in Mutexes({"main"})
    /\ pc \in {"idle", "schedule", "apply", "correct", "exited"}
    /\ scheduled \in BOOLEAN
    /\ dir \in Directions \cup {"none"}
    /\ file \in Directions \cup {"absent", "unusable"}
    /\ due \in 0 .. (MINUTE + EVENT)
    /\ since \in (-MINUTE) .. CHECK
    /\ sec \in 0 .. (MINUTE - 1)
    /\ age \in 0 .. (EVENT + 1)

\* Servers repeat the leap indicator in every packet of the day: as long as an
\* event is pending no announcement, and no leap file, changes its direction or
\* puts it off.
PendingStable == [][scheduled /\ scheduled' => dir' = dir /\ due' <= due]_vars

=============================================================================
