-------------------------- MODULE LeapSecondProofs --------------------------
(***************************************************************************)
(* For every length of the minute and of the two intervals: a pending leap *)
(* event is neither redirected nor put off, and a correction moves the     *)
(* last look at the file into the future by a minute at most. The theorems *)
(* hold for every kind of mutex.                                           *)
(***************************************************************************)
EXTENDS LeapSecond, TLAPS

USE LeapAssumption

\* The part of TypeOK the event depends on; the mutex plays no role in it.
EventType ==
    /\ pc \in {"idle", "schedule", "apply", "correct", "exited"}
    /\ due \in 0 .. (MINUTE + EVENT)
    /\ sec \in 0 .. (MINUTE - 1)
    /\ age \in 0 .. (EVENT + 1)

\* The correction is entered only with a pending event that has come due, and
\* until then the time waited and the time to wait exceed the interval.
WaitInv ==
    /\ pc = "correct" => scheduled /\ due = 0
    /\ scheduled /\ EVENT >= MINUTE => age + due > EVENT

IInv == EventType /\ WaitInv

-----------------------------------------------------------------------------
\* Every step keeps the inductive invariant.
LEMMA InvStep == IInv /\ [Next]_vars => IInv'
  <1> SUFFICES ASSUME IInv, [Next]_vars PROVE IInv'
    OBVIOUS
  <1> USE DEF IInv, EventType, WaitInv
  <1>1. CASE CheckFileTooEarly
    BY <1>1 DEF CheckFileTooEarly, event, vars
  <1>2. CASE CheckFileAbsent
    BY <1>2 DEF CheckFileAbsent, event, vars
  <1>3. CASE CheckFileError
    BY <1>3 DEF CheckFileError, event, vars
  <1>4. CASE CheckFileFound
    BY <1>4 DEF CheckFileFound, Lock, event, vars
  <1>5. CASE CheckFileSchedule
    BY <1>5 DEF CheckFileSchedule, Schedule, Unlock, EventDistance, EndOfMinute, event, vars
  <1>6. CASE NotDue
    BY <1>6 DEF NotDue, event, vars
  <1>7. CASE Due
    BY <1>7 DEF Due, Lock, event, vars
  <1>8. CASE ApplyCorrection
    BY <1>8 DEF ApplyCorrection, Unlock, Offset, AtMost, event, vars
  <1>9. CASE Cleanup
    BY <1>9 DEF Cleanup, event, vars
  <1>10. CASE Tick
    BY <1>10 DEF Tick, AtMost, event, vars
  <1>11. ASSUME NEW li \in Directions, HandleLeapIndicator(li) PROVE IInv'
    BY <1>11 DEF HandleLeapIndicator, Schedule, EventDistance, EndOfMinute, event
  <1>12. CASE UNCHANGED vars
    BY <1>12 DEF vars, event
  <1>13. QED
    BY <1>1, <1>2, <1>3, <1>4, <1>5, <1>6, <1>7, <1>8, <1>9, <1>10, <1>11, <1>12 DEF Next, IntegrationCheck

\* The invariant holds in every reachable state of leap_second.c.
THEOREM Invariance == Spec => []IInv
  <1>1. Init => IInv
    BY DEF Init, IInv, EventType, WaitInv
  <1>2. QED
    BY <1>1, InvStep, PTL DEF Spec

\* No step moves a pending event.
LEMMA StableStep ==
    IInv /\ [Next]_vars => [scheduled /\ scheduled' => dir' = dir /\ due' <= due]_vars
  <1> SUFFICES ASSUME IInv, [Next]_vars, scheduled, scheduled'
               PROVE  dir' = dir /\ due' <= due
    OBVIOUS
  <1> USE DEF IInv, EventType
  <1>1. CASE CheckFileTooEarly
    BY <1>1 DEF CheckFileTooEarly, event, vars
  <1>2. CASE CheckFileAbsent
    BY <1>2 DEF CheckFileAbsent, event, vars
  <1>3. CASE CheckFileError
    BY <1>3 DEF CheckFileError, event, vars
  <1>4. CASE CheckFileFound
    BY <1>4 DEF CheckFileFound, Lock, event, vars
  <1>5. CASE CheckFileSchedule
    BY <1>5 DEF CheckFileSchedule, Schedule, Unlock, EventDistance, EndOfMinute, event, vars
  <1>6. CASE NotDue
    BY <1>6 DEF NotDue, event, vars
  <1>7. CASE Due
    BY <1>7 DEF Due, Lock, event, vars
  <1>8. CASE ApplyCorrection
    BY <1>8 DEF ApplyCorrection, Unlock, Offset, AtMost, event, vars
  <1>9. CASE Cleanup
    BY <1>9 DEF Cleanup, event, vars
  <1>10. CASE Tick
    BY <1>10 DEF Tick, AtMost, event, vars
  <1>11. ASSUME NEW li \in Directions, HandleLeapIndicator(li) PROVE dir' = dir /\ due' <= due
    BY <1>11 DEF HandleLeapIndicator, Schedule, EventDistance, EndOfMinute, event
  <1>12. CASE UNCHANGED vars
    BY <1>12 DEF vars, event
  <1>13. QED
    BY <1>1, <1>2, <1>3, <1>4, <1>5, <1>6, <1>7, <1>8, <1>9, <1>10, <1>11, <1>12 DEF Next, IntegrationCheck

\* Announcements repeated by servers and leap files leave a pending event as
\* leap_second_schedule_event first stored it.
THEOREM PendingIsStable == Spec => PendingStable
  BY Invariance, StableStep, PTL DEF Spec, PendingStable

-----------------------------------------------------------------------------
(* The rest of the type invariant                                           *)

\* What the event does not depend on. leap_second_check_file goes on to schedule
\* only from a file with a direction.
RestType ==
    /\ mutex \in Mutexes({"main"})
    /\ scheduled \in BOOLEAN
    /\ dir \in Directions \cup {"none"}
    /\ file \in Directions \cup {"absent", "unusable"}
    /\ pc = "schedule" => file \in Directions

\* A correction may put the last look at the file into the future, but by no
\* more than a minute: the next correction is more than an interval away.
SinceInv ==
    /\ since \in (-MINUTE) .. CHECK
    /\ since < 0 /\ scheduled => since >= age - MINUTE

\* Lock and unlock by main keep the mutex a mutex.
LEMMA MutexTyped ==
    ASSUME NEW m \in Mutexes({"main"})
    PROVE  AfterLock(m, "main") \in Mutexes({"main"}) /\ AfterUnlock(m, "main") \in Mutexes({"main"})
  BY DEF Mutexes, AfterLock, AfterUnlock, FreeMutex

\* Scheduling keeps the flag a flag and the direction a direction.
LEMMA ScheduleTyped ==
    ASSUME RestType, NEW d \in Directions, Schedule(d)
    PROVE  scheduled' \in BOOLEAN /\ dir' \in Directions \cup {"none"}
  BY Zenon DEF RestType, Schedule, event

\* Every step keeps the mutex, the direction and the file.
LEMMA RestStep == RestType /\ [Next]_vars => RestType'
  <1> SUFFICES ASSUME RestType, [Next]_vars PROVE RestType'
    OBVIOUS
  <1>1. CASE CheckFileFound \/ Due
    BY <1>1, MutexTyped DEF CheckFileFound, Due, Lock, event, RestType
  <1>2. CASE CheckFileSchedule
    <2>1. scheduled' \in BOOLEAN /\ dir' \in Directions \cup {"none"}
      BY <1>2, ScheduleTyped DEF CheckFileSchedule, RestType
    <2> QED
      BY <1>2, <2>1, MutexTyped DEF CheckFileSchedule, Unlock, RestType
  <1>3. CASE ApplyCorrection
    <2>1. scheduled' \in BOOLEAN
      BY <1>3, Zenon DEF ApplyCorrection
    <2> QED
      BY <1>3, <2>1, MutexTyped DEF ApplyCorrection, Unlock, RestType
  <1>4. CASE Cleanup
    <2>1. scheduled' \in BOOLEAN
      BY <1>4, Zenon DEF Cleanup
    <2> QED
      BY <1>4, <2>1 DEF Cleanup, RestType
  <1>5. ASSUME NEW li \in Directions, HandleLeapIndicator(li) PROVE RestType'
    <2>1. scheduled' \in BOOLEAN /\ dir' \in Directions \cup {"none"}
      BY <1>5, ScheduleTyped DEF HandleLeapIndicator
    <2> QED
      BY <1>5, <2>1 DEF HandleLeapIndicator, RestType
  <1>6. CASE CheckFileTooEarly \/ CheckFileAbsent \/ CheckFileError \/ NotDue \/ Tick \/ UNCHANGED vars
    BY <1>6 DEF CheckFileTooEarly, CheckFileAbsent, CheckFileError, NotDue, Tick, event, vars, RestType
  <1> QED
    BY <1>1, <1>2, <1>3, <1>4, <1>5, <1>6 DEF Next, IntegrationCheck

\* Every step keeps the last look at the file within a minute of the present.
LEMMA SinceStep ==
    ASSUME EVENT >= MINUTE, IInv, SinceInv, [Next]_vars
    PROVE  SinceInv'
  <1> USE DEF IInv, EventType, WaitInv, SinceInv
  <1>1. CASE CheckFileTooEarly \/ CheckFileError \/ CheckFileFound \/ NotDue \/ Due
    BY <1>1 DEF CheckFileTooEarly, CheckFileError, CheckFileFound, NotDue, Due, event, vars
  <1>2. CASE CheckFileAbsent \/ CheckFileSchedule
    BY <1>2 DEF CheckFileAbsent, CheckFileSchedule
  <1>3. CASE ApplyCorrection
    <2>1. since >= 0
      BY <1>3 DEF ApplyCorrection
    <2> QED
      BY <1>3, <2>1 DEF ApplyCorrection, Offset, AtMost
  <1>4. CASE Cleanup
    BY <1>4 DEF Cleanup
  <1>5. CASE Tick
    BY <1>5 DEF Tick, AtMost
  <1>6. ASSUME NEW li \in Directions, HandleLeapIndicator(li) PROVE SinceInv'
    BY <1>6 DEF HandleLeapIndicator, Schedule, event
  <1>7. CASE UNCHANGED vars
    BY <1>7 DEF vars, event
  <1> QED
    BY <1>1, <1>2, <1>3, <1>4, <1>5, <1>6, <1>7 DEF Next, IntegrationCheck

\* Every variable of leap_second.c stays in its domain; last_check_time, which a
\* negative correction moves into the future, by a minute at most. The source
\* has EVENT = MINUTE = 60; with a shorter event interval corrections add up.
THEOREM TypeCorrect == ASSUME EVENT >= MINUTE PROVE Spec => []TypeOK
  <1>1. Init => RestType /\ SinceInv
    <2> SUFFICES ASSUME Init PROVE RestType /\ SinceInv
      OBVIOUS
    <2>1. scheduled \in BOOLEAN
      BY Zenon DEF Init
    <2> QED
      BY <2>1 DEF Init, RestType, SinceInv, Mutexes, FreeMutex
  <1>2. ASSUME IInv, SinceInv, [Next]_vars PROVE SinceInv'
    BY <1>2, SinceStep
  <1>3. IInv /\ RestType /\ SinceInv => TypeOK
    BY DEF IInv, EventType, RestType, SinceInv, TypeOK
  <1> QED
    BY <1>1, <1>2, <1>3, RestStep, Invariance, PTL DEF Spec

=============================================================================
