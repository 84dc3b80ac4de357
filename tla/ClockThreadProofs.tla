------------------------- MODULE ClockThreadProofs --------------------------
(***************************************************************************)
(* Proofs about ClockThread for every epoch distance, panic threshold and  *)
(* clock bound, and whatever the destroyed mutex does.                     *)
(***************************************************************************)
EXTENDS ClockThread, TLAPS

\* What the times satisfy: readings since 1970, and since 1900 once an exchange
\* has succeeded.
TimesInv ==
    /\ clock \in 0 .. MaxClock
    /\ sync = 0 \/ sync \in DELTA .. (DELTA + MaxClock)
    /\ now \in 0 .. MaxClock
    /\ off \in Int

\* What the stop relies on: the flag is set once, by a thread that has not
\* begun, and a correction counted after the stop is the thread's last.
StopInv ==
    /\ extra \in {0, 1}
    /\ pcM = "start" => pcC = "none"
    /\ pcC \in {"none", "new", "flag"} => extra = 0 /\ ~running
    /\ running => extra = 0
    /\ extra = 1 => pcC \in {"test", "publish", "unlock", "wait", "waiting", "woken", "done"}

IInv == TimesInv /\ StopInv

\* The initial states satisfy the invariant.
LEMMA InitInv == Init => IInv
BY ClockAssumption DEF Init, IInv, TimesInv, StopInv

\* Every step of the daemon preserves what the times satisfy.
LEMMA TimesStep == TimesInv /\ [Next]_vars => TimesInv'
<1> USE ClockAssumption DEF TimesInv
<1> SUFFICES ASSUME TimesInv, [Next]_vars PROVE TimesInv'
    OBVIOUS
<1>1. CASE MainStep
      BY <1>1 DEF MainStep, StartClock, LeaveLoop, StopTest, StopClear, StopSignal, Cleanup,
                  times, result
<1>2. CASE ClockBegin \/ ClockFlag \/ ClockTest \/ ClockUnlock \/ ClockWait \/ ClockTimeout \/ ClockWoken
      BY <1>2 DEF ClockBegin, ClockFlag, ClockTest, ClockUnlock, ClockWait, ClockTimeout, ClockWoken,
                  At, times, result
<1>3. CASE ClockTime
      BY <1>3 DEF ClockTime, At, times
<1>4. CASE ClockOffset
      BY <1>4 DEF ClockOffset, times
<1>5. CASE ClockApply
      BY <1>5 DEF ClockApply, At, result
<1>6. CASE ClockPublish
      BY <1>6 DEF ClockPublish, At, times
<1>7. CASE SignalHandler \/ Exchange \/ QuitAfterSync \/ Tick
      BY <1>7 DEF SignalHandler, Exchange, QuitAfterSync, Tick, main, times, result
<1>8. CASE Exited \/ UNCHANGED vars
      BY <1>8 DEF Exited, vars, times, result
<1> QED BY <1>1, <1>2, <1>3, <1>4, <1>5, <1>6, <1>7, <1>8 DEF Next, ClockStep

\* Every step of the daemon preserves what the stop relies on.
LEMMA StopStep == StopInv /\ [Next]_vars => StopInv'
<1> USE DEF StopInv
<1> SUFFICES ASSUME StopInv, [Next]_vars PROVE StopInv'
    OBVIOUS
<1>1. CASE StartClock
      BY <1>1 DEF StartClock
<1>2. CASE LeaveLoop \/ StopTest \/ StopClear \/ Cleanup
      BY <1>2 DEF LeaveLoop, StopTest, StopClear, Cleanup
<1>3. CASE StopSignal
      BY <1>3 DEF StopSignal
<1>4. CASE ClockBegin \/ ClockFlag \/ ClockTest \/ ClockTime \/ ClockOffset
      BY <1>4 DEF ClockBegin, ClockFlag, ClockTest, ClockTime, ClockOffset, At, main
<1>5. CASE ClockApply
      BY <1>5 DEF ClockApply, At, main
<1>6. CASE ClockPublish \/ ClockUnlock \/ ClockWait \/ ClockTimeout \/ ClockWoken
      BY <1>6 DEF ClockPublish, ClockUnlock, ClockWait, ClockTimeout, ClockWoken, At, main
<1>7. CASE SignalHandler \/ Exchange \/ QuitAfterSync \/ Tick
      BY <1>7 DEF SignalHandler, Exchange, QuitAfterSync, Tick, main
<1>8. CASE Exited \/ UNCHANGED vars
      BY <1>8 DEF Exited, vars, main
<1> QED BY <1>1, <1>2, <1>3, <1>4, <1>5, <1>6, <1>7, <1>8 DEF Next, MainStep, ClockStep

\* The invariant holds in every state of the daemon.
THEOREM Invariance == Spec => []IInv
<1>1. IInv /\ [Next]_vars => IInv'
      BY TimesStep, StopStep DEF IInv
<1> QED BY InitInv, <1>1, PTL DEF Spec

\* After stop_clock_thread has cleared the flag at most one correction follows.
THEOREM StopSticks == Spec => []AtMostOneMore
<1>1. IInv => AtMostOneMore
      BY DEF IInv, StopInv, AtMostOneMore
<1> QED BY Invariance, <1>1, PTL

\* The flags are flags, and the threads are at places they have.
PlacesType ==
    /\ ub \in {"einval", "works"}
    /\ servers \in BOOLEAN /\ running \in BOOLEAN /\ shutdown \in BOOLEAN /\ twice \in BOOLEAN
    /\ holder \in {Nobody, "clock"}
    /\ pcM \in {"start", "loop", "stop", "clear", "signal", "cleanup", "exited"}
    /\ pcC \in {"none", "new", "flag", "test", "time", "sync", "apply", "publish", "unlock", "wait",
               "waiting", "woken", "done"}

\* Every step of the daemon keeps the flags and the places.
LEMMA PlacesStep == PlacesType /\ [Next]_vars => PlacesType'
<1> SUFFICES ASSUME PlacesType, [Next]_vars PROVE PlacesType'
    OBVIOUS
<1> USE DEF PlacesType, main
<1>1. CASE StartClock
      <2>1. twice' \in BOOLEAN
            BY <1>1, Zenon DEF StartClock
      <2> QED BY <1>1, <2>1 DEF StartClock
<1>2. CASE LeaveLoop \/ StopTest
      BY <1>2 DEF LeaveLoop, StopTest
<1>3. CASE StopClear
      <2>1. running' \in BOOLEAN
            BY <1>3, Zenon DEF StopClear
      <2> QED BY <1>3, <2>1 DEF StopClear
<1>4. CASE StopSignal
      BY <1>4 DEF StopSignal
<1>5. CASE Cleanup
      <2>1. servers' \in BOOLEAN /\ twice' \in BOOLEAN
            BY <1>5, Zenon DEF Cleanup
      <2> QED BY <1>5, <2>1 DEF Cleanup
<1>6. CASE SignalHandler
      <2>1. shutdown' \in BOOLEAN
            BY <1>6, Zenon DEF SignalHandler
      <2> QED BY <1>6, <2>1 DEF SignalHandler
<1>7. CASE ClockBegin
      <2>1. running' \in BOOLEAN
            BY <1>7, Zenon DEF ClockBegin
      <2> QED BY <1>7, <2>1 DEF ClockBegin
<1>8. CASE ClockFlag
      <2>1. running' \in BOOLEAN
            BY <1>8, Zenon DEF ClockFlag
      <2> QED BY <1>8, <2>1 DEF ClockFlag
<1>9. CASE ClockTest \/ ClockTime \/ ClockOffset \/ ClockApply
      BY <1>9 DEF ClockTest, ClockTime, ClockOffset, ClockApply
<1>10. CASE ClockPublish \/ ClockUnlock
      BY <1>10 DEF ClockPublish, ClockUnlock, Take, Release
<1>11. CASE ClockWait \/ ClockTimeout \/ ClockWoken
      BY <1>11 DEF ClockWait, ClockTimeout, ClockWoken
<1>12. CASE Exchange \/ QuitAfterSync \/ Tick
      BY <1>12 DEF Exchange, QuitAfterSync, Tick
<1>13. CASE Exited \/ UNCHANGED vars
      BY <1>13 DEF Exited, vars
<1> QED BY <1>1, <1>2, <1>3, <1>4, <1>5, <1>6, <1>7, <1>8, <1>9, <1>10, <1>11, <1>12, <1>13
        DEF Next, MainStep, ClockStep

\* Every variable of the clock thread and of its stop stays in its domain,
\* whatever the destroyed mutex does.
THEOREM TypeCorrect == Spec => []TypeOK
<1>1. Init => PlacesType
      BY Zenon DEF Init, PlacesType
<1>2. IInv /\ PlacesType => TypeOK
      BY DEF IInv, TimesInv, StopInv, PlacesType, TypeOK
<1> QED BY Invariance, PlacesStep, <1>1, <1>2, PTL DEF Spec
=============================================================================
