---------------------------- MODULE PthreadMutex ----------------------------
(***************************************************************************)
(* A statically initialised pthread mutex, as the daemon's g_mutex,        *)
(* g_mode_mutex and g_leap_second_mutex are (external: POSIX threads).     *)
(*                                                                         *)
(* POSIX leaves a relock of a default mutex by its owner, and an unlock by *)
(* a thread that does not own it, undefined, and lets the implementation   *)
(* map the default type to any other. Kind is that choice:                 *)
(*   normal      the relock blocks for ever and an unlock frees the mutex  *)
(*               whoever holds it (glibc, musl);                           *)
(*   errorcheck  the relock and the foreign unlock return an error, which  *)
(*               no caller in the daemon looks at (FreeBSD);               *)
(*   recursive   the relock counts, the foreign unlock returns an error.   *)
(***************************************************************************)
EXTENDS Naturals

CONSTANT Kind

ASSUME KindAssumption == Kind \in {"normal", "errorcheck", "recursive"}

NoThread  == "nobody"
FreeMutex == [owner |-> NoThread, depth |-> 0]

Mutexes(threads) == [owner : threads \cup {NoThread}, depth : Nat]

\* pthread_mutex_lock by t returns.
CanLock(m, t) == \/ m.owner = NoThread
                 \/ m.owner = t /\ Kind # "normal"

AfterLock(m, t) ==
    IF m.owner = NoThread THEN [owner |-> t, depth |-> 1]
    ELSE IF Kind = "recursive" THEN [m EXCEPT !.depth = @ + 1]
    ELSE m

\* pthread_mutex_unlock by t never blocks.
AfterUnlock(m, t) ==
    IF Kind = "normal" THEN FreeMutex
    ELSE IF m.owner # t THEN m
    ELSE IF Kind = "recursive" /\ m.depth > 1 THEN [m EXCEPT !.depth = @ - 1]
    ELSE FreeMutex

=============================================================================
