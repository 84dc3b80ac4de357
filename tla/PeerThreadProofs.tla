-------------------------- MODULE PeerThreadProofs --------------------------
(***************************************************************************)
(* For every number of contexts and every descriptor number: the types,    *)
(* and that the mutex protocol of threads.c keeps replies and the cleanup  *)
(* on the daemon's own socket, although cleanup_peer_thread does not wait  *)
(* for the thread.                                                         *)
(***************************************************************************)
EXTENDS PeerThread, TLAPS

USE PeerThreadAssumption

\* Main is still in start_peer_thread or before it.
Starting == pcM \in {"clock", "socket", "init", "create", "detach", "flags",
                     "startlock", "startset"}

\* Main is in the critical section of context i.
MainInside(i) == \/ pcM = "startset" /\ i = 0
                 \/ pcM \in {"close", "forget"} /\ slot = i

\* The peer thread is in its critical section.
PeerInside == pcT \in {"initset", "hvalid", "send", "hunlock"}

\* A thread inside holds the mutex or got EINVAL from a destroyed one; before
\* it is destroyed for the first time the descriptor has been forgotten.
MutexInv ==
    /\ PeerInside => sock_mutex[0] \in {"peer", "destroyed"}
    /\ \A i \in Slots : MainInside(i) => sock_mutex[i] \in {"main", "destroyed"}
    /\ sock_mutex[0] = "destroyed" => sock_fd[0] = NoFd
    /\ Starting => sock_mutex[0] # "destroyed" /\ started = "none"
    /\ pcM = "destroy" /\ slot = 0 => sock_fd[0] = NoFd
    /\ pcM \in {"clock", "socket", "init", "create"} => pcT = "none"

\* What the context of the thread can hold, and what that number refers to
\* until cleanup has closed it.
SocketInv ==
    /\ \A i \in Slots : i # 0 => sock_fd[i] \in {Stdin, NoFd}
    /\ pcM = "create" \/ pcT # "none" => sock_fd[0] # Stdin
    /\ started = "ok" => sock_fd[0] # Stdin
    /\ pcM = "failed" => started = "fail"
    /\ pcM \in {"init", "create", "detach", "flags", "startlock", "startset", "loop"}
          => fds[PeerSock] = "peer"
    /\ started # "fail" /\ sock_fd[0] = PeerSock /\ ~(pcM = "forget" /\ slot = 0)
          => fds[PeerSock] = "peer"
    /\ pcT = "send" => tfd = sock_fd[0]

IInv == TypeOK /\ MutexInv /\ SocketInv

-----------------------------------------------------------------------------
\* The descriptor numbers and the contexts in play.
LEMMA Domains ==
    /\ 0 \in Slots /\ Stdin \in Fds /\ PeerSock \in Fds
    /\ PeerSock # Stdin /\ PeerSock # NoFd /\ Stdin # NoFd
    /\ Slots \subseteq Nat /\ Fds \subseteq Nat
  BY DEF Slots, Fds, Stdin, NoFd

\* The index of the two cleanup loops stays in the pool.
LEMMA NextSlotInRange ==
    ASSUME slot \in Slots, NEW here, NEW after, NextSlot(here, after)
    PROVE  slot' \in Slots /\ pcM' \in {here, after}
  BY DEF NextSlot, Slots

\* Every action keeps the variables in their domains.
LEMMA TypeStep == TypeOK /\ [Next]_vars => TypeOK'
  <1> SUFFICES ASSUME TypeOK, [Next]_vars PROVE TypeOK'
    OBVIOUS
  <1> USE Domains
  <1>1. CASE SignalHandler
    BY <1>1 DEF SignalHandler, TypeOK, ctx, main, peer
  <1>2. CASE ReuseFd
    BY <1>2 DEF ReuseFd, TypeOK, ctx, main, peer
  <1>3. CASE LeaveMainLoop
    BY <1>3 DEF LeaveMainLoop, EnterCleanup, TypeOK, ctx, main, peer
  <1>4. CASE StartClock
    BY <1>4 DEF StartClock, EnterCleanup, TypeOK, ctx, main, peer
  <1>5. CASE CreateUdpSocket
    BY <1>5 DEF CreateUdpSocket, EnterCleanup, TypeOK, ctx, main, peer
  <1>6. CASE PeerThreadInit
    BY <1>6 DEF PeerThreadInit, TypeOK, ctx, main, peer
  <1>7. CASE CreateThread
    BY <1>7 DEF CreateThread, TypeOK, ctx, main, peer
  <1>8. CASE DetachThread
    BY <1>8 DEF DetachThread, TypeOK, ctx, main, peer
  <1>9. CASE StartSetRunning
    BY <1>9 DEF StartSetRunning, TypeOK, ctx, main, peer
  <1>10. CASE StartLock
    BY <1>10 DEF StartLock, Lock, TypeOK, ctx, main, peer
  <1>11. CASE StartSetSock
    BY <1>11 DEF StartSetSock, Unlock, TypeOK, ctx, main, peer
  <1>12. CASE CloseAfterFailedStart
    BY <1>12 DEF CloseAfterFailedStart, EnterCleanup, CloseFd, TypeOK, ctx, main, peer
  <1>13. CASE StopTest
    BY <1>13, NextSlotInRange DEF StopTest, TypeOK, ctx, main, peer
  <1>14. CASE StopClear
    BY <1>14 DEF StopClear, TypeOK, ctx, main, peer
  <1>15. CASE StopJoin
    BY <1>15, NextSlotInRange DEF StopJoin, TypeOK, ctx, main, peer
  <1>16. CASE CleanTest
    BY <1>16, NextSlotInRange DEF CleanTest, TypeOK, ctx, main, peer
  <1>17. CASE CleanLock
    BY <1>17 DEF CleanLock, Lock, TypeOK, ctx, main, peer
  <1>18. CASE CleanClose
    BY <1>18 DEF CleanClose, CloseFd, TypeOK, ctx, main, peer
  <1>19. CASE CleanForget
    BY <1>19 DEF CleanForget, Unlock, TypeOK, ctx, main, peer
  <1>20. CASE CleanDestroy
    BY <1>20, NextSlotInRange DEF CleanDestroy, TypeOK, ctx, main, peer
  <1>21. CASE EndCleanup
    BY <1>21 DEF EndCleanup, EnterCleanup, TypeOK, ctx, main, peer
  <1>22. CASE PeerSetRunning
    BY <1>22 DEF PeerSetRunning, Alive, TypeOK, ctx, main, peer
  <1>23. CASE PeerInitLock
    BY <1>23 DEF PeerInitLock, Lock, Alive, TypeOK, ctx, main, peer
  <1>24. CASE PeerInitSet
    BY <1>24 DEF PeerInitSet, Unlock, Alive, TypeOK, ctx, main, peer
  <1>25. CASE PeerTest
    BY <1>25 DEF PeerTest, Alive, TypeOK, ctx, main, peer
  <1>26. CASE PeerLoadFd
    BY <1>26 DEF PeerLoadFd, Alive, TypeOK, ctx, main, peer
  <1>27. CASE PeerRecv
    BY <1>27 DEF PeerRecv, Alive, TypeOK, ctx, main, peer
  <1>28. CASE HandleLock
    BY <1>28 DEF HandleLock, Lock, Alive, TypeOK, ctx, main, peer
  <1>29. CASE HandleValid
    BY <1>29 DEF HandleValid, Alive, TypeOK, ctx, main, peer
  <1>30. CASE HandleSend
    BY <1>30 DEF HandleSend, Alive, TypeOK, ctx, main, peer
  <1>31. CASE HandleUnlock
    BY <1>31 DEF HandleUnlock, Unlock, Alive, TypeOK, ctx, main, peer
  <1>32. CASE PeerClearValid
    BY <1>32 DEF PeerClearValid, Alive, TypeOK, ctx, main, peer
  <1>33. CASE PeerClearRunning
    BY <1>33 DEF PeerClearRunning, Alive, TypeOK, ctx, main, peer
  <1>34. CASE UNCHANGED vars
    BY <1>34 DEF vars, TypeOK, ctx, main, peer
  <1>35. QED
    BY <1>1, <1>2, <1>3, <1>4, <1>5, <1>6, <1>7, <1>8, <1>9, <1>10, <1>11, <1>12, <1>13, <1>14, <1>15, <1>16, <1>17, <1>18, <1>19, <1>20, <1>21, <1>22, <1>23, <1>24, <1>25, <1>26, <1>27, <1>28, <1>29, <1>30, <1>31, <1>32, <1>33, <1>34
       DEF Next, MainStart, MainStop, PeerStep, Exited

\* The initial state is well typed.
LEMMA TypeInit == Init => TypeOK
  <1> SUFFICES ASSUME Init PROVE TypeOK
    OBVIOUS
  <1>1. running \in [Slots -> BOOLEAN] /\ sock_valid \in [Slots -> BOOLEAN]
    BY DEF Init
  <1>2. sock_fd \in [Slots -> Fds \cup {NoFd}]
    BY Domains DEF Init, Stdin
  <1>3. /\ sock_mutex \in [Slots -> {"free", "main", "peer", "destroyed"}]
        /\ fds \in [Fds -> {"unused", "stdin", "peer", "closed", "other"}]
    BY DEF Init
  <1>4. shutdown \in BOOLEAN
    BY Zenon DEF Init
  <1>5. slot \in Slots /\ pass \in 0..2 /\ tfd \in Fds \cup {NoFd}
    BY Domains DEF Init
  <1>6. pcM = "clock" /\ started = "none" /\ pcT = "none"
    BY DEF Init
  <1>7. QED
    BY <1>1, <1>2, <1>3, <1>4, <1>5, <1>6, Zenon DEF TypeOK

\* threads.c and main.c keep every variable of the life cycle in its domain.
THEOREM TypeCorrect == Spec => []TypeOK
  BY TypeInit, TypeStep, PTL DEF Spec

\* The mutex protocol is inductive by itself.
LEMMA MutexStep == TypeOK /\ MutexInv /\ TypeOK' /\ [Next]_vars => MutexInv'
  <1> SUFFICES ASSUME TypeOK, MutexInv, TypeOK', [Next]_vars PROVE MutexInv'
    OBVIOUS
  <1> USE Domains DEF MutexInv, Starting, MainInside, PeerInside
  <1>1. CASE SignalHandler
    BY <1>1 DEF SignalHandler, TypeOK, ctx, main, peer
  <1>2. CASE ReuseFd
    BY <1>2 DEF ReuseFd, TypeOK, ctx, main, peer
  <1>3. CASE LeaveMainLoop
    BY <1>3 DEF LeaveMainLoop, EnterCleanup, TypeOK, ctx, main, peer
  <1>4. CASE StartClock
    BY <1>4 DEF StartClock, EnterCleanup, TypeOK, ctx, main, peer
  <1>5. CASE CreateUdpSocket
    BY <1>5 DEF CreateUdpSocket, EnterCleanup, TypeOK, ctx, main, peer
  <1>6. CASE PeerThreadInit
    BY <1>6 DEF PeerThreadInit, TypeOK, ctx, main, peer
  <1>7. CASE CreateThread
    BY <1>7 DEF CreateThread, TypeOK, ctx, main, peer
  <1>8. CASE DetachThread
    BY <1>8 DEF DetachThread, TypeOK, ctx, main, peer
  <1>9. CASE StartSetRunning
    BY <1>9 DEF StartSetRunning, TypeOK, ctx, main, peer
  <1>10. CASE StartLock
    BY <1>10 DEF StartLock, Lock, TypeOK, ctx, main, peer
  <1>11. CASE StartSetSock
    BY <1>11 DEF StartSetSock, Unlock, TypeOK, ctx, main, peer
  <1>12. CASE CloseAfterFailedStart
    BY <1>12 DEF CloseAfterFailedStart, EnterCleanup, CloseFd, TypeOK, ctx, main, peer
  <1>13. CASE StopTest
    BY <1>13 DEF StopTest, NextSlot, TypeOK, ctx, main, peer
  <1>14. CASE StopClear
    BY <1>14 DEF StopClear, TypeOK, ctx, main, peer
  <1>15. CASE StopJoin
    BY <1>15 DEF StopJoin, NextSlot, TypeOK, ctx, main, peer
  <1>16. CASE CleanTest
    BY <1>16 DEF CleanTest, NextSlot, TypeOK, ctx, main, peer
  <1>17. CASE CleanLock
    BY <1>17 DEF CleanLock, Lock, TypeOK, ctx, main, peer
  <1>18. CASE CleanClose
    BY <1>18 DEF CleanClose, CloseFd, TypeOK, ctx, main, peer
  <1>19. CASE CleanForget
    BY <1>19 DEF CleanForget, Unlock, TypeOK, ctx, main, peer
  <1>20. CASE CleanDestroy
    BY <1>20 DEF CleanDestroy, NextSlot, TypeOK, ctx, main, peer
  <1>21. CASE EndCleanup
    BY <1>21 DEF EndCleanup, EnterCleanup, TypeOK, ctx, main, peer
  <1>22. CASE PeerSetRunning
    BY <1>22 DEF PeerSetRunning, Alive, TypeOK, ctx, main, peer
  <1>23. CASE PeerInitLock
    BY <1>23 DEF PeerInitLock, Lock, Alive, TypeOK, ctx, main, peer
  <1>24. CASE PeerInitSet
    BY <1>24 DEF PeerInitSet, Unlock, Alive, TypeOK, ctx, main, peer
  <1>25. CASE PeerTest
    BY <1>25 DEF PeerTest, Alive, TypeOK, ctx, main, peer
  <1>26. CASE PeerLoadFd
    BY <1>26 DEF PeerLoadFd, Alive, TypeOK, ctx, main, peer
  <1>27. CASE PeerRecv
    BY <1>27 DEF PeerRecv, Alive, TypeOK, ctx, main, peer
  <1>28. CASE HandleLock
    BY <1>28 DEF HandleLock, Lock, Alive, TypeOK, ctx, main, peer
  <1>29. CASE HandleValid
    BY <1>29 DEF HandleValid, Alive, TypeOK, ctx, main, peer
  <1>30. CASE HandleSend
    BY <1>30 DEF HandleSend, Alive, TypeOK, ctx, main, peer
  <1>31. CASE HandleUnlock
    BY <1>31 DEF HandleUnlock, Unlock, Alive, TypeOK, ctx, main, peer
  <1>32. CASE PeerClearValid
    BY <1>32 DEF PeerClearValid, Alive, TypeOK, ctx, main, peer
  <1>33. CASE PeerClearRunning
    BY <1>33 DEF PeerClearRunning, Alive, TypeOK, ctx, main, peer
  <1>34. CASE UNCHANGED vars
    BY <1>34 DEF vars, ctx, main, peer
  <1>35. QED
    BY <1>1, <1>2, <1>3, <1>4, <1>5, <1>6, <1>7, <1>8, <1>9, <1>10, <1>11, <1>12, <1>13, <1>14, <1>15, <1>16, <1>17, <1>18, <1>19, <1>20, <1>21, <1>22, <1>23, <1>24, <1>25, <1>26, <1>27, <1>28, <1>29, <1>30, <1>31, <1>32, <1>33, <1>34
       DEF Next, MainStart, MainStop, PeerStep, Exited

\* With it, the descriptor of the context stays the open socket.
LEMMA SocketStep == TypeOK /\ MutexInv /\ SocketInv /\ TypeOK' /\ [Next]_vars => SocketInv'
  <1> SUFFICES ASSUME TypeOK, MutexInv, SocketInv, TypeOK', [Next]_vars PROVE SocketInv'
    OBVIOUS
  <1> USE Domains DEF SocketInv, MutexInv, Starting, MainInside, PeerInside
  <1>1. CASE SignalHandler
    BY <1>1 DEF SignalHandler, TypeOK, ctx, main, peer
  <1>2. CASE ReuseFd
    BY <1>2 DEF ReuseFd, TypeOK, ctx, main, peer
  <1>3. CASE LeaveMainLoop
    BY <1>3 DEF LeaveMainLoop, EnterCleanup, TypeOK, ctx, main, peer
  <1>4. CASE StartClock
    BY <1>4 DEF StartClock, EnterCleanup, TypeOK, ctx, main, peer
  <1>5. CASE CreateUdpSocket
    BY <1>5 DEF CreateUdpSocket, EnterCleanup, TypeOK, ctx, main, peer
  <1>6. CASE PeerThreadInit
    BY <1>6 DEF PeerThreadInit, TypeOK, ctx, main, peer
  <1>7. CASE CreateThread
    BY <1>7 DEF CreateThread, TypeOK, ctx, main, peer
  <1>8. CASE DetachThread
    BY <1>8 DEF DetachThread, TypeOK, ctx, main, peer
  <1>9. CASE StartSetRunning
    BY <1>9 DEF StartSetRunning, TypeOK, ctx, main, peer
  <1>10. CASE StartLock
    BY <1>10 DEF StartLock, Lock, TypeOK, ctx, main, peer
  <1>11. CASE StartSetSock
    BY <1>11 DEF StartSetSock, Unlock, TypeOK, ctx, main, peer
  <1>12. CASE CloseAfterFailedStart
    BY <1>12 DEF CloseAfterFailedStart, EnterCleanup, CloseFd, TypeOK, ctx, main, peer
  <1>13. CASE StopTest
    BY <1>13 DEF StopTest, NextSlot, TypeOK, ctx, main, peer
  <1>14. CASE StopClear
    BY <1>14 DEF StopClear, TypeOK, ctx, main, peer
  <1>15. CASE StopJoin
    BY <1>15 DEF StopJoin, NextSlot, TypeOK, ctx, main, peer
  <1>16. CASE CleanTest
    BY <1>16 DEF CleanTest, NextSlot, TypeOK, ctx, main, peer
  <1>17. CASE CleanLock
    BY <1>17 DEF CleanLock, Lock, TypeOK, ctx, main, peer
  <1>18. CASE CleanClose
    BY <1>18 DEF CleanClose, CloseFd, TypeOK, ctx, main, peer
  <1>19. CASE CleanForget
    BY <1>19 DEF CleanForget, Unlock, TypeOK, ctx, main, peer
  <1>20. CASE CleanDestroy
    BY <1>20 DEF CleanDestroy, NextSlot, TypeOK, ctx, main, peer
  <1>21. CASE EndCleanup
    BY <1>21 DEF EndCleanup, EnterCleanup, TypeOK, ctx, main, peer
  <1>22. CASE PeerSetRunning
    BY <1>22 DEF PeerSetRunning, Alive, TypeOK, ctx, main, peer
  <1>23. CASE PeerInitLock
    BY <1>23 DEF PeerInitLock, Lock, Alive, TypeOK, ctx, main, peer
  <1>24. CASE PeerInitSet
    BY <1>24 DEF PeerInitSet, Unlock, Alive, TypeOK, ctx, main, peer
  <1>25. CASE PeerTest
    BY <1>25 DEF PeerTest, Alive, TypeOK, ctx, main, peer
  <1>26. CASE PeerLoadFd
    BY <1>26 DEF PeerLoadFd, Alive, TypeOK, ctx, main, peer
  <1>27. CASE PeerRecv
    BY <1>27 DEF PeerRecv, Alive, TypeOK, ctx, main, peer
  <1>28. CASE HandleLock
    BY <1>28 DEF HandleLock, Lock, Alive, TypeOK, ctx, main, peer
  <1>29. CASE HandleValid
    BY <1>29 DEF HandleValid, Alive, TypeOK, ctx, main, peer
  <1>30. CASE HandleSend
    BY <1>30 DEF HandleSend, Alive, TypeOK, ctx, main, peer
  <1>31. CASE HandleUnlock
    BY <1>31 DEF HandleUnlock, Unlock, Alive, TypeOK, ctx, main, peer
  <1>32. CASE PeerClearValid
    BY <1>32 DEF PeerClearValid, Alive, TypeOK, ctx, main, peer
  <1>33. CASE PeerClearRunning
    BY <1>33 DEF PeerClearRunning, Alive, TypeOK, ctx, main, peer
  <1>34. CASE UNCHANGED vars
    BY <1>34 DEF vars, ctx, main, peer
  <1>35. QED
    BY <1>1, <1>2, <1>3, <1>4, <1>5, <1>6, <1>7, <1>8, <1>9, <1>10, <1>11, <1>12, <1>13, <1>14, <1>15, <1>16, <1>17, <1>18, <1>19, <1>20, <1>21, <1>22, <1>23, <1>24, <1>25, <1>26, <1>27, <1>28, <1>29, <1>30, <1>31, <1>32, <1>33, <1>34
       DEF Next, MainStart, MainStop, PeerStep, Exited

\* The inductive invariant.
THEOREM Invariance == Spec => []IInv
  <1>1. Init => IInv
    <2> SUFFICES ASSUME Init PROVE IInv
      OBVIOUS
    <2>1. TypeOK
      BY TypeInit
    <2>2. MutexInv
      BY Domains DEF Init, MutexInv, Starting, MainInside, PeerInside
    <2>3. SocketInv
      BY Domains DEF Init, SocketInv, Stdin
    <2>4. QED
      BY <2>1, <2>2, <2>3 DEF IInv
  <1>2. IInv /\ [Next]_vars => IInv'
    BY TypeStep, MutexStep, SocketStep DEF IInv
  <1>3. QED
    BY <1>1, <1>2, PTL DEF Spec

\* handle_peer_request never sends through a descriptor number that is not
\* the daemon's own socket any more.
THEOREM SendSafe == Spec => []SendUsesOwnSocket
  <1>1. IInv => SendUsesOwnSocket
    <2> SUFFICES ASSUME IInv, pcT = "send", started # "fail"
                 PROVE  tfd = NoFd \/ fds[tfd] = "peer"
      BY DEF SendUsesOwnSocket
    <2>1. tfd = sock_fd[0] /\ sock_fd[0] # Stdin /\ tfd \in Fds \cup {NoFd}
      BY DEF IInv, SocketInv, TypeOK
    <2>2. CASE tfd = PeerSock
      <3>1. ~(pcM = "forget" /\ slot = 0)
        BY <2>1, <2>2, Domains DEF IInv, MutexInv, MainInside, PeerInside
      <3>2. QED
        BY <3>1, <2>1, <2>2 DEF IInv, SocketInv
    <2>3. QED
      BY <2>1, <2>2 DEF Fds
  <1>2. QED
    BY <1>1, Invariance, PTL

\* cleanup_peer_thread closes only the daemon's own socket, once.
THEOREM CloseSafe == Spec => []CloseOwnSocket
  <1>1. IInv => CloseOwnSocket
    <2> SUFFICES ASSUME IInv, pcM = "close", slot = 0, started = "ok"
                 PROVE  sock_fd[0] = NoFd \/ fds[sock_fd[0]] = "peer"
      BY DEF CloseOwnSocket
    <2>1. sock_fd[0] \in {PeerSock, NoFd}
      BY Domains DEF IInv, SocketInv, TypeOK, Fds
    <2>2. QED
      BY <2>1 DEF IInv, SocketInv
  <1>2. QED
    BY <1>1, Invariance, PTL

=============================================================================
