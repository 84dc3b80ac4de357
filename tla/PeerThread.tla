----------------------------- MODULE PeerThread -----------------------------
(***************************************************************************)
(* Life cycle of the peer thread of dntpd (threads.c, main.c): the main    *)
(* thread creates the UDP socket and the thread, runs the synchronisation  *)
(* loop until a signal arrives, and then stops the thread, closes the      *)
(* socket and destroys the mutex while the thread, which it cannot join    *)
(* because it is detached, may still be anywhere in its receive loop.      *)
(*                                                                         *)
(* One step of the model is one access to shared state: an atomic flag, a  *)
(* lock or unlock of g_peer_ctx[i].sock_mutex, one read of sock_fd, one    *)
(* system call on a descriptor.                                            *)
(***************************************************************************)
EXTENDS Integers

CONSTANTS PoolCount,  \* g_peer_pool_count: contexts that stop and cleanup walk over
          PeerSock,   \* descriptor number create_udp_socket obtains from the kernel
          QuitAfterSync  \* g_cli.quit_after_sync: leave after one round

\* main starts the pool with at least one configured server; 0 is stdin.
ASSUME PeerThreadAssumption == /\ PoolCount \in Nat \ {0}
                               /\ PeerSock \in Nat \ {0}
                               /\ QuitAfterSync \in BOOLEAN

Slots == 0 .. (PoolCount - 1)
Stdin == 0
NoFd  == -1
Fds   == {Stdin, PeerSock}

VARIABLES running,     \* g_peer_threads_running[i] (atomic_bool)
          sock_valid,  \* g_peer_ctx[i].sock_valid (atomic_bool)
          sock_fd,     \* g_peer_ctx[i].sock_fd
          sock_mutex,  \* g_peer_ctx[i].sock_mutex: free, its owner, or destroyed
          fds,         \* what each descriptor number refers to in the kernel
          shutdown,    \* g_shutdown_requested
          pcM,         \* where the main thread is
          slot,        \* loop variable of stop_peer_thread and cleanup_peer_thread
          pass,        \* 1: the explicit cleanup_resources(), 2: the one of atexit
          started,     \* result of start_peer_thread: none, ok or fail
          pcT,         \* where the peer thread is
          tfd          \* descriptor the peer thread has loaded for its next call

ctx  == <<running, sock_valid, sock_fd, sock_mutex>>
main == <<pcM, slot, pass, started>>
peer == <<pcT, tfd>>
vars == <<ctx, fds, shutdown, main, peer>>

-----------------------------------------------------------------------------
(* pthread mutex and descriptors, as the code uses them (external)          *)

\* A destroyed glibc mutex does not block: pthread_mutex_lock returns EINVAL,
\* which no caller in threads.c looks at, and the critical section runs anyway.
Lock(who, i) ==
    \/ /\ sock_mutex[i] = "free"
       /\ sock_mutex' = [sock_mutex EXCEPT ![i] = who]
    \/ /\ sock_mutex[i] = "destroyed"
       /\ UNCHANGED sock_mutex

Unlock(who, i) ==
    sock_mutex' = [sock_mutex EXCEPT ![i] = IF @ = who THEN "free" ELSE @]

\* close(fd): the number becomes available to every later open of the process.
CloseFd(fd) == fds' = [f \in Fds |-> IF f = fd THEN "closed" ELSE fds[f]]

\* Another open of the process (syslog reconnecting, a file, an accepted
\* connection) is given the lowest free number, which a close has freed.
ReuseFd ==
    /\ pcM # "exited"
    /\ \E f \in Fds : /\ fds[f] = "closed"
                      /\ fds' = [fds EXCEPT ![f] = "other"]
    /\ UNCHANGED <<ctx, shutdown, main, peer>>

-----------------------------------------------------------------------------
(* main thread: start-up                                                    *)

\* signal_handler: SIGINT, SIGTERM or SIGALRM at any moment.
SignalHandler ==
    /\ pcM # "exited"
    /\ ~shutdown
    /\ shutdown' = TRUE
    /\ UNCHANGED <<ctx, fds, main, peer>>

\* cleanup_resources begins: the explicit call (n = 1) or the atexit one (n = 2).
EnterCleanup(n) == pcM' = "stop" /\ slot' = 0 /\ pass' = n

\* start_clock_thread failed: clean up explicitly, then return from main.
StartClock ==
    /\ pcM = "clock"
    /\ \/ pcM' = "socket" /\ UNCHANGED <<slot, pass>>
       \/ EnterCleanup(1)
    /\ UNCHANGED <<ctx, fds, shutdown, started, peer>>

\* create_udp_socket(NTP_PORT) and its failure path.
CreateUdpSocket ==
    /\ pcM = "socket"
    /\ \/ /\ fds' = [fds EXCEPT ![PeerSock] = "peer"]
          /\ pcM' = "init"
          /\ UNCHANGED <<slot, pass>>
       \/ EnterCleanup(1) /\ UNCHANGED fds
    /\ UNCHANGED <<ctx, shutdown, started, peer>>

\* peer_thread_init: wipe the context, store the socket, initialise the mutex.
\* A context whose pthread_mutex_init failed keeps the zeroed mutex, which
\* glibc takes for a free one.
PeerThreadInit ==
    /\ pcM = "init"
    /\ sock_fd' = [sock_fd EXCEPT ![0] = PeerSock]
    /\ sock_valid' = [sock_valid EXCEPT ![0] = FALSE]
    /\ sock_mutex' = [sock_mutex EXCEPT ![0] = "free"]
    /\ \/ pcM' = "create" /\ UNCHANGED started
       \/ pcM' = "failed" /\ started' = "fail"
    /\ UNCHANGED <<running, fds, shutdown, slot, pass, peer>>

\* pthread_create: from here on the thread may run at any speed.
CreateThread ==
    /\ pcM = "create"
    /\ \/ pcM' = "detach" /\ pcT' = "begin" /\ UNCHANGED started
       \/ pcM' = "failed" /\ started' = "fail" /\ UNCHANGED pcT
    /\ UNCHANGED <<ctx, fds, shutdown, slot, pass, tfd>>

\* pthread_detach; its error return leaves the created thread running.
DetachThread ==
    /\ pcM = "detach"
    /\ \/ pcM' = "flags" /\ UNCHANGED started
       \/ pcM' = "failed" /\ started' = "fail"
    /\ UNCHANGED <<ctx, fds, shutdown, slot, pass, peer>>

\* The tail of start_peer_thread repeats the thread's own stores.
StartSetRunning ==
    /\ pcM = "flags"
    /\ running' = [running EXCEPT ![0] = TRUE]
    /\ pcM' = "startlock"
    /\ UNCHANGED <<sock_valid, sock_fd, sock_mutex, fds, shutdown, slot, pass, started, peer>>

StartLock ==
    /\ pcM = "startlock"
    /\ Lock("main", 0)
    /\ pcM' = "startset"
    /\ UNCHANGED <<running, sock_valid, sock_fd, fds, shutdown, slot, pass, started, peer>>

StartSetSock ==
    /\ pcM = "startset"
    /\ sock_valid' = [sock_valid EXCEPT ![0] = TRUE]
    /\ sock_fd' = [sock_fd EXCEPT ![0] = PeerSock]
    /\ Unlock("main", 0)
    /\ started' = "ok"
    /\ pcM' = "loop"
    /\ UNCHANGED <<running, fds, shutdown, slot, pass, peer>>

\* main's answer to a failed start_peer_thread: close_socket, then clean up.
CloseAfterFailedStart ==
    /\ pcM = "failed"
    /\ CloseFd(PeerSock)
    /\ EnterCleanup(1)
    /\ UNCHANGED <<ctx, shutdown, started, peer>>

\* The synchronisation loop ends at a signal, or after one round with
\* quit_after_sync; atexit then runs cleanup_resources.
LeaveMainLoop ==
    /\ pcM = "loop"
    /\ shutdown \/ QuitAfterSync
    /\ EnterCleanup(2)
    /\ UNCHANGED <<ctx, fds, shutdown, started, peer>>

-----------------------------------------------------------------------------
(* main thread: stop_peer_thread and cleanup_peer_thread                    *)

\* Mutant of NextSlot: the loop bound is off by one.
NextSlotPastEnd(here, after) ==
    IF slot + 1 <= PoolCount THEN pcM' = here /\ slot' = slot + 1
                             ELSE pcM' = after /\ slot' = 0

\* Next context of the loop at pc "here", or on to "after" when all are done.
NextSlot(here, after) ==
    IF slot + 1 < PoolCount THEN pcM' = here /\ slot' = slot + 1
                            ELSE pcM' = after /\ slot' = 0

StopTest ==
    /\ pcM = "stop"
    /\ IF running[slot] THEN pcM' = "clear" /\ UNCHANGED slot
                        ELSE NextSlot("stop", "clean")
    /\ UNCHANGED <<ctx, fds, shutdown, pass, started, peer>>

StopClear ==
    /\ pcM = "clear"
    /\ running' = [running EXCEPT ![slot] = FALSE]
    /\ pcM' = "join"
    /\ UNCHANGED <<sock_valid, sock_fd, sock_mutex, fds, shutdown, slot, pass, started, peer>>

\* pthread_join of a detached thread is undefined; glibc returns EINVAL at
\* once, whether or not the thread has ended, and the code only logs it.
StopJoin ==
    /\ pcM = "join"
    /\ NextSlot("stop", "clean")
    /\ UNCHANGED <<ctx, fds, shutdown, pass, started, peer>>

\* A context whose thread still reports running is skipped.
CleanTest ==
    /\ pcM = "clean"
    /\ IF running[slot]
         THEN /\ NextSlot("clean", "end")
         ELSE /\ pcM' = "cleanlock"
              /\ UNCHANGED slot
    /\ UNCHANGED <<ctx, fds, shutdown, pass, started, peer>>

CleanLock ==
    /\ pcM = "cleanlock"
    /\ Lock("main", slot)
    /\ pcM' = "close"
    /\ UNCHANGED <<running, sock_valid, sock_fd, fds, shutdown, slot, pass, started, peer>>

\* Mutant of CleanClose: close is called again when it reports EINTR.
CleanCloseRetried ==
    /\ pcM = "close"
    /\ IF sock_fd[slot] >= 0 THEN CloseFd(sock_fd[slot]) ELSE UNCHANGED fds
    /\ pcM' \in {"close", "forget"}
    /\ UNCHANGED <<ctx, shutdown, slot, pass, started, peer>>

CleanClose ==
    /\ pcM = "close"
    /\ IF sock_fd[slot] >= 0 THEN CloseFd(sock_fd[slot]) ELSE UNCHANGED fds
    /\ pcM' = "forget"
    /\ UNCHANGED <<ctx, shutdown, slot, pass, started, peer>>

\* Mutant of CleanForget: the closed descriptor stays in the context.
CleanForgetKeepsFd ==
    /\ pcM = "forget"
    /\ Unlock("main", slot)
    /\ pcM' = "destroy"
    /\ UNCHANGED <<running, sock_valid, sock_fd, fds, shutdown, slot, pass, started, peer>>

CleanForget ==
    /\ pcM = "forget"
    /\ sock_fd' = [sock_fd EXCEPT ![slot] = NoFd]
    /\ Unlock("main", slot)
    /\ pcM' = "destroy"
    /\ UNCHANGED <<running, sock_valid, fds, shutdown, slot, pass, started, peer>>

\* pthread_mutex_destroy reports EBUSY for a mutex the thread holds.
CleanDestroy ==
    /\ pcM = "destroy"
    /\ sock_mutex' = [sock_mutex EXCEPT ![slot] = IF @ = "peer" THEN @ ELSE "destroyed"]
    /\ NextSlot("clean", "end")
    /\ UNCHANGED <<running, sock_valid, sock_fd, fds, shutdown, pass, started, peer>>

\* After an explicit cleanup_resources the return from main runs it again.
EndCleanup ==
    /\ pcM = "end"
    /\ \/ pass = 1 /\ EnterCleanup(2)
       \/ pass = 2 /\ pcM' = "exited" /\ UNCHANGED <<slot, pass>>
    /\ UNCHANGED <<ctx, fds, shutdown, started, peer>>

-----------------------------------------------------------------------------
(* peer thread: peer_thread_main and handle_peer_request, context 0         *)

\* The threads of a process that has exited take no further step.
Alive(pc) == pcM # "exited" /\ pcT = pc

PeerSetRunning ==
    /\ Alive("begin")
    /\ running' = [running EXCEPT ![0] = TRUE]
    /\ pcT' = "initlock"
    /\ UNCHANGED <<sock_valid, sock_fd, sock_mutex, fds, shutdown, main, tfd>>

PeerInitLock ==
    /\ Alive("initlock")
    /\ Lock("peer", 0)
    /\ pcT' = "initset"
    /\ UNCHANGED <<running, sock_valid, sock_fd, fds, shutdown, main, tfd>>

\* The stores of sock_fd and peer_state copy a field of the context to itself.
PeerInitSet ==
    /\ Alive("initset")
    /\ sock_valid' = [sock_valid EXCEPT ![0] = TRUE]
    /\ Unlock("peer", 0)
    /\ pcT' = "test"
    /\ UNCHANGED <<running, sock_fd, fds, shutdown, main, tfd>>

PeerTest ==
    /\ Alive("test")
    /\ pcT' = IF running[0] THEN "load" ELSE "fin"
    /\ UNCHANGED <<ctx, fds, shutdown, main, tfd>>

\* ctx->sock_fd is read without the mutex.
PeerLoadFd ==
    /\ Alive("load")
    /\ tfd' = sock_fd[0]
    /\ pcT' = "recv"
    /\ UNCHANGED <<ctx, fds, shutdown, main>>

\* recvfrom(MSG_DONTWAIT): nothing there, or a datagram that
\* handle_peer_request drops (too short, unparsable, not mode 3) before its
\* lock: back to the test; a client request: on to its lock; an error: leave
\* the loop. A closed descriptor gives the error; a number that now belongs to
\* another socket yields that socket's data.
PeerRecv ==
    /\ Alive("recv")
    /\ \/ /\ tfd \in Fds
          /\ fds[tfd] \in {"peer", "other"}
          /\ pcT' \in {"test", "hlock"}
       \/ pcT' = "fin"
    /\ UNCHANGED <<ctx, fds, shutdown, main, tfd>>

HandleLock ==
    /\ Alive("hlock")
    /\ Lock("peer", 0)
    /\ pcT' = "hvalid"
    /\ UNCHANGED <<running, sock_valid, sock_fd, fds, shutdown, main, tfd>>

HandleValid ==
    /\ Alive("hvalid")
    /\ IF sock_valid[0] THEN pcT' = "send" /\ tfd' = sock_fd[0]
                        ELSE pcT' = "hunlock" /\ UNCHANGED tfd
    /\ UNCHANGED <<ctx, fds, shutdown, main>>

\* Mutant of HandleSend: a failed sendto returns without the unlock.
HandleSendEarlyReturn ==
    /\ Alive("send")
    /\ pcT' \in {"hunlock", "test"}
    /\ UNCHANGED <<ctx, fds, shutdown, main, tfd>>

\* sendto on tfd; its failure is only logged.
HandleSend ==
    /\ Alive("send")
    /\ pcT' = "hunlock"
    /\ UNCHANGED <<ctx, fds, shutdown, main, tfd>>

HandleUnlock ==
    /\ Alive("hunlock")
    /\ Unlock("peer", 0)
    /\ pcT' = "test"
    /\ UNCHANGED <<running, sock_valid, sock_fd, fds, shutdown, main, tfd>>

PeerClearValid ==
    /\ Alive("fin")
    /\ sock_valid' = [sock_valid EXCEPT ![0] = FALSE]
    /\ pcT' = "fin2"
    /\ UNCHANGED <<running, sock_fd, sock_mutex, fds, shutdown, main, tfd>>

PeerClearRunning ==
    /\ Alive("fin2")
    /\ running' = [running EXCEPT ![0] = FALSE]
    /\ pcT' = "done"
    /\ UNCHANGED <<sock_valid, sock_fd, sock_mutex, fds, shutdown, main, tfd>>

-----------------------------------------------------------------------------
\* The static g_peer_ctx array is zeroed: every sock_fd is 0, not -1, and a
\* zeroed pthread_mutex_t is a free one.
Init ==
    /\ running = [i \in Slots |-> FALSE]
    /\ sock_valid = [i \in Slots |-> FALSE]
    /\ sock_fd = [i \in Slots |-> 0]
    /\ sock_mutex = [i \in Slots |-> "free"]
    /\ fds = [f \in Fds |-> IF f = Stdin THEN "stdin" ELSE "unused"]
    /\ shutdown = FALSE
    /\ pcM = "clock" /\ slot = 0 /\ pass = 0 /\ started = "none"
    /\ pcT = "none" /\ tfd = NoFd

\* The process has exited; nothing more happens.
Exited == pcM = "exited" /\ UNCHANGED vars

MainStart == \/ StartClock \/ CreateUdpSocket \/ PeerThreadInit \/ CreateThread
             \/ DetachThread \/ StartSetRunning \/ StartLock \/ StartSetSock
             \/ CloseAfterFailedStart

MainStop == \/ StopTest \/ StopClear \/ StopJoin \/ CleanTest \/ CleanLock
            \/ CleanClose \/ CleanForget \/ CleanDestroy \/ EndCleanup

PeerStep == \/ PeerSetRunning \/ PeerInitLock \/ PeerInitSet \/ PeerTest
            \/ PeerLoadFd \/ PeerRecv \/ HandleLock \/ HandleValid
            \/ HandleSend \/ HandleUnlock \/ PeerClearValid \/ PeerClearRunning

Next == \/ SignalHandler \/ ReuseFd \/ LeaveMainLoop
        \/ MainStart \/ MainStop \/ PeerStep \/ Exited

Spec == Init /\ [][Next]_vars

-----------------------------------------------------------------------------
(* Properties                                                               *)

\* Every variable stays in its domain (the C objects of threads.c and main.c).
TypeOK ==
    /\ running \in [Slots -> BOOLEAN]
    /\ sock_valid \in [Slots -> BOOLEAN]
    /\ sock_fd \in [Slots -> Fds \cup {NoFd}]
    /\ sock_mutex \in [Slots -> {"free", "main", "peer", "destroyed"}]
    /\ fds \in [Fds -> {"unused", "stdin", "peer", "closed", "other"}]
    /\ shutdown \in BOOLEAN
    /\ pcM \in {"clock", "socket", "init", "create", "detach", "flags",
               "startlock", "startset", "failed", "loop", "stop", "clear", "join",
               "clean", "cleanlock", "close", "forget", "destroy", "end", "exited"}
    /\ slot \in Slots
    /\ pass \in 0..2
    /\ started \in {"none", "ok", "fail"}
    /\ pcT \in {"none", "begin", "initlock", "initset", "test", "load", "recv", "hlock",
               "hvalid", "send", "hunlock", "fin", "fin2", "done"}
    /\ tfd \in Fds \cup {NoFd}

\* A reply of handle_peer_request goes out through the daemon's own socket or
\* fails with EBADF on -1; it is never sent through a number that cleanup has
\* closed and the process has reused, although cleanup_peer_thread does not
\* wait for the thread. (A failed start closes the socket under the thread.)
SendUsesOwnSocket ==
    pcT = "send" /\ started # "fail" => tfd = NoFd \/ fds[tfd] = "peer"

\* cleanup_peer_thread closes the peer socket once, and never a number that
\* has since been given to another open, after any start that did not fail.
CloseOwnSocket ==
    pcM = "close" /\ slot = 0 /\ started = "ok" =>
        sock_fd[0] = NoFd \/ fds[sock_fd[0]] = "peer"

\* A shutdown request is always carried through: stop and cleanup of the peer
\* thread end whatever the thread is doing when the signal arrives.
ShutdownCompletes == shutdown ~> pcM = "exited"

\* The operating system runs both threads, and a mutex that is free again and
\* again is eventually granted to the main thread.
Fairness == /\ WF_vars(MainStart \/ MainStop \/ LeaveMainLoop)
            /\ SF_vars(StartLock \/ CleanLock)
            /\ WF_vars(PeerStep)

LiveSpec == Spec /\ Fairness

=============================================================================
