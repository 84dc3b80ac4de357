------------------------------- MODULE Daemon -------------------------------
(***************************************************************************)
(* The life of the dntpd process (main.c): command line, server            *)
(* configuration, PID file and privileges, initialisation of the parts,    *)
(* start of the threads, the synchronisation loop as far as the frequency  *)
(* is concerned, and cleanup_resources, which runs from atexit and, after  *)
(* a failed start, explicitly before that. The frequency file and the PID  *)
(* file outlive the process, which may be killed at any moment (SIGHUP,    *)
(* which has no handler, included) and is then started again. What the     *)
(* threads do is in PeerThread, ClockThread and SyncLoop.                  *)
(***************************************************************************)
EXTENDS Integers, Sequences, PthreadMutex

CONSTANTS Names,       \* servers the configuration may name
          Ppms, Zero,  \* frequencies load_frequency_persistent accepts, 0 PPM
          MAX_PEERS,   \* 8 in the source
          MaxServers,  \* bound: server lines of the configuration
          MaxStarts    \* bound: starts of the daemon

ASSUME DaemonAssumption ==
    /\ Zero \in Ppms
    /\ {"none", "empty"} \cap Ppms = {}
    /\ MAX_PEERS \in Nat \ {0}
    /\ MaxServers \in Nat \ {0}
    /\ MaxStarts \in Nat \ {0}

NoFile == "none"
Empty  == "empty"

VARIABLES pc,          \* where main is
          pass,        \* 1: explicit cleanup_resources, 2: the one of atexit
          cli,         \* g_cli: daemonise (neither -f nor -n), run_user, quit
          dropped,     \* the privileges are gone
          servers,     \* g_servers: name and heap object of each
          pool,        \* g_peer_pool: names
          heap,        \* strings of server lines that are allocated
          freq,        \* g_freq_state: state and ppm
          mode_mutex,  \* g_mode_mutex
          op,          \* next mutex operation of mode_handler_cleanup
          shutdown,    \* g_shutdown_requested
          pid_file,    \* 0: absent, otherwise the start that wrote it
          freq_file,   \* absent, empty, or a frequency
          starts,      \* starts so far
          learned,     \* what the last complete save was to keep (history)
          torn         \* a save ended with the file emptied (history)

lists   == <<servers, pool, heap>>
mutex   == <<mode_mutex, op>>
files   == <<pid_file, freq_file>>
history == <<starts, learned, torn>>
vars    == <<pc, pass, cli, dropped, lists, freq, mutex, shutdown, files, history>>

Objects == {servers[i].obj : i \in DOMAIN servers}

-----------------------------------------------------------------------------
(* start-up                                                                 *)

\* cleanup_resources begins, from main (1) or from atexit (2).
EnterCleanup(n) == pc' = "threads" /\ pass' = n

Options == [daemonise : BOOLEAN, run_user : BOOLEAN, quit : BOOLEAN]

\* parse_arguments: help, version and errors leave before atexit is called.
ParseArguments ==
    /\ pc = "args"
    /\ cli' \in Options
    /\ pc' \in {"config", "exited"}
    /\ UNCHANGED <<pass, dropped, lists, freq, mutex, shutdown, files, history>>

\* Mutant of LoadServer: the pool takes every server.
LoadServerNoLimit ==
    /\ pc = "config"
    /\ Len(servers) < MaxServers
    /\ \E name \in Names :
          /\ servers' = Append(servers, [name |-> name, obj |-> Len(servers) + 1])
          /\ pool' = Append(pool, name)
    /\ heap' = heap \cup {Len(servers) + 1}
    /\ UNCHANGED <<pc, pass, cli, dropped, freq, mutex, shutdown, files, history>>

\* A server line of load_server_config. The pool takes the first MAX_PEERS.
\* (Settings and lines that do not parse change nothing here.)
LoadServer ==
    /\ pc = "config"
    /\ Len(servers) < MaxServers
    /\ \E name \in Names :
          /\ servers' = Append(servers, [name |-> name, obj |-> Len(servers) + 1])
          /\ pool' = IF Len(pool) < MAX_PEERS THEN Append(pool, name) ELSE pool
    /\ heap' = heap \cup {Len(servers) + 1}
    /\ UNCHANGED <<pc, pass, cli, dropped, freq, mutex, shutdown, files, history>>

\* strdup or realloc fails: the strings and the list are freed and 0 returned;
\* the pool keeps its entries.
LoadFails ==
    /\ pc = "config"
    /\ heap' = heap \ Objects
    /\ servers' = <<>>
    /\ pc' = "loaded"
    /\ UNCHANGED <<pass, cli, dropped, pool, freq, mutex, shutdown, files, history>>

\* End of the file, or no file.
LoadEnds ==
    /\ pc = "config"
    /\ pc' = "loaded"
    /\ UNCHANGED <<pass, cli, dropped, lists, freq, mutex, shutdown, files, history>>

\* Mutant of TestServers: the daemon goes on when the pool is not empty.
TestServersPool ==
    /\ pc = "loaded"
    /\ IF pool = <<>> THEN EnterCleanup(2) ELSE pc' = "pid" /\ UNCHANGED pass
    /\ UNCHANGED <<cli, dropped, lists, freq, mutex, shutdown, files, history>>

\* Without servers main returns at once, and atexit cleans up what was never
\* initialised.
TestServers ==
    /\ pc = "loaded"
    /\ IF servers = <<>> THEN EnterCleanup(2) ELSE pc' = "pid" /\ UNCHANGED pass
    /\ UNCHANGED <<cli, dropped, lists, freq, mutex, shutdown, files, history>>

\* apply_user_privileges fails for an unknown user, setgid or setuid.
ApplyUserPrivileges(user) == IF user THEN BOOLEAN ELSE {FALSE}

\* The PID file, then the privileges; both may fail, and main goes on.
Daemonise ==
    /\ pc = "pid"
    /\ pid_file' \in (IF cli.daemonise THEN {pid_file, starts} ELSE {pid_file})
    /\ dropped' \in ApplyUserPrivileges(cli.daemonise /\ cli.run_user)
    /\ pc' = "init"
    /\ UNCHANGED <<pass, cli, lists, freq, mutex, shutdown, freq_file, history>>

Frequencies == [state : {"NSET", "FSET", "SYNC"}, ppm : Ppms]

\* Mutant of Loaded: what fscanf says of a file it cannot read is not looked at.
LoadedUnchecked(file) == [state |-> "FSET", ppm |-> IF file \in Ppms THEN file ELSE Zero]

\* load_frequency_persistent after init_frequency_discipline.
Loaded(file) == IF file \in Ppms THEN [state |-> "FSET", ppm |-> file]
                                 ELSE [state |-> "NSET", ppm |-> Zero]

\* mode_handler_init, mode_handler_parse_config, ido_state_init, the frequency,
\* leap_second_init.
InitParts ==
    /\ pc = "init"
    /\ CanLock(mode_mutex, "main")
    /\ freq' = Loaded(freq_file)
    /\ pc' = "clock"
    /\ UNCHANGED <<pass, cli, dropped, lists, mutex, shutdown, files, history>>

\* start_clock_thread
StartClock ==
    /\ pc = "clock"
    /\ \/ pc' = "peer" /\ UNCHANGED pass
       \/ EnterCleanup(1)
    /\ UNCHANGED <<cli, dropped, lists, freq, mutex, shutdown, files, history>>

\* create_udp_socket and start_peer_thread
StartPeer ==
    /\ pc = "peer"
    /\ \/ pc' = "listen" /\ UNCHANGED pass
       \/ EnterCleanup(1)
    /\ UNCHANGED <<cli, dropped, lists, freq, mutex, shutdown, files, history>>

\* start_tcp_listener always fails (it listens on a datagram socket), so that
\* start_ntpq_thread is not called; main goes on without them.
StartListener ==
    /\ pc = "listen"
    /\ pc' = "loop"
    /\ UNCHANGED <<pass, cli, dropped, lists, freq, mutex, shutdown, files, history>>

-----------------------------------------------------------------------------
(* running                                                                  *)

\* A round of exchanges: they move the frequency (module FreqDiscipline).
Discipline ==
    /\ pc = "loop"
    /\ ~shutdown
    /\ freq' \in Frequencies
    /\ UNCHANGED <<pc, pass, cli, dropped, lists, mutex, shutdown, files, history>>

Started == {"pid", "init", "clock", "peer", "listen", "loop"}

\* signal_handler, installed once the servers are known. (The flag is read by the
\* loop only: a signal that comes after it changes nothing.)
SignalHandler ==
    /\ pc \in Started
    /\ ~shutdown
    /\ shutdown' = TRUE
    /\ UNCHANGED <<pc, pass, cli, dropped, lists, freq, mutex, files, history>>

\* The loop ends at a signal, or after a round with quit_after_sync.
LeaveLoop ==
    /\ pc = "loop"
    /\ shutdown \/ cli.quit
    /\ EnterCleanup(2)
    /\ UNCHANGED <<cli, dropped, lists, freq, mutex, shutdown, files, history>>

\* A crash, SIGKILL, or a signal without a handler.
Kill ==
    /\ pc \notin {"exited", "killed"}
    /\ pc' = "killed"
    /\ torn' = (torn \/ pc = "write")
    /\ UNCHANGED <<pass, cli, dropped, lists, freq, mutex, shutdown, files, starts, learned>>

\* The daemon is started again: a new process, the files as they are.
Restart ==
    /\ pc \in {"exited", "killed"}
    /\ starts < MaxStarts
    /\ starts' = starts + 1
    /\ pc' = "args" /\ pass' = 0
    /\ dropped' = FALSE
    /\ servers' = <<>> /\ pool' = <<>> /\ heap' = {}
    /\ freq' = [state |-> "NSET", ppm |-> Zero]
    /\ mode_mutex' = FreeMutex /\ op' = 1
    /\ shutdown' = FALSE
    /\ cli' = [daemonise |-> TRUE, run_user |-> FALSE, quit |-> FALSE]
    /\ UNCHANGED <<files, learned, torn>>

-----------------------------------------------------------------------------
(* cleanup_resources                                                        *)

\* stop_tcp_listener, stop and cleanup of the clock and the peer thread,
\* ido_state_cleanup, leap_second_cleanup. The threads are detached and nobody
\* waits for them: what they still do meanwhile is in PeerThread and ClockThread.
StopParts ==
    /\ pc = "threads"
    /\ op' = 1
    /\ pc' = "mode"
    /\ UNCHANGED <<pass, cli, dropped, lists, freq, mode_mutex, shutdown, files, history>>

\* mode_handler_cleanup holds the mutex while acl_get_entry_count,
\* acl_clear_entries and rate_limit_cleanup lock and unlock it.
ModeCleanup == <<"lock", "lock", "unlock", "lock", "unlock", "lock", "unlock", "unlock">>

CleanupMode ==
    /\ pc = "mode"
    /\ \/ /\ ModeCleanup[op] = "lock"
          /\ CanLock(mode_mutex, "main")
          /\ mode_mutex' = AfterLock(mode_mutex, "main")
       \/ /\ ModeCleanup[op] = "unlock"
          /\ mode_mutex' = AfterUnlock(mode_mutex, "main")
    /\ IF op < Len(ModeCleanup) THEN op' = op + 1 /\ UNCHANGED pc
                                ELSE pc' = "save" /\ UNCHANGED op
    /\ UNCHANGED <<pass, cli, dropped, lists, freq, shutdown, files, history>>

\* Mutant of SaveFrequency: every exit writes the file.
SaveFrequencyAlways ==
    /\ pc = "save"
    /\ \/ pc' = "write" /\ freq_file' = Empty
       \/ pc' = "unlink" /\ UNCHANGED freq_file
    /\ UNCHANGED <<pass, cli, dropped, lists, freq, mutex, shutdown, pid_file, history>>

\* save_frequency_persistent: only in SYNC. fopen empties the file, or fails,
\* which nobody notices.
SaveFrequency ==
    /\ pc = "save"
    /\ \/ freq.state = "SYNC" /\ pc' = "write" /\ freq_file' = Empty
       \/ pc' = "unlink" /\ UNCHANGED freq_file
    /\ UNCHANGED <<pass, cli, dropped, lists, freq, mutex, shutdown, pid_file, history>>

\* fprintf and fclose; if the buffer cannot be written the file stays empty.
WriteFrequency ==
    /\ pc = "write"
    /\ \/ /\ freq_file' = freq.ppm
          /\ torn' = FALSE
          /\ learned' = IF freq.state = "SYNC" THEN freq.ppm ELSE learned
       \/ /\ torn' = TRUE
          /\ UNCHANGED <<freq_file, learned>>
    /\ pc' = "unlink"
    /\ UNCHANGED <<pass, cli, dropped, lists, freq, mutex, shutdown, pid_file, starts>>

\* The PID file goes, whoever wrote it. Without privileges unlink may fail.
UnlinkPid ==
    /\ pc = "unlink"
    /\ pid_file' \in (IF dropped THEN {pid_file, 0} ELSE {0})
    /\ pc' = "free"
    /\ UNCHANGED <<pass, cli, dropped, lists, freq, mutex, shutdown, freq_file, history>>

\* Mutant of FreeServers: the list stays for the second cleanup.
FreeServersKeepsList ==
    /\ pc = "free"
    /\ heap' = heap \ Objects
    /\ IF pass = 1 THEN EnterCleanup(2) ELSE pc' = "exited" /\ UNCHANGED pass
    /\ UNCHANGED <<cli, dropped, servers, pool, freq, mutex, shutdown, files, history>>

\* The list is freed and forgotten. After the explicit call, main returns and
\* atexit cleans up once more.
FreeServers ==
    /\ pc = "free"
    /\ heap' = heap \ Objects
    /\ servers' = <<>>
    /\ IF pass = 1 THEN EnterCleanup(2) ELSE pc' = "exited" /\ UNCHANGED pass
    /\ UNCHANGED <<cli, dropped, pool, freq, mutex, shutdown, files, history>>

-----------------------------------------------------------------------------
Init ==
    /\ pc = "args" /\ pass = 0
    /\ cli = [daemonise |-> TRUE, run_user |-> FALSE, quit |-> FALSE]
    /\ dropped = FALSE
    /\ servers = <<>> /\ pool = <<>> /\ heap = {}
    /\ freq = [state |-> "NSET", ppm |-> Zero]
    /\ mode_mutex = FreeMutex /\ op = 1
    /\ shutdown = FALSE
    /\ pid_file = 0
    /\ freq_file \in {NoFile} \cup Ppms
    /\ starts = 1 /\ learned = freq_file /\ torn = FALSE

Over == pc \in {"exited", "killed"} /\ starts = MaxStarts /\ UNCHANGED vars

Startup == \/ ParseArguments \/ LoadServer \/ LoadFails \/ LoadEnds \/ TestServers
           \/ Daemonise \/ InitParts \/ StartClock \/ StartPeer \/ StartListener

Cleanup == \/ StopParts \/ CleanupMode \/ SaveFrequency \/ WriteFrequency
           \/ UnlinkPid \/ FreeServers

Next == \/ Startup \/ Cleanup \/ Discipline \/ SignalHandler \/ LeaveLoop
        \/ Kill \/ Restart \/ Over

Spec == Init /\ [][Next]_vars

\* Main is scheduled, and a round of the loop ends: no exchange is begun, as the
\* errno of the listener rejects every port (SyncLoop), and the sleep is finite.
Fairness == WF_vars(Startup) /\ WF_vars(Cleanup) /\ WF_vars(LeaveLoop)

LiveSpec == Spec /\ Fairness

-----------------------------------------------------------------------------
TypeOK ==
    /\ pc \in {"args", "config", "loaded", "pid", "init", "clock", "peer", "listen", "loop",
               "threads", "mode", "save", "write", "unlink", "free", "exited", "killed"}
    /\ pass \in 0..2
    /\ cli \in Options /\ dropped \in BOOLEAN /\ shutdown \in BOOLEAN
    /\ servers \in Seq([name : Names, obj : 1..MaxServers]) /\ Len(servers) <= MaxServers
    /\ pool \in Seq(Names) /\ Len(pool) <= MAX_PEERS
    /\ heap \subseteq 1..MaxServers
    /\ freq \in Frequencies
    /\ mode_mutex \in Mutexes({"main"}) /\ op \in 1..Len(ModeCleanup)
    /\ starts \in 1..MaxStarts /\ pid_file \in 0..starts
    /\ freq_file \in {NoFile, Empty} \cup Ppms /\ learned \in {NoFile} \cup Ppms
    /\ torn \in BOOLEAN

\* Through a load that fails half way, an explicit cleanup and the one of
\* atexit after it, the server list (main.c:83-90, 178-187, 193-203) never holds
\* a string that was freed, and no string is left that the list does not hold.
ServersOwned == heap = Objects

\* load_server_config forgets the servers but not the pool when memory runs out:
\* main goes on only if both still agree, the pool holding the first MAX_PEERS.
PoolMatchesServers ==
    pc \in Started =>
        /\ servers # <<>>
        /\ Len(pool) = IF Len(servers) < MAX_PEERS THEN Len(servers) ELSE MAX_PEERS
        /\ \A i \in DOMAIN pool : pool[i] = servers[i].name

\* The frequency file holds the frequency of the last start that reached SYNC
\* and could save it, however many starts failed, were killed or cleaned up
\* twice since; only a save that is interrupted or cannot be completed loses it.
FrequencyKept == ~torn /\ pc # "write" => freq_file = learned

\* SIGTERM and SIGINT (dntpd.8:351-358: "Graceful shutdown"): once the handler
\* has run, the process ends, whatever the loop and cleanup_resources are doing.
GracefulShutdown == shutdown ~> pc \in {"exited", "killed"}

\* What the frequency file is worth: while it is being written, what it held.
Kept == IF pc = "write" /\ ~torn THEN learned ELSE freq_file

\* The frequency is not loaded yet, may be learned, or can only be saved.
Phase == IF pc \in {"args", "config", "loaded", "pid", "init"} THEN "new"
         ELSE IF pc \in {"clock", "peer", "listen", "loop"} THEN "running"
         ELSE "ended"

Store == INSTANCE FrequencyStore WITH phase <- Phase, stored <- Kept, working <- freq

\* fopen, which empties the file, and the write after it, with a kill, a full
\* disk or another cleanup between them (time_sync.c:50-60, 91-96), look like a
\* save in one step: it keeps the old frequency, stores the new one of a SYNC
\* state, or loses it; and a start works with what the last of these left.
StoreImplemented == Store!Spec
=============================================================================
