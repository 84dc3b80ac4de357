---------------------------- MODULE DaemonProofs ----------------------------
(***************************************************************************)
(* For every set of servers and frequencies, every size of the pool, every *)
(* number of restarts and every outcome of the nested lock calls: what the *)
(* process of main.c owns and keeps, and what its frequency file is worth.  *)
(***************************************************************************)
EXTENDS Daemon, SequenceTheorems, TLAPS

USE DaemonAssumption, KindAssumption

\* The server lines of main's list as its pool holds them: the first MAX_PEERS.
Agree ==
    /\ Len(pool) = IF Len(servers) < MAX_PEERS THEN Len(servers) ELSE MAX_PEERS
    /\ \A i \in DOMAIN pool : pool[i] = servers[i].name

\* The pool and the list agree from the first line on; only a load that fails
\* separates them, and then the list is empty and main does not go on.
PoolInv ==
    /\ pc = "args" => servers = <<>> /\ pool = <<>>
    /\ pc \in Started => servers # <<>>
    /\ pc \in Started \cup {"config"} => Agree
    /\ pc = "loaded" /\ servers # <<>> => Agree

\* A save is entered with a frequency that is in SYNC; the file is empty while
\* it is written, and stays so when the save is not completed.
FreqInv ==
    /\ pc = "write" => freq.state = "SYNC" /\ freq_file = Empty
    /\ torn => freq_file = Empty
    /\ FrequencyKept

IInv == TypeOK /\ ServersOwned /\ PoolInv /\ FreqInv

-----------------------------------------------------------------------------
\* The lock calls of mode_handler_cleanup, one by one.
LEMMA ModeCleanupOps ==
    /\ Len(ModeCleanup) = 8
    /\ ModeCleanup[1] = "lock" /\ ModeCleanup[2] = "lock" /\ ModeCleanup[3] = "unlock"
    /\ ModeCleanup[4] = "lock" /\ ModeCleanup[5] = "unlock" /\ ModeCleanup[6] = "lock"
    /\ ModeCleanup[7] = "unlock" /\ ModeCleanup[8] = "unlock"
  BY DEF ModeCleanup

\* One more server line: the list and its strings grow together.
LEMMA LoadOwns ==
    ASSUME TypeOK, ServersOwned, LoadServer
    PROVE  TypeOK' /\ ServersOwned'
  <1>1. PICK name \in Names :
          /\ servers' = Append(servers, [name |-> name, obj |-> Len(servers) + 1])
          /\ pool' = IF Len(pool) < MAX_PEERS THEN Append(pool, name) ELSE pool
    BY DEF LoadServer
  <1>2. servers \in Seq([name : Names, obj : 1..MaxServers]) /\ Len(servers) < MaxServers
    BY DEF LoadServer, TypeOK
  <1>3. Len(servers) + 1 \in 1..MaxServers
    BY <1>2, LenProperties
  <1>4. /\ servers' \in Seq([name : Names, obj : 1..MaxServers])
        /\ Len(servers') = Len(servers) + 1
        /\ \A i \in 1 .. Len(servers) : servers'[i] = servers[i]
        /\ servers'[Len(servers) + 1] = [name |-> name, obj |-> Len(servers) + 1]
    BY <1>1, <1>2, <1>3, AppendProperties
  <1>5. pool' \in Seq(Names) /\ Len(pool') <= MAX_PEERS
    BY <1>1 DEF TypeOK
  <1>6. Objects' = Objects \cup {Len(servers) + 1}
    <2>1. DOMAIN servers = 1 .. Len(servers) /\ DOMAIN servers' = 1 .. (Len(servers) + 1)
      BY <1>2, <1>4, LenProperties
    <2> QED
      BY <1>4, <2>1, <1>3 DEF Objects
  <1>7. heap' = heap \cup {Len(servers) + 1} /\ heap' \subseteq 1..MaxServers
    BY <1>3 DEF LoadServer, TypeOK
  <1>8. ServersOwned'
    BY <1>6, <1>7 DEF ServersOwned
  <1>9. TypeOK'
    BY <1>2, <1>3, <1>4, <1>5, <1>7 DEF LoadServer, TypeOK, mutex, files, history
  <1> QED
    BY <1>8, <1>9

\* Every action keeps the variables in their domains.
LEMMA TypeStep == TypeOK /\ ServersOwned /\ [Next]_vars => TypeOK'
  <1> SUFFICES ASSUME TypeOK, ServersOwned, [Next]_vars PROVE TypeOK'
    OBVIOUS
  <1> USE DEF TypeOK, lists, mutex, files, history
  <1>1. CASE ParseArguments
    BY <1>1 DEF ParseArguments
  <1>2. CASE LoadServer
    BY <1>2, LoadOwns
  <1>3. CASE LoadFails
    <2>1. servers' \in Seq([name : Names, obj : 1..MaxServers]) /\ Len(servers') = 0
      BY <1>3 DEF LoadFails
    <2>2. heap' \subseteq 1..MaxServers
      BY <1>3 DEF LoadFails
    <2>3. pc' = "loaded"
      BY <1>3 DEF LoadFails
    <2>4. UNCHANGED <<pass, cli, dropped, pool, freq, mutex, shutdown, files, history>>
      BY <1>3 DEF LoadFails
    <2> QED
      BY <2>1, <2>2, <2>3, <2>4
  <1>4. CASE LoadEnds
    BY <1>4 DEF LoadEnds
  <1>5. CASE TestServers
    BY <1>5 DEF TestServers, EnterCleanup
  <1>6. CASE Daemonise
    <2>1. dropped' \in BOOLEAN
      BY <1>6 DEF Daemonise, ApplyUserPrivileges
    <2>2. pid_file' \in 0..starts'
      BY <1>6 DEF Daemonise
    <2>3. pc' = "init"
      BY <1>6 DEF Daemonise
    <2>4. UNCHANGED <<pass, cli, lists, freq, mutex, shutdown, freq_file, history>>
      BY <1>6 DEF Daemonise
    <2> QED
      BY <2>1, <2>2, <2>3, <2>4
  <1>7. CASE InitParts
    BY <1>7 DEF InitParts, Loaded, Frequencies
  <1>8. CASE StartClock
    BY <1>8 DEF StartClock, EnterCleanup
  <1>9. CASE StartPeer
    BY <1>9 DEF StartPeer, EnterCleanup
  <1>10. CASE StartListener
    BY <1>10 DEF StartListener
  <1>11. CASE Discipline
    BY <1>11 DEF Discipline
  <1>12. CASE SignalHandler
    BY <1>12 DEF SignalHandler
  <1>13. CASE LeaveLoop
    BY <1>13 DEF LeaveLoop, EnterCleanup
  <1>14. CASE Kill
    BY <1>14 DEF Kill
  <1>15. CASE Restart
    <2>1. /\ servers' \in Seq([name : Names, obj : 1..MaxServers]) /\ Len(servers') = 0
          /\ pool' \in Seq(Names) /\ Len(pool') = 0
          /\ heap' \subseteq 1..MaxServers
      BY <1>15 DEF Restart
    <2>2. cli' \in Options /\ dropped' \in BOOLEAN /\ shutdown' \in BOOLEAN
      BY <1>15, Zenon DEF Restart, Options
    <2>3. freq' \in Frequencies
      BY <1>15 DEF Restart, Frequencies
    <2>4. mode_mutex' \in Mutexes({"main"}) /\ op' \in 1..Len(ModeCleanup)
      BY <1>15, ModeCleanupOps DEF Restart, Mutexes, FreeMutex
    <2>5. starts' \in 1..MaxStarts /\ pid_file' \in 0..starts'
      BY <1>15 DEF Restart
    <2>6. pc' = "args" /\ pass' = 0 /\ UNCHANGED <<freq_file, learned, torn>>
      BY <1>15 DEF Restart
    <2> QED
      BY <2>1, <2>2, <2>3, <2>4, <2>5, <2>6
  <1>16. CASE StopParts
    BY <1>16, ModeCleanupOps DEF StopParts
  <1>17. CASE CleanupMode
    <2>1. mode_mutex' \in Mutexes({"main"})
      BY <1>17 DEF CleanupMode, Mutexes, FreeMutex, AfterLock, AfterUnlock
    <2>2. op' \in 1..Len(ModeCleanup) /\ pc' \in {"mode", "save"}
      BY <1>17, ModeCleanupOps DEF CleanupMode
    <2>3. UNCHANGED <<pass, cli, dropped, lists, freq, shutdown, files, history>>
      BY <1>17 DEF CleanupMode
    <2> QED
      BY <2>1, <2>2, <2>3
  <1>18. CASE SaveFrequency
    BY <1>18 DEF SaveFrequency
  <1>19. CASE WriteFrequency
    BY <1>19 DEF WriteFrequency, Frequencies
  <1>20. CASE UnlinkPid
    BY <1>20 DEF UnlinkPid
  <1>21. CASE FreeServers
    <2>1. servers' \in Seq([name : Names, obj : 1..MaxServers]) /\ Len(servers') = 0
      BY <1>21 DEF FreeServers
    <2>2. heap' \subseteq 1..MaxServers
      BY <1>21 DEF FreeServers
    <2>3. pc' \in {"threads", "exited"} /\ pass' \in 0..2
      BY <1>21 DEF FreeServers, EnterCleanup
    <2>4. UNCHANGED <<cli, dropped, pool, freq, mutex, shutdown, files, history>>
      BY <1>21 DEF FreeServers
    <2> QED
      BY <2>1, <2>2, <2>3, <2>4
  <1>22. CASE Over \/ UNCHANGED vars
    BY <1>22 DEF Over, vars
  <1> QED
    BY <1>1, <1>2, <1>3, <1>4, <1>5, <1>6, <1>7, <1>8, <1>9, <1>10, <1>11, <1>12, <1>13,
       <1>14, <1>15, <1>16, <1>17, <1>18, <1>19, <1>20, <1>21, <1>22 DEF Next, Startup, Cleanup

\* The list and the heap stay together through every load, reload and cleanup.
LEMMA OwnStep == TypeOK /\ ServersOwned /\ [Next]_vars => ServersOwned'
  <1> SUFFICES ASSUME TypeOK, ServersOwned, [Next]_vars PROVE ServersOwned'
    OBVIOUS
  <1>1. CASE LoadServer
    BY <1>1, LoadOwns
  <1>2. CASE LoadFails \/ FreeServers
    BY <1>2 DEF LoadFails, FreeServers, ServersOwned, Objects
  <1>3. CASE Restart
    BY <1>3 DEF Restart, ServersOwned, Objects
  <1>4. CASE UNCHANGED <<servers, heap>>
    BY <1>4 DEF ServersOwned, Objects
  <1>5. LoadServer \/ LoadFails \/ FreeServers \/ Restart \/ UNCHANGED <<servers, heap>>
    BY DEF Next, Startup, Cleanup, ParseArguments, LoadEnds, TestServers, Daemonise, InitParts,
           StartClock, StartPeer, StartListener, Discipline, SignalHandler, LeaveLoop, Kill,
           StopParts, CleanupMode, SaveFrequency, WriteFrequency, UnlinkPid, Over, vars, lists
  <1> QED
    BY <1>1, <1>2, <1>3, <1>4, <1>5

\* One more server line: the pool takes it as long as it has room.
LEMMA LoadAgrees ==
    ASSUME TypeOK, Agree, LoadServer
    PROVE  Agree'
  <1>1. PICK name \in Names :
          /\ servers' = Append(servers, [name |-> name, obj |-> Len(servers) + 1])
          /\ pool' = IF Len(pool) < MAX_PEERS THEN Append(pool, name) ELSE pool
    BY DEF LoadServer
  <1> DEFINE Line == [name |-> name, obj |-> Len(servers) + 1]
             Lines == [name : Names, obj : 1..MaxServers]
  <1>2. servers \in Seq(Lines) /\ pool \in Seq(Names) /\ Line \in Lines
    <2>1. servers \in Seq(Lines) /\ pool \in Seq(Names) /\ Len(servers) < MaxServers
      BY DEF TypeOK, LoadServer
    <2> QED
      BY <2>1, LenProperties
  <1>3. /\ Len(servers') = Len(servers) + 1
        /\ \A i \in 1 .. Len(servers) : servers'[i] = servers[i]
        /\ servers'[Len(servers) + 1] = Line
    BY <1>1, <1>2, AppendProperties
  <1>4. DOMAIN pool = 1 .. Len(pool) /\ Len(pool) \in Nat /\ Len(servers) \in Nat
    BY <1>2, LenProperties
  <1>5. Len(pool) <= Len(servers)
    BY <1>4 DEF Agree
  <1>6. CASE Len(pool) < MAX_PEERS
    <2>1. Len(pool) = Len(servers)
      BY <1>6, <1>4 DEF Agree
    <2>2. /\ Len(pool') = Len(pool) + 1
          /\ DOMAIN pool' = 1 .. (Len(pool) + 1)
          /\ \A i \in 1 .. Len(pool) : pool'[i] = pool[i]
          /\ pool'[Len(pool) + 1] = name
      BY <1>1, <1>2, <1>6, AppendProperties
    <2> QED
      BY <2>1, <2>2, <1>3, <1>4, <1>6 DEF Agree
  <1>7. CASE ~(Len(pool) < MAX_PEERS)
    <2>1. pool' = pool
      BY <1>1, <1>7
    <2> QED
      BY <2>1, <1>3, <1>4, <1>5, <1>7 DEF Agree
  <1> QED
    BY <1>6, <1>7

\* Whatever else main does, it goes on only while the pool and the list agree.
LEMMA PoolStep == TypeOK /\ PoolInv /\ [Next]_vars => PoolInv'
  <1> SUFFICES ASSUME TypeOK, PoolInv, [Next]_vars PROVE PoolInv'
    OBVIOUS
  <1> USE DEF PoolInv, Started
  <1>1. CASE LoadServer
    <2>1. Agree'
      BY <1>1, LoadAgrees DEF LoadServer
    <2> QED
      BY <1>1, <2>1 DEF LoadServer
  <1>2. CASE LoadFails
    BY <1>2 DEF LoadFails
  <1>3. CASE FreeServers
    BY <1>3 DEF FreeServers, EnterCleanup
  <1>4. CASE Restart
    BY <1>4 DEF Restart
  <1>5. CASE ParseArguments
    <2>1. Agree'
      BY <1>5 DEF ParseArguments, lists, Agree
    <2> QED
      BY <1>5, <2>1 DEF ParseArguments, lists
  <1>6. CASE TestServers
    BY <1>6 DEF TestServers, EnterCleanup, lists, Agree
  <1>7. CASE /\ UNCHANGED <<servers, pool>>
             /\ \/ pc' = pc \/ pc' \notin Started \cup {"args", "config", "loaded"}
                \/ pc \in Started /\ pc' \in Started
                \/ pc = "config" /\ pc' = "loaded"
    BY <1>7 DEF Agree
  <1>8. CASE LoadEnds \/ Daemonise \/ InitParts \/ StartClock \/ StartPeer \/ StartListener
    BY <1>8, <1>7 DEF LoadEnds, Daemonise, InitParts, StartClock, StartPeer, StartListener,
                      EnterCleanup, lists
  <1>9. CASE Discipline \/ SignalHandler \/ LeaveLoop \/ Kill \/ Over \/ UNCHANGED vars
    BY <1>9, <1>7 DEF Discipline, SignalHandler, LeaveLoop, Kill, Over, EnterCleanup, lists, vars
  <1>10. CASE StopParts \/ CleanupMode \/ SaveFrequency \/ WriteFrequency \/ UnlinkPid
    BY <1>10, <1>7 DEF StopParts, CleanupMode, SaveFrequency, WriteFrequency, UnlinkPid, lists
  <1> QED
    BY <1>1, <1>2, <1>3, <1>4, <1>5, <1>6, <1>8, <1>9, <1>10 DEF Next, Startup, Cleanup

\* The file and what it is to keep change together, but for the moment of a
\* write, which a failure or a kill may end.
LEMMA FreqStep == FreqInv /\ [Next]_vars => FreqInv'
  <1> SUFFICES ASSUME FreqInv, [Next]_vars PROVE FreqInv'
    OBVIOUS
  <1> USE DEF FreqInv, FrequencyKept
  <1>1. CASE SaveFrequency
    BY <1>1 DEF SaveFrequency, history
  <1>2. CASE WriteFrequency
    BY <1>2 DEF WriteFrequency
  <1>3. CASE Kill
    BY <1>3 DEF Kill, files
  <1>4. CASE Restart
    BY <1>4 DEF Restart, files
  <1>5. CASE /\ UNCHANGED <<freq_file, learned, torn>>
             /\ (pc # "write" /\ pc' # "write") \/ UNCHANGED <<pc, freq>>
    BY <1>5
  <1>6. CASE Startup
    BY <1>6, <1>5 DEF Startup, ParseArguments, LoadServer, LoadFails, LoadEnds, TestServers,
              Daemonise, InitParts, StartClock, StartPeer, StartListener, EnterCleanup, files, history
  <1>7. CASE StopParts \/ CleanupMode \/ UnlinkPid \/ FreeServers
    BY <1>7, <1>5 DEF StopParts, CleanupMode, UnlinkPid, FreeServers, EnterCleanup, files, history
  <1>8. CASE Discipline \/ SignalHandler \/ LeaveLoop \/ Over \/ UNCHANGED vars
    BY <1>8, <1>5 DEF Discipline, SignalHandler, LeaveLoop, Over, EnterCleanup, files, history, vars
  <1> QED
    BY <1>1, <1>2, <1>3, <1>4, <1>6, <1>7, <1>8 DEF Next, Cleanup

-----------------------------------------------------------------------------
\* The first start satisfies the invariant.
LEMMA InitInv == Init => IInv
  <1> SUFFICES ASSUME Init PROVE IInv
    OBVIOUS
  <1>1. TypeOK
    <2>1. /\ servers \in Seq([name : Names, obj : 1..MaxServers]) /\ Len(servers) = 0
          /\ pool \in Seq(Names) /\ Len(pool) = 0
          /\ heap \subseteq 1..MaxServers
      BY DEF Init
    <2>2. cli \in Options /\ dropped \in BOOLEAN /\ shutdown \in BOOLEAN /\ torn \in BOOLEAN
      BY Zenon DEF Init, Options
    <2>3. freq \in Frequencies
      BY DEF Init, Frequencies
    <2>4. mode_mutex \in Mutexes({"main"}) /\ op \in 1..Len(ModeCleanup)
      BY ModeCleanupOps DEF Init, Mutexes, FreeMutex
    <2>5. starts \in 1..MaxStarts /\ pid_file \in 0..starts /\ pass \in 0..2 /\ pc = "args"
      BY DEF Init
    <2>6. freq_file \in {NoFile, Empty} \cup Ppms /\ learned \in {NoFile} \cup Ppms
      BY DEF Init
    <2> QED
      BY <2>1, <2>2, <2>3, <2>4, <2>5, <2>6 DEF TypeOK
  <1>2. ServersOwned
    BY DEF Init, ServersOwned, Objects
  <1>3. PoolInv
    BY DEF Init, PoolInv, Started
  <1>4. FreqInv
    BY DEF Init, FreqInv, FrequencyKept
  <1> QED
    BY <1>1, <1>2, <1>3, <1>4 DEF IInv

\* The invariant holds in every state of every start of the daemon.
THEOREM Invariance == Spec => []IInv
  <1>1. IInv /\ [Next]_vars => IInv'
    BY TypeStep, OwnStep, PoolStep, FreqStep DEF IInv
  <1> QED
    BY InitInv, <1>1, PTL DEF Spec

\* main.c keeps every variable of its life cycle in its domain.
THEOREM TypeCorrect == Spec => []TypeOK
  <1>1. IInv => TypeOK
    BY DEF IInv
  <1> QED
    BY Invariance, <1>1, PTL

\* load_server_config and cleanup_resources neither leak a server's string nor
\* keep one that was freed, over any load that fails and both cleanups.
THEOREM ServersStayOwned == Spec => []ServersOwned
  <1>1. IInv => ServersOwned
    BY DEF IInv
  <1> QED
    BY Invariance, <1>1, PTL

\* main goes on only with servers, and with a pool that holds the first
\* MAX_PEERS of them, although a failed load forgets the list and not the pool.
THEOREM PoolAgrees == Spec => []PoolMatchesServers
  <1>1. IInv => PoolMatchesServers
    BY DEF IInv, PoolInv, PoolMatchesServers, Agree
  <1> QED
    BY Invariance, <1>1, PTL

\* No start, kill or second cleanup changes the saved frequency but a save in
\* SYNC; only an interrupted save loses it.
THEOREM FrequencyIsKept == Spec => []FrequencyKept
  <1>1. IInv => FrequencyKept
    BY DEF IInv, FreqInv
  <1> QED
    BY Invariance, <1>1, PTL

-----------------------------------------------------------------------------
\* A start loads, before anything else touches it, what the store holds.
LEMMA StoreLoad == ASSUME IInv, InitParts PROVE Store!Load
  <1>1. Kept = freq_file /\ Kept' = freq_file
    BY DEF InitParts, files, history, Kept
  <1>2. Phase = "new" /\ Phase' = "running"
    BY DEF InitParts, Phase
  <1> QED
    BY <1>1, <1>2 DEF InitParts, Loaded, Store!Load, Store!Nothing

\* The write that follows fopen is the step that saves or loses.
LEMMA StoreWrite == ASSUME IInv, WriteFrequency PROVE Store!Save
  <1>1. Phase = "ended" /\ Phase' = "ended"
    BY DEF WriteFrequency, Phase
  <1>2. Kept' \in {freq.ppm, Empty}
    BY DEF WriteFrequency, Kept, IInv, FreqInv
  <1> QED
    BY <1>1, <1>2 DEF WriteFrequency, IInv, FreqInv, Store!Save, Empty

\* A kill ends the process; in the middle of a save it loses the frequency.
LEMMA StoreKill == ASSUME IInv, Kill PROVE [Store!Next]_(Store!vars)
  <1>1. Phase' = "ended"
    BY DEF Kill, Phase
  <1>2. CASE pc = "write"
    <2>1. Phase = "ended" /\ freq.state = "SYNC"
      BY <1>2 DEF Phase, IInv, FreqInv
    <2>2. Kept' = Empty
      BY <1>2 DEF Kill, files, Kept, IInv, FreqInv
    <2> QED
      BY <1>1, <2>1, <2>2 DEF Kill, Store!Next, Store!Save, Empty
  <1>3. CASE pc # "write"
    <2>1. Kept' = Kept
      BY <1>3 DEF Kill, files, Kept
    <2> QED
      BY <1>1, <2>1 DEF Kill, Store!Next, Store!End, Store!vars
  <1> QED
    BY <1>2, <1>3

\* A step away from the file, which may be the end of the process.
Quiet ==
    /\ UNCHANGED <<freq, freq_file, learned, torn>>
    /\ (pc # "write" /\ pc' # "write") \/ pc' = pc
    /\ Phase' = Phase \/ (Phase # "ended" /\ Phase' = "ended")

\* Such a step ends the process of the store or leaves it alone.
LEMMA StoreQuiet == ASSUME Quiet PROVE [Store!Next]_(Store!vars)
  <1>1. Kept' = Kept
    BY DEF Quiet, Kept
  <1> QED
    BY <1>1 DEF Quiet, Store!Next, Store!End, Store!vars

\* Every step of the daemon is a step of the store, or leaves it alone.
LEMMA StoreStep == ASSUME IInv, [Next]_vars PROVE [Store!Next]_(Store!vars)
  <1>1. CASE InitParts
    BY <1>1, StoreLoad DEF Store!Next
  <1>2. CASE WriteFrequency
    BY <1>2, StoreWrite DEF Store!Next
  <1>3. CASE Kill
    BY <1>3, StoreKill
  <1>4. CASE SaveFrequency
    <2>1. Kept' = Kept
      BY <1>4 DEF SaveFrequency, Kept, history, IInv, FreqInv, FrequencyKept
    <2>2. Phase = "ended" /\ Phase' = "ended" /\ freq' = freq
      BY <1>4 DEF SaveFrequency, Phase
    <2> QED
      BY <2>1, <2>2 DEF Store!vars
  <1>5. CASE Restart
    <2>1. Kept' = Kept /\ Phase = "ended" /\ Phase' = "new"
      BY <1>5 DEF Restart, Kept, Phase, files
    <2> QED
      BY <1>5, <2>1 DEF Restart, Store!Next, Store!Begin, Store!Nothing
  <1>6. CASE Discipline
    <2>1. Kept' = Kept /\ Phase = "running" /\ Phase' = "running"
      BY <1>6 DEF Discipline, Kept, Phase, files, history
    <2> QED
      BY <1>6, <2>1 DEF Discipline, Frequencies, Store!Next, Store!Learn
  <1>7. CASE ParseArguments \/ LoadServer \/ LoadFails \/ LoadEnds \/ TestServers \/ Daemonise
    <2>1. UNCHANGED <<freq, freq_file, learned, torn>> /\ pc # "write" /\ pc' # "write"
      BY <1>7 DEF ParseArguments, LoadServer, LoadFails, LoadEnds, TestServers, Daemonise,
                  EnterCleanup, files, history
    <2>2. Phase = "new" /\ (Phase' = "new" \/ Phase' = "ended")
      BY <1>7 DEF ParseArguments, LoadServer, LoadFails, LoadEnds, TestServers, Daemonise,
                  EnterCleanup, Phase
    <2> QED
      BY <2>1, <2>2, StoreQuiet DEF Quiet
  <1>8. CASE StartClock \/ StartPeer \/ StartListener \/ LeaveLoop
    <2>1. UNCHANGED <<freq, freq_file, learned, torn>> /\ pc # "write" /\ pc' # "write"
      BY <1>8 DEF StartClock, StartPeer, StartListener, LeaveLoop, EnterCleanup, files, history
    <2>2. Phase = "running" /\ (Phase' = "running" \/ Phase' = "ended")
      BY <1>8 DEF StartClock, StartPeer, StartListener, LeaveLoop, EnterCleanup, Phase
    <2> QED
      BY <2>1, <2>2, StoreQuiet DEF Quiet
  <1>9. CASE StopParts \/ CleanupMode \/ UnlinkPid \/ FreeServers
    <2>1. UNCHANGED <<freq, freq_file, learned, torn>> /\ pc # "write" /\ pc' # "write"
      BY <1>9 DEF StopParts, CleanupMode, UnlinkPid, FreeServers, EnterCleanup, files, history
    <2>2. Phase = "ended" /\ Phase' = "ended"
      BY <1>9 DEF StopParts, CleanupMode, UnlinkPid, FreeServers, EnterCleanup, Phase
    <2> QED
      BY <2>1, <2>2, StoreQuiet DEF Quiet
  <1>10. CASE SignalHandler \/ Over \/ UNCHANGED vars
    <2>1. UNCHANGED <<freq, freq_file, learned, torn>> /\ pc' = pc
      BY <1>10 DEF SignalHandler, Over, vars, files, history
    <2>2. Phase' = Phase
      BY <2>1 DEF Phase
    <2> QED
      BY <2>1, <2>2, StoreQuiet DEF Quiet
  <1> QED
    BY <1>1, <1>2, <1>3, <1>4, <1>5, <1>6, <1>7, <1>8, <1>9, <1>10 DEF Next, Startup, Cleanup

\* The frequency file, emptied and written in two steps between which the
\* process may be killed, implements a store that changes in one.
THEOREM FileImplementsStore == Spec => StoreImplemented
  <1>1. Init => Store!Init
    BY DEF Init, Store!Init, Store!Nothing, Phase, Kept, NoFile
  <1> QED
    BY <1>1, Invariance, StoreStep, PTL DEF Spec, StoreImplemented, Store!Spec

=============================================================================
