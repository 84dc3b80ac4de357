------------------------------ MODULE SyncLoop ------------------------------
(***************************************************************************)
(* The synchronisation loop of dntpd: main's round over the configured     *)
(* servers, one sync_ntp_time exchange per server through one shared UDP   *)
(* socket, the checks on the reply, and the publication of the new system  *)
(* state under g_mutex. Main is the only thread here: the ntpq listener    *)
(* never comes up, and what a publication means to the clock thread and to *)
(* the filters is in their modules.                                        *)
(*                                                                         *)
(* Time is counted in units of 5 s, the receive timeout. A reply body is   *)
(* the fields the checks tell apart and, for the timestamps, the times of  *)
(* its trip: the server's clock is theta ahead of ours, the request takes  *)
(* out, the server holds it for hold and says it was said, the answer      *)
(* takes back (nanoseconds; theta, hold are what no party can see). The    *)
(* timestamp t1 also serves as an identifier that no other packet still    *)
(* under way carries.                                                      *)
(***************************************************************************)
EXTENDS Integers, Sequences, PthreadMutex, OnWire

CONSTANTS NServers,     \* g_server_count
          ErrnoAtLoop,  \* errno # 0 when main enters its loop: {TRUE} in the program
          Ids,          \* originate timestamps of requests
          NoId,         \* no timestamp yet
          Bodies,       \* reply bodies
          MAXDIST,      \* microseconds: 1000000 in the source
          RetryUnits,   \* SYNC_RETRY_INTERVAL_SEC in units (3 in the source)
          SleepUnits,   \* synchronisation interval in units
          MaxQueue,     \* bound: datagrams the socket buffer holds
          MaxDup,       \* bound: replies the network duplicates
          Faulty        \* sends fail, requests get lost, replies come too late

ReplyBodies == [form : {"fine", "unparsable", "mode", "xmit0"}, st : 0..16, li : 0..3,
                theta : Int, out : Nat, hold : Nat, said : Int, back : Nat]

ASSUME SyncAssumption ==
    /\ NServers \in Nat \ {0}
    /\ ErrnoAtLoop \subseteq BOOLEAN
    /\ NoId \notin Ids
    /\ Bodies \subseteq ReplyBodies
    /\ MAXDIST \in Nat
    /\ RetryUnits \in Nat \ {0}
    /\ SleepUnits \in Nat
    /\ MaxQueue \in Nat \ {0}
    /\ MaxDup \in Nat
    /\ Faulty \in BOOLEAN

Servers == 1..NServers
Threads == {"main"}
Packets == [from : Servers, orig : Ids, body : Bodies]

VARIABLES g_mutex,
          pcM,        \* where the main thread is
          srv,        \* index of the server main is at
          err,        \* errno # 0 in the main thread (nothing ever clears it)
          wait,       \* per server, units until next_allowed_sync (0: allowed)
          t1,         \* transmit timestamp of the current request
          pkt,        \* packet recvfrom returned
          pending,    \* requests that servers have still to answer
          queue,      \* receive buffer of the shared socket
          dups,       \* duplications so far
          reachable,  \* g_peer_pool[].reachable
          leap,       \* a leap second event has been scheduled
          synced,     \* g_time_synced
          stratum,    \* g_local_stratum
          head,       \* exchange that g_last_sync_ts .. g_local_root_delay come from
          tail        \* exchange that g_local_root_disp .. g_local_ref_id come from

net   == <<pending, queue, dups>>
local == <<srv, err, wait, t1, pkt>>
state == <<synced, stratum, head, tail>>
aux   == <<reachable, leap>>
vars  == <<g_mutex, pcM, local, net, state, aux>>

NoPacket == [from |-> 0]

-----------------------------------------------------------------------------
(* The checks on a reply                                                    *)

\* ntp_local_stratum_from_peer
LocalStratum(st) == IF st = 0 \/ st > 15 THEN 16
                    ELSE IF st + 1 > 15 THEN 15 ELSE st + 1

\* parse_ntp_packet: length, version, mode and stratum of the packet.
ParseNtpPacket(p) == p.body.form # "unparsable"

\* The four timestamps of an exchange, T1 = 0, and what
\* calculate_delay_offset makes of them.
Measured(b) == CalculateDelayOffset(0, b.out + b.theta, b.out + b.theta + b.said,
                                    b.out + b.hold + b.back)

\* Mutant of Verdict: the originate timestamp is not compared.
VerdictNoOriginate(p) ==
    IF ~ParseNtpPacket(p) THEN "unparsable"
    ELSE IF p.body.li = 3 THEN "unsynchronised"
    ELSE IF p.body.form # "fine" THEN p.body.form
    ELSE IF ~Measured(p.body).ok THEN "delay"
    ELSE IF p.body.st = 0 \/ p.body.st > 15 THEN "stratum"
    ELSE IF Magnitude(Measured(p.body).offset) > MAXDIST THEN "far"
    ELSE IF Measured(p.body).delay > 10 * MAXDIST THEN "slow"
    ELSE "accept"

\* The first check of sync_ntp_time that packet p fails, in the code's order:
\* parse_ntp_packet, handle_leap_indicator, mode, originate timestamp, transmit
\* timestamp, calculate_delay_offset, stratum, MAXDIST, delay.
Verdict(p) ==
    IF ~ParseNtpPacket(p) THEN "unparsable"
    ELSE IF p.body.li = 3 THEN "unsynchronised"
    ELSE IF p.body.form = "mode" THEN "mode"
    ELSE IF p.orig # t1 THEN "originate"
    ELSE IF p.body.form = "xmit0" THEN "xmit0"
    ELSE IF ~Measured(p.body).ok THEN "delay"
    ELSE IF p.body.st = 0 \/ p.body.st > 15 THEN "stratum"
    ELSE IF Magnitude(Measured(p.body).offset) > MAXDIST THEN "far"
    ELSE IF Measured(p.body).delay > 10 * MAXDIST THEN "slow"
    ELSE "accept"

-----------------------------------------------------------------------------
(* main: the round over the servers                                         *)

\* n units pass: every next_allowed_sync comes closer.
Elapse(w, n) == [s \in Servers |-> IF w[s] > n THEN w[s] - n ELSE 0]

NextServer == IF srv < NServers THEN pcM' = "pick" /\ srv' = srv + 1
                                ELSE pcM' = "sleep" /\ srv' = 1

\* sync_ntp_time returns: its locals are gone and main goes on.
Return == t1' = NoId /\ pkt' = NoPacket /\ NextServer

\* Mutant of Fail: the time the exchange took is added instead of counted.
FailTwice(n) == /\ wait' = [Elapse(wait, n) EXCEPT ![srv] = RetryUnits + n]
                /\ Return

\* sync_ntp_time returned -1 after n units. The retry time counts from the
\* clock reading main took before the call.
Fail(n) == /\ wait' = [Elapse(wait, n) EXCEPT ![srv] = RetryUnits - n]
           /\ Return

\* start_tcp_listener: create_tcp_socket listens on the datagram socket that
\* network4_create_socket made, which always fails and leaves errno set, and so
\* does any call that fails before it; the listener thread is never started. A
\* value FALSE of ErrnoAtLoop looks behind the port test that this decides.
StartTcpListener ==
    /\ pcM = "listen"
    /\ err' \in ErrnoAtLoop
    /\ pcM' = "pick"
    /\ UNCHANGED <<g_mutex, srv, wait, t1, pkt, net, state, aux>>

\* A server in its retry interval is skipped.
PickServer ==
    /\ pcM = "pick"
    /\ IF wait[srv] = 0 THEN pcM' = "port" /\ UNCHANGED srv ELSE NextServer
    /\ UNCHANGED <<g_mutex, err, wait, t1, pkt, net, state, aux>>

\* The port test of sync_ntp_time looks at an errno that strtol has not set.
PortRejected ==
    /\ pcM = "port"
    /\ err
    /\ Fail(0)
    /\ UNCHANGED <<g_mutex, err, net, state, aux>>

\* The socket, the resolver, setsockopt or sendto fails.
SendFails ==
    /\ pcM = "port"
    /\ ~err
    /\ Faulty
    /\ err' \in BOOLEAN
    /\ Fail(0)
    /\ UNCHANGED <<g_mutex, net, state, aux>>

\* Identifiers some packet under way still carries.
LiveIds == {r.orig : r \in pending} \cup {queue[i].orig : i \in DOMAIN queue}

\* create_ntp_request and sendto.
SendRequest ==
    /\ pcM = "port"
    /\ ~err
    /\ \E id \in Ids \ LiveIds :
          /\ t1' = id
          /\ pending' = pending \cup {[to |-> srv, orig |-> id]}
    /\ pcM' = "recv"
    /\ UNCHANGED <<g_mutex, srv, err, wait, pkt, queue, dups, state, aux>>

\* recvfrom returns the oldest datagram, whoever sent it.
Receive ==
    /\ pcM = "recv"
    /\ queue # <<>>
    /\ pkt' = Head(queue)
    /\ queue' = Tail(queue)
    /\ pcM' = "reach"
    /\ UNCHANGED <<g_mutex, srv, err, wait, t1, pending, dups, state, aux>>

\* SO_RCVTIMEO expires: EAGAIN, after one unit.
ReceiveTimeout ==
    /\ pcM = "recv"
    /\ queue = <<>>
    /\ Faulty \/ pending = {}
    /\ err' = TRUE
    /\ Fail(1)
    /\ UNCHANGED <<g_mutex, pending, queue, dups, state, aux>>

\* The server main queried is marked reachable, in one critical section.
MarkReachable ==
    /\ pcM = "reach"
    /\ CanLock(g_mutex, "main")
    /\ reachable' = [reachable EXCEPT ![srv] = TRUE]
    /\ pcM' = "check"
    /\ UNCHANGED <<g_mutex, local, net, state, leap>>

\* parse_ntp_packet reads the caller's uninitialised packet as a possible
\* Kiss-o'-Death before it parses: the garbage may make it give up.
ParseGarbage ==
    /\ pcM = "check"
    /\ Fail(0)
    /\ UNCHANGED <<g_mutex, err, net, state, aux>>

\* handle_leap_indicator schedules the event of LI 1 or 2 before the packet
\* has been matched with the request.
CheckPacket ==
    /\ pcM = "check"
    /\ leap' = (leap \/ (Verdict(pkt) # "unparsable" /\ pkt.body.li \in {1, 2}))
    /\ \/ /\ Verdict(pkt) \in {"unparsable", "unsynchronised", "mode", "originate", "xmit0", "delay"}
          /\ Fail(0)
       \/ /\ Verdict(pkt) \in {"stratum", "far", "slow"}
          /\ pcM' = "demote"
          /\ UNCHANGED <<srv, wait, t1, pkt>>
       \/ /\ Verdict(pkt) = "accept"
          /\ pcM' = "sample"
          /\ UNCHANGED <<srv, wait, t1, pkt>>
    /\ UNCHANGED <<g_mutex, err, net, state, reachable>>

\* An unreliable answer withdraws the synchronised state; an excessive delay
\* leaves the stratum as it was.
Demote ==
    /\ pcM = "demote"
    /\ CanLock(g_mutex, "main")
    /\ synced' = FALSE
    /\ stratum' = IF Verdict(pkt) = "slow" THEN stratum ELSE 16
    /\ Fail(0)
    /\ UNCHANGED <<g_mutex, err, net, head, tail, aux>>

-----------------------------------------------------------------------------
(* main: an accepted reply                                                  *)

\* marx_add_sample_us and marx_filter_outliers (module MarxFilter: the filter
\* leaves at least one sample, so the branch for none is not taken).
AddSample ==
    /\ pcM = "sample"
    /\ CanLock(g_mutex, "main")
    /\ pcM' = "poll"
    /\ UNCHANGED <<g_mutex, local, net, state, aux>>

\* The poll interval is stored and g_mutex unlocked, which main never locked.
UpdatePoll ==
    /\ pcM = "poll"
    /\ g_mutex' = AfterUnlock(g_mutex, "main")
    /\ pcM' = "apply"
    /\ UNCHANGED <<local, net, state, aux>>

\* apply_time_correction_slew_or_step; its result is only logged.
ApplyCorrection ==
    /\ pcM = "apply"
    /\ pcM' = "freqlock"
    /\ UNCHANGED <<g_mutex, local, net, state, aux>>

\* The lock calls of update_frequency_discipline and of the publication, with
\* those of the callees ntp_offset_jitter_us_locked and update_root_dispersion.
LockNext == [freqlock |-> "jitlock", jitlock |-> "jitunlock", publock |-> "pubhead",
             jit2lock |-> "jit2unlock", displock |-> "dispunlock"]

UnlockNext == [jitunlock |-> "frequnlock", frequnlock |-> "publock",
               jit2unlock |-> "displock", dispunlock |-> "pubtail",
               pubunlock |-> "leapcheck"]

MainLock ==
    /\ pcM \in DOMAIN LockNext
    /\ CanLock(g_mutex, "main")
    /\ g_mutex' = AfterLock(g_mutex, "main")
    /\ pcM' = LockNext[pcM]
    /\ UNCHANGED <<local, net, state, aux>>

MainUnlock ==
    /\ pcM \in DOMAIN UnlockNext
    /\ g_mutex' = AfterUnlock(g_mutex, "main")
    /\ pcM' = UnlockNext[pcM]
    /\ UNCHANGED <<local, net, state, aux>>

\* g_time_synced, g_local_stratum, g_last_sync_ts, g_local_ref_ts, root delay.
PublishHead ==
    /\ pcM = "pubhead"
    /\ stratum' = LocalStratum(pkt.body.st)
    /\ synced' = (stratum' <= 15)
    /\ head' = t1
    /\ pcM' = "jit2lock"
    /\ UNCHANGED <<g_mutex, local, net, tail, aux>>

\* g_local_root_disp, g_local_li, g_local_ref_id.
PublishTail ==
    /\ pcM = "pubtail"
    /\ tail' = t1
    /\ pcM' = "pubunlock"
    /\ UNCHANGED <<g_mutex, local, net, synced, stratum, head, aux>>

\* leap_second_integration_check, then return 0: the server may be queried
\* again in the next round.
FinishSync ==
    /\ pcM = "leapcheck"
    /\ wait' = [wait EXCEPT ![srv] = 0]
    /\ Return
    /\ UNCHANGED <<g_mutex, err, net, state, aux>>

SleepInterval ==
    /\ pcM = "sleep"
    /\ wait' = Elapse(wait, SleepUnits)
    /\ pcM' = "pick"
    /\ UNCHANGED <<g_mutex, srv, err, t1, pkt, net, state, aux>>

-----------------------------------------------------------------------------
(* the network and the servers (external)                                   *)

\* A server answers a request; the network may deliver the answer once more
\* later. A full socket buffer drops it.
ServerReply ==
    \E r \in pending, b \in Bodies :
        /\ queue' = IF Len(queue) < MaxQueue
                    THEN Append(queue, [from |-> r.to, orig |-> r.orig, body |-> b])
                    ELSE queue
        /\ \/ pending' = pending \ {r} /\ UNCHANGED dups
           \/ dups < MaxDup /\ dups' = dups + 1 /\ UNCHANGED pending
        /\ UNCHANGED <<g_mutex, pcM, local, state, aux>>

\* A request, or the answer to it, is lost.
LoseRequest ==
    /\ Faulty
    /\ \E r \in pending : pending' = pending \ {r}
    /\ UNCHANGED <<g_mutex, pcM, local, queue, dups, state, aux>>

-----------------------------------------------------------------------------
Init ==
    /\ g_mutex = FreeMutex
    /\ pcM = "listen"
    /\ srv = 1
    /\ err \in BOOLEAN
    /\ wait = [s \in Servers |-> 0]
    /\ t1 = NoId
    /\ pkt = NoPacket
    /\ pending = {} /\ queue = <<>>
    /\ dups = 0
    /\ reachable = [s \in Servers |-> FALSE]
    /\ leap = FALSE
    /\ synced = FALSE /\ stratum = 16 /\ head = NoId /\ tail = NoId

MainStep == \/ StartTcpListener \/ PickServer \/ PortRejected \/ SendFails \/ SendRequest
            \/ Receive \/ ReceiveTimeout \/ MarkReachable \/ ParseGarbage \/ CheckPacket
            \/ Demote \/ AddSample \/ UpdatePoll \/ ApplyCorrection \/ MainLock
            \/ MainUnlock \/ PublishHead \/ PublishTail \/ FinishSync \/ SleepInterval

Next == MainStep \/ ServerReply \/ LoseRequest

Spec == Init /\ [][Next]_vars

-----------------------------------------------------------------------------
(* Properties                                                               *)

\* Every variable stays in its domain.
TypeOK ==
    /\ g_mutex \in Mutexes(Threads)
    /\ pcM \in {"listen", "pick", "port", "recv", "reach", "check", "demote", "sample",
               "poll", "apply", "freqlock", "jitlock", "jitunlock", "frequnlock", "publock",
               "pubhead", "jit2lock", "jit2unlock", "displock", "dispunlock", "pubtail",
               "pubunlock", "leapcheck", "sleep"}
    /\ srv \in Servers
    /\ err \in BOOLEAN
    /\ wait \in [Servers -> 0..RetryUnits]
    /\ t1 \in Ids \cup {NoId}
    /\ pkt \in Packets \cup {NoPacket}
    /\ pending \subseteq [to : Servers, orig : Ids]
    /\ queue \in Seq(Packets)
    /\ dups \in 0..MaxDup
    /\ reachable \in [Servers -> BOOLEAN]
    /\ leap \in BOOLEAN
    /\ synced \in BOOLEAN
    /\ stratum \in 1..16
    /\ head \in Ids \cup {NoId}
    /\ tail \in Ids \cup {NoId}

\* Where main works with a reply that has passed all checks.
Accepted == pcM \in {"sample", "poll", "apply", "freqlock", "jitlock", "jitunlock",
                      "frequnlock", "publock", "pubhead", "jit2lock", "jit2unlock",
                      "displock", "dispunlock", "pubtail", "pubunlock", "leapcheck"}

\* The clock is corrected, and the state published, only from the answer of
\* the server main has just queried to the request it has just sent, although
\* all servers share a socket that is never drained and the sender's address
\* is not looked at: duplicates and answers to earlier requests never count.
CorrectionAnswersRequest ==
    Accepted => pkt.orig = t1 /\ pkt.from = srv /\ pkt.body.st \in 1..15

\* The offset main corrects the clock by is the offset of the server's clock
\* up to half the measured round trip and the rounding of the integer
\* divisions, however the trip divides into its two ways, for every server
\* that states truthfully how long it held the request.
CorrectionAccurate ==
    Accepted /\ pkt.body.said = pkt.body.hold =>
        2 * Magnitude(NS_PER_US * Measured(pkt.body).offset - pkt.body.theta)
            <= NS_PER_US * (Measured(pkt.body).delay + 3)

\* The man page: the daemon "synchronizes the system clock with external NTP
\* servers". At some time main waits for the answer to a request it has sent.
RequestsGoOut == <>(pcM = "recv")

\* The scheduler runs the main thread, and servers answer.
LiveSpec == Spec /\ WF_vars(MainStep) /\ WF_vars(ServerReply)

=============================================================================
