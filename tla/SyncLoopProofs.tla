--------------------------- MODULE SyncLoopProofs ---------------------------
(***************************************************************************)
(* For every number of servers, every reply, every loss and duplication:   *)
(* only the answer to the current request corrects the clock, by an offset *)
(* within half the measured round trip. The theorems hold for every kind   *)
(* of mutex and whatever errno main enters its loop with.                  *)
(***************************************************************************)
EXTENDS SyncLoop, SequenceTheorems, TLAPS

USE SyncAssumption, OnWireAssumption, KindAssumption

-----------------------------------------------------------------------------
(* The arithmetic of calculate_delay_offset                                 *)

\* Integer division of C is off by less than the divisor.
LEMMA QuotientBounds ==
    ASSUME NEW a \in Int, NEW b \in Nat \ {0}
    PROVE  /\ Quotient(a, b) \in Int
           /\ b * Quotient(a, b) \in Int
           /\ b * Quotient(a, b) - a <= b - 1
           /\ a - b * Quotient(a, b) <= b - 1
  <1>1. ASSUME NEW n \in Nat
        PROVE  n \div b \in Nat /\ b * (n \div b) <= n /\ n <= b * (n \div b) + b - 1
    OBVIOUS
  <1>2. CASE a >= 0
    BY <1>1, <1>2 DEF Quotient
  <1>3. CASE a < 0
    <2>1. -a \in Nat
      BY <1>3
    <2> DEFINE q == (-a) \div b
    <2>2. q \in Nat /\ b * q <= -a /\ -a <= b * q + b - 1
      BY <1>1, <2>1
    <2>3. Quotient(a, b) = -q
      BY <1>3 DEF Quotient
    <2>4. b * (-q) = -(b * q)
      BY <2>2
    <2> QED
      BY <2>2, <2>3, <2>4
  <1> QED
    BY <1>2, <1>3

\* The measured offset of a truthful server is its clock's offset, up to half
\* of the measured round trip and three roundings.
LEMMA OffsetAccurate ==
    ASSUME NEW b \in ReplyBodies, b.said = b.hold
    PROVE  2 * Magnitude(NS_PER_US * Measured(b).offset - b.theta)
               <= NS_PER_US * (Measured(b).delay + 3)
  <1> DEFINE N  == NS_PER_US
             d  == b.out + b.back
             e  == 2 * b.theta + b.out - b.back
             q  == Quotient(e, 2)
             o  == Quotient(q, N)
             dl == Quotient(d, N)
  <1>1. /\ b.theta \in Int /\ b.out \in Nat /\ b.back \in Nat /\ b.hold \in Nat
        /\ N \in Nat \ {0} /\ d \in Int /\ e \in Int
    BY DEF ReplyBodies
  <1>2. Measured(b).offset = o /\ Measured(b).delay = dl
    <2>1. DelayNs(0, b.out + b.theta, b.out + b.theta + b.said, b.out + b.hold + b.back) = d
      BY <1>1 DEF DelayNs
    <2>2. OffsetNs(0, b.out + b.theta, b.out + b.theta + b.said, b.out + b.hold + b.back) = q
      <3>1. ((b.out + b.theta) - 0) + ((b.out + b.theta + b.said) - (b.out + b.hold + b.back)) = e
        BY <1>1
      <3> QED
        BY <3>1 DEF OffsetNs
    <2> QED
      BY <2>1, <2>2 DEF Measured, CalculateDelayOffset
  <1>3. q \in Int /\ 2 * q - e <= 1 /\ e - 2 * q <= 1
    BY <1>1, QuotientBounds
  <1>4. o \in Int /\ N * o \in Int /\ N * o - q <= N - 1 /\ q - N * o <= N - 1
    BY <1>1, <1>3, QuotientBounds
  <1>5. dl \in Int /\ N * dl \in Int /\ d - N * dl <= N - 1
    BY <1>1, QuotientBounds
  <1>6. N * (dl + 3) = N * dl + 3 * N
    BY <1>1, <1>5
  <1> HIDE DEF q, o, dl, N
  <1>7. 2 * Magnitude(N * o - b.theta) <= N * dl + 3 * N
    BY <1>1, <1>3, <1>4, <1>5 DEF Magnitude
  <1> QED
    BY <1>2, <1>6, <1>7 DEF N

-----------------------------------------------------------------------------
(* Types                                                                    *)

\* Time that passes keeps the retry times in their range.
LEMMA ElapseTyped ==
    ASSUME wait \in [Servers -> 0..RetryUnits], NEW n \in Nat
    PROVE  Elapse(wait, n) \in [Servers -> 0..RetryUnits]
  BY DEF Elapse

\* The round goes on to a server there is, or to its end.
LEMMA NextServerTyped ==
    ASSUME srv \in Servers, NextServer
    PROVE  srv' \in Servers /\ pcM' \in {"pick", "sleep"}
  BY DEF NextServer, Servers

\* A failed exchange: one retry interval, counted from before the exchange.
LEMMA FailTyped ==
    ASSUME TypeOK, NEW n \in {0, 1}, Fail(n)
    PROVE  /\ wait' \in [Servers -> 0..RetryUnits] /\ srv' \in Servers
           /\ pcM' \in {"pick", "sleep"} /\ t1' = NoId /\ pkt' = NoPacket
  <1>1. srv' \in Servers /\ pcM' \in {"pick", "sleep"} /\ t1' = NoId /\ pkt' = NoPacket
    BY NextServerTyped DEF Fail, Return, TypeOK
  <1>2. wait' \in [Servers -> 0..RetryUnits]
    <2>1. Elapse(wait, n) \in [Servers -> 0..RetryUnits]
      BY ElapseTyped DEF TypeOK
    <2>2. RetryUnits - n \in 0..RetryUnits
      OBVIOUS
    <2> QED
      BY <2>1, <2>2 DEF Fail
  <1> QED
    BY <1>1, <1>2

\* The local stratum is one of a synchronised server, or 16.
LEMMA LocalStratumRange ==
    ASSUME NEW st \in 0..16
    PROVE  LocalStratum(st) \in 1..16 /\ (st \in 1..15 => LocalStratum(st) \in 2..15)
  BY DEF LocalStratum

\* Lock and unlock by a thread of the daemon keep the mutex a mutex.
LEMMA MutexTyped ==
    ASSUME NEW m \in Mutexes(Threads), NEW t \in Threads
    PROVE  AfterLock(m, t) \in Mutexes(Threads) /\ AfterUnlock(m, t) \in Mutexes(Threads)
  BY DEF Mutexes, AfterLock, AfterUnlock, FreeMutex

\* The threads and the places of main that the type invariant names.
Places == {"listen", "pick", "port", "recv", "reach", "check", "demote", "sample",
           "poll", "apply", "freqlock", "jitlock", "jitunlock", "frequnlock", "publock",
           "pubhead", "jit2lock", "jit2unlock", "displock", "dispunlock", "pubtail",
           "pubunlock", "leapcheck", "sleep"}

\* The parts of TypeOK that the parts of a step touch.
MainType ==
    /\ pcM \in Places /\ srv \in Servers
    /\ wait \in [Servers -> 0..RetryUnits]
    /\ t1 \in Ids \cup {NoId} /\ pkt \in Packets \cup {NoPacket}

NetType ==
    /\ pending \subseteq [to : Servers, orig : Ids]
    /\ queue \in Seq(Packets)
    /\ dups \in 0..MaxDup

FlagType == err \in BOOLEAN /\ leap \in BOOLEAN /\ reachable \in [Servers -> BOOLEAN]

StateType == /\ synced \in BOOLEAN /\ stratum \in 1..16
             /\ head \in Ids \cup {NoId} /\ tail \in Ids \cup {NoId}

MutexType == g_mutex \in Mutexes(Threads)

\* TypeOK is the conjunction of its parts, before and after a step.
LEMMA TypeParts ==
    /\ TypeOK <=> MainType /\ NetType /\ FlagType /\ StateType /\ MutexType
    /\ TypeOK' <=> MainType' /\ NetType' /\ FlagType' /\ StateType' /\ MutexType'
  BY DEF TypeOK, MainType, NetType, FlagType, StateType, MutexType, Places

\* Every step keeps main's locals in their domains.
LEMMA MainTypeStep == TypeOK /\ [Next]_vars => MainType'
  <1> SUFFICES ASSUME TypeOK, [Next]_vars PROVE MainType'
    OBVIOUS
  <1> USE TypeParts DEF MainType, Places
  <1>1. CASE PortRejected \/ SendFails \/ ParseGarbage \/ Demote
    BY <1>1, FailTyped DEF PortRejected, SendFails, ParseGarbage, Demote
  <1>2. CASE ReceiveTimeout
    BY <1>2, FailTyped DEF ReceiveTimeout
  <1>3. CASE CheckPacket
    BY <1>3, FailTyped DEF CheckPacket
  <1>4. CASE StartTcpListener
    BY <1>4 DEF StartTcpListener
  <1>5. CASE PickServer
    BY <1>5, NextServerTyped DEF PickServer
  <1>6. CASE SendRequest
    BY <1>6 DEF SendRequest
  <1>7. CASE Receive
    <2>1. Head(queue) \in Packets
      BY <1>7, HeadTailProperties DEF Receive, NetType
    <2> QED
      BY <1>7, <2>1 DEF Receive
  <1>8. CASE MarkReachable \/ AddSample \/ UpdatePoll \/ ApplyCorrection
    BY <1>8 DEF MarkReachable, AddSample, UpdatePoll, ApplyCorrection, local
  <1>9. CASE MainLock
    BY <1>9 DEF MainLock, LockNext, local
  <1>10. CASE MainUnlock
    BY <1>10 DEF MainUnlock, UnlockNext, local
  <1>11. CASE PublishHead \/ PublishTail
    BY <1>11 DEF PublishHead, PublishTail, local
  <1>12. CASE FinishSync
    <2>1. [wait EXCEPT ![srv] = 0] \in [Servers -> 0..RetryUnits]
      OBVIOUS
    <2> QED
      BY <1>12, <2>1, NextServerTyped DEF FinishSync, Return
  <1>13. CASE SleepInterval
    BY <1>13, ElapseTyped DEF SleepInterval
  <1>14. CASE ServerReply \/ LoseRequest \/ UNCHANGED vars
    BY <1>14 DEF ServerReply, LoseRequest, local, vars
  <1> QED
    BY <1>1, <1>2, <1>3, <1>4, <1>5, <1>6, <1>7, <1>8, <1>9, <1>10, <1>11, <1>12, <1>13, <1>14
    DEF Next, MainStep

\* Every step keeps the network in its domain.
LEMMA NetTypeStep == TypeOK /\ [Next]_vars => NetType'
  <1> SUFFICES ASSUME TypeOK, [Next]_vars PROVE NetType'
    OBVIOUS
  <1> USE TypeParts DEF NetType
  <1>1. CASE SendRequest
    BY <1>1 DEF SendRequest, MainType
  <1>2. CASE Receive
    BY <1>2, HeadTailProperties DEF Receive
  <1>3. CASE ServerReply
    <2>1. PICK r \in pending, x \in Bodies :
            /\ queue' = IF Len(queue) < MaxQueue
                        THEN Append(queue, [from |-> r.to, orig |-> r.orig, body |-> x])
                        ELSE queue
            /\ \/ pending' = pending \ {r} /\ UNCHANGED dups
               \/ dups < MaxDup /\ dups' = dups + 1 /\ UNCHANGED pending
      BY <1>3 DEF ServerReply
    <2>2. [from |-> r.to, orig |-> r.orig, body |-> x] \in Packets
      BY DEF Packets
    <2>3. queue' \in Seq(Packets)
      BY <2>1, <2>2, AppendProperties
    <2> QED
      BY <2>1, <2>3
  <1>4. CASE LoseRequest
    BY <1>4 DEF LoseRequest
  <1>5. CASE UNCHANGED net
    BY <1>5 DEF net
  <1>6. SendRequest \/ Receive \/ ServerReply \/ LoseRequest \/ UNCHANGED net
    BY DEF Next, MainStep, StartTcpListener, PickServer, PortRejected, SendFails, ReceiveTimeout,
           MarkReachable, ParseGarbage, CheckPacket, Demote, AddSample, UpdatePoll, ApplyCorrection,
           MainLock, MainUnlock, PublishHead, PublishTail, FinishSync, SleepInterval, net, vars
  <1> QED
    BY <1>1, <1>2, <1>3, <1>4, <1>5, <1>6

\* Every step keeps the flags flags.
LEMMA FlagTypeStep == TypeOK /\ [Next]_vars => FlagType'
  <1> SUFFICES ASSUME TypeOK, [Next]_vars PROVE FlagType'
    OBVIOUS
  <1> USE TypeParts DEF FlagType
  <1>1. CASE StartTcpListener
    BY <1>1 DEF StartTcpListener, aux
  <1>2. CASE SendFails
    BY <1>2 DEF SendFails, aux
  <1>3. CASE ReceiveTimeout
    BY <1>3 DEF ReceiveTimeout, aux
  <1>4. CASE MarkReachable
    BY <1>4 DEF MarkReachable, local
  <1>5. CASE CheckPacket
    <2>1. leap' \in BOOLEAN
      BY <1>5 DEF CheckPacket
    <2> QED
      BY <1>5, <2>1 DEF CheckPacket
  <1>6. CASE UNCHANGED <<err, aux>>
    BY <1>6 DEF aux
  <1>7. \/ StartTcpListener \/ SendFails \/ ReceiveTimeout \/ MarkReachable \/ CheckPacket
        \/ UNCHANGED <<err, aux>>
    BY DEF Next, MainStep, PickServer, PortRejected, SendRequest, Receive, ParseGarbage, Demote,
           AddSample, UpdatePoll, ApplyCorrection, MainLock, MainUnlock, PublishHead, PublishTail,
           FinishSync, SleepInterval, ServerReply, LoseRequest, local, aux, vars
  <1> QED
    BY <1>1, <1>2, <1>3, <1>4, <1>5, <1>6, <1>7

-----------------------------------------------------------------------------
(* The answer belongs to the request                                        *)

Between == {"listen", "pick", "port", "sleep"}

\* Where sync_ntp_time has a request and a packet, and which packet.
RequestInv ==
    /\ pcM \in Between <=> t1 = NoId
    /\ pcM \in Between \cup {"recv"} => pkt = NoPacket
    /\ pcM \notin Between \cup {"recv"} => pkt \in Packets
    /\ Accepted => Verdict(pkt) = "accept"

\* Whatever still carries the current identifier, among requests, queued
\* datagrams and the packet received, belongs to the server main is at.
OriginInv ==
    /\ \A r \in pending : r.orig = t1 => r.to = srv
    /\ \A i \in DOMAIN queue : queue[i].orig = t1 => queue[i].from = srv
    /\ pkt # NoPacket => (pkt.orig = t1 => pkt.from = srv)

\* A packet is not the lack of one.
LEMMA PacketsReal == NoPacket \notin Packets
  BY DEF NoPacket, Packets, Servers

\* What a failed or finished exchange leaves: no request, no packet.
LEMMA FailReturns ==
    ASSUME TypeOK, NEW n \in {0, 1}, Fail(n)
    PROVE  RequestInv'
  BY FailTyped DEF RequestInv, Between, Accepted

\* Every step keeps request and packet where they belong.
LEMMA RequestStep == TypeOK /\ RequestInv /\ [Next]_vars => RequestInv'
  <1> SUFFICES ASSUME TypeOK, RequestInv, [Next]_vars PROVE RequestInv'
    OBVIOUS
  <1>1. CASE PortRejected \/ SendFails \/ ParseGarbage \/ Demote \/ ReceiveTimeout
    BY <1>1, FailReturns DEF PortRejected, SendFails, ParseGarbage, Demote, ReceiveTimeout
  <1>2. CASE CheckPacket
    <2>1. CASE Fail(0)
      BY <2>1, FailReturns
    <2>2. CASE pcM' = "demote" /\ UNCHANGED <<t1, pkt>>
      BY <1>2, <2>2 DEF CheckPacket, RequestInv, Between, Accepted
    <2>3. CASE Verdict(pkt) = "accept" /\ pcM' = "sample" /\ UNCHANGED <<t1, pkt>>
      <3>1. Verdict(pkt)' = "accept"
        BY <2>3 DEF Verdict, Measured, ParseNtpPacket
      <3> QED
        BY <1>2, <2>3, <3>1 DEF CheckPacket, RequestInv, Between, Accepted
    <2> QED
      BY <1>2, <2>1, <2>2, <2>3 DEF CheckPacket
  <1>3. CASE StartTcpListener
    BY <1>3 DEF StartTcpListener, RequestInv, Between, Accepted
  <1>4. CASE PickServer
    BY <1>4 DEF PickServer, NextServer, RequestInv, Between, Accepted
  <1>5. CASE SendRequest
    BY <1>5 DEF SendRequest, RequestInv, Between, Accepted
  <1>6. CASE Receive
    <2>1. Head(queue) \in Packets
      BY <1>6, HeadTailProperties DEF Receive, TypeOK
    <2> QED
      BY <1>6, <2>1 DEF Receive, RequestInv, Between, Accepted
  <1>7. CASE MarkReachable
    BY <1>7 DEF MarkReachable, RequestInv, Between, Accepted, local
  <1>8. CASE FinishSync
    <2>1. pcM' \in {"pick", "sleep"} /\ t1' = NoId /\ pkt' = NoPacket
      BY <1>8, NextServerTyped DEF FinishSync, Return, TypeOK
    <2> QED
      BY <2>1 DEF RequestInv, Between, Accepted
  <1>9. CASE SleepInterval
    BY <1>9 DEF SleepInterval, RequestInv, Between, Accepted
  <1>10. CASE UNCHANGED local /\ ((Accepted /\ Accepted') \/ UNCHANGED pcM)
    <2>1. Verdict(pkt)' = Verdict(pkt)
      BY <1>10 DEF local, Verdict, Measured, ParseNtpPacket
    <2> QED
      BY <1>10, <2>1 DEF local, RequestInv, Between, Accepted
  <1>11. CASE AddSample \/ UpdatePoll \/ ApplyCorrection \/ PublishHead \/ PublishTail
    BY <1>11, <1>10 DEF AddSample, UpdatePoll, ApplyCorrection, PublishHead, PublishTail, Accepted
  <1>12. CASE MainLock
    BY <1>12, <1>10 DEF MainLock, LockNext, Accepted
  <1>13. CASE MainUnlock
    BY <1>13, <1>10 DEF MainUnlock, UnlockNext, Accepted
  <1>14. CASE ServerReply \/ LoseRequest \/ UNCHANGED vars
    BY <1>14, <1>10 DEF ServerReply, LoseRequest, vars
  <1> QED
    BY <1>1, <1>2, <1>3, <1>4, <1>5, <1>6, <1>7, <1>8, <1>9, <1>11, <1>12, <1>13, <1>14
    DEF Next, MainStep

\* Every step keeps foreign packets apart: a request takes an identifier that
\* nothing under way carries, and main stays at its server until it is answered.
LEMMA OriginStep == TypeOK /\ RequestInv /\ RequestInv' /\ OriginInv /\ [Next]_vars => OriginInv'
  <1> SUFFICES ASSUME TypeOK, RequestInv, RequestInv', OriginInv, [Next]_vars PROVE OriginInv'
    OBVIOUS
  <1>0. /\ pending \subseteq [to : Servers, orig : Ids] /\ queue \in Seq(Packets)
        /\ \A i \in DOMAIN queue : queue[i] \in Packets
    BY ElementOfSeq DEF TypeOK
  <1>1. CASE t1' = NoId /\ UNCHANGED <<pending, queue>>
    <2>1. pkt' = NoPacket
      BY <1>1 DEF RequestInv
    <2> QED
      BY <1>0, <1>1, <2>1 DEF OriginInv, Packets
  <1>2. CASE UNCHANGED <<t1, srv, pkt, pending, queue>>
    BY <1>2 DEF OriginInv
  <1>3. CASE SendRequest
    BY <1>3 DEF SendRequest, LiveIds, OriginInv, RequestInv, Between
  <1>4. CASE Receive
    <2>1. queue # <<>> /\ queue' = Tail(queue) /\ pkt' = Head(queue)
      BY <1>4 DEF Receive
    <2>2. /\ pkt' = queue[1] /\ 1 \in DOMAIN queue
          /\ \A i \in DOMAIN queue' : i + 1 \in DOMAIN queue /\ queue'[i] = queue[i + 1]
      BY <1>0, <2>1, HeadTailProperties, LenProperties
    <2> QED
      BY <1>4, <2>2 DEF Receive, OriginInv
  <1>5. CASE ServerReply
    <2>1. PICK r \in pending, x \in Bodies :
            /\ queue' = IF Len(queue) < MaxQueue
                        THEN Append(queue, [from |-> r.to, orig |-> r.orig, body |-> x])
                        ELSE queue
            /\ pending' \subseteq pending
            /\ UNCHANGED <<t1, srv, pkt>>
      BY <1>5 DEF ServerReply, local
    <2> DEFINE p == [from |-> r.to, orig |-> r.orig, body |-> x]
    <2>2. p.from = r.to /\ p.orig = r.orig
      OBVIOUS
    <2>3. p.orig = t1 => p.from = srv
      BY <2>2 DEF OriginInv
    <2>4. p \in Packets
      BY <1>0 DEF Packets
    <2> HIDE DEF p
    <2>5. CASE Len(queue) < MaxQueue
      <3>1. queue' = Append(queue, p)
        BY <2>1, <2>5 DEF p
      <3>2. /\ DOMAIN queue' = 1 .. (Len(queue) + 1) /\ DOMAIN queue = 1 .. Len(queue)
            /\ \A i \in 1 .. Len(queue) : queue'[i] = queue[i]
            /\ queue'[Len(queue) + 1] = p
        BY <1>0, <2>4, <3>1, AppendProperties, LenProperties
      <3>3. \A i \in DOMAIN queue' : queue'[i] = p \/ (i \in DOMAIN queue /\ queue'[i] = queue[i])
        BY <1>0, <3>2, LenProperties
      <3> QED
        BY <2>1, <2>3, <3>3 DEF OriginInv
    <2>6. CASE ~(Len(queue) < MaxQueue)
      BY <2>1, <2>6 DEF OriginInv
    <2> QED
      BY <2>5, <2>6
  <1>6. CASE LoseRequest
    BY <1>6 DEF LoseRequest, OriginInv, local
  <1>7. CASE StartTcpListener \/ PickServer \/ PortRejected \/ SendFails \/ SleepInterval
    BY <1>7, <1>1 DEF StartTcpListener, PickServer, PortRejected, SendFails, SleepInterval, Fail,
                      Return, net, RequestInv, Between
  <1>8. CASE ReceiveTimeout \/ ParseGarbage \/ Demote \/ FinishSync
    BY <1>8, <1>1 DEF ReceiveTimeout, ParseGarbage, Demote, FinishSync, Fail, Return, net
  <1>9. CASE CheckPacket
    BY <1>9, <1>1, <1>2 DEF CheckPacket, Fail, Return, net
  <1>10. CASE \/ MarkReachable \/ AddSample \/ UpdatePoll \/ ApplyCorrection \/ MainLock \/ MainUnlock
              \/ PublishHead \/ PublishTail \/ UNCHANGED vars
    BY <1>10, <1>2 DEF MarkReachable, AddSample, UpdatePoll, ApplyCorrection, MainLock, MainUnlock,
                       PublishHead, PublishTail, local, net, vars
  <1> QED
    BY <1>3, <1>4, <1>5, <1>6, <1>7, <1>8, <1>9, <1>10 DEF Next, MainStep

-----------------------------------------------------------------------------
(* The rest of the type invariant                                           *)

\* Who writes the published state.
LEMMA StateActions == [Next]_vars => Demote \/ PublishHead \/ PublishTail \/ UNCHANGED state
  BY DEF Next, MainStep, StartTcpListener, PickServer, PortRejected, SendFails, SendRequest, Receive,
         ReceiveTimeout, MarkReachable, ParseGarbage, CheckPacket, AddSample, UpdatePoll,
         ApplyCorrection, MainLock, MainUnlock, FinishSync, SleepInterval, ServerReply, LoseRequest, state, vars

\* Every step keeps the published state in its domain.
LEMMA StateTypeStep == TypeOK /\ RequestInv /\ [Next]_vars => StateType'
  <1> SUFFICES ASSUME TypeOK, RequestInv, [Next]_vars PROVE StateType'
    OBVIOUS
  <1> USE TypeParts DEF StateType
  <1>1. CASE Demote
    <2>1. stratum' \in 1..16 /\ UNCHANGED <<head, tail>>
      BY <1>1 DEF Demote
    <2>2. synced' \in BOOLEAN
      BY <1>1, Zenon DEF Demote
    <2> QED
      BY <2>1, <2>2
  <1>2. CASE PublishHead
    <2>1. pkt \in Packets /\ t1 \in Ids \cup {NoId}
      BY <1>2 DEF PublishHead, RequestInv, Between, MainType
    <2>2. pkt.body.st \in 0..16
      BY <2>1 DEF Packets, ReplyBodies
    <2>3. stratum' \in 1..16
      BY <1>2, <2>2, LocalStratumRange DEF PublishHead
    <2>4. synced' \in BOOLEAN
      BY <1>2 DEF PublishHead
    <2> QED
      BY <1>2, <2>1, <2>3, <2>4 DEF PublishHead
  <1>3. CASE PublishTail
    BY <1>3 DEF PublishTail, MainType
  <1>4. CASE UNCHANGED state
    BY <1>4 DEF state
  <1> QED
    BY <1>1, <1>2, <1>3, <1>4, StateActions

\* Who touches g_mutex: the lock and unlock calls and nothing else.
LEMMA MutexActions ==
    [Next]_vars => UpdatePoll \/ MainLock \/ MainUnlock \/ UNCHANGED g_mutex
  BY DEF Next, MainStep, StartTcpListener, PickServer, PortRejected, SendFails, SendRequest, Receive,
         ReceiveTimeout, MarkReachable, ParseGarbage, CheckPacket, Demote, AddSample, ApplyCorrection,
         PublishHead, PublishTail, FinishSync, SleepInterval, ServerReply, LoseRequest, vars

\* Every step keeps g_mutex a mutex of the daemon's threads.
LEMMA MutexTypeStep == TypeOK /\ [Next]_vars => MutexType'
  <1> SUFFICES ASSUME TypeOK, [Next]_vars PROVE MutexType'
    OBVIOUS
  <1> USE TypeParts DEF MutexType
  <1>1. "main" \in Threads
    BY DEF Threads
  <1>2. CASE UpdatePoll \/ MainLock \/ MainUnlock
    BY <1>1, <1>2, MutexTyped DEF UpdatePoll, MainLock, MainUnlock
  <1> QED
    BY <1>2, MutexActions

-----------------------------------------------------------------------------
(* The inductive invariant                                                  *)

IInv == TypeOK /\ RequestInv /\ OriginInv

\* The daemon enters its loop with the invariant.
LEMMA InitInv == Init => IInv
  <1> SUFFICES ASSUME Init PROVE IInv
    OBVIOUS
  <1>1. MainType /\ NetType
    BY DEF Init, MainType, Places, NetType, Servers
  <1>2. FlagType
    BY Zenon DEF Init, FlagType
  <1>3. StateType
    <2>1. synced \in BOOLEAN
      BY Zenon DEF Init
    <2> QED
      BY <2>1 DEF Init, StateType
  <1>4. MutexType
    BY DEF Init, MutexType, Mutexes, FreeMutex
  <1>5. TypeOK
    BY <1>1, <1>2, <1>3, <1>4, TypeParts
  <1>6. RequestInv /\ OriginInv
    BY DEF Init, RequestInv, OriginInv, Between, Accepted
  <1> QED
    BY <1>5, <1>6 DEF IInv

\* Types, the exchange under way and the origin of what is under way hold in
\* every reachable state, for every kind of mutex.
THEOREM Invariance == Spec => []IInv
  <1>1. IInv /\ [Next]_vars => IInv'
    <2> SUFFICES ASSUME IInv, [Next]_vars PROVE IInv'
      OBVIOUS
    <2>1. TypeOK /\ RequestInv /\ OriginInv
      BY DEF IInv
    <2>2. TypeOK'
      BY <2>1, TypeParts, MainTypeStep, NetTypeStep, FlagTypeStep, StateTypeStep, MutexTypeStep
    <2>3. RequestInv'
      BY <2>1, RequestStep
    <2>4. OriginInv'
      BY <2>1, <2>3, OriginStep
    <2> QED
      BY <2>2, <2>3, <2>4 DEF IInv
  <1> QED
    BY <1>1, InitInv, PTL DEF Spec

\* Every variable of the loop stays in its domain.
THEOREM TypeCorrect == Spec => []TypeOK
  BY Invariance, PTL DEF IInv

\* A packet that passes the checks carries the identifier of the request and
\* a stratum of a synchronised server.
LEMMA AcceptedPacket ==
    ASSUME NEW p \in Packets, Verdict(p) = "accept"
    PROVE  p.orig = t1 /\ p.body.st \in 1..15
  <1>1. p.body.st \in 0..16
    BY DEF Packets, ReplyBodies
  <1>2. p.orig = t1 /\ ~(p.body.st = 0 \/ p.body.st > 15)
    BY DEF Verdict
  <1> QED
    BY <1>1, <1>2

\* sync_ntp_time corrects the clock and publishes only from the answer of the
\* server it queried to the request it sent, whatever else the shared socket
\* delivers.
THEOREM OnlyTheAnswerCorrects == Spec => []CorrectionAnswersRequest
  <1>1. IInv => CorrectionAnswersRequest
    <2> SUFFICES ASSUME IInv, Accepted
                 PROVE  pkt.orig = t1 /\ pkt.from = srv /\ pkt.body.st \in 1..15
      BY DEF CorrectionAnswersRequest
    <2>1. pkt \in Packets /\ Verdict(pkt) = "accept"
      BY DEF IInv, RequestInv, Between, Accepted
    <2>2. pkt.orig = t1 /\ pkt.body.st \in 1..15
      BY <2>1, AcceptedPacket
    <2> QED
      BY <2>1, <2>2, PacketsReal DEF IInv, OriginInv
  <1> QED
    BY <1>1, Invariance, PTL

\* The offset applied by sync_ntp_time is that of the server's clock up to half
\* the measured round trip and the roundings, for any way the trip divides.
THEOREM CorrectionIsAccurate == Spec => []CorrectionAccurate
  <1>1. IInv => CorrectionAccurate
    <2> SUFFICES ASSUME IInv, Accepted, pkt.body.said = pkt.body.hold
                 PROVE  2 * Magnitude(NS_PER_US * Measured(pkt.body).offset - pkt.body.theta)
                            <= NS_PER_US * (Measured(pkt.body).delay + 3)
      BY DEF CorrectionAccurate
    <2>1. pkt.body \in ReplyBodies
      BY DEF IInv, RequestInv, Between, Accepted, Packets
    <2> QED
      BY <2>1, OffsetAccurate
  <1> QED
    BY <1>1, Invariance, PTL

=============================================================================
