------------------------- MODULE ModeHandlerProofs --------------------------
(***************************************************************************)
(* For every size of the tables and of an address, every modes.conf, any   *)
(* number of request threads and every interleaving of their accesses: the *)
(* ACL stays within its array and no client outside its networks is        *)
(* answered against the default policy; and while requests come one after  *)
(* the other, no client the table can hold is answered within the          *)
(* interval.                                                               *)
(***************************************************************************)
EXTENDS ModeHandler, SequenceTheorems, WellFoundedInduction, FiniteSetTheorems, TLAPS

\* The sizes of the two arrays.
LEMMA Sizes == MAX_ACL_ENTRIES \in Nat \ {0} /\ MAX_RATE_LIMIT_ENTRIES \in Nat \ {0}
  BY ModeAssumption

USE Sizes

Slots == [ip : Clients, last : Nat]
Rules == [net : Networks, flags : SUBSET Flags]
Req   == [at : Steps, ip : Clients \cup {0}, mode : Modes, slot : Nat]

\* The clients of a table.
IpsOf(table) == {table[i].ip : i \in DOMAIN table}

\* No client has two slots.
Unique(table) == \A i, j \in DOMAIN table : table[i].ip = table[j].ip => i = j

-----------------------------------------------------------------------------
(* Operators                                                                *)

\* A set of natural numbers has a smallest element, which is its Min.
LEMMA MinIn ==
    ASSUME NEW S \in SUBSET Nat, S # {}
    PROVE  Min(S) \in S
  <1> DEFINE R == OpToRel(<, Nat)
  <1>1. IsWellFoundedOn(R, Nat)
    BY NatLessThanWellFounded
  <1>2. PICK x \in S : \A y \in S : <<y, x>> \notin R
    <2> HIDE DEF R
    <2> QED
      BY <1>1, WFMin
  <1>3. \A y \in S : ~(y < x)
    BY <1>2 DEF OpToRel
  <1>4. \A y \in S : x <= y
    BY <1>3
  <1> QED
    BY <1>4 DEF Min

\* rate_limit_find has one slot to find.
LEMMA FindUnique ==
    ASSUME NEW table \in Seq(Slots), Unique(table), NEW i \in DOMAIN table
    PROVE  Min(Entries(table, table[i].ip)) = i
  <1>1. Entries(table, table[i].ip) \subseteq DOMAIN table /\ DOMAIN table \subseteq Nat
    BY LenProperties DEF Entries
  <1>2. Entries(table, table[i].ip) = {i}
    BY DEF Entries, Unique
  <1>3. Min(Entries(table, table[i].ip)) \in {i}
    BY <1>1, <1>2, MinIn
  <1> QED
    BY <1>3

\* A sound table has as many clients as entries.
LEMMA IpsCounted ==
    ASSUME NEW table \in Seq(Slots), Unique(table)
    PROVE  IsFiniteSet(IpsOf(table)) /\ Cardinality(IpsOf(table)) = Len(table)
  <1> DEFINE f == [i \in 1 .. Len(table) |-> table[i].ip]
  <1>1. DOMAIN table = 1 .. Len(table) /\ Len(table) \in Nat
    BY LenProperties
  <1>2. f \in Bijection(1 .. Len(table), IpsOf(table))
    BY <1>1 DEF Bijection, Injection, Surjection, IsInjective, IpsOf, Unique
  <1>3. ExistsBijection(1 .. Len(table), IpsOf(table))
    BY <1>2 DEF ExistsBijection
  <1>4. IsFiniteSet(1 .. Len(table)) /\ Cardinality(1 .. Len(table)) = Len(table)
    BY <1>1, FS_Interval
  <1> QED
    BY <1>3, <1>4, FS_Bijection

\* acl_add_entry and acl_remove_entry keep the ACL within its array.
LEMMA AclSound ==
    ASSUME NEW table \in Seq(Rules), Len(table) <= MAX_ACL_ENTRIES, NEW net \in Networks
    PROVE  /\ AclAdd(table, net, {}) \in Seq(Rules) /\ Len(AclAdd(table, net, {})) <= MAX_ACL_ENTRIES
           /\ AclRemove(table, net) \in Seq(Rules) /\ Len(AclRemove(table, net)) <= MAX_ACL_ENTRIES
  <1>0. DOMAIN table = 1 .. Len(table) /\ Len(table) \in Nat /\ \A i \in 1 .. Len(table) : table[i] \in Rules
    BY LenProperties, ElementOfSeq
  <1>1. AclAdd(table, net, {}) \in Seq(Rules) /\ Len(AclAdd(table, net, {})) <= MAX_ACL_ENTRIES
    <2> DEFINE rule == [net |-> net, flags |-> {}]
    <2>1. rule \in Rules
      BY DEF Rules
    <2>2. Append(table, rule) \in Seq(Rules) /\ Len(Append(table, rule)) = Len(table) + 1
      BY <2>1, AppendProperties
    <2> QED
      BY <1>0, <2>2 DEF AclAdd
  <1>2. AclRemove(table, net) \in Seq(Rules) /\ Len(AclRemove(table, net)) <= MAX_ACL_ENTRIES
    <2> DEFINE hits == {i \in DOMAIN table : table[i].net = net}
    <2>1. CASE net.ip = 0 \/ hits = {}
      BY <2>1 DEF AclRemove
    <2>2. CASE ~(net.ip = 0 \/ hits = {})
      <3> DEFINE k == Min(hits)
                 a == SubSeq(table, 1, k - 1)
                 b == SubSeq(table, k + 1, Len(table))
      <3>0. hits \in SUBSET Nat /\ hits # {}
        BY <1>0, <2>2
      <3>1. k \in hits
        BY <3>0, MinIn, Zenon
      <3>2. k \in 1 .. Len(table)
        BY <1>0, <3>1
      <3>3. AclRemove(table, net) = a \o b
        BY <2>2 DEF AclRemove, RemoveAt
      <3> HIDE DEF k
      <3>4. a \in Seq(Rules) /\ Len(a) = k - 1
        BY <1>0, <3>2, SubSeqProperties
      <3>5. b \in Seq(Rules) /\ Len(b) = Len(table) - k
        <4>1. k + 1 \in Int /\ Len(table) \in Int /\ \A i \in (k + 1) .. Len(table) : table[i] \in Rules
          BY <1>0, <3>2
        <4>2. b \in Seq(Rules) /\ Len(b) = IF k + 1 <= Len(table) THEN Len(table) - (k + 1) + 1 ELSE 0
          <5>1. ASSUME NEW m \in Int, NEW n \in Int, \A i \in m .. n : table[i] \in Rules
                PROVE  /\ SubSeq(table, m, n) \in Seq(Rules)
                       /\ Len(SubSeq(table, m, n)) = IF m <= n THEN n - m + 1 ELSE 0
            BY <5>1, SubSeqProperties
          <5> QED
            BY <4>1, <5>1
        <4>3. ASSUME NEW n \in Nat, NEW x \in 1 .. n
              PROVE  (IF x + 1 <= n THEN n - (x + 1) + 1 ELSE 0) = n - x
          OBVIOUS
        <4> HIDE DEF b
        <4> QED
          BY <1>0, <3>2, <4>2, <4>3
      <3> HIDE DEF a, b
      <3>6. a \o b \in Seq(Rules) /\ Len(a \o b) = Len(a) + Len(b)
        BY <3>4, <3>5, ConcatProperties
      <3> QED
        BY <1>0, <3>2, <3>3, <3>4, <3>5, <3>6
    <2> QED
      BY <2>1, <2>2
  <1> QED
    BY <1>1, <1>2

\* The division of ip_in_network and the remainder of a prefix agree.
LEMMA PrefixEqual ==
    ASSUME NEW ip \in Nat, NEW n \in Networks, InNetwork(ip, n)
    PROVE  Prefix(ip, n.len) = Prefix(n.ip, n.len)
  <1>1. n.len \in 0 .. W /\ n.ip \in 0 .. (2^W - 1) /\ W \in Nat
    BY ModeAssumption DEF Networks
  <1>2. W - n.len \in 0 .. W
    BY <1>1
  <1> DEFINE s == 2^(W - n.len)
  <1>3. s \in Nat \ {0}
    BY <1>2, PowersAssumption
  <1>4. 2^W \in Nat
    BY <1>1, PowersAssumption
  <1>5. n.ip \in Nat
    BY <1>1, <1>4
  <1>6. ASSUME NEW a \in Nat, NEW d \in Nat \ {0} PROVE a - (a % d) = d * (a \div d)
    OBVIOUS
  <1>7. ip \div s = n.ip \div s
    BY DEF InNetwork
  <1> HIDE DEF s
  <1>8. ip - (ip % s) = n.ip - (n.ip % s)
    BY <1>3, <1>5, <1>6, <1>7
  <1> QED
    BY <1>8 DEF Prefix, s

\* A function on the first numbers is a sequence.
LEMMA FirstNumbers ==
    ASSUME NEW S, NEW n \in Nat, NEW f \in [1 .. n -> S]
    PROVE  f \in Seq(S) /\ Len(f) = n /\ DOMAIN f = 1 .. n
  <1>1. f \in Seq(S)
    BY SeqDef
  <1>2. DOMAIN f = 1 .. Len(f) /\ Len(f) \in Nat
    BY <1>1, LenProperties
  <1>3. DOMAIN f = 1 .. n
    OBVIOUS
  <1> QED
    BY <1>1, <1>2, <1>3

\* What rate_limit_insert does to a full table: the first entry is gone, the
\* others move down.
LEMMA EvictedSound ==
    ASSUME NEW table \in Seq(Slots), table # <<>>
    PROVE  /\ Evicted(table) \in Seq(Slots) /\ Len(Evicted(table)) = Len(table) - 1
           /\ DOMAIN Evicted(table) = 1 .. (Len(table) - 1)
           /\ Len(table) <= MAX_RATE_LIMIT_ENTRIES =>
                 \A i \in 1 .. (Len(table) - 1) : Evicted(table)[i] = table[i + 1]
  <1> DEFINE n == Len(table) - 1
  <1>1. Len(table) \in Nat \ {0} /\ DOMAIN table = 1 .. Len(table)
    BY LenProperties, EmptySeq
  <1>2. \A i \in 1 .. Len(table) : table[i] \in Slots
    BY ElementOfSeq
  <1>3. n \in Nat /\ \A i \in 1 .. n : i \in 1 .. Len(table) /\ i + 1 \in 1 .. Len(table)
    BY <1>1
  <1>4. Evicted(table) = [i \in 1 .. n |-> IF i < MAX_RATE_LIMIT_ENTRIES THEN table[i + 1] ELSE table[i]]
    BY DEF Evicted
  <1>5. Evicted(table) \in [1 .. n -> Slots]
    BY <1>2, <1>3, <1>4
  <1>6. Evicted(table) \in Seq(Slots) /\ Len(Evicted(table)) = n /\ DOMAIN Evicted(table) = 1 .. n
    BY <1>3, <1>5, FirstNumbers
  <1>7. Len(table) <= MAX_RATE_LIMIT_ENTRIES => \A i \in 1 .. n : i < MAX_RATE_LIMIT_ENTRIES
    BY <1>1
  <1>8. Len(table) <= MAX_RATE_LIMIT_ENTRIES => \A i \in 1 .. n : Evicted(table)[i] = table[i + 1]
    BY <1>4, <1>7
  <1> QED
    BY <1>6, <1>8

-----------------------------------------------------------------------------
(* The invariant                                                            *)

\* A thread without a request is as it began; one with a request has a client.
TypeInv ==
    /\ TypeOK
    /\ \A t \in Threads : IF req[t].at = "idle" THEN req[t] = NoRequest ELSE req[t].ip \in Clients

\* What acl_check_client has established for a request.
Allowed(ip, mode) ==
    /\ ~Covered(ip) => "noserve" \notin cfg.policy
    /\ mode = "broadcast" => cfg.broadcast
    /\ mode = "symmetric" => cfg.symmetric

\* Nothing is asked before the configuration has been read; past each test of
\* handle_peer_request_thread its outcome stays true.
AclInv ==
    \A t \in Threads :
        /\ pc = "parse" => req[t].at = "idle"
        /\ req[t].at \in {"send", "find", "room", "take", "stamp"} => req[t].mode # "control"
        /\ req[t].at \in {"rate", "send", "find", "room", "take", "stamp"} /\ req[t].mode # "control"
           => Allowed(req[t].ip, req[t].mode)

\* The clients that have been answered, and the one whose answer the table does
\* not show yet.
Answered   == {c \in Clients : served[c] # Never}
Pending(c) == \E t \in Threads : Replied(t) /\ req[t].ip = c

HistoryInv ==
    /\ IsFiniteSet(Answered)
    /\ \A c \in Clients : served[c] <= now
    /\ \A t \in Threads : Replied(t) => req[t].ip \in Answered

\* One request at a time: a client has at most one entry, ...
Alone == \A t, u \in Threads : req[t].at # "idle" /\ req[u].at # "idle" => t = u

TableSound == /\ Unique(rate) /\ Len(rate) <= MAX_RATE_LIMIT_ENTRIES
              /\ IpsOf(rate) \subseteq Answered

\* ... rate_limit_insert is where it believes to be, ...
InsertSound ==
    \A t \in Threads :
        /\ req[t].at \in {"room", "take"} => req[t].ip \notin IpsOf(rate)
        /\ req[t].at = "take" => Len(rate) < MAX_RATE_LIMIT_ENTRIES
        /\ req[t].at = "stamp" => req[t].slot \in DOMAIN rate /\ rate[req[t].slot].ip = req[t].ip

\* ... an entry has the time of the answer or a later one, the clients are in
\* the table while it can hold them, ...
EntriesLate == \A i \in DOMAIN rate : Pending(rate[i].ip) \/ served[rate[i].ip] <= rate[i].last

Remembered == Cardinality(Answered) <= MAX_RATE_LIMIT_ENTRIES
                 => \A c \in Answered : c \in IpsOf(rate) \/ Pending(c)

\* ... and who is about to be answered has waited.
Waited == \A t \in Threads :
              /\ req[t].at = "send"
              /\ served[req[t].ip] # Never
              /\ Cardinality(Answered) <= MAX_RATE_LIMIT_ENTRIES
              => now - served[req[t].ip] >= cfg.interval

RateInv == ~overlap => /\ Alone /\ TableSound /\ InsertSound
                       /\ EntriesLate /\ Remembered /\ Waited

IInv == TypeInv /\ AclInv /\ HistoryInv /\ RateInv

-----------------------------------------------------------------------------
(* Steps of a thread                                                        *)

\* What a step of t does to the threads: the others stay, t gets r.
Moved(t, r) ==
    /\ req' \in [Threads -> Req]
    /\ req'[t] = r
    /\ \A u \in Threads : u # t => req'[u] = req[u]

\* The request of t with another place.
At(t, to) == [at |-> to, ip |-> req[t].ip, mode |-> req[t].mode, slot |-> req[t].slot]

\* A store into req[t].
LEMMA Store ==
    ASSUME req \in [Threads -> Req], NEW t \in Threads, NEW r \in Req, req' = [req EXCEPT ![t] = r]
    PROVE  Moved(t, r)
  BY DEF Moved

\* Goes moves a thread on.
LEMMA GoesOn ==
    ASSUME req \in [Threads -> Req], NEW t \in Threads, NEW to \in Steps, Goes(t, to)
    PROVE  Moved(t, At(t, to))
  <1>1. req[t] \in Req
    OBVIOUS
  <1>2. [req[t] EXCEPT !.at = to] = At(t, to) /\ At(t, to) \in Req
    BY <1>1 DEF At, Req
  <1>3. req' = [req EXCEPT ![t] = [req[t] EXCEPT !.at = to]]
    BY DEF Goes
  <1> QED
    BY <1>2, <1>3, Store

\* Ends ends one.
LEMMA GoesHome ==
    ASSUME req \in [Threads -> Req], NEW t \in Threads, Ends(t)
    PROVE  Moved(t, NoRequest)
  <1>1. NoRequest \in Req
    BY DEF NoRequest, Req, Steps, Modes
  <1> QED
    BY <1>1, Store DEF Ends

\* The types of the requests and of the rate limit table.
LEMMA Types ==
    ASSUME TypeInv
    PROVE  /\ req \in [Threads -> Req] /\ rate \in Seq(Slots) /\ now \in Nat /\ cfg.interval \in Int
           /\ served \in [Clients -> Nat \cup {Never}] /\ acl \in Seq(Rules)
           /\ DOMAIN rate = 1 .. Len(rate) /\ Len(rate) \in Nat
           /\ \A i \in DOMAIN rate : rate[i] \in Slots
  <1>1. /\ req \in [Threads -> Req] /\ rate \in Seq(Slots) /\ now \in Nat /\ cfg.interval \in Int
        /\ served \in [Clients -> Nat \cup {Never}] /\ acl \in Seq(Rules)
    BY DEF TypeInv, TypeOK, Req, Slots, Rules
  <1>2. DOMAIN rate = 1 .. Len(rate) /\ Len(rate) \in Nat
    BY <1>1, LenProperties
  <1> QED
    BY <1>1, <1>2, ElementOfSeq

\* Where each step of t takes it, from where.
LEMMA Moves ==
    ASSUME TypeInv, NEW t \in Threads
    PROVE  /\ CheckAcl(t) => /\ req[t].at = "acl"
                             /\ \/ Moved(t, At(t, "rate")) /\ AclCheckClient(req[t].ip, req[t].mode)
                                \/ Moved(t, NoRequest)
           /\ CheckRate(t) => /\ req[t].at = "rate"
                              /\ \/ /\ Moved(t, At(t, "send"))
                                    /\ ~RateLimitCheck(req[t].ip) /\ req[t].mode # "control"
                                 \/ Moved(t, NoRequest)
           /\ Send(t) => /\ req[t].at = "send"
                         /\ \/ Moved(t, At(t, "find")) /\ served' = [served EXCEPT ![req[t].ip] = now]
                            \/ Moved(t, NoRequest) /\ served' = served
           /\ Find(t) => /\ req[t].at = "find"
                         /\ \/ Moved(t, At(t, "room")) /\ Entries(rate, req[t].ip) = {}
                            \/ /\ Entries(rate, req[t].ip) # {}
                               /\ Moved(t, [At(t, "stamp") EXCEPT !.slot = Min(Entries(rate, req[t].ip))])
           /\ MakeRoom(t) => req[t].at = "room" /\ Moved(t, At(t, "take"))
           /\ Take(t) => req[t].at = "take" /\ Moved(t, [At(t, "stamp") EXCEPT !.slot = Len(rate) + 1])
           /\ Stamp(t) => req[t].at = "stamp" /\ Moved(t, NoRequest)
  <1>0. req \in [Threads -> Req] /\ Len(rate) \in Nat /\ DOMAIN rate = 1 .. Len(rate)
    BY Types
  <1> USE <1>0
  <1>1. \A to \in Steps : Goes(t, to) => Moved(t, At(t, to))
    BY GoesOn
  <1>2. Ends(t) => Moved(t, NoRequest)
    BY GoesHome
  <1>3. ASSUME NEW n \in Nat, req' = [req EXCEPT ![t].at = "stamp", ![t].slot = n]
        PROVE  Moved(t, [At(t, "stamp") EXCEPT !.slot = n])
    <2> DEFINE r == [At(t, "stamp") EXCEPT !.slot = n]
    <2>1. req[t] \in Req
      OBVIOUS
    <2>2. r = [at |-> "stamp", ip |-> req[t].ip, mode |-> req[t].mode, slot |-> n]
      BY DEF At
    <2>3. r \in Req
      BY <2>1, <2>2 DEF Req, Steps
    <2>4. [[req[t] EXCEPT !.at = "stamp"] EXCEPT !.slot = n] = r
      BY <2>1, <2>2 DEF Req
    <2> HIDE DEF r
    <2>5. req' = [req EXCEPT ![t] = r]
      BY <1>3, <2>4
    <2>6. Moved(t, r)
      BY <2>3, <2>5, Store
    <2> QED
      BY <2>6 DEF r
  <1>4. CheckAcl(t) => /\ req[t].at = "acl"
                       /\ \/ Moved(t, At(t, "rate")) /\ AclCheckClient(req[t].ip, req[t].mode)
                          \/ Moved(t, NoRequest)
    BY <1>1, <1>2 DEF CheckAcl, Steps
  <1>5. CheckRate(t) => /\ req[t].at = "rate"
                        /\ \/ /\ Moved(t, At(t, "send"))
                              /\ ~RateLimitCheck(req[t].ip) /\ req[t].mode # "control"
                           \/ Moved(t, NoRequest)
    BY <1>1, <1>2 DEF CheckRate, HasReply, Steps
  <1>6. Send(t) => /\ req[t].at = "send"
                   /\ \/ Moved(t, At(t, "find")) /\ served' = [served EXCEPT ![req[t].ip] = now]
                      \/ Moved(t, NoRequest) /\ served' = served
    BY <1>1, <1>2 DEF Send, Steps
  <1>7. ASSUME Find(t)
        PROVE  /\ req[t].at = "find"
               /\ \/ Moved(t, At(t, "room")) /\ Entries(rate, req[t].ip) = {}
                  \/ /\ Entries(rate, req[t].ip) # {}
                     /\ Moved(t, [At(t, "stamp") EXCEPT !.slot = Min(Entries(rate, req[t].ip))])
    <2>1. CASE Entries(rate, req[t].ip) = {}
      BY <1>1, <1>7, <2>1 DEF Find, Steps
    <2>2. CASE Entries(rate, req[t].ip) # {}
      <3>1. Entries(rate, req[t].ip) \in SUBSET Nat
        BY DEF Entries
      <3>2. Min(Entries(rate, req[t].ip)) \in Nat
        BY <2>2, <3>1, MinIn
      <3> QED
        BY <1>3, <1>7, <2>2, <3>2 DEF Find
    <2> QED
      BY <2>1, <2>2
  <1>8. MakeRoom(t) => req[t].at = "room" /\ Moved(t, At(t, "take"))
    BY <1>1 DEF MakeRoom, Steps
  <1>9. Take(t) => req[t].at = "take" /\ Moved(t, [At(t, "stamp") EXCEPT !.slot = Len(rate) + 1])
    <2>1. Len(rate) + 1 \in Nat
      OBVIOUS
    <2>2. Take(t) => req[t].at = "take" /\ req' = [req EXCEPT ![t].at = "stamp", ![t].slot = Len(rate) + 1]
      BY DEF Take
    <2> QED
      BY <1>3, <2>1, <2>2
  <1>10. Stamp(t) => req[t].at = "stamp" /\ Moved(t, NoRequest)
    BY <1>2 DEF Stamp
  <1> QED
    BY ONLY <1>4, <1>5, <1>6, <1>7, <1>8, <1>9, <1>10

\* A request that begins.
LEMMA Begins ==
    ASSUME TypeInv, NEW t \in Threads, NEW ip \in Clients, NEW mode \in Modes, Request(t, ip, mode)
    PROVE  /\ req[t].at = "idle" /\ pc = "serve"
           /\ Moved(t, [at |-> "acl", ip |-> ip, mode |-> mode, slot |-> 0])
           /\ UNCHANGED <<cfg, acl, pc, lines, rate, now, served>>
           /\ overlap' = (overlap \/ \E u \in Threads : req[u] # NoRequest)
  <1>1. req \in [Threads -> Req]
    BY Types
  <1>2. [at |-> "acl", ip |-> ip, mode |-> mode, slot |-> 0] \in Req
    BY DEF Req, Steps
  <1>3. req[t].at = "idle"
    BY DEF Request, NoRequest
  <1> QED
    BY <1>1, <1>2, <1>3, Store DEF Request, config

-----------------------------------------------------------------------------
(* Types, access control and history                                        *)

\* What a step of a thread leaves alone.
LEMMA ThreadLeaves ==
    ASSUME NEW t \in Threads, ThreadStep(t)
    PROVE  UNCHANGED <<cfg, acl, pc, lines, now, overlap>>
  BY DEF ThreadStep, CheckAcl, CheckRate, Send, Find, MakeRoom, Take, Stamp, config

\* A thread that moves keeps its client, or ends.
LEMMA ThreadMoves ==
    ASSUME TypeInv, NEW t \in Threads, ThreadStep(t)
    PROVE  /\ req[t].at # "idle"
           /\ \E r \in Req : /\ Moved(t, r)
                             /\ r = NoRequest \/ (r.at # "idle" /\ r.ip = req[t].ip /\ r.mode = req[t].mode)
  <1> DEFINE Goal == \E r \in Req :
                         /\ Moved(t, r)
                         /\ r = NoRequest \/ (r.at # "idle" /\ r.ip = req[t].ip /\ r.mode = req[t].mode)
  <1>0. \A r : Moved(t, r) => r \in Req
    BY Types DEF Moved
  <1>1. Moved(t, NoRequest) => Goal
    BY <1>0
  <1>2. ASSUME NEW to, to # "idle", Moved(t, At(t, to)) PROVE Goal
    <2>1. At(t, to).at = to /\ At(t, to).ip = req[t].ip /\ At(t, to).mode = req[t].mode
      BY DEF At
    <2> QED
      BY <1>0, <1>2, <2>1
  <1>3. ASSUME NEW n, Moved(t, [At(t, "stamp") EXCEPT !.slot = n]) PROVE Goal
    <2> DEFINE r == [At(t, "stamp") EXCEPT !.slot = n]
    <2>1. r.at = "stamp" /\ r.ip = req[t].ip /\ r.mode = req[t].mode
      BY DEF At
    <2> HIDE DEF r
    <2>2. Moved(t, r)
      BY <1>3 DEF r
    <2> QED
      BY <1>0, <2>1, <2>2
  <1> HIDE DEF Goal
  <1>4. ASSUME CheckAcl(t) PROVE req[t].at # "idle" /\ Goal
    BY <1>1, <1>2, <1>4, Moves
  <1>5. ASSUME CheckRate(t) PROVE req[t].at # "idle" /\ Goal
    BY <1>1, <1>2, <1>5, Moves
  <1>6. ASSUME Send(t) PROVE req[t].at # "idle" /\ Goal
    BY <1>1, <1>2, <1>6, Moves
  <1>7. ASSUME Find(t) PROVE req[t].at # "idle" /\ Goal
    BY <1>2, <1>3, <1>7, Moves
  <1>8. ASSUME MakeRoom(t) \/ Take(t) PROVE req[t].at # "idle" /\ Goal
    BY <1>2, <1>3, <1>8, Moves
  <1>9. ASSUME Stamp(t) PROVE req[t].at # "idle" /\ Goal
    BY <1>1, <1>9, Moves
  <1>10. req[t].at # "idle" /\ Goal
    BY <1>4, <1>5, <1>6, <1>7, <1>8, <1>9 DEF ThreadStep
  <1> QED
    BY <1>10 DEF Goal

\* Every step keeps the types.
LEMMA TypeStep == TypeInv /\ [Next]_vars => TypeInv'
  <1> SUFFICES ASSUME TypeInv, [Next]_vars PROVE TypeInv'
    OBVIOUS
  <1> DEFINE Mine(t) == IF req[t].at = "idle" THEN req[t] = NoRequest ELSE req[t].ip \in Clients
  <1>1. ASSUME NEW l \in Lines, ParseLine(l) PROVE TypeInv'
    <2> DEFINE Keys == {"symmetric", "broadcast", "interval", "ratio", "policy"}
    <2>1. acl' \in Seq(Rules) /\ Len(acl') <= MAX_ACL_ENTRIES
      <3>1. acl \in Seq(Rules) /\ Len(acl) <= MAX_ACL_ENTRIES
        BY DEF TypeInv, TypeOK, Rules
      <3>2. CASE l.key \in {"acl_allow", "acl_remove"}
        <4>1. l.net \in Networks
          BY <3>2, LinesAssumption
        <4>2. acl' = AclAdd(acl, l.net, {}) \/ acl' = AclRemove(acl, l.net)
          BY <1>1, <3>2 DEF ParseLine
        <4> QED
          BY <3>1, <4>1, <4>2, AclSound
      <3> QED
        BY <1>1, <3>1, <3>2 DEF ParseLine
    <2>2. DOMAIN cfg' = Keys /\ cfg'.interval \in Int
      <3>1. CASE l.key \in Keys /\ cfg' = [cfg EXCEPT ![l.key] = l.val]
        <4>1. DOMAIN cfg = Keys /\ cfg["interval"] \in Int
          BY DEF TypeInv, TypeOK
        <4>2. cfg'["interval"] = IF l.key = "interval" THEN l.val ELSE cfg["interval"]
          BY <3>1, <4>1
        <4>3. l.key = "interval" => l.val \in Int
          BY LinesAssumption
        <4> QED
          BY <3>1, <4>1, <4>2, <4>3
      <3>2. CASE UNCHANGED cfg
        BY <3>2 DEF TypeInv, TypeOK
      <3> QED
        BY <1>1, <3>1, <3>2 DEF ParseLine
    <2>3. lines' \in 0 .. MaxLines /\ UNCHANGED <<pc, rate, now, req, served, overlap>>
      BY <1>1, ModeAssumption DEF ParseLine, TypeInv, TypeOK
    <2> QED
      BY <2>1, <2>2, <2>3 DEF TypeInv, TypeOK, Rules
  <1>2. CASE EndOfFile
    BY <1>2 DEF EndOfFile, TypeInv, TypeOK
  <1>3. CASE Tick
    BY <1>3 DEF Tick, config, TypeInv, TypeOK
  <1>4. CASE UNCHANGED vars
    BY <1>4 DEF vars, config, TypeInv, TypeOK
  <1>5. ASSUME NEW t \in Threads, NEW ip \in Clients, NEW mode \in Modes, Request(t, ip, mode)
        PROVE  TypeInv'
    <2>1. /\ Moved(t, [at |-> "acl", ip |-> ip, mode |-> mode, slot |-> 0])
          /\ UNCHANGED <<cfg, acl, pc, lines, rate, now, served>>
          /\ overlap' \in BOOLEAN
      BY <1>5, Begins
    <2>2. req' \in [Threads -> Req]
      BY <2>1 DEF Moved
    <2>3. \A u \in Threads : Mine(u)'
      BY <2>1 DEF Moved, TypeInv
    <2> QED
      BY <2>1, <2>2, <2>3 DEF TypeInv, TypeOK, Req
  <1>6. ASSUME NEW t \in Threads, ThreadStep(t) PROVE TypeInv'
    <2>1. UNCHANGED <<cfg, acl, pc, lines, now, overlap>>
      BY <1>6, ThreadLeaves
    <2>2. req[t].at # "idle"
      BY <1>6, ThreadMoves
    <2>3. PICK r \in Req : Moved(t, r) /\ (r = NoRequest \/ (r.at # "idle" /\ r.ip = req[t].ip))
      BY <1>6, ThreadMoves
    <2>4. req' \in [Threads -> Req]
      BY <2>3 DEF Moved
    <2>5. req[t].ip \in Clients
      BY <2>2 DEF TypeInv
    <2>6. \A u \in Threads : Mine(u)'
      <3>1. Mine(t)'
        BY <2>3, <2>5 DEF Moved, NoRequest
      <3>2. ASSUME NEW u \in Threads, u # t PROVE Mine(u)'
        BY <2>3, <3>2 DEF Moved, TypeInv
      <3> QED
        BY <3>1, <3>2
    <2>7. rate' \in Seq(Slots)
      <3>0. rate \in Seq(Slots) /\ DOMAIN rate = 1 .. Len(rate) /\ Len(rate) \in Nat /\ now \in Nat
            /\ \A i \in DOMAIN rate : rate[i] \in Slots
        BY Types
      <3>1. CASE MakeRoom(t)
        <4>1. Len(rate) >= MAX_RATE_LIMIT_ENTRIES => rate # <<>>
          BY <3>0
        <4> QED
          BY <3>0, <3>1, <4>1, EvictedSound DEF MakeRoom
      <3>2. CASE Take(t)
        <4>1. [ip |-> req[t].ip, last |-> 0] \in Slots
          BY <2>5 DEF Slots
        <4> QED
          BY <3>0, <3>2, <4>1, AppendProperties DEF Take
      <3>3. CASE Stamp(t)
        <4>1. rate' = [i \in 1 .. Len(rate) |-> IF i = req[t].slot THEN [rate[i] EXCEPT !.last = now] ELSE rate[i]]
          BY <3>0, <3>3 DEF Stamp
        <4>2. \A i \in DOMAIN rate : [rate[i] EXCEPT !.last = now] \in Slots
          BY <3>0 DEF Slots
        <4>3. rate' \in [1 .. Len(rate) -> Slots]
          BY <3>0, <4>1, <4>2
        <4> QED
          BY <3>0, <4>3, FirstNumbers
      <3>4. CASE UNCHANGED rate
        BY <3>0, <3>4
      <3> QED
        BY <1>6, <3>1, <3>2, <3>3, <3>4 DEF ThreadStep, CheckAcl, CheckRate, Send, Find
    <2>8. served' \in [Clients -> Nat \cup {Never}]
      <3>0. served \in [Clients -> Nat \cup {Never}] /\ now \in Nat
        BY Types
      <3>1. CASE Send(t)
        BY <3>0, <3>1, Moves
      <3>2. CASE UNCHANGED served
        BY <3>0, <3>2
      <3> QED
        BY <1>6, <3>1, <3>2 DEF ThreadStep, CheckAcl, CheckRate, Find, MakeRoom, Take, Stamp
    <2> QED
      BY <2>1, <2>4, <2>6, <2>7, <2>8 DEF TypeInv, TypeOK, Req, Slots
  <1> QED
    BY <1>1, <1>2, <1>3, <1>4, <1>5, <1>6 DEF Next

\* What passes acl_check_client is allowed.
LEMMA AclAllows ==
    ASSUME TypeInv, NEW ip \in Clients, NEW mode, mode # "control", AclCheckClient(ip, mode)
    PROVE  Allowed(ip, mode)
  <1>1. "noserve" \notin ClientFlags(ip)
    BY DEF AclCheckClient
  <1>2. (mode = "symmetric" => cfg.symmetric) /\ (mode = "broadcast" => cfg.broadcast)
    BY DEF AclCheckClient
  <1>3. CASE \E i \in DOMAIN acl : InNetwork(ip, acl[i].net)
    <2>1. PICK i \in DOMAIN acl : InNetwork(ip, acl[i].net)
      BY <1>3
    <2>2. acl \in Seq(Rules) /\ i \in 1 .. Len(acl)
      BY Types, LenProperties
    <2>3. acl[i] \in Rules
      BY <2>2, ElementOfSeq
    <2>4. acl[i].net \in Networks
      BY <2>3 DEF Rules
    <2>5. ip \in Nat
      BY ModeAssumption, PowersAssumption
    <2>6. Covered(ip)
      BY <2>1, <2>4, <2>5, PrefixEqual DEF Covered
    <2> QED
      BY <1>2, <2>6 DEF Allowed
  <1>4. CASE ~\E i \in DOMAIN acl : InNetwork(ip, acl[i].net)
    <2>1. "noserve" \notin cfg.policy
      BY <1>1, <1>4 DEF ClientFlags
    <2> QED
      BY <1>2, <2>1 DEF Allowed
  <1> QED
    BY <1>3, <1>4

\* Every step keeps what the tests of a request have established.
LEMMA AclStep == TypeInv /\ AclInv /\ [Next]_vars => AclInv'
  <1> SUFFICES ASSUME TypeInv, AclInv, [Next]_vars PROVE AclInv'
    OBVIOUS
  <1> DEFINE Late == {"send", "find", "room", "take", "stamp"}
             Mine(t) == /\ pc = "parse" => req[t].at = "idle"
                        /\ req[t].at \in Late => req[t].mode # "control"
                        /\ req[t].at \in {"rate"} \cup Late /\ req[t].mode # "control"
                           => Allowed(req[t].ip, req[t].mode)
  <1>0. AclInv <=> \A t \in Threads : Mine(t)
    BY DEF AclInv
  <1>00. AclInv' <=> \A t \in Threads : Mine(t)'
    BY DEF AclInv
  <1>1. ASSUME UNCHANGED <<cfg, acl>>, NEW ip, NEW mode PROVE Allowed(ip, mode)' <=> Allowed(ip, mode)
    BY <1>1 DEF Allowed, Covered, Prefix
  <1>2. ASSUME NEW t \in Threads, UNCHANGED <<cfg, acl, pc>>, req'[t] = req[t] PROVE Mine(t)'
    <2>1. Mine(t)
      BY <1>0
    <2>2. Allowed(req[t].ip, req[t].mode)' <=> Allowed(req[t].ip, req[t].mode)
      BY <1>2 DEF Allowed, Covered, Prefix
    <2> QED
      BY <1>2, <2>1, <2>2
  <1>3. ASSUME NEW l \in Lines, ParseLine(l) PROVE AclInv'
    BY <1>3 DEF ParseLine, AclInv
  <1>4. CASE EndOfFile
    <2>1. \A t \in Threads : req[t].at = "idle"
      BY <1>4 DEF EndOfFile, AclInv
    <2>2. req' = req
      BY <1>4 DEF EndOfFile
    <2> QED
      BY <2>1, <2>2 DEF AclInv
  <1>5. CASE Tick \/ UNCHANGED vars
    BY <1>00, <1>2, <1>5 DEF Tick, vars, config
  <1>6. ASSUME NEW t \in Threads, NEW ip \in Clients, NEW mode \in Modes, Request(t, ip, mode)
        PROVE  AclInv'
    <2>1. /\ Moved(t, [at |-> "acl", ip |-> ip, mode |-> mode, slot |-> 0])
          /\ UNCHANGED <<cfg, acl, pc>> /\ pc = "serve"
      BY <1>6, Begins
    <2>2. \A u \in Threads : u # t => Mine(u)'
      BY <1>2, <2>1 DEF Moved
    <2>3. Mine(t)'
      BY <2>1 DEF Moved
    <2> QED
      BY <1>00, <2>2, <2>3
  <1>7. ASSUME NEW t \in Threads, ThreadStep(t) PROVE AclInv'
    <2>1. UNCHANGED <<cfg, acl, pc>>
      BY <1>7, ThreadLeaves
    <2>2. req[t].at # "idle" /\ req[t].ip \in Clients /\ Mine(t)
      BY <1>0, <1>7, ThreadMoves DEF TypeInv
    <2>3. PICK r \in Req : Moved(t, r) /\ (r = NoRequest \/ (r.ip = req[t].ip /\ r.mode = req[t].mode))
      BY <1>7, ThreadMoves
    <2>4. \A u \in Threads : u # t => Mine(u)'
      BY <1>2, <2>1, <2>3 DEF Moved
    <2>5. req'[t] = r
      BY <2>3 DEF Moved
    <2>6. ASSUME r = NoRequest PROVE Mine(t)'
      BY <2>1, <2>2, <2>5, <2>6 DEF NoRequest
    <2>7. ASSUME r # NoRequest, CheckAcl(t) PROVE Mine(t)'
      <3>1. req'[t] = At(t, "rate") /\ AclCheckClient(req[t].ip, req[t].mode)
        BY <2>5, <2>7, Moves DEF Moved
      <3>2. req[t].mode # "control" => Allowed(req[t].ip, req[t].mode)
        BY <2>2, <3>1, AclAllows
      <3>3. req'[t].at = "rate" /\ req'[t].ip = req[t].ip /\ req'[t].mode = req[t].mode
        BY <3>1 DEF At
      <3>4. Allowed(req[t].ip, req[t].mode)' <=> Allowed(req[t].ip, req[t].mode)
        BY <2>1, <3>3 DEF Allowed, Covered, Prefix
      <3> QED
        BY <2>1, <2>2, <3>2, <3>3, <3>4
    <2>8. ASSUME r # NoRequest, ~CheckAcl(t) PROVE Mine(t)'
      <3>1. /\ req[t].at \in {"rate", "send", "find", "room", "take", "stamp"}
            /\ req[t].at = "rate" => req[t].mode # "control"
        <4>1. CASE CheckRate(t)
          BY <2>5, <2>8, <4>1, Moves DEF Moved
        <4>2. CASE Send(t) \/ Find(t) \/ MakeRoom(t) \/ Take(t) \/ Stamp(t)
          BY <4>2 DEF Send, Find, MakeRoom, Take, Stamp
        <4> QED
          BY <1>7, <2>8, <4>1, <4>2 DEF ThreadStep
      <3>2. req[t].mode # "control" /\ Allowed(req[t].ip, req[t].mode)
        BY <2>2, <3>1
      <3>3. req'[t].ip = req[t].ip /\ req'[t].mode = req[t].mode
        BY <2>3, <2>5, <2>8
      <3>4. Allowed(req[t].ip, req[t].mode)'
        BY <2>1, <3>2, <3>3 DEF Allowed, Covered, Prefix
      <3> QED
        BY <2>1, <2>2, <3>2, <3>3, <3>4
    <2>9. Mine(t)'
      BY <2>6, <2>7, <2>8
    <2> QED
      BY <1>00, <2>4, <2>9
  <1> QED
    BY <1>3, <1>4, <1>5, <1>6, <1>7 DEF Next

\* Past the tests of handle_peer_request_thread and before its last store.
LEMMA RepliedSet ==
    ASSUME TypeInv, NEW t \in Threads, ThreadStep(t), Replied(t)'
    PROVE  Send(t) \/ Replied(t)
  <1>1. Send(t) \/ Replied(t) \/ CheckAcl(t) \/ CheckRate(t)
    BY DEF ThreadStep, Find, MakeRoom, Take, Stamp, Replied
  <1>2. Moved(t, NoRequest) => req'[t].at = "idle"
    BY DEF Moved, NoRequest
  <1>3. \A to : Moved(t, At(t, to)) => req'[t].at = to
    BY DEF Moved, At
  <1>4. CheckAcl(t) => req'[t].at \in {"rate", "idle"}
    BY <1>2, <1>3, Moves
  <1>5. CheckRate(t) => req'[t].at \in {"send", "idle"}
    BY <1>2, <1>3, Moves
  <1> QED
    BY <1>1, <1>4, <1>5 DEF Replied

\* Every step keeps the history.
LEMMA HistoryStep == TypeInv /\ HistoryInv /\ [Next]_vars => HistoryInv'
  <1> SUFFICES ASSUME TypeInv, HistoryInv, [Next]_vars PROVE HistoryInv'
    OBVIOUS
  <1>0. now \in Nat /\ served \in [Clients -> Nat \cup {Never}]
    BY Types
  <1>1. CASE UNCHANGED <<served, req>> /\ now' \in {now, now + 1}
    <2>1. Answered' = Answered /\ \A t \in Threads : Replied(t)' <=> Replied(t)
      BY <1>1 DEF Answered, Replied
    <2>2. \A c \in Clients : served'[c] <= now'
      BY <1>0, <1>1 DEF HistoryInv, Never
    <2> QED
      BY <1>1, <2>1, <2>2 DEF HistoryInv
  <1>2. ASSUME NEW l \in Lines, ParseLine(l) PROVE HistoryInv'
    BY <1>1, <1>2 DEF ParseLine
  <1>3. CASE EndOfFile \/ Tick \/ UNCHANGED vars
    BY <1>1, <1>3 DEF EndOfFile, Tick, vars
  <1>4. ASSUME NEW t \in Threads, NEW ip \in Clients, NEW mode \in Modes, Request(t, ip, mode)
        PROVE  HistoryInv'
    <2>1. /\ Moved(t, [at |-> "acl", ip |-> ip, mode |-> mode, slot |-> 0])
          /\ UNCHANGED <<served, now>>
      BY <1>4, Begins
    <2>2. Answered' = Answered
      BY <2>1 DEF Answered
    <2>3. \A u \in Threads : Replied(u)' => Replied(u) /\ req'[u] = req[u]
      BY <2>1 DEF Replied, Moved
    <2> QED
      BY <2>1, <2>2, <2>3 DEF HistoryInv
  <1>5. ASSUME NEW t \in Threads, ThreadStep(t) PROVE HistoryInv'
    <2>1. now' = now
      BY <1>5, ThreadLeaves
    <2>2. req[t].ip \in Clients
      BY <1>5, ThreadMoves DEF TypeInv
    <2>3. PICK r \in Req : Moved(t, r) /\ (r = NoRequest \/ r.ip = req[t].ip)
      BY <1>5, ThreadMoves
    <2>4. req'[t] = r /\ \A u \in Threads : u # t => req'[u] = req[u]
      BY <2>3 DEF Moved
    <2>5. Replied(t)' => req'[t].ip = req[t].ip
      BY <2>3, <2>4 DEF Replied, NoRequest
    <2>6. CASE served' = served
      <3>1. Answered' = Answered
        BY <2>6 DEF Answered
      <3>2. Replied(t)' => req[t].ip \in Answered
        <4>1. CASE Send(t)
          <5>1. Moved(t, NoRequest) \/ served[req[t].ip] = now
            BY <1>0, <2>2, <2>6, <4>1, Moves
          <5>2. Moved(t, NoRequest) => ~Replied(t)'
            BY DEF Moved, NoRequest, Replied
          <5>3. served[req[t].ip] = now => req[t].ip \in Answered
            BY <1>0, <2>2 DEF Answered, Never
          <5> QED
            BY <5>1, <5>2, <5>3
        <4>2. CASE ~Send(t)
          BY <1>5, <4>2, RepliedSet DEF HistoryInv
        <4> QED
          BY <4>1, <4>2
      <3>3. \A u \in Threads : Replied(u)' => req'[u].ip \in Answered
        BY <2>4, <2>5, <3>2 DEF HistoryInv, Replied
      <3> QED
        BY <2>1, <2>6, <3>1, <3>3 DEF HistoryInv
    <2>7. CASE served' = [served EXCEPT ![req[t].ip] = now]
      <3>1. Answered' = Answered \cup {req[t].ip}
        BY <1>0, <2>2, <2>7 DEF Answered, Never
      <3>2. IsFiniteSet(Answered')
        BY <3>1, FS_AddElement DEF HistoryInv
      <3>3. \A c \in Clients : served'[c] <= now'
        BY <1>0, <2>1, <2>7 DEF HistoryInv
      <3>4. \A u \in Threads : Replied(u)' => req'[u].ip \in Answered'
        BY <2>4, <2>5, <3>1 DEF HistoryInv, Replied
      <3> QED
        BY <3>2, <3>3, <3>4 DEF HistoryInv
    <2> QED
      BY <1>5, <2>6, <2>7
      DEF ThreadStep, CheckAcl, CheckRate, Send, Find, MakeRoom, Take, Stamp
  <1> QED
    BY <1>2, <1>3, <1>4, <1>5 DEF Next

-----------------------------------------------------------------------------
(* The rate limit, one request at a time                                    *)

\* With one request under way, only its client can be pending.
LEMMA Solo ==
    ASSUME TypeInv, Alone, NEW t \in Threads, ThreadStep(t)
    PROVE  /\ \A u \in Threads : u # t => req[u].at = "idle" /\ req'[u].at = "idle"
           /\ Alone'
           /\ \A c : Pending(c) <=> Replied(t) /\ req[t].ip = c
           /\ \A c : Pending(c)' <=> Replied(t)' /\ req'[t].ip = c
  <1>1. req[t].at # "idle" /\ \A u \in Threads : u # t => req'[u] = req[u]
    BY ThreadMoves DEF Moved
  <1>2. \A u \in Threads : u # t => req[u].at = "idle" /\ req'[u].at = "idle"
    BY <1>1 DEF Alone
  <1>3. Alone'
    BY <1>2 DEF Alone
  <1>4. \A c : Pending(c) <=> Replied(t) /\ req[t].ip = c
    BY <1>2 DEF Pending, Replied
  <1>5. \A c : Pending(c)' <=> Replied(t)' /\ req'[t].ip = c
    BY <1>2 DEF Pending, Replied
  <1> QED
    BY <1>2, <1>3, <1>4, <1>5

\* A step that leaves table and answers alone, and nobody's answer pending who
\* was not, keeps the table in agreement with the answers.
LEMMA Untouched ==
    ASSUME TableSound, EntriesLate, Remembered, UNCHANGED <<rate, served>>,
           \A c : Pending(c)' <=> Pending(c)
    PROVE  TableSound' /\ EntriesLate' /\ Remembered' /\ IpsOf(rate)' = IpsOf(rate) /\ Answered' = Answered
  <1>1. Answered' = Answered /\ IpsOf(rate)' = IpsOf(rate)
    BY DEF Answered, IpsOf
  <1>2. TableSound'
    BY <1>1 DEF TableSound, Unique
  <1>3. EntriesLate'
    BY DEF EntriesLate
  <1>4. Remembered'
    BY <1>1 DEF Remembered
  <1> QED
    BY <1>1, <1>2, <1>3, <1>4

\* Places where InsertSound and Waited say nothing.
LEMMA NothingClaimed ==
    ASSUME NEW t \in Threads, \A u \in Threads : u # t => req'[u].at = "idle"
    PROVE  /\ req'[t].at \notin {"room", "take", "stamp"} => InsertSound'
           /\ req'[t].at # "send" => Waited'
  BY DEF InsertSound, Waited

\* The places a step leads to, for the lemmas below.
LEMMA Places ==
    ASSUME NEW t
    PROVE  /\ Moved(t, NoRequest) => req'[t].at = "idle" /\ ~Replied(t)'
           /\ \A to : Moved(t, At(t, to)) => req'[t].at = to /\ req'[t].ip = req[t].ip
           /\ \A n : Moved(t, [At(t, "stamp") EXCEPT !.slot = n])
                     => req'[t].at = "stamp" /\ req'[t].ip = req[t].ip /\ req'[t].slot = n
  <1>1. Moved(t, NoRequest) => req'[t].at = "idle" /\ ~Replied(t)'
    BY DEF Moved, NoRequest, Replied
  <1>2. \A to : Moved(t, At(t, to)) => req'[t].at = to /\ req'[t].ip = req[t].ip
    BY DEF Moved, At
  <1>3. \A n : Moved(t, [At(t, "stamp") EXCEPT !.slot = n])
               => req'[t].at = "stamp" /\ req'[t].ip = req[t].ip /\ req'[t].slot = n
    BY DEF Moved, At
  <1> QED
    BY <1>1, <1>2, <1>3

RateCore == Alone /\ TableSound /\ InsertSound /\ EntriesLate /\ Remembered /\ Waited

\* acl_check_client
LEMMA RateCheckAcl ==
    ASSUME TypeInv, HistoryInv, RateCore, NEW t \in Threads, CheckAcl(t)
    PROVE  RateCore'
  <1>0. ThreadStep(t)
    BY DEF ThreadStep
  <1>1. req[t].at = "acl" /\ req'[t].at \in {"rate", "idle"} /\ UNCHANGED <<rate, served>>
    BY Moves, Places DEF CheckAcl
  <1>2. \A c : Pending(c)' <=> Pending(c)
    BY <1>0, <1>1, Solo DEF RateCore, Replied
  <1>3. InsertSound' /\ Waited' /\ Alone'
    BY <1>0, <1>1, Solo, NothingClaimed DEF RateCore
  <1> QED
    BY <1>1, <1>2, <1>3, Untouched DEF RateCore

\* rate_limit_check: who passes has waited since its last answer, if the table
\* can hold everybody.
LEMMA RateCheckRate ==
    ASSUME TypeInv, HistoryInv, RateCore, NEW t \in Threads, CheckRate(t)
    PROVE  RateCore'
  <1>0. ThreadStep(t)
    BY DEF ThreadStep
  <1>1. req[t].at = "rate" /\ UNCHANGED <<rate, served, now, cfg>>
    BY Moves DEF CheckRate, config
  <1>2. req'[t].at \in {"send", "idle"}
    BY Moves, Places
  <1>3. \A c : ~Pending(c) /\ ~Pending(c)'
    BY <1>0, <1>1, <1>2, Solo DEF RateCore, Replied
  <1>4. InsertSound' /\ Alone'
    BY <1>0, <1>2, Solo, NothingClaimed DEF RateCore
  <1>5. TableSound' /\ EntriesLate' /\ Remembered' /\ Answered' = Answered
    BY <1>1, <1>3, Untouched DEF RateCore
  <1>6. CASE req'[t].at = "idle"
    <2>1. Waited'
      BY <1>0, <1>6, Solo, NothingClaimed DEF RateCore
    <2> QED
      BY <1>4, <1>5, <2>1 DEF RateCore
  <1>7. CASE req'[t].at = "send"
    <2> DEFINE ip == req[t].ip
    <2>1. ~RateLimitCheck(ip) /\ req'[t].ip = ip
      BY <1>7, Moves, Places
    <2>2. ASSUME served[ip] # Never, Cardinality(Answered) <= MAX_RATE_LIMIT_ENTRIES
          PROVE  now - served[ip] >= cfg.interval
      <3>1. ip \in Clients
        BY <1>1 DEF TypeInv
      <3>2. ip \in Answered
        BY <2>2, <3>1 DEF Answered
      <3>3. ip \in IpsOf(rate)
        BY <1>3, <2>2, <3>2 DEF RateCore, Remembered
      <3>4. PICK i \in DOMAIN rate : rate[i].ip = ip
        BY <3>3 DEF IpsOf
      <3>5. rate \in Seq(Slots) /\ rate[i] \in Slots /\ now \in Nat /\ cfg.interval \in Int
            /\ served \in [Clients -> Nat \cup {Never}]
        BY <3>4, Types
      <3>6. Entries(rate, ip) # {} /\ Min(Entries(rate, ip)) = i
        BY <3>4, <3>5, FindUnique DEF RateCore, TableSound, Entries
      <3>7. ~(now - rate[i].last < cfg.interval)
        BY <2>1, <3>6 DEF RateLimitCheck
      <3>8. served[ip] <= rate[i].last
        BY <1>3, <3>4 DEF RateCore, EntriesLate
      <3>9. served[ip] \in Int /\ rate[i].last \in Int
        BY <3>1, <3>5 DEF Slots, Never
      <3> QED
        BY <3>5, <3>7, <3>8, <3>9
    <2>3. Waited'
      <3>1. ASSUME NEW u \in Threads, req'[u].at = "send", served'[req'[u].ip] # Never,
                   Cardinality(Answered') <= MAX_RATE_LIMIT_ENTRIES
            PROVE  now' - served'[req'[u].ip] >= cfg'.interval
        <4>1. u = t
          BY <1>0, <3>1, Solo DEF RateCore
        <4> QED
          BY <1>1, <1>5, <2>1, <2>2, <3>1, <4>1
      <3> QED
        BY <3>1 DEF Waited
    <2> QED
      BY <1>4, <1>5, <2>3 DEF RateCore
  <1> QED
    BY <1>2, <1>6, <1>7

\* The reply: the client is pending now.
LEMMA RateSend ==
    ASSUME TypeInv, HistoryInv, RateCore, NEW t \in Threads, Send(t)
    PROVE  RateCore'
  <1>0. ThreadStep(t)
    BY DEF ThreadStep
  <1> DEFINE ip == req[t].ip
  <1>1. req[t].at = "send" /\ rate' = rate /\ ip \in Clients
    BY Moves DEF Send, TypeInv
  <1>2. req'[t].at \in {"find", "idle"}
    BY Moves, Places
  <1>3. \A c : ~Pending(c)
    BY <1>0, <1>1, Solo DEF RateCore, Replied
  <1>4. InsertSound' /\ Waited' /\ Alone'
    BY <1>0, <1>2, Solo, NothingClaimed DEF RateCore
  <1>5. CASE Moved(t, NoRequest) /\ served' = served
    <2>1. \A c : ~Pending(c)'
      BY <1>0, <1>5, Solo, Places DEF RateCore
    <2> QED
      BY <1>1, <1>3, <1>4, <1>5, <2>1, Untouched DEF RateCore
  <1>6. CASE Moved(t, At(t, "find")) /\ served' = [served EXCEPT ![ip] = now]
    <2>0. now \in Nat /\ served \in [Clients -> Nat \cup {Never}] /\ \A i \in DOMAIN rate : rate[i] \in Slots
      BY Types
    <2>1. Replied(t)' /\ req'[t].ip = ip
      BY <1>6, Places DEF Replied
    <2>2. \A c : Pending(c)' <=> ip = c
      BY <1>0, <2>1, Solo DEF RateCore
    <2>3. Answered' = Answered \cup {ip}
      BY <1>1, <1>6, <2>0 DEF Answered, Never
    <2>4. TableSound'
      BY <1>1, <2>3 DEF RateCore, TableSound, Unique, IpsOf
    <2>5. EntriesLate'
      <3> SUFFICES ASSUME NEW i \in DOMAIN rate, rate[i].ip # ip
                   PROVE  served'[rate[i].ip] <= rate[i].last
        BY <1>1, <2>2 DEF EntriesLate
      <3>1. rate[i].ip \in Clients
        BY <2>0 DEF Slots
      <3>2. served'[rate[i].ip] = served[rate[i].ip]
        BY <1>6, <2>0, <3>1
      <3> QED
        BY <1>3, <3>2 DEF RateCore, EntriesLate
    <2>6. Remembered'
      <3> SUFFICES ASSUME Cardinality(Answered') <= MAX_RATE_LIMIT_ENTRIES
                   PROVE  \A c \in Answered' : c \in IpsOf(rate') \/ Pending(c)'
        BY DEF Remembered, IpsOf
      <3>1. /\ Cardinality(Answered) \in Nat
            /\ Cardinality(Answered') = IF ip \in Answered THEN Cardinality(Answered)
                                                           ELSE Cardinality(Answered) + 1
        BY <2>3, FS_AddElement, FS_CardinalityType DEF HistoryInv
      <3>2. Cardinality(Answered) <= MAX_RATE_LIMIT_ENTRIES
        <4> HIDE DEF Answered
        <4> QED
          BY <3>1
      <3>3. \A c \in Answered : c \in IpsOf(rate)
        BY <1>3, <3>2 DEF RateCore, Remembered
      <3> QED
        BY <1>1, <2>2, <2>3, <3>3
    <2> QED
      BY <1>4, <2>4, <2>5, <2>6 DEF RateCore
  <1> QED
    BY <1>5, <1>6, Moves

\* rate_limit_find: the client's entry, or none.
LEMMA RateFind ==
    ASSUME TypeInv, HistoryInv, RateCore, NEW t \in Threads, Find(t)
    PROVE  RateCore'
  <1>0. ThreadStep(t)
    BY DEF ThreadStep
  <1> DEFINE ip == req[t].ip
  <1>1. req[t].at = "find" /\ UNCHANGED <<rate, served>>
    BY Moves DEF Find
  <1>2. req'[t].at \in {"room", "stamp"} /\ req'[t].ip = ip
    BY Moves, Places
  <1>3. \A c : Pending(c)' <=> Pending(c)
    BY <1>0, <1>1, <1>2, Solo DEF RateCore, Replied
  <1>4. Waited' /\ Alone'
    BY <1>0, <1>2, Solo, NothingClaimed DEF RateCore
  <1>5. TableSound' /\ EntriesLate' /\ Remembered' /\ IpsOf(rate)' = IpsOf(rate)
    BY <1>1, <1>3, Untouched DEF RateCore
  <1>6. req'[t].at = "room" => ip \notin IpsOf(rate)
    <2>1. req'[t].at = "room" => Entries(rate, ip) = {}
      BY Moves, Places
    <2> QED
      BY <2>1 DEF Entries, IpsOf
  <1>7. req'[t].at = "stamp" => req'[t].slot \in DOMAIN rate /\ rate[req'[t].slot].ip = ip
    <2> SUFFICES ASSUME req'[t].at = "stamp"
                 PROVE  req'[t].slot \in DOMAIN rate /\ rate[req'[t].slot].ip = ip
      OBVIOUS
    <2>1. Entries(rate, ip) # {} /\ req'[t].slot = Min(Entries(rate, ip))
      <3>1. ~Moved(t, At(t, "room"))
        BY Places
      <3>2. /\ Entries(rate, ip) # {}
            /\ Moved(t, [At(t, "stamp") EXCEPT !.slot = Min(Entries(rate, ip))])
        BY <3>1, Moves
      <3> QED
        BY <3>2, Places
    <2>2. Entries(rate, ip) \in SUBSET Nat
      BY Types DEF Entries
    <2>3. Min(Entries(rate, ip)) \in Entries(rate, ip)
      BY <2>1, <2>2, MinIn
    <2> QED
      BY <2>1, <2>3 DEF Entries
  <1>8. InsertSound'
    <2> SUFFICES ASSUME NEW u \in Threads, req'[u].at # "idle"
                 PROVE  /\ req'[u].at \in {"room", "take"} => req'[u].ip \notin IpsOf(rate)'
                        /\ req'[u].at = "take" => Len(rate') < MAX_RATE_LIMIT_ENTRIES
                        /\ req'[u].at = "stamp" => /\ req'[u].slot \in DOMAIN rate'
                                                   /\ rate'[req'[u].slot].ip = req'[u].ip
      BY DEF InsertSound
    <2>1. u = t
      BY <1>0, Solo DEF RateCore
    <2> QED
      BY <1>1, <1>2, <1>5, <1>6, <1>7, <2>1
  <1> QED
    BY <1>4, <1>5, <1>8 DEF RateCore

\* The eviction: who is not in a full table is one client too many, so that the
\* table cannot be asked to hold everybody.
LEMMA RateMakeRoom ==
    ASSUME TypeInv, HistoryInv, RateCore, NEW t \in Threads, MakeRoom(t)
    PROVE  RateCore'
  <1>0. ThreadStep(t)
    BY DEF ThreadStep
  <1> DEFINE ip == req[t].ip
  <1>1. /\ req[t].at = "room" /\ UNCHANGED served /\ req'[t].at = "take" /\ req'[t].ip = ip
        /\ rate' = IF Len(rate) >= MAX_RATE_LIMIT_ENTRIES THEN Evicted(rate) ELSE rate
    BY Moves, Places DEF MakeRoom
  <1>2. \A c : Pending(c)' <=> ip = c
    BY <1>0, <1>1, Solo DEF RateCore, Replied
  <1>3. \A c : Pending(c) <=> ip = c
    BY <1>0, <1>1, Solo DEF RateCore, Replied
  <1>4. Waited' /\ Alone'
    BY <1>0, <1>1, Solo, NothingClaimed DEF RateCore
  <1>5. Answered' = Answered /\ ip \in Answered /\ ip \notin IpsOf(rate)
    BY <1>1 DEF Answered, HistoryInv, Replied, RateCore, InsertSound
  <1>6. rate \in Seq(Slots) /\ Unique(rate) /\ Len(rate) <= MAX_RATE_LIMIT_ENTRIES
        /\ Len(rate) \in Nat /\ DOMAIN rate = 1 .. Len(rate)
    BY Types DEF RateCore, TableSound
  <1>7. CASE Len(rate) < MAX_RATE_LIMIT_ENTRIES
    <2>1. rate' = rate
      BY <1>1, <1>6, <1>7
    <2>2. TableSound' /\ EntriesLate' /\ Remembered' /\ IpsOf(rate)' = IpsOf(rate)
      BY <1>1, <1>2, <1>3, <2>1, Untouched DEF RateCore
    <2>3. InsertSound'
      BY <1>0, <1>1, <1>5, <1>7, <2>1, <2>2, Solo DEF RateCore, InsertSound
    <2> QED
      BY <1>4, <2>2, <2>3 DEF RateCore
  <1>8. CASE Len(rate) = MAX_RATE_LIMIT_ENTRIES
    <2>1. rate' = Evicted(rate) /\ rate # <<>>
      BY <1>1, <1>6, <1>8
    <2>2. /\ Len(rate') = Len(rate) - 1 /\ DOMAIN rate' = 1 .. (Len(rate) - 1)
          /\ \A i \in 1 .. (Len(rate) - 1) : rate'[i] = rate[i + 1]
      BY <1>6, <2>1, EvictedSound
    <2>3. \A i \in DOMAIN rate' : i + 1 \in DOMAIN rate /\ rate'[i] = rate[i + 1] /\ i \in Nat
      BY <1>6, <2>2
    <2>4. Unique(rate')
      <3> SUFFICES ASSUME NEW i \in DOMAIN rate', NEW j \in DOMAIN rate', rate'[i].ip = rate'[j].ip
                   PROVE  i = j
        BY DEF Unique
      <3>1. i + 1 = j + 1
        BY <1>6, <2>3 DEF Unique
      <3> QED
        BY <2>3, <3>1
    <2>5. IpsOf(rate') \subseteq IpsOf(rate)
      BY <2>3 DEF IpsOf
    <2>6. TableSound'
      BY <1>5, <1>6, <2>2, <2>4, <2>5 DEF RateCore, TableSound, IpsOf, Unique
    <2>7. EntriesLate'
      BY <1>1, <1>2, <1>3, <2>3 DEF RateCore, EntriesLate
    <2>8. Remembered'
      <3>1. IpsOf(rate) \cup {ip} \in SUBSET Answered
        BY <1>5 DEF RateCore, TableSound
      <3>2. Cardinality(IpsOf(rate) \cup {ip}) = Len(rate) + 1
        BY <1>5, <1>6, IpsCounted, FS_AddElement
      <3>3. Cardinality(IpsOf(rate) \cup {ip}) <= Cardinality(Answered) /\ Cardinality(Answered) \in Nat
        BY <3>1, FS_Subset, FS_CardinalityType DEF HistoryInv
      <3>4. ~(Cardinality(Answered) <= MAX_RATE_LIMIT_ENTRIES)
        <4> HIDE DEF Answered
        <4> QED
          BY <1>6, <1>8, <3>2, <3>3
      <3> QED
        BY <1>5, <3>4 DEF Remembered
    <2>9. InsertSound'
      <3>1. ip \notin IpsOf(rate') /\ Len(rate') < MAX_RATE_LIMIT_ENTRIES
        BY <1>5, <1>6, <1>8, <2>2, <2>5
      <3>2. \A u \in Threads : u # t => req'[u].at = "idle"
        BY <1>0, Solo DEF RateCore
      <3>3. IpsOf(rate)' = IpsOf(rate')
        BY DEF IpsOf
      <3> QED
        BY <1>1, <3>1, <3>2, <3>3 DEF InsertSound
    <2> QED
      BY <1>4, <2>6, <2>7, <2>8, <2>9 DEF RateCore
  <1>9. Len(rate) < MAX_RATE_LIMIT_ENTRIES \/ Len(rate) = MAX_RATE_LIMIT_ENTRIES
    <2>1. ASSUME NEW a \in Nat, NEW b \in Nat, a <= b PROVE a < b \/ a = b
      BY <2>1
    <2> QED
      BY <1>6, <2>1
  <1> QED
    BY <1>7, <1>8, <1>9

\* A new entry, for the client that is pending.
LEMMA RateTake ==
    ASSUME TypeInv, HistoryInv, RateCore, NEW t \in Threads, Take(t)
    PROVE  RateCore'
  <1>0. ThreadStep(t)
    BY DEF ThreadStep
  <1> DEFINE ip   == req[t].ip
             n    == Len(rate)
             slot == [ip |-> ip, last |-> 0]
  <1>1. /\ req[t].at = "take" /\ UNCHANGED served /\ rate' = Append(rate, slot) /\ ip \in Clients
        /\ req'[t].at = "stamp" /\ req'[t].ip = ip /\ req'[t].slot = n + 1
    BY Moves, Places DEF Take, TypeInv
  <1>2. (\A c : Pending(c)' <=> ip = c) /\ (\A c : Pending(c) <=> ip = c)
    BY <1>0, <1>1, Solo DEF RateCore, Replied
  <1>3. Waited' /\ Alone' /\ \A u \in Threads : u # t => req'[u].at = "idle"
    BY <1>0, <1>1, Solo, NothingClaimed DEF RateCore
  <1>4. /\ Answered' = Answered /\ ip \in Answered
        /\ ip \notin IpsOf(rate) /\ n < MAX_RATE_LIMIT_ENTRIES
    BY <1>1 DEF Answered, HistoryInv, Replied, RateCore, InsertSound
  <1>5. rate \in Seq(Slots) /\ Unique(rate) /\ n \in Nat /\ DOMAIN rate = 1 .. n
    BY Types DEF RateCore, TableSound
  <1>6. slot \in Slots /\ slot.ip = ip
    BY <1>1 DEF Slots
  <1> HIDE DEF slot
  <1>7. rate' \in Seq(Slots) /\ Len(rate') = n + 1 /\ (\A i \in 1 .. n : rate'[i] = rate[i]) /\ rate'[n + 1] = slot
    BY <1>1, <1>5, <1>6, AppendProperties
  <1>8. DOMAIN rate' = 1 .. (n + 1)
    BY <1>7, LenProperties
  <1>9. /\ \A i \in DOMAIN rate' : (i \in DOMAIN rate /\ rate'[i] = rate[i]) \/ (i = n + 1 /\ rate'[i].ip = ip)
        /\ \A i \in DOMAIN rate : i \in DOMAIN rate' /\ rate'[i] = rate[i]
        /\ n + 1 \in DOMAIN rate' /\ rate'[n + 1].ip = ip
    BY <1>5, <1>6, <1>7, <1>8
  <1>10. \A i \in DOMAIN rate : rate[i].ip # ip
    BY <1>4 DEF IpsOf
  <1>11. IpsOf(rate') = IpsOf(rate) \cup {ip} /\ IpsOf(rate)' = IpsOf(rate')
    BY <1>9 DEF IpsOf
  <1>12. Unique(rate')
    BY <1>5, <1>9, <1>10 DEF Unique
  <1>13. TableSound'
    BY <1>4, <1>5, <1>7, <1>11, <1>12 DEF RateCore, TableSound, Unique
  <1>14. EntriesLate'
    BY <1>1, <1>2, <1>9 DEF RateCore, EntriesLate
  <1>15. Remembered'
    BY <1>2, <1>4, <1>11 DEF RateCore, Remembered
  <1>16. InsertSound'
    BY <1>1, <1>3, <1>9 DEF InsertSound
  <1> QED
    BY <1>3, <1>13, <1>14, <1>15, <1>16 DEF RateCore

\* The stamp: the table shows the answer, and the client is not pending any more.
LEMMA RateStamp ==
    ASSUME TypeInv, HistoryInv, RateCore, NEW t \in Threads, Stamp(t)
    PROVE  RateCore'
  <1>0. ThreadStep(t)
    BY DEF ThreadStep
  <1> DEFINE ip == req[t].ip
             k  == req[t].slot
  <1>1. /\ req[t].at = "stamp" /\ UNCHANGED <<served, now>> /\ ip \in Clients
        /\ Moved(t, NoRequest)
        /\ rate' = [i \in DOMAIN rate |-> IF i = k THEN [rate[i] EXCEPT !.last = now] ELSE rate[i]]
    BY Moves DEF Stamp, TypeInv
  <1>2. req'[t].at = "idle" /\ ~Replied(t)'
    BY <1>1, Places
  <1>3. (\A c : ~Pending(c)') /\ (\A c : Pending(c) <=> ip = c)
    BY <1>0, <1>1, <1>2, Solo DEF RateCore, Replied
  <1>4. Waited' /\ Alone' /\ InsertSound'
    BY <1>0, <1>2, Solo, NothingClaimed DEF RateCore
  <1>5. Answered' = Answered /\ k \in DOMAIN rate /\ rate[k].ip = ip
    BY <1>1 DEF Answered, RateCore, InsertSound
  <1>6. /\ rate \in Seq(Slots) /\ Unique(rate) /\ Len(rate) \in Nat /\ DOMAIN rate = 1 .. Len(rate)
        /\ \A i \in DOMAIN rate : rate[i] \in Slots
        /\ now \in Nat
    BY Types DEF RateCore, TableSound
  <1>7. /\ DOMAIN rate' = DOMAIN rate /\ \A i \in DOMAIN rate : rate'[i].ip = rate[i].ip
        /\ rate'[k].last = now /\ \A i \in DOMAIN rate : i # k => rate'[i] = rate[i]
    BY <1>1, <1>5, <1>6 DEF Slots
  <1>8. rate' \in Seq(Slots)
    <2>1. \A i \in DOMAIN rate : [rate[i] EXCEPT !.last = now] \in Slots
      BY <1>6 DEF Slots
    <2>2. rate' \in [1 .. Len(rate) -> Slots]
      BY <1>1, <1>6, <2>1
    <2> QED
      BY <1>6, <2>2, FirstNumbers
  <1>9. Len(rate') = Len(rate)
    <2>1. DOMAIN rate' = 1 .. Len(rate') /\ Len(rate') \in Nat
      BY <1>8, LenProperties
    <2> QED
      BY <1>6, <1>7, <2>1
  <1>10. IpsOf(rate') = IpsOf(rate) /\ IpsOf(rate)' = IpsOf(rate') /\ ip \in IpsOf(rate)
    BY <1>5, <1>7 DEF IpsOf
  <1>11. TableSound'
    BY <1>5, <1>6, <1>7, <1>9, <1>10 DEF RateCore, TableSound, Unique
  <1>12. EntriesLate'
    <2> SUFFICES ASSUME NEW i \in DOMAIN rate PROVE served[rate[i].ip] <= rate'[i].last
      BY <1>1, <1>7 DEF EntriesLate
    <2>1. CASE i = k
      BY <1>1, <1>5, <1>7, <2>1 DEF HistoryInv
    <2>2. CASE i # k
      <3>1. ~Pending(rate[i].ip)
        BY <1>3, <1>5, <1>6, <2>2 DEF Unique
      <3> QED
        BY <1>7, <2>2, <3>1 DEF RateCore, EntriesLate
    <2> QED
      BY <2>1, <2>2
  <1>13. Remembered'
    BY <1>3, <1>5, <1>10 DEF RateCore, Remembered
  <1> QED
    BY <1>4, <1>11, <1>12, <1>13 DEF RateCore

\* Every step keeps the rate limit, one request at a time.
LEMMA RateStep == TypeInv /\ AclInv /\ HistoryInv /\ RateInv /\ [Next]_vars => RateInv'
  <1> SUFFICES ASSUME TypeInv, AclInv, HistoryInv, RateInv, [Next]_vars, ~overlap' PROVE RateCore'
    BY DEF RateInv, RateCore
  <1>1. ASSUME NEW t \in Threads, ThreadStep(t) PROVE RateCore'
    <2>1. RateCore
      BY <1>1, ThreadLeaves DEF RateInv, RateCore
    <2> QED
      BY <1>1, <2>1, RateCheckAcl, RateCheckRate, RateSend, RateFind, RateMakeRoom, RateTake, RateStamp
      DEF ThreadStep
  <1>2. ASSUME NEW t \in Threads, NEW ip \in Clients, NEW mode \in Modes, Request(t, ip, mode)
        PROVE  RateCore'
    <2>1. /\ Moved(t, [at |-> "acl", ip |-> ip, mode |-> mode, slot |-> 0])
          /\ UNCHANGED <<rate, served>>
          /\ ~overlap /\ \A u \in Threads : req[u] = NoRequest
      BY <1>2, Begins
    <2>2. RateCore
      BY <2>1 DEF RateInv, RateCore
    <2>3. req'[t].at = "acl" /\ \A u \in Threads : u # t => req'[u].at = "idle"
      BY <2>1 DEF Moved, NoRequest
    <2>4. \A c : ~Pending(c) /\ ~Pending(c)'
      BY <2>1, <2>3 DEF Pending, Replied, NoRequest
    <2>5. InsertSound' /\ Waited' /\ Alone'
      BY <2>3 DEF InsertSound, Waited, Alone
    <2> QED
      BY <2>1, <2>2, <2>4, <2>5, Untouched DEF RateCore
  <1>3. ASSUME UNCHANGED <<rate, served, req, overlap>>
        PROVE  RateCore /\ Alone' /\ InsertSound' /\ TableSound' /\ EntriesLate' /\ Remembered' /\ Answered' = Answered
    <2>1. RateCore
      BY <1>3 DEF RateInv, RateCore
    <2>2. \A c : Pending(c)' <=> Pending(c)
      BY <1>3 DEF Pending, Replied
    <2>3. TableSound' /\ EntriesLate' /\ Remembered' /\ Answered' = Answered /\ IpsOf(rate)' = IpsOf(rate)
      BY <1>3, <2>1, <2>2, Untouched DEF RateCore
    <2>4. Alone' /\ InsertSound'
      BY <1>3, <2>1, <2>3 DEF RateCore, Alone, InsertSound
    <2> QED
      BY <2>1, <2>3, <2>4
  <1>4. ASSUME NEW l \in Lines, ParseLine(l) PROVE RateCore'
    <2>1. UNCHANGED <<rate, served, req, overlap>> /\ pc = "parse"
      BY <1>4 DEF ParseLine
    <2>2. Waited'
      BY <2>1 DEF AclInv, Waited
    <2> QED
      BY <1>3, <2>1, <2>2 DEF RateCore
  <1>5. CASE EndOfFile \/ Tick \/ UNCHANGED vars
    <2>1. UNCHANGED <<rate, served, req, overlap, cfg>> /\ now' \in {now, now + 1}
      BY <1>5 DEF EndOfFile, Tick, vars, config
    <2>2. RateCore /\ Alone' /\ InsertSound' /\ TableSound' /\ EntriesLate' /\ Remembered' /\ Answered' = Answered
      BY <1>3, <2>1
    <2>3. now \in Nat /\ cfg.interval \in Int /\ \A c \in Clients : served[c] \in Int
      BY Types DEF Never
    <2>4. \A t \in Threads : req[t].at = "send" => req[t].ip \in Clients
      BY DEF TypeInv
    <2>5. Waited'
      <3> SUFFICES ASSUME NEW t \in Threads, req[t].at = "send", served[req[t].ip] # Never,
                          Cardinality(Answered) <= MAX_RATE_LIMIT_ENTRIES
                   PROVE  now' - served[req[t].ip] >= cfg.interval
        BY <2>1, <2>2 DEF Waited
      <3>1. now - served[req[t].ip] >= cfg.interval
        BY <2>2 DEF RateCore, Waited
      <3> QED
        BY <2>1, <2>3, <2>4, <3>1
    <2> QED
      BY <2>2, <2>5 DEF RateCore
  <1> QED
    BY <1>1, <1>2, <1>4, <1>5 DEF Next

-----------------------------------------------------------------------------
(* Theorems                                                                 *)

\* Everything begins with empty tables, the defaults and no request.
LEMMA InitInv == Init => IInv
  <1> SUFFICES ASSUME Init PROVE IInv
    OBVIOUS
  <1>1. \A t \in Threads : req[t] = NoRequest /\ req[t].at = "idle"
    BY DEF Init, NoRequest
  <1>2. Answered = {} /\ rate = <<>> /\ IpsOf(rate) = {} /\ DOMAIN rate = {}
    BY DEF Init, Answered, IpsOf
  <1>3. TypeInv
    <2>1. req \in [Threads -> Req]
      BY DEF Init, NoRequest, Req, Steps, Modes
    <2>2. acl = <<>> /\ rate = <<>> /\ pc = "parse" /\ lines = 0 /\ now = 0 /\ overlap = FALSE
          /\ served \in [Clients -> Nat \cup {Never}]
      BY DEF Init
    <2>3. DOMAIN cfg = {"symmetric", "broadcast", "interval", "ratio", "policy"} /\ cfg.interval \in Int
      BY DEF Init
    <2>4. lines \in 0 .. MaxLines /\ now \in Nat /\ overlap \in BOOLEAN /\ pc \in {"parse", "serve"}
      <3>1. ASSUME NEW m \in Nat PROVE 0 \in 0 .. m
        OBVIOUS
      <3>2. lines \in 0 .. MaxLines /\ now \in Nat
        BY <2>2, <3>1, ModeAssumption
      <3>3. overlap \in BOOLEAN
        BY <2>2, Zenon
      <3> QED
        BY <2>2, <3>2, <3>3
    <2>5. acl \in Seq(Rules) /\ Len(acl) <= MAX_ACL_ENTRIES /\ rate \in Seq(Slots)
      BY <2>2, EmptySeq
    <2>6. TypeOK
      BY <2>1, <2>2, <2>3, <2>4, <2>5 DEF TypeOK, Req, Rules, Slots
    <2> QED
      BY <1>1, <2>6 DEF TypeInv
  <1>4. AclInv
    BY <1>1 DEF AclInv
  <1>5. HistoryInv
    <2>1. \A c \in Clients : served[c] <= now
      BY DEF Init, Never
    <2> QED
      BY <1>1, <1>2, <2>1, FS_EmptySet DEF HistoryInv, Replied
  <1>6. RateInv
    <2>1. Len(rate) = 0
      BY <1>2
    <2> QED
      BY <1>1, <1>2, <2>1 DEF RateInv, Alone, TableSound, InsertSound, EntriesLate, Remembered, Waited, Unique
  <1> QED
    BY <1>3, <1>4, <1>5, <1>6 DEF IInv

\* Requests, tables and answers agree in every reachable state, whatever the
\* request threads of socket.c:438 do to the table they share.
THEOREM Invariance == Spec => []IInv
  <1>1. IInv /\ [Next]_vars => IInv'
    BY TypeStep, AclStep, HistoryStep, RateStep DEF IInv
  <1> QED
    BY <1>1, InitInv, PTL DEF Spec

\* Type correctness, with the ACL of acl_add_entry within its array.
THEOREM TypeCorrect == Spec => []TypeOK
  <1>1. IInv => TypeOK
    BY DEF IInv, TypeInv
  <1> QED
    BY <1>1, Invariance, PTL

\* However many threads of handle_peer_request_thread run, a client outside every
\* network of the ACL is answered only under a default policy that serves, and
\* nobody in a disabled mode.
THEOREM OutsidersAreRefused == Spec => []OutsidersRefused
  <1>1. IInv => OutsidersRefused
    BY DEF IInv, AclInv, OutsidersRefused, Replied, Allowed
  <1> QED
    BY <1>1, Invariance, PTL

\* While requests come one after the other and the clients answered fit into the
\* table, check (socket.c:245), reply and stamp (397) enforce the interval, for
\* every size of the table and every interval.
THEOREM LimitHoldsAlone == Spec => LimitWithoutOverlap
  <1> DEFINE Waits == \A t \in Threads :
                        /\ Send(t) /\ served' # served
                        /\ ~overlap
                        /\ Cardinality({c \in Clients : served'[c] # Never}) <= MAX_RATE_LIMIT_ENTRIES
                        /\ served[req[t].ip] # Never
                        => now - served[req[t].ip] >= cfg.interval
  <1>1. IInv /\ [Next]_vars => [Waits]_vars
    <2> SUFFICES ASSUME IInv, NEW t \in Threads, Send(t), served' # served, ~overlap,
                        Cardinality({c \in Clients : served'[c] # Never}) <= MAX_RATE_LIMIT_ENTRIES,
                        served[req[t].ip] # Never
                 PROVE  now - served[req[t].ip] >= cfg.interval
      OBVIOUS
    <2>1. TypeInv /\ Waited
      BY DEF IInv, RateInv
    <2>2. req[t].at = "send" /\ served' = [served EXCEPT ![req[t].ip] = now]
      BY <2>1, Moves
    <2>3. req[t].ip \in Clients /\ served \in [Clients -> Nat \cup {Never}] /\ now \in Nat
      BY <2>1, <2>2, Types DEF TypeInv
    <2>4. {c \in Clients : served'[c] # Never} = Answered
      BY <2>2, <2>3 DEF Answered, Never
    <2> QED
      BY <2>1, <2>2, <2>4 DEF Waited
  <1> QED
    BY <1>1, Invariance, PTL DEF Spec, LimitWithoutOverlap

=============================================================================
