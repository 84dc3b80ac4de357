---------------------------- MODULE ModeHandler -----------------------------
(***************************************************************************)
(* Access control and rate limiting of dntpd (mode_handler.c): modes.conf  *)
(* is parsed line by line into the configuration and the ACL, and request  *)
(* threads then check a client against both and against the rate limit     *)
(* table, reply, and update the table (handle_peer_request_thread,         *)
(* socket.c). One thread runs per request; the functions of the ACL hold   *)
(* g_mode_mutex, those of the rate limit table do not: its search, the     *)
(* eviction, the new entry and the stamp are steps that interleave.        *)
(*                                                                         *)
(* handle_client_request, which starts these threads, has no caller: the   *)
(* peer thread answers its requests without looking at any of this. And    *)
(* mode_handler_cleanup blocks before it clears the tables (Daemon).       *)
(*                                                                         *)
(* An address is a number of W bits (32 in the source), a network one with *)
(* a prefix length.                                                        *)
(***************************************************************************)
EXTENDS Integers, FiniteSetsExt, SequencesExt

CONSTANTS W,                       \* bits of an address
          MAX_ACL_ENTRIES,         \* 256 in the source
          MAX_RATE_LIMIT_ENTRIES,  \* 1024 in the source
          Lines,                   \* lines modes.conf may contain
          BroadcastMode,           \* g_cli.broadcast_mode
          Clients,                 \* addresses requests come from
          Threads,                 \* request threads (bound: requests at a time)
          MaxLines,                \* bound: lines of modes.conf
          MaxTime                  \* bound: seconds

ASSUME ModeAssumption ==
    /\ W \in Nat /\ MAX_ACL_ENTRIES \in Nat \ {0} /\ MAX_RATE_LIMIT_ENTRIES \in Nat \ {0}
    /\ BroadcastMode \in BOOLEAN
    /\ Clients \subseteq 0 .. (2^W - 1)
    /\ MaxLines \in Nat /\ MaxTime \in Nat

Modes    == {"client", "symmetric", "broadcast", "control"}
Flags    == {"noquery", "noserve", "limited"}
Networks == [ip : 0 .. (2^W - 1), len : 0 .. W]

\* What the parser makes of a line: a key it knows, with a value of its type.
ASSUME LinesAssumption ==
    \A l \in Lines :
        /\ l.key \in {"symmetric", "broadcast"} => l.val \in BOOLEAN
        /\ l.key \in {"interval", "ratio"} => l.val \in Int
        /\ l.key = "policy" => l.val \subseteq Flags
        /\ l.key \in {"acl_allow", "acl_remove"} => l.net \in Networks

\* Arithmetic that the proofs need and the provers lack: the size of a network
\* is a positive number.
ASSUME PowersAssumption == \A n \in 0 .. W : 2^n \in Nat \ {0}

VARIABLES cfg,      \* g_mode_config
          acl,      \* g_acl_entries, in order
          rate,     \* g_rate_limit_entries, in order
          pc,       \* main: parse, serve
          lines,    \* lines parsed so far
          now,      \* seconds
          req,      \* per thread: where it is, its request, its entry
          served,   \* per client, when it was last answered, or Never (history)
          overlap   \* two requests were once under way together (history)

config == <<cfg, acl, pc, lines>>
vars   == <<config, rate, now, req, served, overlap>>

Never     == -1
NoRequest == [at |-> "idle", ip |-> 0, mode |-> "client", slot |-> 0]

-----------------------------------------------------------------------------
(* The ACL                                                                  *)

\* Mutant of InNetwork: the mask is one bit too short.
InNetworkShort(ip, n) == LET s == 2^(W - n.len + 1) IN ip \div s = n.ip \div s

\* ip_in_network with the mask of parse_network.
InNetwork(ip, n) == LET s == 2^(W - n.len) IN ip \div s = n.ip \div s

\* Mutant of AclAdd: the size of the array is not looked at.
AclAddUnbounded(table, net, flags) ==
    IF net.ip = 0 THEN table ELSE Append(table, [net |-> net, flags |-> flags])

\* acl_add_entry: parse_network returns 0 for an address of 0 as for an error.
AclAdd(table, net, flags) ==
    IF Len(table) >= MAX_ACL_ENTRIES \/ net.ip = 0 THEN table
    ELSE Append(table, [net |-> net, flags |-> flags])

\* acl_remove_entry: the first entry with this address and mask.
AclRemove(table, net) ==
    LET hits == {i \in DOMAIN table : table[i].net = net}
    IN  IF net.ip = 0 \/ hits = {} THEN table ELSE RemoveAt(table, Min(hits))

\* acl_get_client_flags: the first matching entry decides.
ClientFlags(ip) ==
    LET hits == {i \in DOMAIN acl : InNetwork(ip, acl[i].net)}
    IN  IF hits = {} THEN cfg.policy ELSE acl[Min(hits)].flags

\* acl_check_client
AclCheckClient(ip, mode) ==
    /\ ip # 0
    /\ mode = "symmetric" => cfg.symmetric
    /\ mode = "broadcast" => cfg.broadcast
    /\ IF mode = "control" THEN "noquery" \notin ClientFlags(ip)
                           ELSE "noserve" \notin ClientFlags(ip)

-----------------------------------------------------------------------------
(* The rate limit table                                                     *)

\* Mutant of Entries: the search ends one entry early.
EntriesShort(table, ip) == {i \in 1 .. (Len(table) - 1) : table[i].ip = ip}

\* rate_limit_find
Entries(table, ip) == {i \in DOMAIN table : table[i].ip = ip}

\* rate_limit_check: the client has to wait.
RateLimitCheck(ip) ==
    /\ Entries(rate, ip) # {}
    /\ now - rate[Min(Entries(rate, ip))].last < cfg.interval

\* The first entry goes, "evicting oldest": memmove moves the size of the array,
\* whatever the count is.
Evicted(table) ==
    [i \in 1 .. (Len(table) - 1) |-> IF i < MAX_RATE_LIMIT_ENTRIES THEN table[i + 1] ELSE table[i]]

-----------------------------------------------------------------------------
(* Operations                                                               *)

\* One line of mode_handler_parse_config: acl_allow takes the network only (its
\* flags are dropped), and "other" is a value that does not parse, or a setting
\* no reply here depends on (a control message has no reply even when they are
\* enabled).
ParseLine(l) ==
    /\ pc = "parse"
    /\ lines < MaxLines
    /\ lines' = lines + 1
    /\ \/ /\ l.key \in {"symmetric", "broadcast", "interval", "ratio", "policy"}
          /\ cfg' = [cfg EXCEPT ![l.key] = l.val]
          /\ UNCHANGED acl
       \/ /\ l.key = "acl_allow"
          /\ acl' = AclAdd(acl, l.net, {})
          /\ UNCHANGED cfg
       \/ /\ l.key = "acl_remove"
          /\ acl' = AclRemove(acl, l.net)
          /\ UNCHANGED cfg
       \/ /\ l.key = "other"
          /\ UNCHANGED <<cfg, acl>>
    /\ UNCHANGED <<pc, rate, now, req, served, overlap>>

EndOfFile ==
    /\ pc = "parse"
    /\ pc' = "serve"
    /\ UNCHANGED <<cfg, acl, lines, rate, now, req, served, overlap>>

Goes(t, to) == req' = [req EXCEPT ![t].at = to]
Ends(t)     == req' = [req EXCEPT ![t] = NoRequest]

\* handle_client_request: a thread for a request of 48 bytes.
Request(t, ip, mode) ==
    /\ pc = "serve"
    /\ req[t] = NoRequest
    /\ req' = [req EXCEPT ![t] = [at |-> "acl", ip |-> ip, mode |-> mode, slot |-> 0]]
    /\ overlap' = (overlap \/ \E u \in Threads : req[u] # NoRequest)
    /\ UNCHANGED <<config, rate, now, served>>

\* acl_check_client
CheckAcl(t) ==
    /\ req[t].at = "acl"
    /\ IF AclCheckClient(req[t].ip, req[t].mode) THEN Goes(t, "rate") ELSE Ends(t)
    /\ UNCHANGED <<config, rate, now, served, overlap>>

\* handle_peer_request_thread: control messages are refused or unknown, a
\* broadcast needs the option of the command line too, and the reply of 48
\* bytes must not exceed max_response_ratio (in percent) of the request.
HasReply(mode) ==
    /\ mode # "control"
    /\ mode = "broadcast" => BroadcastMode
    /\ cfg.ratio >= 100

\* rate_limit_check, and the tests between it and the reply.
CheckRate(t) ==
    /\ req[t].at = "rate"
    /\ IF ~RateLimitCheck(req[t].ip) /\ HasReply(req[t].mode) THEN Goes(t, "send") ELSE Ends(t)
    /\ UNCHANGED <<config, rate, now, served, overlap>>

\* sendto, or one of the calls before it, may fail, and the table stays as it is.
Send(t) ==
    /\ req[t].at = "send"
    /\ \/ Goes(t, "find") /\ served' = [served EXCEPT ![req[t].ip] = now]
       \/ Ends(t) /\ UNCHANGED served
    /\ UNCHANGED <<config, rate, now, overlap>>

\* rate_limit_update and rate_limit_insert: look for the client's entry; ...
Find(t) ==
    LET found == Entries(rate, req[t].ip)
    IN  /\ req[t].at = "find"
        /\ IF found = {} THEN Goes(t, "room")
           ELSE req' = [req EXCEPT ![t].at = "stamp", ![t].slot = Min(found)]
        /\ UNCHANGED <<config, rate, now, served, overlap>>

\* ... make room for a new one; ...
MakeRoom(t) ==
    /\ req[t].at = "room"
    /\ rate' = IF Len(rate) >= MAX_RATE_LIMIT_ENTRIES THEN Evicted(rate) ELSE rate
    /\ Goes(t, "take")
    /\ UNCHANGED <<config, now, served, overlap>>

\* ... take the entry behind the last one (behind the array, when two threads
\* have made room for one); ...
Take(t) ==
    /\ req[t].at = "take"
    /\ rate' = Append(rate, [ip |-> req[t].ip, last |-> 0])
    /\ req' = [req EXCEPT ![t].at = "stamp", ![t].slot = Len(rate) + 1]
    /\ UNCHANGED <<config, now, served, overlap>>

\* ... and stamp it, whoever's it has become. (A store behind the count is lost.)
Stamp(t) ==
    /\ req[t].at = "stamp"
    /\ rate' = [i \in DOMAIN rate |->
                   IF i = req[t].slot THEN [rate[i] EXCEPT !.last = now] ELSE rate[i]]
    /\ Ends(t)
    /\ UNCHANGED <<config, now, served, overlap>>

Tick ==
    /\ now < MaxTime
    /\ now' = now + 1
    /\ UNCHANGED <<config, rate, req, served, overlap>>

\* mode_handler_init and the static configuration: secure defaults.
Init ==
    /\ cfg = [symmetric |-> TRUE, broadcast |-> FALSE,
              interval |-> 2, ratio |-> 100, policy |-> Flags]
    /\ acl = <<>> /\ rate = <<>>
    /\ pc = "parse" /\ lines = 0
    /\ now = 0
    /\ req = [t \in Threads |-> NoRequest]
    /\ served = [ip \in Clients |-> Never]
    /\ overlap = FALSE

ThreadStep(t) == \/ CheckAcl(t) \/ CheckRate(t) \/ Send(t)
                 \/ Find(t) \/ MakeRoom(t) \/ Take(t) \/ Stamp(t)

Next == \/ EndOfFile \/ Tick
        \/ \E l \in Lines : ParseLine(l)
        \/ \E t \in Threads : \E ip \in Clients : \E mode \in Modes : Request(t, ip, mode)
        \/ \E t \in Threads : ThreadStep(t)

Spec == Init /\ [][Next]_vars

-----------------------------------------------------------------------------
(* Properties                                                               *)

Steps == {"idle", "acl", "rate", "send", "find", "room", "take", "stamp"}

\* Every variable stays in its domain; the ACL within its array.
TypeOK ==
    /\ DOMAIN cfg = {"symmetric", "broadcast", "interval", "ratio", "policy"}
    /\ cfg.interval \in Int
    /\ acl \in Seq([net : Networks, flags : SUBSET Flags]) /\ Len(acl) <= MAX_ACL_ENTRIES
    /\ rate \in Seq([ip : Clients, last : Nat])
    /\ pc \in {"parse", "serve"} /\ lines \in 0 .. MaxLines /\ now \in Nat
    /\ req \in [Threads -> [at : Steps, ip : Clients \cup {0}, mode : Modes, slot : Nat]]
    /\ served \in [Clients -> Nat \cup {Never}]
    /\ overlap \in BOOLEAN

\* The bits of a network's prefix, and what the ACL has to mean: a network of
\* the table covers the client.
Prefix(ip, len) == ip - (ip % 2^(W - len))

Covered(ip) == \E i \in DOMAIN acl : Prefix(ip, acl[i].net.len) = Prefix(acl[i].net.ip, acl[i].net.len)

Replied(t) == req[t].at \in {"find", "room", "take", "stamp"}

\* A client outside every network of modes.conf gets a reply (socket.c:238-381)
\* only if the default policy serves everybody, whatever the masks and the
\* networks removed meanwhile, and nobody gets one in a mode that is disabled.
\* (Of clients inside a network nothing is said here: the flags an acl_allow
\* line may give are dropped, mode_handler.c:536.)
OutsidersRefused ==
    \A t \in Threads : Replied(t) =>
        /\ ~Covered(req[t].ip) => "noserve" \notin cfg.policy
        /\ req[t].mode = "broadcast" => cfg.broadcast
        /\ req[t].mode = "symmetric" => cfg.symmetric

\* The rate limit as a client sees it: the check (socket.c:245) comes before the
\* reply and the stamp after it (397), with time passing between them, entries
\* inserted and the table shifted; still, as long as requests have come one
\* after the other and the clients answered fit into the table, none is
\* answered twice within the interval. (Two requests under way together can both
\* pass, and leave two entries; a full table loses its first one.)
LimitWithoutOverlap ==
    [][\A t \in Threads :
          /\ Send(t) /\ served' # served
          /\ ~overlap
          /\ Cardinality({c \in Clients : served'[c] # Never}) <= MAX_RATE_LIMIT_ENTRIES
          /\ served[req[t].ip] # Never
          => now - served[req[t].ip] >= cfg.interval]_vars

=============================================================================
