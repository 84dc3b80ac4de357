-------------------------- MODULE ExtensionFields ---------------------------
(***************************************************************************)
(* The walk over the extension fields of a packet (skip_extension_fields,  *)
(* ntp_packet.c) by the two threads that parse packets, main and the peer  *)
(* thread, and the shared structure of module Negotiation, which the walk  *)
(* would update without a mutex.                                           *)
(*                                                                         *)
(* A packet is its size and the header [type, len, id, key, flags] found   *)
(* at some positions; elsewhere it is zero. One step is one field.         *)
(***************************************************************************)
EXTENDS Negotiation

CONSTANT Packets    \* packets that arrive: [size, at]

HeaderLen == 48

ASSUME PacketsAssumption == \A p \in Packets : p.size \in Nat /\ p.size >= HeaderLen

Parsers == {"main", "peer"}

VARIABLES walk    \* per parser: [pkt, pos], or NoWalk

vars == <<negotiation, walk>>

NoWalk == [pkt |-> [size |-> 0], pos |-> 0]

\* Two bytes of type and two of length at a position. Zeros are a Crypto-NAK
\* of length 0.
Padding == [type |-> "crypto_nak", len |-> 0]

HeaderAt(p, pos) == IF pos \in DOMAIN p.at THEN p.at[pos] ELSE Padding

\* parse_extension_field_header: the position plus 4 is compared with 48.
HeaderParsed(p, pos) == pos + 4 <= HeaderLen

\* validate_extension_field_length: 48 plus the length against what is behind
\* the header, wherever the field is.
LengthValid(p, len) ==
    /\ len % 4 = 0
    /\ len <= 65532
    /\ HeaderLen + len <= p.size - HeaderLen

\* The length the functions of ido.c and autokey.c get: an 8-bit number.
DataLen(f) == (f.len - 4) % 256

\* The I-DO branch: initialise an idle structure, track the field, process it
\* (without data, which is refused), step the state machine.
IdoField(s, f) ==
    LET init    == IF s.state = "IDLE" THEN IdoStateInit(s) ELSE s
        skipped == ProcessSkip(init, f.type, DataLen(f))
        done    == Process(skipped, f.type, DataLen(f), NoData)
    IN  StateMachine(done, IF f.type = "offer" THEN "OFFER_RECEIVED" ELSE "RESPONSE_SENT")

\* The Autokey branch: install, rotate or revoke with the data of the packet.
AutokeyField(s, f) ==
    IF f.type = "install" /\ KeyLengthOk(DataLen(f)) THEN KeyInstalled(s, f.id, f.key)
    ELSE IF f.type = "rotate" /\ KeyLengthOk(DataLen(f)) THEN KeyRotated(s, f.id, f.key)
    ELSE s

\* The fields that end the walk: LAST-EF, a Crypto-NAK (the Kiss-o'-Death test
\* before it needs a length of 2, which is not a multiple of 4), and an unknown
\* type with a length that makes no sense.
EndsWalk(p, pos, f) ==
    \/ f.type \in {"last", "crypto_nak"}
    \/ f.type = "unknown" /\ ~(f.len >= 4 /\ pos + f.len <= p.size)

\* What a field does to the structure; NTS, checksum, MAC and unknown fields
\* are skipped.
FieldEffect(s, f) ==
    IF f.type \in {"offer", "response"} THEN IdoField(s, f)
    ELSE IF f.type \in {"install", "rotate", "revoke"} THEN AutokeyField(s, f)
    ELSE s

-----------------------------------------------------------------------------
\* parse_ntp_packet begins: a packet of 48 bytes has no fields.
BeginWalk(t) ==
    /\ walk[t] = NoWalk
    /\ \E p \in Packets : /\ p.size > HeaderLen
                          /\ walk' = [walk EXCEPT ![t] = [pkt |-> p, pos |-> HeaderLen]]
    /\ UNCHANGED negotiation

\* One turn of the loop.
WalkStep(t) ==
    LET p == walk[t].pkt
        pos == walk[t].pos
        f == HeaderAt(p, pos)
    IN  /\ walk[t] # NoWalk
        /\ IF /\ pos + 4 <= p.size
              /\ HeaderParsed(p, pos)
              /\ LengthValid(p, f.len)
              /\ ~EndsWalk(p, pos, f)
           THEN /\ ido' = FieldEffect(ido, f)
                /\ walk' = [walk EXCEPT ![t].pos = pos + f.len]
           ELSE /\ walk' = [walk EXCEPT ![t] = NoWalk]
                /\ UNCHANGED ido
        /\ UNCHANGED given

\* A caller of the interfaces of ido.h and autokey.h.
Call ==
    /\ \/ Reset
       \/ \E len \in Lengths, data \in FlagBytes \cup {NoData} :
             \/ CallOffer(len, data) \/ CallResponse(len, data)
             \/ \E type \in {"offer", "response", "other"} : CallProcess(type, len, data)
       \/ \E type \in {"offer", "response", "other"}, len \in Lengths : CallSkip(type, len)
       \/ \E event \in Events : CallMachine(event)
       \/ \E file \in {"none", "unreadable"} \cup Keys, id \in KeyIds : AutokeyInit(file, id)
       \/ \E id \in KeyIds, key \in Keys :
             \/ InstallKey(id, key) \/ RotateKey(id, key)
             \/ \E type \in {"install", "rotate", "revoke"}, len \in Lengths :
                   KeyField(type, len, id, key)
    /\ UNCHANGED walk

FieldsInit == Init /\ walk = [t \in Parsers |-> NoWalk]

Next == Call \/ \E t \in Parsers : BeginWalk(t) \/ WalkStep(t)

Spec == FieldsInit /\ [][Next]_vars

-----------------------------------------------------------------------------
(* Properties                                                               *)

\* Every variable stays in its domain; an 8-bit key identifier in particular.
TypeOK ==
    /\ ido \in [state : States, offer : BOOLEAN, response : BOOLEAN, caps : 0..7,
                key_id : 0..255, key : Keys \cup {"zero", "default"},
                enabled : BOOLEAN, authenticated : BOOLEAN]
    /\ given \in [id : KeyIds \cup {0}, key : Keys \cup {"zero", "default"}, init : BOOLEAN]
    /\ walk \in [Parsers -> [pkt : Packets, pos : Nat] \cup {NoWalk}]

-----------------------------------------------------------------------------
(* The daemon as it runs: the peer thread parses what clients send it. main   *)
(* sends no request (module SyncLoop), and nobody calls the interfaces.       *)

PeerNext == BeginWalk("peer") \/ WalkStep("peer")

PeerSpec == FieldsInit /\ [][PeerNext]_vars /\ WF_vars(WalkStep("peer"))

\* The peer thread has a packet before it whose first field is a valid offer.
HasOffer ==
    /\ walk["peer"] # NoWalk
    /\ walk["peer"].pos = HeaderLen
    /\ LET f == HeaderAt(walk["peer"].pkt, HeaderLen)
       IN  f.type = "offer" /\ LengthOk(DataLen(f)) /\ LengthValid(walk["peer"].pkt, f.len)

\* I-DO offers are a supported extension field (dntpd.8:213-223, and the comment
\* "Use ido_process_skip() for tracking I-DO fields" at ntp_packet.c:296): an
\* offer of a valid length that the peer thread comes to is tracked in
\* g_ido_state.
OfferTracked == HasOffer ~> ido.offer

=============================================================================
