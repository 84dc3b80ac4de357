---------------------------- MODULE Negotiation -----------------------------
(***************************************************************************)
(* The I-DO negotiation (ido.c) and the Autokey keys (autokey.c) of dntpd. *)
(* Both work on one structure: autokey.h maps g_autokey_state and all its  *)
(* fields to g_ido_state. This module has what each function of the two    *)
(* interfaces does to that structure, as operators on it, and a caller     *)
(* that uses the interfaces in any order. The daemon itself only calls     *)
(* ido_state_init and ido_state_cleanup; the extension field walk, which   *)
(* would call the others, is module ExtensionFields.                       *)
(***************************************************************************)
EXTENDS Integers

CONSTANTS KeyIds,   \* 32-bit key identifiers callers use
          Keys,     \* key material callers and files use, zeros included
          Lengths,  \* ef_length arguments (8 bits)
          FlagBytes \* first data bytes (8 bits)

ASSUME NegotiationAssumption ==
    /\ KeyIds \subseteq Nat
    /\ Keys \cap {"none", "unreadable"} = {}
    /\ Lengths \subseteq 0..255
    /\ FlagBytes \subseteq 0..255

VARIABLES ido,    \* g_ido_state
          given   \* what the last successful autokey_init, install or rotate was
                  \* called with (history)

negotiation == <<ido, given>>

States == {"IDLE", "OFFER_RECEIVED", "RESPONSE_SENT", "AUTHENTICATED", "REJECTED"}
Events == {"OFFER_RECEIVED", "RESPONSE_SENT", "AUTH_ESTABLISHED", "NEGOTIATION_FAILED"}
NoData == -1    \* ef_data is NULL

Pair(id, key) == [id |-> id, key |-> key]
NoPair        == Pair(0, "zero")

\* The arguments of a call that gives a key: autokey_init or another one.
Arguments(id, key, init) == [id |-> id, key |-> key, init |-> init]

-----------------------------------------------------------------------------
(* The functions, as operators on the structure                             *)

Cleared == [state |-> "IDLE", offer |-> FALSE, response |-> FALSE, caps |-> 0,
            key_id |-> 0, key |-> "zero", enabled |-> FALSE, authenticated |-> FALSE]

\* ido_state_init, ido_state_cleanup, autokey_init_state, autokey_cleanup_state.
IdoStateInit(s) == Cleared

\* The length test of every function that takes an offer or a response.
LengthOk(len) == len \in 4..48

\* The capabilities are the low three bits of the first data byte.
Capabilities(s, data) == IF data = NoData THEN s.caps ELSE data % 8

\* ido_process_offer, autokey_process_offer
ProcessOffer(s, len, data) ==
    IF LengthOk(len)
    THEN [s EXCEPT !.caps = Capabilities(s, data), !.offer = TRUE, !.state = "OFFER_RECEIVED"]
    ELSE s

\* ido_process_response, autokey_process_response
ProcessResponse(s, len, data) ==
    IF LengthOk(len)
    THEN [s EXCEPT !.caps = Capabilities(s, data), !.response = TRUE,
                   !.state = "AUTHENTICATED", !.authenticated = TRUE]
    ELSE s

\* ido_process, autokey_process: data is required; other types are refused.
Process(s, type, len, data) ==
    IF data = NoData THEN s
    ELSE IF type = "offer" THEN ProcessOffer(s, len, data)
    ELSE IF type = "response" THEN ProcessResponse(s, len, data)
    ELSE s

\* ido_process_skip, autokey_process_skip: the flags only.
ProcessSkip(s, type, len) ==
    IF ~LengthOk(len) THEN s
    ELSE IF type = "offer" THEN [s EXCEPT !.offer = TRUE]
    ELSE IF type = "response" THEN [s EXCEPT !.response = TRUE]
    ELSE s

\* ido_state_machine, autokey_state_machine: the state only.
StateMachine(s, event) ==
    IF event = "NEGOTIATION_FAILED" THEN [s EXCEPT !.state = "REJECTED"]
    ELSE IF event = "OFFER_RECEIVED" /\ s.state = "IDLE"
         THEN [s EXCEPT !.state = "OFFER_RECEIVED"]
    ELSE IF event = "RESPONSE_SENT" /\ s.state = "OFFER_RECEIVED"
         THEN [s EXCEPT !.state = "RESPONSE_SENT"]
    ELSE IF event = "AUTH_ESTABLISHED" /\ s.state = "RESPONSE_SENT"
         THEN [s EXCEPT !.state = "AUTHENTICATED"]
    ELSE s

\* A key identifier of the caller has 32 bits, the field has 8.
IdFits(id) == id <= 255

\* Mutant of KeyInstalled: the identifier is stored before it is tested.
KeyInstalledEarly(s, id, key) ==
    IF IdFits(id) THEN [s EXCEPT !.key_id = id, !.key = key, !.enabled = TRUE]
                  ELSE [s EXCEPT !.key_id = id % 256]

\* autokey_install_key
KeyInstalled(s, id, key) ==
    IF IdFits(id) THEN [s EXCEPT !.key_id = id, !.key = key, !.enabled = TRUE] ELSE s

\* Mutant of KeyRotated: the identifier is not compared with its width.
KeyRotatedWide(s, id, key) == [s EXCEPT !.key_id = id, !.key = key]

\* autokey_rotate_key: does not enable.
KeyRotated(s, id, key) ==
    IF IdFits(id) THEN [s EXCEPT !.key_id = id, !.key = key] ELSE s

\* autokey_revoke_key accepts every identifier but the active one, and changes
\* nothing.
KeyRevoked(s, id) == s

\* The extension fields that carry a key: identifier and 20 bytes.
KeyLengthOk(len) == len \in 24..48

\* The pair autokey_init sets up: from a file, whose identifier may not fit;
\* from a file that is missing or too short, the default key under identifier
\* 0; without a file, the default key under the caller's identifier.
InitialPair(file, id) ==
    IF file = "none" THEN Pair(IF id \in 1..255 THEN id ELSE 0, "default")
    ELSE IF file = "unreadable" THEN Pair(0, "default")
    ELSE Pair(IF IdFits(id) THEN id ELSE 0, file)

\* autokey_compute_mac and autokey_verify_mac, which change nothing: whether
\* they return 0 (the latter without looking at the MAC of the packet).
MacDone(s, id) == s.key_id = id /\ s.enabled

-----------------------------------------------------------------------------
(* The caller: one call at a time, in any order                             *)

Init ==
    /\ ido = Cleared
    /\ given = Arguments(0, "zero", FALSE)

\* ido_state_init, ido_state_cleanup and their Autokey twins, autokey_cleanup:
\* whichever interface it belongs to, the call wipes the key of the other.
Reset == ido' = IdoStateInit(ido) /\ UNCHANGED given

CallOffer(len, data)    == ido' = ProcessOffer(ido, len, data) /\ UNCHANGED given
CallResponse(len, data) == ido' = ProcessResponse(ido, len, data) /\ UNCHANGED given
CallProcess(type, len, data) ==
    ido' = Process(ido, type, len, data) /\ UNCHANGED given
CallSkip(type, len)     == ido' = ProcessSkip(ido, type, len) /\ UNCHANGED given
CallMachine(event)      == ido' = StateMachine(ido, event) /\ UNCHANGED given

\* autokey_init: the file's own key and identifier, or the caller's identifier
\* with the default key.
AutokeyInit(file, id) ==
    LET pair == InitialPair(file, id)
    IN  /\ ido' = [Cleared EXCEPT !.key_id = pair.id, !.key = pair.key, !.enabled = TRUE]
        /\ given' = Arguments(id, IF file \in Keys THEN file ELSE "default", TRUE)

InstallKey(id, key) ==
    /\ ido' = KeyInstalled(ido, id, key)
    /\ given' = IF IdFits(id) THEN Arguments(id, key, FALSE) ELSE given

RotateKey(id, key) ==
    /\ ido' = KeyRotated(ido, id, key)
    /\ given' = IF IdFits(id) THEN Arguments(id, key, FALSE) ELSE given

RevokeKey(id) == ido' = KeyRevoked(ido, id) /\ UNCHANGED given

\* autokey_process_key_install, _rotate and _revoke with data.
KeyField(type, len, id, key) ==
    \/ type = "install" /\ KeyLengthOk(len) /\ InstallKey(id, key)
    \/ type = "rotate" /\ KeyLengthOk(len) /\ RotateKey(id, key)
    \/ type = "revoke" /\ LengthOk(len) /\ RevokeKey(id)

-----------------------------------------------------------------------------
(* Properties of the shared structure                                       *)

\* Identifier and key belong together, although calls refused for their
\* identifier or length come in between, a key file ends early, and the I-DO
\* functions wipe the same structure (autokey.h:73): it holds the key of the
\* last call that gave one, under the identifier of that call, for which
\* autokey_init may put 0 (autokey.c:516, 520); or it was wiped as a whole, and
\* no MAC is made or accepted with the zeros.
KeyPairWhole ==
    \/ /\ ido.key = given.key
       /\ ido.key_id = given.id \/ (given.init /\ ido.key_id = 0)
    \/ /\ Pair(ido.key_id, ido.key) = NoPair
       /\ \A id \in KeyIds : ~MacDone(ido, id)

=============================================================================
