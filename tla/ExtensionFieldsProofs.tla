----------------------- MODULE ExtensionFieldsProofs ------------------------
(***************************************************************************)
(* For every set of packets, keys and arguments of the two interfaces: key *)
(* and identifier of the shared structure belong together, or are wiped    *)
(* together.                                                               *)
(***************************************************************************)
EXTENDS ExtensionFields, TLAPS

USE NegotiationAssumption, PacketsAssumption

KeyMaterial == Keys \cup {"zero", "default"}

Structures == [state : States, offer : BOOLEAN, response : BOOLEAN, caps : 0..7,
               key_id : 0..255, key : KeyMaterial, enabled : BOOLEAN, authenticated : BOOLEAN]

Givens == [id : KeyIds \cup {0}, key : KeyMaterial, init : BOOLEAN]

\* The structure is wiped and not enabled, or holds what it was given.
PairInv ==
    \/ ido.key = "zero" /\ ido.key_id = 0 /\ ido.enabled = FALSE
    \/ /\ ido.key = given.key
       /\ ido.key_id = given.id \/ (given.init /\ ido.key_id = 0)

\* parse_extension_field_header compares a position behind the header with
\* the length of the header: no walk ever leaves the position it begins at.
WalkInv == \A t \in Parsers : walk[t] # NoWalk => walk[t].pos = HeaderLen

IInv == TypeOK /\ PairInv /\ WalkInv

-----------------------------------------------------------------------------
(* The functions of ido.c and autokey.c, as operators on the structure      *)

\* What the functions of the negotiation leave alone: the key.
SameKey(s, r) == r.key_id = s.key_id /\ r.key = s.key /\ r.enabled = s.enabled

\* The stores of the functions, with the flags they set as a parameter.
LEMMA StoresTyped ==
    ASSUME NEW s \in Structures, NEW c \in 0..7, NEW st \in States, NEW id \in 0..255,
           NEW key \in KeyMaterial, NEW b \in BOOLEAN
    PROVE  /\ [s EXCEPT !.offer = b] \in Structures
           /\ [s EXCEPT !.response = b] \in Structures
           /\ [s EXCEPT !.caps = c, !.offer = b, !.state = st] \in Structures
           /\ [s EXCEPT !.caps = c, !.response = b, !.state = st, !.authenticated = b] \in Structures
           /\ [s EXCEPT !.key_id = id, !.key = key] \in Structures
           /\ [s EXCEPT !.key_id = id, !.key = key, !.enabled = b] \in Structures
  <1>1. [s EXCEPT !.offer = b] \in Structures
    BY SMT DEF Structures
  <1>2. [s EXCEPT !.response = b] \in Structures
    BY Zenon DEF Structures
  <1>3. [s EXCEPT !.caps = c, !.offer = b, !.state = st] \in Structures
    BY Zenon DEF Structures
  <1>4. [s EXCEPT !.caps = c, !.response = b, !.state = st, !.authenticated = b] \in Structures
    BY Zenon DEF Structures
  <1>5. [s EXCEPT !.key_id = id, !.key = key] \in Structures
    BY Zenon DEF Structures
  <1>6. [s EXCEPT !.key_id = id, !.key = key, !.enabled = b] \in Structures
    BY Zenon DEF Structures
  <1> QED
    BY <1>1, <1>2, <1>3, <1>4, <1>5, <1>6

\* An offer or a response, with or without data, leaves the key alone.
LEMMA OffersKeepKey ==
    ASSUME NEW s \in Structures, NEW len \in Lengths, NEW data \in FlagBytes \cup {NoData}
    PROVE  /\ ProcessOffer(s, len, data) \in Structures /\ SameKey(s, ProcessOffer(s, len, data))
           /\ ProcessResponse(s, len, data) \in Structures
           /\ SameKey(s, ProcessResponse(s, len, data))
  <1>1. Capabilities(s, data) \in 0..7
    BY DEF Capabilities, Structures, NoData
  <1>2. "OFFER_RECEIVED" \in States /\ "AUTHENTICATED" \in States
    BY DEF States
  <1>3. ASSUME NEW c \in 0..7, NEW st \in States
        PROVE  /\ [s EXCEPT !.caps = c, !.offer = TRUE, !.state = st] \in Structures
               /\ [s EXCEPT !.caps = c, !.response = TRUE, !.state = st,
                            !.authenticated = TRUE] \in Structures
    <2>1. 0 \in 0..255 /\ "zero" \in KeyMaterial
      BY DEF KeyMaterial
    <2> QED
      BY <2>1, StoresTyped, Zenon
  <1>4. ASSUME NEW c \in 0..7, NEW st \in States
        PROVE  /\ SameKey(s, [s EXCEPT !.caps = c, !.offer = TRUE, !.state = st])
               /\ SameKey(s, [s EXCEPT !.caps = c, !.response = TRUE, !.state = st,
                                       !.authenticated = TRUE])
    BY DEF Structures, SameKey
  <1>5. SameKey(s, s)
    BY DEF SameKey
  <1> QED
    BY <1>1, <1>2, <1>3, <1>4, <1>5 DEF ProcessOffer, ProcessResponse

\* The dispatch by type, and the variant that only tracks the field.
LEMMA ProcessKeepsKey ==
    ASSUME NEW s \in Structures, NEW type, NEW len \in Lengths, NEW data \in FlagBytes \cup {NoData}
    PROVE  /\ Process(s, type, len, data) \in Structures /\ SameKey(s, Process(s, type, len, data))
           /\ ProcessSkip(s, type, len) \in Structures /\ SameKey(s, ProcessSkip(s, type, len))
  <1>1. Process(s, type, len, data) \in Structures /\ SameKey(s, Process(s, type, len, data))
    BY OffersKeepKey DEF Process, SameKey
  <1>2. ProcessSkip(s, type, len) \in Structures /\ SameKey(s, ProcessSkip(s, type, len))
    <2>1. [s EXCEPT !.offer = TRUE] \in Structures /\ [s EXCEPT !.response = TRUE] \in Structures
      <3>1. 0 \in 0..255 /\ 0 \in 0..7 /\ "zero" \in KeyMaterial /\ "IDLE" \in States
        BY DEF KeyMaterial, States
      <3> QED
        BY <3>1, StoresTyped, Zenon
    <2>2. /\ SameKey(s, [s EXCEPT !.offer = TRUE]) /\ SameKey(s, [s EXCEPT !.response = TRUE])
          /\ SameKey(s, s)
      BY DEF Structures, SameKey
    <2> QED
      BY <2>1, <2>2 DEF ProcessSkip
  <1> QED
    BY <1>1, <1>2

\* The state machine moves the state only.
LEMMA MachineKeepsKey ==
    ASSUME NEW s \in Structures, NEW event
    PROVE  StateMachine(s, event) \in Structures /\ SameKey(s, StateMachine(s, event))
  BY DEF StateMachine, Structures, SameKey, States

\* A pair is stored as a whole or not at all.
LEMMA KeysStoredWhole ==
    ASSUME NEW s \in Structures, NEW id \in KeyIds, NEW key \in Keys
    PROVE  /\ KeyInstalled(s, id, key) \in Structures /\ KeyRotated(s, id, key) \in Structures
           /\ IdFits(id) => /\ id \in 0..255
                            /\ KeyInstalled(s, id, key).key_id = id
                            /\ KeyInstalled(s, id, key).key = key
                            /\ KeyRotated(s, id, key).key_id = id
                            /\ KeyRotated(s, id, key).key = key
           /\ ~IdFits(id) => KeyInstalled(s, id, key) = s /\ KeyRotated(s, id, key) = s
  <1>1. CASE ~IdFits(id)
    BY <1>1 DEF KeyInstalled, KeyRotated
  <1>2. CASE IdFits(id)
    <2>1. id \in 0..255 /\ key \in KeyMaterial
      BY <1>2 DEF IdFits, KeyMaterial
    <2>2. /\ [s EXCEPT !.key_id = id, !.key = key, !.enabled = TRUE] \in Structures
          /\ [s EXCEPT !.key_id = id, !.key = key] \in Structures
      <3>1. 0 \in 0..7 /\ "IDLE" \in States
        BY DEF States
      <3> QED
        BY <2>1, <3>1, StoresTyped, Zenon
    <2>3. /\ [s EXCEPT !.key_id = id, !.key = key, !.enabled = TRUE].key_id = id
          /\ [s EXCEPT !.key_id = id, !.key = key, !.enabled = TRUE].key = key
          /\ [s EXCEPT !.key_id = id, !.key = key].key_id = id
          /\ [s EXCEPT !.key_id = id, !.key = key].key = key
      BY DEF Structures
    <2> QED
      BY <1>2, <2>1, <2>2, <2>3 DEF KeyInstalled, KeyRotated
  <1> QED
    BY <1>1, <1>2

\* Every way autokey_init finds its key: the identifier fits and is the one
\* given, or 0.
LEMMA InitialPairFits ==
    ASSUME NEW file \in {"none", "unreadable"} \cup Keys, NEW id \in KeyIds
    PROVE  /\ InitialPair(file, id).id \in 0..255
           /\ InitialPair(file, id).id = id \/ InitialPair(file, id).id = 0
           /\ InitialPair(file, id).key \in KeyMaterial
           /\ InitialPair(file, id).key = IF file \in Keys THEN file ELSE "default"
  BY DEF InitialPair, Pair, IdFits, KeyMaterial

-----------------------------------------------------------------------------
\* What the calls and the walk have to keep.
KeyInv == ido \in Structures /\ given \in Givens /\ PairInv

\* A call that leaves the key alone keeps the invariant.
LEMMA SameKeyKeeps ==
    ASSUME KeyInv, ido' \in Structures, SameKey(ido, ido'), UNCHANGED given
    PROVE  KeyInv'
  BY DEF KeyInv, SameKey, PairInv

\* install, rotate and the extension fields that carry a key.
LEMMA KeyCallsKeep ==
    ASSUME KeyInv, NEW id \in KeyIds, NEW key \in Keys,
           InstallKey(id, key) \/ RotateKey(id, key)
    PROVE  KeyInv'
  <1>1. ido \in Structures
    BY DEF KeyInv
  <1>2. CASE ~IdFits(id)
    BY <1>1, <1>2, KeysStoredWhole DEF KeyInv, InstallKey, RotateKey, PairInv
  <1>3. CASE IdFits(id)
    <2>1. ido' = KeyInstalled(ido, id, key) \/ ido' = KeyRotated(ido, id, key)
      BY DEF InstallKey, RotateKey
    <2>2. ido' \in Structures /\ ido'.key_id = id /\ ido'.key = key
      BY <1>1, <1>3, <2>1, KeysStoredWhole
    <2>3. given' = Arguments(id, key, FALSE)
      BY <1>3 DEF InstallKey, RotateKey
    <2>4. given' \in Givens
      BY <2>3 DEF Arguments, Givens, KeyMaterial
    <2>5. given'.id = id /\ given'.key = key
      BY <2>3 DEF Arguments
    <2> QED
      BY <2>2, <2>4, <2>5 DEF KeyInv, PairInv
  <1> QED
    BY <1>2, <1>3

\* Every call of the two interfaces keeps key and identifier together.
LEMMA CallKeeps == KeyInv /\ Call => KeyInv'
  <1> SUFFICES ASSUME KeyInv, Call PROVE KeyInv'
    OBVIOUS
  <1>1. ido \in Structures
    BY DEF KeyInv
  <1>2. CASE Reset
    <2>1. Cleared \in Structures
      BY DEF Cleared, Structures, States, KeyMaterial
    <2>2. Cleared.key = "zero" /\ Cleared.key_id = 0 /\ Cleared.enabled = FALSE
      BY DEF Cleared
    <2> QED
      BY <1>2, <2>1, <2>2 DEF Reset, IdoStateInit, KeyInv, PairInv
  <1>3. ASSUME NEW len \in Lengths, NEW data \in FlagBytes \cup {NoData},
               CallOffer(len, data) \/ CallResponse(len, data)
        PROVE  KeyInv'
    BY <1>1, <1>3, OffersKeepKey, SameKeyKeeps DEF CallOffer, CallResponse
  <1>4. ASSUME NEW len \in Lengths, NEW data \in FlagBytes \cup {NoData},
               NEW type \in {"offer", "response", "other"}, CallProcess(type, len, data)
        PROVE  KeyInv'
    BY <1>1, <1>4, ProcessKeepsKey, SameKeyKeeps DEF CallProcess
  <1>5. ASSUME NEW type \in {"offer", "response", "other"}, NEW len \in Lengths, CallSkip(type, len)
        PROVE  KeyInv'
    <2>1. NoData \in FlagBytes \cup {NoData}
      OBVIOUS
    <2> QED
      BY <1>1, <1>5, <2>1, ProcessKeepsKey, SameKeyKeeps DEF CallSkip
  <1>6. ASSUME NEW event \in Events, CallMachine(event) PROVE KeyInv'
    BY <1>1, <1>6, MachineKeepsKey, SameKeyKeeps DEF CallMachine
  <1>7. ASSUME NEW file \in {"none", "unreadable"} \cup Keys, NEW id \in KeyIds,
               AutokeyInit(file, id)
        PROVE  KeyInv'
    <2> DEFINE pair == InitialPair(file, id)
    <2>1. /\ pair.id \in 0..255 /\ pair.key \in KeyMaterial
          /\ pair.id = id \/ pair.id = 0
          /\ pair.key = IF file \in Keys THEN file ELSE "default"
      BY InitialPairFits
    <2>2. /\ ido' = [Cleared EXCEPT !.key_id = pair.id, !.key = pair.key, !.enabled = TRUE]
          /\ given' = Arguments(id, pair.key, TRUE)
      BY <1>7, <2>1 DEF AutokeyInit
    <2> HIDE DEF pair
    <2>3. ido' \in Structures /\ ido'.key_id = pair.id /\ ido'.key = pair.key
      <3>1. Cleared \in Structures
        BY DEF Cleared, Structures, States, KeyMaterial
      <3>2. ido' \in Structures
        BY <2>1, <2>2, <3>1, Zenon DEF Structures
      <3>3. ido'.key_id = pair.id /\ ido'.key = pair.key
        BY <2>2, <3>1 DEF Structures
      <3> QED
        BY <3>2, <3>3
    <2>4. given' \in Givens
      BY <2>1, <2>2, Zenon DEF Arguments, Givens
    <2>5. given'.id = id /\ given'.key = pair.key /\ given'.init = TRUE
      BY <2>2, Zenon DEF Arguments
    <2> QED
      BY <2>1, <2>3, <2>4, <2>5 DEF KeyInv, PairInv
  <1>8. ASSUME NEW id \in KeyIds, NEW key \in Keys, InstallKey(id, key) \/ RotateKey(id, key)
        PROVE  KeyInv'
    BY <1>8, KeyCallsKeep
  <1>9. ASSUME NEW id \in KeyIds, NEW key \in Keys, NEW type, NEW len, KeyField(type, len, id, key)
        PROVE  KeyInv'
    <2>1. CASE RevokeKey(id)
      BY <1>1, <2>1, SameKeyKeeps DEF RevokeKey, KeyRevoked, SameKey
    <2> QED
      BY <1>9, <2>1, KeyCallsKeep DEF KeyField
  <1> QED
    BY <1>2, <1>3, <1>4, <1>5, <1>6, <1>7, <1>8, <1>9 DEF Call

\* One turn of the loop: the header test fails at the first field.
LEMMA WalkStops ==
    ASSUME TypeOK, WalkInv, NEW t \in Parsers, WalkStep(t)
    PROVE  walk' = [walk EXCEPT ![t] = NoWalk] /\ UNCHANGED negotiation
  <1>1. walk[t].pos = HeaderLen
    BY DEF WalkInv, WalkStep
  <1>2. ~HeaderParsed(walk[t].pkt, walk[t].pos)
    BY <1>1 DEF HeaderParsed, HeaderLen
  <1> QED
    BY <1>2 DEF WalkStep, negotiation

\* Beginning and ending a walk keep the walks where they begin.
LEMMA WalkKeeps ==
    ASSUME TypeOK, WalkInv, NEW t \in Parsers, BeginWalk(t) \/ WalkStep(t)
    PROVE  /\ WalkInv' /\ walk' \in [Parsers -> [pkt : Packets, pos : Nat] \cup {NoWalk}]
           /\ UNCHANGED negotiation
  <1>1. walk \in [Parsers -> [pkt : Packets, pos : Nat] \cup {NoWalk}]
    BY DEF TypeOK
  <1>2. CASE BeginWalk(t)
    <2>1. PICK p \in Packets : walk' = [walk EXCEPT ![t] = [pkt |-> p, pos |-> HeaderLen]]
      BY <1>2 DEF BeginWalk
    <2> DEFINE w == [pkt |-> p, pos |-> HeaderLen]
    <2>2. w \in [pkt : Packets, pos : Nat] /\ w.pos = HeaderLen
      BY DEF HeaderLen
    <2> HIDE DEF w
    <2> QED
      BY <1>1, <1>2, <2>1, <2>2 DEF BeginWalk, WalkInv, w
  <1>3. CASE WalkStep(t)
    BY <1>1, <1>3, WalkStops DEF WalkInv
  <1> QED
    BY <1>2, <1>3

-----------------------------------------------------------------------------
\* The invariant, arranged for the two halves of a step.
LEMMA Halves ==
    /\ IInv <=> KeyInv /\ WalkInv /\ walk \in [Parsers -> [pkt : Packets, pos : Nat] \cup {NoWalk}]
    /\ IInv' <=> KeyInv' /\ WalkInv' /\ walk' \in [Parsers -> [pkt : Packets, pos : Nat] \cup {NoWalk}]
  BY DEF IInv, KeyInv, TypeOK, Structures, KeyMaterial, Givens

\* The first state satisfies the invariant.
LEMMA InitInv == FieldsInit => IInv
  <1> SUFFICES ASSUME FieldsInit PROVE KeyInv /\ WalkInv
                   /\ walk \in [Parsers -> [pkt : Packets, pos : Nat] \cup {NoWalk}]
    BY Halves
  <1>1. Cleared \in Structures
    BY DEF Cleared, Structures, States, KeyMaterial
  <1>2. KeyInv
    <2>1. ido = Cleared /\ given = Arguments(0, "zero", FALSE)
      BY DEF FieldsInit, Init
    <2>2. given \in Givens
      BY <2>1, Zenon DEF Arguments, Givens, KeyMaterial
    <2>3. ido.key = "zero" /\ ido.key_id = 0 /\ ido.enabled = FALSE
      BY <2>1 DEF Cleared
    <2> QED
      BY <1>1, <2>1, <2>2, <2>3 DEF KeyInv, PairInv
  <1>3. WalkInv /\ walk \in [Parsers -> [pkt : Packets, pos : Nat] \cup {NoWalk}]
    BY DEF FieldsInit, WalkInv
  <1> QED
    BY <1>2, <1>3

\* Every step keeps the invariant.
LEMMA InvStep == IInv /\ [Next]_vars => IInv'
  <1> SUFFICES ASSUME IInv, [Next]_vars PROVE IInv'
    OBVIOUS
  <1>1. CASE Call
    BY <1>1, CallKeeps, Halves DEF Call, WalkInv
  <1>2. ASSUME NEW t \in Parsers, BeginWalk(t) \/ WalkStep(t) PROVE IInv'
    <2>1. TypeOK /\ WalkInv
      BY DEF IInv
    <2>2. /\ WalkInv' /\ walk' \in [Parsers -> [pkt : Packets, pos : Nat] \cup {NoWalk}]
          /\ UNCHANGED <<ido, given>>
      BY <1>2, <2>1, WalkKeeps DEF negotiation
    <2> QED
      BY <2>2, Halves DEF KeyInv, PairInv
  <1>3. CASE UNCHANGED vars
    BY <1>3 DEF vars, negotiation, IInv, TypeOK, PairInv, WalkInv
  <1> QED
    BY <1>1, <1>2, <1>3 DEF Next

\* The invariant holds in every state, whatever the callers and packets do.
THEOREM Invariance == Spec => []IInv
  BY InitInv, InvStep, PTL DEF Spec

\* The structure stays in its domain: the key identifier in 8 bits.
THEOREM TypeCorrect == Spec => []TypeOK
  <1>1. IInv => TypeOK
    BY DEF IInv
  <1> QED
    BY Invariance, <1>1, PTL

\* The structure that ido.c and autokey.c share holds the key last given under
\* its own identifier (or under 0, where autokey_init puts that), or nothing at
\* all, whatever calls are refused and whichever interface wipes it.
THEOREM KeyPairStaysWhole == Spec => []KeyPairWhole
  <1>1. IInv => KeyPairWhole
    <2> SUFFICES ASSUME IInv PROVE KeyPairWhole
      OBVIOUS
    <2>1. CASE ido.key = "zero" /\ ido.key_id = 0 /\ ido.enabled = FALSE
      BY <2>1 DEF KeyPairWhole, Pair, NoPair, MacDone
    <2> QED
      BY <2>1 DEF IInv, PairInv, KeyPairWhole
  <1> QED
    BY Invariance, <1>1, PTL

=============================================================================
