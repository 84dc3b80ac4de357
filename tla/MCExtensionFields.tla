------------------------- MODULE MCExtensionFields --------------------------
(* Instance of ExtensionFields for TLC: packets with one field of each kind. *)
EXTENDS ExtensionFields, TLC

Field(type, len) == [type |-> type, len |-> len, id |-> 7, key |-> "k1"]

\* The field first, a second one behind it, and enough bytes for the test of
\* the length to pass.
Packet(f, g) == [size |-> 180, at |-> (48 :> f) @@ ((48 + f.len) :> g)]

\* Fields of the negotiation and of the keys, a field of length 0, one that is
\* not aligned, one that is longer than the packet, and a packet too short for
\* any header.
SomePackets ==
    {Packet(Field("offer", 8), Field("response", 8)),
     Packet(Field("install", 28), Field("last", 4)),
     Packet(Field("nts", 0), Field("nts", 0)),
     Packet(Field("unknown", 6), Field("last", 4)),
     Packet(Field("unknown", 200), Field("last", 4)),
     [size |-> 50, at |-> <<>>], [size |-> 48, at |-> <<>>]}

=============================================================================
