CONSTANTS
    KeyIds = {0}
    Keys = {"k1"}
    Lengths = {4}
    FlagBytes = {1}
    Packets <- SomePackets
SPECIFICATION PeerSpec
PROPERTY OfferTracked
