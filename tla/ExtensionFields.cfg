CONSTANTS
    KeyIds = {0, 7, 263}
    Keys = {"k1", "zero"}
    Lengths = {0, 4, 24, 49}
    FlagBytes = {1, 15}
    Packets <- SomePackets
SPECIFICATION Spec
INVARIANTS TypeOK KeyPairWhole
