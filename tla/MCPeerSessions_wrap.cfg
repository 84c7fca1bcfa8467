SPECIFICATION Spec
CONSTANTS
    WORDS = 1
    WORD_BITS = 1
    MAX_COUNTER = 0
    ADDRESS_BITS = 2
    MAX_PEERS = 2
    MAX_CIDRS = 2
    INDEX_MOD = 3
    PublicKeys = {"k1"}
    Texts = {}
    Endpoints = {"home", "away"}
    MAX_HANDSHAKES = 3
INVARIANTS
    ZeroIsReserved
