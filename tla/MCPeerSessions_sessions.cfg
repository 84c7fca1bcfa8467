SPECIFICATION Spec
CONSTANTS
    WORDS = 1
    WORD_BITS = 1
    MAX_COUNTER = 0
    ADDRESS_BITS = 2
    MAX_PEERS = 2
    MAX_CIDRS = 2
    INDEX_MOD = 5
    PublicKeys = {"k1", "k2", "k3"}
    Texts <- MCTexts
    Endpoints = {"home", "away"}
    MAX_HANDSHAKES = 4
CONSTRAINT TextsFirst
INVARIANTS
    IndexFindsItsSession
    PublicKeyFindsItsPeer
    KeysOnlyInLiveSessions
    RoutesFollowTexts
    ExerciseAgrees
    LongestUnlessShadowed
PROPERTIES
    IndexKeepsItsPeer
