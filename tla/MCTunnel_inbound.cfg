SPECIFICATION Spec
CONSTANTS
    WORDS = 1
    WORD_BITS = 2
    MAX_COUNTER = 4
    ADDRESS_BITS = 2
    MAX_PEERS = 2
    MAX_CIDRS = 1
    VPN_DEFAULT_INNER_MTU = 1440
    VPN_MAX_PACKET_SIZE = 2048
    INDEX_MOD = 8
    Config <- MCConfig
    Packets <- MCInbound
    Locations = {"home", "away"}
    Home = "home"
    TICK = 1
    MAX_TIME = 2
    MAX_INITIATIONS = 2
    MAX_SENDS = 3
    MAX_READS = 0
    MAX_MOVES = 0
    MAX_DAMAGES = 1
CONSTRAINT TalksOrMoves
INVARIANTS
    WrittenOnce
    WrittenFromOwner

    
