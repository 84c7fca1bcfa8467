SPECIFICATION MCSpec
CONSTANTS
    BYTE = 9
    VPN_DEFAULT_INNER_MTU = 40
    VPN_MAX_PACKET_SIZE = 160
    Numbers <- MCNumbers
    DataSizes = {0, 19, 20, 40, 41, 129}
    TunSizes = {1, 19, 20, 40, 41, 128, 129}
    MAX_PACKETS = 2
    Tokens <- MCTokens
    Width <- MCWidth
    Atoi <- MCAtoi
    Decimal <- MCDecimal
    Ip4 <- MCIp4
    Ip6 <- MCIp6
    Shown <- MCShown
    INET_ADDRSTRLEN = 16
    INET6_ADDRSTRLEN = 16
    HEX = 3
    KEY_LEN = 2
    MAX_TOKENS = 7
    MAX_CHARACTERS = 5
CONSTRAINT SecondAfterFull
INVARIANTS
    WritesInside
    NothingStale
    FieldsSurvive
    NoncesDiffer
    EndpointTextsExact
    EndpointsPrintBack
    KeysPrintBack
    AddressesAgree
CHECK_DEADLOCK FALSE
