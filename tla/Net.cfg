SPECIFICATION Spec
CONSTANTS
    RX_BUF_WORDS = 5
    RX_RING_WORDS = 8
    TX_SLOTS = 2
    TX_BUF_WORDS = 2
    RECV_BOUND = 3
    Hosts = {h1, h2, h3}
    Macs = {m1, m2}
    NoHost = NoHost
    NoMac = NoMac
    ARP_CACHE_SIZE = 2
    LEN_MAX = 3
    PING_BOUND = 1
SYMMETRY NetSymmetry
INVARIANTS TypeOK CacheIsLatest HeaderAccepted HandledInOrder
PROPERTIES SentAsAnnounced
CHECK_DEADLOCK FALSE
