\* Ranges of four sizes at every place among 8 addresses, every set of used ones; every
\* dump of up to two peers, at times on either side of their handshakes.  The walk ends:
\* no deadlock check.
CONSTANTS
    Address <- MCAddress
    Size = {1, 2, 4, 8}
    NoIp = NoIp
    Key = {k1, k2}
    Unread = Unread
    Recent = 3
    Parts = 4
    Dump <- MCDump
    Time = {8, 10, 12, 13}
SPECIFICATION MCSpec
INVARIANTS
    TypeOK
    LeastFree
    OthersUnharmed
    
CHECK_DEADLOCK FALSE
