\* Two administrators, on one peer or on two, every operation, every failure.
\* Two rows over two addresses: an address is freed and handed out again.  Three
\* connections: abandoned requests can be queued before and between live ones.
CONSTANTS
    Handler = {h1, h2}
    Conn = {c1, c2, c3}
    NoConn = NoConn
    NoRequest = NoRequest
    Ip = {2, 3}
    NoIp = NoIp
    Name = {n1}
    NoName = NoName
    MaxPeer = 2
    Sockets = {TRUE, FALSE}
    Ops = {"create", "rename", "toggle", "delete", "settings"}
    Faults = {"timeout", "worker", "manager", "reboot", "wg", "db"}
SPECIFICATION Spec
SYMMETRY HandlerAndConnSymmetry
INVARIANTS
    TypeOK
    SyncUnlessFailed
