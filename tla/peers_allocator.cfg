\* One administrator, nothing goes wrong.
CONSTANTS
    Handler = {h1}
    Conn = {c1}
    NoConn = NoConn
    NoRequest = NoRequest
    Ip = {2, 3}
    NoIp = NoIp
    Name = {n1}
    NoName = NoName
    MaxPeer = 3
    Sockets = {TRUE}
    Ops = {"create", "toggle"}
    Faults = {}
SPECIFICATION Spec
INVARIANTS
    AllocatedIpIsUnused
