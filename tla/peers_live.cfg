\* Two administrators on one peer, and settings saved at any time; liveness, hence no symmetry.
CONSTANTS
    Handler = {h1, h2}
    Conn = {c1, c2}
    NoConn = NoConn
    NoRequest = NoRequest
    Ip = {2}
    NoIp = NoIp
    Name = {n1}
    NoName = NoName
    MaxPeer = 1
    Sockets = {TRUE}
    Ops = {"create", "toggle", "delete", "settings"}
    Faults = {"timeout", "worker", "switch"}
SPECIFICATION FairSpec
INVARIANTS
    OwnAnswer
PROPERTIES
    HandlersFinish
