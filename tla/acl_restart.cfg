\* One administrator, one peer.  The host is restarted; the restore task calls a worker
\* that does not listen yet.
\* Nothing has to happen once the administrator is done: no deadlock check.
SPECIFICATION Spec
CONSTANTS
    Handler = {h1}
    Boot = Boot
    Conn = {c1}
    h1 = h1
    c1 = c1
    NoConn = NoConn
    NoRequest = NoRequest
    Ip = {2}
    NoIp = NoIp
    Priority = {1}
    Refused = {}
    Marks <- NoMarks
    Unhandled = {}
    Sockets = {TRUE}
    MaxPeer = 1
    MaxRule = 1
    MaxChain = 1
    Ops = {"peer", "add"}
    Faults = {"worker", "reboot"}
PROPERTIES RestoredAtStart
CHECK_DEADLOCK FALSE
