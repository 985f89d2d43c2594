\* One administrator, nothing goes wrong.  One address begins the other.
\* Nothing has to happen once the administrator is done: no deadlock check.
SPECIFICATION Spec
CONSTANTS
    Handler = {h1}
    Boot = Boot
    Conn = {c1}
    h1 = h1
    c1 = c1
    NoConn = NoConn
    NoRequest = NoRequest
    Ip = {2, 20}
    NoIp = NoIp
    Priority = {1}
    Refused = {}
    Marks <- NoMarks
    Unhandled = {}
    Sockets = {TRUE}
    MaxPeer = 2
    MaxRule = 2
    MaxChain = 1
    Ops = {"peer", "add"}
    Faults = {}
PROPERTIES OthersUntouched
CHECK_DEADLOCK FALSE
