\* Two administrators and the restore task at once, competing for one connection and
\* rewriting the same rules while peers come and go, the worker dies, nft commands fail
\* and the table cannot be read.  One address, two peers: a request for a deleted peer
\* meets those for the one that has its address by now.  Rule 2 is never found by its
\* handle.  Liveness, hence no symmetry.
\* Nothing has to happen once the administrator is done: no deadlock check.
SPECIFICATION FairSpec
CONSTANTS
    Handler = {h1, h2}
    h2 = h2
    Boot = Boot
    Conn = {c1}
    h1 = h1
    c1 = c1
    NoConn = NoConn
    NoRequest = NoRequest
    Ip = {2}
    NoIp = NoIp
    Priority = {1}
    Refused = {}
    Marks <- NoMarks
    Unhandled = {2}
    Sockets = {TRUE}
    MaxPeer = 2
    MaxRule = 2
    MaxChain = 1
    Ops = {"peer", "unpeer", "add"}
    Faults = {"overlap", "worker", "nft", "db"}
INVARIANTS AppliedUnlessFailed
PROPERTIES RequestsFinish
CHECK_DEADLOCK FALSE
