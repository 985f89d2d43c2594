\* One administrator, two peers, two priorities, the later rule to come first, every
\* failure but one: that the table cannot be read (acl_live).  Two connections: a rewriting that
\* was given up waits with a newer one.  One address begins the other, and the
\* description of rule 1 holds the other's mark.
\* Nothing has to happen once the administrator is done: no deadlock check.
SPECIFICATION Spec
CONSTANTS
    Handler = {h1}
    Boot = Boot
    Conn = {c1, c2}
    h1 = h1
    c1 = c1
    c2 = c2
    NoConn = NoConn
    NoRequest = NoRequest
    Ip = {2, 20}
    NoIp = NoIp
    Priority = {1, 2}
    Refused = {}
    Marks <- MarksOfOther
    Unhandled = {}
    Sockets = {TRUE}
    MaxPeer = 2
    MaxRule = 2
    MaxChain = 1
    Ops = {"peer", "unpeer", "add", "remove", "settings"}
    Faults = {"timeout", "worker", "manager", "reboot", "nft"}
INVARIANTS TypeOK AppliedUnlessFailed
PROPERTIES UnnamedUntouched
CONSTRAINT LaterFirst
SYMMETRY ConnSymmetry
CHECK_DEADLOCK FALSE
