\* One connection being served and two waiting, in every mixture of live, timed-out
\* and dead clients.  No symmetry: a step of the implementation must map to a step
\* on the same connection.
CONSTANTS
    Conn = {c1, c2, c3}
    NoConn = NoConn
    Request = {r1}
    NoRequest = NoRequest
SPECIFICATION FairSpec
INVARIANTS
    TypeOK
    EndsAgree
    RunOnce
PROPERTIES
    AtMostOnce
    EveryCallReturns
    AbandonedDrain
