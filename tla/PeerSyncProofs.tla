--------------------------- MODULE PeerSyncProofs ---------------------------
(* Proofs about PeerSync for every number of handlers, connections, rows    *)
(* and addresses, every mix of requests and every fault.                    *)
EXTENDS PeerSync, FiniteSetTheorems, TLAPS

RpcProofs == INSTANCE WorkerRpcProofs WITH Request <- PeerRequest

----------------------------------------------------------------------------
(* The invariant.                                                           *)

\* The socket's invariant, which WorkerRpcProofs proves.
RpcInv == Rpc!TypeOK /\ Rpc!EndsAgree /\ Rpc!RunOnce

\* What the locals of a handler hold at each point.
LocalsOK ==
    \A h \in Handler :
        /\ hd[h].at \notin {"send", "wait"} => hd[h].conn = NoConn
        /\ hd[h].at \in {"call", "send", "wait", "write"} => hd[h].id \in Peer
        /\ hd[h].at = "insert" => hd[h].ip \in Ip

\* Every creation that has its address will find an id below the bound.
RoomOK == lastId + Cardinality(Inserting) <= MaxPeer

Inv == RpcInv /\ TypeOK /\ LocalsOK /\ RoomOK /\ OwnAnswer

----------------------------------------------------------------------------
(* What the socket protocol keeps, it keeps here.                           *)

LEMMA SameInv == RpcInv <=> RpcProofs!IInv
BY DEF RpcInv, Rpc!TypeOK, Rpc!EndsAgree, Rpc!RunOnce, Rpc!Result, Rpc!ClientState,
       Rpc!WithWorker, Rpc!Queued,
       RpcProofs!IInv, RpcProofs!TypeOK, RpcProofs!EndsAgree, RpcProofs!RunOnce,
       RpcProofs!Result, RpcProofs!ClientState, RpcProofs!WithWorker, RpcProofs!Queued

LEMMA SameInit == Rpc!Init <=> RpcProofs!Init
BY DEF Rpc!Init, RpcProofs!Init

LEMMA SameNext == [Rpc!Next]_(Rpc!vars) <=> [RpcProofs!Next]_(RpcProofs!vars)
BY DEF Rpc!Next, Rpc!Client, Rpc!Connect, Rpc!Write, Rpc!Timeout, Rpc!Return,
       Rpc!Handle, Rpc!HandleRequest, Rpc!HandleEmpty, Rpc!Reply, Rpc!Accept,
       Rpc!ManagerCrash, Rpc!WorkerStart, Rpc!WorkerCrash, Rpc!vars, Rpc!Result,
       RpcProofs!Next, RpcProofs!Client, RpcProofs!Connect, RpcProofs!Write,
       RpcProofs!Timeout, RpcProofs!Return, RpcProofs!Handle,
       RpcProofs!HandleRequest, RpcProofs!HandleEmpty, RpcProofs!Reply,
       RpcProofs!Accept, RpcProofs!ManagerCrash, RpcProofs!WorkerStart,
       RpcProofs!WorkerCrash, RpcProofs!vars, RpcProofs!Result

LEMMA RpcKeepsInv == RpcInv /\ [Rpc!Next]_(Rpc!vars) => RpcInv'
<1>1. RpcProofs!IInv /\ [RpcProofs!Next]_(RpcProofs!vars) => RpcProofs!IInv'
  BY RpcProofs!NextKeepsIInv, ConnAssumption, RequestAssumption
<1>2. (RpcInv <=> RpcProofs!IInv)'
  BY SameInv, PTL
<1> QED BY <1>1, <1>2, SameInv, SameNext

LEMMA RequestOfType ==
    ASSUME TypeOK, NEW h \in Handler, hd[h].id \in Peer
    PROVE  RequestOf(h) \in PeerRequest
BY DEF TypeOK, Local, RequestOf, PeerRequest

\* Every step is a step of the socket protocol, or leaves it alone.
LEMMA NextUsesRpc == Inv /\ [Next]_vars => [Rpc!Next]_(Rpc!vars)
<1> SUFFICES ASSUME Inv, [Next]_vars PROVE [Rpc!Next]_(Rpc!vars)
  OBVIOUS
<1>1. CASE UNCHANGED rpcVars
  BY <1>1 DEF rpcVars, Rpc!vars
<1>2. CASE \E h \in Handler : Call(h) \/ Receive(h) \/ GiveUp(h)
  <2>1. PICK h \in Handler : Call(h) \/ Receive(h) \/ GiveUp(h)
    BY <1>2
  <2>2. \E c \in Conn : Rpc!Client(c)
    BY <2>1 DEF Call, Receive, GiveUp, Inv, OwnAnswer, Rpc!Client
  <2> QED BY <2>2 DEF Rpc!Next
<1>3. CASE \E h \in Handler : Send(h)
  <2>1. PICK h \in Handler : Send(h)
    BY <1>3
  <2>2. RequestOf(h) \in PeerRequest
    BY <2>1, RequestOfType DEF Send, Inv, LocalsOK
  <2>3. hd[h].conn \in Conn
    BY <2>1 DEF Send, Inv, OwnAnswer
  <2> QED BY <2>1, <2>2, <2>3 DEF Send, Rpc!Client, Rpc!Next
<1>4. CASE Worker
  <2>1. CASE \E c \in Conn : RunRequest(c)
    BY <2>1 DEF RunRequest, Rpc!Next, Rpc!Handle, Rpc!Result
  <2>2. CASE WorkerLoop
    BY <2>2 DEF WorkerLoop, Rpc!Next, Rpc!Handle
  <2>3. CASE WorkerStart
    BY <2>3 DEF WorkerStart, Rpc!Next
  <2> QED BY <1>4, <2>1, <2>2, <2>3 DEF Worker
<1>5. CASE WorkerCrash \/ ManagerCrash \/ Reboot
  BY <1>5 DEF WorkerCrash, ManagerCrash, Reboot, Rpc!Next
<1>6. CASE \E h \in Handler : Begin(h) \/ InsertRow(h) \/ InsertFails(h)
                              \/ CallFails(h) \/ LocalWg(h) \/ DbWrite(h)
  <2>1. UNCHANGED rpcVars
    BY <1>6 DEF Begin, BeginCreate, Rename, BeginToggle, BeginDelete, InsertRow,
                InsertFails, CallFails, LocalWg, DbWrite
  <2> QED BY <2>1, <1>1
<1>7. CASE SaveSettings
  BY <1>1, <1>7 DEF SaveSettings
<1> QED BY <1>1, <1>2, <1>3, <1>4, <1>5, <1>6, <1>7 DEF Next, Continue, vars

----------------------------------------------------------------------------
(* Steps that change the locals of one handler.                             *)

\* A handler that is not waiting for the worker disturbs nobody who is.
LEMMA OffTheSocket ==
    ASSUME Inv, UNCHANGED rpcVars, NEW h \in Handler, NEW l \in Local,
           hd' = [hd EXCEPT ![h] = l], l.at \notin {"send", "wait"}, l.conn = NoConn
    PROVE  OwnAnswer'
<1>1. hd' \in [Handler -> Local] /\ hd'[h] = l
  BY DEF Inv, TypeOK
<1>2. ASSUME NEW g \in Handler, g # h
      PROVE  hd'[g] = hd[g] /\ RequestOf(g)' = RequestOf(g)
  BY <1>2 DEF Inv, TypeOK, RequestOf
<1>3. ASSUME NEW g \in Handler, hd'[g].at \in {"send", "wait"}
      PROVE  /\ hd'[g].conn \in Conn
             /\ hd'[g].at = "send" => cli'[hd'[g].conn] \in {"connected", "err"}
             /\ hd'[g].at = "wait" => /\ cli'[hd'[g].conn] \in {"sent", "ok", "err"}
                                      /\ req'[hd'[g].conn] = RequestOf(g)'
  BY <1>1, <1>2, <1>3 DEF Inv, OwnAnswer, rpcVars
<1>4. ASSUME NEW g \in Handler, hd'[g].at \in {"send", "wait"},
             NEW k \in Handler, hd'[k].conn = hd'[g].conn
      PROVE  k = g
  BY <1>1, <1>2, <1>3, <1>4, ConnAssumption DEF Inv, OwnAnswer
<1> QED BY <1>3, <1>4 DEF OwnAnswer

\* Creations that go on or end leave room for the others.
LEMMA RoomKept ==
    ASSUME Inv, Inserting' \subseteq Inserting, lastId' = lastId
    PROVE  RoomOK'
<1>1. IsFiniteSet(Inserting)
  BY HandlerAssumption, FS_Subset DEF Inserting
<1>2. Cardinality(Inserting') <= Cardinality(Inserting)
  BY <1>1, FS_Subset
<1>3. Cardinality(Inserting) \in Nat /\ Cardinality(Inserting') \in Nat
  BY <1>1, FS_Subset, FS_CardinalityType
<1> QED BY <1>2, <1>3, BoundAssumption DEF Inv, RoomOK, TypeOK

LEMMA IdleIsLocal == Idle \in Local
BY DEF Idle, Local

\* The handler is done with the socket and keeps l.
LeavesWith(h, l) ==
    /\ hd' = [hd EXCEPT ![h] = l]
    /\ l.at \in {"idle", "write"} /\ l.conn = NoConn
    /\ l.at = "write" => l.id \in Peer

\* What the steps that change it make of drift.
LEMMA DriftType ==
    ASSUME TypeOK
    PROVE  /\ \A S : Failed(S) \in Drift
           /\ \A p \in Peer : Joined(p) \in Drift /\ Taken(p) \in Drift
           /\ \A r : Robbed(r) \in Drift
<1>1. ASSUME NEW S PROVE Failed(S) \in Drift
  BY DEF TypeOK, Failed, Drift
<1>2. ASSUME NEW p \in Peer PROVE Joined(p) \in Drift /\ Taken(p) \in Drift
  BY DEF TypeOK, Joined, Taken, Drift
<1>3. ASSUME NEW r PROVE Robbed(r) \in Drift
  BY <1>1 DEF TypeOK, Robbed
<1> QED BY <1>1, <1>2, <1>3

\* What GoesOn leaves in the handler's locals.
LEMMA AfterReturn ==
    ASSUME Inv, NEW h \in Handler, hd[h].at \in {"call", "send", "wait"},
           NEW ok \in BOOLEAN, GoesOn(h, ok)
    PROVE  \E l \in Local : LeavesWith(h, l)
<1>1. hd \in [Handler -> Local] /\ hd[h] \in Local /\ hd[h].id \in Peer
  BY DEF Inv, TypeOK, LocalsOK
<1>3. CASE hd[h].op = "delete" \/ (ok /\ hd[h].op # "create")
  <2> DEFINE l == [hd[h] EXCEPT !.at = "write", !.conn = NoConn]
  <2>1. hd' = [hd EXCEPT ![h] = l]
    BY <1>1, <1>3 DEF GoesOn
  <2>2. l \in Local /\ l.at = "write" /\ l.conn = NoConn /\ l.id \in Peer
    BY <1>1 DEF Local
  <2>3. LeavesWith(h, l)
    BY <2>1, <2>2 DEF LeavesWith
  <2> QED BY <2>2, <2>3
<1>4. CASE ~(hd[h].op = "delete" \/ (ok /\ hd[h].op # "create"))
  <2>1. hd' = [hd EXCEPT ![h] = Idle]
    BY <1>1, <1>4 DEF GoesOn
  <2>2. LeavesWith(h, Idle)
    BY <2>1 DEF LeavesWith, Idle
  <2> QED BY <2>2, IdleIsLocal
<1> QED BY <1>3, <1>4

\* A handler that is, afterwards, neither waiting for the worker nor inserting.
LEMMA LocalStep ==
    ASSUME Inv, UNCHANGED <<rpcVars, lastId>>, NEW h \in Handler, NEW l \in Local,
           hd' = [hd EXCEPT ![h] = l], l.at \in {"idle", "call", "write"},
           l.conn = NoConn, l.at # "idle" => l.id \in Peer
    PROVE  hd' \in [Handler -> Local] /\ LocalsOK' /\ RoomOK' /\ OwnAnswer'
<1>1. hd' \in [Handler -> Local] /\ hd'[h] = l
  BY DEF Inv, TypeOK
<1>2. \A g \in Handler : g # h => hd'[g] = hd[g]
  BY DEF Inv, TypeOK
<1>3. LocalsOK'
  BY <1>1, <1>2 DEF Inv, LocalsOK
<1>4. Inserting' \subseteq Inserting
  BY <1>1, <1>2 DEF Inserting
<1>5. RoomOK'
  BY <1>4, RoomKept
<1>6. OwnAnswer'
  BY OffTheSocket
<1> QED BY <1>1, <1>3, <1>5, <1>6

----------------------------------------------------------------------------
(* Each step keeps the invariant.                                           *)

\* The part of Inv that RpcKeepsInv does not give.
Own == TypeOK /\ LocalsOK /\ RoomOK /\ OwnAnswer

LEMMA BeginCreateKeepsOwn ==
    ASSUME Inv, Rpc!TypeOK', NEW h \in Handler, BeginCreate(h)
    PROVE  Own'
<1>1. PICK ip \in Ip : hd' = [hd EXCEPT ![h] = [Idle EXCEPT !.at = "insert",
                                                         !.op = "create", !.ip = ip,
                                                         !.sock = socket]]
  BY DEF BeginCreate, Allocated
<1> DEFINE l == [Idle EXCEPT !.at = "insert", !.op = "create", !.ip = ip,
                             !.sock = socket]
<1>2. l \in Local /\ l.at = "insert" /\ l.conn = NoConn /\ l.ip = ip
  BY DEF Idle, Local, Inv, TypeOK
<1>3. hd' \in [Handler -> Local] /\ hd'[h] = l
  BY <1>1, <1>2 DEF Inv, TypeOK
<1>4. \A g \in Handler : g # h => hd'[g] = hd[g]
  BY <1>1 DEF Inv, TypeOK
<1>5. OwnAnswer'
  <2> HIDE DEF l
  <2> QED BY <1>1, <1>2, OffTheSocket DEF BeginCreate, l
<1>6. LocalsOK'
  BY <1>2, <1>3, <1>4 DEF Inv, LocalsOK
<1>7. RoomOK'
  <2>1. Inserting' = Inserting \cup {h} /\ h \notin Inserting
    BY <1>2, <1>3, <1>4 DEF Inserting, BeginCreate
  <2>2. IsFiniteSet(Inserting)
    BY HandlerAssumption, FS_Subset DEF Inserting
  <2>3. Cardinality(Inserting') = Cardinality(Inserting) + 1 /\ Cardinality(Inserting) \in Nat
    BY <2>1, <2>2, FS_AddElement, FS_CardinalityType
  <2> QED BY <2>3, BoundAssumption DEF BeginCreate, RoomOK, Inv, TypeOK
<1>8. TypeOK'
  BY <1>3 DEF Inv, TypeOK, BeginCreate
<1> QED BY <1>5, <1>6, <1>7, <1>8 DEF Own

LEMMA InsertRowKeepsOwn ==
    ASSUME Inv, Rpc!TypeOK', NEW h \in Handler, InsertRow(h)
    PROVE  Own'
<1>0. lastId + 1 \in Peer /\ lastId \in Nat /\ lastId' = lastId + 1
  <2>1. IsFiniteSet(Inserting) /\ h \in Inserting
    BY HandlerAssumption, FS_Subset DEF Inserting, InsertRow
  <2>2. Cardinality(Inserting) \in Nat /\ Cardinality(Inserting \ {h}) \in Nat
        /\ Cardinality(Inserting \ {h}) = Cardinality(Inserting) - 1
    BY <2>1, FS_RemoveElement, FS_CardinalityType
  <2> QED BY <2>2, BoundAssumption DEF Inv, RoomOK, TypeOK, Peer, InsertRow
<1>1. PICK l \in Local : /\ hd' = [hd EXCEPT ![h] = l]
                         /\ l.at \in {"idle", "call"} /\ l.conn = NoConn
                         /\ l.at # "idle" => l.id \in Peer
  <2>1. CASE hd' = [hd EXCEPT ![h] = Idle]
    BY <2>1, IdleIsLocal DEF Idle
  <2>2. CASE hd' = [hd EXCEPT ![h].at = "call", ![h].id = lastId + 1]
    <3> DEFINE l == [hd[h] EXCEPT !.at = "call", !.id = lastId + 1]
    <3>1. hd[h] \in Local /\ hd[h].conn = NoConn
      BY DEF Inv, TypeOK, LocalsOK, InsertRow
    <3>2. l \in Local /\ l.at = "call" /\ l.conn = NoConn /\ l.id = lastId + 1
      BY <3>1, <1>0 DEF Local
    <3>3. hd' = [hd EXCEPT ![h] = l]
      BY <2>2 DEF Inv, TypeOK
    <3> QED BY <1>0, <3>2, <3>3
  <2> QED BY <2>1, <2>2 DEF InsertRow
<1>3. hd' \in [Handler -> Local] /\ hd'[h] = l
  BY <1>1 DEF Inv, TypeOK
<1>4. \A g \in Handler : g # h => hd'[g] = hd[g]
  BY <1>1 DEF Inv, TypeOK
<1>5. OwnAnswer'
  BY <1>1, OffTheSocket DEF InsertRow
<1>6. LocalsOK'
  BY <1>1, <1>3, <1>4 DEF Inv, LocalsOK
<1>7. RoomOK'
  <2>1. Inserting' = Inserting \ {h} /\ h \in Inserting
    BY <1>1, <1>3, <1>4 DEF Inserting, InsertRow
  <2>2. IsFiniteSet(Inserting)
    BY HandlerAssumption, FS_Subset DEF Inserting
  <2>3. Cardinality(Inserting') = Cardinality(Inserting) - 1 /\ Cardinality(Inserting) \in Nat
    BY <2>1, <2>2, FS_RemoveElement, FS_CardinalityType
  <2> QED BY <1>0, <2>3, BoundAssumption DEF RoomOK, Inv
<1>8. TypeOK'
  <2>1. hd[h].ip \in Ip
    BY DEF Inv, LocalsOK, InsertRow
  <2>2. PICK nm \in Name :
          peers' = Inserted(lastId + 1, [ip |-> hd[h].ip, active |-> TRUE, name |-> nm])
    BY DEF InsertRow
  <2>3. [ip |-> hd[h].ip, active |-> TRUE, name |-> nm] \in Row
    BY <2>1 DEF Row
  <2>4. DOMAIN peers' \subseteq 1..lastId' /\ \A p \in DOMAIN peers' : peers'[p] \in Row
    BY <1>0, <2>2, <2>3 DEF Inserted, Inv, TypeOK
  <2>5. lastId' \in 0..MaxPeer /\ drift' \in Drift /\ UNCHANGED <<kernel, socket>>
    BY <1>0, DriftType, BoundAssumption DEF InsertRow, Inv, TypeOK, Peer
  <2> QED BY <1>3, <2>4, <2>5 DEF Inv, TypeOK
<1> QED BY <1>5, <1>6, <1>7, <1>8 DEF Own

LEMMA RenamedType ==
    ASSUME TypeOK, NEW p, NEW nm \in Name \cup {NoName}
    PROVE  /\ DOMAIN Renamed(p, nm) = DOMAIN peers
           /\ \A q \in DOMAIN peers : Renamed(p, nm)[q] \in Row
BY DEF TypeOK, Renamed, Row

LEMMA WgType ==
    ASSUME TypeOK, NEW r \in PeerRequest
    PROVE  AfterWg(r) \in [Peer -> Ip \cup {NoIp}]
BY DEF TypeOK, AfterWg, PeerRequest

LEMMA ActivatedType ==
    ASSUME TypeOK, NEW p, NEW on \in BOOLEAN
    PROVE  /\ DOMAIN Activated(p, on) = DOMAIN peers
           /\ \A q \in DOMAIN peers : Activated(p, on)[q] \in Row
BY DEF TypeOK, Activated, Row

LEMMA ReturnStep ==
    ASSUME Inv, UNCHANGED <<rpcVars, lastId>>, NEW h \in Handler, hd[h].at = "call",
           NEW ok \in BOOLEAN, GoesOn(h, ok)
    PROVE  hd' \in [Handler -> Local] /\ LocalsOK' /\ RoomOK' /\ OwnAnswer'
<1>0. hd[h].at \in {"call", "send", "wait"}
  OBVIOUS
<1>1. PICK l \in Local : LeavesWith(h, l)
  BY <1>0, AfterReturn
<1> QED BY <1>1, LocalStep DEF LeavesWith

\* The steps that stay away from the socket.
LEMMA TableStepKeepsOwn ==
    ASSUME Inv, Rpc!TypeOK', NEW h \in Handler,
           \/ InsertFails(h) \/ CallFails(h) \/ LocalWg(h) \/ DbWrite(h)
           \/ \E p \in 1..lastId :
                 \/ \E nm \in Name : Rename(h, p, nm)
                 \/ \E nm \in Name \cup {NoName}, on \in BOOLEAN : BeginToggle(h, p, nm, on)
                 \/ BeginDelete(h, p)
    PROVE  Own'
<1>1. 1..lastId \subseteq Peer
  BY BoundAssumption DEF Inv, TypeOK, Peer
<1>2. hd[h] \in Local
  BY DEF Inv, TypeOK
<1>3. CASE InsertFails(h)
  <2>1. hd' \in [Handler -> Local] /\ LocalsOK' /\ RoomOK' /\ OwnAnswer'
    BY <1>3, IdleIsLocal, LocalStep DEF InsertFails, Idle
  <2> QED BY <1>3, <2>1 DEF InsertFails, Own, Inv, TypeOK
<1>4. CASE CallFails(h)
  <2>1. hd' \in [Handler -> Local] /\ LocalsOK' /\ RoomOK' /\ OwnAnswer'
    BY <1>4, ReturnStep DEF CallFails, CallReturned
  <2>2. drift' \in Drift
    BY <1>4, DriftType DEF CallFails, CallReturned, Inv
  <2> QED BY <1>4, <2>1, <2>2 DEF CallFails, Own, Inv, TypeOK
<1>5. CASE LocalWg(h)
  <2>1. hd' \in [Handler -> Local] /\ LocalsOK' /\ RoomOK' /\ OwnAnswer'
    BY <1>5, ReturnStep DEF LocalWg, CallReturned
  <2>2. RequestOf(h) \in PeerRequest
    BY <1>5, RequestOfType DEF LocalWg, Inv, LocalsOK
  <2>3. kernel' \in [Peer -> Ip \cup {NoIp}]
    BY <1>5, <2>2, WgType DEF LocalWg, Inv, TypeOK
  <2>4. drift' \in Drift
    BY <1>5, DriftType DEF LocalWg, CallReturned, Inv
  <2> QED BY <1>5, <2>1, <2>3, <2>4 DEF LocalWg, Own, Inv, TypeOK
<1>6. CASE DbWrite(h)
  <2>1. hd' \in [Handler -> Local] /\ LocalsOK' /\ RoomOK' /\ OwnAnswer'
    BY <1>6, IdleIsLocal, LocalStep DEF DbWrite, Idle
  <2>2. drift' \in Drift
    BY <1>6, DriftType DEF DbWrite, Inv, TypeOK
  <2>3. DOMAIN peers' \subseteq 1..lastId /\ \A q \in DOMAIN peers' : peers'[q] \in Row
    <3>1. CASE peers' = Deleted(hd[h].id)
      BY <1>6, <3>1 DEF Deleted, Inv, TypeOK
    <3>2. CASE peers' = Activated(hd[h].id, hd[h].op = "enable")
      BY <1>6, <3>2, ActivatedType DEF Inv, TypeOK
    <3> QED BY <1>6, <3>1, <3>2 DEF DbWrite, Inv, TypeOK
  <2> QED BY <1>6, <2>1, <2>2, <2>3 DEF DbWrite, Own, Inv, TypeOK
<1>7. CASE \E p \in 1..lastId, nm \in Name : Rename(h, p, nm)
  <2>1. PICK p \in 1..lastId, nm \in Name : Rename(h, p, nm)
    BY <1>7
  <2>2. hd' \in [Handler -> Local] /\ LocalsOK' /\ RoomOK' /\ OwnAnswer'
    <3>1. hd' = [hd EXCEPT ![h] = hd[h]]
      BY <2>1 DEF Rename, Inv, TypeOK
    <3> QED BY <1>2, <2>1, <3>1, LocalStep DEF Rename, Inv, LocalsOK
  <2>3. DOMAIN peers' \subseteq 1..lastId /\ \A q \in DOMAIN peers' : peers'[q] \in Row
    BY <2>1, RenamedType DEF Rename, Inv, TypeOK
  <2> QED BY <2>1, <2>2, <2>3 DEF Rename, Own, Inv, TypeOK
<1>8. CASE \E p \in 1..lastId, nm \in Name \cup {NoName}, on \in BOOLEAN :
             BeginToggle(h, p, nm, on)
  <2>1. PICK p \in 1..lastId, nm \in Name \cup {NoName}, on \in BOOLEAN :
             BeginToggle(h, p, nm, on)
    BY <1>8
  <2> DEFINE l == [Idle EXCEPT !.at = "call", !.id = p,
                               !.op = IF on THEN "enable" ELSE "disable",
                               !.ip = peers[p].ip, !.sock = socket]
  <2>4. hd' \in [Handler -> Local] /\ LocalsOK' /\ RoomOK' /\ OwnAnswer'
    <3>1. CASE p \in DOMAIN peers /\ peers[p].active # on
      <4>1. l \in Local /\ l.at = "call" /\ l.conn = NoConn /\ l.id \in Peer
        BY <1>1, <3>1 DEF Idle, Local, Inv, TypeOK, Row
      <4>2. hd' = [hd EXCEPT ![h] = l]
        BY <2>1, <3>1 DEF BeginToggle
      <4>3. UNCHANGED <<rpcVars, lastId>>
        BY <2>1 DEF BeginToggle
      <4> HIDE DEF l
      <4> QED BY <4>1, <4>2, <4>3, LocalStep
    <3>2. CASE ~(p \in DOMAIN peers /\ peers[p].active # on)
      <4>1. hd' = [hd EXCEPT ![h] = hd[h]] /\ hd[h].at = "idle"
        BY <2>1, <3>2 DEF BeginToggle, Inv, TypeOK
      <4>2. hd[h].conn = NoConn /\ UNCHANGED <<rpcVars, lastId>>
        BY <2>1, <4>1 DEF BeginToggle, Inv, LocalsOK
      <4> HIDE DEF l
      <4> QED BY <1>2, <4>1, <4>2, LocalStep
    <3> QED BY <3>1, <3>2
  <2>5. DOMAIN peers' \subseteq 1..lastId /\ \A q \in DOMAIN peers' : peers'[q] \in Row
    BY <2>1, RenamedType DEF BeginToggle, Inv, TypeOK
  <2>6. drift' \in Drift
    BY <1>1, <2>1, DriftType DEF BeginToggle, Inv, TypeOK
  <2> QED BY <2>1, <2>4, <2>5, <2>6 DEF BeginToggle, Own, Inv, TypeOK
<1>9. CASE \E p \in 1..lastId : BeginDelete(h, p)
  <2>1. PICK p \in 1..lastId : BeginDelete(h, p)
    BY <1>9
  <2>2. PICK at \in {"call", "write"} :
          hd' = [hd EXCEPT ![h] = [Idle EXCEPT !.op = "delete", !.id = p, !.sock = socket,
                                                !.at = at]]
    BY <2>1 DEF BeginDelete
  <2> DEFINE l == [Idle EXCEPT !.op = "delete", !.id = p, !.sock = socket, !.at = at]
  <2>3. l \in Local /\ l.at = at /\ l.conn = NoConn /\ l.id \in Peer
    BY <1>1, <2>2 DEF Idle, Local, Inv, TypeOK
  <2>4. hd' \in [Handler -> Local] /\ LocalsOK' /\ RoomOK' /\ OwnAnswer'
    <3> HIDE DEF l
    <3> QED BY <2>1, <2>2, <2>3, LocalStep DEF BeginDelete, l
  <2>5. drift' \in Drift
    <3>1. p \in Peer
      BY <1>1
    <3>2. CASE drift' = Taken(p) \/ drift' = Joined(p)
      BY <3>1, <3>2, DriftType DEF Inv
    <3>3. CASE \E x \in {"met", "failed"} : drift' = [drift EXCEPT ![p] = x]
      BY <3>1, <3>3 DEF Inv, TypeOK, Drift
    <3> QED BY <2>1, <3>2, <3>3 DEF BeginDelete
  <2> QED BY <2>1, <2>4, <2>5 DEF BeginDelete, Own, Inv, TypeOK
<1> QED BY <1>3, <1>4, <1>5, <1>6, <1>7, <1>8, <1>9

\* A connection nobody waits on is taken, and is the handler's own.
LEMMA CallKeepsOwn ==
    ASSUME Inv, Rpc!TypeOK', NEW h \in Handler, Call(h)
    PROVE  Own'
<1>1. PICK c \in Conn : Rpc!Connect(c) /\ hd' = [hd EXCEPT ![h].at = "send", ![h].conn = c]
  BY DEF Call
<1>2. hd[h] \in Local /\ hd[h].id \in Peer
  BY DEF Inv, TypeOK, LocalsOK, Call
<1>3. /\ hd' \in [Handler -> Local]
      /\ hd'[h].at = "send" /\ hd'[h].conn = c /\ hd'[h].id = hd[h].id
      /\ \A g \in Handler : g # h => hd'[g] = hd[g]
  BY <1>1, <1>2 DEF Inv, TypeOK, Local
<1>4. /\ cli[c] = "free" /\ cli'[c] = "connected"
      /\ \A d \in Conn : d # c => cli'[d] = cli[d]
      /\ req' = req
  BY <1>1 DEF Rpc!Connect, Inv, RpcInv, Rpc!TypeOK
<1>5. ASSUME NEW g \in Handler, g # h PROVE hd[g].conn # c
  <2>1. CASE hd[g].at \in {"send", "wait"}
    BY <1>4, <2>1 DEF Inv, OwnAnswer
  <2>2. CASE hd[g].at \notin {"send", "wait"}
    BY <2>2, ConnAssumption DEF Inv, LocalsOK
  <2> QED BY <2>1, <2>2
<1>6. OwnAnswer'
  <2>1. ASSUME NEW g \in Handler, hd'[g].at \in {"send", "wait"}
        PROVE  /\ hd'[g].conn \in Conn
               /\ hd'[g].at = "send" => cli'[hd'[g].conn] \in {"connected", "err"}
               /\ hd'[g].at = "wait" => /\ cli'[hd'[g].conn] \in {"sent", "ok", "err"}
                                        /\ req'[hd'[g].conn] = RequestOf(g)'
    BY <1>3, <1>4, <1>5, <2>1 DEF Inv, OwnAnswer, RequestOf
  <2>2. ASSUME NEW g \in Handler, hd'[g].at \in {"send", "wait"},
               NEW k \in Handler, hd'[k].conn = hd'[g].conn
        PROVE  k = g
    BY <1>3, <1>5, <2>2 DEF Inv, OwnAnswer
  <2> QED BY <2>1, <2>2 DEF OwnAnswer
<1>7. LocalsOK'
  BY <1>2, <1>3 DEF Inv, LocalsOK
<1>8. RoomOK'
  BY <1>3, RoomKept DEF Inserting, Call
<1>9. TypeOK'
  BY <1>3 DEF Inv, TypeOK, Call
<1> QED BY <1>6, <1>7, <1>8, <1>9 DEF Own

LEMMA SendKeepsOwn ==
    ASSUME Inv, Rpc!TypeOK', NEW h \in Handler, Send(h)
    PROVE  Own'
<1> DEFINE c == hd[h].conn
<1>1. Rpc!Write(c, RequestOf(h)) /\ hd' = [hd EXCEPT ![h].at = "wait"] /\ c \in Conn
  BY DEF Send, Inv, OwnAnswer
<1>2. hd[h] \in Local /\ hd[h].id \in Peer
  BY DEF Inv, TypeOK, LocalsOK, Send
<1>3. /\ hd' \in [Handler -> Local]
      /\ hd'[h].at = "wait" /\ hd'[h].conn = c /\ hd'[h].id = hd[h].id
      /\ RequestOf(h)' = RequestOf(h)
      /\ \A g \in Handler : g # h => hd'[g] = hd[g]
  BY <1>1, <1>2 DEF Inv, TypeOK, Local, RequestOf
<1>4. /\ cli'[c] = "sent" /\ req'[c] = RequestOf(h)
      /\ \A d \in Conn : d # c => cli'[d] = cli[d] /\ req'[d] = req[d]
  BY <1>1 DEF Rpc!Write, Inv, RpcInv, Rpc!TypeOK
<1>5. ASSUME NEW g \in Handler, g # h PROVE hd[g].conn # c
  BY <1>5 DEF Send, Inv, OwnAnswer
<1> HIDE DEF c
<1>6. OwnAnswer'
  <2>1. ASSUME NEW g \in Handler, hd'[g].at \in {"send", "wait"}
        PROVE  /\ hd'[g].conn \in Conn
               /\ hd'[g].at = "send" => cli'[hd'[g].conn] \in {"connected", "err"}
               /\ hd'[g].at = "wait" => /\ cli'[hd'[g].conn] \in {"sent", "ok", "err"}
                                        /\ req'[hd'[g].conn] = RequestOf(g)'
    BY <1>1, <1>3, <1>4, <1>5, <2>1 DEF Inv, OwnAnswer, RequestOf
  <2>2. ASSUME NEW g \in Handler, hd'[g].at \in {"send", "wait"},
               NEW k \in Handler, hd'[k].conn = hd'[g].conn
        PROVE  k = g
    BY <1>3, <1>5, <2>2 DEF Inv, OwnAnswer
  <2> QED BY <2>1, <2>2 DEF OwnAnswer
<1>7. LocalsOK'
  BY <1>2, <1>3 DEF Inv, LocalsOK
<1>8. RoomOK'
  BY <1>3, RoomKept DEF Inserting, Send
<1>9. TypeOK'
  BY <1>3 DEF Inv, TypeOK, Send
<1> QED BY <1>6, <1>7, <1>8, <1>9 DEF Own

\* Receive and GiveUp free the handler's own connection only.
LEMMA LeaveKeepsOwn ==
    ASSUME Inv, Rpc!TypeOK', NEW h \in Handler, Receive(h) \/ GiveUp(h)
    PROVE  Own'
<1> DEFINE c == hd[h].conn
<1>1. hd[h].at \in {"send", "wait"} /\ c \in Conn /\ UNCHANGED <<peers, lastId, kernel, socket>>
  BY DEF Receive, GiveUp, Inv, OwnAnswer
<1>2. hd[h].at \in {"call", "send", "wait"}
  BY <1>1
<1>3. \A d \in Conn : d # c => cli'[d] = cli[d] /\ req'[d] = req[d]
  BY DEF Receive, GiveUp, Rpc!Return, Rpc!Timeout, Inv, RpcInv, Rpc!TypeOK
<1>4. PICK ok \in BOOLEAN : CallReturned(h, ok)
  <2>1. CASE Receive(h)
    <3>1. CallReturned(h, cli[hd[h].conn] = "ok")
      BY <2>1 DEF Receive
    <3>2. (cli[hd[h].conn] = "ok") \in BOOLEAN
      OBVIOUS
    <3> QED BY <3>1, <3>2, Zenon
  <2>2. CASE GiveUp(h)
    BY <2>2 DEF GiveUp
  <2> QED BY <2>1, <2>2
<1>5. drift' \in Drift
  BY <1>4, DriftType DEF CallReturned, Inv, TypeOK
<1>6. PICK l \in Local : LeavesWith(h, l)
  BY <1>2, <1>4, AfterReturn DEF CallReturned
<1>7. /\ hd' \in [Handler -> Local] /\ hd'[h] = l
      /\ l.at \in {"idle", "write"} /\ l.conn = NoConn
      /\ l.at = "write" => l.id \in Peer
      /\ \A g \in Handler : g # h => hd'[g] = hd[g]
  BY <1>6 DEF LeavesWith, Inv, TypeOK
<1>8. ASSUME NEW g \in Handler, g # h PROVE hd[g].conn # c
  BY <1>1, <1>8 DEF Inv, OwnAnswer
<1> HIDE DEF c
<1>9. OwnAnswer'
  <2>1. ASSUME NEW g \in Handler, hd'[g].at \in {"send", "wait"}
        PROVE  /\ hd'[g].conn \in Conn
               /\ hd'[g].at = "send" => cli'[hd'[g].conn] \in {"connected", "err"}
               /\ hd'[g].at = "wait" => /\ cli'[hd'[g].conn] \in {"sent", "ok", "err"}
                                        /\ req'[hd'[g].conn] = RequestOf(g)'
    BY <1>3, <1>7, <1>8, <2>1 DEF Inv, OwnAnswer, RequestOf
  <2>2. ASSUME NEW g \in Handler, hd'[g].at \in {"send", "wait"},
               NEW k \in Handler, hd'[k].conn = hd'[g].conn
        PROVE  k = g
    BY <1>7, <2>1, <2>2, ConnAssumption DEF Inv, OwnAnswer
  <2> QED BY <2>1, <2>2 DEF OwnAnswer
<1>10. LocalsOK'
  BY <1>7 DEF Inv, LocalsOK
<1>11. RoomOK'
  BY <1>1, <1>7, RoomKept DEF Inserting
<1>12. TypeOK'
  BY <1>1, <1>5, <1>7 DEF Inv, TypeOK
<1> QED BY <1>9, <1>10, <1>11, <1>12 DEF Own

\* The worker's steps change connections, not handlers.
LEMMA WorkerKeepsOwn ==
    ASSUME Inv, Rpc!TypeOK', Worker \/ WorkerCrash
    PROVE  Own'
<1>1. UNCHANGED <<peers, lastId, socket, hd>> /\ drift' \in Drift
  BY DriftType DEF Worker, RunRequest, WorkerLoop, WorkerStart, WorkerCrash, Inv, TypeOK
<1>2. kernel' \in [Peer -> Ip \cup {NoIp}]
  <2>1. CASE \E c \in Conn : RunRequest(c)
    <3>1. PICK c \in Conn : RunRequest(c)
      BY <2>1
    <3>2. CASE UNCHANGED kernel
      BY <3>2 DEF Inv, TypeOK
    <3>3. CASE Rpc!HandleRequest(c, "ok") /\ kernel' = AfterWg(req[c])
      <4>1. req[c] \in PeerRequest
        BY <3>3 DEF Rpc!HandleRequest, Inv, RpcInv, Rpc!TypeOK
      <4> QED BY <3>3, <4>1, WgType DEF Inv
    <3> QED BY <3>1, <3>2, <3>3 DEF RunRequest
  <2>2. CASE WorkerLoop \/ WorkerStart \/ WorkerCrash
    BY <2>2 DEF WorkerLoop, WorkerStart, WorkerCrash, Inv, TypeOK
  <2> QED BY <2>1, <2>2 DEF Worker
<1>3. ASSUME NEW d \in Conn
      PROVE  /\ cli[d] \in {"connected", "err"} => cli'[d] \in {"connected", "err"}
             /\ cli[d] \in {"sent", "ok", "err"} =>
                    cli'[d] \in {"sent", "ok", "err"} /\ req'[d] = req[d]
  <2>1. CASE cli' = cli /\ req' = req
    BY <2>1
  <2>2. CASE \E c \in Conn : Rpc!Reply(c)
    BY <2>2 DEF Rpc!Reply, Rpc!Result, Inv, RpcInv, Rpc!TypeOK, Rpc!EndsAgree,
                Rpc!WithWorker
  <2>3. CASE Rpc!WorkerCrash
    BY <2>3 DEF Rpc!WorkerCrash, Inv, RpcInv, Rpc!TypeOK
  <2> QED BY <2>1, <2>2, <2>3
          DEF Worker, RunRequest, WorkerLoop, WorkerStart, WorkerCrash,
              Rpc!HandleRequest, Rpc!HandleEmpty, Rpc!Accept, Rpc!WorkerStart
<1>4. OwnAnswer'
  BY <1>1, <1>3 DEF Inv, OwnAnswer, RequestOf
<1>5. RoomOK'
  BY <1>1, RoomKept DEF Inserting
<1> QED BY <1>1, <1>2, <1>4, <1>5 DEF Own, Inv, TypeOK, LocalsOK

LEMMA SettingsKeepOwn ==
    ASSUME Inv, SaveSettings
    PROVE  Own'
BY DEF SaveSettings, Own, Inv, RpcInv, TypeOK, Rpc!TypeOK, LocalsOK, RoomOK, Inserting,
       OwnAnswer, RequestOf, rpcVars

\* The manager dies, alone or with the host.
LEMMA ManagerCrashKeepsOwn ==
    ASSUME Inv, Rpc!TypeOK', ManagerCrash \/ Reboot
    PROVE  Own'
<1>1. \A h \in Handler : hd'[h] = Idle
  BY DEF ManagerCrash, Reboot
<1>2. hd' \in [Handler -> Local]
  BY IdleIsLocal DEF ManagerCrash, Reboot
<1>3. LocalsOK' /\ OwnAnswer'
  BY <1>1 DEF LocalsOK, OwnAnswer, Idle
<1>4. RoomOK'
  BY <1>1, RoomKept DEF Inserting, Idle, ManagerCrash, Reboot
<1>5. drift' \in Drift
  BY DriftType DEF ManagerCrash, Reboot, Inv
<1>6. kernel' \in [Peer -> Ip \cup {NoIp}]
  BY DEF ManagerCrash, Reboot, Inv, TypeOK
<1> QED BY <1>2, <1>3, <1>4, <1>5, <1>6 DEF Own, Inv, TypeOK, ManagerCrash, Reboot

----------------------------------------------------------------------------
(* The theorems.                                                            *)

LEMMA InitInv == Init => Inv
<1> SUFFICES ASSUME Init PROVE Inv
  OBVIOUS
<1>1. RpcInv
  BY RpcProofs!InitIInv, SameInv, SameInit, ConnAssumption, RequestAssumption DEF Init
<1>2. hd \in [Handler -> Local]
  BY IdleIsLocal DEF Init
<1>3. TypeOK
  BY <1>1, <1>2, BoundAssumption, OptionAssumption DEF Init, TypeOK, Drift, RpcInv
<1>4. LocalsOK /\ OwnAnswer
  BY DEF Init, LocalsOK, OwnAnswer, Idle
<1>5. RoomOK
  <2>1. Inserting = {}
    BY DEF Init, Inserting, Idle
  <2> QED BY <2>1, FS_EmptySet, BoundAssumption DEF Init, RoomOK
<1> QED BY <1>1, <1>3, <1>4, <1>5 DEF Inv

LEMMA NextKeepsInv == Inv /\ [Next]_vars => Inv'
<1> SUFFICES ASSUME Inv, [Next]_vars PROVE Inv'
  OBVIOUS
<1>1. RpcInv'
  BY NextUsesRpc, RpcKeepsInv DEF Inv
<1>2. Rpc!TypeOK'
  BY <1>1 DEF RpcInv
<1>3. CASE UNCHANGED vars
  BY <1>1, <1>2, <1>3
     DEF vars, rpcVars, Inv, TypeOK, LocalsOK, RoomOK, Inserting, OwnAnswer, RequestOf
<1>4. CASE Next
  <2>1. Own'
    BY <1>2, <1>4, SettingsKeepOwn, BeginCreateKeepsOwn, InsertRowKeepsOwn, TableStepKeepsOwn, CallKeepsOwn,
       SendKeepsOwn, LeaveKeepsOwn, WorkerKeepsOwn, ManagerCrashKeepsOwn
       DEF Next, Begin, Continue
  <2> QED BY <1>1, <2>1 DEF Own, Inv
<1> QED BY <1>3, <1>4

THEOREM Invariance == Spec => []Inv
<1> QED BY InitInv, NextKeepsInv, PTL DEF Spec

\* The table, the kernel and the handlers' locals keep their types, ids stay
\* below the bound and rows only have ids that were handed out.
THEOREM TypeCorrect == Spec => []TypeOK
<1>1. Inv => TypeOK
  BY DEF Inv
<1> QED BY <1>1, Invariance, PTL

\* However many handlers call the worker, a handler that waits owns its
\* connection and is answered for its own request (wg_client::request), through
\* timeouts and the crashes of either process.
THEOREM AnswersAreOwn == Spec => []OwnAnswer
<1>1. Inv => OwnAnswer
  BY DEF Inv
<1> QED BY <1>1, Invariance, PTL

\* Whatever the handlers do, the socket they share behaves as WorkerRpc says.
THEOREM UsesRpc == Spec => Rpc!Spec
<1> QED BY Invariance, NextUsesRpc, PTL DEF Spec, Init, Rpc!Spec
=============================================================================
