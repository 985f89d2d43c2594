-------------------------- MODULE PeerInSyncProofs --------------------------
(* The proof that a peer whose last change went through has the tunnel its  *)
(* row asks for, whatever requests are still with the worker.               *)
EXTENDS PeerSyncProofs

----------------------------------------------------------------------------
(* The requests with the worker.                                            *)

Live(c) == RpcProofs!Live(c)
Ahead(c, d) == RpcProofs!Ahead(c, d)
Ran(c) == RpcProofs!Ran(c)

\* A request that the worker will run, if it lives.
Pending(c) == Live(c) /\ req[c] # NoRequest

\* No such request is about peer p.
Settled(p) == \A c \in Conn : Pending(c) => req[c].id # p

\* The request on d is about peer q, or will be once it is written.
Asks(d, q) ==
    \/ req[d] # NoRequest /\ req[d].id = q
    \/ \E h \in Handler : hd[h].at = "send" /\ hd[h].conn = d /\ hd[h].id = q

----------------------------------------------------------------------------
(* The invariant.                                                           *)

\* What is being done at each point.
Stage(l) ==
    /\ l.at \in {"idle", "insert"} => l.id = 0
    /\ l.at = "insert" => l.op = "create"
    /\ l.at \in {"call", "send", "wait"} => l.op # "none"
    /\ l.at = "write" => l.op \in {"enable", "disable", "delete"}

StagesOK == \A h \in Handler : Stage(hd[h])

\* Every request in flight goes the way the settings say; without the worker nothing
\* is with it.
SocketOK ==
    /\ \A h \in Handler : hd[h].at # "idle" => hd[h].sock = socket
    /\ ~socket => \A c \in Conn : cli[c] = "free"

UniqueOK == \A p, q \in DOMAIN peers : peers[p].ip = peers[q].ip => p = q

\* Nobody has heard of an id that was not handed out.
FreshOK ==
    /\ \A h \in Handler : hd[h].id <= lastId
    /\ \A c \in Conn : req[c] # NoRequest => req[c].id <= lastId
    /\ \A p \in Peer : kernel[p] # NoIp => p <= lastId

\* The address in a handler's locals, in a request or in the kernel is that of the
\* peer's row, as long as there is one.
AddressOK ==
    /\ \A h \in Handler :
          hd[h].id # 0 /\ hd[h].op \in {"create", "enable"} =>
             /\ hd[h].id \in DOMAIN peers => peers[hd[h].id].ip = hd[h].ip
             /\ hd[h].id \in DOMAIN peers \/ drift[hd[h].id] = "met"
    /\ \A c \in Conn :
          req[c] # NoRequest =>
             (req[c].ip # NoIp /\ req[c].id \in DOMAIN peers => peers[req[c].id].ip = req[c].ip)
    /\ \A p \in DOMAIN peers : kernel[p] # NoIp => kernel[p] = peers[p].ip

\* Two requests about one peer know that they met.
MetOK ==
    \A g, h \in Handler :
        g # h /\ hd[g].id = hd[h].id /\ hd[g].id # 0 => drift[hd[g].id] = "met"

\* A request left behind by another peer that had q's address runs before any
\* request about q does.
Turn(c, q) ==
    req[c].ip = peers[q].ip /\ req[c].id # q /\ drift[req[c].id] # "met" =>
        /\ kernel[q] = NoIp
        /\ \A d \in Conn : Live(d) /\ Asks(d, q) => Ahead(c, d)

InTurnOK == \A c \in Conn, q \in DOMAIN peers : Pending(c) => Turn(c, q)

\* The row is as the request found it, or made it.
RowReady(h) ==
    /\ \/ hd[h].op \in {"create", "disable"}
       \/ hd[h].op = "delete" /\ hd[h].at # "write"
       => hd[h].id \in DOMAIN peers /\ peers[hd[h].id].active
    /\ hd[h].op = "enable" => hd[h].id \in DOMAIN peers /\ ~peers[hd[h].id].active

\* WireGuard has what h asks for, and keeps it.
Done(h) == kernel[hd[h].id] = RequestOf(h).ip /\ Settled(hd[h].id)

\* h's request is the last one about its peer.
LastInLine(h) ==
    \A c \in Conn :
        Pending(c) => (req[c].id = hd[h].id /\ c # hd[h].conn => Ahead(c, hd[h].conn))

OnCourse(h) ==
    /\ RowReady(h)
    /\ hd[h].at = "write" => Done(h)
    /\ hd[h].at \in {"send", "wait"} /\ Live(hd[h].conn) => LastInLine(h)
    /\ hd[h].at = "wait" /\ Ran(hd[h].conn) => Done(h)

\* A peer nothing has left behind is in line, or the one request about it is bringing
\* it back into line.
CourseOK == \A h \in Handler : hd[h].id # 0 /\ drift[hd[h].id] = "none" => OnCourse(h)

RestOK ==
    \A p \in Peer : drift[p] = "none" /\ ~Busy(p) => kernel[p] = Wanted(p) /\ Settled(p)

SyncInv ==
    /\ StagesOK /\ SocketOK /\ UniqueOK /\ FreshOK
    /\ AddressOK /\ MetOK /\ InTurnOK /\ CourseOK /\ RestOK

----------------------------------------------------------------------------
(* What WorkerRpcProofs says of the queue.                                  *)

\* What the steps that run nothing leave as it was.
Undisturbed ==
    /\ \A c \in Conn : Live(c)' => Live(c) /\ req'[c] = req[c]
    /\ \A c \in Conn : req'[c] # NoRequest => req'[c] = req[c]
    /\ \A c \in Conn : Ran(c)' => Ran(c)
    /\ \A c, d \in Conn : Live(c)' /\ Live(d)' /\ Ahead(c, d) => Ahead(c, d)'

LEMMA SameQueue ==
    ASSUME UNCHANGED rpcVars
    PROVE  /\ \A c : Live(c)' <=> Live(c)
           /\ \A c, d : Ahead(c, d)' <=> Ahead(c, d)
           /\ \A c : Ran(c)' <=> Ran(c)
           /\ req' = req /\ cli' = cli
BY DEF rpcVars, Live, Ahead, Ran, RpcProofs!Live, RpcProofs!Ahead, RpcProofs!Ran,
       RpcProofs!Queued

LEMMA ConnectIsLast ==
    ASSUME Inv, NEW c \in Conn, Rpc!Connect(c)
    PROVE  /\ ~Live(c) /\ req[c] = NoRequest /\ req' = req
           /\ \A d \in Conn : Live(d)' => Live(d) \/ d = c
           /\ \A d \in Conn : Live(d) => Ahead(d, c)'
           /\ \A d, e \in Conn : Ahead(d, e) => Ahead(d, e)'
           /\ \A d \in Conn : Ran(d)' => Ran(d)
<1>1. RpcProofs!IInv /\ RpcProofs!Connect(c)
  BY SameInv DEF Inv, Rpc!Connect, RpcProofs!Connect
<1> QED BY <1>1, RpcProofs!ConnectIsLast, ConnAssumption, RequestAssumption
        DEF Live, Ahead, Ran

LEMMA WriteIsLive ==
    ASSUME Inv, NEW c \in Conn, NEW r, Rpc!Write(c, r)
    PROVE  /\ Live(c) /\ ~Ran(c)' /\ req' = [req EXCEPT ![c] = r]
           /\ \A d : Live(d)' <=> Live(d)
           /\ \A d, e : Ahead(d, e)' <=> Ahead(d, e)
           /\ \A d \in Conn : Ran(d)' => Ran(d)
<1>1. RpcProofs!IInv /\ RpcProofs!Write(c, r) /\ UNCHANGED <<backlog, serving, result>>
  BY SameInv DEF Inv, Rpc!Write, RpcProofs!Write
<1>2. /\ Live(c) /\ ~Ran(c)' /\ req' = [req EXCEPT ![c] = r]
      /\ \A d \in Conn : Ran(d)' => Ran(d)
  BY <1>1, RpcProofs!WriteIsLive, ConnAssumption, RequestAssumption DEF Live, Ran
<1>3. /\ \A d : Live(d)' <=> Live(d)
      /\ \A d, e : Ahead(d, e)' <=> Ahead(d, e)
  BY <1>1, RpcProofs!ClientsKeepOrder, ConnAssumption, RequestAssumption DEF Live, Ahead
<1> QED BY <1>2, <1>3

LEMMA LeavingDisturbsNobody ==
    ASSUME Inv, Rpc!ManagerCrash \/ \E c \in Conn : Rpc!Return(c) \/ Rpc!Timeout(c)
    PROVE  Undisturbed
<1>1. /\ RpcProofs!IInv
      /\ RpcProofs!ManagerCrash \/ \E c \in Conn : RpcProofs!Return(c) \/ RpcProofs!Timeout(c)
  BY SameInv
     DEF Inv, Rpc!ManagerCrash, RpcProofs!ManagerCrash, Rpc!Return, RpcProofs!Return,
         Rpc!Timeout, RpcProofs!Timeout, Rpc!Result, RpcProofs!Result
<1>2. RpcProofs!Undisturbed
  BY <1>1, RpcProofs!LeavingDisturbsNobody, ConnAssumption, RequestAssumption
<1> QED BY <1>2 DEF Undisturbed, RpcProofs!Undisturbed, Live, Ahead, Ran

LEMMA WorkerKeepsOrder ==
    ASSUME Inv,
           \/ Rpc!Accept \/ Rpc!WorkerStart \/ Rpc!WorkerCrash
           \/ \E c \in Conn : Rpc!HandleRequest(c, "err") \/ Rpc!HandleEmpty(c) \/ Rpc!Reply(c)
    PROVE  Undisturbed /\ \A c \in Conn : cli[c] = "free" => cli'[c] = "free"
<1>1. /\ RpcProofs!IInv
      /\ \/ RpcProofs!Accept \/ RpcProofs!WorkerStart \/ RpcProofs!WorkerCrash
         \/ \E c \in Conn : \/ RpcProofs!HandleRequest(c, "err")
                            \/ RpcProofs!HandleEmpty(c) \/ RpcProofs!Reply(c)
  BY SameInv
     DEF Inv, Rpc!Accept, RpcProofs!Accept, Rpc!WorkerStart, RpcProofs!WorkerStart,
         Rpc!WorkerCrash, RpcProofs!WorkerCrash, Rpc!HandleRequest,
         RpcProofs!HandleRequest, Rpc!HandleEmpty, RpcProofs!HandleEmpty,
         Rpc!Reply, RpcProofs!Reply
<1>2. RpcProofs!Undisturbed /\ \A c \in Conn : cli[c] = "free" => cli'[c] = "free"
  BY <1>1, RpcProofs!WorkerKeepsOrder, ConnAssumption, RequestAssumption
<1> QED BY <1>2 DEF Undisturbed, RpcProofs!Undisturbed, Live, Ahead, Ran

LEMMA RunIsFirst ==
    ASSUME Inv, NEW c \in Conn, Rpc!HandleRequest(c, "ok")
    PROVE  /\ Live(c) /\ ~Live(c)' /\ UNCHANGED <<cli, req>> /\ req[c] # NoRequest
           /\ cli[c] \in {"sent", "gone"}
           /\ \A d \in Conn : Live(d)' => Live(d)
           /\ \A d \in Conn : ~Ahead(d, c)
           /\ \A d, e \in Conn : Ahead(d, e)' <=> Ahead(d, e)
           /\ \A d \in Conn : Ran(d)' => Ran(d) \/ d = c
<1>1. RpcProofs!IInv /\ RpcProofs!HandleRequest(c, "ok")
  BY SameInv DEF Inv, Rpc!HandleRequest, RpcProofs!HandleRequest
<1> QED BY <1>1, RpcProofs!RunIsFirst, ConnAssumption, RequestAssumption
        DEF Live, Ahead, Ran

\* A connection whose answer is there is with the worker no more.
LEMMA AnsweredIsNotLive ==
    ASSUME Inv, NEW c \in Conn, cli[c] \in {"ok", "err"}
    PROVE  ~Live(c)
BY DEF Inv, RpcInv, Rpc!EndsAgree, Rpc!WithWorker, Rpc!Queued,
       Live, RpcProofs!Live, RpcProofs!Queued

----------------------------------------------------------------------------
(* Steps that leave most things as they were.                               *)

\* Peer q keeps its row, its tunnel (unless it is marked) and its mark.
Same(q) ==
    /\ q \in DOMAIN peers' <=> q \in DOMAIN peers
    /\ q \in DOMAIN peers => peers'[q].ip = peers[q].ip /\ peers'[q].active = peers[q].active
    /\ drift'[q] = "none" => drift[q] = "none" /\ kernel'[q] = kernel[q]
    /\ drift[q] = "met" => drift'[q] = "met"

\* A step about peer s, if about any, that opens connection e, if any.
Keeps(s, e) ==
    /\ \A q \in Peer : q # s => Same(q)
    /\ \A g \in Handler :
          \/ hd[g].id \in {0, s} /\ hd'[g].id \in {0, s}
          \/ hd'[g] = hd[g] /\ (hd[g].at \in {"send", "wait"} => hd[g].conn # e)
    /\ \A c \in Conn : Pending(c)' => (Pending(c) /\ req'[c] = req[c]) \/ req'[c].id = s
    /\ \A c \in Conn : Live(c)' => Live(c) \/ c = e
    /\ \A c \in Conn : Ran(c)' => Ran(c) \/ (Pending(c) /\ req[c].id = s)
    /\ \A c, d \in Conn : Live(c) /\ Live(c)' /\ Live(d)' /\ Ahead(c, d) => Ahead(c, d)'

\* A handler whose peer stays the same stays on course.
LEMMA StaysOnCourse ==
    ASSUME Inv, NEW s, NEW e, Keeps(s, e),
           NEW g \in Handler, hd[g].id \in Peer, hd[g].id # s,
           drift'[hd[g].id] = "none", OnCourse(g)
    PROVE  OnCourse(g)'
<1> DEFINE p == hd[g].id
<1>1. hd'[g] = hd[g] /\ RequestOf(g)' = RequestOf(g) /\ Same(p)
  BY DEF Keeps, RequestOf, Peer
<1>2. RowReady(g)'
  BY <1>1 DEF OnCourse, RowReady, Same
<1>3. Settled(p) => \A c \in Conn : Pending(c)' => req'[c].id # p
  BY DEF Settled, Keeps
<1>4. Done(g) => Done(g)'
  BY <1>1, <1>3 DEF Done, Same, Settled
<1>5. CASE hd[g].at \in {"send", "wait"}
  <2>1. PICK d \in Conn : hd[g].conn = d /\ d # e
    BY <1>5 DEF Inv, OwnAnswer, Keeps, Peer
  <2>2. Live(d)' => Live(d)
    BY <2>1 DEF Keeps
  <2>3. hd[g].at = "wait" => (Ran(d)' => Ran(d))
    <3>1. hd[g].at = "wait" => req[d] = RequestOf(g)
      BY <2>1 DEF Inv, OwnAnswer
    <3>2. RequestOf(g).id # s
      BY DEF RequestOf
    <3> QED BY <3>1, <3>2 DEF Keeps
  <2>4. ASSUME Live(d)' PROVE LastInLine(g)'
    <3>1. LastInLine(g)
      BY <1>5, <2>1, <2>2, <2>4 DEF OnCourse
    <3>2. ASSUME NEW c \in Conn, Pending(c)', req'[c].id = p, c # d PROVE Ahead(c, d)'
      <4>1. Pending(c) /\ req'[c] = req[c]
        BY <3>2 DEF Keeps
      <4>2. Ahead(c, d)
        BY <2>1, <3>1, <3>2, <4>1 DEF LastInLine
      <4> QED BY <2>1, <2>4, <3>2, <4>1, <4>2 DEF Keeps, Pending
    <3> QED BY <1>1, <2>1, <3>2 DEF LastInLine
  <2> QED BY <1>1, <1>2, <1>4, <1>5, <2>1, <2>3, <2>4 DEF OnCourse
<1>6. CASE hd[g].at \notin {"send", "wait"}
  BY <1>1, <1>2, <1>4, <1>6 DEF OnCourse
<1> QED BY <1>5, <1>6

\* So a step about peer s is of concern to s only.
LEMMA OneSubject ==
    ASSUME Inv, SyncInv, StagesOK', NEW s \in Peer \cup {0}, NEW e, Keeps(s, e),
           s # 0 /\ drift'[s] # "met" =>
              \A g, k \in Handler : hd'[g].id = s /\ hd'[k].id = s => g = k,
           s # 0 /\ drift'[s] = "none" =>
              /\ \A g \in Handler : hd'[g].id = s => OnCourse(g)'
              /\ (\A g \in Handler : hd'[g].id # s) => kernel'[s] = Wanted(s)' /\ Settled(s)'
    PROVE  MetOK' /\ CourseOK' /\ RestOK'
<1>0. /\ \A g \in Handler : hd[g].id \in Peer \cup {0}
      /\ 0 \notin Peer
  BY DEF Inv, TypeOK, Local, Peer
<1>1. MetOK'
  <2> SUFFICES ASSUME NEW g \in Handler, NEW k \in Handler, g # k,
                      hd'[g].id = hd'[k].id, hd'[g].id # 0
               PROVE  drift'[hd'[g].id] = "met"
    BY DEF MetOK
  <2>1. CASE hd'[g].id = s
    BY <1>0, <2>1
  <2>2. CASE hd'[g].id # s
    <3>1. hd'[g] = hd[g] /\ hd'[k] = hd[k]
      BY <2>2 DEF Keeps
    <3>2. drift[hd[g].id] = "met"
      BY <1>0, <3>1 DEF SyncInv, MetOK
    <3> QED BY <1>0, <2>2, <3>1, <3>2 DEF Keeps, Same
  <2> QED BY <2>1, <2>2
<1>2. CourseOK'
  <2> SUFFICES ASSUME NEW g \in Handler, hd'[g].id # 0, drift'[hd'[g].id] = "none"
               PROVE  OnCourse(g)'
    BY DEF CourseOK
  <2>1. CASE hd'[g].id = s
    BY <2>1
  <2>2. CASE hd'[g].id # s
    <3>1. hd'[g] = hd[g] /\ hd[g].id # s /\ hd[g].id \in Peer
      BY <1>0, <2>2 DEF Keeps
    <3>2. OnCourse(g)
      BY <3>1 DEF SyncInv, CourseOK, Keeps, Same
    <3> QED BY <2>2, <3>1, <3>2, StaysOnCourse
  <2> QED BY <2>1, <2>2
<1>3. RestOK'
  <2> SUFFICES ASSUME NEW p \in Peer, drift'[p] = "none", ~Busy(p)'
               PROVE  kernel'[p] = Wanted(p)' /\ Settled(p)'
    BY DEF RestOK
  <2>1. CASE p = s
    <3>1. \A g \in Handler : hd'[g].id # s
      BY <1>0, <2>1 DEF StagesOK, Stage, Busy
    <3> QED BY <1>0, <2>1, <3>1
  <2>2. CASE p # s
    <3>1. ~Busy(p)
      BY <1>0, <2>2 DEF Busy, Keeps
    <3>2. Same(p) /\ kernel[p] = Wanted(p) /\ Settled(p)
      BY <2>2, <3>1 DEF SyncInv, RestOK, Keeps, Same
    <3>3. kernel'[p] = Wanted(p)'
      BY <3>2 DEF Same, Wanted
    <3> QED BY <2>2, <3>2, <3>3 DEF Settled, Keeps
  <2> QED BY <2>1, <2>2
<1> QED BY <1>1, <1>2, <1>3

\* A request that is still waiting, and the peers, as far as its turn is concerned.
LEMMA TurnKept ==
    ASSUME NEW c \in Conn, NEW q, Turn(c, q), req'[c] = req[c], peers'[q].ip = peers[q].ip,
           drift[req[c].id] = "met" => drift'[req[c].id] = "met",
           kernel[q] = NoIp => kernel'[q] = NoIp,
           \A d \in Conn : Live(d)' /\ Asks(d, q)' =>
                            /\ Live(d) /\ Asks(d, q)
                            /\ Ahead(c, d) => Ahead(c, d)'
    PROVE  Turn(c, q)'
BY DEF Turn

----------------------------------------------------------------------------
(* Steps of the worker.                                                     *)

\* Connections of handlers that wait.
LEMMA WaitingConn ==
    ASSUME Inv, NEW g \in Handler, hd[g].at \in {"send", "wait"}
    PROVE  hd[g].conn \in Conn /\ hd[g].conn # NoConn
BY ConnAssumption DEF Inv, OwnAnswer

LEMMA RequestType ==
    ASSUME Inv, NEW c \in Conn, req[c] # NoRequest
    PROVE  req[c] \in PeerRequest /\ req[c].id \in Peer /\ req[c].ip \in Ip \cup {NoIp}
BY DEF Inv, RpcInv, Rpc!TypeOK, PeerRequest

LEMMA QuietStepKeepsSync ==
    ASSUME Inv, SyncInv, Undisturbed, UNCHANGED <<peers, lastId, kernel, hd, drift>>, SocketOK'
    PROVE  SyncInv'
<1> USE DEF SyncInv
<1>1. StagesOK' /\ UniqueOK'
  BY DEF StagesOK, Stage, UniqueOK
<1>3. \A c \in Conn : req'[c] # NoRequest => req'[c] = req[c] /\ req[c] # NoRequest
  BY DEF Undisturbed
<1>4. FreshOK' /\ AddressOK'
  BY <1>3 DEF FreshOK, AddressOK
<1>5. \A c \in Conn : Pending(c)' => Pending(c) /\ req'[c] = req[c]
  BY DEF Undisturbed, Pending
<1>6. Keeps(0, NoConn)
  BY <1>5, WaitingConn DEF Keeps, Same, Undisturbed, Pending
<1>7. MetOK' /\ CourseOK' /\ RestOK'
  BY <1>1, <1>6, OneSubject
<1>8. InTurnOK'
  <2> SUFFICES ASSUME NEW c \in Conn, NEW q \in DOMAIN peers, Pending(c)'
               PROVE  Turn(c, q)'
    BY DEF InTurnOK
  <2>1. Turn(c, q) /\ req'[c] = req[c] /\ Live(c)'
    BY <1>5 DEF InTurnOK, Pending
  <2>2. ASSUME NEW d \in Conn, Live(d)', Asks(d, q)'
        PROVE  Live(d) /\ Asks(d, q) /\ (Ahead(c, d) => Ahead(c, d)')
    BY <1>3, <2>1, <2>2 DEF Undisturbed, Asks
  <2> QED BY <2>1, <2>2, TurnKept
<1> QED BY <1>1, <1>4, <1>7, <1>8

\* A peer without a row that nothing has left behind has no tunnel.
LEMMA NoRowNoTunnel ==
    ASSUME Inv, SyncInv, NEW q \in Peer, q \notin DOMAIN peers, drift[q] = "none"
    PROVE  kernel[q] = NoIp
<1>1. CASE ~Busy(q)
  BY <1>1 DEF SyncInv, RestOK, Wanted
<1>2. CASE Busy(q)
  <2>1. PICK g \in Handler : hd[g].at # "idle" /\ hd[g].id = q
    BY <1>2 DEF Busy
  <2>2. q # 0 /\ hd[g] \in Local
    BY DEF Inv, TypeOK, Peer
  <2>3. OnCourse(g) /\ Stage(hd[g])
    BY <2>1, <2>2 DEF SyncInv, CourseOK, StagesOK
  <2>4. hd[g].op = "delete" /\ hd[g].at = "write"
    BY <2>1, <2>2, <2>3 DEF OnCourse, RowReady, Stage, Local
  <2>5. RequestOf(g).ip = NoIp
    BY <2>4 DEF RequestOf
  <2> QED BY <2>1, <2>3, <2>4, <2>5 DEF OnCourse, Done
<1> QED BY <1>1, <1>2

\* WireGuard carries out a request whose turn it is: the peers it may take an address
\* from are marked, or have none to lose.
LEMMA OthersKeepTunnels ==
    ASSUME Inv, SyncInv, NEW r \in PeerRequest,
           r.ip # NoIp /\ r.id \in DOMAIN peers => peers[r.id].ip = r.ip,
           \A q \in DOMAIN peers :
               r.ip = peers[q].ip /\ r.id # q /\ drift[r.id] # "met" => kernel[q] = NoIp,
           kernel' = AfterWg(r), drift' = Robbed(r), UNCHANGED peers
    PROVE  /\ \A q \in Peer : q # r.id => Same(q)
           /\ kernel'[r.id] = r.ip /\ drift'[r.id] = drift[r.id]
           /\ \A q \in Peer : q # r.id => kernel'[q] \in {kernel[q], NoIp}
           /\ \A q \in Peer : drift'[q] = "met" <=> drift[q] = "met"
<1>1. r.id \in Peer /\ r.ip \in Ip \cup {NoIp}
  BY DEF PeerRequest
<1>2. drift \in Drift /\ kernel \in [Peer -> Ip \cup {NoIp}]
  BY DEF Inv, TypeOK
<1>3. \A q \in Peer : /\ drift'[q] = "met" <=> drift[q] = "met"
                      /\ drift'[q] = "none" => drift[q] = "none"
  BY <1>2 DEF Robbed, Failed, Drift
<1>4. drift'[r.id] = drift[r.id]
  BY <1>1, <1>2 DEF Robbed, Failed, Drift
<1>5. kernel'[r.id] = r.ip /\ \A q \in Peer : q # r.id => kernel'[q] \in {kernel[q], NoIp}
  BY <1>1 DEF AfterWg
<1>6. ASSUME NEW q \in Peer, q # r.id, drift'[q] = "none"
      PROVE  kernel'[q] = kernel[q]
  <2>1. CASE kernel[q] # r.ip \/ r.ip = NoIp
    BY <1>6, <2>1 DEF AfterWg
  <2>2. CASE kernel[q] = r.ip /\ r.ip # NoIp /\ drift[r.id] = "met"
    BY <1>2, <1>6, <2>2 DEF Robbed, Failed, Drift
  <2>3. CASE kernel[q] = r.ip /\ r.ip # NoIp /\ drift[r.id] # "met"
    <3>1. q \in DOMAIN peers
      BY <1>3, <1>6, <2>3, NoRowNoTunnel
    <3>2. kernel[q] = peers[q].ip
      BY <2>3, <3>1 DEF SyncInv, AddressOK
    <3> QED BY <1>6, <2>3, <3>1, <3>2
  <2> QED BY <2>1, <2>2, <2>3
<1> QED BY <1>3, <1>4, <1>5, <1>6 DEF Same

LEMMA RunKeepsSync ==
    ASSUME Inv, SyncInv, NEW c \in Conn, Rpc!HandleRequest(c, "ok"),
           kernel' = AfterWg(req[c]), drift' = Robbed(req[c]),
           UNCHANGED <<peers, lastId, socket, hd>>
    PROVE  SyncInv'
<1> USE DEF SyncInv
<1> DEFINE r == req[c]
           s == req[c].id
<1>1. /\ Live(c) /\ ~Live(c)' /\ UNCHANGED <<cli, req>> /\ req[c] # NoRequest
      /\ cli[c] \in {"sent", "gone"}
      /\ \A d \in Conn : Live(d)' => Live(d)
      /\ \A d \in Conn : ~Ahead(d, c)
      /\ \A d, e \in Conn : Ahead(d, e)' <=> Ahead(d, e)
      /\ \A d \in Conn : Ran(d)' => Ran(d) \/ d = c
  BY RunIsFirst
<1>2. r \in PeerRequest /\ s \in Peer /\ r.ip \in Ip \cup {NoIp} /\ s # 0
  BY <1>1, RequestType DEF Peer
<1>3. r.ip # NoIp /\ s \in DOMAIN peers => peers[s].ip = r.ip
  BY <1>1 DEF AddressOK
<1>4. \A q \in DOMAIN peers :
         r.ip = peers[q].ip /\ s # q /\ drift[s] # "met" => kernel[q] = NoIp
  BY <1>1 DEF InTurnOK, Turn, Pending
<1>5. /\ \A q \in Peer : q # s => Same(q)
      /\ kernel'[s] = r.ip /\ drift'[s] = drift[s]
      /\ \A q \in Peer : q # s => kernel'[q] \in {kernel[q], NoIp}
      /\ \A q \in Peer : drift'[q] = "met" <=> drift[q] = "met"
  BY <1>2, <1>3, <1>4, OthersKeepTunnels
<1>6. DOMAIN peers \subseteq Peer
  BY BoundAssumption DEF Inv, TypeOK, Peer
<1>7. StagesOK' /\ UniqueOK' /\ SocketOK'
  BY <1>1 DEF StagesOK, Stage, UniqueOK, SocketOK
<1>8. FreshOK'
  BY <1>1, <1>2, <1>5 DEF FreshOK
<1>9. AddressOK'
  <2>1. \A h \in Handler : hd[h].id \in Peer \cup {0}
    BY DEF Inv, TypeOK, Local
  <2> QED BY <1>1, <1>2, <1>3, <1>5, <1>6, <2>1 DEF AddressOK
<1>10. InTurnOK'
  <2> SUFFICES ASSUME NEW d \in Conn, NEW q \in DOMAIN peers, Pending(d)'
               PROVE  Turn(d, q)'
    BY DEF InTurnOK
  <2>1. Pending(d) /\ req'[d] = req[d] /\ req[d].id \in Peer /\ Turn(d, q)
    BY <1>1, RequestType DEF Pending, InTurnOK
  <2>2. CASE q = s
    <3>1. Asks(c, q) /\ ~Ahead(d, c)
      BY <1>1, <2>2 DEF Asks
    <3>2. ~(req[d].ip = peers[q].ip /\ req[d].id # q /\ drift[req[d].id] # "met")
      BY <1>1, <2>1, <3>1 DEF Turn
    <3> QED BY <1>5, <2>1, <3>2 DEF Turn
  <2>3. CASE q # s
    <3>1. kernel[q] = NoIp => kernel'[q] = NoIp
      BY <1>5, <1>6, <2>3
    <3>2. \A e \in Conn : Live(e)' /\ Asks(e, q)' =>
                           Live(e) /\ Asks(e, q) /\ (Ahead(d, e) => Ahead(d, e)')
      BY <1>1 DEF Asks
    <3> QED BY <1>5, <2>1, <3>1, <3>2, TurnKept
  <2> QED BY <2>2, <2>3
<1>11. Keeps(s, NoConn)
  <2>1. \A d \in Conn : Ran(d)' => Ran(d) \/ (Pending(d) /\ req[d].id = s)
    BY <1>1 DEF Pending
  <2> QED BY <1>1, <1>5, <2>1, WaitingConn DEF Keeps, Pending
<1>12. ASSUME drift'[s] = "none", NEW g \in Handler, hd[g].id = s
       PROVE  OnCourse(g)'
  <2>1. OnCourse(g) /\ ~Settled(s) /\ ~Done(g)
    BY <1>1, <1>2, <1>5, <1>12 DEF CourseOK, Pending, Settled, Done
  <2>2. RowReady(g)' /\ hd[g].at # "write"
    BY <2>1 DEF OnCourse, RowReady
  <2>3. CASE hd[g].at \in {"send", "wait"}
    <3>1. PICK d \in Conn : hd[g].conn = d
      BY <2>3, WaitingConn
    <3>2. hd[g].at = "wait" => ~Ran(d) /\ req[d] = RequestOf(g)
      BY <2>1, <3>1 DEF OnCourse, Inv, OwnAnswer
    <3>3. ASSUME Live(d)' PROVE LastInLine(g)'
      <4>1. LastInLine(g)
        BY <1>1, <2>1, <2>3, <3>1, <3>3 DEF OnCourse
      <4> QED BY <1>1, <3>1, <4>1 DEF LastInLine, Pending
    <3>4. ASSUME hd[g].at = "wait", Ran(d)' PROVE Done(g)'
      <4>1. d = c
        BY <1>1, <3>2, <3>4
      <4>2. LastInLine(g)
        BY <1>1, <2>1, <3>1, <3>4, <4>1 DEF OnCourse
      <4>3. Settled(s)'
        BY <1>1, <1>12, <3>1, <4>1, <4>2 DEF Settled, LastInLine, Pending
      <4>4. RequestOf(g)' = r
        BY <3>2, <3>4, <4>1 DEF RequestOf
      <4> QED BY <1>1, <1>5, <1>12, <4>3, <4>4 DEF Done
    <3> QED BY <2>2, <2>3, <3>1, <3>3, <3>4 DEF OnCourse
  <2>4. CASE hd[g].at \notin {"send", "wait"}
    BY <2>2, <2>4 DEF OnCourse
  <2> QED BY <2>3, <2>4
<1>13. ASSUME drift'[s] = "none" PROVE \E g \in Handler : hd[g].id = s
  <2>1. ~Settled(s)
    BY <1>1 DEF Settled, Pending
  <2> QED BY <1>2, <1>5, <1>13, <2>1 DEF RestOK, Busy
<1>14. drift'[s] # "met" => \A g, k \in Handler : hd[g].id = s /\ hd[k].id = s => g = k
  BY <1>2, <1>5 DEF MetOK
<1>15. MetOK' /\ CourseOK' /\ RestOK'
  <2>1. PICK t \in Peer : t = req[c].id
    BY <1>2
  <2> QED BY <1>1, <1>2, <1>7, <1>11, <1>12, <1>13, <1>14, <2>1, OneSubject
<1> QED BY <1>7, <1>8, <1>9, <1>10, <1>15

----------------------------------------------------------------------------
(* Steps of a handler that stay away from the socket.                       *)

\* Handler h moves on to l, about peer s if about any.
Moves(h, l, s) ==
    /\ hd' = [hd EXCEPT ![h] = l]
    /\ hd[h].id \in {0, s} /\ l.id \in {0, s}
    /\ \A q \in Peer : q # s => Same(q)

LEMMA Locals ==
    ASSUME Inv
    PROVE  /\ \A h \in Handler : hd[h] \in Local /\ hd[h].id \in Peer \cup {0}
           /\ 0 \notin Peer /\ DOMAIN peers \subseteq Peer /\ 1..lastId \subseteq Peer
           /\ \A p \in DOMAIN peers : peers[p].ip \in Ip /\ peers[p].ip # NoIp
           /\ lastId \in Nat
BY BoundAssumption, IpAssumption DEF Inv, TypeOK, Local, Peer, Row

LEMMA OneMoves ==
    ASSUME Inv, NEW h \in Handler, NEW l, hd' = [hd EXCEPT ![h] = l]
    PROVE  /\ hd'[h] = l
           /\ \A g \in Handler : g # h => hd'[g] = hd[g] /\ RequestOf(g)' = RequestOf(g)
BY DEF Inv, TypeOK, RequestOf

LEMMA StillKeeps ==
    ASSUME Inv, UNCHANGED rpcVars, NEW h \in Handler, NEW l, NEW s, Moves(h, l, s)
    PROVE  Keeps(s, NoConn)
BY SameQueue, OneMoves, WaitingConn DEF Keeps, Moves, Pending

\* A peer whose handler is alone.
LEMMA Alone ==
    ASSUME Inv, SyncInv, NEW h \in Handler, NEW s \in Peer, hd[h].id = s, drift[s] # "met"
    PROVE  \A g \in Handler : hd[g].id = s => g = h
BY Locals DEF SyncInv, MetOK

LEMMA NotBusy ==
    ASSUME Inv, SyncInv, NEW s \in Peer, ~Busy(s)
    PROVE  \A g \in Handler : hd[g].id # s
BY Locals DEF SyncInv, StagesOK, Stage, Busy

\* What the whole invariant needs of such a step.
LEMMA TableStepKeepsSync ==
    ASSUME Inv, SyncInv, UNCHANGED <<rpcVars, socket>>, NEW h \in Handler,
           NEW l \in Local, NEW s \in Peer \cup {0}, Moves(h, l, s),
           Stage(l), l.at \notin {"send", "wait"}, l.at # "idle" => l.sock = socket,
           \A p, q \in DOMAIN peers' : peers'[p].ip = peers'[q].ip => p = q,
           lastId <= lastId', lastId' \in Nat, l.id <= lastId',
           \A q \in Peer : kernel'[q] # NoIp => q <= lastId',
           AddressOK', InTurnOK',
           s # 0 /\ drift'[s] # "met" => \A g \in Handler : hd[g].id = s /\ l.id = s => g = h,
           s # 0 /\ drift'[s] # "met" => drift[s] # "met" \/ \A g \in Handler : hd[g].id # s,
           s # 0 /\ drift'[s] = "none" => s \in {hd[h].id, l.id},
           s # 0 /\ drift'[s] = "none" =>
              IF l.id = s THEN RowReady(h)' /\ (l.at = "write" => Done(h)')
              ELSE (\A g \in Handler : g # h => hd[g].id # s)
                   => kernel'[s] = Wanted(s)' /\ Settled(s)
    PROVE  SyncInv'
<1> USE DEF SyncInv
<1>0. /\ hd'[h] = l
      /\ \A g \in Handler : g # h => hd'[g] = hd[g] /\ RequestOf(g)' = RequestOf(g)
  BY OneMoves DEF Moves
<1>1. StagesOK'
  BY <1>0 DEF StagesOK, Stage
<1>2. SocketOK'
  BY <1>0, SameQueue DEF SocketOK
<1>3. UniqueOK'
  BY DEF UniqueOK
<1>4. FreshOK'
  <2>1. \A g \in Handler : hd'[g].id <= lastId'
    BY <1>0, Locals DEF FreshOK, Peer
  <2>2. \A c \in Conn : req'[c] # NoRequest => req'[c].id <= lastId'
    BY SameQueue, Locals, RequestType DEF FreshOK, Peer
  <2> QED BY <2>1, <2>2 DEF FreshOK
<1>5. Keeps(s, NoConn)
  BY StillKeeps
<1>6. s # 0 /\ drift'[s] # "met" =>
         \A g, k \in Handler : hd'[g].id = s /\ hd'[k].id = s => g = k
  BY <1>0, Alone DEF Moves, MetOK
<1>7. ASSUME s # 0, drift'[s] = "none", NEW g \in Handler, hd'[g].id = s
      PROVE  OnCourse(g)'
  <2>1. g = h \/ hd[g].id = s
    BY <1>0, <1>7
  <2>2. CASE g = h
    BY <1>0, <1>7, <2>2 DEF OnCourse
  <2>3. CASE g # h
    BY <1>7, <2>1, <2>3, Alone
  <2> QED BY <2>2, <2>3
<1>8. ASSUME s # 0, drift'[s] = "none", \A g \in Handler : hd'[g].id # s
      PROVE  kernel'[s] = Wanted(s)' /\ Settled(s)'
  <2>1. kernel'[s] = Wanted(s)' /\ Settled(s)
    BY <1>0, <1>8
  <2> QED BY <2>1, SameQueue DEF Settled, Pending
<1>9. MetOK' /\ CourseOK' /\ RestOK'
  BY <1>1, <1>5, <1>6, <1>7, <1>8, OneSubject
<1> QED BY <1>1, <1>2, <1>3, <1>4, <1>9

\* Rows keep their addresses, and none is given away that is still asked for.
LEMMA AddressKept ==
    ASSUME Inv, SyncInv, UNCHANGED rpcVars, NEW h \in Handler, NEW l \in Local,
           hd' = [hd EXCEPT ![h] = l],
           \A q \in DOMAIN peers' : \/ q \in DOMAIN peers /\ peers'[q].ip = peers[q].ip
                                   \/ q > lastId,
           \A q \in DOMAIN peers :
               q \in DOMAIN peers' \/ \A g \in Handler : g # h /\ hd[g].id = q => drift'[q] = "met",
           \A q \in Peer : drift[q] = "met" => drift'[q] = "met" \/ q \in DOMAIN peers',
           \A q \in Peer : \/ kernel'[q] \in {kernel[q], NoIp}
                           \/ q \in DOMAIN peers' => kernel'[q] = peers'[q].ip,
           l.id # 0 /\ l.op \in {"create", "enable"} =>
              /\ l.id \in DOMAIN peers' => peers'[l.id].ip = l.ip
              /\ l.id \in DOMAIN peers' \/ drift'[l.id] = "met",
           DOMAIN peers' \subseteq Peer
    PROVE  AddressOK'
<1> USE DEF SyncInv
<1>0. hd'[h] = l /\ \A g \in Handler : g # h => hd'[g] = hd[g]
  BY OneMoves
<1>1. ASSUME NEW g \in Handler, hd'[g].id # 0, hd'[g].op \in {"create", "enable"}
      PROVE  /\ hd'[g].id \in DOMAIN peers' => peers'[hd'[g].id].ip = hd'[g].ip
             /\ hd'[g].id \in DOMAIN peers' \/ drift'[hd'[g].id] = "met"
  <2>1. CASE g = h
    BY <1>0, <1>1, <2>1
  <2>2. CASE g # h
    <3>1. hd'[g] = hd[g] /\ hd[g].id \in Peer /\ hd[g].id <= lastId
      BY <1>0, <1>1, <2>2, Locals DEF FreshOK
    <3>2. hd[g].id \in DOMAIN peers => peers[hd[g].id].ip = hd[g].ip
      BY <1>1, <3>1 DEF AddressOK
    <3>3. hd[g].id \in DOMAIN peers \/ drift[hd[g].id] = "met"
      BY <1>1, <3>1 DEF AddressOK
    <3>4. ~(hd[g].id > lastId)
      BY <3>1, Locals DEF Peer
    <3> QED BY <2>2, <3>1, <3>2, <3>3, <3>4
  <2> QED BY <2>1, <2>2
<1>2. ASSUME NEW c \in Conn, req'[c] # NoRequest, req'[c].ip # NoIp,
             req'[c].id \in DOMAIN peers'
      PROVE  peers'[req'[c].id].ip = req'[c].ip
  <2>1. req'[c] = req[c] /\ req[c].id \in Peer /\ req[c].id <= lastId
    BY <1>2, SameQueue, RequestType DEF FreshOK
  <2>2. ~(req[c].id > lastId)
    BY <2>1, Locals DEF Peer
  <2> QED BY <1>2, <2>1, <2>2 DEF AddressOK
<1>3. ASSUME NEW q \in DOMAIN peers', kernel'[q] # NoIp
      PROVE  kernel'[q] = peers'[q].ip
  <2>1. CASE kernel'[q] = kernel[q]
    <3>1. q \in Peer /\ q <= lastId
      BY <1>3, <2>1 DEF FreshOK
    <3>2. ~(q > lastId)
      BY <3>1, Locals DEF Peer
    <3> QED BY <1>3, <2>1, <3>2 DEF AddressOK
  <2>2. CASE kernel'[q] # kernel[q]
    BY <1>3, <2>2
  <2> QED BY <2>1, <2>2
<1> QED BY <1>1, <1>2, <1>3 DEF AddressOK

\* The requests with the worker keep their turns.
LEMMA TurnsKept ==
    ASSUME Inv, SyncInv, UNCHANGED rpcVars, NEW h \in Handler, NEW l,
           hd' = [hd EXCEPT ![h] = l], l.at # "send",
           \A q \in DOMAIN peers' : q \in DOMAIN peers /\ peers'[q].ip = peers[q].ip,
           \A q \in Peer : kernel[q] = NoIp => kernel'[q] = NoIp,
           \A q \in Peer : drift[q] = "met" => drift'[q] = "met" \/ q \in DOMAIN peers
    PROVE  InTurnOK'
<1> USE DEF SyncInv
<1> SUFFICES ASSUME NEW c \in Conn, NEW q \in DOMAIN peers', Pending(c)'
             PROVE  Turn(c, q)'
  BY DEF InTurnOK
<1>1. /\ req' = req /\ Pending(c) /\ req[c].id \in Peer /\ req[c].ip \in Ip \cup {NoIp}
      /\ q \in DOMAIN peers /\ peers'[q].ip = peers[q].ip /\ q \in Peer
  BY SameQueue, RequestType, Locals DEF Pending
<1>2. CASE drift[req[c].id] = "met" /\ drift'[req[c].id] # "met"
  <2>1. req[c].id \in DOMAIN peers
    BY <1>1, <1>2
  <2>2. req[c].ip = peers[q].ip => req[c].id = q
    BY <1>1, <2>1, Locals DEF AddressOK, UniqueOK, Pending
  <2> QED BY <1>1, <2>2 DEF Turn
<1>3. CASE drift[req[c].id] = "met" => drift'[req[c].id] = "met"
  <2>1. Turn(c, q)
    BY <1>1 DEF InTurnOK
  <2>2. ASSUME NEW d \in Conn, Live(d)', Asks(d, q)'
        PROVE  Live(d) /\ Asks(d, q) /\ (Ahead(c, d) => Ahead(c, d)')
    BY <1>1, <2>2, SameQueue, OneMoves DEF Asks
  <2> QED BY <1>1, <1>3, <2>1, <2>2, TurnKept
<1> QED BY <1>2, <1>3

\* A step that changes h's locals only.
LEMMA OnlyLocals ==
    ASSUME Inv, SyncInv, UNCHANGED <<rpcVars, peers, lastId, kernel, socket, drift>>,
           NEW h \in Handler, NEW l \in Local, hd' = [hd EXCEPT ![h] = l],
           hd[h].id = 0, l.id = 0, l.at \in {"idle", "insert"}, Stage(l),
           l.at # "idle" => l.sock = socket
    PROVE  SyncInv'
<1>1. Moves(h, l, 0)
  BY DEF Moves, Same
<1>2. AddressOK'
  BY AddressKept, Locals
<1>3. InTurnOK'
  BY TurnsKept
<1> QED BY <1>1, <1>2, <1>3, TableStepKeepsSync, Locals DEF SyncInv, UniqueOK, FreshOK

LEMMA BeginCreateKeepsSync ==
    ASSUME Inv, SyncInv, NEW h \in Handler, BeginCreate(h)
    PROVE  SyncInv'
<1>1. PICK ip \in Ip : hd' = [hd EXCEPT ![h] = [Idle EXCEPT !.at = "insert",
                                                         !.op = "create", !.ip = ip,
                                                         !.sock = socket]]
  BY DEF BeginCreate, Allocated
<1> DEFINE l == [Idle EXCEPT !.at = "insert", !.op = "create", !.ip = ip,
                             !.sock = socket]
<1>2. /\ l \in Local /\ l.at = "insert" /\ l.op = "create" /\ l.id = 0 /\ l.sock = socket
  BY DEF Idle, Local, Inv, TypeOK
<1>3. hd[h].id = 0
  BY DEF BeginCreate, SyncInv, StagesOK, Stage
<1>4. hd' = [hd EXCEPT ![h] = l] /\ UNCHANGED <<rpcVars, peers, lastId, kernel, socket, drift>>
  BY <1>1 DEF BeginCreate
<1>5. Stage(l)
  BY <1>2 DEF Stage
<1> HIDE DEF l
<1> QED BY <1>2, <1>3, <1>4, <1>5, OnlyLocals

LEMMA InsertFailsKeepsSync ==
    ASSUME Inv, SyncInv, NEW h \in Handler, InsertFails(h)
    PROVE  SyncInv'
<1>1. hd[h].id = 0
  BY DEF InsertFails, SyncInv, StagesOK, Stage
<1>2. Stage(Idle) /\ Idle.id = 0 /\ Idle.at = "idle"
  BY DEF Stage, Idle
<1> QED BY <1>1, <1>2, IdleIsLocal, OnlyLocals DEF InsertFails

\* A new row: nobody has heard of its id.
LEMMA InsertRowKeepsSync ==
    ASSUME Inv, Inv', SyncInv, NEW h \in Handler, InsertRow(h)
    PROVE  SyncInv'
<1> USE DEF SyncInv
<1>0. PICK n \in Peer : n = lastId + 1
  <2>1. lastId' = lastId + 1 /\ lastId' <= MaxPeer /\ lastId \in Nat
    BY BoundAssumption DEF InsertRow, Inv, TypeOK
  <2> QED BY <2>1, BoundAssumption DEF Peer
<1>1. PICK nm \in Name : peers' = Inserted(n, [ip |-> hd[h].ip, active |-> TRUE, name |-> nm])
  BY <1>0 DEF InsertRow
<1>2. /\ hd[h].at = "insert" /\ hd[h].op = "create" /\ hd[h].id = 0
      /\ hd[h].ip \in Ip /\ hd[h].sock = socket /\ hd[h] \in Local /\ hd[h].conn = NoConn
  BY DEF InsertRow, StagesOK, Stage, SocketOK, Inv, LocalsOK, TypeOK
<1>3. /\ DOMAIN peers' = DOMAIN peers \cup {n}
      /\ \A q \in DOMAIN peers : q # n /\ peers'[q] = peers[q]
      /\ peers'[n].ip = hd[h].ip /\ peers'[n].active
      /\ n > lastId /\ n # 0 /\ lastId \in Nat /\ lastId' = n
      /\ n \notin DOMAIN peers
  <2>1. n > lastId /\ n # 0 /\ lastId \in Nat /\ lastId' = n /\ n \notin DOMAIN peers
    BY <1>0, Locals DEF InsertRow, Inv, TypeOK, Peer
  <2> QED BY <1>1, <2>1 DEF Inserted
<1>4. PICK l \in Local :
         /\ hd' = [hd EXCEPT ![h] = l] /\ Stage(l) /\ l.at \in {"idle", "call"}
         /\ l.at # "idle" => l.sock = socket
         /\ \/ l.id = n /\ l.op = "create" /\ l.ip = hd[h].ip /\ l.at = "call" /\ drift' = drift
            \/ l.id = 0 /\ drift' = Failed({n})
  <2>1. CASE hd' = [hd EXCEPT ![h] = Idle] /\ drift' = Failed({lastId + 1})
    BY <1>0, <2>1, IdleIsLocal DEF Idle, Stage
  <2>2. CASE hd' = [hd EXCEPT ![h].at = "call", ![h].id = lastId + 1] /\ drift' = drift
    <3> DEFINE l == [hd[h] EXCEPT !.at = "call", !.id = n]
    <3>1. l \in Local /\ l.at = "call" /\ l.id = n /\ l.op = "create" /\ l.ip = hd[h].ip /\ l.sock = socket
      BY <1>2 DEF Local
    <3>2. hd' = [hd EXCEPT ![h] = l]
      BY <1>0, <2>2 DEF Inv, TypeOK
    <3>3. Stage(l)
      BY <3>1 DEF Stage
    <3> HIDE DEF l
    <3> QED BY <2>2, <3>1, <3>2, <3>3
  <2> QED BY <2>1, <2>2 DEF InsertRow
<1>5. UNCHANGED <<rpcVars, kernel, socket>>
  BY DEF InsertRow
<1>6. \A q \in Peer : /\ q # n => drift'[q] = drift[q]
                      /\ drift[q] = "met" => drift'[q] = "met"
                      /\ drift'[q] = "met" => drift[q] = "met"
  BY <1>4 DEF Failed, Inv, TypeOK, Drift
<1>7. \A q \in Peer : q # n => Same(q)
  BY <1>3, <1>5, <1>6 DEF Same
<1>8. Moves(h, l, n)
  BY <1>2, <1>4, <1>7 DEF Moves
<1>9. hd[h].ip \notin TakenIps
  BY DEF InsertRow
<1>10. \A p, q \in DOMAIN peers' : peers'[p].ip = peers'[q].ip => p = q
  BY <1>3, <1>9 DEF UniqueOK, TakenIps
<1>11. kernel[n] = NoIp /\ \A g \in Handler : hd[g].id # n
  BY <1>3, Locals DEF FreshOK, Peer
<1>12. \A c \in Conn : req[c] # NoRequest => req[c].id # n
  BY <1>3, RequestType, Locals DEF FreshOK, Peer
<1>13. AddressOK'
  BY <1>3, <1>4, <1>5, <1>6, AddressKept, Locals
<1>14. InTurnOK'
  <2> SUFFICES ASSUME NEW c \in Conn, NEW q \in DOMAIN peers', Pending(c)'
               PROVE  Turn(c, q)'
    BY DEF InTurnOK
  <2>1. req' = req /\ Pending(c) /\ req[c].id \in Peer
    BY <1>5, SameQueue, RequestType DEF Pending
  <2>2. ASSUME NEW d \in Conn, Live(d)', Asks(d, q)'
        PROVE  Live(d) /\ Asks(d, q) /\ (Ahead(c, d) => Ahead(c, d)')
    <3>1. Live(d) /\ (Ahead(c, d) => Ahead(c, d)')
      BY <1>5, <2>2, SameQueue
    <3>2. Asks(d, q)
      BY <1>4, <2>1, <2>2, OneMoves DEF Asks
    <3> QED BY <3>1, <3>2
  <2>3. CASE q = n
    <3>1. \A d \in Conn : ~(Live(d)' /\ Asks(d, q)')
      BY <1>11, <1>12, <2>2, <2>3 DEF Asks
    <3> QED BY <1>5, <1>11, <2>3, <3>1 DEF Turn
  <2>4. CASE q # n
    <3>1. q \in DOMAIN peers /\ Turn(c, q) /\ peers'[q].ip = peers[q].ip
      BY <1>3, <2>1, <2>4 DEF InTurnOK
    <3> QED BY <1>5, <1>6, <2>1, <2>2, <3>1, TurnKept
  <2> QED BY <2>3, <2>4
<1>15. l.id = n => RowReady(h)'
  <2>1. l.id = n => hd'[h] = l /\ l.op = "create"
    BY <1>3, <1>4, OneMoves
  <2> QED BY <1>3, <2>1 DEF RowReady
<1>16. drift'[n] = "none" => l.id = n
  BY <1>4 DEF Failed, Inv, TypeOK, Drift
<1>17. \A q \in Peer : kernel'[q] # NoIp => q <= lastId'
  BY <1>3, <1>5 DEF FreshOK, Peer
<1>18. lastId <= lastId' /\ lastId' \in Nat /\ l.id <= lastId'
  BY <1>3, <1>4 DEF Peer
<1> QED BY <1>4, <1>5, <1>8, <1>10, <1>11, <1>13, <1>14, <1>15, <1>16, <1>17, <1>18,
           TableStepKeepsSync

LEMMA RenamedKeeps ==
    ASSUME Inv, NEW p, NEW nm
    PROVE  /\ DOMAIN Renamed(p, nm) = DOMAIN peers
           /\ \A q \in DOMAIN peers : /\ Renamed(p, nm)[q].ip = peers[q].ip
                                      /\ Renamed(p, nm)[q].active = peers[q].active
BY DEF Renamed, Inv, TypeOK, Row

LEMMA RenameKeepsSync ==
    ASSUME Inv, SyncInv, NEW h \in Handler, NEW p, NEW nm, hd[h].at = "idle",
           peers' = Renamed(p, nm), UNCHANGED <<rpcVars, lastId, kernel, socket, hd, drift>>
    PROVE  SyncInv'
<1> USE DEF SyncInv
<1>1. /\ hd' = [hd EXCEPT ![h] = hd[h]] /\ hd[h] \in Local /\ Stage(hd[h]) /\ hd[h].id = 0
  BY DEF Inv, TypeOK, StagesOK, Stage
<1>2. /\ DOMAIN peers' = DOMAIN peers
      /\ \A q \in DOMAIN peers : peers'[q].ip = peers[q].ip /\ peers'[q].active = peers[q].active
  BY RenamedKeeps
<1>3. Moves(h, hd[h], 0)
  BY <1>1, <1>2 DEF Moves, Same
<1>4. AddressOK'
  BY <1>2, SameQueue DEF AddressOK
<1>5. InTurnOK'
  BY <1>1, <1>2, TurnsKept
<1>6. \A a, b \in DOMAIN peers' : peers'[a].ip = peers'[b].ip => a = b
  BY <1>2 DEF UniqueOK
<1> QED BY <1>1, <1>3, <1>4, <1>5, <1>6, TableStepKeepsSync, Locals DEF FreshOK

\* A request about p that has just begun, its row being as it needs it.
LEMMA BegunKeepsSync ==
    ASSUME Inv, SyncInv, NEW h \in Handler, NEW p \in Peer, p <= lastId,
           hd[h].at = "idle",
           NEW l \in Local, hd' = [hd EXCEPT ![h] = l], l.id = p, l.sock = socket,
           l.at \in {"call", "write"}, Stage(l),
           UNCHANGED <<rpcVars, lastId, kernel, socket>>,
           DOMAIN peers' = DOMAIN peers,
           \A q \in DOMAIN peers : peers'[q].ip = peers[q].ip /\ peers'[q].active = peers[q].active,
           l.op \in {"create", "enable"} => p \in DOMAIN peers /\ l.ip = peers[p].ip,
           \A q \in Peer : q # p => drift'[q] = drift[q],
           drift[p] = "met" => drift'[p] = "met" \/ p \in DOMAIN peers,
           drift'[p] # "met" => ~Busy(p),
           drift'[p] = "none" => RowReady(h)' /\ (l.at = "write" => Done(h)')
    PROVE  SyncInv'
<1> USE DEF SyncInv
<1>1. hd[h].id = 0 /\ p # 0
  BY Locals DEF StagesOK, Stage
<1>2. \A q \in Peer : q # p => Same(q)
  BY DEF Same
<1>3. Moves(h, l, p)
  BY <1>1, <1>2 DEF Moves
<1>4. AddressOK'
  BY <1>1, AddressKept, Locals
<1>5. InTurnOK'
  BY TurnsKept
<1>6. drift'[p] # "met" => \A g \in Handler : hd[g].id # p
  BY NotBusy
<1>7. \A a, b \in DOMAIN peers' : peers'[a].ip = peers'[b].ip => a = b
  BY DEF UniqueOK
<1>8. lastId' = lastId /\ lastId \in Nat /\ lastId <= lastId'
  BY Locals
<1> QED BY <1>1, <1>3, <1>4, <1>5, <1>6, <1>7, <1>8, TableStepKeepsSync DEF FreshOK

LEMMA BeginToggleKeepsSync ==
    ASSUME Inv, SyncInv, NEW h \in Handler, NEW p \in 1..lastId, NEW nm, NEW on \in BOOLEAN,
           BeginToggle(h, p, nm, on)
    PROVE  SyncInv'
<1> USE DEF SyncInv
<1>1. p \in Peer /\ p <= lastId
  BY Locals
<1>2. /\ DOMAIN peers' = DOMAIN peers
      /\ \A q \in DOMAIN peers : peers'[q].ip = peers[q].ip /\ peers'[q].active = peers[q].active
  BY RenamedKeeps DEF BeginToggle
<1>3. CASE p \in DOMAIN peers /\ peers[p].active # on
  <2> DEFINE l == [Idle EXCEPT !.at = "call", !.id = p,
                               !.op = IF on THEN "enable" ELSE "disable",
                               !.ip = peers[p].ip, !.sock = socket]
  <2>1. /\ l \in Local /\ l.at = "call" /\ l.id = p /\ l.ip = peers[p].ip /\ l.sock = socket
        /\ l.op = IF on THEN "enable" ELSE "disable"
    BY <1>1, <1>3 DEF Idle, Local, Inv, TypeOK, Row
  <2>2. hd' = [hd EXCEPT ![h] = l] /\ drift' = Taken(p) /\ hd[h].at = "idle"
        /\ UNCHANGED <<rpcVars, lastId, kernel, socket>>
    BY <1>3 DEF BeginToggle
  <2> HIDE DEF l
  <2>3. /\ \A q \in Peer : q # p => drift'[q] = drift[q]
        /\ drift'[p] # "met" => ~Busy(p)
    BY <1>1, <2>2 DEF Taken, Inv, TypeOK, Drift
  <2>4. RowReady(h)'
    <3>1. hd'[h] = l
      BY <2>2, OneMoves
    <3>2. peers[p].active = (~on)
      BY <1>3 DEF Inv, TypeOK, Row
    <3> QED BY <1>2, <1>3, <2>1, <3>1, <3>2 DEF RowReady
  <2>5. Stage(l)
    BY <2>1 DEF Stage
  <2> QED BY <1>1, <1>2, <1>3, <2>1, <2>2, <2>3, <2>4, <2>5, BegunKeepsSync
<1>4. CASE ~(p \in DOMAIN peers /\ peers[p].active # on)
  <2>1. peers' = Renamed(p, nm) /\ UNCHANGED <<rpcVars, lastId, kernel, socket, hd, drift>>
        /\ hd[h].at = "idle"
    BY <1>4 DEF BeginToggle
  <2> QED BY <2>1, RenameKeepsSync
<1> QED BY <1>3, <1>4

LEMMA BeginDeleteKeepsSync ==
    ASSUME Inv, SyncInv, NEW h \in Handler, NEW p \in 1..lastId, BeginDelete(h, p)
    PROVE  SyncInv'
<1> USE DEF SyncInv
<1>1. p \in Peer /\ p <= lastId /\ p # 0
  BY Locals
<1>2. PICK at \in {"call", "write"} :
         /\ hd' = [hd EXCEPT ![h] = [Idle EXCEPT !.op = "delete", !.id = p, !.sock = socket,
                                               !.at = at]]
         /\ \/ at = "call" /\ p \in DOMAIN peers /\ peers[p].active /\ drift' = Taken(p)
            \/ at = "write" /\ ~(p \in DOMAIN peers /\ peers[p].active) /\ drift' = Joined(p)
            \/ at = "write" /\ drift' = [drift EXCEPT ![p] = IF Busy(p) \/ @ = "met" THEN "met"
                                                            ELSE "failed"]
  BY DEF BeginDelete
<1> DEFINE l == [Idle EXCEPT !.op = "delete", !.id = p, !.sock = socket, !.at = at]
<1>3. l \in Local /\ l.at = at /\ l.id = p /\ l.op = "delete" /\ l.sock = socket
  BY <1>1 DEF Idle, Local, Inv, TypeOK
<1>4. hd' = [hd EXCEPT ![h] = l] /\ hd[h].at = "idle"
      /\ UNCHANGED <<rpcVars, peers, lastId, kernel, socket>>
  BY <1>2 DEF BeginDelete
<1> HIDE DEF l
<1>5. /\ \A q \in Peer : q # p => drift'[q] = drift[q]
      /\ drift'[p] # "met" => ~Busy(p)
      /\ drift[p] = "met" => drift'[p] = "met" \/ p \in DOMAIN peers
      /\ drift'[p] = "none" /\ at = "write" =>
            drift[p] = "none" /\ ~(p \in DOMAIN peers /\ peers[p].active)
      /\ at = "call" => p \in DOMAIN peers /\ peers[p].active
  BY <1>1, <1>2 DEF Taken, Joined, Inv, TypeOK, Drift
<1>6. hd'[h] = l /\ RequestOf(h)'.ip = NoIp
  <2>1. hd'[h] = l
    BY <1>4, OneMoves
  <2> QED BY <1>3, <2>1 DEF RequestOf
<1>7. RowReady(h)'
  BY <1>3, <1>4, <1>5, <1>6 DEF RowReady
<1>8. ASSUME drift'[p] = "none", at = "write" PROVE Done(h)'
  <2>1. kernel[p] = NoIp /\ Settled(p)
    BY <1>1, <1>5, <1>8 DEF RestOK, Wanted
  <2>2. Settled(p)'
    BY <1>4, <2>1, SameQueue DEF Settled, Pending
  <2> QED BY <1>3, <1>4, <1>6, <2>1, <2>2 DEF Done
<1>9. Stage(l)
  BY <1>3 DEF Stage
<1> QED BY <1>1, <1>3, <1>4, <1>5, <1>6, <1>7, <1>8, <1>9, BegunKeepsSync
----------------------------------------------------------------------------
(* WireGuard has returned, or the table has been written.                   *)

\* What the handler does next.
LEMMA Returned ==
    ASSUME Inv, SyncInv, NEW h \in Handler, hd[h].at \in {"call", "send", "wait"},
           NEW ok \in BOOLEAN, GoesOn(h, ok)
    PROVE  \E l \in Local :
              /\ hd' = [hd EXCEPT ![h] = l] /\ Stage(l) /\ l.conn = NoConn
              /\ \/ /\ hd[h].op = "delete" \/ (ok /\ hd[h].op # "create")
                    /\ l.at = "write" /\ l.id = hd[h].id /\ l.op = hd[h].op
                    /\ l.ip = hd[h].ip /\ l.sock = socket
                 \/ /\ hd[h].op # "delete" /\ (ok => hd[h].op = "create")
                    /\ l.at = "idle" /\ l.id = 0
<1>1. hd[h] \in Local /\ hd[h].sock = socket /\ hd[h].op # "none"
  BY Locals DEF SyncInv, SocketOK, StagesOK, Stage
<1>2. CASE hd[h].op = "delete" \/ (ok /\ hd[h].op # "create")
  <2> DEFINE l == [hd[h] EXCEPT !.at = "write", !.conn = NoConn]
  <2>1. hd' = [hd EXCEPT ![h] = l]
    BY <1>2 DEF GoesOn, Inv, TypeOK
  <2>2. /\ l \in Local /\ l.at = "write" /\ l.id = hd[h].id /\ l.op = hd[h].op
        /\ l.ip = hd[h].ip /\ l.sock = socket /\ l.conn = NoConn
    BY <1>1 DEF Local
  <2>3. Stage(l)
    BY <1>1, <1>2, <2>2 DEF Stage, Local
  <2> HIDE DEF l
  <2> QED BY <1>2, <2>1, <2>2, <2>3
<1>3. CASE ~(hd[h].op = "delete" \/ (ok /\ hd[h].op # "create"))
  <2>1. hd' = [hd EXCEPT ![h] = Idle]
    BY <1>3 DEF GoesOn, Inv, TypeOK
  <2>2. Idle.at = "idle" /\ Idle.id = 0 /\ Idle.conn = NoConn /\ Stage(Idle)
    BY DEF Idle, Stage
  <2> QED BY <1>3, <2>1, <2>2, IdleIsLocal
<1> QED BY <1>2, <1>3

LEMMA FailedMarks ==
    ASSUME Inv, NEW S
    PROVE  \A q \in Peer : /\ Failed(S)[q] = "none" => q \notin S /\ drift[q] = "none"
                           /\ Failed(S)[q] = "met" <=> drift[q] = "met"
BY DEF Failed, Inv, TypeOK, Drift

\* A handler whose step failed has marked its peer.
LEMMA FailureKeepsSync ==
    ASSUME Inv, SyncInv, UNCHANGED <<rpcVars, peers, lastId, kernel, socket>>,
           NEW h \in Handler, hd[h].id \in Peer, drift' = Failed({hd[h].id}),
           NEW l \in Local, hd' = [hd EXCEPT ![h] = l], Stage(l),
           \/ l.at = "idle" /\ l.id = 0
           \/ l.at = "write" /\ l.op = "delete" /\ l.id = hd[h].id /\ l.sock = socket
    PROVE  SyncInv'
<1> USE DEF SyncInv
<1>1. PICK s \in Peer : s = hd[h].id
  OBVIOUS
<1>2. \A q \in Peer : /\ drift'[q] = "none" => q # s /\ drift[q] = "none"
                      /\ drift'[q] = "met" <=> drift[q] = "met"
  BY <1>1, FailedMarks
<1>3. Moves(h, l, s)
  BY <1>1, <1>2 DEF Moves, Same
<1>4. AddressOK'
  BY <1>2, AddressKept, Locals
<1>5. InTurnOK'
  BY <1>2, TurnsKept
<1>6. drift'[s] # "met" => \A g \in Handler : hd[g].id = s => g = h
  BY <1>1, <1>2, Alone
<1>7. lastId \in Nat /\ l.id <= lastId /\ lastId <= lastId
  BY Locals DEF FreshOK
<1> QED BY <1>1, <1>2, <1>3, <1>4, <1>5, <1>6, <1>7, TableStepKeepsSync
        DEF UniqueOK, FreshOK

LEMMA CallFailsKeepsSync ==
    ASSUME Inv, SyncInv, NEW h \in Handler, hd[h].at = "call", CallReturned(h, FALSE),
           UNCHANGED <<rpcVars, peers, lastId, kernel, socket>>
    PROVE  SyncInv'
<1>1. hd[h].id \in Peer
  BY DEF Inv, LocalsOK
<1>2. GoesOn(h, FALSE) /\ drift' = Failed({hd[h].id})
  BY DEF CallReturned
<1>3. PICK l \in Local :
         /\ hd' = [hd EXCEPT ![h] = l] /\ Stage(l) /\ l.conn = NoConn
         /\ \/ /\ hd[h].op = "delete" \/ (FALSE /\ hd[h].op # "create")
               /\ l.at = "write" /\ l.id = hd[h].id /\ l.op = hd[h].op
               /\ l.ip = hd[h].ip /\ l.sock = socket
            \/ /\ hd[h].op # "delete" /\ (FALSE => hd[h].op = "create")
               /\ l.at = "idle" /\ l.id = 0
  BY <1>2, Returned
<1> QED BY <1>1, <1>2, <1>3, FailureKeepsSync

\* The worker has no request of a client that has none.
LEMMA FreeIsNotLive ==
    ASSUME Inv, NEW c \in Conn, cli[c] = "free"
    PROVE  ~Live(c)
BY DEF Inv, RpcInv, Rpc!EndsAgree, Rpc!WithWorker, Rpc!Queued,
       Live, RpcProofs!Live, RpcProofs!Queued

\* What a handler asks of WireGuard: the address of its own peer's row, which no other
\* row has.
LEMMA OwnAddress ==
    ASSUME Inv, SyncInv, NEW h \in Handler, hd[h].id \in Peer
    PROVE  /\ RequestOf(h) \in PeerRequest /\ RequestOf(h).id = hd[h].id
           /\ RequestOf(h).ip # NoIp <=> hd[h].op \in {"create", "enable"} /\ hd[h].ip # NoIp
           /\ RequestOf(h).ip # NoIp => RequestOf(h).ip = hd[h].ip
           /\ RequestOf(h).ip # NoIp /\ hd[h].id \in DOMAIN peers =>
                 peers[hd[h].id].ip = RequestOf(h).ip
           /\ \A q \in DOMAIN peers :
                 RequestOf(h).ip = peers[q].ip /\ hd[h].id # q => drift[hd[h].id] = "met"
<1>1. RequestOf(h) \in PeerRequest /\ RequestOf(h).id = hd[h].id
  BY RequestOfType DEF Inv, RequestOf
<1>2. /\ RequestOf(h).ip # NoIp <=> hd[h].op \in {"create", "enable"} /\ hd[h].ip # NoIp
      /\ RequestOf(h).ip # NoIp => RequestOf(h).ip = hd[h].ip
  BY DEF RequestOf
<1>3. RequestOf(h).ip # NoIp =>
         /\ hd[h].id \in DOMAIN peers => peers[hd[h].id].ip = hd[h].ip
         /\ hd[h].id \in DOMAIN peers \/ drift[hd[h].id] = "met"
  BY <1>2, Locals DEF SyncInv, AddressOK
<1>4. ASSUME NEW q \in DOMAIN peers, RequestOf(h).ip = peers[q].ip, hd[h].id # q
      PROVE  drift[hd[h].id] = "met"
  BY <1>2, <1>3, <1>4, Locals DEF SyncInv, UniqueOK
<1> QED BY <1>1, <1>2, <1>3, <1>4

LEMMA LocalWgKeepsSync ==
    ASSUME Inv, SyncInv, NEW h \in Handler, LocalWg(h)
    PROVE  SyncInv'
<1> USE DEF SyncInv
<1>1. hd[h].at = "call" /\ ~hd[h].sock /\ hd[h].id \in Peer /\ hd[h] \in Local
      /\ UNCHANGED <<rpcVars, peers, lastId, socket>>
  BY Locals DEF LocalWg, Inv, LocalsOK
<1>2. CASE CallReturned(h, FALSE) /\ UNCHANGED kernel
  BY <1>1, <1>2, CallFailsKeepsSync
<1>3. CASE kernel' = AfterWg(RequestOf(h)) /\ GoesOn(h, TRUE) /\ drift' = Robbed(RequestOf(h))
  <2>1. PICK s \in Peer : s = hd[h].id
    BY <1>1
  <2>2. PICK r \in PeerRequest : r = RequestOf(h) /\ r.id = s
    BY <2>1, OwnAddress
  <2>3. PICK l \in Local :
           /\ hd' = [hd EXCEPT ![h] = l] /\ Stage(l) /\ l.conn = NoConn
           /\ \/ /\ hd[h].op = "delete" \/ (TRUE /\ hd[h].op # "create")
                 /\ l.at = "write" /\ l.id = hd[h].id /\ l.op = hd[h].op
                 /\ l.ip = hd[h].ip /\ l.sock = socket
              \/ /\ hd[h].op # "delete" /\ (TRUE => hd[h].op = "create")
                 /\ l.at = "idle" /\ l.id = 0
    BY <1>1, <1>3, Returned
  <2>4. /\ \A q \in Peer : q # s => Same(q)
        /\ kernel'[s] = r.ip /\ drift'[s] = drift[s]
        /\ \A q \in Peer : q # s => kernel'[q] \in {kernel[q], NoIp}
        /\ \A q \in Peer : drift'[q] = "met" <=> drift[q] = "met"
    BY <1>1, <1>3, <2>1, <2>2, OwnAddress, OthersKeepTunnels
  <2>5. \A c \in Conn : ~Pending(c)
    BY <1>1, FreeIsNotLive DEF SocketOK, Pending
  <2>6. InTurnOK' /\ Settled(s) /\ Settled(s)'
    BY <1>1, <2>5, SameQueue DEF InTurnOK, Pending, Settled
  <2>7. kernel'[s] # NoIp => hd[h].op \in {"create", "enable"} /\ kernel'[s] = hd[h].ip
    BY <1>1, <2>2, <2>4, OwnAddress
  <2>8. s \in DOMAIN peers => kernel'[s] = NoIp \/ kernel'[s] = peers[s].ip
    BY <1>1, <2>1, <2>2, <2>4, OwnAddress
  <2>9. AddressOK'
    <3>1. \A q \in Peer : \/ kernel'[q] \in {kernel[q], NoIp}
                          \/ q \in DOMAIN peers' => kernel'[q] = peers'[q].ip
      BY <1>1, <2>4, <2>8
    <3>2. l.id # 0 /\ l.op \in {"create", "enable"} =>
             /\ l.id \in DOMAIN peers' => peers'[l.id].ip = l.ip
             /\ l.id \in DOMAIN peers' \/ drift'[l.id] = "met"
      BY <1>1, <2>1, <2>3, <2>4 DEF AddressOK
    <3> QED BY <1>1, <2>3, <2>4, <3>1, <3>2, AddressKept, Locals
  <2>10. Moves(h, l, s)
    BY <2>1, <2>3, <2>4 DEF Moves
  <2>11. drift'[s] # "met" => \A g \in Handler : hd[g].id = s => g = h
    BY <2>1, <2>4, Alone
  <2>12. lastId' \in Nat /\ lastId <= lastId' /\ l.id <= lastId' /\ s <= lastId /\ s # 0
    BY <1>1, <2>1, <2>3, Locals DEF FreshOK
  <2>13. \A q \in Peer : kernel'[q] # NoIp => q <= lastId'
    BY <1>1, <2>4, <2>12 DEF FreshOK
  <2>14. ASSUME drift'[s] = "none", l.id = s PROVE RowReady(h)' /\ Done(h)'
    <3>1. OnCourse(h) /\ hd'[h] = l /\ l.op = hd[h].op /\ l.ip = hd[h].ip /\ l.at = "write"
      BY <2>1, <2>3, <2>4, <2>12, <2>14, OneMoves DEF CourseOK
    <3>2. RowReady(h)'
      BY <1>1, <2>1, <2>3, <2>12, <2>14, <3>1 DEF OnCourse, RowReady
    <3>3. RequestOf(h)' = r
      BY <1>1, <2>1, <2>2, <2>14, <3>1 DEF RequestOf
    <3> QED BY <2>4, <2>6, <2>14, <3>1, <3>2, <3>3 DEF Done
  <2>15. ASSUME drift'[s] = "none", l.id # s PROVE kernel'[s] = Wanted(s)'
    <3>1. OnCourse(h) /\ hd[h].op = "create"
      BY <2>1, <2>3, <2>4, <2>12, <2>15 DEF CourseOK
    <3>2. s \in DOMAIN peers /\ peers[s].active /\ peers[s].ip = hd[h].ip
      BY <2>1, <2>12, <3>1 DEF OnCourse, RowReady, AddressOK
    <3>3. r.ip = hd[h].ip
      BY <2>2, <3>1 DEF RequestOf
    <3> QED BY <1>1, <2>4, <3>2, <3>3 DEF Wanted
  <2>16. \A a, b \in DOMAIN peers' : peers'[a].ip = peers'[b].ip => a = b
    BY <1>1 DEF UniqueOK
  <2> QED BY <1>1, <2>1, <2>3, <2>4, <2>6, <2>9, <2>10, <2>11, <2>12, <2>13, <2>14, <2>15,
             <2>16, TableStepKeepsSync
<1> QED BY <1>2, <1>3 DEF LocalWg

LEMMA DbWriteKeepsSync ==
    ASSUME Inv, SyncInv, NEW h \in Handler, DbWrite(h)
    PROVE  SyncInv'
<1> USE DEF SyncInv
<1>1. /\ hd[h].at = "write" /\ hd[h].id \in Peer /\ hd[h] \in Local
      /\ hd' = [hd EXCEPT ![h] = Idle] /\ UNCHANGED <<rpcVars, lastId, kernel, socket>>
      /\ hd[h].op \in {"enable", "disable", "delete"}
  BY Locals DEF DbWrite, Inv, LocalsOK, StagesOK, Stage
<1>2. Idle.at = "idle" /\ Idle.id = 0 /\ Stage(Idle) /\ Idle \in Local
  BY IdleIsLocal DEF Idle, Stage
<1>3. CASE drift' = Failed({hd[h].id}) /\ UNCHANGED peers
  BY <1>1, <1>2, <1>3, FailureKeepsSync
<1>4. ASSUME UNCHANGED drift,
             peers' = IF hd[h].op = "delete" THEN Deleted(hd[h].id)
                      ELSE Activated(hd[h].id, hd[h].op = "enable")
      PROVE  SyncInv'
  <2>1. PICK s \in Peer : s = hd[h].id
    BY <1>1
  <2>2. /\ DOMAIN peers' \subseteq DOMAIN peers
        /\ \A q \in DOMAIN peers' : peers'[q].ip = peers[q].ip
        /\ \A q \in DOMAIN peers : q # s => q \in DOMAIN peers' /\ peers'[q] = peers[q]
        /\ hd[h].op = "delete" => s \notin DOMAIN peers'
        /\ hd[h].op # "delete" /\ s \in DOMAIN peers =>
              s \in DOMAIN peers' /\ peers'[s].active = (hd[h].op = "enable")
    BY <1>4, <2>1 DEF Deleted, Activated, Inv, TypeOK, Row
  <2>3. Moves(h, Idle, s)
    BY <1>1, <1>2, <1>4, <2>1, <2>2 DEF Moves, Same
  <2>4. \A g \in Handler : g # h /\ hd[g].id = s => drift[s] = "met"
    BY <2>1, Locals DEF MetOK
  <2>5. AddressOK'
    <3>1. \A q \in DOMAIN peers : \/ q \in DOMAIN peers'
                                 \/ \A g \in Handler : g # h /\ hd[g].id = q => drift'[q] = "met"
      BY <1>4, <2>2, <2>4
    <3>2. PICK l \in Local : l = Idle
      BY <1>2
    <3>3. /\ \A q \in DOMAIN peers' : q \in DOMAIN peers /\ peers'[q].ip = peers[q].ip
          /\ \A q \in Peer : drift[q] = "met" => drift'[q] = "met"
          /\ \A q \in Peer : kernel'[q] = kernel[q]
          /\ DOMAIN peers' \subseteq Peer
      BY <1>1, <1>4, <2>2, Locals
    <3> QED BY <1>1, <1>2, <3>1, <3>2, <3>3, AddressKept
  <2>6. InTurnOK'
    BY <1>1, <1>2, <1>4, <2>2, TurnsKept
  <2>7. ASSUME drift[s] = "none" PROVE kernel[s] = Wanted(s)' /\ Settled(s)
    <3>1. OnCourse(h)
      BY <1>1, <2>1, <2>7, Locals DEF CourseOK
    <3>2. kernel[s] = RequestOf(h).ip /\ Settled(s)
      BY <1>1, <2>1, <3>1 DEF OnCourse, Done
    <3>3. hd[h].op = "enable" => s \in DOMAIN peers /\ peers[s].ip = hd[h].ip
      BY <1>1, <2>1, <3>1, Locals DEF OnCourse, RowReady, AddressOK
    <3> QED BY <1>1, <2>2, <3>2, <3>3 DEF RequestOf, Wanted
  <2>8. lastId' \in Nat /\ lastId <= lastId' /\ Idle.id <= lastId' /\ s # 0
    BY <1>1, <1>2, Locals
  <2>9. \A a, b \in DOMAIN peers' : peers'[a].ip = peers'[b].ip => a = b
    BY <2>2 DEF UniqueOK
  <2> QED BY <1>1, <1>2, <1>4, <2>1, <2>3, <2>5, <2>6, <2>7, <2>8, <2>9,
             TableStepKeepsSync DEF FreshOK
<1> QED BY <1>3, <1>4 DEF DbWrite

----------------------------------------------------------------------------
(* Steps of a handler on the socket.                                        *)

\* What the whole invariant needs of such a step.
LEMMA SocketStepKeepsSync ==
    ASSUME Inv, SyncInv, UNCHANGED <<peers, lastId, kernel, socket>>,
           NEW h \in Handler, NEW s \in Peer, s = hd[h].id, hd[h].at # "idle", hd[h].sock,
           NEW l \in Local, Moves(h, l, s), Stage(l), l.at # "idle" => l.sock,
           l.id = 0 \/ (l.op = hd[h].op /\ l.ip = hd[h].ip),
           drift' \in {drift, Failed({s})},
           NEW e, Keeps(s, e),
           \A c \in Conn : req'[c] # NoRequest => req'[c] \in {req[c], RequestOf(h)},
           InTurnOK',
           drift'[s] = "none" =>
              IF l.id = s THEN OnCourse(h)' ELSE kernel'[s] = Wanted(s)' /\ Settled(s)'
    PROVE  SyncInv'
<1> USE DEF SyncInv
<1>0. /\ hd'[h] = l
      /\ \A g \in Handler : g # h => hd'[g] = hd[g]
  BY OneMoves DEF Moves
<1>1. StagesOK' /\ UniqueOK'
  BY <1>0 DEF StagesOK, Stage, UniqueOK
<1>2. SocketOK'
  BY <1>0 DEF SocketOK
<1>3. \A q \in Peer : /\ drift'[q] = "none" => drift[q] = "none"
                      /\ drift'[q] = "met" <=> drift[q] = "met"
  BY FailedMarks
<1>4. /\ RequestOf(h) \in PeerRequest /\ RequestOf(h).id = s
      /\ RequestOf(h).ip # NoIp /\ s \in DOMAIN peers => peers[s].ip = RequestOf(h).ip
  BY OwnAddress
<1>5. FreshOK'
  <2>1. s <= lastId /\ 0 <= lastId
    BY Locals DEF FreshOK
  <2>2. \A g \in Handler : hd'[g].id <= lastId
    BY <1>0, <2>1 DEF FreshOK, Moves
  <2> QED BY <1>4, <2>1, <2>2 DEF FreshOK
<1>6. AddressOK'
  <2>1. \A g \in Handler : hd'[g].id # 0 /\ hd'[g].op \in {"create", "enable"} =>
             /\ hd'[g].id \in DOMAIN peers => peers[hd'[g].id].ip = hd'[g].ip
             /\ hd'[g].id \in DOMAIN peers \/ drift'[hd'[g].id] = "met"
    BY <1>0, <1>3, Locals DEF AddressOK, Moves
  <2>2. \A c \in Conn : req'[c] # NoRequest =>
            (req'[c].ip # NoIp /\ req'[c].id \in DOMAIN peers => peers[req'[c].id].ip = req'[c].ip)
    BY <1>4 DEF AddressOK
  <2> QED BY <2>1, <2>2 DEF AddressOK
<1>7. ASSUME drift'[s] # "met", NEW g \in Handler, hd'[g].id = s
      PROVE  g = h
  BY <1>0, <1>3, <1>7, Alone
<1>8. MetOK' /\ CourseOK' /\ RestOK'
  <2>1. s # 0 /\ hd'[h].id \in {0, s}
    BY <1>0, Locals DEF Moves
  <2>2. drift'[s] = "none" => \A g \in Handler : hd'[g].id = s => OnCourse(g)'
    BY <1>0, <1>7
  <2> QED BY <1>0, <1>1, <1>7, <2>1, <2>2, OneSubject
<1> QED BY <1>1, <1>2, <1>5, <1>6, <1>8

LEMMA CallKeepsSync ==
    ASSUME Inv, SyncInv, NEW h \in Handler, Call(h)
    PROVE  SyncInv'
<1> USE DEF SyncInv
<1>1. PICK c \in Conn : Rpc!Connect(c) /\ hd' = [hd EXCEPT ![h].at = "send", ![h].conn = c]
  BY DEF Call
<1>2. PICK s \in Peer : s = hd[h].id
  BY DEF Call, Inv, LocalsOK
<1>3. /\ hd[h].at = "call" /\ hd[h].sock /\ hd[h] \in Local /\ hd[h].op # "none" /\ s # 0
      /\ UNCHANGED <<peers, lastId, kernel, socket, drift>>
  BY <1>2, Locals DEF Call, StagesOK, Stage
<1>4. PICK l \in Local : /\ hd' = [hd EXCEPT ![h] = l]
                         /\ l.at = "send" /\ l.conn = c /\ l.id = s /\ l.sock
                         /\ l.op = hd[h].op /\ l.ip = hd[h].ip
  <2> DEFINE l == [hd[h] EXCEPT !.at = "send", !.conn = c]
  <2>1. hd' = [hd EXCEPT ![h] = l]
    BY <1>1 DEF Inv, TypeOK
  <2>2. /\ l \in Local /\ l.at = "send" /\ l.conn = c /\ l.id = s /\ l.sock
        /\ l.op = hd[h].op /\ l.ip = hd[h].ip
    BY <1>2, <1>3 DEF Local
  <2> HIDE DEF l
  <2> QED BY <2>1, <2>2
<1>5. /\ ~Live(c) /\ req[c] = NoRequest /\ req' = req
      /\ \A d \in Conn : Live(d)' => Live(d) \/ d = c
      /\ \A d \in Conn : Live(d) => Ahead(d, c)'
      /\ \A d, e \in Conn : Ahead(d, e) => Ahead(d, e)'
      /\ \A d \in Conn : Ran(d)' => Ran(d)
  BY <1>1, ConnectIsLast
<1>6. hd'[h] = l /\ \A g \in Handler : g # h => hd'[g] = hd[g]
  BY <1>4, OneMoves
<1>7. \A g \in Handler : hd[g].at \in {"send", "wait"} => hd[g].conn # c
  BY <1>1 DEF Inv, OwnAnswer, Rpc!Connect
<1>8. Moves(h, l, s)
  BY <1>2, <1>3, <1>4 DEF Moves, Same
<1>9. \A d \in Conn : Pending(d)' => Pending(d) /\ req'[d] = req[d] /\ d # c
  BY <1>5 DEF Pending
<1>10. Keeps(s, c)
  BY <1>2, <1>3, <1>4, <1>5, <1>6, <1>7, <1>8, <1>9 DEF Keeps, Moves
<1>11. InTurnOK'
  <2> SUFFICES ASSUME NEW d \in Conn, NEW q \in DOMAIN peers, Pending(d)'
               PROVE  Turn(d, q)'
    BY <1>3 DEF InTurnOK
  <2>1. Pending(d) /\ Live(d) /\ Turn(d, q)
    BY <1>9 DEF InTurnOK, Pending
  <2>2. ASSUME NEW e \in Conn, Live(e)', Asks(e, q)'
        PROVE  e = c \/ (Live(e) /\ Asks(e, q))
    BY <1>4, <1>5, <1>6, <2>2 DEF Asks
  <2> QED BY <1>3, <1>5, <2>1, <2>2 DEF Turn
<1>12. ASSUME drift[s] = "none" PROVE OnCourse(h)'
  <2>1. OnCourse(h)
    BY <1>2, <1>3, <1>12 DEF CourseOK
  <2>2. RowReady(h)'
    BY <1>2, <1>3, <1>4, <1>6, <2>1 DEF OnCourse, RowReady
  <2>3. LastInLine(h)'
    BY <1>4, <1>5, <1>6, <1>9 DEF LastInLine, Pending
  <2> QED BY <1>4, <1>6, <2>2, <2>3 DEF OnCourse
<1>13. Stage(l)
  BY <1>3, <1>4 DEF Stage
<1>14. \A d \in Conn : req'[d] # NoRequest => req'[d] \in {req[d], RequestOf(h)}
  BY <1>5
<1> QED BY <1>2, <1>3, <1>4, <1>8, <1>10, <1>11, <1>12, <1>13, <1>14, SocketStepKeepsSync

LEMMA SendKeepsSync ==
    ASSUME Inv, SyncInv, NEW h \in Handler, Send(h)
    PROVE  SyncInv'
<1> USE DEF SyncInv
<1>1. PICK c \in Conn : hd[h].conn = c
  BY DEF Send, Inv, OwnAnswer
<1>2. PICK s \in Peer : s = hd[h].id
  BY DEF Send, Inv, LocalsOK
<1>3. /\ hd[h].at = "send" /\ hd[h] \in Local /\ hd[h].op # "none" /\ s # 0
      /\ UNCHANGED <<peers, lastId, kernel, socket, drift>>
      /\ Rpc!Write(c, RequestOf(h)) /\ hd' = [hd EXCEPT ![h].at = "wait"]
  BY <1>1, <1>2, Locals DEF Send, StagesOK, Stage
<1>4. PICK l \in Local : /\ hd' = [hd EXCEPT ![h] = l]
                         /\ l.at = "wait" /\ l.conn = c /\ l.id = s /\ l.sock = hd[h].sock
                         /\ l.op = hd[h].op /\ l.ip = hd[h].ip
  <2> DEFINE l == [hd[h] EXCEPT !.at = "wait"]
  <2>1. hd' = [hd EXCEPT ![h] = l]
    BY <1>3 DEF Inv, TypeOK
  <2>2. /\ l \in Local /\ l.at = "wait" /\ l.conn = c /\ l.id = s /\ l.sock = hd[h].sock
        /\ l.op = hd[h].op /\ l.ip = hd[h].ip
    BY <1>1, <1>2, <1>3 DEF Local
  <2> HIDE DEF l
  <2> QED BY <2>1, <2>2
<1>5. /\ Live(c) /\ ~Ran(c)' /\ req' = [req EXCEPT ![c] = RequestOf(h)]
      /\ \A d : Live(d)' <=> Live(d)
      /\ \A d, e : Ahead(d, e)' <=> Ahead(d, e)
      /\ \A d \in Conn : Ran(d)' => Ran(d)
  BY <1>3, WriteIsLive
<1>6. PICK r \in PeerRequest : r = RequestOf(h) /\ r.id = s
  BY <1>2, OwnAddress
<1>7. /\ req'[c] = r /\ r # NoRequest
      /\ \A d \in Conn : d # c => req'[d] = req[d]
  BY <1>5, <1>6, RequestAssumption DEF Inv, RpcInv, Rpc!TypeOK
<1>8. hd'[h] = l /\ \A g \in Handler : g # h => hd'[g] = hd[g]
  BY <1>4, OneMoves
<1>9. hd[h].sock
  <2>1. cli[c] # "free"
    BY <1>3 DEF Rpc!Write
  <2> QED BY <1>3, <2>1 DEF SocketOK
<1>10. Moves(h, l, s)
  BY <1>2, <1>3, <1>4 DEF Moves, Same
<1>11. \A d \in Conn : Pending(d)' => d = c \/ (Pending(d) /\ req'[d] = req[d])
  BY <1>5, <1>7 DEF Pending
<1>12. Keeps(s, NoConn)
  BY <1>2, <1>4, <1>5, <1>6, <1>7, <1>8, <1>10, <1>11, WaitingConn DEF Keeps, Moves
<1>13. InTurnOK'
  <2> SUFFICES ASSUME NEW d \in Conn, NEW q \in DOMAIN peers, Pending(d)'
               PROVE  Turn(d, q)'
    BY <1>3 DEF InTurnOK
  <2>1. CASE d = c
    BY <1>2, <1>3, <1>6, <1>7, <2>1, OwnAddress DEF Turn
  <2>2. CASE d # c
    <3>1. Turn(d, q) /\ req'[d] = req[d]
      BY <1>11, <2>2 DEF InTurnOK
    <3>2. ASSUME NEW e \in Conn, Live(e)', Asks(e, q)'
          PROVE  Live(e) /\ Asks(e, q) /\ (Ahead(d, e) => Ahead(d, e)')
      <4>1. Asks(e, q)
        BY <1>1, <1>2, <1>3, <1>4, <1>6, <1>7, <1>8, <3>2 DEF Asks
      <4> QED BY <1>5, <3>2, <4>1
    <3> QED BY <1>3, <3>1, <3>2, TurnKept
  <2> QED BY <2>1, <2>2
<1>14. ASSUME drift[s] = "none" PROVE OnCourse(h)'
  <2>1. OnCourse(h)
    BY <1>2, <1>3, <1>14 DEF CourseOK
  <2>2. RowReady(h)'
    BY <1>2, <1>3, <1>4, <1>8, <2>1 DEF OnCourse, RowReady
  <2>3. LastInLine(h)
    BY <1>1, <1>3, <1>5, <2>1 DEF OnCourse
  <2>4. LastInLine(h)'
    BY <1>1, <1>2, <1>4, <1>5, <1>8, <1>11, <2>3 DEF LastInLine
  <2> QED BY <1>4, <1>5, <1>8, <2>2, <2>4 DEF OnCourse
<1>15. Stage(l)
  BY <1>3, <1>4 DEF Stage
<1>16. \A d \in Conn : req'[d] # NoRequest => req'[d] \in {req[d], RequestOf(h)}
  BY <1>6, <1>7
<1> QED BY <1>2, <1>3, <1>4, <1>9, <1>10, <1>12, <1>13, <1>14, <1>15, <1>16,
           SocketStepKeepsSync

\* The handler takes the outcome, or gives up waiting for it.
LEMMA LeaveKeepsSync ==
    ASSUME Inv, SyncInv, NEW h \in Handler, Receive(h) \/ GiveUp(h)
    PROVE  SyncInv'
<1> USE DEF SyncInv
<1>1. PICK c \in Conn : hd[h].conn = c
  BY DEF Receive, GiveUp, Inv, OwnAnswer
<1>2. PICK s \in Peer : s = hd[h].id
  BY DEF Receive, GiveUp, Inv, LocalsOK
<1>3. /\ hd[h].at \in {"send", "wait"} /\ hd[h] \in Local /\ s # 0
      /\ UNCHANGED <<peers, lastId, kernel, socket>>
      /\ Rpc!Return(c) \/ Rpc!Timeout(c)
  BY <1>1, <1>2, Locals DEF Receive, GiveUp
<1>4. PICK ok \in BOOLEAN : CallReturned(h, ok) /\ (ok => cli[c] = "ok")
  <2>1. CASE Receive(h)
    <3>1. CallReturned(h, cli[c] = "ok") /\ (cli[c] = "ok") \in BOOLEAN
      BY <1>1, <2>1 DEF Receive
    <3> QED BY <3>1, Zenon
  <2>2. CASE GiveUp(h)
    BY <2>2 DEF GiveUp
  <2> QED BY <2>1, <2>2
<1>5. PICK l \in Local :
         /\ hd' = [hd EXCEPT ![h] = l] /\ Stage(l) /\ l.conn = NoConn
         /\ \/ /\ hd[h].op = "delete" \/ (ok /\ hd[h].op # "create")
               /\ l.at = "write" /\ l.id = hd[h].id /\ l.op = hd[h].op
               /\ l.ip = hd[h].ip /\ l.sock = socket
            \/ /\ hd[h].op # "delete" /\ (ok => hd[h].op = "create")
               /\ l.at = "idle" /\ l.id = 0
  BY <1>3, <1>4, Returned DEF CallReturned
<1>6. Undisturbed
  BY <1>3, LeavingDisturbsNobody
<1>7. /\ drift' \in {drift, Failed({s})}
      /\ drift'[s] = "none" => ok
      /\ \A q \in Peer : /\ q # s => drift'[q] = drift[q]
                         /\ drift'[q] = "met" <=> drift[q] = "met"
                         /\ drift'[q] = "none" => drift[q] = "none"
  <2>1. drift' = IF ok THEN drift ELSE Failed({s})
    BY <1>2, <1>4 DEF CallReturned
  <2> QED BY <2>1 DEF Failed, Inv, TypeOK, Drift
<1>8. hd'[h] = l /\ \A g \in Handler : g # h => hd'[g] = hd[g]
  BY <1>5, OneMoves
<1>9. socket /\ hd[h].sock
  <2>1. cli[c] # "free"
    BY <1>3 DEF Rpc!Return, Rpc!Timeout, Rpc!Result
  <2> QED BY <1>3, <2>1 DEF SocketOK, Inv, TypeOK
<1>10. Moves(h, l, s)
  BY <1>2, <1>3, <1>5, <1>7 DEF Moves, Same
<1>11. \A d \in Conn : /\ Pending(d)' => Pending(d) /\ req'[d] = req[d] /\ Live(d)'
                       /\ Live(d)' => Live(d)
                       /\ req'[d] # NoRequest => req'[d] = req[d]
  BY <1>6 DEF Undisturbed, Pending
<1>12. Keeps(s, NoConn)
  BY <1>2, <1>5, <1>6, <1>8, <1>10, <1>11, WaitingConn DEF Keeps, Moves, Undisturbed
<1>13. InTurnOK'
  <2> SUFFICES ASSUME NEW d \in Conn, NEW q \in DOMAIN peers, Pending(d)'
               PROVE  Turn(d, q)'
    BY <1>3 DEF InTurnOK
  <2>1. Turn(d, q) /\ req'[d] = req[d] /\ Live(d)' /\ req[d].id \in Peer
    BY <1>11, RequestType DEF InTurnOK, Pending
  <2>2. ASSUME NEW e \in Conn, Live(e)', Asks(e, q)'
        PROVE  Live(e) /\ Asks(e, q) /\ (Ahead(d, e) => Ahead(d, e)')
    <3>1. Asks(e, q)
      BY <1>5, <1>8, <1>11, <2>2 DEF Asks
    <3> QED BY <1>6, <1>11, <2>1, <2>2, <3>1 DEF Undisturbed
  <2> QED BY <1>3, <1>7, <2>1, <2>2, TurnKept
<1>14. ASSUME drift'[s] = "none" PROVE Done(h) /\ RowReady(h) /\ ok
  <2>1. OnCourse(h) /\ cli[c] = "ok" /\ ok
    BY <1>2, <1>3, <1>4, <1>7, <1>14 DEF CourseOK
  <2>2. hd[h].at = "wait"
    BY <1>1, <1>3, <2>1 DEF Inv, OwnAnswer
  <2>3. Ran(c)
    BY <2>1 DEF Ran, RpcProofs!Ran
  <2> QED BY <1>1, <2>1, <2>2, <2>3 DEF OnCourse
<1>15. Settled(s) => Settled(s)'
  BY <1>11 DEF Settled
<1>16. ASSUME drift'[s] = "none", l.id = s PROVE OnCourse(h)'
  <2>1. l.at = "write" /\ l.op = hd[h].op /\ l.ip = hd[h].ip
    BY <1>3, <1>5, <1>16
  <2>2. RequestOf(h)' = RequestOf(h)
    BY <1>2, <1>8, <1>16, <2>1 DEF RequestOf
  <2>3. Done(h)'
    BY <1>2, <1>3, <1>8, <1>14, <1>15, <1>16, <2>2 DEF Done
  <2>4. RowReady(h)'
    BY <1>2, <1>3, <1>5, <1>8, <1>14, <1>16, <2>1 DEF RowReady
  <2> QED BY <1>8, <2>1, <2>3, <2>4 DEF OnCourse
<1>17. ASSUME drift'[s] = "none", l.id # s PROVE kernel'[s] = Wanted(s)' /\ Settled(s)'
  <2>1. hd[h].op = "create"
    BY <1>2, <1>5, <1>14, <1>17
  <2>2. s \in DOMAIN peers /\ peers[s].active /\ peers[s].ip = hd[h].ip
    BY <1>2, <1>3, <1>14, <1>17, <2>1 DEF RowReady, AddressOK
  <2>3. kernel[s] = hd[h].ip /\ Settled(s)
    BY <1>2, <1>14, <1>17, <2>1 DEF Done, RequestOf
  <2> QED BY <1>3, <1>15, <2>2, <2>3 DEF Wanted
<1>18. \A d \in Conn : req'[d] # NoRequest => req'[d] \in {req[d], RequestOf(h)}
  BY <1>11
<1>19. l.id = 0 \/ (l.op = hd[h].op /\ l.ip = hd[h].ip)
  BY <1>5
<1>20. l.at # "idle" => l.sock
  BY <1>5, <1>9
<1> QED BY <1>2, <1>3, <1>5, <1>7, <1>9, <1>10, <1>12, <1>13, <1>16, <1>17, <1>18, <1>19,
           <1>20, SocketStepKeepsSync

----------------------------------------------------------------------------
(* Steps of both processes, and of the administrator of the settings.       *)

LEMMA SaveSettingsKeepsSync ==
    ASSUME Inv, SyncInv, "switch" \notin Faults, SaveSettings
    PROVE  SyncInv'
<1>1. /\ \A c \in Conn : cli[c] = "free"
      /\ \A h \in Handler : hd[h].at = "idle"
      /\ UNCHANGED <<rpcVars, peers, lastId, kernel, hd, drift>>
  BY DEF SaveSettings, Drained
<1>2. Undisturbed
  BY <1>1, SameQueue DEF Undisturbed
<1>3. SocketOK'
  BY <1>1, SameQueue DEF SocketOK
<1> QED BY <1>1, <1>2, <1>3, QuietStepKeepsSync

\* All handlers are gone, having marked their peers.
LEMMA AllLeaveKeepsSync ==
    ASSUME Inv, SyncInv, NEW S, drift' = Failed(S),
           Rpc!ManagerCrash, hd' = [h \in Handler |-> Idle],
           UNCHANGED <<peers, lastId, socket>>,
           \A h \in Handler : hd[h].id \in S,
           \A p \in Peer : kernel'[p] = kernel[p] \/ (p \in S /\ kernel'[p] = NoIp)
    PROVE  SyncInv'
<1> USE DEF SyncInv
<1>1. \A h \in Handler : hd'[h].at = "idle" /\ hd'[h].id = 0 /\ Stage(hd'[h])
  BY DEF Idle, Stage
<1>2. Undisturbed
  BY LeavingDisturbsNobody
<1>3. \A c \in Conn : /\ req'[c] # NoRequest => req'[c] = req[c]
                      /\ Live(c)' => Live(c)
                      /\ Pending(c)' => Pending(c) /\ req'[c] = req[c] /\ Live(c)'
  BY <1>2 DEF Undisturbed, Pending
<1>4. \A q \in Peer : /\ drift'[q] = "none" => q \notin S /\ drift[q] = "none"
                      /\ drift'[q] = "met" <=> drift[q] = "met"
  BY FailedMarks
<1>5. \A c \in Conn : cli[c] = "free" => cli'[c] = "free"
  BY DEF Rpc!ManagerCrash, Rpc!Result
<1>6. StagesOK' /\ SocketOK' /\ UniqueOK'
  BY <1>1, <1>5 DEF StagesOK, SocketOK, UniqueOK
<1>7. FreshOK'
  BY <1>1, <1>3, Locals DEF FreshOK
<1>8. AddressOK'
  BY <1>1, <1>3, Locals DEF AddressOK
<1>9. MetOK' /\ CourseOK'
  BY <1>1 DEF MetOK, CourseOK
<1>10. InTurnOK'
  <2> SUFFICES ASSUME NEW d \in Conn, NEW q \in DOMAIN peers, Pending(d)'
               PROVE  Turn(d, q)'
    BY DEF InTurnOK
  <2>1. Turn(d, q) /\ req'[d] = req[d] /\ Live(d)' /\ req[d].id \in Peer
    BY <1>3, RequestType DEF InTurnOK, Pending
  <2>2. ASSUME NEW e \in Conn, Live(e)', Asks(e, q)'
        PROVE  Live(e) /\ Asks(e, q) /\ (Ahead(d, e) => Ahead(d, e)')
    <3>1. Asks(e, q)
      BY <1>1, <1>3, <2>2 DEF Asks
    <3> QED BY <1>2, <1>3, <2>1, <2>2, <3>1 DEF Undisturbed
  <2>3. kernel[q] = NoIp => kernel'[q] = NoIp
    BY Locals
  <2> QED BY <1>4, <2>1, <2>2, <2>3, TurnKept
<1>11. RestOK'
  <2> SUFFICES ASSUME NEW p \in Peer, drift'[p] = "none"
               PROVE  kernel'[p] = Wanted(p)' /\ Settled(p)'
    BY DEF RestOK
  <2>1. drift[p] = "none" /\ p \notin S /\ ~Busy(p)
    BY <1>4 DEF Busy
  <2>2. kernel[p] = Wanted(p) /\ Settled(p) /\ kernel'[p] = kernel[p]
    BY <2>1 DEF RestOK
  <2>3. Settled(p)'
    BY <1>3, <2>2 DEF Settled
  <2> QED BY <2>2, <2>3 DEF Wanted
<1> QED BY <1>6, <1>7, <1>8, <1>9, <1>10, <1>11

LEMMA CrashKeepsSync ==
    ASSUME Inv, SyncInv, ManagerCrash \/ Reboot
    PROVE  SyncInv'
<1>1. CASE ManagerCrash
  <2> DEFINE S == {hd[h].id : h \in Handler}
  <2>1. /\ drift' = Failed(S) /\ Rpc!ManagerCrash /\ hd' = [h \in Handler |-> Idle]
        /\ UNCHANGED <<peers, lastId, socket, kernel>>
        /\ \A h \in Handler : hd[h].id \in S
    BY <1>1 DEF ManagerCrash
  <2> HIDE DEF S
  <2> QED BY <2>1, AllLeaveKeepsSync
<1>2. CASE Reboot
  <2> DEFINE S == {hd[h].id : h \in Handler} \cup {p \in Peer : kernel[p] # NoIp}
  <2>1. /\ drift' = Failed(S) /\ Rpc!ManagerCrash /\ hd' = [h \in Handler |-> Idle]
        /\ UNCHANGED <<peers, lastId, socket>>
        /\ \A h \in Handler : hd[h].id \in S
        /\ \A p \in Peer : kernel'[p] = kernel[p] \/ (p \in S /\ kernel'[p] = NoIp)
    BY <1>2 DEF Reboot
  <2> HIDE DEF S
  <2> QED BY <2>1, AllLeaveKeepsSync
<1> QED BY <1>1, <1>2

LEMMA WorkerKeepsSync ==
    ASSUME Inv, SyncInv, Worker \/ WorkerCrash
    PROVE  SyncInv'
<1>1. CASE \E c \in Conn : /\ Rpc!HandleRequest(c, "ok")
                           /\ kernel' = AfterWg(req[c])
                           /\ drift' = Robbed(req[c])
                           /\ UNCHANGED <<peers, lastId, socket, hd>>
  BY <1>1, RunKeepsSync
<1>2. CASE /\ UNCHANGED <<peers, lastId, kernel, socket, hd, drift>>
           /\ \/ Rpc!Accept \/ Rpc!WorkerStart \/ Rpc!WorkerCrash
              \/ \E c \in Conn : Rpc!HandleRequest(c, "err") \/ Rpc!HandleEmpty(c) \/ Rpc!Reply(c)
  <2>1. Undisturbed /\ \A c \in Conn : cli[c] = "free" => cli'[c] = "free"
    BY <1>2, WorkerKeepsOrder
  <2>2. SocketOK'
    BY <1>2, <2>1 DEF SyncInv, SocketOK
  <2> QED BY <1>2, <2>1, <2>2, QuietStepKeepsSync
<1> QED BY <1>1, <1>2 DEF Worker, WorkerCrash, RunRequest, WorkerLoop, WorkerStart

----------------------------------------------------------------------------
(* The invariant holds throughout.                                          *)

LEMMA InitSync == Init => SyncInv
<1> SUFFICES ASSUME Init PROVE SyncInv
  OBVIOUS
<1>1. /\ \A h \in Handler : hd[h].at = "idle" /\ hd[h].id = 0 /\ Stage(hd[h])
      /\ \A c \in Conn : cli[c] = "free" /\ req[c] = NoRequest
      /\ DOMAIN peers = {} /\ lastId = 0
      /\ \A p \in Peer : kernel[p] = NoIp
  BY DEF Init, Rpc!Init, Idle, Stage
<1>2. StagesOK /\ SocketOK /\ UniqueOK /\ FreshOK
  BY <1>1 DEF StagesOK, SocketOK, UniqueOK, FreshOK
<1>3. AddressOK /\ MetOK /\ InTurnOK /\ CourseOK /\ RestOK
  BY <1>1 DEF AddressOK, MetOK, InTurnOK, CourseOK, RestOK, Wanted, Settled, Pending
<1> QED BY <1>2, <1>3 DEF SyncInv

LEMMA NextKeepsSync ==
    "switch" \notin Faults /\ Inv /\ Inv' /\ SyncInv /\ [Next]_vars => SyncInv'
<1> SUFFICES ASSUME "switch" \notin Faults, Inv, Inv', SyncInv, [Next]_vars
             PROVE  SyncInv'
  OBVIOUS
<1>1. ASSUME NEW h \in Handler, Begin(h) PROVE SyncInv'
  <2>1. CASE BeginCreate(h)
    BY <2>1, BeginCreateKeepsSync
  <2>2. ASSUME NEW p \in 1..lastId, NEW nm, Rename(h, p, nm) PROVE SyncInv'
    BY <2>2, RenameKeepsSync DEF Rename
  <2>3. ASSUME NEW p \in 1..lastId, NEW nm, NEW on \in BOOLEAN, BeginToggle(h, p, nm, on)
        PROVE  SyncInv'
    BY <2>3, BeginToggleKeepsSync
  <2>4. ASSUME NEW p \in 1..lastId, BeginDelete(h, p) PROVE SyncInv'
    BY <2>4, BeginDeleteKeepsSync
  <2> QED BY <1>1, <2>1, <2>2, <2>3, <2>4 DEF Begin
<1>2. ASSUME NEW h \in Handler, Continue(h) \/ GiveUp(h) PROVE SyncInv'
  <2>1. CASE CallFails(h)
    BY <2>1, CallFailsKeepsSync DEF CallFails
  <2> QED BY <1>2, <2>1, InsertRowKeepsSync, InsertFailsKeepsSync, CallKeepsSync,
             SendKeepsSync, LeaveKeepsSync, LocalWgKeepsSync, DbWriteKeepsSync
          DEF Continue
<1>3. CASE SaveSettings
  BY <1>3, SaveSettingsKeepsSync
<1>4. CASE Worker \/ WorkerCrash
  BY <1>4, WorkerKeepsSync
<1>5. CASE ManagerCrash \/ Reboot
  BY <1>5, CrashKeepsSync
<1>6. CASE UNCHANGED vars
  <2>1. UNCHANGED <<rpcVars, peers, lastId, kernel, socket, hd, drift>>
    BY <1>6 DEF vars
  <2>2. Undisturbed /\ SocketOK'
    BY <2>1, SameQueue DEF Undisturbed, SyncInv, SocketOK
  <2> QED BY <2>1, <2>2, QuietStepKeepsSync
<1> QED BY <1>1, <1>2, <1>3, <1>4, <1>5, <1>6 DEF Next

LEMMA SyncInvHolds == "switch" \notin Faults => (Spec => []SyncInv)
<1> SUFFICES ASSUME "switch" \notin Faults PROVE Spec => []SyncInv
  OBVIOUS
<1>1. Inv /\ Inv' /\ SyncInv /\ [Next]_vars => SyncInv'
  BY NextKeepsSync
<1>2. Init => SyncInv
  BY InitSync
<1>3. Spec => []Inv
  BY Invariance
<1> QED BY <1>1, <1>2, <1>3, PTL DEF Spec

\* As long as nobody moves the worker's socket with requests under way, whatever is done
\* at once by however many administrators and whatever fails, times out, crashes or is
\* restarted: a peer whose last change went through, alone, has exactly the tunnel its row
\* asks for, and a deleted one has none.
THEOREM InSyncUnlessFailed == "switch" \notin Faults => (Spec => []SyncUnlessFailed)
<1> SUFFICES ASSUME "switch" \notin Faults PROVE Spec => []SyncUnlessFailed
  OBVIOUS
<1>1. SyncInv => SyncUnlessFailed
  BY DEF SyncInv, RestOK, SyncUnlessFailed
<1>2. Spec => []SyncInv
  BY SyncInvHolds
<1> QED BY <1>1, <1>2, PTL
=============================================================================
