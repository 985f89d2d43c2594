-------------------------- MODULE WorkerRpcProofs --------------------------
(* Proofs about WorkerRpc for every set of connections and requests.        *)
EXTENDS WorkerRpc, TLAPS

\* Each part needs the other two: only EndsAgree says that the connection being
\* served is not also queued or reused, which RunOnce rests on.
IInv == TypeOK /\ EndsAgree /\ RunOnce

----------------------------------------------------------------------------
(* The listen queue as a set.                                               *)

LEMMA QueuedAfterConnect ==
    ASSUME TypeOK, EndsAgree, NEW c \in Conn, cli[c] = "free",
           backlog' = Append(backlog, c)
    PROVE  /\ backlog' \in Seq(Conn)
           /\ Queued' = Queued \cup {c}
           /\ c \notin Queued /\ c # serving
           /\ \A i, j \in 1..Len(backlog') : backlog'[i] = backlog'[j] => i = j
<1>1. /\ backlog' \in Seq(Conn)
      /\ Len(backlog') = Len(backlog) + 1
      /\ \A i \in 1..Len(backlog) : backlog'[i] = backlog[i]
      /\ backlog'[Len(backlog) + 1] = c
      /\ Len(backlog) \in Nat
  BY DEF TypeOK
<1>2. c \notin Queued /\ c # serving
  BY DEF EndsAgree, WithWorker
<1>3. Queued' = Queued \cup {c}
  <2>1. ASSUME NEW q \in Queued' PROVE q \in Queued \cup {c}
    BY <1>1 DEF Queued
  <2>2. ASSUME NEW q \in Queued \cup {c} PROVE q \in Queued'
    BY <1>1 DEF Queued
  <2> QED BY <2>1, <2>2
<1>4. ASSUME NEW i \in 1..Len(backlog'), NEW j \in 1..Len(backlog'),
             backlog'[i] = backlog'[j]
      PROVE  i = j
  BY <1>1, <1>2, <1>4 DEF Queued, EndsAgree
<1> QED BY <1>1, <1>2, <1>3, <1>4

LEMMA QueuedAfterAccept ==
    ASSUME TypeOK, EndsAgree, backlog # <<>>, backlog' = Tail(backlog)
    PROVE  /\ backlog' \in Seq(Conn)
           /\ Head(backlog) \in Queued
           /\ Queued' = Queued \ {Head(backlog)}
           /\ \A i, j \in 1..Len(backlog') : backlog'[i] = backlog'[j] => i = j
<1>1. /\ backlog' \in Seq(Conn)
      /\ Len(backlog) \in Nat /\ Len(backlog) > 0
      /\ Len(backlog') = Len(backlog) - 1
      /\ \A i \in 1..Len(backlog') : backlog'[i] = backlog[i + 1]
      /\ Head(backlog) = backlog[1]
  BY DEF TypeOK
<1>2. Head(backlog) \in Queued
  BY <1>1 DEF Queued
<1>3. Queued' = Queued \ {Head(backlog)}
  <2>1. ASSUME NEW q \in Queued' PROVE q \in Queued \ {Head(backlog)}
    <3>1. PICK i \in 1..Len(backlog') : q = backlog[i + 1]
      BY <1>1, <2>1 DEF Queued
    <3>2. i + 1 \in 1..Len(backlog) /\ i + 1 # 1 /\ 1 \in 1..Len(backlog)
      BY <1>1
    <3> QED BY <1>1, <3>1, <3>2 DEF Queued, EndsAgree
  <2>2. ASSUME NEW q \in Queued \ {Head(backlog)} PROVE q \in Queued'
    <3>1. PICK i \in 1..Len(backlog) : q = backlog[i]
      BY <2>2 DEF Queued
    <3>2. i - 1 \in 1..Len(backlog')
      BY <1>1, <2>2, <3>1
    <3> QED BY <1>1, <3>1, <3>2 DEF Queued
  <2> QED BY <2>1, <2>2
<1>4. ASSUME NEW i \in 1..Len(backlog'), NEW j \in 1..Len(backlog'),
             backlog'[i] = backlog'[j]
      PROVE  i = j
  BY <1>1, <1>4 DEF EndsAgree
<1> QED BY <1>1, <1>2, <1>3, <1>4

----------------------------------------------------------------------------
(* The invariant.                                                           *)

LEMMA InitIInv == Init => IInv
<1> SUFFICES ASSUME Init PROVE IInv
  OBVIOUS
<1>1. Queued = {}
  BY DEF Init, Queued
<1>2. TypeOK
  <2>1. backlog \in Seq(Conn)
    BY DEF Init
  <2> QED BY <2>1 DEF Init, TypeOK, ClientState, Result
<1>3. EndsAgree
  BY <1>1, ConnAssumption DEF Init, EndsAgree, WithWorker
<1>4. RunOnce
  BY <1>1, ConnAssumption DEF Init, RunOnce
<1> QED BY <1>2, <1>3, <1>4 DEF IInv

LEMMA ClientKeepsIInv ==
    ASSUME IInv, NEW c \in Conn, Client(c)
    PROVE  IInv'
<1> USE DEF IInv
<1>1. CASE Connect(c)
  <2>1. /\ backlog' \in Seq(Conn)
        /\ Queued' = Queued \cup {c}
        /\ c \notin Queued /\ c # serving
        /\ \A i, j \in 1..Len(backlog') : backlog'[i] = backlog'[j] => i = j
    BY <1>1, QueuedAfterConnect DEF Connect
  <2>2. TypeOK'
    BY <1>1, <2>1 DEF Connect, TypeOK, ClientState
  <2>3. EndsAgree'
    BY <1>1, <2>1 DEF Connect, TypeOK, EndsAgree, WithWorker
  <2>4. RunOnce'
    BY <1>1, <2>1 DEF Connect, TypeOK, RunOnce
  <2> QED BY <2>2, <2>3, <2>4
<1>2. CASE \E r \in Request : Write(c, r)
  <2>1. Queued' = Queued
    BY <1>2 DEF Write, Queued
  <2>2. TypeOK'
    BY <1>2 DEF Write, TypeOK, ClientState
  <2>3. EndsAgree'
    BY <1>2, <2>1 DEF Write, TypeOK, EndsAgree, WithWorker
  <2>4. RunOnce'
    BY <1>2, <2>1 DEF Write, TypeOK, RunOnce
  <2> QED BY <2>2, <2>3, <2>4
<1>3. CASE Timeout(c)
  <2>1. Queued' = Queued
    BY <1>3 DEF Timeout, Queued
  <2>2. TypeOK'
    BY <1>3 DEF Timeout, TypeOK, ClientState
  <2>3. EndsAgree'
    BY <1>3, <2>1 DEF Timeout, TypeOK, EndsAgree, WithWorker
  <2>4. RunOnce'
    BY <1>3, <2>1 DEF Timeout, TypeOK, RunOnce
  <2> QED BY <2>2, <2>3, <2>4
<1>4. CASE Return(c)
  <2>1. Queued' = Queued
    BY <1>4 DEF Return, Queued
  <2>2. TypeOK'
    BY <1>4 DEF Return, TypeOK, ClientState
  <2>3. EndsAgree'
    BY <1>4, <2>1 DEF Return, Result, TypeOK, EndsAgree, WithWorker
  <2>4. RunOnce'
    BY <1>4, <2>1 DEF Return, TypeOK, RunOnce
  <2> QED BY <2>2, <2>3, <2>4
<1> QED BY <1>1, <1>2, <1>3, <1>4 DEF Client

LEMMA WorkerKeepsIInv ==
    ASSUME IInv, NEW c \in Conn, Handle(c) \/ Reply(c)
    PROVE  IInv'
<1> USE DEF IInv
<1>0. Queued' = Queued
  BY DEF Handle, HandleRequest, HandleEmpty, Reply, Queued
<1>1. CASE \E res \in Result : HandleRequest(c, res)
  <2>1. TypeOK'
    BY <1>1 DEF HandleRequest, TypeOK, Result
  <2>2. EndsAgree'
    BY <1>0, <1>1, ConnAssumption DEF HandleRequest, TypeOK, EndsAgree, WithWorker
  <2>3. RunOnce'
    BY <1>0, <1>1, ConnAssumption
       DEF HandleRequest, TypeOK, EndsAgree, RunOnce, WithWorker, Result
  <2> QED BY <2>1, <2>2, <2>3
<1>2. CASE HandleEmpty(c)
  <2>1. TypeOK'
    BY <1>2 DEF HandleEmpty, TypeOK, Result
  <2>2. EndsAgree'
    BY <1>0, <1>2, ConnAssumption DEF HandleEmpty, TypeOK, EndsAgree, WithWorker
  <2>3. RunOnce'
    BY <1>0, <1>2 DEF HandleEmpty, TypeOK, RunOnce
  <2> QED BY <2>1, <2>2, <2>3
<1>3. CASE Reply(c)
  <2>1. TypeOK'
    BY <1>3 DEF Reply, TypeOK, Result, ClientState
  <2>2. EndsAgree'
    <3>1. ASSUME NEW d \in Conn
          PROVE  /\ WithWorker(d)' <=> cli'[d] \in {"connected", "sent", "gone"}
                 /\ cli'[d] \in {"free", "connected"} => req'[d] = NoRequest
                 /\ d = serving' /\ result' # "none" => cli'[d] # "connected"
      BY <1>0, <1>3, ConnAssumption DEF Reply, TypeOK, EndsAgree, WithWorker, Result
    <3>2. serving' \notin Queued'
      BY <1>0, <1>3, ConnAssumption DEF Reply, TypeOK, Queued
    <3> QED BY <1>3, <3>1, <3>2 DEF Reply, EndsAgree
  <2>3. RunOnce'
    BY <1>0, <1>3, ConnAssumption
       DEF Reply, TypeOK, EndsAgree, RunOnce, WithWorker, Result
  <2> QED BY <2>1, <2>2, <2>3
<1> QED BY <1>1, <1>2, <1>3 DEF Handle

LEMMA AcceptKeepsIInv ==
    ASSUME IInv, Accept
    PROVE  IInv'
<1> USE DEF IInv
<1>1. /\ backlog' \in Seq(Conn)
      /\ Head(backlog) \in Queued
      /\ Queued' = Queued \ {Head(backlog)}
      /\ \A i, j \in 1..Len(backlog') : backlog'[i] = backlog'[j] => i = j
  BY QueuedAfterAccept DEF Accept
<1>2. Head(backlog) \in Conn
  BY DEF Accept, TypeOK
<1>3. TypeOK'
  BY <1>1, <1>2 DEF Accept, TypeOK
<1>4. EndsAgree'
  BY <1>1, <1>2, ConnAssumption DEF Accept, TypeOK, EndsAgree, WithWorker
<1>5. RunOnce'
  BY <1>1, <1>2, ConnAssumption DEF Accept, TypeOK, EndsAgree, RunOnce
<1> QED BY <1>3, <1>4, <1>5

LEMMA CrashKeepsIInv ==
    ASSUME IInv, ManagerCrash \/ WorkerStart \/ WorkerCrash
    PROVE  IInv'
<1> USE DEF IInv
<1>1. CASE ManagerCrash
  <2>1. Queued' = Queued
    BY <1>1 DEF ManagerCrash, Queued
  <2>2. TypeOK'
    BY <1>1 DEF ManagerCrash, TypeOK, ClientState, Result
  <2>3. EndsAgree'
    BY <1>1, <2>1 DEF ManagerCrash, TypeOK, EndsAgree, WithWorker, Result
  <2>4. RunOnce'
    BY <1>1, <2>1 DEF ManagerCrash, TypeOK, RunOnce, Result
  <2> QED BY <2>2, <2>3, <2>4
<1>2. CASE WorkerStart
  <2>1. Queued' = Queued
    BY <1>2 DEF WorkerStart, Queued
  <2> QED BY <1>2, <2>1 DEF WorkerStart, TypeOK, EndsAgree, WithWorker, RunOnce
<1>3. CASE WorkerCrash
  <2>1. Queued' = {}
    BY <1>3 DEF WorkerCrash, Queued
  <2>2. TypeOK'
    <3>1. backlog' \in Seq(Conn)
      BY <1>3 DEF WorkerCrash
    <3> QED BY <1>3, <3>1 DEF WorkerCrash, TypeOK, ClientState, Result
  <2>3. EndsAgree'
    BY <1>3, <2>1, ConnAssumption DEF WorkerCrash, TypeOK, EndsAgree, WithWorker
  <2>4. RunOnce'
    BY <1>3, <2>1, ConnAssumption DEF WorkerCrash, TypeOK, RunOnce
  <2> QED BY <2>2, <2>3, <2>4
<1> QED BY <1>1, <1>2, <1>3

LEMMA NextKeepsIInv == IInv /\ [Next]_vars => IInv'
<1> SUFFICES ASSUME IInv, [Next]_vars PROVE IInv'
  OBVIOUS
<1>1. CASE UNCHANGED vars
  BY <1>1 DEF vars, IInv, TypeOK, EndsAgree, WithWorker, RunOnce, Queued
<1>2. CASE Next
  BY <1>2, ClientKeepsIInv, WorkerKeepsIInv, AcceptKeepsIInv, CrashKeepsIInv
     DEF Next
<1> QED BY <1>1, <1>2

THEOREM Invariance == Spec => []IInv
<1> QED BY InitIInv, NextKeepsIInv, PTL DEF Spec

\* The variables keep their types.
THEOREM TypeCorrect == Spec => []TypeOK
<1>1. IInv => TypeOK
  BY DEF IInv
<1> QED BY <1>1, Invariance, PTL

\* The socket's two ends agree on the open connections (wg_client::request and
\* the accept loop of wg-worker): answers never reach a reused connection.
THEOREM EndsAlwaysAgree == Spec => []EndsAgree
<1>1. IInv => EndsAgree
  BY DEF IInv
<1> QED BY <1>1, Invariance, PTL

\* A request is run at most once and "ok" means it was, for any number of
\* connections, any queue, and any timeouts and crashes.
THEOREM RunsAtMostOnce == Spec => []RunOnce
<1>1. IInv => RunOnce
  BY DEF IInv
<1> QED BY <1>1, Invariance, PTL

----------------------------------------------------------------------------
(* The order in which requests are run.                                     *)

\* The worker has the connection and has yet to run what is written on it.
Live(c) == c \in Queued \/ (c = serving /\ result = "none")

\* c is served before d.
Ahead(c, d) ==
    \/ c = serving /\ d \in Queued
    \/ \E i, j \in 1..Len(backlog) : i < j /\ backlog[i] = c /\ backlog[j] = d

\* The request written on c was run with success.
Ran(c) == (c = serving /\ result = "ok") \/ cli[c] = "ok"

\* What the steps that run nothing leave as it was.
Undisturbed ==
    /\ \A c \in Conn : Live(c)' => Live(c) /\ req'[c] = req[c]
    /\ \A c \in Conn : req'[c] # NoRequest => req'[c] = req[c]
    /\ \A c \in Conn : Ran(c)' => Ran(c)
    /\ \A c, d \in Conn : Live(c)' /\ Live(d)' /\ Ahead(c, d) => Ahead(c, d)'

\* A connection that a client opens is behind all the others.
LEMMA ConnectIsLast ==
    ASSUME IInv, NEW c \in Conn, Connect(c)
    PROVE  /\ ~Live(c) /\ req[c] = NoRequest /\ req' = req
           /\ \A d \in Conn : Live(d)' => Live(d) \/ d = c
           /\ \A d \in Conn : Live(d) => Ahead(d, c)'
           /\ \A d, e \in Conn : Ahead(d, e) => Ahead(d, e)'
           /\ \A d \in Conn : Ran(d)' => Ran(d)
<1> USE DEF IInv
<1>1. /\ Queued' = Queued \cup {c}
      /\ c \notin Queued /\ c # serving
  BY QueuedAfterConnect DEF Connect
<1>2. /\ Len(backlog) \in Nat /\ Len(backlog') = Len(backlog) + 1
      /\ \A i \in 1..Len(backlog) : backlog'[i] = backlog[i]
      /\ backlog'[Len(backlog) + 1] = c
  BY DEF TypeOK, Connect
<1>3. UNCHANGED <<serving, result, req>> /\ req[c] = NoRequest
  BY DEF Connect, EndsAgree
<1>4. ASSUME NEW d \in Conn, Live(d) PROVE Ahead(d, c)'
  <2>1. CASE d = serving
    BY <1>1, <1>3, <2>1 DEF Ahead
  <2>2. CASE d \in Queued
    <3>1. PICK i \in 1..Len(backlog) : backlog[i] = d
      BY <2>2 DEF Queued
    <3>2. i \in 1..Len(backlog') /\ Len(backlog) + 1 \in 1..Len(backlog') /\ i < Len(backlog) + 1
      BY <1>2
    <3> QED BY <1>2, <3>1, <3>2 DEF Ahead
  <2> QED BY <1>4, <2>1, <2>2 DEF Live
<1>5. ASSUME NEW d \in Conn, NEW e \in Conn, Ahead(d, e) PROVE Ahead(d, e)'
  <2>1. CASE d = serving /\ e \in Queued
    BY <1>1, <1>3, <2>1 DEF Ahead
  <2>2. CASE \E i, j \in 1..Len(backlog) : i < j /\ backlog[i] = d /\ backlog[j] = e
    <3>1. PICK i, j \in 1..Len(backlog) : i < j /\ backlog[i] = d /\ backlog[j] = e
      BY <2>2
    <3>2. i \in 1..Len(backlog') /\ j \in 1..Len(backlog')
      BY <1>2
    <3> QED BY <1>2, <3>1, <3>2 DEF Ahead
  <2> QED BY <1>5, <2>1, <2>2 DEF Ahead
<1>6. \A d \in Conn : Ran(d)' => Ran(d)
  BY <1>3 DEF Ran, Connect, TypeOK
<1> QED BY <1>1, <1>3, <1>4, <1>5, <1>6 DEF Live

\* Clients that write or leave change no order.
LEMMA ClientsKeepOrder ==
    ASSUME IInv, UNCHANGED <<backlog, serving, result>>
    PROVE  /\ \A c : Live(c)' <=> Live(c)
           /\ \A c, d : Ahead(c, d)' <=> Ahead(c, d)
BY DEF Live, Ahead, Queued

LEMMA WriteIsLive ==
    ASSUME IInv, NEW c \in Conn, NEW r, Write(c, r)
    PROVE  Live(c) /\ ~Ran(c)' /\ req' = [req EXCEPT ![c] = r]
           /\ \A d \in Conn : Ran(d)' => Ran(d)
<1> USE DEF IInv
<1>1. WithWorker(c) /\ (c = serving => result = "none")
  BY DEF Write, EndsAgree, TypeOK
<1> QED BY <1>1 DEF Write, WithWorker, Live, Ran, TypeOK

\* A connection that is answered or abandoned: nothing else changes.
LEMMA LeavingDisturbsNobody ==
    ASSUME IInv, ManagerCrash \/ \E c \in Conn : Return(c) \/ Timeout(c)
    PROVE  Undisturbed
<1> USE DEF IInv
<1>1. UNCHANGED <<backlog, serving, result>>
  BY DEF ManagerCrash, Return, Timeout
<1>2. ASSUME NEW c \in Conn, Live(c) PROVE cli[c] \notin Result
  BY <1>2 DEF Live, EndsAgree, WithWorker, Result
<1>3. \A c \in Conn : req'[c] = req[c] \/ (req'[c] = NoRequest /\ cli[c] \in Result)
  BY DEF ManagerCrash, Return, Timeout, TypeOK
<1>4. \A c \in Conn : cli'[c] = "ok" => cli[c] = "ok"
  BY DEF ManagerCrash, Return, Timeout, TypeOK
<1> QED BY <1>1, <1>2, <1>3, <1>4, ClientsKeepOrder DEF Undisturbed, Ran

\* The worker takes connections in the order they came, and forgets them all when it dies.
LEMMA WorkerKeepsOrder ==
    ASSUME IInv,
           \/ Accept \/ WorkerStart \/ WorkerCrash
           \/ \E c \in Conn : HandleRequest(c, "err") \/ HandleEmpty(c) \/ Reply(c)
    PROVE  Undisturbed /\ \A c \in Conn : cli[c] = "free" => cli'[c] = "free"
<1> USE DEF IInv
<1>1. CASE Accept
  <2>1. /\ Head(backlog) \in Queued
        /\ Queued' = Queued \ {Head(backlog)}
    BY <1>1, QueuedAfterAccept DEF Accept
  <2>2. /\ Len(backlog) \in Nat /\ Len(backlog) > 0
        /\ Len(backlog') = Len(backlog) - 1
        /\ \A i \in 1..Len(backlog') : backlog'[i] = backlog[i + 1]
        /\ Head(backlog) = backlog[1]
    BY <1>1 DEF TypeOK, Accept
  <2>3. serving' = Head(backlog) /\ serving = NoConn /\ UNCHANGED <<result, cli, req>>
    BY <1>1 DEF Accept
  <2>4. ASSUME NEW c \in Conn, NEW d \in Conn, Ahead(c, d) PROVE Ahead(c, d)'
    <3>1. PICK i, j \in 1..Len(backlog) : i < j /\ backlog[i] = c /\ backlog[j] = d
      BY <2>3, <2>4, ConnAssumption DEF Ahead
    <3>2. j - 1 \in 1..Len(backlog') /\ backlog'[j - 1] = d
      BY <2>2, <3>1
    <3>3. CASE i = 1
      BY <2>2, <2>3, <3>1, <3>2, <3>3 DEF Ahead, Queued
    <3>4. CASE i # 1
      <4>1. i - 1 \in 1..Len(backlog') /\ backlog'[i - 1] = c /\ i - 1 < j - 1
        BY <2>2, <3>1, <3>4
      <4> QED BY <3>2, <4>1 DEF Ahead
    <3> QED BY <3>3, <3>4
  <2> QED BY <2>1, <2>3, <2>4 DEF Undisturbed, Live, Ran, EndsAgree
<1>2. CASE WorkerStart \/ \E c \in Conn : HandleRequest(c, "err") \/ HandleEmpty(c)
  <2>1. UNCHANGED <<backlog, serving, cli, req>> /\ result' \in {result, "err"}
    BY <1>2 DEF WorkerStart, HandleRequest, HandleEmpty
  <2> QED BY <2>1 DEF Undisturbed, Live, Ahead, Queued, Ran
<1>3. CASE \E c \in Conn : Reply(c)
  <2>1. PICK c \in Conn : Reply(c)
    BY <1>3
  <2>2. /\ serving = c /\ result # "none" /\ serving' = NoConn /\ result' = "none"
        /\ backlog' = backlog /\ Queued' = Queued /\ c \notin Queued
    BY <2>1 DEF Reply, Queued, EndsAgree
  <2>3. /\ cli[c] # "free" /\ cli'[c] \in {"free", result}
        /\ \A d \in Conn : d # c => cli'[d] = cli[d] /\ req'[d] = req[d]
        /\ req'[c] \in {req[c], NoRequest}
    BY <2>1 DEF Reply, EndsAgree, WithWorker, TypeOK
  <2>4. \A d \in Conn : Live(d)' => d # c /\ Live(d)
    BY <2>2, ConnAssumption DEF Live
  <2>5. \A d, e \in Conn : d # c /\ Ahead(d, e) => Ahead(d, e)'
    BY <2>2 DEF Ahead
  <2>6. \A d \in Conn : Ran(d)' => Ran(d)
    BY <2>2, <2>3, ConnAssumption DEF Ran
  <2> QED BY <2>3, <2>4, <2>5, <2>6 DEF Undisturbed
<1>4. CASE WorkerCrash
  <2>1. Queued' = {} /\ serving' = NoConn
    BY <1>4 DEF WorkerCrash, Queued
  <2>2. \A c \in Conn : ~Live(c)'
    BY <2>1, ConnAssumption DEF Live
  <2>3. \A c \in Conn : req'[c] \in {req[c], NoRequest} /\ (cli'[c] = "ok" => cli[c] = "ok")
    BY <1>4 DEF WorkerCrash, TypeOK
  <2>4. \A c \in Conn : cli[c] = "free" => cli'[c] = "free"
    BY <1>4 DEF WorkerCrash, TypeOK
  <2> QED BY <2>1, <2>2, <2>3, <2>4, ConnAssumption DEF Undisturbed, Ran
<1> QED BY <1>1, <1>2, <1>3, <1>4

\* What is run is what nothing was ahead of.
LEMMA RunIsFirst ==
    ASSUME IInv, NEW c \in Conn, HandleRequest(c, "ok")
    PROVE  /\ Live(c) /\ ~Live(c)' /\ UNCHANGED <<cli, req>> /\ req[c] # NoRequest
           /\ cli[c] \in {"sent", "gone"}
           /\ \A d \in Conn : Live(d) => d = c \/ Live(d)'
           /\ \A d \in Conn : Live(d)' => Live(d)
           /\ \A d \in Conn : ~Ahead(d, c)
           /\ \A d, e \in Conn : Ahead(d, e)' <=> Ahead(d, e)
           /\ \A d \in Conn : Ran(d)' => Ran(d) \/ d = c
<1> USE DEF IInv
<1>1. /\ serving = c /\ result = "none" /\ result' = "ok" /\ req[c] # NoRequest
      /\ UNCHANGED <<backlog, serving, cli, req>> /\ c \notin Queued /\ Queued' = Queued
  BY DEF HandleRequest, EndsAgree, Queued
<1>2. cli[c] \in {"sent", "gone"}
  BY <1>1 DEF EndsAgree, WithWorker
<1>3. \A d \in Conn : ~Ahead(d, c)
  BY <1>1 DEF Ahead, Queued
<1>4. \A d, e \in Conn : Ahead(d, e)' <=> Ahead(d, e)
  BY <1>1 DEF Ahead
<1> QED BY <1>1, <1>2, <1>3, <1>4 DEF Live, Ran

----------------------------------------------------------------------------
(* Refinement.                                                              *)

LEMMA InitRefines == Init => Abstract!Init
BY DEF Init, Abstract!Init, Standing, Applied

LEMMA ClientRefines ==
    ASSUME IInv, NEW c \in Conn, Client(c)
    PROVE  [Abstract!Next]_(Abstract!vars)
<1> USE DEF IInv, TypeOK, ClientState, Abstract!Next, Abstract!vars
<1>1. CASE Connect(c)
  <2>1. Standing[c] = "free" /\ Standing' = [Standing EXCEPT ![c] = "pending"]
    BY <1>1 DEF Connect, Standing
  <2>2. Applied' = Applied
    BY <1>1 DEF Connect, Applied
  <2>3. Abstract!Call(c)
    BY <2>1, <2>2 DEF Abstract!Call
  <2> QED BY <2>3
<1>2. CASE \E r \in Request : Write(c, r)
  <2>1. UNCHANGED Abstract!vars
    BY <1>2 DEF Write, Standing, Applied
  <2> QED BY <2>1
<1>3. CASE Timeout(c)
  <2>1. Abstract!Abandon(c)
    BY <1>3 DEF Timeout, Standing, Applied, Abstract!Abandon
  <2> QED BY <2>1
<1>4. CASE Return(c)
  <2>1. Abstract!Release(c)
    BY <1>4 DEF Return, Result, Standing, Applied, Abstract!Release
  <2> QED BY <2>1
<1> QED BY <1>1, <1>2, <1>3, <1>4 DEF Client

LEMMA WorkerRefines ==
    ASSUME IInv, NEW c \in Conn, Handle(c) \/ Reply(c)
    PROVE  [Abstract!Next]_(Abstract!vars)
<1> USE DEF IInv, TypeOK, ClientState, Abstract!Next, Abstract!vars
<1>0. serving = c => cli[c] \in {"connected", "sent", "gone"}
  BY DEF EndsAgree, WithWorker
<1>1. CASE \E res \in Result : HandleRequest(c, res)
  <2>1. runs[c] = 0
    BY <1>1 DEF HandleRequest, RunOnce
  <2>2. Abstract!Apply(c)
    BY <1>0, <1>1, <2>1 DEF HandleRequest, Standing, Applied, Abstract!Apply
  <2> QED BY <2>2
<1>2. CASE HandleEmpty(c)
  <2>1. UNCHANGED Abstract!vars
    BY <1>2 DEF HandleEmpty, Standing, Applied
  <2> QED BY <2>1
<1>3. CASE Reply(c) /\ cli[c] = "gone"
  <2>1. Abstract!Release(c)
    BY <1>3 DEF Reply, Standing, Applied, Abstract!Release
  <2> QED BY <2>1
<1>4. CASE Reply(c) /\ cli[c] # "gone" /\ result = "ok"
  <2>1. runs[c] = 1
    BY <1>4 DEF Reply, RunOnce
  <2>2. Standing[c] = "pending" /\ Standing' = [Standing EXCEPT ![c] = "ok"]
    BY <1>0, <1>4 DEF Reply, Standing
  <2>3. c \in Applied /\ Applied' = Applied
    BY <1>0, <1>4, <2>1 DEF Reply, Applied
  <2>4. Abstract!AnswerOk(c)
    BY <2>2, <2>3 DEF Abstract!AnswerOk
  <2> QED BY <2>4
<1>5. CASE Reply(c) /\ cli[c] # "gone" /\ result # "ok"
  <2>1. result = "err"
    BY <1>5 DEF Reply, Result
  <2>2. Abstract!AnswerErr(c)
    BY <1>0, <1>5, <2>1 DEF Reply, Standing, Applied, Abstract!AnswerErr
  <2> QED BY <2>2
<1> QED BY <1>1, <1>2, <1>3, <1>4, <1>5 DEF Handle

LEMMA CrashRefines ==
    ASSUME IInv, ManagerCrash \/ WorkerStart \/ WorkerCrash \/ Accept
    PROVE  [Abstract!Next]_(Abstract!vars)
<1> USE DEF IInv, TypeOK, ClientState, Abstract!Next, Abstract!vars
<1>1. CASE ManagerCrash
  <2>1. Abstract!CallerCrash
    BY <1>1 DEF ManagerCrash, Result, Standing, Applied, Abstract!CallerCrash
  <2> QED BY <2>1
<1>2. CASE WorkerCrash
  <2>1. Abstract!DropAll
    BY <1>2 DEF WorkerCrash, Standing, Applied, Abstract!DropAll
  <2> QED BY <2>1
<1>3. CASE WorkerStart \/ Accept
  <2>1. UNCHANGED Abstract!vars
    BY <1>3 DEF WorkerStart, Accept, Standing, Applied
  <2> QED BY <2>1
<1> QED BY <1>1, <1>2, <1>3

\* Every behaviour of the socket protocol is one of the abstract at-most-once
\* call: in particular an error answer is final, and only abandoned or pending
\* requests can take effect.
THEOREM Refinement == Spec => AtMostOnce
<1>1. IInv /\ [Next]_vars => [Abstract!Next]_(Abstract!vars)
  <2> SUFFICES ASSUME IInv, [Next]_vars PROVE [Abstract!Next]_(Abstract!vars)
    OBVIOUS
  <2>1. CASE UNCHANGED vars
    BY <2>1 DEF vars, Abstract!vars, Standing, Applied
  <2>2. CASE Next
    BY <2>2, ClientRefines, WorkerRefines, CrashRefines DEF Next
  <2> QED BY <2>1, <2>2
<1> QED BY <1>1, InitRefines, Invariance, PTL DEF Spec, AtMostOnce, Abstract!Spec
=============================================================================
