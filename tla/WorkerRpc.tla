----------------------------- MODULE WorkerRpc -----------------------------
(* The UNIX-socket protocol between wg-manager (wg_client.rs) and the       *)
(* privileged wg-worker (wg-worker/src/main.rs).                            *)
(*                                                                          *)
(* The manager opens one connection per request, writes one line and reads  *)
(* one line, giving up after a read timeout.  The worker is a single thread *)
(* that accepts connections in order, reads a line WITHOUT a timeout, runs  *)
(* it to completion and answers.  Closing a connection does not withdraw    *)
(* its request: what is in the listen queue is still read and executed.     *)
(*                                                                          *)
(* Conn is the pool of connections the kernel lets exist at once (the       *)
(* listen backlog and the one being served); a manager thread that finds it *)
(* exhausted blocks in connect(2), which has no timeout.                    *)
EXTENDS Naturals, Sequences

CONSTANTS
    Conn,           \* connections
    NoConn,         \* "no connection"
    Request,        \* request lines a client may write
    NoRequest       \* nothing written on the connection

ASSUME ConnAssumption == NoConn \notin Conn
ASSUME RequestAssumption == NoRequest \notin Request

VARIABLES
    up,             \* the worker process is running and bound to its socket
    backlog,        \* connections waiting for accept, oldest first
    serving,        \* the connection the worker is serving, or NoConn
    result,         \* outcome of the request being served: "none" until handled
    cli,            \* cli[c]: the client's end of connection c
    req,            \* req[c]: the line written on connection c
    runs            \* runs[c]: times the worker has run that line (history)

vars == <<up, backlog, serving, result, cli, req, runs>>

----------------------------------------------------------------------------
Result == {"ok", "err"}

\* "connected": connected, line not written yet.   "sent": waiting for a reply.
\* "ok"/"err": the outcome wg_client::request returns, not yet consumed.
\* "gone": the client closed its end, the worker still has the connection.
ClientState == {"free", "connected", "sent", "ok", "err", "gone"}

Queued == {backlog[i] : i \in 1..Len(backlog)}

TypeOK ==
    /\ up \in BOOLEAN
    /\ backlog \in Seq(Conn)
    /\ serving \in Conn \cup {NoConn}
    /\ result \in Result \cup {"none"}
    /\ cli \in [Conn -> ClientState]
    /\ req \in [Conn -> Request \cup {NoRequest}]
    /\ runs \in [Conn -> Nat]

Init ==
    /\ up = FALSE
    /\ backlog = <<>>
    /\ serving = NoConn
    /\ result = "none"
    /\ cli = [c \in Conn |-> "free"]
    /\ req = [c \in Conn |-> NoRequest]
    /\ runs = [c \in Conn |-> 0]

----------------------------------------------------------------------------
(* The manager's side: wg_client::request.                                  *)

\* MUTANT: a connection the client gave up on is used again.
Connect_ReusesAbandoned(c) ==
    /\ up
    /\ cli[c] \in {"free", "gone"}
    /\ cli' = [cli EXCEPT ![c] = "connected"]
    /\ backlog' = IF cli[c] = "gone" THEN backlog ELSE Append(backlog, c)
    /\ runs' = [runs EXCEPT ![c] = 0]
    /\ UNCHANGED <<up, serving, result, req>>

\* UnixStream::connect on a running worker; with the worker down it fails and
\* nothing changes.
Connect(c) ==
    /\ up
    /\ cli[c] = "free"
    /\ cli' = [cli EXCEPT ![c] = "connected"]
    /\ backlog' = Append(backlog, c)
    /\ runs' = [runs EXCEPT ![c] = 0]
    /\ UNCHANGED <<up, serving, result, req>>

\* The two write_all calls (payload, newline).  A client that dies between them
\* has written the whole request: the worker reads up to EOF and runs it.
Write(c, r) ==
    /\ cli[c] = "connected"
    /\ cli' = [cli EXCEPT ![c] = "sent"]
    /\ req' = [req EXCEPT ![c] = r]
    /\ UNCHANGED <<up, backlog, serving, result, runs>>

\* MUTANTS: a timed-out request is taken for withdrawn; for refused.
Timeout_Withdraws(c) ==
    /\ cli[c] = "sent"
    /\ cli' = [cli EXCEPT ![c] = "free"]
    /\ UNCHANGED <<up, backlog, serving, result, req, runs>>

Timeout_Refused(c) ==
    /\ cli[c] = "sent"
    /\ cli' = [cli EXCEPT ![c] = "err"]
    /\ UNCHANGED <<up, backlog, serving, result, req, runs>>

\* The read timeout: the stream is dropped, the request stays with the worker.
Timeout(c) ==
    /\ cli[c] = "sent"
    /\ cli' = [cli EXCEPT ![c] = "gone"]
    /\ UNCHANGED <<up, backlog, serving, result, req, runs>>

\* The caller takes the outcome and the stream is dropped.
Return(c) ==
    /\ cli[c] \in Result
    /\ cli' = [cli EXCEPT ![c] = "free"]
    /\ req' = [req EXCEPT ![c] = NoRequest]
    /\ UNCHANGED <<up, backlog, serving, result, runs>>

\* The manager process dies: every one of its streams is closed.
ManagerCrash ==
    /\ cli' = [c \in Conn |-> IF cli[c] \in {"connected", "sent"} THEN "gone"
                              ELSE IF cli[c] \in Result THEN "free" ELSE cli[c]]
    /\ req' = [c \in Conn |-> IF cli[c] \in Result THEN NoRequest ELSE req[c]]
    /\ UNCHANGED <<up, backlog, serving, result, runs>>

----------------------------------------------------------------------------
(* The worker's side: main and its accept loop.                             *)

WorkerStart ==
    /\ ~up
    /\ up' = TRUE
    /\ UNCHANGED <<backlog, serving, result, cli, req, runs>>

\* MUTANT: the newest connection first.
Accept_Newest ==
    /\ up
    /\ serving = NoConn
    /\ backlog # <<>>
    /\ serving' = backlog[Len(backlog)]
    /\ backlog' = SubSeq(backlog, 1, Len(backlog) - 1)
    /\ UNCHANGED <<up, result, cli, req, runs>>

\* listener.incoming(): the oldest waiting connection.
Accept ==
    /\ up
    /\ serving = NoConn
    /\ backlog # <<>>
    /\ serving' = Head(backlog)
    /\ backlog' = Tail(backlog)
    /\ UNCHANGED <<up, result, cli, req, runs>>

\* MUTANT: a command that failed is tried again.
HandleRequest_Retries(c, res) ==
    /\ serving = c
    /\ result = "none"
    /\ req[c] # NoRequest
    /\ result' = IF res = "ok" THEN res ELSE "none"
    /\ runs' = [runs EXCEPT ![c] = @ + 1]
    /\ UNCHANGED <<up, backlog, serving, cli, req>>

\* A line was read: handle_request runs it, even if the client is gone.
HandleRequest(c, res) ==
    /\ serving = c
    /\ result = "none"
    /\ req[c] # NoRequest
    /\ result' = res
    /\ runs' = [runs EXCEPT ![c] = @ + 1]
    /\ UNCHANGED <<up, backlog, serving, cli, req>>

\* EOF before any line: "empty request".
HandleEmpty(c) ==
    /\ serving = c
    /\ result = "none"
    /\ cli[c] = "gone"
    /\ req[c] = NoRequest
    /\ result' = "err"
    /\ UNCHANGED <<up, backlog, serving, cli, req, runs>>

\* MUTANT: a response that cannot be delivered is written again and again.
Reply_Insists(c) ==
    /\ serving = c
    /\ result # "none"
    /\ cli[c] # "gone"
    /\ cli' = [cli EXCEPT ![c] = result]
    /\ serving' = NoConn
    /\ result' = "none"
    /\ UNCHANGED <<up, backlog, req, runs>>

\* The response is written (a failed write is ignored) and the stream dropped.
Reply(c) ==
    /\ serving = c
    /\ result # "none"
    /\ cli' = [cli EXCEPT ![c] = IF cli[c] = "gone" THEN "free" ELSE result]
    /\ req' = [req EXCEPT ![c] = IF cli[c] = "gone" THEN NoRequest ELSE @]
    /\ serving' = NoConn
    /\ result' = "none"
    /\ UNCHANGED <<up, backlog, runs>>

\* MUTANT: EOF is handed to the caller as if it were an answer.
WorkerCrash_EofUnchecked ==
    /\ up
    /\ up' = FALSE
    /\ backlog' = <<>>
    /\ serving' = NoConn
    /\ result' = "none"
    /\ cli' = [c \in Conn |-> IF cli[c] \in {"connected", "sent"} THEN "none"
                              ELSE IF cli[c] = "gone" THEN "free" ELSE cli[c]]
    /\ req' = [c \in Conn |-> IF cli[c] = "gone" THEN NoRequest ELSE req[c]]
    /\ UNCHANGED runs

\* The worker dies (systemd restarts it): its listening socket and every
\* connection in it go, and each waiting client reads EOF, an error.
WorkerCrash ==
    /\ up
    /\ up' = FALSE
    /\ backlog' = <<>>
    /\ serving' = NoConn
    /\ result' = "none"
    /\ cli' = [c \in Conn |-> IF cli[c] \in {"connected", "sent"} THEN "err"
                              ELSE IF cli[c] = "gone" THEN "free" ELSE cli[c]]
    /\ req' = [c \in Conn |-> IF cli[c] = "gone" THEN NoRequest ELSE req[c]]
    /\ UNCHANGED runs

----------------------------------------------------------------------------
Client(c) == Connect(c) \/ (\E r \in Request : Write(c, r)) \/ Timeout(c) \/ Return(c)

Handle(c) == (\E res \in Result : HandleRequest(c, res)) \/ HandleEmpty(c)

Next ==
    \/ \E c \in Conn : Client(c) \/ Handle(c) \/ Reply(c)
    \/ Accept
    \/ ManagerCrash
    \/ WorkerStart
    \/ WorkerCrash

Spec == Init /\ [][Next]_vars

\* The worker is restarted by systemd (Restart=on-failure), its loop never
\* pauses, every wg/nft/apt-get child terminates, and a manager thread that has
\* connected goes straight on to write.  Nothing is assumed of timeouts,
\* crashes or of callers coming back.
Fairness ==
    /\ WF_vars(WorkerStart)
    /\ WF_vars(Accept)
    /\ \A c \in Conn :
          /\ WF_vars(\E r \in Request : Write(c, r))
          /\ WF_vars(Handle(c))
          /\ WF_vars(Reply(c))

FairSpec == Spec /\ Fairness

----------------------------------------------------------------------------
(* What the protocol promises.                                              *)

\* A connection is in the worker's hands (queued or being served).
WithWorker(c) == c \in Queued \/ c = serving

\* The two ends agree on which connections are open: the ones in the queue or
\* being served are exactly the ones a client waits on or has walked away from,
\* each once, and with the worker down there are none.  Nothing is answered that
\* was not asked: no answer can reach a connection reused for another request.
EndsAgree ==
    /\ \A c \in Conn :
          /\ WithWorker(c) <=> cli[c] \in {"connected", "sent", "gone"}
          /\ cli[c] \in {"free", "connected"} => req[c] = NoRequest
          /\ c = serving /\ result # "none" => cli[c] # "connected"
    /\ \A i, j \in 1..Len(backlog) : backlog[i] = backlog[j] => i = j
    /\ serving \notin Queued
    /\ ~up => serving = NoConn /\ backlog = <<>>
    /\ serving = NoConn => result = "none"

\* However requests queue up, time out and collide with crashes, the worker runs
\* a request at most once, none before its turn, and a caller that is told "ok"
\* had its own request run, once.
RunOnce ==
    \A c \in Conn :
        /\ c \in Queued \/ (c = serving /\ result = "none") => runs[c] = 0
        /\ c = serving /\ result = "ok" => runs[c] = 1
        /\ cli[c] = "ok" => runs[c] = 1
        /\ cli[c] # "free" => runs[c] <= 1

\* How a connection looks to the caller: where its call stands, and which calls
\* have taken effect.
Standing ==
    [c \in Conn |-> IF cli[c] \in {"connected", "sent"} THEN "pending"
                    ELSE IF cli[c] = "gone" THEN "abandoned" ELSE cli[c]]

Applied == {c \in Conn : cli[c] # "free" /\ runs[c] > 0}

Abstract == INSTANCE AtMostOnceRpc WITH st <- Standing, applied <- Applied

\* The protocol implements the at-most-once call the manager's handlers rely on;
\* that an error is final and that only a pending or abandoned request can take
\* effect is said there.
AtMostOnce == Abstract!Spec

\* Every call of the manager returns, whatever waits ahead of it in the queue
\* (abandoned requests, clients that died before writing) and however often the
\* worker crashes: the worker takes connections in order and never waits for a
\* caller that is gone.  Timeouts are not needed for it.
EveryCallReturns ==
    \A c \in Conn :
        cli[c] \in {"connected", "sent"} ~> cli[c] \notin {"connected", "sent"}

\* A connection the manager walked away from is eventually given back: timeouts
\* cannot fill the listen queue for good.
AbandonedDrain == \A c \in Conn : cli[c] = "gone" ~> cli[c] = "free"
=============================================================================
