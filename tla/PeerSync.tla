------------------------------ MODULE PeerSync ------------------------------
(* Peers: the SQLite table, the tunnels in the kernel, and the handlers of  *)
(* wg-manager that change both.                                             *)
(*                                                                          *)
(* A handler (one per HTTP request in flight, run by the multi-threaded     *)
(* runtime) reads the table, calls the worker over WorkerRpc or runs        *)
(* `sudo wg` itself, and writes the table, with no lock and no transaction  *)
(* around the three.  Each step below is what happens between two points    *)
(* where another handler, the worker or a crash can come in.                *)
(*                                                                          *)
(* A peer is named by its row id.  AUTOINCREMENT never hands an id out      *)
(* twice and every creation generates a key pair, so the id also stands for *)
(* the public key the kernel knows the peer by.                             *)
EXTENDS Integers, Sequences, FiniteSets

CONSTANTS
    Handler,        \* HTTP requests that can be in flight at once
    Conn, NoConn,   \* worker connections (see WorkerRpc)
    NoRequest,
    Ip, NoIp,       \* addresses allocate_next_ip can hand out, in its order
    Name, NoName,   \* names an administrator gives; NoName: name not in the request
    MaxPeer,        \* BOUND: rows ever inserted
    Sockets,        \* whether paths.wg_worker_socket is set when the program starts
    Ops,            \* requests the administrators send in this run
    Faults          \* what can go wrong in this run

ASSUME HandlerAssumption == IsFiniteSet(Handler)
ASSUME ConnAssumption == NoConn \notin Conn
ASSUME IpAssumption == Ip \subseteq Nat /\ NoIp \notin Ip
ASSUME NameAssumption == NoName \notin Name
ASSUME BoundAssumption == MaxPeer \in Nat
ASSUME OptionAssumption ==
    /\ Sockets \subseteq BOOLEAN
    /\ Ops \subseteq {"create", "rename", "toggle", "delete", "settings"}
    /\ Faults \subseteq {"timeout", "worker", "manager", "reboot", "wg", "db",
                   "switch"}

VARIABLES
    up, backlog, serving, result, cli, req, runs,   \* WorkerRpc
    peers,          \* table peers: id -> row
    lastId,         \* sqlite_sequence: the last id handed out
    kernel,         \* kernel[p]: the allowed IP the interface routes to p, or NoIp
    socket,         \* paths.wg_worker_socket is set, in the settings in memory
    hd,             \* hd[h]: the locals of handler h
    drift           \* drift[p]: what may have left peer p behind, a failed step
                    \* or two requests about it that met (history)

rpcVars == <<up, backlog, serving, result, cli, req, runs>>
vars == <<rpcVars, peers, lastId, kernel, socket, hd, drift>>

----------------------------------------------------------------------------
Peer == 1..MaxPeer

Row == [ip : Ip, active : BOOLEAN, name : Name]

\* `wg set <if> peer <p> allowed-ips <ip>/32` and `... remove` (ip = NoIp).
PeerRequest == [id : Peer, ip : Ip \cup {NoIp}]

ASSUME RequestAssumption == NoRequest \notin PeerRequest

Rpc == INSTANCE WorkerRpc WITH Request <- PeerRequest

\* "insert": an address was chosen.  "call": about to reach WireGuard.  "send",
\* "wait": the worker call is under way.  "write": WireGuard is done with, the
\* table is not.  sock: socket, as it was when the request read the settings.
Local == [at   : {"idle", "insert", "call", "send", "wait", "write"},
          op   : {"none", "create", "enable", "disable", "delete"},
          id   : Peer \cup {0},
          ip   : Ip \cup {NoIp},
          sock : BOOLEAN,
          conn : Conn \cup {NoConn}]

Idle == [at |-> "idle", op |-> "none", id |-> 0, ip |-> NoIp, sock |-> FALSE,
         conn |-> NoConn]

Drift == [Peer -> {"none", "failed", "met"}]

TypeOK ==
    /\ Rpc!TypeOK
    /\ lastId \in 0..MaxPeer
    /\ DOMAIN peers \subseteq 1..lastId
    /\ \A p \in DOMAIN peers : peers[p] \in Row
    /\ kernel \in [Peer -> Ip \cup {NoIp}]
    /\ socket \in BOOLEAN
    /\ hd \in [Handler -> Local]
    /\ drift \in Drift

Init ==
    /\ Rpc!Init
    /\ peers = [p \in {} |-> NoIp]
    /\ lastId = 0
    /\ kernel = [p \in Peer |-> NoIp]
    /\ socket \in Sockets
    /\ hd = [h \in Handler |-> Idle]
    /\ drift = [p \in Peer |-> "none"]

----------------------------------------------------------------------------
(* The table (db.rs).                                                       *)

\* list_allocated_ips: active rows only.
ActiveIps == {peers[p].ip : p \in {q \in DOMAIN peers : peers[q].active}}

\* The column's UNIQUE constraint: every row counts.
TakenIps == {peers[p].ip : p \in DOMAIN peers}

\* allocate_next_ip: the first host address not in use.
Allocated(used) == {ip \in Ip \ used : \A i \in Ip \ used : ip <= i}

\* MUTANT: the name is written even when the request has none.
Renamed_Always(p, nm) ==
    IF p \in DOMAIN peers THEN [peers EXCEPT ![p].name = nm] ELSE peers

\* UPDATE ... WHERE id = ?: a missing row is not an error.
Renamed(p, nm) ==
    IF p \in DOMAIN peers /\ nm # NoName THEN [peers EXCEPT ![p].name = nm] ELSE peers

Activated(p, on) ==
    IF p \in DOMAIN peers THEN [peers EXCEPT ![p].active = on] ELSE peers

Deleted(p) == [q \in DOMAIN peers \ {p} |-> peers[q]]

Inserted(p, row) == [q \in DOMAIN peers \cup {p} |-> IF q = p THEN row ELSE peers[q]]

----------------------------------------------------------------------------
(* WireGuard.                                                               *)

\* An allowed IP belongs to one peer of the interface: giving it to r.id takes
\* it from whoever had it.
AfterWg(r) ==
    [p \in Peer |-> IF p = r.id THEN r.ip
                    ELSE IF kernel[p] = r.ip THEN NoIp ELSE kernel[p]]

RequestOf(h) ==
    [id |-> hd[h].id,
     ip |-> IF hd[h].op \in {"create", "enable"} THEN hd[h].ip ELSE NoIp]

----------------------------------------------------------------------------
(* The handlers.                                                            *)

\* Creations that have their address and not yet their row.
Inserting == {g \in Handler : hd[g].at = "insert"}

\* api_peers_create, up to the allocation: the first address no active row has,
\* or the first of all when the table cannot be read (unwrap_or_default).
BeginCreate(h) ==
    /\ "create" \in Ops
    /\ hd[h].at = "idle"
    /\ lastId + Cardinality(Inserting) < MaxPeer
    /\ \E used \in {ActiveIps} \cup {u \in {{}} : "db" \in Faults} :
          \E ip \in Allocated(used) :
             hd' = [hd EXCEPT ![h] = [Idle EXCEPT !.at = "insert", !.op = "create",
                                                  !.ip = ip, !.sock = socket]]
    /\ UNCHANGED <<rpcVars, peers, lastId, kernel, socket, drift>>

\* Handler h is changing, or about to change, peer p.
Busy(p) == \E h \in Handler : hd[h].at # "idle" /\ hd[h].id = p

\* drift, with the peers of S marked as failed; a meeting is not forgotten for it.
Failed(S) ==
    [p \in Peer |-> IF p \in S /\ drift[p] = "none" THEN "failed" ELSE drift[p]]

\* Nothing keeps two requests about one peer apart.  Only one that finds itself alone
\* brings the peer back into line, by going all the way.
Joined(p) == IF Busy(p) THEN [drift EXCEPT ![p] = "met"] ELSE drift

Taken(p) == [drift EXCEPT ![p] = IF Busy(p) THEN "met" ELSE "none"]

\* create_peer: the row goes in active.  Reading it back can fail, and then the
\* handler stops without having told WireGuard.
InsertRow(h) ==
    /\ hd[h].at = "insert"
    /\ hd[h].ip \notin TakenIps
    /\ lastId' = lastId + 1
    /\ \E nm \in Name :
          peers' = Inserted(lastId + 1, [ip |-> hd[h].ip, active |-> TRUE, name |-> nm])
    /\ \/ /\ hd' = [hd EXCEPT ![h].at = "call", ![h].id = lastId + 1]
          /\ UNCHANGED drift
       \/ /\ "db" \in Faults
          /\ hd' = [hd EXCEPT ![h] = Idle]
          /\ drift' = Failed({lastId + 1})
    /\ UNCHANGED <<rpcVars, kernel, socket>>

\* The INSERT fails (UNIQUE, or the database): 500, nothing changed.
InsertFails(h) ==
    /\ hd[h].at = "insert"
    /\ hd[h].ip \in TakenIps \/ "db" \in Faults
    /\ hd' = [hd EXCEPT ![h] = Idle]
    /\ UNCHANGED <<rpcVars, peers, lastId, kernel, socket, drift>>

\* api_peers_update without is_active.
Rename(h, p, nm) ==
    /\ "rename" \in Ops
    /\ hd[h].at = "idle"
    /\ peers' = Renamed(p, nm)
    /\ UNCHANGED <<rpcVars, lastId, kernel, socket, hd, drift>>

\* api_peers_update with is_active = on, up to the WireGuard call: the rename is
\* committed, then the row is read and compared.
BeginToggle(h, p, nm, on) ==
    /\ "toggle" \in Ops
    /\ hd[h].at = "idle"
    /\ peers' = Renamed(p, nm)
    /\ IF p \in DOMAIN peers /\ peers[p].active # on
       THEN /\ hd' = [hd EXCEPT ![h] = [Idle EXCEPT !.at = "call", !.id = p,
                                            !.op = IF on THEN "enable" ELSE "disable",
                                            !.ip = peers[p].ip, !.sock = socket]]
            /\ drift' = Taken(p)
       ELSE UNCHANGED <<hd, drift>>
    /\ UNCHANGED <<rpcVars, lastId, kernel, socket>>

\* api_peers_delete, up to the WireGuard call, which is made only for a row that
\* was read and is active; when the read fails the row goes all the same.
BeginDelete(h, p) ==
    /\ "delete" \in Ops
    /\ hd[h].at = "idle"
    /\ \/ /\ p \in DOMAIN peers /\ peers[p].active
          /\ hd' = [hd EXCEPT ![h] = [Idle EXCEPT !.op = "delete", !.id = p, !.sock = socket,
                                                   !.at = "call"]]
          /\ drift' = Taken(p)
       \/ /\ ~(p \in DOMAIN peers /\ peers[p].active)
          /\ hd' = [hd EXCEPT ![h] = [Idle EXCEPT !.op = "delete", !.id = p, !.sock = socket,
                                                   !.at = "write"]]
          /\ drift' = Joined(p)
       \/ /\ "db" \in Faults
          /\ hd' = [hd EXCEPT ![h] = [Idle EXCEPT !.op = "delete", !.id = p, !.sock = socket,
                                                   !.at = "write"]]
          /\ drift' = [drift EXCEPT ![p] = IF Busy(p) \/ @ = "met" THEN "met" ELSE "failed"]
    /\ UNCHANGED <<rpcVars, peers, lastId, kernel, socket>>

\* WireGuard carries r out.  If r is one of two requests that met, its peer may be gone
\* and its address another's, whose tunnel it takes.
Robbed(r) ==
    IF drift[r.id] = "met" /\ r.ip # NoIp
    THEN Failed({p \in Peer \ {r.id} : kernel[p] = r.ip})
    ELSE drift

\* The WireGuard call has returned.  A creation is over; a toggle goes on to the
\* table only on success; a deletion ignores the outcome.
GoesOn(h, ok) ==
    hd' = [hd EXCEPT ![h] =
             IF @.op = "delete" \/ (ok /\ @.op # "create")
             THEN [@ EXCEPT !.at = "write", !.conn = NoConn]
             ELSE Idle]

CallReturned(h, ok) ==
    /\ GoesOn(h, ok)
    /\ drift' = IF ok THEN drift ELSE Failed({hd[h].id})

\* wg_client::request, connect.
Call(h) ==
    /\ hd[h].at = "call"
    /\ hd[h].sock
    /\ \E c \in Conn :
          /\ Rpc!Connect(c)
          /\ hd' = [hd EXCEPT ![h].at = "send", ![h].conn = c]
    /\ UNCHANGED <<peers, lastId, kernel, socket, drift>>

CallFails(h) ==
    /\ hd[h].at = "call"
    /\ hd[h].sock
    /\ ~up
    /\ CallReturned(h, FALSE)
    /\ UNCHANGED <<rpcVars, peers, lastId, kernel, socket>>

Send(h) ==
    /\ hd[h].at = "send"
    /\ Rpc!Write(hd[h].conn, RequestOf(h))
    /\ hd' = [hd EXCEPT ![h].at = "wait"]
    /\ UNCHANGED <<peers, lastId, kernel, socket, drift>>

\* MUTANT: EOF does not end the wait for an answer.
Receive_NeedsAnswer(h) ==
    /\ hd[h].at \in {"send", "wait"}
    /\ cli[hd[h].conn] = "ok"
    /\ Rpc!Return(hd[h].conn)
    /\ CallReturned(h, TRUE)
    /\ UNCHANGED <<peers, lastId, kernel, socket>>

\* The answer, or EOF from a worker that died (also noticed while sending).
Receive(h) ==
    /\ hd[h].at \in {"send", "wait"}
    /\ Rpc!Return(hd[h].conn)
    /\ CallReturned(h, cli[hd[h].conn] = "ok")
    /\ UNCHANGED <<peers, lastId, kernel, socket>>

\* The read timeout.
GiveUp(h) ==
    /\ "timeout" \in Faults
    /\ hd[h].at = "wait"
    /\ Rpc!Timeout(hd[h].conn)
    /\ CallReturned(h, FALSE)
    /\ UNCHANGED <<peers, lastId, kernel, socket>>

\* Without a worker the handler runs `sudo wg` and waits for it.
LocalWg(h) ==
    /\ hd[h].at = "call"
    /\ ~hd[h].sock
    /\ \/ /\ kernel' = AfterWg(RequestOf(h))
          /\ GoesOn(h, TRUE)
          /\ drift' = Robbed(RequestOf(h))
       \/ "wg" \in Faults /\ UNCHANGED kernel /\ CallReturned(h, FALSE)
    /\ UNCHANGED <<rpcVars, peers, lastId, socket>>

\* set_peer_active or delete_peer, and the answer (204 for a deletion whatever
\* happened).
DbWrite(h) ==
    /\ hd[h].at = "write"
    /\ \/ /\ peers' = IF hd[h].op = "delete" THEN Deleted(hd[h].id)
                      ELSE Activated(hd[h].id, hd[h].op = "enable")
          /\ UNCHANGED drift
       \/ /\ "db" \in Faults
          /\ drift' = Failed({hd[h].id})
          /\ UNCHANGED peers
    /\ hd' = [hd EXCEPT ![h] = Idle]
    /\ UNCHANGED <<rpcVars, lastId, kernel, socket>>

\* Requests that reached the worker, answered or abandoned, are all over.
Drained == \A c \in Conn : cli[c] = "free"

\* api_settings_put: from here on requests go the other way.  Runs without "switch"
\* have administrators who wait for the requests under way.
SaveSettings ==
    /\ "settings" \in Ops
    /\ "switch" \in Faults \/ (Drained /\ \A h \in Handler : hd[h].at = "idle")
    /\ socket' = ~socket
    /\ UNCHANGED <<rpcVars, peers, lastId, kernel, hd, drift>>

\* The manager process dies between any two steps and is restarted by systemd;
\* `sudo wg` children die with its control group.
ManagerCrash ==
    /\ "manager" \in Faults
    /\ Rpc!ManagerCrash
    /\ drift' = Failed({hd[h].id : h \in Handler})
    /\ hd' = [h \in Handler |-> Idle]
    /\ UNCHANGED <<peers, lastId, kernel, socket>>

\* The host restarts, the worker having been stopped first: wg-quick brings the
\* interface up without peers, and nobody adds them.
Reboot ==
    /\ "reboot" \in Faults
    /\ ~up
    /\ Rpc!ManagerCrash
    /\ hd' = [h \in Handler |-> Idle]
    /\ kernel' = [p \in Peer |-> NoIp]
    /\ drift' = Failed({hd[h].id : h \in Handler} \cup {p \in Peer : kernel[p] # NoIp})
    /\ UNCHANGED <<peers, lastId, socket>>

----------------------------------------------------------------------------
(* The worker.                                                              *)

\* handle_peer_set / handle_peer_remove: one wg command.
RunRequest(c) ==
    /\ \/ /\ Rpc!HandleRequest(c, "ok")
          /\ kernel' = AfterWg(req[c])
          /\ drift' = Robbed(req[c])
       \/ "wg" \in Faults /\ Rpc!HandleRequest(c, "err") /\ UNCHANGED <<kernel, drift>>
    /\ UNCHANGED <<peers, lastId, socket, hd>>

WorkerLoop ==
    /\ \/ Rpc!Accept
       \/ \E c \in Conn : Rpc!HandleEmpty(c) \/ Rpc!Reply(c)
    /\ UNCHANGED <<peers, lastId, kernel, socket, hd, drift>>

WorkerStart ==
    /\ Rpc!WorkerStart
    /\ UNCHANGED <<peers, lastId, kernel, socket, hd, drift>>

WorkerCrash ==
    /\ "worker" \in Faults
    /\ Rpc!WorkerCrash
    /\ UNCHANGED <<peers, lastId, kernel, socket, hd, drift>>

----------------------------------------------------------------------------
\* Administrators act on ids they have seen, deleted since or not.
Begin(h) ==
    \/ BeginCreate(h)
    \/ \E p \in 1..lastId :
          \/ \E nm \in Name : Rename(h, p, nm)
          \/ \E nm \in Name \cup {NoName}, on \in BOOLEAN : BeginToggle(h, p, nm, on)
          \/ BeginDelete(h, p)

Continue(h) ==
    \/ InsertRow(h) \/ InsertFails(h)
    \/ Call(h) \/ CallFails(h) \/ Send(h) \/ Receive(h) \/ LocalWg(h)
    \/ DbWrite(h)

Worker == (\E c \in Conn : RunRequest(c)) \/ WorkerLoop \/ WorkerStart

Next ==
    \/ \E h \in Handler : Begin(h) \/ Continue(h) \/ GiveUp(h)
    \/ SaveSettings
    \/ Worker
    \/ WorkerCrash
    \/ ManagerCrash
    \/ Reboot

Spec == Init /\ [][Next]_vars

\* A handler that has started runs on, the worker serves and is restarted.  A
\* thread blocked in connect(2) on a full listen queue gets a place in its turn
\* (the kernel wakes the waiters in order): strong fairness.  Nothing is assumed
\* of administrators, timeouts, crashes or faults.
FairSpec ==
    /\ Spec
    /\ \A h \in Handler : WF_vars(Continue(h)) /\ SF_vars(Call(h))
    /\ WF_vars(Worker)

----------------------------------------------------------------------------
(* What the handlers promise.                                               *)

\* The tunnel the table asks for.
Wanted(p) ==
    IF p \in DOMAIN peers /\ peers[p].active THEN peers[p].ip ELSE NoIp

\* A peer whose last change was carried out without a failure, and with no other
\* request about the same peer under way, has exactly the tunnel its row asks for, and
\* a deleted one has none, whatever is done to OTHER peers meanwhile, whatever went
\* wrong before (requests about it that met, that timed out and are run late, crashes
\* of either process, deletions that were cut short) and whatever goes wrong with
\* others, even those that had the same address before.
SyncUnlessFailed ==
    \A p \in Peer : drift[p] = "none" /\ ~Busy(p) => kernel[p] = Wanted(p)

\* A handler that waits for the worker owns its connection, nothing is answered
\* there before it has asked, and what is run and answered is what it asked.
OwnAnswer ==
    \A h \in Handler :
        hd[h].at \in {"send", "wait"} =>
            /\ hd[h].conn \in Conn
            /\ hd[h].at = "send" => cli[hd[h].conn] \in {"connected", "err"}
            /\ hd[h].at = "wait" => /\ cli[hd[h].conn] \in {"sent", "ok", "err"}
                                    /\ req[hd[h].conn] = RequestOf(h)
            /\ \A g \in Handler : hd[g].conn = hd[h].conn => g = h

\* Every request an administrator makes is answered, without the help of timeouts.
HandlersFinish == \A h \in Handler : hd[h].at # "idle" ~> hd[h].at = "idle"

----------------------------------------------------------------------------
(* What the documents and comments say, and the code does not do.           *)

\* docs/02-config.md, client_ip_range: an UNUSED address is numbered
\* automatically.  list_allocated_ips forgets the addresses of disabled peers.
AllocatedIpIsUnused ==
    \A h \in Handler : hd[h].at = "insert" => hd[h].ip \notin TakenIps
=============================================================================
