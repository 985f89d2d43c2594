------------------------------ MODULE AclSync ------------------------------
(* Access rules: the SQLite table, the chain of the nftables table wgwm,    *)
(* the handlers of wg-manager that change a peer's rules, the restore task  *)
(* it spawns at start-up, and the sequence of nft commands the worker runs  *)
(* for a request, each of which can fail or be the last before a crash.     *)
(*                                                                          *)
(* A rule is named by its row id: its content never changes.  On the wire   *)
(* and in the chain a rule is a pair of an address and an id.  An address   *)
(* of the /24 is named by its last number, which is what its text ends in.  *)
EXTENDS Integers, Sequences, FiniteSets

CONSTANTS
    Handler,        \* HTTP requests that can be in flight at once
    Boot,           \* the restore task of the running manager
    Conn, NoConn,   \* worker connections (see WorkerRpc)
    NoRequest,
    Ip, NoIp,       \* last numbers of the peers' addresses
    Priority,       \* priorities administrators give
    Refused,        \* rules nft does not accept (a protocol without a port, IPv6)
    Marks,          \* Marks[r]: the addresses whose mark the description of rule r holds
    Unhandled,      \* rules whose description holds the text before a handle
    Sockets,        \* whether paths.wg_worker_socket is set when the program starts
    MaxPeer,        \* BOUND: peers ever created
    MaxRule,        \* BOUND: rules ever created
    MaxChain,       \* BOUND: a longer chain is not left uncleared by a failed command,
                    \* and one longer by MaxRule is not added to any more
    Ops,            \* requests the administrators send in this run
    Faults          \* what can go wrong in this run

ASSUME HandlerAssumption == IsFiniteSet(Handler) /\ Boot \notin Handler
ASSUME ConnAssumption == NoConn \notin Conn
ASSUME IpAssumption == Ip \subseteq 1..254 /\ NoIp \notin Ip
ASSUME BoundAssumption ==
    /\ MaxPeer \in Nat /\ MaxRule \in Nat /\ MaxChain \in Nat
    /\ Priority \subseteq Int /\ Refused \subseteq Nat
ASSUME TextAssumption == Marks \in [1..MaxRule -> SUBSET Ip] /\ Unhandled \subseteq Nat
ASSUME OptionAssumption ==
    /\ Sockets \subseteq BOOLEAN
    /\ Ops \subseteq {"peer", "unpeer", "add", "remove", "settings"}
    /\ Faults \subseteq {"timeout", "worker", "manager", "reboot", "nft", "db", "overlap"}

VARIABLES
    up, backlog, serving, result, cli, req, runs,   \* WorkerRpc
    peers,          \* table peers: id -> address
    lastPeer,       \* its sqlite_sequence
    rules,          \* table peer_acl_rules: id -> row
    lastRule,       \* its sqlite_sequence
    socket,         \* paths.wg_worker_socket is set, in the settings in memory
    nft,            \* "none", "table" (inet wgwm without its chain) or "chain"
    chain,          \* the rules of chain forward, in order
    wk,             \* the worker's place in the request it serves
    hd,             \* hd[h]: the locals of handler (or restore task) h
    drift           \* addresses that a failed step, or two requests about them at
                    \* once, have left behind (history)

rpcVars == <<up, backlog, serving, result, cli, req, runs>>
dbVars == <<peers, lastPeer, rules, lastRule>>
vars == <<rpcVars, dbVars, socket, nft, chain, wk, hd, drift>>

----------------------------------------------------------------------------
Peer == 1..MaxPeer
Rule == 1..MaxRule
Actor == Handler \cup {Boot}

Row == [peer : Peer, prio : Priority]

\* A rule as the worker gets it and as the chain has it.
Entry == [ip : Ip, rule : Rule]

\* apply_acl_rules (peer_ip, rules) and reload_all_acl (peers): the rules to add,
\* in the order they will be added.
AclRequest == [reload : BOOLEAN, ip : Ip \cup {NoIp}, add : Seq(Entry)]

ASSUME RequestAssumption == NoRequest \notin AclRequest

Rpc == INSTANCE WorkerRpc WITH Request <- AclRequest

\* todo: peers the restore task has yet to read.
Local == [at   : {"idle", "settings", "list", "snapshot", "scan", "call", "send", "wait"},
          peer : Peer \cup {0},
          ip   : Ip \cup {NoIp},
          todo : SUBSET Peer,
          add  : Seq(Entry),
          conn : Conn \cup {NoConn}]

Idle == [at |-> "idle", peer |-> 0, ip |-> NoIp, todo |-> {}, add |-> <<>>, conn |-> NoConn]

\* A manager that has just started: the restore task is spawned before it serves.
Restarted == [h \in Actor |-> IF h = Boot THEN [Idle EXCEPT !.at = "settings"] ELSE Idle]

\* pos: the line of the chain dump being looked at.  left: rules still to add.
Place == [at   : {"idle", "ensure", "chain", "dump", "delete", "add", "done"},
          pos  : Nat \ {0},
          left : Seq(Entry),
          bad  : BOOLEAN]

Resting == [at |-> "idle", pos |-> 1, left |-> <<>>, bad |-> FALSE]

TypeOK ==
    /\ Rpc!TypeOK
    /\ lastPeer \in 0..MaxPeer /\ lastRule \in 0..MaxRule
    /\ DOMAIN peers \subseteq 1..lastPeer /\ \A p \in DOMAIN peers : peers[p] \in Ip
    /\ DOMAIN rules \subseteq 1..lastRule
    /\ \A r \in DOMAIN rules : rules[r] \in Row /\ rules[r].peer \in DOMAIN peers
    /\ socket \in BOOLEAN
    /\ nft \in {"none", "table", "chain"}
    /\ chain \in Seq(Entry) /\ (nft # "chain" => chain = <<>>)
    /\ wk \in Place
    /\ hd \in [Actor -> Local]
    /\ drift \subseteq Ip

Init ==
    /\ Rpc!Init
    /\ peers = [p \in {} |-> NoIp] /\ lastPeer = 0
    /\ rules = [r \in {} |-> 0] /\ lastRule = 0
    /\ socket \in Sockets
    /\ nft = "none"
    /\ chain = <<>>
    /\ wk = Resting
    /\ hd = Restarted
    /\ drift = {}

----------------------------------------------------------------------------
(* Lists of rules.                                                          *)

RulesOf(p) == {r \in DOMAIN rules : rules[r].peer = p}

\* ORDER BY priority ASC, id ASC.  The worker sorts by priority again, stably.
Before(r, s) ==
    rules[r].prio < rules[s].prio \/ (rules[r].prio = rules[s].prio /\ r < s)

\* list_acl_rules, as rules for address ip.
Listed(p, ip) ==
    [i \in 1..Cardinality(RulesOf(p)) |->
        [ip   |-> ip,
         rule |-> CHOOSE r \in RulesOf(p) :
                     Cardinality({s \in RulesOf(p) : Before(s, r)}) = i - 1]]

\* The text of address ip is the first part of that of address j.
Begins(ip, j) == ip \in {j, j \div 10, j \div 100}

\* MUTANT: the search text is the same for every peer.
Found_All(ip, e) == TRUE

\* The search for "wgwm: <ip>" finds the line of e: the text of ip begins that of an
\* address marked in its comment, which is e's and then the description as the
\* administrator wrote it.
Found(ip, e) == \E j \in {e.ip} \cup Marks[e.rule] : Begins(ip, j)

----------------------------------------------------------------------------
(* Peers, as far as the rules are concerned (PeerSync has the rest).        *)

Quiet == \A h \in Actor : hd[h].at = "idle"

\* BOUND: rules that cannot be deleted pile up at every rewriting.
Room == Len(chain) <= MaxChain + MaxRule

\* Administrators take turns, and wait for the restore, unless requests overlap.
MayBegin == Quiet \/ "overlap" \in Faults

\* The addresses a request of h rewrites.
Scope(h) == IF h = Boot THEN Ip ELSE {hd[h].ip}

\* Actors other than h are rewriting, or about to rewrite, the rules of an address.
\* Only a request that has no other beside it when it reads the table brings the
\* address back into line.
Meets(h, ip) == \E g \in Actor \ {h} : hd[g].at # "idle" /\ ip \in Scope(g)

Met(h, ip) == {i \in {ip} : Meets(h, i)}

CreatePeer(ip) ==
    /\ "peer" \in Ops
    /\ MayBegin
    /\ lastPeer < MaxPeer
    /\ \A p \in DOMAIN peers : peers[p] # ip
    /\ lastPeer' = lastPeer + 1
    /\ peers' = [p \in DOMAIN peers \cup {lastPeer'} |->
                    IF p = lastPeer' THEN ip ELSE peers[p]]
    /\ UNCHANGED <<rpcVars, rules, lastRule, socket, nft, chain, wk, hd, drift>>

\* MUTANT: without the cascade.
RemovePeer_RowOnly(p) ==
    /\ "unpeer" \in Ops
    /\ MayBegin
    /\ p \in DOMAIN peers
    /\ peers' = [q \in DOMAIN peers \ {p} |-> peers[q]]
    /\ drift' = IF RulesOf(p) = {} THEN drift ELSE drift \cup {peers[p]}
    /\ UNCHANGED <<rpcVars, lastPeer, rules, lastRule, socket, nft, chain, wk, hd>>

\* delete_peer: the rows of its rules go with it (ON DELETE CASCADE), the chain is
\* not touched.
RemovePeer(p) ==
    /\ "unpeer" \in Ops
    /\ MayBegin
    /\ p \in DOMAIN peers
    /\ peers' = [q \in DOMAIN peers \ {p} |-> peers[q]]
    /\ rules' = [r \in DOMAIN rules \ RulesOf(p) |-> rules[r]]
    /\ drift' = IF RulesOf(p) = {} THEN drift ELSE drift \cup {peers[p]}
    /\ UNCHANGED <<rpcVars, lastPeer, lastRule, socket, nft, chain, wk, hd>>

----------------------------------------------------------------------------
(* The handlers.                                                            *)

\* api_acl_create, up to the committed row; reading it back can fail, and then
\* nothing is applied.
BeginAdd(h, p, prio) ==
    /\ "add" \in Ops
    /\ hd[h].at = "idle" /\ MayBegin /\ Room
    /\ p \in DOMAIN peers
    /\ lastRule < MaxRule
    /\ lastRule' = lastRule + 1
    /\ rules' = [r \in DOMAIN rules \cup {lastRule'} |->
                    IF r = lastRule' THEN [peer |-> p, prio |-> prio] ELSE rules[r]]
    /\ \/ /\ hd' = [hd EXCEPT ![h] = [Idle EXCEPT !.at = "settings", !.peer = p, !.ip = peers[p]]]
          /\ drift' = drift \cup Met(h, peers[p])
       \/ /\ "db" \in Faults
          /\ drift' = drift \cup {peers[p]}
          /\ UNCHANGED hd
    /\ UNCHANGED <<rpcVars, peers, lastPeer, socket, nft, chain, wk>>

\* api_acl_delete, up to the committed deletion.  The row need not be there any more,
\* nor be one of p's: then the rules of its own peer are not rewritten.
BeginRemove(h, p, r) ==
    /\ "remove" \in Ops
    /\ hd[h].at = "idle" /\ MayBegin /\ Room
    /\ p \in DOMAIN peers
    /\ rules' = [q \in DOMAIN rules \ {r} |-> rules[q]]
    /\ hd' = [hd EXCEPT ![h] = [Idle EXCEPT !.at = "settings", !.peer = p, !.ip = peers[p]]]
    /\ drift' = drift \cup Met(h, peers[p])
                      \cup {peers[rules[q].peer] : q \in {o \in DOMAIN rules \cap {r} : rules[o].peer # p}}
    /\ UNCHANGED <<rpcVars, peers, lastPeer, lastRule, socket, nft, chain, wk>>

\* The settings are cloned.  Without a socket nothing is applied, and the request is
\* answered as if it had been; nothing is restored.
ReadSettings(h) ==
    /\ hd[h].at = "settings"
    /\ \/ /\ socket
          /\ hd' = [hd EXCEPT ![h].at = IF h = Boot THEN "snapshot" ELSE "list"]
          /\ UNCHANGED drift
       \/ /\ ~socket
          /\ hd' = [hd EXCEPT ![h] = Idle]
          /\ drift' = IF h = Boot THEN drift ELSE drift \cup Scope(h)
    /\ UNCHANGED <<rpcVars, dbVars, socket, nft, chain, wk>>

\* The settings page.
SaveSettings ==
    /\ "settings" \in Ops
    /\ MayBegin
    /\ socket' = ~socket
    /\ UNCHANGED <<rpcVars, dbVars, nft, chain, wk, hd, drift>>

\* list_acl_rules(peer_id).unwrap_or_default(): a failed read is an empty list, and so is
\* that of a peer deleted meanwhile, whose address may be another's by now.
List(h) ==
    /\ hd[h].at = "list"
    /\ \/ /\ hd' = [hd EXCEPT ![h].at = "call", ![h].add = Listed(hd[h].peer, hd[h].ip)]
          /\ drift' = IF Meets(h, hd[h].ip) \/ hd[h].peer \notin DOMAIN peers
                       THEN drift ELSE drift \ {hd[h].ip}
       \/ /\ "db" \in Faults
          /\ hd' = [hd EXCEPT ![h].at = "call"]
          /\ drift' = drift \cup {hd[h].ip}
    /\ UNCHANGED <<rpcVars, dbVars, socket, nft, chain, wk>>

\* The restore task: list_peers...
Snapshot ==
    /\ hd[Boot].at = "snapshot"
    /\ \/ hd' = [hd EXCEPT ![Boot].at = "scan", ![Boot].todo = DOMAIN peers]
       \/ "db" \in Faults /\ hd' = [hd EXCEPT ![Boot] = Idle]
    /\ UNCHANGED <<rpcVars, dbVars, socket, nft, chain, wk, drift>>

\* ... then the rules of each peer, leaving out those that cannot be read ...
Scan ==
    /\ hd[Boot].at = "scan"
    /\ \E p \in hd[Boot].todo :
          /\ \A q \in hd[Boot].todo : p <= q
          /\ \/ /\ p \notin DOMAIN peers \/ RulesOf(p) = {}
                /\ hd' = [hd EXCEPT ![Boot].todo = @ \ {p}]
                /\ UNCHANGED drift
             \/ /\ p \in DOMAIN peers /\ RulesOf(p) # {}
                /\ hd' = [hd EXCEPT ![Boot].todo = @ \ {p},
                                    ![Boot].add = @ \o Listed(p, peers[p])]
                /\ drift' = IF Meets(Boot, peers[p]) THEN drift ELSE drift \ {peers[p]}
             \/ /\ "db" \in Faults
                /\ p \in DOMAIN peers
                /\ hd' = [hd EXCEPT ![Boot].todo = @ \ {p}]
                /\ drift' = drift \cup {peers[p]}
    /\ UNCHANGED <<rpcVars, dbVars, socket, nft, chain, wk>>

\* ... and a call only if there are any.
EndScan ==
    /\ hd[Boot].at = "scan"
    /\ hd[Boot].todo = {}
    /\ hd' = [hd EXCEPT ![Boot] = IF @.add = <<>> THEN Idle ELSE [@ EXCEPT !.at = "call"]]
    /\ UNCHANGED <<rpcVars, dbVars, socket, nft, chain, wk, drift>>

RequestOf(h) == [reload |-> h = Boot, ip |-> hd[h].ip, add |-> hd[h].add]

\* The outcome is only logged: the answer is the same.
CallReturned(h, ok) ==
    /\ hd' = [hd EXCEPT ![h] = Idle]
    /\ drift' = IF ok THEN drift ELSE drift \cup Scope(h)

Call(h) ==
    /\ hd[h].at = "call"
    /\ \E c \in Conn :
          /\ Rpc!Connect(c)
          /\ hd' = [hd EXCEPT ![h].at = "send", ![h].conn = c]
    /\ UNCHANGED <<dbVars, socket, nft, chain, wk, drift>>

\* The worker is down: the restore task gives up for good.
CallFails(h) ==
    /\ hd[h].at = "call"
    /\ ~up
    /\ CallReturned(h, FALSE)
    /\ UNCHANGED <<rpcVars, dbVars, socket, nft, chain, wk>>

Send(h) ==
    /\ hd[h].at = "send"
    /\ Rpc!Write(hd[h].conn, RequestOf(h))
    /\ hd' = [hd EXCEPT ![h].at = "wait"]
    /\ UNCHANGED <<dbVars, socket, nft, chain, wk, drift>>

Receive(h) ==
    /\ hd[h].at \in {"send", "wait"}
    /\ Rpc!Return(hd[h].conn)
    /\ CallReturned(h, cli[hd[h].conn] = "ok")
    /\ UNCHANGED <<dbVars, socket, nft, chain, wk>>

GiveUp(h) ==
    /\ "timeout" \in Faults
    /\ hd[h].at = "wait"
    /\ Rpc!Timeout(hd[h].conn)
    /\ CallReturned(h, FALSE)
    /\ UNCHANGED <<dbVars, socket, nft, chain, wk>>

Interrupted ==
    {h \in Actor : hd[h].at # "idle" /\ (h = Boot => hd[h].at \notin {"settings", "snapshot"})}

\* The manager dies, is restarted, and spawns the restore task.
ManagerCrash ==
    /\ "manager" \in Faults
    /\ Rpc!ManagerCrash
    /\ hd' = Restarted
    /\ drift' = drift \cup UNION {Scope(h) : h \in Interrupted}
    /\ UNCHANGED <<dbVars, socket, nft, chain, wk>>

----------------------------------------------------------------------------
(* The worker: one nft command per step.                                    *)

Ask == req[serving]

Serves == serving # NoConn /\ result = "none" /\ Ask # NoRequest

\* A step of the request being served, from place at to place w.
WorkerStep(at, w) ==
    /\ wk.at = at
    /\ wk' = w
    /\ UNCHANGED <<rpcVars, dbVars, socket, hd>>

Failed == [wk EXCEPT !.at = "done", !.bad = TRUE]

\* Where ensure_wgwm_table returns to.
Ensured == [wk EXCEPT !.at = IF Ask.reload THEN "add" ELSE "dump"]

\* Rules that cannot be deleted pile up.
ClearFails == "nft" \in Faults /\ Len(chain) <= MaxChain

\* MUTANT: a restore adds to what is there.
Start_Appends ==
    /\ WorkerStep("idle", [wk EXCEPT !.at = "ensure", !.left = Ask.add])
    /\ UNCHANGED <<nft, chain, drift>>

\* reload_all_acl empties the table first, and goes on when that fails.
Start ==
    /\ WorkerStep("idle", [wk EXCEPT !.at = "ensure", !.left = Ask.add])
    /\ \/ ~Ask.reload /\ UNCHANGED <<chain, drift>>
       \/ Ask.reload /\ chain' = <<>> /\ UNCHANGED drift
       \/ Ask.reload /\ ClearFails /\ UNCHANGED chain /\ drift' = Ip
    /\ UNCHANGED nft

\* ensure_wgwm_table: the table is listed, and added when that fails for any reason...
Ensure ==
    /\ \/ nft # "none" /\ WorkerStep("ensure", Ensured) /\ UNCHANGED nft
       \/ /\ nft = "none" \/ "nft" \in Faults
          /\ \/ /\ WorkerStep("ensure", [wk EXCEPT !.at = "chain"])
                /\ nft' = IF nft = "none" THEN "table" ELSE nft
             \/ "nft" \in Faults /\ WorkerStep("ensure", Failed) /\ UNCHANGED nft
    /\ UNCHANGED <<chain, drift>>

\* ... and the chain is a second command.  Adding either once more changes nothing.
AddChain ==
    /\ \/ WorkerStep("chain", Ensured) /\ nft' = "chain"
       \/ "nft" \in Faults /\ WorkerStep("chain", Failed) /\ UNCHANGED nft
    /\ UNCHANGED <<chain, drift>>

\* nft --handle list chain.
Dump ==
    /\ \/ nft = "chain" /\ WorkerStep("dump", [wk EXCEPT !.at = "delete"])
       \/ (nft # "chain" \/ "nft" \in Faults) /\ WorkerStep("dump", Failed)
    /\ UNCHANGED <<nft, chain, drift>>

Without(i) == SubSeq(chain, 1, i - 1) \o SubSeq(chain, i + 1, Len(chain))

\* The next line of the dump is kept, or its rule is deleted by its handle.  A failure is
\* a warning; the handle is what follows its first announcement in the line, and when
\* that one is in the description nft is given no handle it knows.
Delete ==
    /\ wk.pos <= Len(chain)
    /\ LET e == chain[wk.pos]
           next == [wk EXCEPT !.pos = @ + 1]
       IN \/ /\ ~Found(Ask.ip, e)
             /\ WorkerStep("delete", next)
             /\ UNCHANGED <<chain, drift>>
          \/ /\ Found(Ask.ip, e) /\ e.rule \notin Unhandled
             /\ WorkerStep("delete", wk)
             /\ chain' = Without(wk.pos)
             /\ drift' = IF e.ip = Ask.ip THEN drift ELSE drift \cup {e.ip}
          \/ /\ Found(Ask.ip, e) /\ (e.rule \in Unhandled \/ ClearFails)
             /\ WorkerStep("delete", next)
             /\ drift' = drift \cup {e.ip}
             /\ UNCHANGED chain
    /\ UNCHANGED nft

\* MUTANT: the last line of the dump is not looked at.
EndDelete_Early ==
    /\ wk.pos >= Len(chain)
    /\ WorkerStep("delete", [wk EXCEPT !.at = "add"])
    /\ UNCHANGED <<nft, chain, drift>>

EndDelete ==
    /\ wk.pos > Len(chain)
    /\ WorkerStep("delete", [wk EXCEPT !.at = "add"])
    /\ UNCHANGED <<nft, chain, drift>>

\* MUTANT: a rule that could not be added is tried again.
Add_Retries ==
    /\ wk.left # <<>>
    /\ \/ /\ nft = "chain" /\ Head(wk.left).rule \notin Refused
          /\ WorkerStep("add", [wk EXCEPT !.left = Tail(@)])
          /\ chain' = Append(chain, Head(wk.left))
       \/ /\ nft # "chain" \/ Head(wk.left).rule \in Refused \/ "nft" \in Faults
          /\ WorkerStep("add", wk)
          /\ UNCHANGED chain
    /\ UNCHANGED <<nft, drift>>

\* nft add rule: apply_peer_acl stops at the first failure, reload_all_acl goes on.
Add ==
    /\ wk.left # <<>>
    /\ LET e == Head(wk.left)
           rest == [wk EXCEPT !.left = Tail(@)]
       IN \/ /\ nft = "chain" /\ e.rule \notin Refused
             /\ WorkerStep("add", rest)
             /\ chain' = Append(chain, e)
          \/ /\ nft # "chain" \/ e.rule \in Refused \/ "nft" \in Faults
             /\ WorkerStep("add", IF Ask.reload THEN [rest EXCEPT !.bad = TRUE] ELSE Failed)
             /\ UNCHANGED chain
    /\ UNCHANGED <<nft, drift>>

\* The answer is composed.
Finish ==
    /\ \/ wk.at = "add" /\ wk.left = <<>>
       \/ wk.at = "done"
    /\ Rpc!HandleRequest(serving, IF wk.bad THEN "err" ELSE "ok")
    /\ wk' = Resting
    /\ UNCHANGED <<dbVars, socket, nft, chain, hd, drift>>

WorkerLoop ==
    /\ \/ Rpc!Accept
       \/ \E c \in Conn : Rpc!HandleEmpty(c) \/ Rpc!Reply(c)
       \/ Rpc!WorkerStart
    /\ UNCHANGED <<dbVars, socket, nft, chain, wk, hd, drift>>

WorkerCrash ==
    /\ "worker" \in Faults
    /\ Rpc!WorkerCrash
    /\ wk' = Resting
    /\ UNCHANGED <<dbVars, socket, nft, chain, hd, drift>>

\* The host restarts, the worker having been stopped first: the ruleset is empty.
Reboot ==
    /\ "reboot" \in Faults
    /\ ~up
    /\ Rpc!ManagerCrash
    /\ hd' = Restarted
    /\ nft' = "none"
    /\ chain' = <<>>
    /\ drift' = drift \cup {peers[p] : p \in {q \in DOMAIN peers : RulesOf(q) # {}}}
    /\ UNCHANGED <<dbVars, socket, wk>>

----------------------------------------------------------------------------
Begin(h) ==
    \E p \in 1..lastPeer :
        \/ \E prio \in Priority : BeginAdd(h, p, prio)
        \/ \E r \in 1..lastRule : BeginRemove(h, p, r)

Continue(h) == ReadSettings(h) \/ List(h) \/ Call(h) \/ CallFails(h) \/ Send(h) \/ Receive(h)

Restore == Snapshot \/ Scan \/ EndScan

Serve == Serves /\ (Start \/ Ensure \/ AddChain \/ Dump \/ Delete \/ EndDelete \/ Add \/ Finish)

Next ==
    \/ \E ip \in Ip : CreatePeer(ip)
    \/ \E p \in 1..lastPeer : RemovePeer(p)
    \/ \E h \in Handler : Begin(h)
    \/ \E h \in Actor : Continue(h) \/ GiveUp(h)
    \/ Restore
    \/ Serve \/ WorkerLoop
    \/ WorkerCrash
    \/ ManagerCrash
    \/ Reboot
    \/ SaveSettings

Spec == Init /\ [][Next]_vars

Steps(h) == Continue(h) \/ (h = Boot /\ Restore)

\* As in PeerSync: handlers, the restore task and the worker run on, and a free connection
\* is got in the end; nothing is assumed of administrators, timeouts, crashes or faults.
FairSpec ==
    /\ Spec
    /\ \A h \in Actor : SF_vars(Steps(h))
    /\ WF_vars(Serve \/ WorkerLoop)

----------------------------------------------------------------------------
(* What the access control promises.                                        *)

Busy(ip) == \E h \in Actor : hd[h].at # "idle" /\ ip \in Scope(h)

\* The rules the table has for an address, in the order they must be in.
Asked(ip) ==
    LET holder == {p \in DOMAIN peers : peers[p] = ip}
    IN  IF holder = {} THEN <<>> ELSE Listed(CHOOSE p \in holder : TRUE, ip)

\* The entries of s at the places S are those of t at the places T, in the same order.
Matches(s, S, t, T) ==
    \E f \in [S -> T] :
       /\ \A k \in T : \E j \in S : f[j] = k
       /\ \A k \in S : t[f[k]] = s[k]
       /\ \A j, k \in S : j < k => f[j] < f[k]

\* The places of the entries of list about an address.
About(ip, list) == {k \in DOMAIN list : list[k].ip = ip}

\* own is what list has about an address.
Shows(ip, list, own) == Matches(own, DOMAIN own, list, About(ip, list))

\* An address whose last rewriting went through, with no other beside it, has in the
\* chain exactly the rules of the table, once each and by priority, whatever went
\* wrong before (rewritings that overlapped, requests run late, a worker that died
\* between two nft commands, a reboot, a rule deleted by way of another peer, changes
\* answered without a socket set) and whatever goes wrong with other addresses.  A rule
\* that a rewriting of another address takes away, and one that is never found by its
\* handle, leave the address behind.
AppliedUnlessFailed ==
    \A i \in Ip \ drift : ~Busy(i) => Shows(i, chain, Asked(i))

\* A request about one address changes and moves no rule of another, at any of its nft
\* commands: by the handles of a dump that its own deletions have made old, by a
\* clearing meant for one peer, or by adding after a failure.  Its search text must not
\* be the other's: not begin its address, nor a mark in the description of its rules.
UnnamedUntouched ==
    [][Serves /\ ~Ask.reload =>
          \A i \in Ip \ {Ask.ip} :
              (\A k \in About(i, chain) :
                  \A j \in {i} \cup Marks[chain[k].rule] : ~Begins(Ask.ip, j))
              => Matches(chain, About(i, chain), chain', About(i, chain'))]_vars

\* Every change of the rules is answered, and every restore ends.
RequestsFinish == \A h \in Actor : hd[h].at # "idle" ~> hd[h].at = "idle"

----------------------------------------------------------------------------
(* What the pages and comments say, and the code does not do.               *)

\* The entries of s about addresses other than ip are those of t, in the same order.
SameButFor(ip, s, t) ==
    LET others(list) == {k \in DOMAIN list : list[k].ip # ip}
    IN  Matches(s, others(s), t, others(t))

\* Doc comment of apply_peer_acl: it deletes the rules of the peer it is given and
\* applies its new ones.  The rules of the others stay as they are, at every command.
\* (The search text for 10.0.0.2 is found in the comments of 10.0.0.20.)
OthersUntouched == [][Serves /\ ~Ask.reload => SameButFor(Ask.ip, chain, chain')]_vars

\* templates/acl.html: the rules are restored automatically after a restart.  When the
\* restore task is over, every peer's are in the chain.
RestoredAtStart ==
    [][hd[Boot].at # "idle" /\ hd'[Boot].at = "idle" =>
          \A p \in DOMAIN peers : Shows(peers[p], chain, Listed(p, peers[p]))]_vars
=============================================================================
