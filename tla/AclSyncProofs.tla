--------------------------- MODULE AclSyncProofs ---------------------------
(* Proofs about AclSync for every number of handlers, connections, peers    *)
(* and rules, every mix of requests and every fault.                        *)
EXTENDS AclSync, FiniteSetTheorems, SequenceTheorems, TLAPS

RpcProofs == INSTANCE WorkerRpcProofs WITH Request <- AclRequest

----------------------------------------------------------------------------
(* ORDER BY priority, id.                                                   *)

\* How many rules of the same peer come before rule r.
Rank(p, r) == Cardinality({s \in RulesOf(p) : Before(s, r)})

LEMMA RulesOfType ==
    ASSUME TypeOK, NEW p
    PROVE  /\ RulesOf(p) \subseteq Rule /\ IsFiniteSet(RulesOf(p))
           /\ Cardinality(RulesOf(p)) \in Nat
           /\ \A r \in RulesOf(p) : r \in Int /\ rules[r].prio \in Int
<1>1. RulesOf(p) \subseteq 1..lastRule /\ lastRule \in Nat /\ lastRule <= MaxRule
  BY BoundAssumption DEF TypeOK, RulesOf
<1>2. IsFiniteSet(1..lastRule)
  BY <1>1, FS_Interval
<1>3. IsFiniteSet(RulesOf(p))
  BY <1>1, <1>2, FS_Subset
<1>4. Cardinality(RulesOf(p)) \in Nat
  BY <1>3, FS_CardinalityType
<1>5. \A r \in RulesOf(p) : r \in Int /\ rules[r].prio \in Int
  <2>1. \A r \in RulesOf(p) : rules[r] \in Row
    BY DEF TypeOK, RulesOf
  <2>2. \A r \in RulesOf(p) : rules[r].prio \in Priority
    BY <2>1 DEF Row
  <2>3. Priority \subseteq Int
    BY BoundAssumption
  <2>4. \A r \in RulesOf(p) : r \in Int
    BY <1>1
  <2> QED BY <2>2, <2>3, <2>4
<1>6. RulesOf(p) \subseteq Rule
  BY <1>1, BoundAssumption DEF Rule
<1> QED BY <1>3, <1>4, <1>5, <1>6

\* An earlier rule has a lower rank, and every rank is below the number of rules.
LEMMA RankOrder ==
    ASSUME TypeOK, NEW p, NEW r \in RulesOf(p)
    PROVE  /\ Rank(p, r) \in 0 .. Cardinality(RulesOf(p)) - 1
           /\ \A s \in RulesOf(p) : Before(s, r) => Rank(p, s) < Rank(p, r)
<1> DEFINE B(t) == {s \in RulesOf(p) : Before(s, t)}
<1>1. /\ IsFiniteSet(RulesOf(p)) /\ Cardinality(RulesOf(p)) \in Nat
      /\ \A s \in RulesOf(p) : s \in Int /\ rules[s].prio \in Int
  BY RulesOfType
<1>2. ASSUME NEW t \in RulesOf(p)
      PROVE  /\ IsFiniteSet(B(t)) /\ Cardinality(B(t)) \in Nat
             /\ Cardinality(B(t)) <= Cardinality(RulesOf(p))
             /\ Cardinality(B(t)) # Cardinality(RulesOf(p))
  <2>1. B(t) \in SUBSET RulesOf(p)
    OBVIOUS
  <2>2. t \notin B(t)
    BY <1>1 DEF Before
  <2> HIDE DEF B
  <2>3. IsFiniteSet(B(t))
    BY <1>1, <2>1, FS_Subset
  <2>4. Cardinality(B(t)) <= Cardinality(RulesOf(p))
    BY <1>1, <2>1, FS_Subset
  <2>5. Cardinality(B(t)) # Cardinality(RulesOf(p))
    BY <1>1, <2>1, <2>2, FS_Subset
  <2> QED BY <2>3, <2>4, <2>5, FS_CardinalityType
<1>3. ASSUME NEW s \in RulesOf(p), Before(s, r) PROVE Cardinality(B(s)) < Cardinality(B(r))
  <2>1. B(s) \in SUBSET B(r) /\ s \in B(r) /\ s \notin B(s)
    BY <1>1, <1>3 DEF Before
  <2> HIDE DEF B
  <2>2. IsFiniteSet(B(r))
    BY <1>2
  <2>3. Cardinality(B(s)) <= Cardinality(B(r)) /\ Cardinality(B(s)) # Cardinality(B(r))
    BY <2>1, <2>2, FS_Subset
  <2> QED BY <1>2, <2>3
<1>4. \A t \in RulesOf(p) : Rank(p, t) = Cardinality(B(t))
  BY DEF Rank
<1> HIDE DEF B
<1> QED BY <1>1, <1>2, <1>3, <1>4

\* list_acl_rules: every rule of the peer, each once, by priority and then by id.
LEMMA ListedIsSorted ==
    ASSUME TypeOK, NEW p, NEW ip \in Ip
    PROVE  LET n == Cardinality(RulesOf(p))
               l == Listed(p, ip)
           IN  /\ l \in Seq(Entry) /\ Len(l) = n
               /\ RulesOf(p) = {l[i].rule : i \in 1..n}
               /\ \A i, j \in 1..n : i < j => Before(l[i].rule, l[j].rule)
               /\ \A i \in 1..n : l[i].ip = ip /\ Rank(p, l[i].rule) = i - 1
<1> DEFINE n == Cardinality(RulesOf(p))
           l == Listed(p, ip)
           f == [r \in RulesOf(p) |-> Rank(p, r)]
<1>1. /\ IsFiniteSet(RulesOf(p)) /\ n \in Nat /\ RulesOf(p) \subseteq Rule
      /\ \A s \in RulesOf(p) : s \in Int /\ rules[s].prio \in Int
  BY RulesOfType
<1>2. \A r \in RulesOf(p) : Rank(p, r) \in 0..n-1
  BY RankOrder
<1>3. \A r, s \in RulesOf(p) : Before(s, r) => Rank(p, s) < Rank(p, r)
  BY RankOrder
<1>4. \A r, s \in RulesOf(p) : r = s \/ Before(r, s) \/ Before(s, r)
  BY <1>1 DEF Before
<1>5. \A r, s \in RulesOf(p) : Rank(p, r) = Rank(p, s) => r = s
  BY <1>2, <1>3, <1>4
<1>6. f \in Injection(RulesOf(p), 0..n-1)
  BY <1>2, <1>5 DEF Injection, IsInjective
<1>7. IsFiniteSet(0..n-1) /\ Cardinality(0..n-1) = n
  BY <1>1, FS_Interval
<1>8. f \in Surjection(RulesOf(p), 0..n-1)
  <2> HIDE DEF f
  <2> QED BY <1>6, <1>7, FS_Injection
<1>9. \A i \in 0..n-1 : \E r \in RulesOf(p) : Rank(p, r) = i
  BY <1>8 DEF Surjection
<1> DEFINE at(i) == CHOOSE r \in RulesOf(p) : Rank(p, r) = i - 1
<1>10. ASSUME NEW i \in 1..n PROVE at(i) \in RulesOf(p) /\ Rank(p, at(i)) = i - 1
  <2>1. \E r \in RulesOf(p) : Rank(p, r) = i - 1
    BY <1>1, <1>9
  <2> QED BY <2>1
<1>11. l = [i \in 1..n |-> [ip |-> ip, rule |-> at(i)]]
  BY DEF Listed, Rank
<1> HIDE DEF l, at
<1>12. l \in [1..n -> Entry]
  BY <1>1, <1>10, <1>11 DEF Entry
<1>13. l \in Seq(Entry) /\ Len(l) = n
  BY <1>1, <1>12
<1>14. \A i \in 1..n : l[i].rule = at(i)
  BY <1>11
<1>15. ASSUME NEW r \in RulesOf(p) PROVE \E i \in 1..n : r = l[i].rule
  <2>1. Rank(p, r) + 1 \in 1..n /\ Rank(p, r) \in Int
    BY <1>1, <1>2
  <2>2. at(Rank(p, r) + 1) = r
    BY <1>5, <1>10, <2>1
  <2> QED BY <1>14, <2>1, <2>2
<1>16. RulesOf(p) = {l[i].rule : i \in 1..n}
  BY <1>10, <1>14, <1>15
<1>17. ASSUME NEW i \in 1..n, NEW j \in 1..n, i < j PROVE Before(l[i].rule, l[j].rule)
  <2>1. ~Before(at(j), at(i)) /\ at(i) # at(j)
    BY <1>1, <1>3, <1>10, <1>17
  <2> QED BY <1>4, <1>10, <1>14, <2>1
<1>18. \A i \in 1..n : l[i].ip = ip /\ Rank(p, l[i].rule) = i - 1
  BY <1>10, <1>11, <1>14
<1> QED BY <1>13, <1>16, <1>17, <1>18 DEF l

----------------------------------------------------------------------------
(* The invariant.                                                           *)

\* The socket's invariant, which WorkerRpcProofs proves.
RpcInv == Rpc!TypeOK /\ Rpc!EndsAgree /\ Rpc!RunOnce

\* What the locals of a handler and of the restore task hold at each point.
LocalsOK ==
    /\ \A h \in Actor : hd[h].at \in {"send", "wait"} => hd[h].conn \in Conn
    /\ \A h \in Handler : hd[h].at # "idle" => hd[h].ip \in Ip
    /\ hd[Boot].at # "list"

Inv == RpcInv /\ TypeOK /\ LocalsOK

TablesOK ==
    /\ lastPeer \in 0..MaxPeer /\ lastRule \in 0..MaxRule
    /\ DOMAIN peers \subseteq 1..lastPeer /\ \A p \in DOMAIN peers : peers[p] \in Ip
    /\ DOMAIN rules \subseteq 1..lastRule
    /\ \A r \in DOMAIN rules : rules[r] \in Row /\ rules[r].peer \in DOMAIN peers
    /\ socket \in BOOLEAN

RulesetOK ==
    /\ nft \in {"none", "table", "chain"}
    /\ chain \in Seq(Entry) /\ (nft # "chain" => chain = <<>>)
    /\ wk \in Place

LEMMA Parts ==
    TypeOK <=> /\ Rpc!TypeOK /\ TablesOK /\ RulesetOK
               /\ hd \in [Actor -> Local] /\ drift \subseteq Ip
BY DEF TypeOK, TablesOK, RulesetOK

----------------------------------------------------------------------------
(* What the socket protocol keeps, it keeps here.                           *)

LEMMA SameInv == RpcInv <=> RpcProofs!IInv
BY DEF RpcInv, Rpc!TypeOK, Rpc!EndsAgree, Rpc!RunOnce, Rpc!Result, Rpc!ClientState,
       Rpc!WithWorker, Rpc!Queued,
       RpcProofs!IInv, RpcProofs!TypeOK, RpcProofs!EndsAgree, RpcProofs!RunOnce,
       RpcProofs!Result, RpcProofs!ClientState, RpcProofs!WithWorker, RpcProofs!Queued

LEMMA SameInit == Rpc!Init <=> RpcProofs!Init
BY DEF Rpc!Init, RpcProofs!Init

LEMMA SameNext == [Rpc!Next]_(Rpc!vars) <=> [RpcProofs!Next]_(RpcProofs!vars)
BY DEF Rpc!Next, Rpc!Client, Rpc!Connect, Rpc!Write, Rpc!Timeout, Rpc!Return,
       Rpc!Handle, Rpc!HandleRequest, Rpc!HandleEmpty, Rpc!Reply, Rpc!Accept,
       Rpc!ManagerCrash, Rpc!WorkerStart, Rpc!WorkerCrash, Rpc!vars, Rpc!Result,
       RpcProofs!Next, RpcProofs!Client, RpcProofs!Connect, RpcProofs!Write,
       RpcProofs!Timeout, RpcProofs!Return, RpcProofs!Handle,
       RpcProofs!HandleRequest, RpcProofs!HandleEmpty, RpcProofs!Reply,
       RpcProofs!Accept, RpcProofs!ManagerCrash, RpcProofs!WorkerStart,
       RpcProofs!WorkerCrash, RpcProofs!vars, RpcProofs!Result

LEMMA RpcKeepsInv == RpcInv /\ [Rpc!Next]_(Rpc!vars) => RpcInv'
<1>1. RpcProofs!IInv /\ [RpcProofs!Next]_(RpcProofs!vars) => RpcProofs!IInv'
  BY RpcProofs!NextKeepsIInv, ConnAssumption, RequestAssumption
<1>2. (RpcInv <=> RpcProofs!IInv)'
  BY SameInv, PTL
<1> QED BY <1>1, <1>2, SameInv, SameNext

\* Every step is a step of the socket protocol, or leaves it alone.
LEMMA NextUsesRpc == Inv /\ [Next]_vars => [Rpc!Next]_(Rpc!vars)
<1> SUFFICES ASSUME Inv, [Next]_vars PROVE [Rpc!Next]_(Rpc!vars)
  OBVIOUS
<1>1. CASE UNCHANGED rpcVars
  BY <1>1 DEF rpcVars, Rpc!vars
<1>2. CASE \E h \in Actor : Call(h) \/ Receive(h) \/ GiveUp(h)
  <2>1. PICK h \in Actor : Call(h) \/ Receive(h) \/ GiveUp(h)
    BY <1>2
  <2>2. \E c \in Conn : Rpc!Client(c)
    BY <2>1 DEF Call, Receive, GiveUp, Inv, LocalsOK, Rpc!Client
  <2> QED BY <2>2 DEF Rpc!Next
<1>3. CASE \E h \in Actor : Send(h)
  <2>1. PICK h \in Actor : Send(h)
    BY <1>3
  <2>2. RequestOf(h) \in AclRequest
    BY <2>1 DEF RequestOf, AclRequest, Inv, TypeOK, Local
  <2>3. hd[h].conn \in Conn
    BY <2>1 DEF Send, Inv, LocalsOK
  <2> QED BY <2>1, <2>2, <2>3 DEF Send, Rpc!Client, Rpc!Next
<1>4. CASE Serve
  <2>1. CASE Finish
    <3>1. serving \in Conn
      BY <1>4 DEF Serve, Serves, Inv, RpcInv, Rpc!TypeOK
    <3> QED BY <2>1, <3>1 DEF Finish, Rpc!Handle, Rpc!Result, Rpc!Next
  <2>2. CASE ~Finish
    <3>1. UNCHANGED rpcVars
      BY <1>4, <2>2 DEF Serve, Start, Ensure, AddChain, Dump, Delete, EndDelete, Add,
                        WorkerStep
    <3> QED BY <1>1, <3>1
  <2> QED BY <2>1, <2>2
<1>5. CASE WorkerLoop
  BY <1>5 DEF WorkerLoop, Rpc!Next, Rpc!Handle
<1>6. CASE WorkerCrash \/ ManagerCrash \/ Reboot
  BY <1>6 DEF WorkerCrash, ManagerCrash, Reboot, Rpc!Next
<1>7. CASE \/ \E ip \in Ip : CreatePeer(ip)
           \/ \E p \in 1..lastPeer : RemovePeer(p)
           \/ \E h \in Handler : Begin(h)
           \/ \E h \in Actor : ReadSettings(h) \/ List(h) \/ CallFails(h)
           \/ Restore
           \/ SaveSettings
  <2>1. UNCHANGED rpcVars
    BY <1>7 DEF CreatePeer, RemovePeer, Begin, BeginAdd, BeginRemove, ReadSettings, List,
                CallFails, Restore, Snapshot, Scan, EndScan, SaveSettings
  <2> QED BY <1>1, <2>1
<1> QED BY <1>1, <1>2, <1>3, <1>4, <1>5, <1>6, <1>7 DEF Next, Continue, vars

----------------------------------------------------------------------------
(* The tables.                                                              *)

LEMMA ActorIs == Handler \subseteq Actor /\ Boot \in Actor /\ Boot \notin Handler
BY HandlerAssumption DEF Actor

\* Requests of administrators change the tables, what is marked and their own locals.
LEMMA TablesKept ==
    ASSUME Inv, Rpc!TypeOK', TablesOK', UNCHANGED <<nft, chain, wk>>,
           drift' \subseteq Ip,
           hd' \in [Actor -> Local], LocalsOK'
    PROVE  TypeOK' /\ LocalsOK'
<1>1. RulesetOK'
  BY Parts DEF Inv, RulesetOK
<1>2. (TypeOK <=> /\ Rpc!TypeOK /\ TablesOK /\ RulesetOK
                  /\ hd \in [Actor -> Local] /\ drift \subseteq Ip)'
  BY Parts, PTL
<1> QED BY <1>1, <1>2

LEMMA CreatePeerKeeps ==
    ASSUME Inv, Rpc!TypeOK', NEW ip \in Ip, CreatePeer(ip)
    PROVE  TypeOK' /\ LocalsOK'
<1>1. TablesOK /\ hd \in [Actor -> Local] /\ drift \subseteq Ip
  BY Parts DEF Inv
<1>2. lastPeer' = lastPeer + 1 /\ lastPeer' \in 0..MaxPeer
  BY <1>1, BoundAssumption DEF CreatePeer, TablesOK
<1>3. DOMAIN peers' = DOMAIN peers \cup {lastPeer'}
  BY DEF CreatePeer
<1>4. \A p \in DOMAIN peers' : peers'[p] \in Ip
  BY <1>1 DEF CreatePeer, TablesOK
<1>5. DOMAIN peers' \subseteq 1..lastPeer'
  BY <1>1, <1>2, <1>3 DEF TablesOK
<1>6. TablesOK'
  BY <1>1, <1>2, <1>3, <1>4, <1>5 DEF CreatePeer, TablesOK
<1> QED BY <1>1, <1>6, TablesKept DEF CreatePeer, Inv, LocalsOK

LEMMA RemovePeerKeeps ==
    ASSUME Inv, Rpc!TypeOK', NEW p, RemovePeer(p)
    PROVE  TypeOK' /\ LocalsOK'
<1>1. TablesOK /\ hd \in [Actor -> Local] /\ drift \subseteq Ip
  BY Parts DEF Inv
<1>2. /\ DOMAIN peers' = DOMAIN peers \ {p}
      /\ \A q \in DOMAIN peers' : peers'[q] = peers[q]
  BY DEF RemovePeer
<1>3. /\ DOMAIN rules' = DOMAIN rules \ RulesOf(p)
      /\ \A r \in DOMAIN rules' : rules'[r] = rules[r]
  BY DEF RemovePeer
<1>4. \A r \in DOMAIN rules' : rules[r].peer # p
  BY <1>3 DEF RulesOf
<1>5. TablesOK'
  BY <1>1, <1>2, <1>3, <1>4 DEF RemovePeer, TablesOK
<1>6. drift' \subseteq Ip
  BY <1>1 DEF RemovePeer, TablesOK
<1> QED BY <1>1, <1>5, <1>6, TablesKept DEF RemovePeer, Inv, LocalsOK

\* A request that goes on, or begins, with the locals l.
LEMMA OneMoves ==
    ASSUME hd \in [Actor -> Local], LocalsOK, NEW h \in Actor, NEW l \in Local,
           hd' = [hd EXCEPT ![h] = l],
           l.at \in {"send", "wait"} => l.conn \in Conn,
           l.at # "idle" /\ h # Boot => l.ip \in Ip,
           h = Boot => l.at # "list"
    PROVE  hd' \in [Actor -> Local] /\ LocalsOK'
<1>1. hd' \in [Actor -> Local] /\ hd'[h] = l /\ \A g \in Actor : g # h => hd'[g] = hd[g]
  OBVIOUS
<1> QED BY <1>1, ActorIs DEF LocalsOK

LEMMA IdleIs == Idle \in Local /\ Idle.at = "idle" /\ Idle.add = <<>> /\ Idle.conn = NoConn
<1>1. <<>> \in Seq(Entry)
  OBVIOUS
<1> QED BY <1>1 DEF Idle, Local

\* The locals of a request about peer p that has written to the table.
LEMMA BegunType ==
    ASSUME TablesOK, NEW p \in DOMAIN peers
    PROVE  LET l == [Idle EXCEPT !.at = "settings", !.peer = p, !.ip = peers[p]]
           IN  l \in Local /\ l.at = "settings" /\ l.ip \in Ip
<1>1. p \in Peer /\ peers[p] \in Ip
  BY BoundAssumption DEF TablesOK, Peer
<1> DEFINE l1 == [Idle EXCEPT !.at = "settings"]
           l2 == [l1 EXCEPT !.peer = p]
           l3 == [l2 EXCEPT !.ip = peers[p]]
<1>2. l1 \in Local /\ l1.at = "settings"
  BY IdleIs DEF Local
<1> HIDE DEF l1
<1>3. l2 \in Local /\ l2.at = "settings"
  BY <1>1, <1>2 DEF Local
<1> HIDE DEF l2
<1>4. l3 \in Local /\ l3.at = "settings" /\ l3.ip \in Ip
  BY <1>1, <1>3 DEF Local
<1> QED BY <1>4 DEF l1, l2

LEMMA BeginAddKeeps ==
    ASSUME Inv, Rpc!TypeOK', NEW h \in Handler, NEW p, NEW prio \in Priority,
           BeginAdd(h, p, prio)
    PROVE  TypeOK' /\ LocalsOK'
<1>1. TablesOK /\ hd \in [Actor -> Local] /\ drift \subseteq Ip /\ LocalsOK
  BY Parts DEF Inv
<1>2. p \in DOMAIN peers /\ peers[p] \in Ip /\ p \in Peer
  BY <1>1, BoundAssumption DEF BeginAdd, TablesOK, Peer
<1>3. /\ lastRule' = lastRule + 1 /\ lastRule' \in 0..MaxRule
      /\ UNCHANGED <<peers, lastPeer, socket, nft, chain, wk>>
  BY <1>1, BoundAssumption DEF BeginAdd, TablesOK
<1>4. /\ DOMAIN rules' = DOMAIN rules \cup {lastRule'}
      /\ \A r \in DOMAIN rules' :
            rules'[r] = [peer |-> p, prio |-> prio] \/ (r \in DOMAIN rules /\ rules'[r] = rules[r])
  BY DEF BeginAdd
<1>5. [peer |-> p, prio |-> prio] \in Row
  BY <1>2 DEF Row
<1>6. TablesOK'
  <2>1. \A r \in DOMAIN rules' : rules'[r] \in Row /\ rules'[r].peer \in DOMAIN peers
    BY <1>1, <1>2, <1>4, <1>5 DEF TablesOK
  <2>2. DOMAIN rules' \subseteq 1..lastRule'
    BY <1>1, <1>3, <1>4 DEF TablesOK
  <2> QED BY <1>1, <1>3, <2>1, <2>2 DEF TablesOK
<1>7. drift' \subseteq Ip
  BY <1>1, <1>2 DEF BeginAdd, Met
<1>8. hd' \in [Actor -> Local] /\ LocalsOK'
  <2>1. CASE UNCHANGED hd
    BY <1>1, <2>1 DEF LocalsOK
  <2>2. CASE hd' = [hd EXCEPT ![h] = [Idle EXCEPT !.at = "settings", !.peer = p, !.ip = peers[p]]]
    BY <1>1, <1>2, <2>2, BegunType, OneMoves, ActorIs
  <2> QED BY <2>1, <2>2 DEF BeginAdd
<1> QED BY <1>3, <1>6, <1>7, <1>8, TablesKept

LEMMA BeginRemoveKeeps ==
    ASSUME Inv, Rpc!TypeOK', NEW h \in Handler, NEW p, NEW r, BeginRemove(h, p, r)
    PROVE  TypeOK' /\ LocalsOK'
<1>1. TablesOK /\ hd \in [Actor -> Local] /\ drift \subseteq Ip /\ LocalsOK
  BY Parts DEF Inv
<1>2. /\ p \in DOMAIN peers /\ peers[p] \in Ip
      /\ UNCHANGED <<peers, lastPeer, lastRule, socket, nft, chain, wk>>
  BY <1>1 DEF BeginRemove, TablesOK
<1>3. /\ DOMAIN rules' = DOMAIN rules \ {r}
      /\ \A q \in DOMAIN rules' : rules'[q] = rules[q]
  BY DEF BeginRemove
<1>4. TablesOK'
  BY <1>1, <1>2, <1>3 DEF TablesOK
<1>5. drift' \subseteq Ip
  BY <1>1, <1>2 DEF BeginRemove, Met, TablesOK
<1>6. hd' \in [Actor -> Local] /\ LocalsOK'
  BY <1>1, <1>2, BegunType, OneMoves, ActorIs DEF BeginRemove
<1> QED BY <1>2, <1>4, <1>5, <1>6, TablesKept

----------------------------------------------------------------------------
(* The handlers and the restore task.                                       *)

\* A step that leaves the tables and the ruleset alone.
LEMMA HandlersKept ==
    ASSUME Inv, Rpc!TypeOK', UNCHANGED <<dbVars, socket, nft, chain, wk>>,
           drift' \subseteq Ip, hd' \in [Actor -> Local], LocalsOK'
    PROVE  TypeOK' /\ LocalsOK'
<1>1. TablesOK'
  BY Parts DEF Inv, TablesOK, dbVars
<1> QED BY <1>1, TablesKept

LEMMA RestartedType ==
    Restarted \in [Actor -> Local]
      /\ \A h \in Actor : Restarted[h].at = IF h = Boot THEN "settings" ELSE "idle"
<1>1. [Idle EXCEPT !.at = "settings"] \in Local /\ [Idle EXCEPT !.at = "settings"].at = "settings"
  BY IdleIs DEF Local
<1> QED BY <1>1, IdleIs DEF Restarted

LEMMA ScopeType ==
    ASSUME LocalsOK, NEW h \in Actor, hd[h].at # "idle"
    PROVE  Scope(h) \subseteq Ip
BY DEF LocalsOK, Scope, Actor

LEMMA ReadSettingsKeeps ==
    ASSUME Inv, Rpc!TypeOK', NEW h \in Actor, ReadSettings(h)
    PROVE  TypeOK' /\ LocalsOK'
<1>1. TablesOK /\ hd \in [Actor -> Local] /\ drift \subseteq Ip /\ LocalsOK
  BY Parts DEF Inv
<1>2. /\ hd[h].at = "settings" /\ hd[h] \in Local
      /\ h # Boot => hd[h].ip \in Ip
  BY <1>1 DEF ReadSettings, LocalsOK, Actor
<1> DEFINE l1 == [hd[h] EXCEPT !.at = IF h = Boot THEN "snapshot" ELSE "list"]
<1>3. hd' = [hd EXCEPT ![h] = l1] \/ hd' = [hd EXCEPT ![h] = Idle]
  BY <1>1 DEF ReadSettings
<1>4. /\ l1 \in Local /\ l1.ip = hd[h].ip
      /\ l1.at = IF h = Boot THEN "snapshot" ELSE "list"
  BY <1>2 DEF Local
<1> HIDE DEF l1
<1>5. hd' \in [Actor -> Local] /\ LocalsOK'
  BY <1>1, <1>2, <1>3, <1>4, IdleIs, OneMoves
<1>6. drift' \subseteq Ip
  BY <1>1, <1>2, ScopeType DEF ReadSettings
<1> QED BY <1>5, <1>6, HandlersKept DEF ReadSettings

LEMMA SaveSettingsKeeps ==
    ASSUME Inv, Rpc!TypeOK', SaveSettings
    PROVE  TypeOK' /\ LocalsOK'
<1>1. TablesOK /\ hd \in [Actor -> Local] /\ drift \subseteq Ip /\ LocalsOK
  BY Parts DEF Inv
<1>2. TablesOK'
  BY <1>1 DEF SaveSettings, TablesOK, dbVars
<1> QED BY <1>1, <1>2, TablesKept DEF SaveSettings, LocalsOK

LEMMA ListKeeps ==
    ASSUME Inv, Rpc!TypeOK', NEW h \in Actor, List(h)
    PROVE  TypeOK' /\ LocalsOK'
<1>1. TablesOK /\ hd \in [Actor -> Local] /\ drift \subseteq Ip /\ LocalsOK /\ TypeOK
  BY Parts DEF Inv
<1>2. hd[h].at = "list" /\ h \in Handler /\ hd[h].ip \in Ip /\ hd[h] \in Local
  BY <1>1 DEF List, LocalsOK, Actor
<1>3. Listed(hd[h].peer, hd[h].ip) \in Seq(Entry)
  BY <1>1, <1>2, ListedIsSorted
<1> DEFINE l1 == [hd[h] EXCEPT !.at = "call"]
           l2 == [l1 EXCEPT !.add = Listed(hd[h].peer, hd[h].ip)]
<1>4. l1 \in Local /\ l1.at = "call" /\ l1.ip = hd[h].ip
  BY <1>2 DEF Local
<1>5. hd' = [hd EXCEPT ![h] = l1] \/ hd' = [hd EXCEPT ![h] = l2]
  BY <1>1 DEF List
<1> HIDE DEF l1
<1>6. l2 \in Local /\ l2.at = "call" /\ l2.ip = hd[h].ip
  BY <1>3, <1>4 DEF Local
<1> HIDE DEF l2
<1>7. hd' \in [Actor -> Local] /\ LocalsOK'
  BY <1>1, <1>2, <1>4, <1>5, <1>6, OneMoves
<1>8. drift' \subseteq Ip
  BY <1>1, <1>2 DEF List
<1> QED BY <1>7, <1>8, HandlersKept DEF List

LEMMA SnapshotKeeps ==
    ASSUME Inv, Rpc!TypeOK', Snapshot
    PROVE  TypeOK' /\ LocalsOK'
<1>1. TablesOK /\ hd \in [Actor -> Local] /\ drift \subseteq Ip /\ LocalsOK
  BY Parts DEF Inv
<1>2. DOMAIN peers \subseteq Peer
  BY <1>1, BoundAssumption DEF TablesOK, Peer
<1> DEFINE l1 == [hd[Boot] EXCEPT !.at = "scan"]
           l2 == [l1 EXCEPT !.todo = DOMAIN peers]
<1>3. hd' = [hd EXCEPT ![Boot] = Idle] \/ hd' = [hd EXCEPT ![Boot] = l2]
  BY <1>1, ActorIs DEF Snapshot
<1>4. l1 \in Local /\ l1.at = "scan"
  BY <1>1, ActorIs DEF Local
<1> HIDE DEF l1
<1>5. l2 \in Local /\ l2.at = "scan"
  BY <1>2, <1>4 DEF Local
<1> HIDE DEF l2
<1>6. hd' \in [Actor -> Local] /\ LocalsOK'
  BY <1>1, <1>3, <1>5, IdleIs, ActorIs, OneMoves
<1> QED BY <1>1, <1>6, HandlersKept DEF Snapshot

LEMMA ScanKeeps ==
    ASSUME Inv, Rpc!TypeOK', Scan
    PROVE  TypeOK' /\ LocalsOK'
<1>1. TablesOK /\ hd \in [Actor -> Local] /\ drift \subseteq Ip /\ LocalsOK /\ TypeOK
  BY Parts DEF Inv
<1> DEFINE b == hd[Boot]
<1>2. b \in Local /\ b.at = "scan"
  BY <1>1, ActorIs DEF Scan
<1>3. PICK p \in b.todo :
         \/ /\ hd' = [hd EXCEPT ![Boot].todo = b.todo \ {p}]
            /\ drift' = drift \/ (p \in DOMAIN peers /\ drift' = drift \cup {peers[p]})
         \/ /\ p \in DOMAIN peers
            /\ hd' = [hd EXCEPT ![Boot].todo = b.todo \ {p},
                                ![Boot].add = b.add \o Listed(p, peers[p])]
            /\ drift' \subseteq drift
  BY <1>1, ActorIs DEF Scan
<1> DEFINE l1 == [b EXCEPT !.todo = b.todo \ {p}]
           l2 == [l1 EXCEPT !.add = b.add \o Listed(p, peers[p])]
<1>4. \/ hd' = [hd EXCEPT ![Boot] = l1]
      \/ p \in DOMAIN peers /\ hd' = [hd EXCEPT ![Boot] = l2]
  BY <1>1, <1>3, ActorIs
<1>5. l1 \in Local /\ l1.at = "scan"
  BY <1>2 DEF Local
<1>6. p \in DOMAIN peers => b.add \o Listed(p, peers[p]) \in Seq(Entry)
  <2> SUFFICES ASSUME p \in DOMAIN peers PROVE b.add \o Listed(p, peers[p]) \in Seq(Entry)
    OBVIOUS
  <2>1. Listed(p, peers[p]) \in Seq(Entry)
    BY <1>1, ListedIsSorted DEF TablesOK
  <2>2. b.add \in Seq(Entry)
    BY <1>2 DEF Local
  <2> QED BY <2>1, <2>2, ConcatProperties
<1> HIDE DEF l1, b
<1>7. p \in DOMAIN peers => l2 \in Local /\ l2.at = "scan"
  BY <1>5, <1>6 DEF Local
<1> HIDE DEF l2
<1>8. hd' \in [Actor -> Local] /\ LocalsOK'
  BY <1>1, <1>4, <1>5, <1>7, ActorIs, OneMoves
<1>9. drift' \subseteq Ip
  BY <1>1, <1>3 DEF TablesOK
<1> QED BY <1>8, <1>9, HandlersKept DEF Scan

LEMMA EndScanKeeps ==
    ASSUME Inv, Rpc!TypeOK', EndScan
    PROVE  TypeOK' /\ LocalsOK'
<1>1. TablesOK /\ hd \in [Actor -> Local] /\ drift \subseteq Ip /\ LocalsOK
  BY Parts DEF Inv
<1> DEFINE l == [hd[Boot] EXCEPT !.at = "call"]
<1>2. hd' = [hd EXCEPT ![Boot] = Idle] \/ hd' = [hd EXCEPT ![Boot] = l]
  BY <1>1, ActorIs DEF EndScan
<1>3. l \in Local /\ l.at = "call"
  BY <1>1, ActorIs DEF Local
<1> HIDE DEF l
<1>4. hd' \in [Actor -> Local] /\ LocalsOK'
  BY <1>1, <1>2, <1>3, IdleIs, ActorIs, OneMoves
<1> QED BY <1>1, <1>4, HandlersKept DEF EndScan

LEMMA CallKeeps ==
    ASSUME Inv, Rpc!TypeOK', NEW h \in Actor, Call(h) \/ Send(h)
    PROVE  TypeOK' /\ LocalsOK'
<1>1. TablesOK /\ hd \in [Actor -> Local] /\ drift \subseteq Ip /\ LocalsOK
  BY Parts DEF Inv
<1>2. hd[h] \in Local /\ (h # Boot /\ hd[h].at # "idle" => hd[h].ip \in Ip)
  BY <1>1 DEF LocalsOK, Actor
<1>3. CASE Call(h)
  <2>1. PICK c \in Conn : hd' = [hd EXCEPT ![h].at = "send", ![h].conn = c]
    BY <1>3 DEF Call
  <2> DEFINE l1 == [hd[h] EXCEPT !.at = "send"]
             l2 == [l1 EXCEPT !.conn = c]
  <2>2. hd' = [hd EXCEPT ![h] = l2]
    BY <1>1, <2>1
  <2>3. l1 \in Local /\ l1.at = "send" /\ l1.ip = hd[h].ip
    BY <1>2 DEF Local
  <2> HIDE DEF l1
  <2>4. l2 \in Local /\ l2.at = "send" /\ l2.ip = hd[h].ip /\ l2.conn \in Conn
    BY <2>3 DEF Local
  <2> HIDE DEF l2
  <2>5. hd' \in [Actor -> Local] /\ LocalsOK'
    BY <1>1, <1>2, <1>3, <2>2, <2>4, OneMoves DEF Call
  <2> QED BY <1>1, <1>3, <2>5, HandlersKept DEF Call
<1>4. CASE Send(h)
  <2> DEFINE l == [hd[h] EXCEPT !.at = "wait"]
  <2>1. hd' = [hd EXCEPT ![h] = l]
    BY <1>1, <1>4 DEF Send
  <2>2. l \in Local /\ l.at = "wait" /\ l.ip = hd[h].ip /\ l.conn = hd[h].conn
    BY <1>2 DEF Local
  <2>3. hd[h].conn \in Conn
    BY <1>1, <1>4 DEF Send, LocalsOK
  <2> HIDE DEF l
  <2>4. hd' \in [Actor -> Local] /\ LocalsOK'
    BY <1>1, <1>2, <1>4, <2>1, <2>2, <2>3, OneMoves DEF Send
  <2> QED BY <1>1, <1>4, <2>4, HandlersKept DEF Send
<1> QED BY <1>3, <1>4

LEMMA ReturnKeeps ==
    ASSUME Inv, Rpc!TypeOK', NEW h \in Actor, CallFails(h) \/ Receive(h) \/ GiveUp(h)
    PROVE  TypeOK' /\ LocalsOK'
<1>1. TablesOK /\ hd \in [Actor -> Local] /\ drift \subseteq Ip /\ LocalsOK
  BY Parts DEF Inv
<1>2. /\ hd' = [hd EXCEPT ![h] = Idle]
      /\ drift' = drift \/ drift' = drift \cup Scope(h)
      /\ hd[h].at # "idle"
      /\ UNCHANGED <<dbVars, socket, nft, chain, wk>>
  BY DEF CallFails, Receive, GiveUp, CallReturned
<1>3. hd' \in [Actor -> Local] /\ LocalsOK'
  BY <1>1, <1>2, IdleIs, OneMoves
<1>4. drift' \subseteq Ip
  BY <1>1, <1>2, ScopeType
<1> QED BY <1>2, <1>3, <1>4, HandlersKept

LEMMA RestartKeeps ==
    ASSUME Inv, Rpc!TypeOK', ManagerCrash \/ Reboot
    PROVE  TypeOK' /\ LocalsOK'
<1>1. TablesOK /\ RulesetOK /\ drift \subseteq Ip /\ LocalsOK
  BY Parts DEF Inv
<1>2. hd' = Restarted /\ UNCHANGED <<dbVars, socket>>
  BY DEF ManagerCrash, Reboot
<1>3. hd' \in [Actor -> Local] /\ LocalsOK'
  BY <1>2, RestartedType, ActorIs DEF LocalsOK
<1>4. drift' \subseteq Ip
  <2>1. CASE ManagerCrash
    <3>1. \A h \in Interrupted : Scope(h) \subseteq Ip
      BY <1>1, ScopeType DEF Interrupted
    <3> QED BY <1>1, <2>1, <3>1 DEF ManagerCrash
  <2>2. CASE Reboot
    BY <1>1, <2>2 DEF Reboot, TablesOK
  <2> QED BY <2>1, <2>2
<1>5. RulesetOK'
  <2>1. CASE ManagerCrash
    BY <1>1, <2>1 DEF ManagerCrash, RulesetOK
  <2>2. CASE Reboot
    BY <1>1, <2>2 DEF Reboot, RulesetOK
  <2> QED BY <2>1, <2>2
<1>6. TablesOK'
  BY <1>1, <1>2 DEF TablesOK, dbVars
<1>7. (TypeOK <=> /\ Rpc!TypeOK /\ TablesOK /\ RulesetOK
                  /\ hd \in [Actor -> Local] /\ drift \subseteq Ip)'
  BY Parts, PTL
<1> QED BY <1>3, <1>4, <1>5, <1>6, <1>7

----------------------------------------------------------------------------
(* The worker.                                                              *)

LEMMA RestingType == Resting \in Place
BY DEF Resting, Place

\* A step that changes the worker's place, the ruleset and what is marked.
LEMMA WorkerKept ==
    ASSUME Inv, Rpc!TypeOK', UNCHANGED <<dbVars, socket, hd>>, RulesetOK', drift' \subseteq Ip
    PROVE  TypeOK' /\ LocalsOK'
<1>1. TablesOK' /\ hd' \in [Actor -> Local] /\ LocalsOK'
  BY Parts DEF Inv, TablesOK, LocalsOK, dbVars
<1>2. (TypeOK <=> /\ Rpc!TypeOK /\ TablesOK /\ RulesetOK
                  /\ hd \in [Actor -> Local] /\ drift \subseteq Ip)'
  BY Parts, PTL
<1> QED BY <1>1, <1>2

LEMMA ServeKeeps ==
    ASSUME Inv, Rpc!TypeOK', Serve
    PROVE  TypeOK' /\ LocalsOK'
<1>1. RulesetOK /\ drift \subseteq Ip
  BY Parts DEF Inv
<1>2. Ask \in AclRequest
  BY DEF Serve, Serves, Ask, Inv, RpcInv, Rpc!TypeOK
<1>3. Ask.add \in Seq(Entry) /\ wk \in Place /\ chain \in Seq(Entry)
      /\ (nft # "chain" => chain = <<>>) /\ nft \in {"none", "table", "chain"}
  BY <1>1, <1>2 DEF AclRequest, RulesetOK
<1>4. Failed \in Place /\ Ensured \in Place
  BY <1>3 DEF Failed, Ensured, Place
<1>5. CASE Start
  <2> DEFINE w1 == [wk EXCEPT !.at = "ensure"]
             w2 == [w1 EXCEPT !.left = Ask.add]
  <2>1. w1 \in Place
    BY <1>3 DEF Place
  <2>2. wk' = w2 /\ UNCHANGED <<dbVars, socket, hd, nft>>
    BY <1>5 DEF Start, WorkerStep
  <2> HIDE DEF w1
  <2>3. w2 \in Place
    BY <1>3, <2>1 DEF Place
  <2>4. drift' \subseteq Ip /\ (chain' = chain \/ chain' = <<>>)
    BY <1>1, <1>5 DEF Start
  <2>5. wk' \in Place /\ nft' = nft
    BY <2>2, <2>3
  <2>6. chain' \in Seq(Entry) /\ (nft # "chain" => chain' = <<>>)
    <3>1. <<>> \in Seq(Entry)
      OBVIOUS
    <3> QED BY <1>3, <2>4, <3>1
  <2>7. RulesetOK'
    BY <1>3, <2>5, <2>6 DEF RulesetOK
  <2> QED BY <2>2, <2>4, <2>7, WorkerKept
<1>6. CASE Ensure
  <2>1. [wk EXCEPT !.at = "chain"] \in Place
    BY <1>3 DEF Place
  <2>2. RulesetOK'
    BY <1>3, <1>4, <1>6, <2>1 DEF Ensure, WorkerStep, RulesetOK
  <2> QED BY <1>1, <1>6, <2>2, WorkerKept DEF Ensure, WorkerStep
<1>7. CASE AddChain
  <2>1. RulesetOK'
    BY <1>3, <1>4, <1>7 DEF AddChain, WorkerStep, RulesetOK
  <2> QED BY <1>1, <1>7, <2>1, WorkerKept DEF AddChain, WorkerStep
<1>8. CASE Dump
  <2>1. [wk EXCEPT !.at = "delete"] \in Place
    BY <1>3 DEF Place
  <2>2. RulesetOK'
    BY <1>3, <1>4, <1>8, <2>1 DEF Dump, WorkerStep, RulesetOK
  <2> QED BY <1>1, <1>8, <2>2, WorkerKept DEF Dump, WorkerStep
<1>9. CASE Delete
  <2>1. wk.pos \in 1..Len(chain)
    BY <1>3, <1>9 DEF Delete, Place
  <2>2. [wk EXCEPT !.pos = wk.pos + 1] \in Place
    BY <1>3 DEF Place
  <2>3. chain[wk.pos] \in Entry
    BY <1>3, <2>1, ElementOfSeq
  <2>4. Without(wk.pos) \in Seq(Entry) /\ (chain = <<>> => FALSE)
    <3>1. /\ Len(chain) \in Nat
          /\ \A i \in 1..Len(chain) : chain[i] \in Entry
      BY <1>3, LenProperties, ElementOfSeq
    <3>2. SubSeq(chain, 1, wk.pos - 1) \in Seq(Entry)
      BY <2>1, <3>1, SubSeqProperties
    <3>3. SubSeq(chain, wk.pos + 1, Len(chain)) \in Seq(Entry)
      BY <2>1, <3>1, SubSeqProperties
    <3> QED BY <2>1, <3>2, <3>3, ConcatProperties DEF Without
  <2>5. /\ wk' \in Place
        /\ chain' = chain \/ chain' = Without(wk.pos)
        /\ drift' = drift \/ drift' = drift \cup {chain[wk.pos].ip}
        /\ UNCHANGED <<dbVars, socket, hd, nft>>
    BY <1>3, <1>9, <2>2 DEF Delete, WorkerStep
  <2>6. RulesetOK'
    BY <1>3, <2>4, <2>5 DEF RulesetOK
  <2>7. drift' \subseteq Ip
    BY <1>1, <2>3, <2>5 DEF Entry
  <2> QED BY <2>5, <2>6, <2>7, WorkerKept
<1>10. CASE EndDelete
  <2>1. [wk EXCEPT !.at = "add"] \in Place
    BY <1>3 DEF Place
  <2>2. RulesetOK'
    BY <1>3, <1>10, <2>1 DEF EndDelete, WorkerStep, RulesetOK
  <2> QED BY <1>1, <1>10, <2>2, WorkerKept DEF EndDelete, WorkerStep
<1>11. CASE Add
  <2> DEFINE rest == [wk EXCEPT !.left = Tail(wk.left)]
  <2>1. wk.left \in Seq(Entry) /\ wk.left # <<>>
    BY <1>3, <1>11 DEF Add, Place
  <2>2. Head(wk.left) \in Entry /\ Tail(wk.left) \in Seq(Entry)
    BY <2>1, HeadTailProperties
  <2>3. rest \in Place
    BY <1>3, <2>2 DEF Place
  <2>4. \/ nft = "chain" /\ wk' = rest /\ chain' = Append(chain, Head(wk.left))
        \/ wk' \in {Failed, [rest EXCEPT !.bad = TRUE]} /\ chain' = chain
    BY <1>3, <1>11 DEF Add, WorkerStep, Place
  <2> HIDE DEF rest
  <2>5. [rest EXCEPT !.bad = TRUE] \in Place
    BY <2>3 DEF Place
  <2>6. Append(chain, Head(wk.left)) \in Seq(Entry)
    BY <1>3, <2>2
  <2>7. UNCHANGED <<dbVars, socket, hd, nft, drift>>
    BY <1>11 DEF Add, WorkerStep
  <2>8. RulesetOK'
    BY <1>3, <1>4, <2>3, <2>4, <2>5, <2>6, <2>7 DEF RulesetOK
  <2> QED BY <1>1, <2>7, <2>8, WorkerKept
<1>12. CASE Finish
  <2>1. RulesetOK'
    BY <1>1, <1>12, RestingType DEF Finish, RulesetOK
  <2> QED BY <1>1, <1>12, <2>1, WorkerKept DEF Finish
<1> QED
  BY <1>5, <1>6, <1>7, <1>8, <1>9, <1>10, <1>11, <1>12 DEF Serve

LEMMA LoopKeeps ==
    ASSUME Inv, Rpc!TypeOK', WorkerLoop \/ WorkerCrash
    PROVE  TypeOK' /\ LocalsOK'
<1>1. RulesetOK /\ drift \subseteq Ip
  BY Parts DEF Inv
<1>2. RulesetOK'
  BY <1>1, RestingType DEF WorkerLoop, WorkerCrash, RulesetOK
<1> QED BY <1>1, <1>2, WorkerKept DEF WorkerLoop, WorkerCrash

----------------------------------------------------------------------------
(* The theorems.                                                            *)

LEMMA InitInv == Init => Inv
<1> SUFFICES ASSUME Init PROVE Inv
  OBVIOUS
<1>1. RpcInv
  BY SameInit, SameInv, RpcProofs!InitIInv, ConnAssumption, RequestAssumption DEF Init
<1>2. TablesOK
  BY BoundAssumption, OptionAssumption DEF Init, TablesOK
<1>3. RulesetOK
  BY RestingType DEF Init, RulesetOK
<1>4. hd \in [Actor -> Local] /\ LocalsOK
  BY RestartedType, ActorIs DEF Init, LocalsOK
<1> QED BY <1>1, <1>2, <1>3, <1>4, Parts DEF Init, Inv, RpcInv

LEMMA NextInv == Inv /\ [Next]_vars => Inv'
<1> SUFFICES ASSUME Inv, [Next]_vars PROVE Inv'
  OBVIOUS
<1>1. RpcInv'
  BY NextUsesRpc, RpcKeepsInv DEF Inv
<1>2. Rpc!TypeOK'
  BY <1>1 DEF RpcInv
<1>3. TypeOK' /\ LocalsOK'
  <2>1. CASE UNCHANGED vars
    <3>1. UNCHANGED <<dbVars, socket, hd, nft, chain, wk, drift>>
      BY <2>1 DEF vars
    <3>2. drift' \subseteq Ip /\ RulesetOK'
      BY <3>1, Parts DEF Inv, RulesetOK
    <3> QED BY <1>2, <3>1, <3>2, WorkerKept
  <2>2. ASSUME NEW ip \in Ip, CreatePeer(ip) PROVE TypeOK' /\ LocalsOK'
    BY <1>2, <2>2, CreatePeerKeeps
  <2>3. ASSUME NEW p \in 1..lastPeer, RemovePeer(p) PROVE TypeOK' /\ LocalsOK'
    BY <1>2, <2>3, RemovePeerKeeps
  <2>4. ASSUME NEW h \in Handler, Begin(h) PROVE TypeOK' /\ LocalsOK'
    BY <1>2, <2>4, BeginAddKeeps, BeginRemoveKeeps DEF Begin
  <2>5. ASSUME NEW h \in Actor, Continue(h) \/ GiveUp(h) PROVE TypeOK' /\ LocalsOK'
    BY <1>2, <2>5, ReadSettingsKeeps, ListKeeps, CallKeeps, ReturnKeeps DEF Continue
  <2>6. CASE Restore
    BY <1>2, <2>6, SnapshotKeeps, ScanKeeps, EndScanKeeps DEF Restore
  <2>7. CASE Serve \/ WorkerLoop \/ WorkerCrash
    BY <1>2, <2>7, ServeKeeps, LoopKeeps
  <2>8. CASE ManagerCrash \/ Reboot
    BY <1>2, <2>8, RestartKeeps
  <2>9. CASE SaveSettings
    BY <1>2, <2>9, SaveSettingsKeeps
  <2> QED BY <2>1, <2>2, <2>3, <2>4, <2>5, <2>6, <2>7, <2>8, <2>9 DEF Next
<1> QED BY <1>1, <1>3 DEF Inv

THEOREM Invariance == Spec => []Inv
BY InitInv, NextInv, PTL DEF Spec

\* Tables, ruleset and locals keep their types: no rule without its peer, no rule in a
\* chain that is not there.
THEOREM TypeCorrect == Spec => []TypeOK
<1>1. Inv => TypeOK
  BY DEF Inv
<1> QED BY <1>1, Invariance, PTL

\* The calls of the handlers and of the restore task, the worker's nft commands and
\* the crashes of both processes make up a behaviour of the socket protocol.
THEOREM UsesRpc == Spec => Rpc!Spec
<1>1. Init => Rpc!Init
  BY DEF Init
<1> QED BY <1>1, Invariance, NextUsesRpc, PTL DEF Spec, Rpc!Spec
----------------------------------------------------------------------------
(* A rewriting is about one address.                                        *)

Own(list, ip) == \A k \in DOMAIN list : list[k].ip = ip

\* What a handler asks for, what a request carries and what the worker has left to add
\* is about one address; between two requests the worker has nothing left of the last.
HandlersOwn == \A h \in Handler : Own(hd[h].add, hd[h].ip)

RequestsOwn ==
    \A c \in Conn : req[c] # NoRequest =>
        (~req[c].reload => req[c].ip \in Ip /\ Own(req[c].add, req[c].ip))

WorkerOwn ==
    /\ ~Serves => wk = Resting
    /\ Serves => (~Ask.reload => Ask.ip \in Ip /\ Own(wk.left, Ask.ip))

OwnInv == Inv /\ HandlersOwn /\ RequestsOwn /\ WorkerOwn

LEMMA NoneOwn == \A ip : Own(<<>>, ip)
BY DEF Own

LEMMA OwnMoves ==
    ASSUME HandlersOwn, hd \in [Actor -> Local], NEW h \in Actor, NEW l,
           h \in Handler => Own(l.add, l.ip), hd' = [hd EXCEPT ![h] = l]
    PROVE  HandlersOwn'
<1>1. \A g \in Handler : hd'[g] = hd[g] \/ (g = h /\ hd'[g] = l)
  BY ActorIs
<1> QED BY <1>1 DEF HandlersOwn

LEMMA HandlersStayOwn == Inv /\ HandlersOwn /\ [Next]_vars => HandlersOwn'
<1> SUFFICES ASSUME Inv, HandlersOwn, [Next]_vars PROVE HandlersOwn'
  OBVIOUS
<1>1. hd \in [Actor -> Local] /\ Idle \in Local /\ Own(Idle.add, Idle.ip)
  BY Parts, IdleIs, NoneOwn DEF Inv
<1>2. CASE UNCHANGED hd
  BY <1>2 DEF HandlersOwn
<1>3. ASSUME NEW h \in Handler, NEW p, hd' = [hd EXCEPT ![h] = [Idle EXCEPT !.at = "settings", !.peer = p, !.ip = peers[p]]]
      PROVE  HandlersOwn'
  <2> DEFINE l == [Idle EXCEPT !.at = "settings", !.peer = p, !.ip = peers[p]]
  <2>1. l.add = <<>>
    BY DEF Idle
  <2>2. Own(l.add, l.ip)
    BY <2>1, NoneOwn
  <2> HIDE DEF l
  <2> QED BY <1>1, <1>3, <2>2, OwnMoves, ActorIs DEF l
<1>4. ASSUME NEW h \in Actor, hd' = [hd EXCEPT ![h] = Idle] PROVE HandlersOwn'
  BY <1>1, <1>4, OwnMoves
<1>5. ASSUME NEW h \in Handler, Begin(h) PROVE HandlersOwn'
  <2>1. CASE \E p \in 1..lastPeer, prio \in Priority : BeginAdd(h, p, prio)
    BY <1>2, <1>3, <2>1 DEF BeginAdd
  <2>2. CASE \E p \in 1..lastPeer, r \in 1..lastRule : BeginRemove(h, p, r)
    BY <1>3, <2>2 DEF BeginRemove
  <2> QED BY <1>5, <2>1, <2>2 DEF Begin
<1>13. ASSUME NEW h \in Actor, ReadSettings(h) PROVE HandlersOwn'
  <2> DEFINE l == [hd[h] EXCEPT !.at = IF h = Boot THEN "snapshot" ELSE "list"]
  <2>1. hd' = [hd EXCEPT ![h] = l] \/ hd' = [hd EXCEPT ![h] = Idle]
    BY <1>1, <1>13 DEF ReadSettings
  <2>2. l.add = hd[h].add /\ l.ip = hd[h].ip
    BY <1>1 DEF Local
  <2>3. h \in Handler => Own(l.add, l.ip)
    BY <2>2 DEF HandlersOwn
  <2> HIDE DEF l
  <2> QED BY <1>1, <1>4, <2>1, <2>3, OwnMoves
<1>6. ASSUME NEW h \in Actor, List(h) PROVE HandlersOwn'
  <2> DEFINE l1 == [hd[h] EXCEPT !.at = "call"]
             l2 == [l1 EXCEPT !.add = Listed(hd[h].peer, hd[h].ip)]
  <2>1. hd' = [hd EXCEPT ![h] = l1] \/ hd' = [hd EXCEPT ![h] = l2]
    BY <1>1, <1>6 DEF List
  <2>2. /\ l1.add = hd[h].add /\ l1.ip = hd[h].ip
        /\ l2.add = Listed(hd[h].peer, hd[h].ip) /\ l2.ip = hd[h].ip
    BY <1>1 DEF Local
  <2>3. Own(Listed(hd[h].peer, hd[h].ip), hd[h].ip)
    BY DEF Own, Listed
  <2>4. h \in Handler => Own(l1.add, l1.ip) /\ Own(l2.add, l2.ip)
    BY <2>2, <2>3 DEF HandlersOwn
  <2> HIDE DEF l1, l2
  <2> QED BY <1>1, <2>1, <2>4, OwnMoves
<1>7. ASSUME NEW h \in Actor, Call(h) \/ Send(h) PROVE HandlersOwn'
  <2> DEFINE l1 == [hd[h] EXCEPT !.at = "send"]
             l3 == [hd[h] EXCEPT !.at = "wait"]
  <2>1. PICK c : hd' = [hd EXCEPT ![h] = [l1 EXCEPT !.conn = c]] \/ hd' = [hd EXCEPT ![h] = l3]
    BY <1>1, <1>7 DEF Call, Send
  <2> DEFINE l2 == [l1 EXCEPT !.conn = c]
  <2>2. l1.add = hd[h].add /\ l1.ip = hd[h].ip /\ l3.add = hd[h].add /\ l3.ip = hd[h].ip
    BY <1>1 DEF Local
  <2>3. l2.add = l1.add /\ l2.ip = l1.ip
    BY <1>1 DEF Local
  <2>4. h \in Handler => Own(l2.add, l2.ip) /\ Own(l3.add, l3.ip)
    BY <2>2, <2>3 DEF HandlersOwn
  <2>5. hd' = [hd EXCEPT ![h] = l2] \/ hd' = [hd EXCEPT ![h] = l3]
    BY <2>1
  <2> HIDE DEF l1, l2, l3
  <2> QED BY <1>1, <2>4, <2>5, OwnMoves
<1>8. ASSUME NEW h \in Actor, CallFails(h) \/ Receive(h) \/ GiveUp(h) PROVE HandlersOwn'
  BY <1>4, <1>8 DEF CallFails, Receive, GiveUp, CallReturned
<1>9. CASE Restore
  <2>1. \A g \in Handler : hd'[g] = hd[g]
    BY <1>1, <1>9, ActorIs DEF Restore, Snapshot, Scan, EndScan
  <2> QED BY <2>1 DEF HandlersOwn
<1>10. CASE ManagerCrash \/ Reboot
  <2>1. \A g \in Handler : hd'[g] = Idle
    BY <1>10, ActorIs DEF ManagerCrash, Reboot, Restarted
  <2> QED BY <1>1, <2>1 DEF HandlersOwn
<1>11. CASE \/ \E ip \in Ip : CreatePeer(ip)
            \/ \E p \in 1..lastPeer : RemovePeer(p)
            \/ Serve \/ WorkerLoop \/ WorkerCrash \/ SaveSettings
  <2>1. UNCHANGED hd
    BY <1>11 DEF SaveSettings, CreatePeer, RemovePeer, Serve, Start, Ensure, AddChain, Dump, Delete,
                 EndDelete, Add, Finish, WorkerStep, WorkerLoop, WorkerCrash
  <2> QED BY <1>2, <2>1
<1>12. CASE UNCHANGED vars
  BY <1>2, <1>12 DEF vars
<1> QED
  BY <1>5, <1>6, <1>7, <1>8, <1>9, <1>10, <1>11, <1>12, <1>13 DEF Next, Continue

\* A request is written once, and stays with its connection until that is free.
LEMMA RequestsStayOwn ==
    Inv /\ HandlersOwn /\ RequestsOwn /\ [Next]_vars => RequestsOwn'
<1> SUFFICES ASSUME Inv, HandlersOwn, RequestsOwn, [Next]_vars PROVE RequestsOwn'
  OBVIOUS
<1>1. req \in [Conn -> AclRequest \cup {NoRequest}] /\ LocalsOK
  BY DEF Inv, RpcInv, Rpc!TypeOK
<1>2. CASE \A c \in Conn : req'[c] \in {req[c], NoRequest}
  BY <1>2 DEF RequestsOwn
<1>3. ASSUME NEW h \in Actor, Send(h) PROVE RequestsOwn'
  <2>1. req' = [req EXCEPT ![hd[h].conn] = RequestOf(h)]
    BY <1>3 DEF Send, Rpc!Write
  <2>2. ~RequestOf(h).reload =>
            RequestOf(h).ip \in Ip /\ Own(RequestOf(h).add, RequestOf(h).ip)
    BY <1>1, <1>3 DEF RequestOf, Actor, HandlersOwn, LocalsOK, Send
  <2>3. \A c \in Conn : req'[c] = req[c] \/ req'[c] = RequestOf(h)
    BY <1>1, <2>1
  <2> QED BY <2>2, <2>3 DEF RequestsOwn
<1>4. CASE \E h \in Actor : Call(h) \/ Receive(h) \/ GiveUp(h)
  <2>1. \A c \in Conn : req'[c] \in {req[c], NoRequest}
    BY <1>1, <1>4 DEF Call, Receive, GiveUp, Rpc!Connect, Rpc!Return, Rpc!Timeout
  <2> QED BY <1>2, <2>1
<1>5. CASE Serve \/ WorkerLoop \/ WorkerCrash \/ ManagerCrash \/ Reboot
  <2>1. \A c \in Conn : req'[c] \in {req[c], NoRequest}
    BY <1>1, <1>5
       DEF Serve, Start, Ensure, AddChain, Dump, Delete, EndDelete, Add, Finish, WorkerStep,
           WorkerLoop, WorkerCrash, ManagerCrash, Reboot, rpcVars,
           Rpc!HandleRequest, Rpc!HandleEmpty, Rpc!Reply, Rpc!Accept, Rpc!WorkerStart,
           Rpc!WorkerCrash, Rpc!ManagerCrash
  <2> QED BY <1>2, <2>1
<1>6. CASE \/ \E ip \in Ip : CreatePeer(ip)
           \/ \E p \in 1..lastPeer : RemovePeer(p)
           \/ \E h \in Handler : Begin(h)
           \/ \E h \in Actor : ReadSettings(h) \/ List(h) \/ CallFails(h)
           \/ Restore \/ SaveSettings
           \/ UNCHANGED vars
  <2>1. UNCHANGED req
    BY <1>6 DEF CreatePeer, RemovePeer, Begin, BeginAdd, BeginRemove, ReadSettings, List,
                CallFails, Restore, Snapshot, Scan, EndScan, SaveSettings, vars, rpcVars
  <2> QED BY <1>2, <2>1
<1> QED BY <1>3, <1>4, <1>5, <1>6 DEF Next, Continue

\* While the worker runs a request nobody else touches it.
LEMMA ServedStays ==
    ASSUME Inv, Serves, [Next]_vars, ~Finish, ~WorkerCrash
    PROVE  Serves' /\ Ask' = Ask
<1>1. /\ serving \in Conn /\ result = "none" /\ req[serving] # NoRequest
      /\ req \in [Conn -> AclRequest \cup {NoRequest}] /\ NoConn \notin Conn
  BY ConnAssumption DEF Serves, Ask, Inv, RpcInv, Rpc!TypeOK
<1>2. cli[serving] \in {"sent", "gone"} /\ up
  BY <1>1 DEF Inv, RpcInv, Rpc!EndsAgree, Rpc!WithWorker
<1> SUFFICES serving' = serving /\ result' = result /\ req'[serving] = req[serving]
  BY <1>1 DEF Serves, Ask
<1>3. ASSUME NEW h \in Actor, Call(h) \/ Send(h) \/ Receive(h) \/ GiveUp(h)
      PROVE  serving' = serving /\ result' = result /\ req'[serving] = req[serving]
  BY <1>1, <1>2, <1>3 DEF Call, Send, Receive, GiveUp, Rpc!Connect, Rpc!Write, Rpc!Return,
                          Rpc!Timeout, Rpc!Result
<1>4. CASE WorkerLoop
  BY <1>1, <1>2, <1>4 DEF WorkerLoop, Rpc!Accept, Rpc!HandleEmpty, Rpc!Reply, Rpc!WorkerStart
<1>5. CASE ManagerCrash \/ Reboot
  BY <1>1, <1>2, <1>5 DEF ManagerCrash, Reboot, Rpc!ManagerCrash, Rpc!Result
<1>6. CASE Serve
  BY <1>6 DEF Serve, Start, Ensure, AddChain, Dump, Delete, EndDelete, Add, WorkerStep, rpcVars
<1>7. CASE \/ \E ip \in Ip : CreatePeer(ip)
           \/ \E p \in 1..lastPeer : RemovePeer(p)
           \/ \E h \in Handler : Begin(h)
           \/ \E h \in Actor : ReadSettings(h) \/ List(h) \/ CallFails(h)
           \/ Restore \/ SaveSettings
           \/ UNCHANGED vars
  BY <1>7 DEF CreatePeer, RemovePeer, Begin, BeginAdd, BeginRemove, ReadSettings, List,
              CallFails, Restore, Snapshot, Scan, EndScan, SaveSettings, vars, rpcVars
<1> QED BY <1>3, <1>4, <1>5, <1>6, <1>7 DEF Next, Continue


LEMMA TailOwn ==
    ASSUME NEW list \in Seq(Entry), list # <<>>, NEW ip, Own(list, ip)
    PROVE  Own(Tail(list), ip) /\ Head(list).ip = ip
<1>1. /\ Len(list) \in Nat \ {0} /\ DOMAIN list = 1..Len(list)
      /\ DOMAIN Tail(list) = 1..Len(list) - 1
      /\ \A k \in 1..Len(list) - 1 : Tail(list)[k] = list[k + 1]
      /\ Head(list) = list[1]
  BY EmptySeq, LenProperties, HeadTailProperties
<1> QED BY <1>1 DEF Own

LEMMA WorkerStaysOwn == OwnInv /\ [Next]_vars => WorkerOwn'
<1> SUFFICES ASSUME OwnInv, [Next]_vars PROVE WorkerOwn'
  OBVIOUS
<1>1. Inv /\ Inv' /\ RequestsOwn /\ RequestsOwn' /\ WorkerOwn
  BY NextInv, RequestsStayOwn DEF OwnInv
<1>2. /\ serving \in Conn \cup {NoConn} /\ serving' \in Conn \cup {NoConn}
      /\ req \in [Conn -> AclRequest \cup {NoRequest}]
  BY <1>1 DEF Inv, RpcInv, Rpc!TypeOK
<1>3. Serves' => (~Ask'.reload => Ask'.ip \in Ip /\ Own(Ask'.add, Ask'.ip))
  BY <1>1, <1>2 DEF Serves, Ask, RequestsOwn
<1>4. wk \in Place /\ Resting.left = <<>>
  BY <1>1 DEF Inv, TypeOK, Resting
<1>5. CASE wk' = Resting
  <2>1. wk'.left = <<>>
    BY <1>4, <1>5
  <2> QED BY <1>3, <1>5, <2>1, NoneOwn DEF WorkerOwn
<1>6. ASSUME wk' = wk, ~Finish, ~WorkerCrash PROVE WorkerOwn'
  <2>1. CASE ~Serves
    BY <1>1, <1>5, <1>6, <2>1 DEF WorkerOwn
  <2>2. CASE Serves
    BY <1>1, <1>6, <2>2, ServedStays DEF WorkerOwn
  <2> QED BY <2>1, <2>2
<1>7. CASE Serve /\ ~Finish /\ ~WorkerCrash
  <2>1. Serves /\ Serves' /\ Ask' = Ask /\ Ask \in AclRequest
    BY <1>1, <1>2, <1>7, ServedStays DEF Serve, Serves, Ask
  <2>2. ASSUME wk'.left = wk.left \/ wk'.left = Ask.add PROVE WorkerOwn'
    BY <1>1, <1>3, <2>1, <2>2 DEF WorkerOwn
  <2>3. CASE Start
    <3>1. wk'.left = Ask.add
      BY <1>4, <2>3 DEF Start, WorkerStep, Place
    <3> QED BY <2>2, <3>1
  <2>4. CASE Ensure \/ AddChain \/ Dump \/ Delete \/ EndDelete
    <3>1. wk'.left = wk.left
      BY <1>4, <2>4 DEF Ensure, AddChain, Dump, Delete, EndDelete, WorkerStep, Ensured,
                        Failed, Place
    <3> QED BY <2>2, <3>1
  <2>5. CASE Add
    <3>1. wk.left \in Seq(Entry) /\ wk.left # <<>>
      BY <1>4, <2>5 DEF Add, Place
    <3>2. wk'.left = wk.left \/ wk'.left = Tail(wk.left)
      BY <1>4, <2>5 DEF Add, WorkerStep, Failed, Place
    <3>3. ~Ask.reload => Own(Tail(wk.left), Ask.ip)
      BY <1>1, <2>1, <3>1, TailOwn DEF WorkerOwn
    <3> QED BY <1>1, <2>1, <2>2, <3>2, <3>3 DEF WorkerOwn
  <2> QED BY <1>7, <2>3, <2>4, <2>5 DEF Serve
<1>8. CASE Finish \/ WorkerCrash
  BY <1>5, <1>8 DEF Finish, WorkerCrash
<1>9. CASE ~Serve /\ ~Finish /\ ~WorkerCrash
  <2>1. wk' = wk
    BY <1>9 DEF Next, CreatePeer, RemovePeer, Begin, BeginAdd, BeginRemove, Continue,
                ReadSettings, SaveSettings, List, Call, CallFails, Send, Receive, GiveUp, Restore, Snapshot, Scan, EndScan,
                WorkerLoop, ManagerCrash, Reboot, vars
  <2> QED BY <1>6, <1>9, <2>1
<1> QED BY <1>7, <1>8, <1>9

LEMMA OwnInvariance == Spec => []OwnInv
<1>1. Init => OwnInv
  <2> SUFFICES ASSUME Init PROVE OwnInv
    OBVIOUS
  <2>1. HandlersOwn
    BY NoneOwn, RestartedType, ActorIs DEF Init, HandlersOwn, Restarted, Idle
  <2>2. RequestsOwn /\ WorkerOwn
    BY DEF Init, Rpc!Init, RequestsOwn, WorkerOwn, Serves
  <2> QED BY <2>1, <2>2, InitInv DEF OwnInv
<1>2. OwnInv /\ [Next]_vars => OwnInv'
  BY NextInv, HandlersStayOwn, RequestsStayOwn, WorkerStaysOwn DEF OwnInv
<1> QED BY <1>1, <1>2, PTL DEF Spec

\* A list differs from itself, from itself with an entry about ip appended or with one
\* removed, in nothing that is about another address.
LEMMA SameSelf == ASSUME NEW ip, NEW s \in Seq(Entry) PROVE SameButFor(ip, s, s)
<1> DEFINE others == {k \in DOMAIN s : s[k].ip # ip}
           f == [k \in others |-> k]
<1>1. f \in [others -> others]
  OBVIOUS
<1> QED BY <1>1 DEF SameButFor, Matches

LEMMA SameAppended ==
    ASSUME NEW ip, NEW s \in Seq(Entry), NEW e \in Entry, e.ip = ip
    PROVE  SameButFor(ip, s, Append(s, e))
<1> DEFINE t == Append(s, e)
           others(list) == {k \in DOMAIN list : list[k].ip # ip}
           f == [k \in others(s) |-> k]
<1>1. /\ Len(s) \in Nat /\ DOMAIN s = 1..Len(s) /\ DOMAIN t = 1..Len(s) + 1
      /\ \A k \in 1..Len(s) : t[k] = s[k]
      /\ t[Len(s) + 1] = e
  BY AppendProperties, LenProperties
<1>2. others(t) = others(s)
  BY <1>1
<1>3. f \in [others(s) -> others(t)] /\ \A k \in others(s) : t[f[k]] = s[k]
  BY <1>1, <1>2
<1> QED BY <1>2, <1>3 DEF SameButFor, Matches

LEMMA SameRemoved ==
    ASSUME NEW ip, NEW s \in Seq(Entry), NEW i \in 1..Len(s), s[i].ip = ip
    PROVE  SameButFor(ip, s, SubSeq(s, 1, i - 1) \o SubSeq(s, i + 1, Len(s)))
<1> DEFINE before == SubSeq(s, 1, i - 1)
           after == SubSeq(s, i + 1, Len(s))
           t == before \o after
           others(list) == {k \in DOMAIN list : list[k].ip # ip}
           f == [k \in others(s) |-> IF k < i THEN k ELSE k - 1]
<1>1. Len(s) \in Nat /\ DOMAIN s = 1..Len(s) /\ i \in Nat
      /\ \A k \in 1..Len(s) : s[k] \in Entry
  BY LenProperties, ElementOfSeq
<1>2. /\ before \in Seq(Entry) /\ Len(before) = i - 1
      /\ \A k \in 1..i - 1 : before[k] = s[k]
  BY <1>1, SubSeqProperties
<1>3. /\ after \in Seq(Entry) /\ Len(after) = Len(s) - i
      /\ \A k \in 1..Len(s) - i : after[k] = s[i + k]
  <2>1. \A k \in i + 1..Len(s) : s[k] \in Entry
    BY <1>1
  <2>2. /\ after \in Seq(Entry)
        /\ Len(after) = IF i + 1 <= Len(s) THEN Len(s) - (i + 1) + 1 ELSE 0
        /\ \A k \in 1..Len(s) - (i + 1) + 1 : after[k] = s[i + 1 + k - 1]
    BY <1>1, <2>1, SubSeqProperties
  <2> HIDE DEF after
  <2>3. Len(s) - (i + 1) + 1 = Len(s) - i
    BY <1>1
  <2>4. ASSUME NEW k \in 1..Len(s) - i PROVE after[k] = s[i + k]
    <3>1. k \in 1..Len(s) - (i + 1) + 1 /\ i + 1 + k - 1 = i + k
      BY <1>1
    <3> QED BY <2>2, <3>1
  <2>5. Len(after) = Len(s) - i
    <3> DEFINE n == Len(after)
    <3>1. n = IF i + 1 <= Len(s) THEN Len(s) - (i + 1) + 1 ELSE 0
      BY <2>2
    <3>2. i <= Len(s) /\ i \in Int /\ Len(s) \in Int
      BY <1>1
    <3> HIDE DEF n
    <3>3. n = Len(s) - i
      BY <3>1, <3>2
    <3> QED BY <3>3 DEF n
  <2> QED BY <2>2, <2>4, <2>5
<1> HIDE DEF before, after
<1>4. t \in Seq(Entry) /\ Len(t) = Len(s) - 1 /\ DOMAIN t = 1..Len(s) - 1
  <2>1. Len(t) = Len(before) + Len(after) /\ t \in Seq(Entry)
    BY <1>2, <1>3, ConcatProperties
  <2> HIDE DEF t
  <2>2. Len(t) = Len(s) - 1
    BY <1>1, <1>2, <1>3, <2>1
  <2> QED BY <2>1, <2>2, LenProperties
<1>5. /\ \A k \in 1..i - 1 : t[k] = s[k]
      /\ \A k \in i..Len(s) - 1 : t[k] = s[k + 1]
  <2>1. \A k \in 1..Len(before) + Len(after) :
            t[k] = IF k <= Len(before) THEN before[k] ELSE after[k - Len(before)]
    BY <1>2, <1>3, ConcatProperties
  <2>2. \A k \in 1..i - 1 : t[k] = s[k]
    BY <1>1, <1>2, <1>3, <2>1
  <2>3. ASSUME NEW k \in i..Len(s) - 1 PROVE t[k] = s[k + 1]
    <3>1. t[k] = after[k - (i - 1)] /\ k - (i - 1) \in 1..Len(s) - i
      BY <1>1, <1>2, <1>3, <2>1
    <3> QED BY <1>1, <1>3, <3>1
  <2> QED BY <2>2, <2>3
<1> HIDE DEF t
<1>6. \A k \in others(s) : /\ k \in 1..Len(s) /\ k # i
                           /\ f[k] \in others(t) /\ t[f[k]] = s[k]
  BY <1>1, <1>4, <1>5
<1>7. f \in [others(s) -> others(t)]
  BY <1>6
<1>8. ASSUME NEW k \in others(t) PROVE \E j \in others(s) : f[j] = k
  <2>1. CASE k < i
    <3>1. k \in others(s) /\ f[k] = k
      BY <1>1, <1>4, <1>5, <1>8, <2>1
    <3> QED BY <3>1
  <2>2. CASE k >= i
    <3>1. k + 1 \in others(s) /\ f[k + 1] = k
      BY <1>1, <1>4, <1>5, <1>8, <2>2
    <3> QED BY <3>1
  <2>3. k \in Int /\ i \in Int
    BY <1>1, <1>4, <1>8
  <2> QED BY <2>1, <2>2, <2>3
<1>9. \A j, k \in others(s) : j < k => f[j] < f[k]
  BY <1>1, <1>6
<1>10. SameButFor(ip, s, t)
  BY <1>6, <1>7, <1>8, <1>9 DEF SameButFor, Matches
<1> QED BY <1>10 DEF t, before, after

\* It differs in nothing that is about one of the other addresses.
LEMMA SameOf ==
    ASSUME NEW ip, NEW jp, ip # jp, NEW s, NEW t, SameButFor(jp, s, t)
    PROVE  Matches(s, About(ip, s), t, About(ip, t))
<1> DEFINE S == {k \in DOMAIN s : s[k].ip # jp}
           T == {k \in DOMAIN t : t[k].ip # jp}
           P == About(ip, s)
           Q == About(ip, t)
<1>1. PICK g \in [S -> T] : /\ \A k \in T : \E j \in S : g[j] = k
                            /\ \A k \in S : t[g[k]] = s[k]
                            /\ \A j, k \in S : j < k => g[j] < g[k]
  BY DEF SameButFor, Matches
<1>2. P \subseteq S /\ Q \subseteq T /\ \A k \in P : g[k] \in Q
  BY <1>1 DEF About
<1>3. ASSUME NEW k \in Q PROVE \E j \in P : g[j] = k
  BY <1>1, <1>2 DEF About
<1> DEFINE f == [k \in P |-> g[k]]
<1> HIDE DEF P, Q
<1>4. f \in [P -> Q]
  BY <1>2
<1>5. \A k \in Q : \E j \in P : f[j] = k
  BY <1>3
<1>6. /\ \A k \in P : t[f[k]] = s[k]
      /\ \A j, k \in P : j < k => f[j] < f[k]
  BY <1>1, <1>2
<1> HIDE DEF f
<1>7. Matches(s, P, t, Q)
  BY <1>4, <1>5, <1>6 DEF Matches
<1> QED BY <1>7 DEF P, Q

\* A command of a request about one peer is about the rules of one address: that peer's,
\* or that of a rule its search finds, and then that address is marked.
RewritesOne ==
    \/ SameButFor(Ask.ip, chain, chain')
    \/ \E k \in DOMAIN chain : /\ Found(Ask.ip, chain[k]) /\ chain[k].ip \in drift'
                              /\ SameButFor(chain[k].ip, chain, chain')

LEMMA RewritingIsOfOne ==
    ASSUME OwnInv, Serves, ~Ask.reload, [Next]_vars
    PROVE  Ask.ip \in Ip /\ RewritesOne
<1>1. /\ Inv /\ chain \in Seq(Entry) /\ wk \in Place
      /\ Ask.ip \in Ip /\ Own(wk.left, Ask.ip)
  BY DEF OwnInv, Inv, TypeOK, WorkerOwn
<1>2. CASE chain' = chain
  BY <1>1, <1>2, SameSelf DEF RewritesOne
<1>3. CASE Delete
  <2>1. CASE Found(Ask.ip, chain[wk.pos]) /\ chain' = Without(wk.pos)
                /\ drift' = IF chain[wk.pos].ip = Ask.ip THEN drift ELSE drift \cup {chain[wk.pos].ip}
    <3>1. wk.pos \in 1..Len(chain) /\ DOMAIN chain = 1..Len(chain)
      BY <1>1, <1>3, LenProperties DEF Delete, Place
    <3>2. PICK j : j = chain[wk.pos].ip
      OBVIOUS
    <3>3. SameButFor(j, chain, chain')
      BY <1>1, <2>1, <3>1, <3>2, SameRemoved DEF Without
    <3> QED BY <1>1, <2>1, <3>1, <3>2, <3>3 DEF RewritesOne
  <2> QED BY <1>2, <1>3, <2>1 DEF Delete
<1>4. CASE Add
  <2>1. wk.left \in Seq(Entry) /\ wk.left # <<>>
    BY <1>1, <1>4 DEF Add, Place
  <2>2. Head(wk.left) \in Entry /\ Head(wk.left).ip = Ask.ip
    BY <1>1, <2>1, HeadTailProperties, TailOwn
  <2>3. chain' = chain \/ chain' = Append(chain, Head(wk.left))
    BY <1>4 DEF Add
  <2> QED BY <1>1, <1>2, <2>2, <2>3, SameAppended DEF RewritesOne
<1>5. CASE Start
  BY <1>2, <1>5 DEF Start
<1>6. CASE Reboot
  <2>1. FALSE
    BY <1>1, <1>6, ConnAssumption
       DEF Reboot, Inv, RpcInv, Rpc!EndsAgree, Serves
  <2> QED BY <2>1
<1>7. CASE ~Delete /\ ~Add /\ ~Start /\ ~Reboot
  <2>1. chain' = chain
    BY <1>7 DEF Next, CreatePeer, RemovePeer, Begin, BeginAdd, BeginRemove, Continue,
                ReadSettings, SaveSettings, List, Call, CallFails, Send, Receive, GiveUp,
                Restore, Snapshot, Scan, EndScan, Serve, Ensure, AddChain, Dump, EndDelete,
                Finish, WorkerLoop, WorkerCrash, ManagerCrash, vars
  <2> QED BY <1>2, <2>1
<1> QED BY <1>3, <1>4, <1>5, <1>6, <1>7

\* A request about one peer changes no rule of another address and moves none, at any of
\* its nft commands, whatever has been left in the chain and whatever crashes or fails:
\* unless its search text is in the comment of one of that address's rules.
THEOREM UnnamedAreUntouched == Spec => UnnamedUntouched
<1> DEFINE Unnamed(i) ==
              \A k \in About(i, chain) : \A j \in {i} \cup Marks[chain[k].rule] : ~Begins(Ask.ip, j)
<1>1. ASSUME OwnInv, [Next]_vars, Serves, ~Ask.reload, NEW i \in Ip \ {Ask.ip}, Unnamed(i)
      PROVE  Matches(chain, About(i, chain), chain', About(i, chain'))
  <2>1. CASE SameButFor(Ask.ip, chain, chain')
    BY <1>1, <2>1, SameOf
  <2>2. ASSUME NEW k \in DOMAIN chain, Found(Ask.ip, chain[k]), SameButFor(chain[k].ip, chain, chain')
        PROVE  Matches(chain, About(i, chain), chain', About(i, chain'))
    <3>1. chain[k].ip # i
      BY <1>1, <2>2 DEF Found, About
    <3> QED BY <2>2, <3>1, SameOf
  <2> QED BY <1>1, <2>1, <2>2, RewritingIsOfOne DEF RewritesOne
<1>2. OwnInv /\ [Next]_vars =>
         [Serves /\ ~Ask.reload =>
             \A i \in Ip \ {Ask.ip} :
                 Unnamed(i) => Matches(chain, About(i, chain), chain', About(i, chain'))]_vars
  BY <1>1
<1> QED BY <1>2, OwnInvariance, PTL DEF Spec, UnnamedUntouched

\* The text of no address begins that of another, and no description holds a mark.
NoneBegins == \A i, j \in Ip : Begins(i, j) => i = j
NoneNamed == \A r \in Rule : Marks[r] = {}

\* Then a request about one peer changes no rule of another and moves none, at any of
\* its nft commands.
THEOREM OthersAreUntouched == NoneBegins /\ NoneNamed => (Spec => OthersUntouched)
<1> SUFFICES ASSUME NoneBegins, NoneNamed PROVE Spec => OthersUntouched
  OBVIOUS
<1>1. ASSUME OwnInv, [Next]_vars, Serves, ~Ask.reload PROVE SameButFor(Ask.ip, chain, chain')
  <2>1. ASSUME NEW k \in DOMAIN chain, Found(Ask.ip, chain[k]) PROVE chain[k].ip = Ask.ip
    <3>1. chain[k] \in Entry
      BY <1>1, LenProperties, ElementOfSeq DEF OwnInv, Inv, TypeOK
    <3>2. chain[k].ip \in Ip /\ chain[k].rule \in Rule
      BY <3>1 DEF Entry
    <3>3. Begins(Ask.ip, chain[k].ip)
      BY <2>1, <3>2 DEF Found, NoneNamed
    <3> QED BY <1>1, <3>2, <3>3, RewritingIsOfOne DEF NoneBegins
  <2> QED BY <1>1, <2>1, RewritingIsOfOne DEF RewritesOne
<1>2. OwnInv /\ [Next]_vars => [Serves /\ ~Ask.reload => SameButFor(Ask.ip, chain, chain')]_vars
  BY <1>1
<1> QED BY <1>2, OwnInvariance, PTL DEF Spec, OthersUntouched

----------------------------------------------------------------------------
(* What a list shows of an address.                                         *)

LEMMA ListIs ==
    ASSUME NEW s \in Seq(Entry)
    PROVE  /\ Len(s) \in Nat /\ DOMAIN s = 1..Len(s)
           /\ \A k \in 1..Len(s) : s[k] \in Entry
BY LenProperties, ElementOfSeq

LEMMA JoinedIs ==
    ASSUME NEW s \in Seq(Entry), NEW t \in Seq(Entry)
    PROVE  /\ s \o t \in Seq(Entry) /\ Len(s \o t) = Len(s) + Len(t)
           /\ \A k \in 1..Len(s) : (s \o t)[k] = s[k]
           /\ \A k \in 1..Len(t) : (s \o t)[Len(s) + k] = t[k]
<1> DEFINE u == s \o t
<1>1. Len(s) \in Nat /\ Len(t) \in Nat
  BY ListIs
<1>2. /\ u \in Seq(Entry) /\ Len(u) = Len(s) + Len(t)
      /\ \A k \in 1..Len(s) + Len(t) : u[k] = IF k <= Len(s) THEN s[k] ELSE t[k - Len(s)]
  BY ConcatProperties
<1> HIDE DEF u
<1>3. \A k \in 1..Len(s) : u[k] = s[k]
  BY <1>1, <1>2
<1>4. ASSUME NEW k \in 1..Len(t) PROVE u[Len(s) + k] = t[k]
  <2>1. Len(s) + k \in 1..Len(s) + Len(t) /\ ~(Len(s) + k <= Len(s)) /\ Len(s) + k - Len(s) = k
    BY <1>1
  <2> QED BY <1>2, <2>1
<1> QED BY <1>2, <1>3, <1>4 DEF u

LEMMA AppendedIs ==
    ASSUME NEW s \in Seq(Entry), NEW e \in Entry
    PROVE  /\ Append(s, e) \in Seq(Entry) /\ Len(Append(s, e)) = Len(s) + 1
           /\ \A k \in 1..Len(s) : Append(s, e)[k] = s[k]
           /\ Append(s, e)[Len(s) + 1] = e
BY AppendProperties, LenProperties

\* Lists with the same entries at the same places.
LEMMA SameList ==
    ASSUME NEW s \in Seq(Entry), NEW t \in Seq(Entry), Len(s) = Len(t),
           \A k \in 1..Len(s) : s[k] = t[k]
    PROVE  s = t
BY SeqEqual

\* The first entry of what is left moves to what is there.
LEMMA HeadMoves ==
    ASSUME NEW s \in Seq(Entry), NEW t \in Seq(Entry), t # <<>>
    PROVE  /\ Head(t) \in Entry /\ Tail(t) \in Seq(Entry)
           /\ Append(s, Head(t)) \o Tail(t) = s \o t
<1> DEFINE e == Head(t)
           r == Tail(t)
           a == Append(s, e)
<1>1. /\ Len(s) \in Nat /\ Len(t) \in Nat \ {0}
  BY ListIs, EmptySeq
<1>2. /\ e \in Entry /\ r \in Seq(Entry) /\ Len(r) = Len(t) - 1 /\ e = t[1]
      /\ \A k \in 1..Len(t) - 1 : r[k] = t[k + 1]
  BY HeadTailProperties, ListIs, <1>1
<1> HIDE DEF e, r
<1>3. /\ a \in Seq(Entry) /\ Len(a) = Len(s) + 1
      /\ \A k \in 1..Len(s) : a[k] = s[k]
      /\ a[Len(s) + 1] = e
  BY <1>2, AppendedIs
<1> HIDE DEF a
<1> DEFINE u == a \o r
           v == s \o t
<1>4. /\ u \in Seq(Entry) /\ Len(u) = Len(a) + Len(r)
      /\ \A k \in 1..Len(a) : u[k] = a[k]
      /\ \A k \in 1..Len(r) : u[Len(a) + k] = r[k]
  BY <1>2, <1>3, JoinedIs
<1>5. /\ v \in Seq(Entry) /\ Len(v) = Len(s) + Len(t)
      /\ \A k \in 1..Len(s) : v[k] = s[k]
      /\ \A k \in 1..Len(t) : v[Len(s) + k] = t[k]
  BY JoinedIs
<1> HIDE DEF u, v
<1>6. Len(u) = Len(v)
  BY <1>1, <1>2, <1>3, <1>4, <1>5
<1>7. ASSUME NEW k \in 1..Len(u) PROVE u[k] = v[k]
  <2>1. CASE k \in 1..Len(s)
    BY <1>1, <1>3, <1>4, <1>5, <2>1
  <2>2. CASE k = Len(s) + 1
    BY <1>1, <1>2, <1>3, <1>4, <1>5, <2>2
  <2>3. CASE k > Len(s) + 1
    <3>0. k - Len(s) - 1 \in Nat
      BY <1>1, <2>3
    <3>1. PICK j \in Nat : j = k - Len(s) - 1
      BY <3>0
    <3>2. j \in 1..Len(r) /\ j \in 1..Len(t) - 1 /\ k = Len(a) + j /\ k = Len(s) + (j + 1)
          /\ j + 1 \in 1..Len(t)
      BY <1>1, <1>2, <1>3, <1>4, <2>3, <3>1
    <3>3. u[k] = r[j] /\ v[k] = t[j + 1]
      BY <1>4, <1>5, <3>2
    <3> QED BY <1>2, <3>2, <3>3
  <2> QED BY <1>1, <2>1, <2>2, <2>3
<1>8. u = v
  BY <1>4, <1>5, <1>6, <1>7, SameList
<1> QED BY <1>2, <1>8 DEF u, v, a, e, r

\* A list without entries about an address shows none.
LEMMA ShowsNone ==
    ASSUME NEW ip, NEW s \in Seq(Entry), About(ip, s) = {}
    PROVE  Shows(ip, s, <<>>)
<1> DEFINE f == [k \in {} |-> 0]
<1>1. DOMAIN <<>> = {} /\ f \in [{} -> {}]
  OBVIOUS
<1> HIDE DEF f
<1> QED BY <1>1 DEF Shows, Matches, About

LEMMA NothingShown ==
    ASSUME NEW ip, NEW s \in Seq(Entry), NEW o \in Seq(Entry), Shows(ip, s, o)
    PROVE  About(ip, s) = {} <=> o = <<>>
<1>1. PICK f \in [DOMAIN o -> About(ip, s)] :
         \A k \in About(ip, s) : \E j \in DOMAIN o : f[j] = k
  BY DEF Shows, Matches, About
<1>2. About(ip, s) = {} <=> DOMAIN o = {}
  BY <1>1
<1>3. DOMAIN o = {} <=> o = <<>>
  BY ListIs, EmptySeq
<1> QED BY <1>2, <1>3

\* A list about one address shows itself.
LEMMA ShowsOwn ==
    ASSUME NEW ip, NEW s \in Seq(Entry), Own(s, ip)
    PROVE  Shows(ip, s, s)
<1> DEFINE f == [k \in DOMAIN s |-> k]
<1>1. {k \in DOMAIN s : s[k].ip = ip} = DOMAIN s
  BY DEF Own
<1>2. f \in [DOMAIN s -> DOMAIN s] /\ \A k \in DOMAIN s : f[k] = k
  OBVIOUS
<1> HIDE DEF f
<1>3. Matches(s, DOMAIN s, s, DOMAIN s)
  BY <1>2 DEF Matches
<1> QED BY <1>1, <1>3 DEF Shows, About

\* What a list about one address shows, a list that shows that list shows.
LEMMA ShowsComposed ==
    ASSUME NEW ip, NEW s \in Seq(Entry), NEW a \in Seq(Entry), NEW o \in Seq(Entry),
           Own(a, ip), Shows(ip, s, a), Shows(ip, a, o)
    PROVE  Shows(ip, s, o)
<1> DEFINE D == DOMAIN o
           E == DOMAIN a
           P == {k \in DOMAIN s : s[k].ip = ip}
<1>1. {k \in DOMAIN a : a[k].ip = ip} = E
  BY DEF Own
<1>2. PICK f \in [D -> E] : /\ \A k \in E : \E j \in D : f[j] = k
                            /\ \A k \in D : a[f[k]] = o[k]
                            /\ \A j, k \in D : j < k => f[j] < f[k]
  BY <1>1 DEF Shows, About, Matches
<1>3. PICK g \in [E -> P] : /\ \A k \in P : \E j \in E : g[j] = k
                            /\ \A k \in E : s[g[k]] = a[k]
                            /\ \A j, k \in E : j < k => g[j] < g[k]
  BY DEF Shows, About, Matches
<1> DEFINE h == [k \in D |-> g[f[k]]]
<1>4. h \in [D -> P]
  BY <1>2, <1>3
<1>5. ASSUME NEW k \in P PROVE \E j \in D : h[j] = k
  <2>1. PICK m \in E : g[m] = k
    BY <1>3
  <2>2. PICK j \in D : f[j] = m
    BY <1>2
  <2> QED BY <2>1, <2>2
<1>6. \A k \in D : s[h[k]] = o[k]
  BY <1>2, <1>3
<1>7. \A j, k \in D : j < k => h[j] < h[k]
  BY <1>2, <1>3
<1> HIDE DEF h, D, P
<1>8. Matches(o, D, s, P)
  BY <1>4, <1>5, <1>6, <1>7 DEF Matches
<1> QED BY <1>8 DEF Shows, About, D, P

\* Lists that differ only in entries about another address show the same.
LEMMA ShowsAlike ==
    ASSUME NEW ip, NEW jp, ip # jp, NEW s, NEW t, NEW o, SameButFor(jp, s, t), Shows(ip, s, o)
    PROVE  Shows(ip, t, o)
<1> DEFINE D == DOMAIN o
           S == {k \in DOMAIN s : s[k].ip # jp}
           T == {k \in DOMAIN t : t[k].ip # jp}
           P == {k \in DOMAIN s : s[k].ip = ip}
           Q == {k \in DOMAIN t : t[k].ip = ip}
<1>1. PICK f \in [D -> P] : /\ \A k \in P : \E j \in D : f[j] = k
                            /\ \A k \in D : s[f[k]] = o[k]
                            /\ \A j, k \in D : j < k => f[j] < f[k]
  BY DEF Shows, About, Matches
<1>2. PICK g \in [S -> T] : /\ \A k \in T : \E j \in S : g[j] = k
                            /\ \A k \in S : t[g[k]] = s[k]
                            /\ \A j, k \in S : j < k => g[j] < g[k]
  BY DEF SameButFor, Matches
<1>3. P \subseteq S /\ Q \subseteq T /\ \A k \in P : g[k] \in Q
  BY <1>2
<1> DEFINE h == [k \in D |-> g[f[k]]]
<1>4. h \in [D -> Q]
  BY <1>1, <1>3
<1>5. ASSUME NEW k \in Q PROVE \E j \in D : h[j] = k
  <2>1. PICK m \in S : g[m] = k
    BY <1>2, <1>3
  <2>2. m \in P
    BY <1>2, <2>1
  <2>3. PICK j \in D : f[j] = m
    BY <1>1, <2>2
  <2> QED BY <2>1, <2>3
<1>6. \A k \in D : t[h[k]] = o[k]
  BY <1>1, <1>2, <1>3
<1>7. \A j, k \in D : j < k => h[j] < h[k]
  BY <1>1, <1>2, <1>3
<1> HIDE DEF h, D, Q
<1>8. Matches(o, D, t, Q)
  BY <1>4, <1>5, <1>6, <1>7 DEF Matches
<1> QED BY <1>8 DEF Shows, About, D, Q

\* What follows a list without entries about an address decides what is shown of it.
LEMMA ShowsBehind ==
    ASSUME NEW ip, NEW s \in Seq(Entry), NEW t \in Seq(Entry), NEW o,
           About(ip, s) = {}, Shows(ip, t, o)
    PROVE  Shows(ip, s \o t, o)
<1> DEFINE u == s \o t
           D == DOMAIN o
           P == {k \in DOMAIN t : t[k].ip = ip}
           Q == {k \in DOMAIN u : u[k].ip = ip}
<1>1. /\ Len(s) \in Nat /\ Len(t) \in Nat /\ DOMAIN s = 1..Len(s) /\ DOMAIN t = 1..Len(t)
      /\ DOMAIN u = 1..Len(s) + Len(t)
      /\ \A k \in 1..Len(s) : u[k] = s[k]
      /\ \A k \in 1..Len(t) : u[Len(s) + k] = t[k]
  BY ListIs, JoinedIs
<1> HIDE DEF u
<1>2. PICK f \in [D -> P] : /\ \A k \in P : \E j \in D : f[j] = k
                            /\ \A k \in D : t[f[k]] = o[k]
                            /\ \A j, k \in D : j < k => f[j] < f[k]
  BY DEF Shows, About, Matches
<1>3. P \subseteq 1..Len(t)
  BY <1>1
<1>4. \A k \in 1..Len(s) : k \notin Q
  BY <1>1 DEF About
<1>5. \A k \in P : Len(s) + k \in Q
  BY <1>1
<1>6. ASSUME NEW k \in Q PROVE \E j \in P : k = Len(s) + j
  <2>1. k \in 1..Len(s) + Len(t) /\ k \notin 1..Len(s)
    BY <1>1, <1>4
  <2>2. PICK j \in Nat : j = k - Len(s)
    BY <1>1, <2>1
  <2>3. j \in 1..Len(t) /\ k = Len(s) + j
    BY <1>1, <2>1, <2>2
  <2> QED BY <1>1, <2>3
<1> DEFINE h == [k \in D |-> Len(s) + f[k]]
<1>7. h \in [D -> Q]
  BY <1>2, <1>5
<1>8. ASSUME NEW k \in Q PROVE \E j \in D : h[j] = k
  <2>1. PICK m \in P : k = Len(s) + m
    BY <1>6
  <2>2. PICK j \in D : f[j] = m
    BY <1>2
  <2> QED BY <2>1, <2>2
<1>9. \A k \in D : u[h[k]] = o[k]
  BY <1>1, <1>2, <1>3
<1>10. \A j, k \in D : j < k => h[j] < h[k]
  BY <1>1, <1>2, <1>3
<1> HIDE DEF h, D, Q
<1>11. Matches(o, D, u, Q)
  BY <1>7, <1>8, <1>9, <1>10 DEF Matches
<1> QED BY <1>11 DEF Shows, About, D, Q, u

\* What follows it without entries about the address does not.
LEMMA ShowsBefore ==
    ASSUME NEW ip, NEW s \in Seq(Entry), NEW t \in Seq(Entry), NEW o,
           About(ip, t) = {}, Shows(ip, s, o)
    PROVE  Shows(ip, s \o t, o)
<1> DEFINE u == s \o t
           D == DOMAIN o
           P == {k \in DOMAIN s : s[k].ip = ip}
           Q == {k \in DOMAIN u : u[k].ip = ip}
<1>1. /\ Len(s) \in Nat /\ Len(t) \in Nat /\ DOMAIN s = 1..Len(s) /\ DOMAIN t = 1..Len(t)
      /\ DOMAIN u = 1..Len(s) + Len(t)
      /\ \A k \in 1..Len(s) : u[k] = s[k]
      /\ \A k \in 1..Len(t) : u[Len(s) + k] = t[k]
  BY ListIs, JoinedIs
<1> HIDE DEF u
<1>2. \A k \in P : k \in Q /\ u[k] = s[k]
  BY <1>1
<1>3. ASSUME NEW k \in Q PROVE k \in P
  <2>1. CASE k \in 1..Len(s)
    BY <1>1, <2>1
  <2>2. CASE k \notin 1..Len(s)
    <3>1. k \in 1..Len(s) + Len(t)
      BY <1>1
    <3>2. PICK j \in Nat : j = k - Len(s)
      BY <1>1, <2>2, <3>1
    <3>3. j \in 1..Len(t) /\ k = Len(s) + j
      BY <1>1, <2>2, <3>1, <3>2
    <3> QED BY <1>1, <3>3 DEF About
  <2> QED BY <2>1, <2>2
<1>4. P = Q
  BY <1>2, <1>3
<1> HIDE DEF Q
<1>5. PICK f \in [D -> P] : /\ \A k \in P : \E j \in D : f[j] = k
                            /\ \A k \in D : s[f[k]] = o[k]
                            /\ \A j, k \in D : j < k => f[j] < f[k]
  BY DEF Shows, About, Matches
<1>6. \A k \in D : u[f[k]] = o[k]
  BY <1>2, <1>5
<1> HIDE DEF P, D
<1>7. Matches(o, D, u, Q)
  BY <1>4, <1>5, <1>6 DEF Matches
<1> QED BY <1>7 DEF Shows, About, D, Q, u

\* Two lists without entries about an address.
LEMMA NothingJoined ==
    ASSUME NEW ip, NEW s \in Seq(Entry), NEW t \in Seq(Entry), About(ip, s) = {},
           \A k \in 1..Len(t) : t[k].ip # ip
    PROVE  About(ip, s \o t) = {}
<1>1. Shows(ip, s, <<>>) /\ About(ip, t) = {}
  BY ShowsNone, ListIs DEF About
<1>2. Shows(ip, s \o t, <<>>)
  BY <1>1, ShowsBefore
<1>3. <<>> \in Seq(Entry) /\ s \o t \in Seq(Entry)
  BY JoinedIs
<1> QED BY <1>2, <1>3, NothingShown

\* A rule of the address is added behind what is shown.
LEMMA ShowsAppended ==
    ASSUME NEW ip, NEW s \in Seq(Entry), NEW o \in Seq(Entry), NEW e \in Entry, e.ip = ip,
           Shows(ip, s, o)
    PROVE  Shows(ip, Append(s, e), Append(o, e))
<1> DEFINE t == Append(s, e)
           q == Append(o, e)
           n == Len(s) + 1
           m == Len(o) + 1
           P == {k \in DOMAIN s : s[k].ip = ip}
           Q == {k \in DOMAIN t : t[k].ip = ip}
<1>1. /\ Len(s) \in Nat /\ DOMAIN s = 1..Len(s) /\ DOMAIN t = 1..n
      /\ \A k \in 1..Len(s) : t[k] = s[k]
      /\ t[n] = e
  BY ListIs, AppendedIs
<1>2. /\ Len(o) \in Nat /\ DOMAIN o = 1..Len(o) /\ DOMAIN q = 1..m
      /\ \A k \in 1..Len(o) : q[k] = o[k]
      /\ q[m] = e
  BY ListIs, AppendedIs
<1> HIDE DEF t, q
<1>3. Q = P \cup {n} /\ P \subseteq 1..Len(s) /\ n \notin P
  BY <1>1
<1>4. PICK f \in [1..Len(o) -> P] : /\ \A k \in P : \E j \in 1..Len(o) : f[j] = k
                                    /\ \A k \in 1..Len(o) : s[f[k]] = o[k]
                                    /\ \A j, k \in 1..Len(o) : j < k => f[j] < f[k]
  BY <1>2 DEF Shows, About, Matches
<1>5. 1..m = 1..Len(o) \cup {m} /\ m \notin 1..Len(o)
  BY <1>2
<1> HIDE DEF Q
<1> DEFINE h == [k \in 1..m |-> IF k = m THEN n ELSE f[k]]
<1>6. h \in [1..m -> Q]
  BY <1>3, <1>4, <1>5
<1>7. ASSUME NEW k \in Q PROVE \E j \in 1..m : h[j] = k
  <2>1. CASE k = n
    BY <1>5, <2>1
  <2>2. CASE k # n
    <3>1. PICK j \in 1..Len(o) : f[j] = k
      BY <1>3, <1>4, <2>2
    <3> QED BY <1>5, <3>1
  <2> QED BY <2>1, <2>2
<1>8. ASSUME NEW k \in 1..m PROVE t[h[k]] = q[k]
  <2>1. CASE k = m
    BY <1>1, <1>2, <2>1
  <2>2. CASE k # m
    <3>1. k \in 1..Len(o) /\ h[k] = f[k] /\ f[k] \in 1..Len(s)
      BY <1>3, <1>4, <1>5, <2>2
    <3> QED BY <1>1, <1>2, <1>4, <3>1
  <2> QED BY <2>1, <2>2
<1>9. ASSUME NEW j \in 1..m, NEW k \in 1..m, j < k PROVE h[j] < h[k]
  <2>1. j \in 1..Len(o) /\ h[j] = f[j] /\ f[j] \in 1..Len(s)
    BY <1>2, <1>3, <1>4, <1>9
  <2>2. CASE k = m
    BY <1>1, <2>1, <2>2
  <2>3. CASE k # m
    BY <1>4, <1>5, <1>9, <2>1, <2>3
  <2> QED BY <2>2, <2>3
<1> HIDE DEF h
<1>10. Matches(q, 1..m, t, Q)
  BY <1>6, <1>7, <1>8, <1>9 DEF Matches
<1> QED BY <1>2, <1>10 DEF Shows, About, Q, t, q

----------------------------------------------------------------------------
(* What the table asks for.                                                 *)

\* No two peers have the same address.
Unique == \A p, q \in DOMAIN peers : peers[p] = peers[q] => p = q

\* Every rule of peer p is in the list, at the place of its rank.
Ranked(l, p, ip) ==
    /\ l \in Seq(Entry) /\ Len(l) = Cardinality(RulesOf(p)) /\ Len(l) \in Nat
    /\ \A k \in 1..Len(l) : /\ l[k] \in Entry /\ l[k].ip = ip
                            /\ l[k].rule \in RulesOf(p) /\ Rank(p, l[k].rule) = k - 1
    /\ l = <<>> <=> RulesOf(p) = {}

AllRanked == \A p : \A ip \in Ip : TypeOK => Ranked(Listed(p, ip), p, ip)

LEMMA ListedRanked == AllRanked
<1> USE DEF AllRanked
<1> SUFFICES ASSUME NEW p, NEW ip \in Ip, TypeOK PROVE Ranked(Listed(p, ip), p, ip)
  OBVIOUS
<1>1. PICK l : l = Listed(p, ip)
  OBVIOUS
<1>2. PICK n : n = Cardinality(RulesOf(p))
  OBVIOUS
<1>3. n \in Nat /\ IsFiniteSet(RulesOf(p))
  BY <1>2, RulesOfType
<1>4. /\ l \in Seq(Entry) /\ Len(l) = n
      /\ RulesOf(p) = {l[i].rule : i \in 1..n}
      /\ \A i \in 1..n : l[i].ip = ip /\ Rank(p, l[i].rule) = i - 1
  BY <1>1, <1>2, ListedIsSorted
<1>5. \A k \in 1..n : l[k] \in Entry /\ l[k].rule \in RulesOf(p)
  BY <1>4, ListIs
<1>6. l = <<>> <=> n = 0
  BY <1>4, EmptySeq
<1>7. n = 0 <=> RulesOf(p) = {}
  BY <1>2, <1>3, FS_EmptySet
<1> QED BY <1>1, <1>2, <1>3, <1>4, <1>5, <1>6, <1>7 DEF Ranked

LEMMA RanksDiffer ==
    ASSUME TypeOK, NEW p, NEW r \in RulesOf(p), NEW s \in RulesOf(p), Rank(p, r) = Rank(p, s)
    PROVE  r = s
<1>1. r = s \/ Before(r, s) \/ Before(s, r)
  BY RulesOfType DEF Before
<1>2. Rank(p, r) \in Int
  BY RankOrder, RulesOfType
<1>3. (Before(s, r) => Rank(p, s) < Rank(p, r)) /\ (Before(r, s) => Rank(p, r) < Rank(p, s))
  BY RankOrder
<1> QED BY <1>1, <1>2, <1>3

\* A peer whose rows stay as they are is asked the same rules.
LEMMA ListedKept ==
    ASSUME TypeOK, TypeOK', NEW p, NEW ip \in Ip, RulesOf(p)' = RulesOf(p),
           \A r \in RulesOf(p) : rules'[r] = rules[r]
    PROVE  Listed(p, ip)' = Listed(p, ip)
<1>1. ASSUME NEW r \in RulesOf(p) PROVE Rank(p, r)' = Rank(p, r)
  <2>1. \A s \in RulesOf(p) : Before(s, r)' <=> Before(s, r)
    BY <1>1 DEF Before
  <2>2. {s \in RulesOf(p) : Before(s, r)}' = {s \in RulesOf(p) : Before(s, r)}
    BY <2>1
  <2> QED BY <2>2 DEF Rank
<1>2. PICK l : l = Listed(p, ip)
  OBVIOUS
<1>3. PICK m : m = Listed(p, ip)'
  OBVIOUS
<1>4. Ranked(l, p, ip)
  BY <1>2, ListedRanked DEF AllRanked
<1>5. Ranked(m, p, ip)'
  <2>1. AllRanked'
    BY ListedRanked, PTL
  <2>2. Ranked(Listed(p, ip), p, ip)'
    BY <2>1 DEF AllRanked
  <2> QED BY <1>3, <2>2 DEF Ranked
<1>6. /\ m \in Seq(Entry) /\ Len(m) = Len(l)
      /\ \A k \in 1..Len(l) : m[k] \in Entry /\ m[k].ip = ip /\ m[k].rule \in RulesOf(p)
                              /\ Rank(p, m[k].rule)' = k - 1
  BY <1>4, <1>5 DEF Ranked
<1>7. ASSUME NEW k \in 1..Len(l) PROVE l[k] = m[k]
  <2>1. Rank(p, m[k].rule)' = k - 1 /\ m[k].rule \in RulesOf(p)
    BY <1>6
  <2>2. Rank(p, m[k].rule) = k - 1
    BY <1>1, <2>1
  <2>3. l[k].rule = m[k].rule
    BY <1>4, <2>1, <2>2, RanksDiffer DEF Ranked
  <2>4. l[k] \in Entry /\ m[k] \in Entry /\ l[k].ip = m[k].ip
    BY <1>4, <1>6 DEF Ranked
  <2> QED BY <2>3, <2>4 DEF Entry
<1>8. l = m
  BY <1>4, <1>6, <1>7, SameList DEF Ranked
<1> QED BY <1>2, <1>3, <1>8

AskedOfHolder == \A p \in DOMAIN peers : Unique => Asked(peers[p]) = Listed(p, peers[p])

AskedOfNobody == \A ip : (\A p \in DOMAIN peers : peers[p] # ip) => Asked(ip) = <<>>

LEMMA AskedIs == AskedOfHolder /\ AskedOfNobody
<1>1. AskedOfNobody
  BY DEF AskedOfNobody, Asked
<1> USE DEF AskedOfHolder
<1> SUFFICES ASSUME NEW p \in DOMAIN peers, Unique
             PROVE  Asked(peers[p]) = Listed(p, peers[p])
  BY <1>1
<1> DEFINE holder == {q \in DOMAIN peers : peers[q] = peers[p]}
<1>2. holder = {p}
  BY DEF Unique
<1>3. holder # {} /\ (CHOOSE q \in holder : TRUE) = p
  BY <1>2
<1> QED BY <1>3 DEF Asked

LEMMA AskedType ==
    ASSUME TypeOK, Unique, NEW ip \in Ip
    PROVE  Asked(ip) \in Seq(Entry) /\ Own(Asked(ip), ip)
<1>1. CASE \E p \in DOMAIN peers : peers[p] = ip
  <2>1. PICK p \in DOMAIN peers : peers[p] = ip
    BY <1>1
  <2>2. PICK l : l = Listed(p, ip)
    OBVIOUS
  <2>3. Asked(ip) = l
    BY <2>1, <2>2, AskedIs DEF AskedOfHolder
  <2>4. l \in Seq(Entry) /\ \A k \in 1..Len(l) : l[k].ip = ip
    BY <2>2, ListedRanked DEF AllRanked, Ranked
  <2> QED BY <2>3, <2>4, ListIs DEF Own
<1>2. CASE \A p \in DOMAIN peers : peers[p] # ip
  <2>1. <<>> \in Seq(Entry)
    OBVIOUS
  <2> QED BY <1>2, <2>1, AskedIs, NoneOwn DEF AskedOfNobody
<1> QED BY <1>1, <1>2

\* An address whose holder, and the holder's rows, stay as they are.
LEMMA AskedKept ==
    ASSUME TypeOK, TypeOK', Unique, Unique', NEW ip \in Ip,
           \A p : (p \in DOMAIN peers' /\ peers'[p] = ip) <=> (p \in DOMAIN peers /\ peers[p] = ip),
           \A p \in DOMAIN peers : peers[p] = ip =>
               RulesOf(p)' = RulesOf(p) /\ \A r \in RulesOf(p) : rules'[r] = rules[r]
    PROVE  Asked(ip)' = Asked(ip)
<1>1. CASE \E p \in DOMAIN peers : peers[p] = ip
  <2>1. PICK p \in DOMAIN peers : peers[p] = ip
    BY <1>1
  <2>2. p \in DOMAIN peers' /\ peers'[p] = ip
    BY <2>1
  <2>3. Asked(ip) = Listed(p, ip)
    BY <2>1, AskedIs DEF AskedOfHolder
  <2>4. AskedOfHolder'
    BY AskedIs, PTL
  <2>5. Asked(ip)' = Listed(p, ip)'
    BY <2>2, <2>4 DEF AskedOfHolder
  <2>6. Listed(p, ip)' = Listed(p, ip)
    BY <2>1, ListedKept
  <2> QED BY <2>3, <2>5, <2>6
<1>2. CASE \A p \in DOMAIN peers : peers[p] # ip
  <2>1. AskedOfNobody'
    BY AskedIs, PTL
  <2>2. \A p \in DOMAIN peers' : peers'[p] # ip
    BY <1>2
  <2>3. Asked(ip)' = <<>>
    BY <2>1, <2>2 DEF AskedOfNobody
  <2> QED BY <1>2, <2>3, AskedIs DEF AskedOfNobody
<1> QED BY <1>1, <1>2

----------------------------------------------------------------------------
(* Whose connections those are.                                             *)

\* A connection in a handler's hands is its own, and carries its request once it is
\* written.
OwnerOK ==
    /\ \A h \in Actor : hd[h].at = "send" =>
          cli[hd[h].conn] \in {"connected", "err"} /\ req[hd[h].conn] = NoRequest
    /\ \A h \in Actor : hd[h].at = "wait" =>
          cli[hd[h].conn] \in {"sent", "ok", "err"} /\ req[hd[h].conn] = RequestOf(h)
    /\ \A g, h \in Actor :
          hd[g].at \in {"send", "wait"} /\ hd[h].at \in {"send", "wait"} /\ hd[g].conn = hd[h].conn
             => g = h

\* The handler that moves, and its locals.
LEMMA Moved ==
    ASSUME Inv, NEW h \in Actor, NEW l, hd' = [hd EXCEPT ![h] = l]
    PROVE  hd'[h] = l /\ \A g \in Actor : g # h => hd'[g] = hd[g]
BY DEF Inv, TypeOK

\* A step that leaves alone the connections that stay in somebody's hands.
LEMMA OwnersKept ==
    ASSUME Inv, OwnerOK,
           \A g \in Actor : hd'[g].at \in {"send", "wait"} =>
               /\ hd'[g] = hd[g]
               /\ req'[hd[g].conn] = req[hd[g].conn]
               /\ \/ cli'[hd[g].conn] = cli[hd[g].conn]
                  \/ cli'[hd[g].conn] = "err"
                  \/ cli'[hd[g].conn] = "ok" /\ hd[g].at = "wait"
    PROVE  OwnerOK'
<1>1. \A g \in Actor : hd'[g] = hd[g] => RequestOf(g)' = RequestOf(g)
  BY DEF RequestOf
<1> QED BY <1>1 DEF OwnerOK

\* The locals that go with the connection c.
LEMMA CallIs ==
    ASSUME Inv, NEW h \in Actor, Call(h)
    PROVE  \E c \in Conn, l \in Local :
              /\ Rpc!Connect(c) /\ hd' = [hd EXCEPT ![h] = l]
              /\ l.at = "send" /\ l.conn = c /\ l.ip = hd[h].ip /\ l.add = hd[h].add
              /\ l.todo = hd[h].todo /\ l.peer = hd[h].peer
<1>1. hd \in [Actor -> Local] /\ hd[h] \in Local
  BY DEF Inv, TypeOK
<1>2. PICK c \in Conn : Rpc!Connect(c) /\ hd' = [hd EXCEPT ![h].at = "send", ![h].conn = c]
  BY DEF Call
<1> DEFINE l == [hd[h] EXCEPT !.at = "send", !.conn = c]
<1>3. hd' = [hd EXCEPT ![h] = l]
  BY <1>1, <1>2
<1>4. /\ l \in Local /\ l.at = "send" /\ l.conn = c /\ l.ip = hd[h].ip /\ l.add = hd[h].add
      /\ l.todo = hd[h].todo /\ l.peer = hd[h].peer
  BY <1>1 DEF Local
<1> HIDE DEF l
<1> QED BY <1>2, <1>3, <1>4

LEMMA SendIs ==
    ASSUME Inv, NEW h \in Actor, Send(h)
    PROVE  \E c \in Conn, l \in Local :
              /\ hd[h].conn = c /\ Rpc!Write(c, RequestOf(h)) /\ hd' = [hd EXCEPT ![h] = l]
              /\ l.at = "wait" /\ l.conn = c /\ l.ip = hd[h].ip /\ l.add = hd[h].add
              /\ l.todo = hd[h].todo /\ l.peer = hd[h].peer
<1>1. hd \in [Actor -> Local] /\ hd[h] \in Local
  BY DEF Inv, TypeOK
<1>2. PICK c \in Conn : hd[h].conn = c
  BY DEF Send, Inv, LocalsOK
<1>3. Rpc!Write(c, RequestOf(h)) /\ hd' = [hd EXCEPT ![h].at = "wait"]
  BY <1>2 DEF Send
<1> DEFINE l == [hd[h] EXCEPT !.at = "wait"]
<1>4. hd' = [hd EXCEPT ![h] = l]
  BY <1>1, <1>3
<1>5. /\ l \in Local /\ l.at = "wait" /\ l.conn = c /\ l.ip = hd[h].ip /\ l.add = hd[h].add
      /\ l.todo = hd[h].todo /\ l.peer = hd[h].peer
  BY <1>1, <1>2 DEF Local
<1> HIDE DEF l
<1> QED BY <1>2, <1>3, <1>4, <1>5

LEMMA NextKeepsOwners == Inv /\ OwnerOK /\ [Next]_vars => OwnerOK'
<1> SUFFICES ASSUME Inv, OwnerOK, [Next]_vars PROVE OwnerOK'
  OBVIOUS
<1>1. /\ cli \in [Conn -> Rpc!ClientState] /\ req \in [Conn -> AclRequest \cup {NoRequest}]
      /\ result \in {"ok", "err", "none"} /\ serving \in Conn \cup {NoConn}
      /\ hd \in [Actor -> Local]
  BY DEF Inv, RpcInv, Rpc!TypeOK, Rpc!Result, TypeOK
<1>2. \A h \in Actor : hd[h].at \in {"send", "wait"} => hd[h].conn \in Conn
  BY DEF Inv, LocalsOK
<1>3. ASSUME UNCHANGED <<cli, req>>,
             \A g \in Actor : hd'[g] = hd[g] \/ hd'[g].at \notin {"send", "wait"}
      PROVE  OwnerOK'
  BY <1>3, OwnersKept
<1>4. ASSUME NEW h \in Actor, Call(h) PROVE OwnerOK'
  <2>1. PICK c \in Conn, l \in Local :
             /\ Rpc!Connect(c) /\ hd' = [hd EXCEPT ![h] = l]
             /\ l.at = "send" /\ l.conn = c
    BY <1>4, CallIs
  <2>2. hd'[h] = l /\ \A g \in Actor : g # h => hd'[g] = hd[g]
    BY <2>1, Moved
  <2>3. /\ cli[c] = "free" /\ cli'[c] = "connected" /\ req' = req /\ req[c] = NoRequest
        /\ \A d \in Conn : d # c => cli'[d] = cli[d]
    BY <1>1, <2>1 DEF Rpc!Connect, Inv, RpcInv, Rpc!EndsAgree
  <2>4. \A g \in Actor : g # h /\ hd'[g].at \in {"send", "wait"} => hd[g].conn # c
    BY <2>2, <2>3 DEF OwnerOK
  <2>5. \A g \in Actor : g # h => RequestOf(g)' = RequestOf(g)
    BY <2>2 DEF RequestOf
  <2> QED BY <1>2, <2>1, <2>2, <2>3, <2>4, <2>5 DEF OwnerOK
<1>5. ASSUME NEW h \in Actor, Send(h) PROVE OwnerOK'
  <2>1. PICK c \in Conn, l \in Local :
             /\ hd[h].conn = c /\ Rpc!Write(c, RequestOf(h)) /\ hd' = [hd EXCEPT ![h] = l]
             /\ l.at = "wait" /\ l.conn = c /\ l.ip = hd[h].ip /\ l.add = hd[h].add
    BY <1>5, SendIs
  <2>2. hd'[h] = l /\ \A g \in Actor : g # h => hd'[g] = hd[g]
    BY <2>1, Moved
  <2>3. hd[h].at = "send" /\ cli'[c] = "sent" /\ req'[c] = RequestOf(h)
        /\ \A d \in Conn : d # c => cli'[d] = cli[d] /\ req'[d] = req[d]
    BY <1>1, <1>5, <2>1 DEF Rpc!Write, Send
  <2>4. \A g \in Actor : g # h /\ hd'[g].at \in {"send", "wait"} => hd[g].conn # c
    BY <2>1, <2>2, <2>3 DEF OwnerOK
  <2>5. \A g \in Actor : RequestOf(g)' = RequestOf(g)
    BY <2>1, <2>2 DEF RequestOf
  <2> QED BY <1>2, <2>1, <2>2, <2>3, <2>4, <2>5 DEF OwnerOK
<1>6. ASSUME NEW h \in Actor, Receive(h) \/ GiveUp(h) PROVE OwnerOK'
  <2>1. PICK c \in Conn : hd[h].conn = c /\ hd[h].at \in {"send", "wait"}
                          /\ (Rpc!Return(c) \/ Rpc!Timeout(c)) /\ hd' = [hd EXCEPT ![h] = Idle]
    BY <1>2, <1>6 DEF Receive, GiveUp, CallReturned
  <2>2. hd'[h] = Idle /\ \A g \in Actor : g # h => hd'[g] = hd[g]
    BY <2>1, Moved
  <2>3. \A d \in Conn : d # c => cli'[d] = cli[d] /\ req'[d] = req[d]
    BY <1>1, <2>1 DEF Rpc!Return, Rpc!Timeout
  <2>4. \A g \in Actor : hd'[g].at \in {"send", "wait"} => g # h /\ hd[g].conn # c /\ hd[g].conn \in Conn
    BY <1>2, <2>1, <2>2, IdleIs DEF OwnerOK
  <2> QED BY <2>2, <2>3, <2>4, OwnersKept
<1>7. CASE ManagerCrash \/ Reboot
  <2>1. \A g \in Actor : hd'[g].at \notin {"send", "wait"}
    BY <1>7, RestartedType DEF ManagerCrash, Reboot
  <2> QED BY <2>1 DEF OwnerOK
<1>8. CASE WorkerCrash
  <2>1. hd' = hd /\ \A c \in Conn :
            cli[c] \in {"connected", "sent", "ok", "err"} =>
                req'[c] = req[c] /\ cli'[c] \in {cli[c], "err"}
    BY <1>1, <1>8 DEF WorkerCrash, Rpc!WorkerCrash
  <2>2. \A g \in Actor : hd[g].at \in {"send", "wait"} =>
            hd[g].conn \in Conn /\ cli[hd[g].conn] \in {"connected", "sent", "ok", "err"}
    BY <1>2 DEF OwnerOK
  <2> QED BY <2>1, <2>2, OwnersKept
<1>9. CASE WorkerLoop
  <2>1. CASE UNCHANGED <<cli, req>>
    BY <1>3, <1>9, <2>1 DEF WorkerLoop
  <2>2. ASSUME NEW c \in Conn, Rpc!Reply(c) PROVE OwnerOK'
    <3>1. /\ serving = c /\ result \in {"ok", "err"} /\ cli[c] \in {"sent", "gone"}
      BY <1>1, <2>2 DEF Rpc!Reply, Inv, RpcInv, Rpc!EndsAgree, Rpc!WithWorker
    <3>2. /\ \A d \in Conn : d # c => cli'[d] = cli[d] /\ req'[d] = req[d]
          /\ cli[c] = "sent" => cli'[c] = result /\ req'[c] = req[c]
      BY <1>1, <2>2 DEF Rpc!Reply
    <3>3. ASSUME NEW g \in Actor, hd[g].at \in {"send", "wait"}
          PROVE  /\ req'[hd[g].conn] = req[hd[g].conn]
                 /\ \/ cli'[hd[g].conn] = cli[hd[g].conn]
                    \/ cli'[hd[g].conn] = "err"
                    \/ cli'[hd[g].conn] = "ok" /\ hd[g].at = "wait"
      BY <1>2, <3>1, <3>2, <3>3 DEF OwnerOK
    <3>4. hd' = hd
      BY <1>9 DEF WorkerLoop
    <3> QED BY <3>3, <3>4, OwnersKept
  <2>3. (\E c \in Conn : Rpc!Reply(c)) \/ UNCHANGED <<cli, req>>
    BY <1>9 DEF WorkerLoop, Rpc!Accept, Rpc!HandleEmpty, Rpc!WorkerStart
  <2> QED BY <2>1, <2>2, <2>3
<1>10. CASE Serve
  <2>1. UNCHANGED <<cli, req, hd>>
    BY <1>10 DEF Serve, Start, Ensure, AddChain, Dump, Delete, EndDelete, Add, Finish,
                 WorkerStep, rpcVars, Rpc!HandleRequest
  <2> QED BY <1>3, <2>1
<1>11. CASE UNCHANGED vars \/ (\E ip \in Ip : CreatePeer(ip))
            \/ (\E p \in 1..lastPeer : RemovePeer(p)) \/ SaveSettings
  BY <1>3, <1>11 DEF vars, rpcVars, CreatePeer, RemovePeer, SaveSettings
<1>12. ASSUME NEW h \in Handler, Begin(h) PROVE OwnerOK'
  <2>1. UNCHANGED <<cli, req>>
    BY <1>12 DEF Begin, BeginAdd, BeginRemove, rpcVars
  <2>2. UNCHANGED hd \/ \E p \in DOMAIN peers :
            hd' = [hd EXCEPT ![h] = [Idle EXCEPT !.at = "settings", !.peer = p, !.ip = peers[p]]]
    BY <1>12 DEF Begin, BeginAdd, BeginRemove
  <2>3. \A p \in DOMAIN peers : [Idle EXCEPT !.at = "settings", !.peer = p, !.ip = peers[p]].at = "settings"
    BY BegunType, Parts DEF Inv
  <2>4. \A g \in Actor : hd'[g] = hd[g] \/ hd'[g].at = "settings"
    BY <1>1, <2>2, <2>3, ActorIs
  <2> QED BY <1>3, <2>1, <2>4
<1>16. ASSUME NEW h \in Actor, ReadSettings(h) PROVE OwnerOK'
  <2>1. UNCHANGED <<cli, req>>
    BY <1>16 DEF ReadSettings, rpcVars
  <2>2. \A g \in Actor : hd'[g] = hd[g] \/ hd'[g].at \in {"idle", "list", "snapshot"}
    BY <1>1, <1>16, IdleIs DEF ReadSettings, Local
  <2> QED BY <1>3, <2>1, <2>2
<1>13. ASSUME NEW h \in Actor, List(h) PROVE OwnerOK'
  <2>1. UNCHANGED <<cli, req>>
    BY <1>13 DEF List, rpcVars
  <2>2. \A g \in Actor : hd'[g] = hd[g] \/ hd'[g].at = "call"
    BY <1>1, <1>13 DEF List, Local
  <2> QED BY <1>3, <2>1, <2>2
<1>14. ASSUME NEW h \in Actor, CallFails(h) PROVE OwnerOK'
  <2>1. UNCHANGED <<cli, req>> /\ hd' = [hd EXCEPT ![h] = Idle]
    BY <1>14 DEF CallFails, CallReturned, rpcVars
  <2>2. \A g \in Actor : hd'[g] = hd[g] \/ hd'[g].at = "idle"
    BY <1>1, <2>1, IdleIs
  <2> QED BY <1>3, <2>1, <2>2
<1>15. CASE Restore
  <2>1. UNCHANGED <<cli, req>>
    BY <1>15 DEF Restore, Snapshot, Scan, EndScan, rpcVars
  <2>2. \A g \in Actor : g # Boot => hd'[g] = hd[g]
    BY <1>1, <1>15 DEF Restore, Snapshot, Scan, EndScan
  <2>3. hd'[Boot].at \in {"idle", "scan", "call"}
    <3>1. hd[Boot] \in Local /\ Boot \in Actor
      BY <1>1, ActorIs
    <3>2. CASE Snapshot
      BY <1>1, <3>1, <3>2, IdleIs DEF Snapshot, Local
    <3>3. CASE Scan
      BY <1>1, <3>1, <3>3 DEF Scan, Local
    <3>4. CASE EndScan
      BY <1>1, <3>1, <3>4, IdleIs DEF EndScan, Local
    <3> QED BY <1>15, <3>2, <3>3, <3>4 DEF Restore
  <2> QED BY <1>3, <2>1, <2>2, <2>3
<1> QED BY <1>4, <1>5, <1>6, <1>7, <1>8, <1>9, <1>10, <1>11, <1>12, <1>13, <1>14, <1>15,
           <1>16
        DEF Next, Continue

----------------------------------------------------------------------------
(* Whose addresses those are.                                               *)

\* The address in a handler's hands is that of its peer, as long as there is one.  The
\* restore task has nothing about the peers it has yet to read.
HolderOK ==
    /\ Unique
    /\ \A h \in Handler : hd[h].at # "idle" =>
          /\ hd[h].peer \in 1..lastPeer
          /\ hd[h].peer \in DOMAIN peers => peers[hd[h].peer] = hd[h].ip
    /\ hd[Boot].todo \subseteq 1..lastPeer
    /\ \A p \in hd[Boot].todo : p \in DOMAIN peers => About(peers[p], hd[Boot].add) = {}
    /\ hd[Boot].at \in {"idle", "settings", "snapshot"} => hd[Boot].add = <<>>
    /\ hd[Boot].at \in {"call", "send", "wait"} => hd[Boot].todo = {}

NothingRead == hd'[Boot].todo = {} /\ (hd'[Boot].at \in {"idle", "settings", "snapshot"} => hd'[Boot].add = <<>>)

\* A step that leaves the peers alone.
LEMMA HoldersKept ==
    ASSUME Inv, HolderOK, UNCHANGED <<peers, lastPeer>>,
           \A h \in Handler : hd'[h].at # "idle" =>
               hd[h].at # "idle" /\ hd'[h].peer = hd[h].peer /\ hd'[h].ip = hd[h].ip,
           hd'[Boot] = hd[Boot] \/ NothingRead
    PROVE  HolderOK'
<1>1. Unique'
  BY DEF HolderOK, Unique
<1>2. CASE hd'[Boot] = hd[Boot]
  BY <1>1, <1>2 DEF HolderOK, About
<1>3. CASE NothingRead
  BY <1>1, <1>3 DEF HolderOK, About, NothingRead
<1> QED BY <1>2, <1>3

LEMMA StartsEmpty ==
    /\ Idle.todo = {} /\ Idle.add = <<>> /\ Idle.at = "idle"
    /\ Restarted[Boot].todo = {} /\ Restarted[Boot].add = <<>> /\ Restarted[Boot].at = "settings"
    /\ \A h \in Handler : Restarted[h] = Idle
BY ActorIs DEF Idle, Restarted

\* One request moves on, and keeps its peer, or ends.
LEMMA MoveKeepsHolders ==
    ASSUME Inv, HolderOK, UNCHANGED <<peers, lastPeer>>, NEW h \in Actor, hd[h].at # "idle",
           NEW l \in Local, hd' = [hd EXCEPT ![h] = l],
           \/ l = Idle
           \/ l.peer = hd[h].peer /\ l.ip = hd[h].ip
              /\ (h = Boot => l.todo = hd[h].todo /\ hd[h].at \in {"call", "send", "wait"}
                              /\ l.at \in {"call", "send", "wait"})
    PROVE  HolderOK'
<1>1. hd'[h] = l /\ \A g \in Actor : g # h => hd'[g] = hd[g]
  BY Moved
<1>2. hd'[Boot] = hd[Boot] \/ NothingRead
  BY <1>1, StartsEmpty, ActorIs DEF NothingRead, HolderOK
<1> QED BY <1>1, <1>2, StartsEmpty, ActorIs, HoldersKept

LEMMA NextKeepsHolders == Inv /\ HandlersOwn /\ HolderOK /\ [Next]_vars => HolderOK'
<1> SUFFICES ASSUME Inv, HandlersOwn, HolderOK, [Next]_vars PROVE HolderOK'
  OBVIOUS
<1>1. /\ hd \in [Actor -> Local] /\ TablesOK /\ lastPeer \in Nat
      /\ hd[Boot] \in Local /\ \A h \in Handler : hd[h] \in Local
  BY Parts, ActorIs, BoundAssumption DEF Inv, TablesOK
<1>2. CASE UNCHANGED <<peers, lastPeer, hd>>
  BY <1>2, HoldersKept
<1>3. ASSUME NEW ip \in Ip, CreatePeer(ip) PROVE HolderOK'
  <2>1. /\ lastPeer' = lastPeer + 1 /\ hd' = hd
        /\ DOMAIN peers' = DOMAIN peers \cup {lastPeer'}
        /\ peers'[lastPeer'] = ip
        /\ \A p \in DOMAIN peers : p # lastPeer' /\ peers'[p] = peers[p] /\ peers[p] # ip
    BY <1>1, <1>3 DEF CreatePeer, TablesOK
  <2>2. Unique'
    BY <2>1 DEF Unique, HolderOK
  <2>3. \A p \in 1..lastPeer : p \in 1..lastPeer' /\ (p \in DOMAIN peers' => p \in DOMAIN peers)
    BY <1>1, <2>1
  <2> QED BY <2>1, <2>2, <2>3 DEF HolderOK, About
<1>4. ASSUME NEW p \in 1..lastPeer, RemovePeer(p) PROVE HolderOK'
  <2>1. /\ lastPeer' = lastPeer /\ hd' = hd
        /\ DOMAIN peers' \subseteq DOMAIN peers
        /\ \A q \in DOMAIN peers' : peers'[q] = peers[q]
    BY <1>4 DEF RemovePeer
  <2>2. Unique'
    BY <2>1 DEF Unique, HolderOK
  <2> QED BY <2>1, <2>2 DEF HolderOK, About
<1>5. ASSUME NEW h \in Handler, Begin(h) PROVE HolderOK'
  <2>1. UNCHANGED <<peers, lastPeer>>
    BY <1>5 DEF Begin, BeginAdd, BeginRemove
  <2>2. CASE UNCHANGED hd
    BY <1>2, <2>1, <2>2
  <2>3. ASSUME NEW p \in DOMAIN peers,
               hd' = [hd EXCEPT ![h] = [Idle EXCEPT !.at = "settings", !.peer = p, !.ip = peers[p]]]
        PROVE  HolderOK'
    <3> DEFINE l == [Idle EXCEPT !.at = "settings", !.peer = p, !.ip = peers[p]]
    <3>1. l.peer = p /\ l.ip = peers[p]
      BY DEF Idle
    <3> HIDE DEF l
    <3>2. hd'[h] = l /\ \A g \in Actor : g # h => hd'[g] = hd[g]
      BY <2>3, Moved, ActorIs DEF l
    <3>3. p \in 1..lastPeer
      BY <1>1 DEF TablesOK
    <3> QED BY <2>1, <3>1, <3>2, <3>3, ActorIs DEF HolderOK, Unique, About
  <2> QED BY <1>5, <2>2, <2>3 DEF Begin, BeginAdd, BeginRemove
<1>13. ASSUME NEW h \in Actor, ReadSettings(h) PROVE HolderOK'
  <2>1. hd[h].at = "settings" /\ UNCHANGED <<peers, lastPeer>>
    BY <1>13 DEF ReadSettings, dbVars
  <2>2. CASE hd' = [hd EXCEPT ![h] = Idle]
    BY <2>1, <2>2, IdleIs, MoveKeepsHolders
  <2>3. CASE hd' = [hd EXCEPT ![h].at = IF h = Boot THEN "snapshot" ELSE "list"]
    <3>1. /\ hd'[h].peer = hd[h].peer /\ hd'[h].ip = hd[h].ip
          /\ hd'[h].todo = hd[h].todo /\ hd'[h].add = hd[h].add
          /\ hd'[h].at = IF h = Boot THEN "snapshot" ELSE "list"
          /\ \A g \in Actor : g # h => hd'[g] = hd[g]
      BY <1>1, <2>3 DEF Local
    <3>2. CASE h # Boot
      BY <2>1, <3>1, <3>2, ActorIs, HoldersKept
    <3>3. CASE h = Boot
      BY <2>1, <3>1, <3>3, ActorIs DEF HolderOK, Unique, About
    <3> QED BY <3>2, <3>3
  <2> QED BY <1>13, <2>2, <2>3 DEF ReadSettings
<1>6. ASSUME NEW h \in Actor, List(h) PROVE HolderOK'
  <2>1. h # Boot /\ h \in Handler /\ hd[h].at = "list" /\ UNCHANGED <<peers, lastPeer>>
    BY <1>6, ActorIs DEF List, Inv, LocalsOK, dbVars, Actor
  <2>2. hd'[h].peer = hd[h].peer /\ hd'[h].ip = hd[h].ip /\ \A g \in Actor : g # h => hd'[g] = hd[g]
    BY <1>1, <1>6 DEF List, Local
  <2> QED BY <2>1, <2>2, ActorIs, HoldersKept
<1>7. ASSUME NEW h \in Actor, Call(h) PROVE HolderOK'
  <2>1. PICK c \in Conn, l \in Local :
              /\ hd' = [hd EXCEPT ![h] = l]
              /\ l.at = "send" /\ l.conn = c /\ l.ip = hd[h].ip /\ l.add = hd[h].add
              /\ l.todo = hd[h].todo /\ l.peer = hd[h].peer
    BY <1>7, CallIs
  <2>2. hd[h].at = "call" /\ UNCHANGED <<peers, lastPeer>>
    BY <1>7 DEF Call, dbVars
  <2> QED BY <2>1, <2>2, MoveKeepsHolders
<1>8. ASSUME NEW h \in Actor, Send(h) PROVE HolderOK'
  <2>1. PICK c \in Conn, l \in Local :
              /\ hd' = [hd EXCEPT ![h] = l]
              /\ l.at = "wait" /\ l.conn = c /\ l.ip = hd[h].ip /\ l.add = hd[h].add
              /\ l.todo = hd[h].todo /\ l.peer = hd[h].peer
    BY <1>8, SendIs
  <2>2. hd[h].at = "send" /\ UNCHANGED <<peers, lastPeer>>
    BY <1>8 DEF Send, dbVars
  <2> QED BY <2>1, <2>2, MoveKeepsHolders
<1>9. ASSUME NEW h \in Actor, CallFails(h) \/ Receive(h) \/ GiveUp(h) PROVE HolderOK'
  <2>1. hd[h].at # "idle" /\ UNCHANGED <<peers, lastPeer>> /\ hd' = [hd EXCEPT ![h] = Idle]
    BY <1>9 DEF CallFails, Receive, GiveUp, CallReturned, dbVars
  <2> QED BY <2>1, IdleIs, MoveKeepsHolders
<1>10. CASE Restore
  <2>1. /\ \A h \in Handler : hd'[h] = hd[h]
        /\ UNCHANGED <<peers, lastPeer>>
    BY <1>1, <1>10, ActorIs DEF Restore, Snapshot, Scan, EndScan, dbVars
  <2>2. CASE NothingRead
    BY <2>1, <2>2, HoldersKept
  <2>3. CASE Snapshot
    <3>1. CASE hd' = [hd EXCEPT ![Boot] = Idle]
      BY <1>1, <2>2, <3>1, StartsEmpty, ActorIs DEF NothingRead
    <3>2. CASE hd' = [hd EXCEPT ![Boot].at = "scan", ![Boot].todo = DOMAIN peers]
      <4>1. hd'[Boot].at = "scan" /\ hd'[Boot].todo = DOMAIN peers /\ hd'[Boot].add = hd[Boot].add
        BY <1>1, <3>2, ActorIs DEF Local
      <4>2. hd[Boot].add = <<>>
        BY <2>3 DEF Snapshot, HolderOK
      <4>3. \A ip : About(ip, <<>>) = {}
        BY DEF About
      <4>4. DOMAIN peers \subseteq 1..lastPeer
        BY <1>1 DEF TablesOK
      <4>5. \A p \in hd'[Boot].todo : p \in DOMAIN peers => About(peers[p], hd'[Boot].add) = {}
        BY <4>1, <4>2, <4>3
      <4> QED BY <2>1, <4>1, <4>4, <4>5 DEF HolderOK, Unique, About
    <3> QED BY <2>3, <3>1, <3>2 DEF Snapshot
  <2>4. CASE Scan
    <3>1. PICK p \in hd[Boot].todo :
             \/ hd' = [hd EXCEPT ![Boot].todo = @ \ {p}]
             \/ /\ p \in DOMAIN peers
                /\ hd' = [hd EXCEPT ![Boot].todo = @ \ {p},
                                    ![Boot].add = @ \o Listed(p, peers[p])]
      BY <2>4 DEF Scan
    <3>2. /\ hd'[Boot].at = "scan" /\ hd'[Boot].todo = hd[Boot].todo \ {p}
          /\ \/ hd'[Boot].add = hd[Boot].add
             \/ p \in DOMAIN peers /\ hd'[Boot].add = hd[Boot].add \o Listed(p, peers[p])
      BY <1>1, <2>4, <3>1, ActorIs DEF Scan, Local
    <3>3. CASE hd'[Boot].add = hd[Boot].add
      BY <2>1, <3>2, <3>3 DEF HolderOK, Unique, About
    <3>4. CASE p \in DOMAIN peers /\ hd'[Boot].add = hd[Boot].add \o Listed(p, peers[p])
      <4>1. PICK i \in Ip : i = peers[p]
        BY <1>1, <3>4 DEF TablesOK
      <4>2. PICK l : l = Listed(p, i)
        OBVIOUS
      <4>3. l \in Seq(Entry) /\ \A k \in 1..Len(l) : l[k].ip = i
        BY <4>2, ListedRanked DEF AllRanked, Ranked, Inv
      <4>4. PICK a \in Seq(Entry) : a = hd[Boot].add
        BY <1>1 DEF Local
      <4>5. ASSUME NEW q \in hd'[Boot].todo, q \in DOMAIN peers
            PROVE  About(peers[q], hd'[Boot].add) = {}
        <5>1. q \in hd[Boot].todo /\ peers[q] # i
          BY <3>2, <3>4, <4>1, <4>5 DEF HolderOK, Unique
        <5>2. PICK j : j = peers[q]
          OBVIOUS
        <5>3. About(j, a) = {} /\ j # i
          BY <4>4, <4>5, <5>1, <5>2 DEF HolderOK
        <5>4. About(j, a \o l) = {}
          BY <4>3, <5>3, NothingJoined
        <5> QED BY <3>4, <4>1, <4>2, <4>4, <5>2, <5>4
      <4> QED BY <2>1, <3>2, <4>5 DEF HolderOK, Unique, About
    <3> QED BY <3>2, <3>3, <3>4
  <2>5. CASE EndScan
    <3> DEFINE l == [hd[Boot] EXCEPT !.at = "call"]
    <3>1. hd'[Boot] \in {Idle, l} /\ hd[Boot].todo = {}
      BY <1>1, <2>5, ActorIs DEF EndScan
    <3>2. l.todo = {} /\ l.at = "call"
      BY <1>1, <3>1 DEF Local
    <3> HIDE DEF l
    <3>3. NothingRead
      BY <3>1, <3>2, StartsEmpty DEF NothingRead
    <3> QED BY <2>2, <3>3
  <2> QED BY <1>10, <2>3, <2>4, <2>5 DEF Restore
<1>11. CASE ManagerCrash \/ Reboot
  <2>1. hd' = Restarted /\ UNCHANGED <<peers, lastPeer>>
    BY <1>11 DEF ManagerCrash, Reboot, dbVars
  <2>2. NothingRead
    BY <2>1, StartsEmpty DEF NothingRead
  <2> QED BY <2>1, <2>2, StartsEmpty, HoldersKept
<1>12. CASE Serve \/ WorkerLoop \/ WorkerCrash \/ SaveSettings \/ UNCHANGED vars
  <2>1. UNCHANGED <<peers, lastPeer, hd>>
    BY <1>12 DEF Serve, Start, Ensure, AddChain, Dump, Delete, EndDelete, Add, Finish,
                 WorkerStep, WorkerLoop, WorkerCrash, SaveSettings, dbVars, vars
  <2> QED BY <1>2, <2>1
<1> QED BY <1>3, <1>4, <1>5, <1>6, <1>7, <1>8, <1>9, <1>10, <1>11, <1>12,
           <1>13
        DEF Next, Continue

----------------------------------------------------------------------------
(* What WorkerRpcProofs says of the queue.                                  *)

Live(c) == RpcProofs!Live(c)
Ahead(c, d) == RpcProofs!Ahead(c, d)
Ran(c) == RpcProofs!Ran(c)

\* What the steps that run nothing leave as it was.
Undisturbed ==
    /\ \A c \in Conn : Live(c)' => Live(c) /\ req'[c] = req[c]
    /\ \A c \in Conn : req'[c] # NoRequest => req'[c] = req[c]
    /\ \A c \in Conn : Ran(c)' => Ran(c)
    /\ \A c, d \in Conn : Live(c)' /\ Live(d)' /\ Ahead(c, d) => Ahead(c, d)'

LEMMA SameQueue ==
    ASSUME UNCHANGED rpcVars
    PROVE  /\ \A c : Live(c)' <=> Live(c)
           /\ \A c, d : Ahead(c, d)' <=> Ahead(c, d)
           /\ \A c : Ran(c)' <=> Ran(c)
           /\ req' = req /\ cli' = cli
BY DEF rpcVars, Live, Ahead, Ran, RpcProofs!Live, RpcProofs!Ahead, RpcProofs!Ran,
       RpcProofs!Queued

LEMMA ConnectIsLast ==
    ASSUME Inv, NEW c \in Conn, Rpc!Connect(c)
    PROVE  /\ ~Live(c) /\ req[c] = NoRequest /\ req' = req
           /\ \A d \in Conn : Live(d)' => Live(d) \/ d = c
           /\ \A d \in Conn : Live(d) => Ahead(d, c)'
           /\ \A d, e \in Conn : Ahead(d, e) => Ahead(d, e)'
           /\ \A d \in Conn : Ran(d)' => Ran(d)
<1>1. RpcProofs!IInv /\ RpcProofs!Connect(c)
  BY SameInv DEF Inv, Rpc!Connect, RpcProofs!Connect
<1> QED BY <1>1, RpcProofs!ConnectIsLast, ConnAssumption, RequestAssumption
        DEF Live, Ahead, Ran

LEMMA WriteIsLive ==
    ASSUME Inv, NEW c \in Conn, NEW r, Rpc!Write(c, r)
    PROVE  /\ Live(c) /\ ~Ran(c)' /\ req' = [req EXCEPT ![c] = r]
           /\ \A d : Live(d)' <=> Live(d)
           /\ \A d, e : Ahead(d, e)' <=> Ahead(d, e)
           /\ \A d \in Conn : Ran(d)' => Ran(d)
<1>1. RpcProofs!IInv /\ RpcProofs!Write(c, r) /\ UNCHANGED <<backlog, serving, result>>
  BY SameInv DEF Inv, Rpc!Write, RpcProofs!Write
<1>2. /\ Live(c) /\ ~Ran(c)' /\ req' = [req EXCEPT ![c] = r]
      /\ \A d \in Conn : Ran(d)' => Ran(d)
  BY <1>1, RpcProofs!WriteIsLive, ConnAssumption, RequestAssumption DEF Live, Ran
<1>3. /\ \A d : Live(d)' <=> Live(d)
      /\ \A d, e : Ahead(d, e)' <=> Ahead(d, e)
  BY <1>1, RpcProofs!ClientsKeepOrder, ConnAssumption, RequestAssumption DEF Live, Ahead
<1> QED BY <1>2, <1>3

LEMMA LeavingDisturbsNobody ==
    ASSUME Inv, Rpc!ManagerCrash \/ \E c \in Conn : Rpc!Return(c) \/ Rpc!Timeout(c)
    PROVE  Undisturbed
<1>1. /\ RpcProofs!IInv
      /\ RpcProofs!ManagerCrash \/ \E c \in Conn : RpcProofs!Return(c) \/ RpcProofs!Timeout(c)
  BY SameInv
     DEF Inv, Rpc!ManagerCrash, RpcProofs!ManagerCrash, Rpc!Return, RpcProofs!Return,
         Rpc!Timeout, RpcProofs!Timeout, Rpc!Result, RpcProofs!Result
<1>2. RpcProofs!Undisturbed
  BY <1>1, RpcProofs!LeavingDisturbsNobody, ConnAssumption, RequestAssumption
<1> QED BY <1>2 DEF Undisturbed, RpcProofs!Undisturbed, Live, Ahead, Ran

LEMMA WorkerKeepsOrder ==
    ASSUME Inv,
           \/ Rpc!Accept \/ Rpc!WorkerStart \/ Rpc!WorkerCrash
           \/ \E c \in Conn : Rpc!HandleRequest(c, "err") \/ Rpc!HandleEmpty(c) \/ Rpc!Reply(c)
    PROVE  Undisturbed /\ \A c \in Conn : cli[c] = "free" => cli'[c] = "free"
<1>1. /\ RpcProofs!IInv
      /\ \/ RpcProofs!Accept \/ RpcProofs!WorkerStart \/ RpcProofs!WorkerCrash
         \/ \E c \in Conn : \/ RpcProofs!HandleRequest(c, "err")
                            \/ RpcProofs!HandleEmpty(c) \/ RpcProofs!Reply(c)
  BY SameInv
     DEF Inv, Rpc!Accept, RpcProofs!Accept, Rpc!WorkerStart, RpcProofs!WorkerStart,
         Rpc!WorkerCrash, RpcProofs!WorkerCrash, Rpc!HandleRequest,
         RpcProofs!HandleRequest, Rpc!HandleEmpty, RpcProofs!HandleEmpty,
         Rpc!Reply, RpcProofs!Reply
<1>2. RpcProofs!Undisturbed /\ \A c \in Conn : cli[c] = "free" => cli'[c] = "free"
  BY <1>1, RpcProofs!WorkerKeepsOrder, ConnAssumption, RequestAssumption
<1> QED BY <1>2 DEF Undisturbed, RpcProofs!Undisturbed, Live, Ahead, Ran

LEMMA RunIsFirst ==
    ASSUME Inv, NEW c \in Conn, Rpc!HandleRequest(c, "ok")
    PROVE  /\ Live(c) /\ ~Live(c)' /\ UNCHANGED <<cli, req>> /\ req[c] # NoRequest
           /\ cli[c] \in {"sent", "gone"}
           /\ \A d \in Conn : Live(d)' => Live(d)
           /\ \A d \in Conn : ~Ahead(d, c)
           /\ \A d, e \in Conn : Ahead(d, e)' <=> Ahead(d, e)
           /\ \A d \in Conn : Ran(d)' => Ran(d) \/ d = c
<1>1. RpcProofs!IInv /\ RpcProofs!HandleRequest(c, "ok")
  BY SameInv DEF Inv, Rpc!HandleRequest, RpcProofs!HandleRequest
<1> QED BY <1>1, RpcProofs!RunIsFirst, ConnAssumption, RequestAssumption
        DEF Live, Ahead, Ran

\* Nothing is with a worker that is down, nor with one that runs another's request.
LEMMA DownIsEmpty ==
    ASSUME Inv, ~up
    PROVE  \A c \in Conn : ~Live(c)
BY ConnAssumption DEF Inv, RpcInv, Rpc!EndsAgree, Live, RpcProofs!Live, RpcProofs!Queued

LEMMA ServedIsLive ==
    ASSUME Inv, Serves
    PROVE  serving \in Conn /\ Live(serving) /\ req[serving] # NoRequest /\ Ask \in AclRequest
           /\ up
BY ConnAssumption
   DEF Inv, RpcInv, Rpc!TypeOK, Rpc!EndsAgree, Serves, Ask, Live, RpcProofs!Live

----------------------------------------------------------------------------
(* The invariant.                                                           *)

\* A request that the worker will run, if it lives, and what it rewrites.
Pending(c) == Live(c) /\ req[c] # NoRequest

Rewrites(r, i) == r.reload \/ r.ip = i

\* No such request rewrites the rules of address i.
Settled(i) == \A c \in Conn : Pending(c) => ~Rewrites(req[c], i)

Concerns(h, i) == hd[h].at # "idle" /\ i \in Scope(h)

\* The chain has what the table asks for, and keeps it.
Done(i) == Shows(i, chain, Asked(i)) /\ Settled(i)

\* h's request is the last one that rewrites the rules of i.
LastInLine(h, i) ==
    \A c \in Conn :
        Pending(c) => (Rewrites(req[c], i) /\ c # hd[h].conn => Ahead(c, hd[h].conn))

\* The restore task has the rules of i behind it.
Read(i) == \A p \in hd[Boot].todo : p \in DOMAIN peers => peers[p] # i

\* How far the worker is with the rules of i: while nothing has gone wrong, what is
\* in the chain and what is left to add make up what is asked.
PlaceOK(i) ==
    /\ wk.at \in {"idle", "ensure", "chain", "dump"} => wk.pos = 1
    /\ wk.at \in {"ensure", "chain", "dump", "delete"} => wk.left = Ask.add
    /\ wk.at = "done" => wk.bad
    /\ Ask.reload =>
          /\ wk.at \notin {"dump", "delete"}
          /\ wk.at \in {"ensure", "chain", "add"} /\ ~wk.bad => chain \o wk.left = Ask.add
    /\ ~Ask.reload =>
          /\ wk.at = "delete" => \A k \in 1..Len(chain) : k < wk.pos => chain[k].ip # i
          /\ wk.at = "add" /\ ~wk.bad =>
                \E d \in Seq(Entry) : Ask.add = d \o wk.left /\ Shows(i, chain, d)

OnCourse(h, i) ==
    /\ h # Boot /\ hd[h].at \in {"settings", "list"} =>
          hd[h].peer \in DOMAIN peers \/ Asked(i) = <<>>
    /\ h = Boot /\ hd[h].at \in {"settings", "snapshot"} => Done(i)
    /\ h = Boot /\ hd[h].at = "scan" =>
          /\ Read(i) => Shows(i, hd[h].add, Asked(i))
          /\ ~Read(i) \/ Asked(i) = <<>> => Done(i)
    /\ hd[h].at \in {"call", "send", "wait"} => Shows(i, hd[h].add, Asked(i))
    /\ hd[h].at \in {"send", "wait"} /\ Live(hd[h].conn) => LastInLine(h, i)
    /\ hd[h].at = "wait" /\ serving = hd[h].conn /\ result = "none" => PlaceOK(i)
    /\ hd[h].at = "wait" /\ Ran(hd[h].conn) => Done(i)

\* Address i is in line, or the one request about it is bringing it back into line.
Good(i) ==
    /\ \A g, h \in Actor : Concerns(g, i) /\ Concerns(h, i) => g = h
    /\ \A h \in Actor : Concerns(h, i) => OnCourse(h, i)
    /\ (\A h \in Actor : ~Concerns(h, i)) => Done(i)

AppInv == OwnInv /\ OwnerOK /\ HolderOK /\ \A i \in Ip \ drift : Good(i)

----------------------------------------------------------------------------
(* Steps that leave an address alone, and steps of the one it concerns.     *)

\* Only h, if anyone, is left with address i.
LEMMA Alone ==
    ASSUME NEW i, NEW h \in Actor, \A g \in Actor : g # h => ~Concerns(g, i)',
           Concerns(h, i)' => OnCourse(h, i)',
           ~Concerns(h, i)' => Done(i)'
    PROVE  Good(i)'
BY DEF Good

\* What the table asks of i, and those that are about it, stay; no request that
\* rewrites its rules is new or runs.
Aside(i) ==
    /\ Asked(i)' = Asked(i)
    /\ \A g \in Actor : Concerns(g, i) \/ Concerns(g, i)' => hd'[g] = hd[g]
    /\ Shows(i, chain, Asked(i)) => Shows(i, chain', Asked(i))
    /\ \A c \in Conn : Pending(c)' => (Pending(c) /\ req'[c] = req[c]) \/ ~Rewrites(req'[c], i)
    /\ \A g \in Actor : Concerns(g, i) =>
          /\ g # Boot /\ hd[g].at \in {"settings", "list"} /\ hd[g].peer \in DOMAIN peers =>
                hd[g].peer \in DOMAIN peers' \/ Asked(i) = <<>>
          /\ g = Boot /\ hd[g].at = "scan" =>
                /\ Read(i) => Read(i)'
                /\ Read(i)' => Read(i) \/ Shows(i, hd[g].add, Asked(i))
          /\ hd[g].at \in {"send", "wait"} =>
                /\ Live(hd[g].conn)' => Live(hd[g].conn)
                /\ Ran(hd[g].conn)' => Ran(hd[g].conn)
                /\ \A c \in Conn :
                      Pending(c) /\ Live(c)' /\ Live(hd[g].conn)' /\ Ahead(c, hd[g].conn)
                         => Ahead(c, hd[g].conn)'
          /\ hd[g].at = "wait" /\ serving' = hd[g].conn /\ result' = "none" =>
                \/ PlaceOK(i)'
                \/ serving = hd[g].conn /\ result = "none" /\ (PlaceOK(i) => PlaceOK(i)')

LEMMA AsideIsGood ==
    ASSUME Inv, NEW i, Aside(i), Good(i)
    PROVE  Good(i)'
<1>1. ASSUME NEW g \in Actor PROVE Concerns(g, i)' <=> Concerns(g, i)
  BY DEF Aside, Concerns, Scope
<1>2. Done(i) => Done(i)'
  BY DEF Aside, Done, Settled
<1>3. ASSUME NEW g \in Actor, Concerns(g, i) PROVE OnCourse(g, i)'
  <2>1. hd'[g] = hd[g] /\ OnCourse(g, i)
    BY <1>3 DEF Aside, Good
  <2>2. CASE hd[g].at \in {"idle", "settings", "list", "snapshot", "call"} \/ (g # Boot /\ hd[g].at = "scan")
    BY <1>2, <1>3, <2>1, <2>2 DEF OnCourse, Aside
  <2>3. CASE g = Boot /\ hd[g].at = "scan"
    <3>1. Read(i)' => Shows(i, hd[g].add, Asked(i))
      BY <1>3, <2>1, <2>3 DEF OnCourse, Aside
    <3>2. Shows(i, hd[g].add, Asked(i)) => Shows(i, hd'[g].add, Asked(i)')
      BY <2>1 DEF Aside
    <3>3. ~Read(i)' \/ Asked(i)' = <<>> => ~Read(i) \/ Asked(i) = <<>>
      BY <1>3, <2>3 DEF Aside
    <3>4. ~Read(i)' \/ Asked(i)' = <<>> => Done(i)'
      BY <1>2, <2>1, <2>3, <3>3 DEF OnCourse
    <3> QED BY <2>1, <2>3, <3>1, <3>2, <3>4 DEF OnCourse
  <2>4. CASE hd[g].at \in {"send", "wait"}
    <3>1. PICK d \in Conn : hd[g].conn = d
      BY <2>4 DEF Inv, LocalsOK
    <3>2. ASSUME Live(d)' PROVE LastInLine(g, i)'
      <4>1. LastInLine(g, i)
        BY <1>3, <2>1, <2>4, <3>1, <3>2 DEF OnCourse, Aside
      <4>2. ASSUME NEW c \in Conn, Pending(c)', Rewrites(req'[c], i), c # d PROVE Ahead(c, d)'
        <5>1. Pending(c) /\ req'[c] = req[c] /\ Live(c)'
          BY <4>2 DEF Aside, Pending
        <5>2. Ahead(c, d)
          BY <3>1, <4>1, <4>2, <5>1 DEF LastInLine
        <5> QED BY <1>3, <2>4, <3>1, <3>2, <5>1, <5>2 DEF Aside
      <4> QED BY <2>1, <3>1, <4>2 DEF LastInLine
    <3>3. hd[g].at = "wait" /\ serving' = d /\ result' = "none" => PlaceOK(i)'
      BY <1>3, <2>1, <3>1 DEF OnCourse, Aside
    <3>4. hd[g].at = "wait" /\ Ran(d)' => Done(i)'
      BY <1>2, <1>3, <2>1, <3>1 DEF OnCourse, Aside
    <3>5. Shows(i, hd[g].add, Asked(i))
      BY <2>1, <2>4 DEF OnCourse
    <3>6. Shows(i, hd'[g].add, Asked(i)')
      BY <2>1, <3>5 DEF Aside
    <3> QED BY <2>1, <2>4, <3>1, <3>2, <3>3, <3>4, <3>6 DEF OnCourse
  <2>5. hd[g].at \in {"idle", "settings", "list", "snapshot", "call", "scan", "send", "wait"}
    BY DEF Inv, TypeOK, Local
  <2> QED BY <2>2, <2>3, <2>4, <2>5
<1> QED BY <1>1, <1>2, <1>3 DEF Good

LEMMA SameAsked ==
    ASSUME UNCHANGED <<peers, rules>>, NEW i
    PROVE  Asked(i)' = Asked(i)
BY DEF Asked, Listed, RulesOf, Before

\* An address without rules.
AskedNothing ==
    \A i \in Ip : TypeOK /\ Unique =>
        (Asked(i) = <<>> <=> \A p \in DOMAIN peers : peers[p] = i => RulesOf(p) = {})

LEMMA AskedNothingIs == AskedNothing
<1> USE DEF AskedNothing
<1> SUFFICES ASSUME NEW i \in Ip, TypeOK, Unique
             PROVE  Asked(i) = <<>> <=> \A p \in DOMAIN peers : peers[p] = i => RulesOf(p) = {}
  OBVIOUS
<1>1. CASE \A p \in DOMAIN peers : peers[p] # i
  BY <1>1, AskedIs DEF AskedOfNobody
<1>2. ASSUME NEW p \in DOMAIN peers, peers[p] = i
      PROVE  Asked(i) = <<>> <=> \A q \in DOMAIN peers : peers[q] = i => RulesOf(q) = {}
  <2>1. PICK l : l = Listed(p, i)
    OBVIOUS
  <2>2. Asked(i) = l
    BY <1>2, <2>1, AskedIs DEF AskedOfHolder
  <2>3. l = <<>> <=> RulesOf(p) = {}
    BY <2>1, ListedRanked DEF AllRanked, Ranked
  <2>4. \A q \in DOMAIN peers : peers[q] = i => q = p
    BY <1>2 DEF Unique
  <2> QED BY <1>2, <2>2, <2>3, <2>4
<1> QED BY <1>1, <1>2

\* A step that leaves the socket, the chain and the worker alone.
LEMMA TablesAside ==
    ASSUME Inv, NEW i, UNCHANGED <<rpcVars, chain, wk>>, Asked(i)' = Asked(i),
           \A g \in Actor : Concerns(g, i) \/ Concerns(g, i)' => hd'[g] = hd[g],
           \A g \in Actor : Concerns(g, i) =>
              /\ g # Boot /\ hd[g].at \in {"settings", "list"} /\ hd[g].peer \in DOMAIN peers =>
                    hd[g].peer \in DOMAIN peers' \/ Asked(i) = <<>>
              /\ g = Boot /\ hd[g].at = "scan" =>
                    /\ Read(i) => Read(i)'
                    /\ Read(i)' => Read(i) \/ Shows(i, hd[g].add, Asked(i))
    PROVE  Aside(i)
<1>1. /\ \A c : Live(c)' <=> Live(c)
      /\ \A c, d : Ahead(c, d)' <=> Ahead(c, d)
      /\ \A c : Ran(c)' <=> Ran(c)
      /\ req' = req /\ serving' = serving /\ result' = result
  BY SameQueue DEF rpcVars
<1>2. PlaceOK(i)' <=> PlaceOK(i)
  BY <1>1 DEF PlaceOK, Ask
<1>3. \A c : Pending(c)' <=> Pending(c)
  BY <1>1 DEF Pending
<1> QED BY <1>1, <1>2, <1>3 DEF Aside

\* A step that leaves the tables alone; e is the connection it is about.
LEMMA QueueAside ==
    ASSUME Inv, NEW i, NEW e, UNCHANGED <<peers, rules>>,
           Shows(i, chain, Asked(i)) => Shows(i, chain', Asked(i)),
           \A g \in Actor : Concerns(g, i) \/ Concerns(g, i)' => hd'[g] = hd[g],
           \A g \in Actor : Concerns(g, i) /\ hd[g].at \in {"send", "wait"} => hd[g].conn # e,
           hd'[Boot].todo = hd[Boot].todo,
           \A c \in Conn : Pending(c)' => (Pending(c) /\ req'[c] = req[c]) \/ ~Rewrites(req'[c], i),
           \A c \in Conn : Live(c)' => Live(c) \/ c = e,
           \A c \in Conn : Ran(c)' => Ran(c) \/ c = e,
           \A c, d \in Conn : Pending(c) /\ Live(c)' /\ Live(d)' /\ Ahead(c, d) => Ahead(c, d)',
           \A g \in Actor : Concerns(g, i) /\ hd[g].at = "wait" /\ serving' = hd[g].conn /\ result' = "none" =>
                \/ PlaceOK(i)'
                \/ serving = hd[g].conn /\ result = "none" /\ (PlaceOK(i) => PlaceOK(i)')
    PROVE  Aside(i)
<1>1. Asked(i)' = Asked(i)
  BY SameAsked
<1>2. \A g \in Actor : hd[g].at \in {"send", "wait"} => hd[g].conn \in Conn
  BY DEF Inv, LocalsOK
<1>3. Read(i)' <=> Read(i)
  BY DEF Read
<1> QED BY <1>1, <1>2, <1>3 DEF Aside

----------------------------------------------------------------------------
(* Steps of the tables.                                                     *)

LEMMA AppParts ==
    ASSUME AppInv
    PROVE  /\ OwnInv /\ Inv /\ TypeOK /\ LocalsOK /\ TablesOK /\ Unique /\ HolderOK /\ OwnerOK
           /\ hd \in [Actor -> Local] /\ lastPeer \in Nat /\ lastRule \in Nat
           /\ drift \subseteq Ip
BY Parts, BoundAssumption DEF AppInv, OwnInv, Inv, HolderOK, TablesOK

LEMMA CreatePeerIsGood ==
    ASSUME AppInv, Inv', HolderOK', NEW ip \in Ip, CreatePeer(ip), NEW i \in Ip, i \notin drift'
    PROVE  Good(i)'
<1> USE AppParts
<1>1. /\ lastPeer' = lastPeer + 1 /\ UNCHANGED <<rpcVars, rules, chain, wk, hd, drift>>
      /\ DOMAIN peers' = DOMAIN peers \cup {lastPeer'}
      /\ peers'[lastPeer'] = ip
      /\ \A p \in DOMAIN peers : p # lastPeer' /\ peers'[p] = peers[p] /\ peers[p] # ip
  BY DEF CreatePeer, TablesOK
<1>2. TypeOK' /\ Unique' /\ Good(i)
  BY <1>1 DEF Inv, HolderOK, AppInv
<1>3. \A p : RulesOf(p)' = RulesOf(p)
  BY <1>1 DEF RulesOf
<1>4. Asked(i)' = Asked(i)
  <2>1. CASE i # ip
    <3>1. \A p : (p \in DOMAIN peers' /\ peers'[p] = i) <=> (p \in DOMAIN peers /\ peers[p] = i)
      BY <1>1, <2>1
    <3> QED BY <1>1, <1>2, <1>3, <3>1, AskedKept
  <2>2. CASE i = ip
    <3>1. Asked(i) = <<>>
      BY <1>1, <2>2, AskedIs DEF AskedOfNobody
    <3>2. AskedNothing'
      BY AskedNothingIs, PTL
    <3>3. PICK n : n = lastPeer'
      OBVIOUS
    <3>4. n \notin DOMAIN peers
      BY <1>1, <3>3
    <3>5. RulesOf(n) = {}
      BY <3>4 DEF RulesOf, TablesOK
    <3>6. \A p \in DOMAIN peers' : peers'[p] = i => RulesOf(p)' = {}
      BY <1>1, <1>3, <2>2, <3>3, <3>5
    <3>7. Asked(i)' = <<>>
      BY <1>2, <3>2, <3>6 DEF AskedNothing
    <3> QED BY <3>1, <3>7
  <2> QED BY <2>1, <2>2
<1>5. Read(i)' <=> Read(i)
  <2>1. lastPeer' \notin hd[Boot].todo
    BY <1>1 DEF HolderOK
  <2> QED BY <1>1, <2>1 DEF Read
<1>6. \A g \in Actor : hd'[g] = hd[g]
  BY <1>1
<1>7. Aside(i)
  BY <1>1, <1>4, <1>5, <1>6, TablesAside
<1> QED BY <1>2, <1>7, AsideIsGood

LEMMA RemovePeerIsGood ==
    ASSUME AppInv, Inv', HolderOK', NEW p, RemovePeer(p), NEW i \in Ip, i \notin drift'
    PROVE  Good(i)'
<1> USE AppParts
<1>1. /\ UNCHANGED <<rpcVars, chain, wk, hd>> /\ p \in DOMAIN peers
      /\ DOMAIN peers' = DOMAIN peers \ {p}
      /\ \A q \in DOMAIN peers' : peers'[q] = peers[q]
      /\ DOMAIN rules' = DOMAIN rules \ RulesOf(p)
      /\ \A r \in DOMAIN rules' : rules'[r] = rules[r]
      /\ i \notin drift /\ (peers[p] = i => RulesOf(p) = {})
  BY DEF RemovePeer
<1>2. TypeOK' /\ Unique' /\ Good(i)
  BY <1>1 DEF Inv, HolderOK, AppInv
<1>3. ASSUME NEW q, q # p PROVE RulesOf(q)' = RulesOf(q) /\ \A r \in RulesOf(q) : rules'[r] = rules[r]
  BY <1>1, <1>3 DEF RulesOf
<1>4. peers[p] = i => Asked(i) = <<>>
  <2>1. \A q \in DOMAIN peers : peers[q] = peers[p] => q = p
    BY <1>1 DEF Unique
  <2> QED BY <1>1, <2>1, AskedNothingIs DEF AskedNothing
<1>5. Asked(i)' = Asked(i)
  <2>1. CASE peers[p] = i
    <3>1. \A q \in DOMAIN peers' : peers'[q] # i
      BY <1>1, <2>1 DEF Unique
    <3>2. AskedOfNobody'
      BY AskedIs, PTL
    <3> QED BY <1>4, <2>1, <3>1, <3>2 DEF AskedOfNobody
  <2>2. CASE peers[p] # i
    <3>1. \A q : (q \in DOMAIN peers' /\ peers'[q] = i) <=> (q \in DOMAIN peers /\ peers[q] = i)
      BY <1>1, <2>2
    <3>2. \A q \in DOMAIN peers : peers[q] = i =>
             RulesOf(q)' = RulesOf(q) /\ \A r \in RulesOf(q) : rules'[r] = rules[r]
      BY <1>3, <2>2
    <3> QED BY <1>2, <3>1, <3>2, AskedKept
  <2> QED BY <2>1, <2>2
<1>6. ASSUME NEW g \in Actor, Concerns(g, i), g # Boot, hd[g].at \in {"settings", "list"},
             hd[g].peer \in DOMAIN peers
      PROVE  hd[g].peer \in DOMAIN peers' \/ Asked(i) = <<>>
  <2>1. g \in Handler /\ hd[g].ip = i
    BY <1>6, ActorIs DEF LocalsOK, Actor, Concerns, Scope
  <2>2. peers[hd[g].peer] = i
    BY <1>6, <2>1 DEF HolderOK
  <2> QED BY <1>1, <1>4, <1>6, <2>2
<1>7. Read(i) => Read(i)'
  BY <1>1 DEF Read
<1>8. Read(i)' => Read(i) \/ Shows(i, hd[Boot].add, Asked(i))
  <2> SUFFICES ASSUME Read(i)', ~Read(i) PROVE Shows(i, hd[Boot].add, Asked(i))
    OBVIOUS
  <2>1. p \in hd[Boot].todo /\ peers[p] = i
    BY <1>1 DEF Read
  <2>2. PICK a \in Seq(Entry) : a = hd[Boot].add
    BY ActorIs DEF Local
  <2>3. About(i, a) = {}
    BY <1>1, <2>1, <2>2 DEF HolderOK
  <2>4. Shows(i, a, <<>>)
    BY <2>3, ShowsNone
  <2> QED BY <1>4, <2>1, <2>2, <2>4
<1>9. Aside(i)
  BY <1>1, <1>5, <1>6, <1>7, <1>8, TablesAside
<1> QED BY <1>2, <1>9, AsideIsGood

\* Whom an address concerns, when the locals stay.
LEMMA ConcernsKept ==
    ASSUME NEW g \in Actor, hd'[g] = hd[g], NEW i
    PROVE  Concerns(g, i)' <=> Concerns(g, i)
BY DEF Concerns, Scope

\* A request about p begins.
LEMMA BeginIsGood ==
    ASSUME AppInv, NEW h \in Handler, NEW p \in DOMAIN peers, hd[h].at = "idle",
           hd' = [hd EXCEPT ![h] = [Idle EXCEPT !.at = "settings", !.peer = p, !.ip = peers[p]]],
           UNCHANGED <<rpcVars, peers, chain, wk>>, drift \subseteq drift',
           Met(h, peers[p]) \subseteq drift', NEW i \in Ip, i \notin drift',
           peers[p] # i => Asked(i)' = Asked(i)
    PROVE  Good(i)'
<1> USE AppParts
<1> DEFINE l == [Idle EXCEPT !.at = "settings", !.peer = p, !.ip = peers[p]]
<1>1. l.at = "settings" /\ l.peer = p /\ l.ip = peers[p]
  BY DEF Idle
<1> HIDE DEF l
<1>2. hd'[h] = l /\ (\A g \in Actor : g # h => hd'[g] = hd[g]) /\ h \in Actor /\ h # Boot
  BY Moved, ActorIs DEF l
<1>3. Good(i)
  BY DEF AppInv
<1>4. CASE peers[p] = i
  <2>1. ASSUME NEW g \in Actor, g # h PROVE ~Concerns(g, i)'
    <3>1. i \notin Met(h, i)
      BY <1>4
    <3>2. ~Concerns(g, i)
      BY <2>1, <3>1 DEF Met, Meets, Concerns
    <3> QED BY <1>2, <2>1, <3>2, ConcernsKept
  <2>2. OnCourse(h, i)'
    BY <1>1, <1>2 DEF OnCourse
  <2>3. Concerns(h, i)'
    BY <1>1, <1>2, <1>4 DEF Concerns, Scope
  <2> QED BY <1>2, <2>1, <2>2, <2>3, Alone
<1>5. CASE peers[p] # i
  <2>1. ~Concerns(h, i) /\ ~Concerns(h, i)'
    BY <1>1, <1>2, <1>5 DEF Concerns, Scope
  <2>2. \A g \in Actor : Concerns(g, i) \/ Concerns(g, i)' => hd'[g] = hd[g]
    BY <1>2, <2>1
  <2>3. Read(i)' <=> Read(i)
    BY <1>2, ActorIs DEF Read
  <2>4. Aside(i)
    BY <1>5, <2>2, <2>3, TablesAside
  <2> QED BY <1>3, <2>4, AsideIsGood
<1> QED BY <1>4, <1>5

LEMMA BeginAddIsGood ==
    ASSUME AppInv, Inv', HolderOK', NEW h \in Handler, NEW p, NEW prio, BeginAdd(h, p, prio),
           NEW i \in Ip, i \notin drift'
    PROVE  Good(i)'
<1> USE AppParts
<1>1. /\ UNCHANGED <<rpcVars, peers, chain, wk>> /\ p \in DOMAIN peers
      /\ hd[h].at = "idle" /\ drift \subseteq drift'
      /\ DOMAIN rules' = DOMAIN rules \cup {lastRule'} /\ lastRule' = lastRule + 1
      /\ rules'[lastRule'].peer = p
      /\ \A r \in DOMAIN rules : r # lastRule' /\ rules'[r] = rules[r]
  BY DEF BeginAdd, TablesOK
<1>2. TypeOK' /\ Unique' /\ Good(i)
  BY <1>1 DEF Inv, HolderOK, AppInv
<1>3. peers[p] # i => Asked(i)' = Asked(i)
  <2> SUFFICES ASSUME peers[p] # i PROVE Asked(i)' = Asked(i)
    OBVIOUS
  <2>1. ASSUME NEW q \in DOMAIN peers, peers[q] = i
        PROVE  RulesOf(q)' = RulesOf(q) /\ \A r \in RulesOf(q) : rules'[r] = rules[r]
    BY <1>1, <2>1 DEF RulesOf
  <2> QED BY <1>1, <1>2, <2>1, AskedKept
<1>4. CASE UNCHANGED hd
  <2>1. \A g \in Actor : hd'[g] = hd[g]
    BY <1>4
  <2>2. Read(i)' <=> Read(i)
    BY <1>1, <1>4 DEF Read
  <2>3. CASE peers[p] # i
    <3>1. Aside(i)
      BY <1>1, <1>3, <2>1, <2>2, <2>3, TablesAside
    <3> QED BY <1>2, <3>1, AsideIsGood
  <2>4. hd # [hd EXCEPT ![h] = [Idle EXCEPT !.at = "settings", !.peer = p, !.ip = peers[p]]]
    <3> DEFINE l == [Idle EXCEPT !.at = "settings", !.peer = p, !.ip = peers[p]]
    <3>1. l.at = "settings"
      BY DEF Idle
    <3> HIDE DEF l
    <3>2. [hd EXCEPT ![h] = l][h] = l
      BY ActorIs
    <3> QED BY <1>1, <3>1, <3>2 DEF l
  <2>5. peers[p] \in drift'
    BY <1>4, <2>4 DEF BeginAdd
  <2> QED BY <2>3, <2>5
<1>5. CASE ~UNCHANGED hd
  <2>1. /\ hd' = [hd EXCEPT ![h] = [Idle EXCEPT !.at = "settings", !.peer = p, !.ip = peers[p]]]
        /\ Met(h, peers[p]) \subseteq drift'
    BY <1>5 DEF BeginAdd
  <2> QED BY <1>1, <1>3, <2>1, BeginIsGood
<1> QED BY <1>4, <1>5

LEMMA BeginRemoveIsGood ==
    ASSUME AppInv, Inv', HolderOK', NEW h \in Handler, NEW p, NEW r, BeginRemove(h, p, r),
           NEW i \in Ip, i \notin drift'
    PROVE  Good(i)'
<1> USE AppParts
<1>1. /\ UNCHANGED <<rpcVars, peers, chain, wk>> /\ p \in DOMAIN peers
      /\ hd[h].at = "idle" /\ drift \subseteq drift'
      /\ hd' = [hd EXCEPT ![h] = [Idle EXCEPT !.at = "settings", !.peer = p, !.ip = peers[p]]]
      /\ Met(h, peers[p]) \subseteq drift'
      /\ DOMAIN rules' = DOMAIN rules \ {r}
      /\ \A q \in DOMAIN rules' : rules'[q] = rules[q]
      /\ r \in DOMAIN rules /\ rules[r].peer # p => peers[rules[r].peer] \in drift'
  BY DEF BeginRemove
<1>2. TypeOK' /\ Unique'
  BY <1>1 DEF Inv, HolderOK
<1>3. peers[p] # i => Asked(i)' = Asked(i)
  <2> SUFFICES ASSUME peers[p] # i PROVE Asked(i)' = Asked(i)
    OBVIOUS
  <2>1. ASSUME NEW q \in DOMAIN peers, peers[q] = i
        PROVE  RulesOf(q)' = RulesOf(q) /\ \A s \in RulesOf(q) : rules'[s] = rules[s]
    <3>1. r \notin RulesOf(q)
      BY <1>1, <2>1 DEF RulesOf
    <3> QED BY <1>1, <3>1 DEF RulesOf
  <2> QED BY <1>1, <1>2, <2>1, AskedKept
<1> QED BY <1>1, <1>3, BeginIsGood

LEMMA ListIsGood ==
    ASSUME AppInv, NEW h \in Actor, List(h), NEW i \in Ip, i \notin drift'
    PROVE  Good(i)'
<1> USE AppParts
<1>1. /\ hd[h].at = "list" /\ h \in Handler /\ h # Boot /\ hd[h].ip \in Ip
      /\ UNCHANGED <<rpcVars, peers, rules, chain, wk>>
  BY ActorIs DEF List, LocalsOK, Actor, dbVars
<1>2. /\ hd'[h].at = "call" /\ hd'[h].ip = hd[h].ip
      /\ \A g \in Actor : g # h => hd'[g] = hd[g]
  BY <1>1 DEF List, Local
<1>3. Asked(i)' = Asked(i)
  BY <1>1, SameAsked
<1>4. CASE hd[h].ip # i
  <2>1. ~Concerns(h, i) /\ ~Concerns(h, i)'
    BY <1>1, <1>2, <1>4 DEF Concerns, Scope
  <2>2. \A g \in Actor : Concerns(g, i) \/ Concerns(g, i)' => hd'[g] = hd[g]
    BY <1>2, <2>1
  <2>3. Read(i)' <=> Read(i)
    BY <1>1, <1>2, ActorIs DEF Read
  <2>4. Aside(i) /\ i \notin drift
    BY <1>1, <1>3, <1>4, <2>2, <2>3, TablesAside DEF List
  <2> QED BY <2>4, AsideIsGood DEF AppInv
<1>5. CASE hd[h].ip = i
  <2>1. PICK p : p = hd[h].peer
    OBVIOUS
  <2>2. PICK m : m = Listed(p, i)
    OBVIOUS
  <2>3. /\ hd'[h].add = m
        /\ \/ p \in DOMAIN peers /\ ~Meets(h, i)
           \/ i \notin drift
    BY <1>1, <1>5, <2>1, <2>2 DEF List, Local
  <2>4. Concerns(h, i)
    BY <1>1, <1>5 DEF Concerns, Scope
  <2>5. i \notin drift => Good(i) /\ ~Meets(h, i)
    <3> SUFFICES ASSUME i \notin drift PROVE Good(i) /\ ~Meets(h, i)
      OBVIOUS
    <3>1. Good(i)
      BY DEF AppInv
    <3> QED BY <2>4, <3>1 DEF Good, Meets, Concerns
  <2>6. ASSUME NEW g \in Actor, g # h PROVE ~Concerns(g, i)'
    <3>1. ~Concerns(g, i)
      BY <2>3, <2>5, <2>6 DEF Meets, Concerns
    <3> QED BY <1>2, <2>6, <3>1, ConcernsKept
  <2>7. Shows(i, m, Asked(i))
    <3>1. Ranked(m, p, i)
      BY <2>2, ListedRanked DEF AllRanked
    <3>2. CASE p \in DOMAIN peers
      <4>1. peers[p] = i
        BY <1>1, <1>5, <2>1, <3>2 DEF HolderOK
      <4>2. Asked(i) = m
        BY <2>2, <3>2, <4>1, AskedIs DEF AskedOfHolder
      <4> QED BY <3>1, <4>2, AskedType, ShowsOwn DEF Ranked
    <3>3. CASE p \notin DOMAIN peers
      <4>1. RulesOf(p) = {}
        BY <3>3 DEF RulesOf, TablesOK
      <4>2. m = <<>> /\ m \in Seq(Entry)
        BY <3>1, <4>1 DEF Ranked
      <4>3. Asked(i) = <<>>
        BY <1>1, <2>1, <2>3, <2>4, <2>5, <3>3 DEF Good, OnCourse
      <4>4. About(i, m) = {}
        BY <4>2 DEF About
      <4> QED BY <4>2, <4>3, <4>4, ShowsNone
    <3> QED BY <3>2, <3>3
  <2>8. Shows(i, hd'[h].add, Asked(i)')
    BY <1>3, <2>3, <2>7
  <2>9. OnCourse(h, i)' /\ Concerns(h, i)'
    BY <1>1, <1>2, <1>5, <2>8 DEF OnCourse, Concerns, Scope
  <2> QED BY <2>6, <2>9, Alone
<1> QED BY <1>4, <1>5

\* What stays done.
LEMMA DoneKept ==
    ASSUME NEW i, UNCHANGED <<rpcVars, chain>>, Asked(i)' = Asked(i), Done(i)
    PROVE  Done(i)'
<1>1. (\A c : Live(c)' <=> Live(c)) /\ req' = req
  BY SameQueue
<1>2. \A c : Pending(c)' <=> Pending(c)
  BY <1>1 DEF Pending
<1> QED BY <1>1, <1>2 DEF Done, Settled

\* While the restore task runs no other request is about an address that is not marked.
LEMMA BootIsAlone ==
    ASSUME AppInv, hd[Boot].at # "idle", NEW i \in Ip, i \notin drift,
           \A g \in Handler : hd'[g] = hd[g]
    PROVE  /\ Good(i) /\ OnCourse(Boot, i)
           /\ \A g \in Actor : g # Boot => ~Concerns(g, i) /\ ~Concerns(g, i)'
<1>1. Good(i) /\ Concerns(Boot, i) /\ Boot \in Actor
  BY ActorIs, AppParts DEF AppInv, Concerns, Scope
<1>2. ASSUME NEW g \in Actor, g # Boot PROVE ~Concerns(g, i) /\ ~Concerns(g, i)'
  <2>1. ~Concerns(g, i) /\ hd'[g] = hd[g]
    BY <1>1, <1>2 DEF Good, Actor
  <2> QED BY <2>1, ConcernsKept
<1> QED BY <1>1, <1>2 DEF Good

\* A request that moves on is about the same addresses.
LEMMA SameScope ==
    ASSUME NEW h \in Actor, hd[h].at # "idle", hd'[h].at # "idle", hd'[h].ip = hd[h].ip, NEW i
    PROVE  Concerns(h, i)' <=> Concerns(h, i)
BY DEF Concerns, Scope

\* The one request that address i concerns.
LEMMA OnlyOne ==
    ASSUME NEW i, Good(i), NEW h \in Actor, Concerns(h, i),
           \A g \in Actor : g # h => hd'[g] = hd[g]
    PROVE  OnCourse(h, i) /\ \A g \in Actor : g # h => ~Concerns(g, i) /\ ~Concerns(g, i)'
<1>1. \A g \in Actor : g # h => ~Concerns(g, i)
  BY DEF Good
<1> QED BY <1>1, ConcernsKept DEF Good

\* The settings are read.
LEMMA ReadSettingsIsGood ==
    ASSUME AppInv, NEW h \in Actor, ReadSettings(h), NEW i \in Ip, i \notin drift'
    PROVE  Good(i)'
<1> USE AppParts
<1>1. /\ hd[h].at = "settings" /\ hd[h] \in Local
      /\ UNCHANGED <<rpcVars, peers, rules, chain, wk>>
      /\ drift \subseteq drift' /\ i \notin drift
  BY DEF ReadSettings, dbVars
<1>2. PICK l \in Local :
         /\ hd' = [hd EXCEPT ![h] = l]
         /\ \/ /\ l.at = IF h = Boot THEN "snapshot" ELSE "list"
               /\ l.peer = hd[h].peer /\ l.ip = hd[h].ip /\ l.todo = hd[h].todo
            \/ /\ l = Idle
               /\ h # Boot => i \notin Scope(h)
  <2>1. CASE socket
    <3> DEFINE m == [hd[h] EXCEPT !.at = IF h = Boot THEN "snapshot" ELSE "list"]
    <3>1. /\ m \in Local /\ m.at = IF h = Boot THEN "snapshot" ELSE "list"
          /\ m.peer = hd[h].peer /\ m.ip = hd[h].ip /\ m.todo = hd[h].todo
      BY <1>1 DEF Local
    <3>2. hd' = [hd EXCEPT ![h] = m]
      BY <2>1 DEF ReadSettings
    <3> QED BY <3>1, <3>2
  <2>2. CASE ~socket
    <3>1. hd' = [hd EXCEPT ![h] = Idle] /\ (h # Boot => i \notin Scope(h))
      BY <2>2 DEF ReadSettings
    <3> QED BY <3>1, IdleIs
  <2> QED BY <2>1, <2>2
<1>3. hd'[h] = l /\ \A g \in Actor : g # h => hd'[g] = hd[g]
  BY <1>2, Moved
<1>4. Good(i) /\ Asked(i)' = Asked(i)
  BY <1>1, SameAsked DEF AppInv
<1>5. CASE ~Concerns(h, i)
  <2>1. h # Boot
    BY <1>1, <1>5 DEF Concerns, Scope
  <2>2. ~Concerns(h, i)'
    BY <1>1, <1>2, <1>3, <1>5, <2>1, IdleIs DEF Concerns, Scope
  <2>3. \A g \in Actor : Concerns(g, i) \/ Concerns(g, i)' => hd'[g] = hd[g]
    BY <1>3, <1>5, <2>2
  <2>4. Read(i)' <=> Read(i)
    BY <1>1, <1>3, <2>1, ActorIs DEF Read
  <2>5. Aside(i)
    BY <1>1, <1>4, <2>3, <2>4, TablesAside
  <2> QED BY <1>4, <2>5, AsideIsGood
<1>6. CASE Concerns(h, i)
  <2>1. OnCourse(h, i) /\ \A g \in Actor : g # h => ~Concerns(g, i)'
    BY <1>3, <1>4, <1>6, OnlyOne
  <2>2. CASE h = Boot
    <3>1. Done(i)'
      BY <1>1, <1>4, <2>1, <2>2, DoneKept DEF OnCourse
    <3>2. OnCourse(h, i)'
      BY <1>2, <1>3, <2>2, <3>1, IdleIs DEF OnCourse
    <3> QED BY <2>1, <3>1, <3>2, Alone
  <2>3. CASE h # Boot
    <3>1. l.at = "list" /\ l.peer = hd[h].peer /\ l.ip = hd[h].ip
      BY <1>2, <1>6, <2>3 DEF Concerns
    <3>2. OnCourse(h, i)'
      BY <1>1, <1>3, <1>4, <2>1, <2>3, <3>1 DEF OnCourse
    <3>3. Concerns(h, i)'
      BY <1>1, <1>3, <1>6, <3>1, SameScope
    <3> QED BY <2>1, <3>2, <3>3, Alone
  <2> QED BY <2>2, <2>3
<1> QED BY <1>5, <1>6

LEMMA SnapshotIsGood ==
    ASSUME AppInv, Snapshot, NEW i \in Ip, i \notin drift'
    PROVE  Good(i)'
<1> USE AppParts
<1>1. /\ hd[Boot].at = "snapshot" /\ Boot \in Actor
      /\ UNCHANGED <<rpcVars, peers, rules, chain, wk, drift>>
      /\ \A g \in Handler : hd'[g] = hd[g]
  BY ActorIs DEF Snapshot, dbVars
<1>2. /\ OnCourse(Boot, i)
      /\ \A g \in Actor : g # Boot => ~Concerns(g, i)'
  BY <1>1, BootIsAlone
<1>3. Asked(i)' = Asked(i)
  BY <1>1, SameAsked
<1>4. Done(i) /\ Done(i)'
  BY <1>1, <1>2, <1>3, DoneKept DEF OnCourse
<1>5. CASE hd' = [hd EXCEPT ![Boot] = Idle]
  <2>1. ~Concerns(Boot, i)'
    BY <1>1, <1>5, IdleIs DEF Concerns
  <2> QED BY <1>1, <1>2, <1>4, <2>1, Alone
<1>6. CASE hd' = [hd EXCEPT ![Boot].at = "scan", ![Boot].todo = DOMAIN peers]
  <2>1. hd'[Boot].at = "scan" /\ hd'[Boot].todo = DOMAIN peers /\ hd'[Boot].add = hd[Boot].add
    BY <1>1, <1>6 DEF Local
  <2>2. Read(i)' => Shows(i, hd'[Boot].add, Asked(i)')
    <3> SUFFICES ASSUME Read(i)' PROVE Shows(i, hd'[Boot].add, Asked(i)')
      OBVIOUS
    <3>1. \A p \in DOMAIN peers : peers[p] # i
      BY <1>1, <2>1 DEF Read
    <3>2. Asked(i) = <<>> /\ hd[Boot].add = <<>>
      BY <1>1, <3>1, AskedIs DEF AskedOfNobody, HolderOK
    <3>3. About(i, <<>>) = {} /\ <<>> \in Seq(Entry)
      BY DEF About
    <3> QED BY <1>3, <2>1, <3>2, <3>3, ShowsNone
  <2>3. OnCourse(Boot, i)' /\ Concerns(Boot, i)'
    BY <1>4, <2>1, <2>2 DEF OnCourse, Concerns, Scope
  <2> QED BY <1>1, <1>2, <2>3, Alone
<1> QED BY <1>5, <1>6 DEF Snapshot

LEMMA EndScanIsGood ==
    ASSUME AppInv, EndScan, NEW i \in Ip, i \notin drift'
    PROVE  Good(i)'
<1> USE AppParts
<1>1. /\ hd[Boot].at = "scan" /\ hd[Boot].todo = {} /\ Boot \in Actor /\ hd[Boot] \in Local
      /\ UNCHANGED <<rpcVars, peers, rules, chain, wk, drift>>
      /\ \A g \in Handler : hd'[g] = hd[g]
  BY ActorIs DEF EndScan, dbVars
<1>2. /\ OnCourse(Boot, i)
      /\ \A g \in Actor : g # Boot => ~Concerns(g, i)'
  BY <1>1, BootIsAlone
<1>3. Asked(i)' = Asked(i)
  BY <1>1, SameAsked
<1>4. PICK a \in Seq(Entry) : a = hd[Boot].add
  BY <1>1 DEF Local
<1>5. Shows(i, a, Asked(i))
  BY <1>1, <1>2, <1>4 DEF OnCourse, Read
<1>6. CASE a = <<>>
  <2>1. hd'[Boot] = Idle
    BY <1>1, <1>4, <1>6 DEF EndScan
  <2>2. ~Concerns(Boot, i)'
    BY <1>1, <2>1, IdleIs DEF Concerns
  <2>3. PICK o \in Seq(Entry) : o = Asked(i)
    BY AskedType
  <2>4. About(i, a) = {}
    BY <1>6 DEF About
  <2>5. o = <<>>
    BY <1>5, <2>3, <2>4, NothingShown
  <2>6. Done(i) /\ Done(i)'
    BY <1>1, <1>2, <1>3, <2>3, <2>5, DoneKept DEF OnCourse
  <2> QED BY <1>1, <1>2, <2>2, <2>6, Alone
<1>7. CASE a # <<>>
  <2>1. hd'[Boot].at = "call" /\ hd'[Boot].add = a
    BY <1>1, <1>4, <1>7 DEF EndScan, Local
  <2>2. Shows(i, hd'[Boot].add, Asked(i)')
    BY <1>3, <1>5, <2>1
  <2>3. OnCourse(Boot, i)' /\ Concerns(Boot, i)'
    BY <2>1, <2>2 DEF OnCourse, Concerns, Scope
  <2> QED BY <1>1, <1>2, <2>3, Alone
<1> QED BY <1>6, <1>7

LEMMA ScanIsGood ==
    ASSUME AppInv, Scan, NEW i \in Ip, i \notin drift'
    PROVE  Good(i)'
<1> USE AppParts
<1>1. /\ hd[Boot].at = "scan" /\ Boot \in Actor /\ hd[Boot] \in Local
      /\ UNCHANGED <<rpcVars, peers, rules, chain, wk>>
      /\ \A g \in Handler : hd'[g] = hd[g]
  BY ActorIs DEF Scan, dbVars
<1>2. Asked(i)' = Asked(i)
  BY <1>1, SameAsked
<1>3. PICK a \in Seq(Entry) : a = hd[Boot].add
  BY <1>1 DEF Local
<1>4. PICK p \in hd[Boot].todo :
         \/ /\ p \notin DOMAIN peers \/ RulesOf(p) = {}
            /\ hd' = [hd EXCEPT ![Boot].todo = @ \ {p}]
            /\ UNCHANGED drift
         \/ /\ p \in DOMAIN peers /\ RulesOf(p) # {}
            /\ hd' = [hd EXCEPT ![Boot].todo = @ \ {p}, ![Boot].add = @ \o Listed(p, peers[p])]
            /\ drift' = IF Meets(Boot, peers[p]) THEN drift ELSE drift \ {peers[p]}
         \/ /\ p \in DOMAIN peers
            /\ hd' = [hd EXCEPT ![Boot].todo = @ \ {p}]
            /\ drift' = drift \cup {peers[p]}
  BY DEF Scan
<1>5. hd'[Boot].at = "scan" /\ hd'[Boot].todo = hd[Boot].todo \ {p} /\ Concerns(Boot, i)'
  <2>1. hd'[Boot].at = "scan" /\ hd'[Boot].todo = hd[Boot].todo \ {p}
    BY <1>1, <1>4 DEF Local
  <2> QED BY <2>1 DEF Concerns, Scope
<1>6. i \notin drift =>
         /\ OnCourse(Boot, i)
         /\ \A g \in Actor : g # Boot => ~Concerns(g, i) /\ ~Concerns(g, i)'
  BY <1>1, BootIsAlone
<1>7. Done(i) => Done(i)'
  BY <1>1, <1>2, DoneKept
\* the rules of p are read, and p has address i
<1>8. CASE p \in DOMAIN peers /\ peers[p] = i /\ RulesOf(p) # {}
  <2>1. PICK l : l = Listed(p, i)
    OBVIOUS
  <2>2. /\ hd'[Boot].add = a \o l
        /\ \/ ~Meets(Boot, i)
           \/ i \notin drift
    BY <1>1, <1>3, <1>4, <1>8, <2>1 DEF Local
  <2>3. ASSUME NEW g \in Actor, g # Boot PROVE ~Concerns(g, i)'
    <3>1. CASE i \notin drift
      BY <1>6, <2>3, <3>1
    <3>2. CASE ~Meets(Boot, i)
      <4>1. ~Concerns(g, i)
        BY <2>3, <3>2 DEF Meets, Concerns
      <4> QED BY <1>1, <2>3, <4>1, ConcernsKept DEF Actor
    <3> QED BY <2>2, <3>1, <3>2
  <2>4. Asked(i) = l
    BY <1>8, <2>1, AskedIs DEF AskedOfHolder
  <2>5. l \in Seq(Entry) /\ Own(l, i)
    BY <2>4, AskedType
  <2>6. Shows(i, l, l) /\ About(i, a) = {}
    BY <1>3, <1>8, <2>5, ShowsOwn DEF HolderOK
  <2>7. Shows(i, a \o l, l)
    BY <2>5, <2>6, ShowsBehind
  <2>8. Shows(i, hd'[Boot].add, Asked(i)')
    BY <1>2, <2>2, <2>4, <2>7
  <2>9. Read(i)'
    BY <1>1, <1>5, <1>8 DEF Read, Unique
  <2>10. Asked(i)' # <<>>
    BY <1>2, <1>8, AskedNothingIs DEF AskedNothing
  <2>11. OnCourse(Boot, i)'
    BY <1>5, <2>8, <2>9, <2>10 DEF OnCourse
  <2> QED BY <1>1, <1>5, <2>3, <2>11, Alone
\* p has address i, and no rules
<1>9. CASE p \in DOMAIN peers /\ peers[p] = i /\ RulesOf(p) = {}
  <2>1. i \notin drift /\ hd'[Boot].add = a
    BY <1>1, <1>3, <1>4, <1>9 DEF Local
  <2>2. ~Read(i)
    BY <1>9 DEF Read
  <2>3. Done(i)'
    BY <1>1, <1>6, <1>7, <2>1, <2>2 DEF OnCourse
  <2>4. About(i, a) = {}
    BY <1>3, <1>9 DEF HolderOK
  <2>5. Asked(i) = <<>>
    BY <1>9, AskedNothingIs DEF AskedNothing, Unique
  <2>6. Shows(i, hd'[Boot].add, Asked(i)')
    BY <1>2, <2>1, <2>4, <2>5, ShowsNone
  <2>7. OnCourse(Boot, i)'
    BY <1>5, <2>3, <2>6 DEF OnCourse
  <2> QED BY <1>1, <1>5, <1>6, <2>1, <2>7, Alone
\* p has another address
<1>10. CASE p \notin DOMAIN peers \/ peers[p] # i
  <2>1. i \notin drift
    BY <1>4, <1>10
  <2>2. Read(i)' <=> Read(i)
    BY <1>1, <1>5, <1>10 DEF Read
  <2>3. Shows(i, a, Asked(i)) => Shows(i, hd'[Boot].add, Asked(i))
    <3>1. CASE hd'[Boot].add = a
      BY <3>1
    <3>2. CASE p \in DOMAIN peers /\ hd'[Boot].add = a \o Listed(p, peers[p])
      <4>1. PICK j \in Ip : j = peers[p]
        BY <3>2 DEF TablesOK
      <4>2. PICK l : l = Listed(p, j)
        OBVIOUS
      <4>3. l \in Seq(Entry) /\ \A k \in 1..Len(l) : l[k].ip = j
        BY <4>2, ListedRanked DEF AllRanked, Ranked
      <4>4. About(i, l) = {}
        BY <1>10, <3>2, <4>1, <4>3, ListIs DEF About
      <4>5. Shows(i, a, Asked(i)) => Shows(i, a \o l, Asked(i))
        BY <4>3, <4>4, ShowsBefore
      <4> QED BY <3>2, <4>1, <4>2, <4>5
    <3>3. hd'[Boot].add = a \/ (p \in DOMAIN peers /\ hd'[Boot].add = a \o Listed(p, peers[p]))
      BY <1>1, <1>3, <1>4 DEF Local
    <3> QED BY <3>1, <3>2, <3>3
  <2>4. Read(i)' => Shows(i, hd'[Boot].add, Asked(i)')
    BY <1>1, <1>2, <1>3, <1>6, <2>1, <2>2, <2>3 DEF OnCourse
  <2>5. ~Read(i)' \/ Asked(i)' = <<>> => Done(i)'
    BY <1>1, <1>2, <1>6, <1>7, <2>1, <2>2 DEF OnCourse
  <2>6. OnCourse(Boot, i)'
    BY <1>5, <2>4, <2>5 DEF OnCourse
  <2> QED BY <1>1, <1>5, <1>6, <2>1, <2>6, Alone
<1> QED BY <1>8, <1>9, <1>10

----------------------------------------------------------------------------
(* Steps of the requests.                                                   *)

\* The connections of those that wait are theirs.
LEMMA WaitingConn ==
    ASSUME AppInv, NEW g \in Actor, hd[g].at \in {"send", "wait"}
    PROVE  /\ hd[g].conn \in Conn /\ hd[g].conn # NoConn
           /\ cli[hd[g].conn] \in {"connected", "sent", "ok", "err"}
           /\ \A h \in Actor : h # g /\ hd[h].at \in {"send", "wait"} => hd[h].conn # hd[g].conn
BY AppParts, ConnAssumption DEF LocalsOK, OwnerOK

\* The request that is run is h's only if h waits for it.
LEMMA ServedOwner ==
    ASSUME AppInv, Serves, NEW g \in Actor, hd[g].at \in {"send", "wait"}, hd[g].conn = serving
    PROVE  hd[g].at = "wait" /\ Ask = RequestOf(g)
BY AppParts DEF OwnerOK, Serves, Ask

\* Steps of a request that address i does not concern.
LEMMA OthersAside ==
    ASSUME AppInv, NEW i, NEW h \in Actor, ~Concerns(h, i), ~Concerns(h, i)', NEW e,
           UNCHANGED <<dbVars, chain, wk, serving, result>>,
           \A g \in Actor : g # h => hd'[g] = hd[g],
           \A g \in Actor : g # h /\ hd[g].at \in {"send", "wait"} => hd[g].conn # e,
           hd'[Boot].todo = hd[Boot].todo,
           \A c \in Conn : c # e => req'[c] = req[c],
           Pending(e)' => ~Rewrites(req'[e], i),
           \A c \in Conn : Live(c)' => Live(c) \/ c = e,
           \A c \in Conn : Ran(c)' => Ran(c) \/ c = e,
           \A c, d \in Conn : Live(c)' /\ Live(d)' /\ Ahead(c, d) => Ahead(c, d)'
    PROVE  Aside(i)
<1>1. \A g \in Actor : Concerns(g, i) \/ Concerns(g, i)' => hd'[g] = hd[g] /\ g # h
  OBVIOUS
<1>2. \A c \in Conn : Pending(c)' => (Pending(c) /\ req'[c] = req[c]) \/ ~Rewrites(req'[c], i)
  BY DEF Pending
<1>3. ASSUME NEW g \in Actor, Concerns(g, i), hd[g].at = "wait", serving' = hd[g].conn
      PROVE  PlaceOK(i) => PlaceOK(i)'
  <2>1. serving # e /\ serving \in Conn
    BY <1>1, <1>3, WaitingConn
  <2>2. Ask' = Ask
    BY <2>1 DEF Ask
  <2> QED BY <2>2 DEF PlaceOK
<1> QED BY <1>1, <1>2, <1>3, QueueAside, AppParts DEF dbVars

LEMMA CallIsGood ==
    ASSUME AppInv, NEW h \in Actor, Call(h), NEW i \in Ip, i \notin drift'
    PROVE  Good(i)'
<1> USE AppParts
<1>1. PICK c \in Conn, l \in Local :
             /\ Rpc!Connect(c) /\ hd' = [hd EXCEPT ![h] = l]
             /\ l.at = "send" /\ l.conn = c /\ l.ip = hd[h].ip /\ l.add = hd[h].add
             /\ l.todo = hd[h].todo /\ l.peer = hd[h].peer
  BY CallIs
<1>2. /\ hd[h].at = "call" /\ UNCHANGED <<dbVars, chain, wk, drift>>
      /\ hd'[h] = l /\ \A g \in Actor : g # h => hd'[g] = hd[g]
  BY <1>1, Moved DEF Call
<1>3. /\ cli[c] = "free" /\ cli'[c] = "connected" /\ UNCHANGED <<serving, result, req>>
  BY <1>1 DEF Rpc!Connect, Inv, RpcInv, Rpc!TypeOK
<1>4. /\ ~Live(c) /\ req[c] = NoRequest /\ req' = req
      /\ \A d \in Conn : Live(d)' => Live(d) \/ d = c
      /\ \A d \in Conn : Live(d) => Ahead(d, c)'
      /\ \A d, e \in Conn : Ahead(d, e) => Ahead(d, e)'
      /\ \A d \in Conn : Ran(d)' => Ran(d)
  BY <1>1, ConnectIsLast
<1>5. Good(i) /\ (Concerns(h, i)' <=> Concerns(h, i))
  BY <1>1, <1>2, SameScope DEF AppInv
<1>6. ~Pending(c)'
  BY <1>4 DEF Pending
<1>7. CASE ~Concerns(h, i)
  <2>1. \A g \in Actor : g # h /\ hd[g].at \in {"send", "wait"} => hd[g].conn # c
    BY <1>3, WaitingConn
  <2>2. hd'[Boot].todo = hd[Boot].todo
    BY <1>1, <1>2, ActorIs
  <2>3. Aside(i)
    BY <1>1, <1>2, <1>3, <1>4, <1>5, <1>6, <1>7, <2>1, <2>2, OthersAside
  <2> QED BY <1>5, <2>3, AsideIsGood
<1>8. CASE Concerns(h, i)
  <2>1. OnCourse(h, i) /\ \A g \in Actor : g # h => ~Concerns(g, i)'
    BY <1>2, <1>5, <1>8, OnlyOne
  <2>2. LastInLine(h, i)'
    <3> SUFFICES ASSUME NEW d \in Conn, Pending(d)', d # c PROVE Ahead(d, c)'
      BY <1>1, <1>2 DEF LastInLine
    <3>1. Live(d)
      BY <1>4 DEF Pending
    <3> QED BY <1>4, <3>1
  <2>3. Asked(i)' = Asked(i)
    BY <1>2, SameAsked DEF dbVars
  <2>4. Shows(i, hd[h].add, Asked(i))
    BY <1>2, <2>1 DEF OnCourse
  <2>5. Shows(i, hd'[h].add, Asked(i)')
    BY <1>1, <1>2, <2>3, <2>4
  <2>6. OnCourse(h, i)'
    BY <1>1, <1>2, <2>2, <2>5 DEF OnCourse
  <2> QED BY <1>5, <1>8, <2>1, <2>6, Alone
<1> QED BY <1>7, <1>8

LEMMA SendIsGood ==
    ASSUME AppInv, NEW h \in Actor, Send(h), NEW i \in Ip, i \notin drift'
    PROVE  Good(i)'
<1> USE AppParts
<1>1. PICK c \in Conn, l \in Local :
             /\ hd[h].conn = c /\ Rpc!Write(c, RequestOf(h)) /\ hd' = [hd EXCEPT ![h] = l]
             /\ l.at = "wait" /\ l.conn = c /\ l.ip = hd[h].ip /\ l.add = hd[h].add
             /\ l.todo = hd[h].todo /\ l.peer = hd[h].peer
  BY SendIs
<1>2. /\ hd[h].at = "send" /\ UNCHANGED <<dbVars, chain, wk, drift>>
      /\ hd'[h] = l /\ \A g \in Actor : g # h => hd'[g] = hd[g]
  BY <1>1, Moved DEF Send
<1>3. PICK r : r = RequestOf(h)
  OBVIOUS
<1>4. /\ Live(c) /\ ~Ran(c)' /\ req' = [req EXCEPT ![c] = r]
      /\ \A d : Live(d)' <=> Live(d)
      /\ \A d, e : Ahead(d, e)' <=> Ahead(d, e)
      /\ \A d \in Conn : Ran(d)' => Ran(d)
  BY <1>1, <1>3, WriteIsLive
<1>5. Good(i) /\ (Concerns(h, i)' <=> Concerns(h, i)) /\ UNCHANGED <<serving, result>>
  BY <1>1, <1>2, SameScope DEF AppInv, Rpc!Write
<1>6. req'[c] = r /\ \A d \in Conn : d # c => req'[d] = req[d]
  BY <1>4 DEF Inv, RpcInv, Rpc!TypeOK
<1>7. CASE ~Concerns(h, i)
  <2>1. \A g \in Actor : g # h /\ hd[g].at \in {"send", "wait"} => hd[g].conn # c
    BY <1>1, <1>2, WaitingConn
  <2>2. hd'[Boot].todo = hd[Boot].todo
    BY <1>1, <1>2, ActorIs
  <2>3. ~Rewrites(r, i)
    BY <1>2, <1>3, <1>7 DEF Rewrites, RequestOf, Concerns, Scope
  <2>4. Aside(i)
    BY <1>1, <1>2, <1>4, <1>5, <1>6, <1>7, <2>1, <2>2, <2>3, OthersAside
  <2> QED BY <1>5, <2>4, AsideIsGood
<1>8. CASE Concerns(h, i)
  <2>1. OnCourse(h, i) /\ \A g \in Actor : g # h => ~Concerns(g, i)'
    BY <1>2, <1>5, <1>8, OnlyOne
  <2>2. LastInLine(h, i)'
    <3> SUFFICES ASSUME NEW d \in Conn, Pending(d)', Rewrites(req'[d], i), d # c PROVE Ahead(d, c)'
      BY <1>1, <1>2 DEF LastInLine
    <3>1. LastInLine(h, i)
      BY <1>1, <1>2, <1>4, <2>1 DEF OnCourse
    <3>2. Pending(d) /\ req'[d] = req[d]
      BY <1>4, <1>6 DEF Pending
    <3>3. Ahead(d, c)
      BY <1>1, <3>1, <3>2 DEF LastInLine
    <3> QED BY <1>4, <3>3
  <2>3. Asked(i)' = Asked(i)
    BY <1>2, SameAsked DEF dbVars
  <2>4. Shows(i, hd[h].add, Asked(i))
    BY <1>2, <2>1 DEF OnCourse
  <2>5. Shows(i, hd'[h].add, Asked(i)')
    BY <1>1, <1>2, <2>3, <2>4
  <2>6. serving' = c /\ result' = "none" => PlaceOK(i)'
    <3> SUFFICES ASSUME serving' = c, result' = "none" PROVE PlaceOK(i)'
      OBVIOUS
    <3>1. req[c] = NoRequest /\ serving = c
      BY <1>1, <1>2, <1>5 DEF OwnerOK
    <3>2. wk' = Resting
      BY <1>2, <3>1 DEF OwnInv, WorkerOwn, Serves, Ask
    <3>3. wk'.at = "idle" /\ wk'.pos = 1
      BY <3>2 DEF Resting
    <3> QED BY <3>3 DEF PlaceOK
  <2>7. OnCourse(h, i)'
    BY <1>1, <1>2, <1>4, <2>2, <2>5, <2>6 DEF OnCourse
  <2> QED BY <1>5, <1>8, <2>1, <2>7, Alone
<1> QED BY <1>7, <1>8

\* What stays done when nothing runs.
LEMMA DoneUndisturbed ==
    ASSUME NEW i, UNCHANGED <<chain, peers, rules>>, Undisturbed, Done(i)
    PROVE  Done(i)'
<1>1. Asked(i)' = Asked(i)
  BY SameAsked
<1>2. \A c \in Conn : Pending(c)' => Pending(c) /\ req'[c] = req[c]
  BY DEF Undisturbed, Pending
<1> QED BY <1>1, <1>2 DEF Done, Settled

\* A request ends.
LEMMA EndIsGood ==
    ASSUME AppInv, NEW h \in Actor, hd[h].at \in {"call", "send", "wait"},
           hd' = [hd EXCEPT ![h] = Idle], UNCHANGED <<dbVars, chain, wk, serving, result>>,
           UNCHANGED rpcVars \/ (Undisturbed /\ hd[h].at # "call"
              /\ \A c \in Conn : c # hd[h].conn => req'[c] = req[c]),
           NEW i \in Ip, i \notin drift, Concerns(h, i) => Done(i)
    PROVE  Good(i)'
<1> USE AppParts
<1>1. hd'[h] = Idle /\ \A g \in Actor : g # h => hd'[g] = hd[g]
  BY Moved
<1>2. ~Concerns(h, i)' /\ Good(i)
  BY <1>1, IdleIs DEF Concerns, AppInv
<1>3. Undisturbed
  <2>1. CASE UNCHANGED rpcVars
    BY <2>1, SameQueue DEF Undisturbed
  <2> QED BY <2>1
<1>4. CASE Concerns(h, i)
  <2>1. \A g \in Actor : g # h => ~Concerns(g, i)'
    BY <1>1, <1>2, <1>4, OnlyOne
  <2>2. Done(i)'
    BY <1>3, <1>4, DoneUndisturbed DEF dbVars
  <2> QED BY <1>2, <2>1, <2>2, Alone
<1>5. CASE ~Concerns(h, i)
  <2>1. hd'[Boot].todo = hd[Boot].todo
    BY <1>1, StartsEmpty, ActorIs DEF HolderOK
  <2>2. PICK e : e = hd[h].conn
    OBVIOUS
  <2>3. CASE UNCHANGED rpcVars
    <3>1. \A g \in Actor : g # h /\ hd[g].at \in {"send", "wait"} => hd[g].conn # NoConn
      BY WaitingConn
    <3>2. /\ \A c \in Conn : Live(c)' => Live(c)
          /\ \A c \in Conn : Ran(c)' => Ran(c)
          /\ \A c, d \in Conn : Live(c)' /\ Live(d)' /\ Ahead(c, d) => Ahead(c, d)'
          /\ req' = req
      BY <2>3, SameQueue
    <3>3. \A c \in Conn : Pending(c)' => Pending(c) /\ req'[c] = req[c]
      BY <3>2 DEF Pending
    <3>4. \A g \in Actor : Concerns(g, i) \/ Concerns(g, i)' => hd'[g] = hd[g]
      BY <1>1, <1>2, <1>5
    <3>5. PlaceOK(i)' <=> PlaceOK(i)
      BY <3>2 DEF PlaceOK, Ask
    <3>6. Aside(i)
      BY <2>1, <3>1, <3>2, <3>3, <3>4, <3>5, <1>2, <1>5, QueueAside, WaitingConn DEF dbVars
    <3> QED BY <1>2, <3>6, AsideIsGood
  <2>4. CASE ~UNCHANGED rpcVars
    <3>1. \A g \in Actor : g # h /\ hd[g].at \in {"send", "wait"} => hd[g].conn # e
      BY <2>2, <2>4, WaitingConn
    <3>2. Pending(e)' => ~Rewrites(req'[e], i)
      <4>1. hd[h].at \in {"send", "wait"} /\ e \in Conn
        BY <2>2, <2>4, WaitingConn
      <4>2. Pending(e)' => req'[e] = req[e] /\ req[e] # NoRequest
        BY <1>3, <4>1 DEF Undisturbed, Pending
      <4>3. req[e] # NoRequest => req[e] = RequestOf(h)
        BY <2>2, <4>1 DEF OwnerOK
      <4>4. ~Rewrites(RequestOf(h), i)
        BY <1>5 DEF Rewrites, RequestOf, Concerns, Scope
      <4> QED BY <4>2, <4>3, <4>4
    <3>3. Aside(i)
      BY <1>1, <1>2, <1>3, <1>5, <2>1, <2>2, <2>4, <3>1, <3>2, OthersAside DEF Undisturbed
    <3> QED BY <1>2, <3>3, AsideIsGood
  <2> QED BY <2>3, <2>4
<1> QED BY <1>4, <1>5

LEMMA ReturnedIsGood ==
    ASSUME AppInv, NEW h \in Actor, CallFails(h) \/ Receive(h) \/ GiveUp(h),
           NEW i \in Ip, i \notin drift'
    PROVE  Good(i)'
<1> USE AppParts
<1>1. ASSUME NEW ok \in BOOLEAN, CallReturned(h, ok), hd[h].at # "idle"
      PROVE  /\ hd' = [hd EXCEPT ![h] = Idle] /\ i \notin drift
             /\ ~ok => ~Concerns(h, i)
  BY <1>1 DEF CallReturned, Concerns
<1>2. CASE CallFails(h)
  <2>1. CallReturned(h, FALSE) /\ hd[h].at = "call" /\ UNCHANGED <<rpcVars, dbVars, chain, wk>>
    BY <1>2 DEF CallFails
  <2> QED BY <1>1, <2>1, EndIsGood DEF rpcVars
<1>3. ASSUME NEW c \in Conn, hd[h].conn = c, hd[h].at \in {"send", "wait"}, Rpc!Return(c) \/ Rpc!Timeout(c)
      PROVE  /\ Undisturbed /\ UNCHANGED <<serving, result>>
             /\ \A d \in Conn : d # c => req'[d] = req[d]
  <2>1. Undisturbed
    BY <1>3, LeavingDisturbsNobody
  <2> QED BY <1>3, <2>1 DEF Rpc!Return, Rpc!Timeout, Inv, RpcInv, Rpc!TypeOK
<1>4. CASE Receive(h)
  <2>1. PICK c \in Conn : hd[h].conn = c /\ hd[h].at \in {"send", "wait"} /\ Rpc!Return(c)
    BY <1>4 DEF Receive, LocalsOK
  <2>2. PICK ok \in BOOLEAN : ok <=> cli[c] = "ok"
    OBVIOUS
  <2>3. CallReturned(h, ok) /\ UNCHANGED <<dbVars, chain, wk>>
    BY <1>4, <2>1, <2>2 DEF Receive, CallReturned
  <2>4. Concerns(h, i) => Done(i)
    <3> SUFFICES ASSUME Concerns(h, i) PROVE Done(i)
      OBVIOUS
    <3>1. i \notin drift /\ cli[c] = "ok"
      BY <1>1, <2>1, <2>2, <2>3
    <3>2. hd[h].at = "wait" /\ Ran(c)
      BY <2>1, <3>1 DEF OwnerOK, Ran, RpcProofs!Ran
    <3>3. OnCourse(h, i)
      BY <3>1 DEF AppInv, Good
    <3> QED BY <2>1, <3>2, <3>3 DEF OnCourse
  <2> QED BY <1>1, <1>3, <2>1, <2>3, <2>4, EndIsGood
<1>5. CASE GiveUp(h)
  <2>1. PICK c \in Conn : hd[h].conn = c /\ hd[h].at \in {"send", "wait"} /\ Rpc!Timeout(c)
    BY <1>5 DEF GiveUp, LocalsOK
  <2>2. CallReturned(h, FALSE) /\ UNCHANGED <<dbVars, chain, wk>>
    BY <1>5 DEF GiveUp
  <2> QED BY <1>1, <1>3, <2>1, <2>2, EndIsGood
<1> QED BY <1>2, <1>4, <1>5

\* The manager has just started.
LEMMA StartedIsGood ==
    ASSUME NEW i, hd' = Restarted, Done(i)'
    PROVE  Good(i)'
<1>1. \A g \in Actor : g # Boot => ~Concerns(g, i)'
  BY RestartedType DEF Concerns
<1>2. hd'[Boot].at = "settings" /\ Boot \in Actor
  BY RestartedType, ActorIs
<1>3. OnCourse(Boot, i)'
  BY <1>2 DEF OnCourse
<1> QED BY <1>1, <1>2, <1>3, Alone

LEMMA ManagerCrashIsGood ==
    ASSUME AppInv, ManagerCrash, NEW i \in Ip, i \notin drift'
    PROVE  Good(i)'
<1> USE AppParts
<1>1. /\ Rpc!ManagerCrash /\ hd' = Restarted /\ UNCHANGED <<chain, peers, rules>>
      /\ i \notin drift /\ \A h \in Interrupted : i \notin Scope(h)
  BY DEF ManagerCrash, dbVars
<1>2. Good(i)
  BY <1>1 DEF AppInv
<1>3. ASSUME NEW h \in Actor, Concerns(h, i)
      PROVE  h = Boot /\ hd[h].at \in {"settings", "snapshot"}
  BY <1>1, <1>3 DEF Interrupted, Concerns
<1>4. Done(i)
  BY <1>2, <1>3 DEF Good, OnCourse
<1>5. Done(i)'
  BY <1>1, <1>4, LeavingDisturbsNobody, DoneUndisturbed
<1> QED BY <1>1, <1>5, StartedIsGood

LEMMA RebootIsGood ==
    ASSUME AppInv, Reboot, NEW i \in Ip, i \notin drift'
    PROVE  Good(i)'
<1> USE AppParts
<1>1. /\ ~up /\ Rpc!ManagerCrash /\ hd' = Restarted /\ UNCHANGED <<peers, rules>> /\ chain' = <<>>
      /\ \A p \in DOMAIN peers : RulesOf(p) # {} => peers[p] # i
  BY DEF Reboot, dbVars
<1>2. Asked(i)' = <<>>
  <2>1. Asked(i) = <<>>
    BY <1>1, AskedNothingIs DEF AskedNothing
  <2> QED BY <1>1, <2>1, SameAsked
<1>3. \A c \in Conn : ~Live(c)'
  BY <1>1, DownIsEmpty, LeavingDisturbsNobody DEF Undisturbed
<1>4. Shows(i, <<>>, <<>>)
  <2>1. About(i, <<>>) = {} /\ <<>> \in Seq(Entry)
    BY DEF About
  <2> QED BY <2>1, ShowsNone
<1>5. Shows(i, chain', Asked(i)')
  BY <1>1, <1>2, <1>4
<1>6. Done(i)'
  BY <1>3, <1>5 DEF Done, Settled, Pending
<1> QED BY <1>1, <1>6, StartedIsGood

----------------------------------------------------------------------------
(* Steps of the worker between two requests.                                *)

\* Nothing runs.
LEMMA QuietIsGood ==
    ASSUME AppInv, Undisturbed, UNCHANGED <<dbVars, chain, hd>>, NEW i \in Ip, i \notin drift,
           serving' # NoConn /\ result' = "none" =>
              \/ wk'.at = "idle" /\ wk'.pos = 1
              \/ UNCHANGED <<serving, result, wk>>
    PROVE  Good(i)'
<1> USE AppParts
<1>1. \A g \in Actor : hd[g].at \in {"send", "wait"} => hd[g].conn \in Conn /\ hd[g].conn # NoConn
  BY WaitingConn
<1>2. \A c \in Conn : Pending(c)' => Pending(c) /\ req'[c] = req[c]
  BY DEF Undisturbed, Pending
<1>3. ASSUME NEW g \in Actor, hd[g].at = "wait", serving' = hd[g].conn, result' = "none"
      PROVE  \/ PlaceOK(i)'
             \/ serving = hd[g].conn /\ result = "none" /\ (PlaceOK(i) => PlaceOK(i)')
  <2>1. CASE wk'.at = "idle" /\ wk'.pos = 1
    BY <2>1 DEF PlaceOK
  <2>2. CASE UNCHANGED <<serving, result, wk>>
    <3>1. req'[serving] = req[serving] \/ req'[serving] = NoRequest
      BY <1>1, <1>3, <2>2 DEF Undisturbed
    <3>2. req[serving] = RequestOf(g)
      BY <1>3, <2>2 DEF OwnerOK
    <3>3. Live(serving) /\ serving \in Conn
      BY <1>1, <1>3, <2>2 DEF Live, RpcProofs!Live
    <3>4. Live(serving)'
      BY <1>3, <2>2 DEF Live, RpcProofs!Live
    <3>5. Ask' = Ask
      BY <2>2, <3>3, <3>4 DEF Undisturbed, Ask
    <3>6. PlaceOK(i)' <=> PlaceOK(i)
      BY <2>2, <3>5 DEF PlaceOK
    <3> QED BY <1>3, <2>2, <3>6
  <2> QED BY <1>1, <1>3, <2>1, <2>2
<1>4. Aside(i)
  BY <1>1, <1>2, <1>3, QueueAside DEF Undisturbed, dbVars
<1> QED BY <1>4, AsideIsGood DEF AppInv

LEMMA LoopIsGood ==
    ASSUME AppInv, WorkerLoop \/ WorkerCrash, NEW i \in Ip, i \notin drift'
    PROVE  Good(i)'
<1> USE AppParts
<1>1. UNCHANGED <<dbVars, chain, hd, drift>>
  BY DEF WorkerLoop, WorkerCrash
<1>2. Undisturbed
  BY WorkerKeepsOrder DEF WorkerLoop, WorkerCrash
<1>3. serving' # NoConn /\ result' = "none" =>
              \/ wk'.at = "idle" /\ wk'.pos = 1
              \/ UNCHANGED <<serving, result, wk>>
  <2>1. Resting.at = "idle" /\ Resting.pos = 1
    BY DEF Resting
  <2>2. CASE Rpc!Accept /\ UNCHANGED wk
    <3>1. ~Serves
      BY <2>2 DEF Rpc!Accept, Serves
    <3> QED BY <2>1, <2>2, <3>1 DEF OwnInv, WorkerOwn
  <2>3. CASE (\E c \in Conn : Rpc!HandleEmpty(c) \/ Rpc!Reply(c)) /\ UNCHANGED wk
    BY <2>3 DEF Rpc!HandleEmpty, Rpc!Reply
  <2>4. CASE Rpc!WorkerStart /\ UNCHANGED wk
    BY <2>4 DEF Rpc!WorkerStart
  <2>5. CASE WorkerCrash
    BY <2>5 DEF WorkerCrash, Rpc!WorkerCrash
  <2> QED BY <2>2, <2>3, <2>4, <2>5 DEF WorkerLoop
<1> QED BY <1>1, <1>2, <1>3, QuietIsGood

----------------------------------------------------------------------------
(* Steps of the worker in a request.                                        *)

\* What one command leaves of the worker's place, when it is to do with address i.
LEMMA StartIsPlaced ==
    ASSUME AppInv, Serves, Start, NEW i \in Ip, i \notin drift', PlaceOK(i)
    PROVE  PlaceOK(i)'
<1> USE AppParts
<1>1. /\ wk \in Place /\ Ask' = Ask /\ wk.at = "idle" /\ Ask.add \in Seq(Entry)
      /\ Ask.reload => chain' = <<>>
  BY ServedIsLive DEF TypeOK, Start, WorkerStep, rpcVars, Ask, AclRequest
<1>2. wk'.at = "ensure" /\ wk'.left = Ask.add /\ wk'.pos = 1
  BY <1>1 DEF Start, WorkerStep, Place, PlaceOK
<1>3. <<>> \o Ask.add = Ask.add
  BY <1>1
<1> QED BY <1>1, <1>2, <1>3 DEF PlaceOK

LEMMA EnsureIsPlaced ==
    ASSUME AppInv, Serves, Ensure \/ AddChain, NEW i \in Ip, PlaceOK(i)
    PROVE  PlaceOK(i)'
<1> USE AppParts
<1>1. /\ wk \in Place /\ UNCHANGED chain /\ Ask' = Ask /\ wk.at \in {"ensure", "chain"}
      /\ wk' \in {Ensured, Failed, [wk EXCEPT !.at = "chain"]}
  BY DEF TypeOK, Ensure, AddChain, WorkerStep, rpcVars, Ask
<1>2. /\ wk'.left = wk.left /\ wk'.pos = wk.pos
      /\ \/ wk'.at = "done" /\ wk'.bad
         \/ wk'.at = (IF Ask.reload THEN "add" ELSE "dump") /\ wk'.bad = wk.bad
         \/ wk'.at = "chain" /\ wk'.bad = wk.bad
  BY <1>1 DEF Ensured, Failed, Place
<1> QED BY <1>1, <1>2 DEF PlaceOK

LEMMA DumpIsPlaced ==
    ASSUME AppInv, Serves, Dump, NEW i \in Ip, PlaceOK(i)
    PROVE  PlaceOK(i)'
<1> USE AppParts
<1>1. /\ wk \in Place /\ UNCHANGED chain /\ Ask' = Ask /\ wk.at = "dump"
      /\ wk' \in {Failed, [wk EXCEPT !.at = "delete"]}
      /\ Len(chain) \in Nat
  BY ListIs DEF TypeOK, Dump, WorkerStep, rpcVars, Ask
<1>2. /\ wk'.left = wk.left /\ wk'.pos = wk.pos
      /\ \/ wk'.at = "done" /\ wk'.bad
         \/ wk'.at = "delete" /\ wk'.bad = wk.bad
  BY <1>1 DEF Failed, Place
<1>3. wk.pos = 1 /\ ~Ask.reload /\ wk.left = Ask.add
  BY <1>1 DEF PlaceOK
<1>4. \A k \in 1..Len(chain) : ~(k < 1)
  BY <1>1
<1> QED BY <1>1, <1>2, <1>3, <1>4 DEF PlaceOK

LEMMA DeleteIsPlaced ==
    ASSUME AppInv, Serves, Delete, NEW i \in Ip, Rewrites(Ask, i), i \notin drift', PlaceOK(i)
    PROVE  PlaceOK(i)'
<1> USE AppParts
<1>1. /\ wk \in Place /\ Ask' = Ask /\ wk.at = "delete" /\ wk'.at = "delete"
      /\ chain \in Seq(Entry) /\ wk'.left = wk.left /\ wk.pos \in Nat \ {0}
  BY DEF TypeOK, Delete, WorkerStep, rpcVars, Ask, Place
<1>2. ~Ask.reload /\ Ask.ip = i /\ wk.left = Ask.add
      /\ \A k \in 1..Len(chain) : k < wk.pos => chain[k].ip # i
  BY <1>1 DEF PlaceOK, Rewrites
<1>3. /\ Len(chain) \in Nat /\ wk.pos \in 1..Len(chain)
      /\ \A k \in 1..Len(chain) : chain[k] \in Entry /\ chain[k].ip \in Ip
  <2>1. /\ Len(chain) \in Nat
        /\ \A k \in 1..Len(chain) : chain[k] \in Entry
    BY <1>1, ListIs
  <2>2. wk.pos <= Len(chain)
    BY DEF Delete
  <2>3. wk.pos \in 1..Len(chain)
    BY <1>1, <2>1, <2>2
  <2> QED BY <2>1, <2>3 DEF Entry
<1>4. CASE chain' = chain /\ wk'.pos = wk.pos + 1 /\ chain[wk.pos].ip # i
  <2>1. wk'.pos = wk.pos + 1 /\ chain' = chain
    BY <1>4
  <2>2. \A k \in 1..Len(chain) : k < wk.pos + 1 => chain[k].ip # i
    BY <1>2, <1>3, <1>4
  <2> QED BY <1>1, <1>2, <2>1, <2>2 DEF PlaceOK
<1>5. CASE wk' = wk /\ chain' = Without(wk.pos)
  <2>1. wk' = wk /\ chain' = Without(wk.pos)
    BY <1>5
  <2>2. PICK n \in 1..Len(chain) : n = wk.pos
    BY <1>3
  <2> DEFINE s == SubSeq(chain, 1, n - 1)
             t == SubSeq(chain, n + 1, Len(chain))
  <2>3. s \in Seq(Entry) /\ Len(s) = n - 1 /\ \A k \in 1..n - 1 : s[k] = chain[k]
    BY <1>1, <1>3, SubSeqProperties
  <2>4. t \in Seq(Entry)
    BY <1>1, <1>3, SubSeqProperties
  <2> HIDE DEF s, t
  <2>5. \A k \in 1..n - 1 : (s \o t)[k] = chain[k]
    BY <2>3, <2>4, JoinedIs
  <2>6. chain' = s \o t
    BY <2>1, <2>2 DEF Without, s, t
  <2>7. \A k \in 1..Len(chain') : k < n => chain'[k].ip # i
    <3>1. Len(chain') \in Nat
      BY <2>3, <2>4, <2>6, JoinedIs, ListIs
    <3>2. \A k \in 1..Len(chain') : k < n => k \in 1..n - 1 /\ k \in 1..Len(chain) /\ k < wk.pos
      BY <1>3, <2>2, <3>1
    <3> QED BY <1>2, <2>5, <2>6, <3>2
  <2> QED BY <1>1, <1>2, <2>1, <2>2, <2>7 DEF PlaceOK
<1>6. \/ wk' = wk /\ chain' = Without(wk.pos)
      \/ chain' = chain /\ wk'.pos = wk.pos + 1 /\ chain[wk.pos].ip # i
  <2>1. ~Found(Ask.ip, chain[wk.pos]) => chain[wk.pos].ip # i
    BY <1>2 DEF Found, Begins
  <2>2. wk' = [wk EXCEPT !.pos = @ + 1] => wk'.pos = wk.pos + 1
    BY <1>1 DEF Place
  <2> QED BY <2>1, <2>2 DEF Delete, WorkerStep
<1> QED BY <1>4, <1>5, <1>6

LEMMA EndDeleteIsPlaced ==
    ASSUME AppInv, Serves, EndDelete, NEW i \in Ip, PlaceOK(i)
    PROVE  PlaceOK(i)'
<1> USE AppParts
<1>1. /\ wk \in Place /\ UNCHANGED chain /\ Ask' = Ask /\ wk.at = "delete" /\ wk'.at = "add"
      /\ chain \in Seq(Entry) /\ wk'.left = wk.left /\ Ask.add \in Seq(Entry)
  BY ServedIsLive DEF TypeOK, EndDelete, WorkerStep, rpcVars, Ask, Place, AclRequest
<1>2. ~Ask.reload /\ wk.left = Ask.add
      /\ \A k \in 1..Len(chain) : k < wk.pos => chain[k].ip # i
  BY <1>1 DEF PlaceOK
<1>3. About(i, chain) = {}
  <2>1. Len(chain) \in Nat /\ DOMAIN chain = 1..Len(chain)
    BY <1>1, ListIs
  <2>2. wk.pos \in Nat /\ wk.pos > Len(chain)
    BY <1>1 DEF EndDelete, Place
  <2>3. \A k \in 1..Len(chain) : k < wk.pos
    BY <2>1, <2>2
  <2> QED BY <1>2, <2>1, <2>3 DEF About
<1>4. <<>> \in Seq(Entry) /\ Ask.add = <<>> \o wk.left /\ Shows(i, chain, <<>>)
  BY <1>1, <1>2, <1>3, ShowsNone
<1> QED BY <1>1, <1>2, <1>4 DEF PlaceOK

LEMMA AddIsPlaced ==
    ASSUME AppInv, Serves, Add, NEW i \in Ip, Rewrites(Ask, i), PlaceOK(i)
    PROVE  PlaceOK(i)'
<1> USE AppParts
<1>1. /\ wk \in Place /\ Ask' = Ask /\ wk.at = "add"
      /\ chain \in Seq(Entry) /\ wk.left \in Seq(Entry) /\ wk.left # <<>>
  BY DEF TypeOK, Add, WorkerStep, rpcVars, Ask, Place
<1>2. PICK e : e = Head(wk.left)
  OBVIOUS
<1>3. PICK t : t = Tail(wk.left)
  OBVIOUS
<1>4. e \in Entry /\ t \in Seq(Entry)
  BY <1>1, <1>2, <1>3, HeadMoves
<1>5. CASE chain' = Append(chain, e) /\ wk' = [wk EXCEPT !.left = t]
  <2>1. wk'.at = "add" /\ wk'.left = t /\ wk'.bad = wk.bad
    BY <1>1, <1>5 DEF Place
  <2>2. CASE Ask.reload
    <3>1. Append(chain, e) \o t = chain \o wk.left
      BY <1>1, <1>2, <1>3, HeadMoves
    <3> QED BY <1>1, <1>5, <2>1, <2>2, <3>1 DEF PlaceOK
  <2>3. CASE ~Ask.reload
    <3>1. Ask.ip = i /\ e.ip = i
      <4>1. Ask.ip = i /\ Own(wk.left, i)
        BY <2>3 DEF Rewrites, OwnInv, WorkerOwn
      <4> QED BY <1>1, <1>2, <4>1, TailOwn
    <3>2. ASSUME ~wk.bad
          PROVE  \E d \in Seq(Entry) : Ask.add = d \o t /\ Shows(i, Append(chain, e), d)
      <4>1. PICK d \in Seq(Entry) : Ask.add = d \o wk.left /\ Shows(i, chain, d)
        BY <1>1, <2>3, <3>2 DEF PlaceOK
      <4>2. Append(d, e) \in Seq(Entry)
        BY <1>4, AppendedIs
      <4>3. Append(d, e) \o t = d \o wk.left
        BY <1>1, <1>2, <1>3, HeadMoves
      <4>4. Shows(i, Append(chain, e), Append(d, e))
        BY <1>1, <1>4, <3>1, <4>1, ShowsAppended
      <4> QED BY <4>1, <4>2, <4>3, <4>4
    <3> QED BY <1>1, <1>5, <2>1, <2>3, <3>2 DEF PlaceOK
  <2> QED BY <2>2, <2>3
<1>6. CASE wk' = IF Ask.reload THEN [[wk EXCEPT !.left = t] EXCEPT !.bad = TRUE] ELSE Failed
  <2>1. wk'.bad /\ wk'.at = IF Ask.reload THEN "add" ELSE "done"
    BY <1>1, <1>6 DEF Place, Failed
  <2> QED BY <1>1, <2>1 DEF PlaceOK
<1> QED BY <1>2, <1>3, <1>5, <1>6 DEF Add, WorkerStep

LEMMA ServeIsPlaced ==
    ASSUME AppInv, Serve, ~Finish, NEW i \in Ip, Rewrites(Ask, i), i \notin drift', PlaceOK(i)
    PROVE  PlaceOK(i)'
BY StartIsPlaced, EnsureIsPlaced, DumpIsPlaced, DeleteIsPlaced, EndDeleteIsPlaced, AddIsPlaced
   DEF Serve

\* The request being run rewrites the rules of those it is about.
LEMMA ServedRewrites ==
    ASSUME AppInv, Serves, NEW i, NEW g \in Actor, Concerns(g, i), hd[g].at \in {"send", "wait"},
           hd[g].conn = serving
    PROVE  Rewrites(Ask, i)
<1>1. Ask = RequestOf(g)
  BY ServedOwner
<1>2. Ask.reload = (g = Boot) /\ Ask.ip = hd[g].ip
  BY <1>1 DEF RequestOf
<1>3. g = Boot \/ hd[g].ip = i
  BY DEF Concerns, Scope
<1> QED BY <1>2, <1>3 DEF Rewrites

\* While a request runs that rewrites the rules of i, somebody is about them.
LEMMA SomebodyIs ==
    ASSUME AppInv, Serves, NEW i \in Ip, i \notin drift, Rewrites(Ask, i)
    PROVE  ~Done(i) /\ \E h \in Actor : Concerns(h, i)
<1>1. Pending(serving) /\ serving \in Conn /\ req[serving] = Ask
  BY AppParts, ServedIsLive DEF Pending, Ask
<1>2. ~Done(i)
  BY <1>1 DEF Done, Settled
<1> QED BY <1>2 DEF AppInv, Good

LEMMA CommandIsGood ==
    ASSUME AppInv, [Next]_vars, Serve, ~Finish, NEW i \in Ip, i \notin drift'
    PROVE  Good(i)'
<1> USE AppParts
<1>1. UNCHANGED <<rpcVars, dbVars, hd>> /\ drift \subseteq drift' /\ Serves
  BY DEF Serve, Start, Ensure, AddChain, Dump, Delete, EndDelete, Add, WorkerStep
<1>2. /\ \A c : Live(c)' <=> Live(c)
      /\ \A c, d : Ahead(c, d)' <=> Ahead(c, d)
      /\ \A c : Ran(c)' <=> Ran(c)
      /\ req' = req /\ serving' = serving /\ result' = result
  BY <1>1, SameQueue DEF rpcVars
<1>3. \A c : Pending(c)' <=> Pending(c)
  BY <1>2 DEF Pending
<1>4. Good(i) /\ Asked(i)' = Asked(i)
  BY <1>1, SameAsked DEF AppInv, dbVars
<1>5. CASE ~Rewrites(Ask, i)
  <2>1. Shows(i, chain, Asked(i)) => Shows(i, chain', Asked(i))
    <3>1. ~Ask.reload /\ Ask.ip # i
      BY <1>5 DEF Rewrites
    <3>2. PICK j : SameButFor(j, chain, chain') /\ (j = Ask.ip \/ j \in drift')
      BY <1>1, <3>1, RewritingIsOfOne DEF RewritesOne
    <3>3. j # i
      BY <3>1, <3>2
    <3> QED BY <3>2, <3>3, ShowsAlike
  <2>2. \A g \in Actor : Concerns(g, i) /\ hd[g].at \in {"send", "wait"} =>
           hd[g].conn # serving /\ hd[g].conn # NoConn
    BY <1>1, <1>5, ServedRewrites, WaitingConn
  <2>3. Aside(i)
    BY <1>1, <1>2, <1>3, <2>1, <2>2, QueueAside DEF dbVars
  <2> QED BY <1>4, <2>3, AsideIsGood
<1>6. CASE Rewrites(Ask, i)
  <2>1. PICK h \in Actor : Concerns(h, i) /\ ~Done(i)
    BY <1>1, <1>6, SomebodyIs
  <2>2. OnCourse(h, i) /\ \A g \in Actor : g # h => ~Concerns(g, i)'
    BY <1>1, <1>4, <2>1, OnlyOne
  <2>3. Concerns(h, i)'
    BY <1>1, <2>1, ConcernsKept
  <2>4. hd'[h] = hd[h] /\ peers' = peers
    BY <1>1 DEF dbVars
  <2>5. Read(i)' <=> Read(i)
    BY <1>1 DEF Read, dbVars
  <2>6. \A l : Shows(i, l, Asked(i)) => Shows(i, l, Asked(i)')
    BY <1>4
  <2>7. LastInLine(h, i) => LastInLine(h, i)'
    BY <1>2, <1>3, <2>4 DEF LastInLine
  <2>8. PlaceOK(i) => PlaceOK(i)'
    BY <1>6, ServeIsPlaced
  <2>9. OnCourse(h, i)'
    <3>1. hd[h].at \in {"idle", "settings", "list", "snapshot", "scan", "call", "send", "wait"}
      BY DEF Local
    <3>2. CASE hd[h].at \in {"idle", "settings", "list", "snapshot", "scan", "call"}
      BY <1>4, <2>1, <2>2, <2>4, <2>5, <2>6, <3>2 DEF OnCourse
    <3>3. CASE hd[h].at \in {"send", "wait"}
      <4>1. PICK c : c = hd[h].conn
        OBVIOUS
      <4>2. /\ Live(c)' => LastInLine(h, i)'
            /\ ~(hd[h].at = "wait" /\ Ran(c)')
            /\ hd[h].at = "wait" /\ serving' = c /\ result' = "none" => PlaceOK(i)'
        BY <1>2, <2>1, <2>2, <2>7, <2>8, <3>3, <4>1 DEF OnCourse
      <4>3. Shows(i, hd[h].add, Asked(i)')
        BY <2>2, <2>6, <3>3 DEF OnCourse
      <4>4. Shows(i, hd'[h].add, Asked(i)')
        BY <2>4, <4>3
      <4> QED BY <2>4, <3>3, <4>1, <4>2, <4>4 DEF OnCourse
    <3> QED BY <3>1, <3>2, <3>3
  <2> QED BY <2>2, <2>3, <2>9, Alone
<1> QED BY <1>5, <1>6

\* A request that went through has brought the addresses it is about into line.
LEMMA RanIsShown ==
    ASSUME AppInv, Serves, wk.at = "add", wk.left = <<>>, ~wk.bad, NEW i \in Ip, PlaceOK(i),
           NEW h \in Actor, Concerns(h, i), hd[h].at = "wait", hd[h].conn = serving,
           Shows(i, hd[h].add, Asked(i))
    PROVE  Shows(i, chain, Asked(i))
<1> USE AppParts
<1>1. Ask = RequestOf(h)
  BY ServedOwner
<1>2. /\ Ask.reload <=> h = Boot
      /\ Ask.add = hd[h].add
      /\ h # Boot => Ask.ip = i
  BY <1>1 DEF RequestOf, Concerns, Scope
<1>3. chain \in Seq(Entry) /\ Ask.add \in Seq(Entry)
  BY ServedIsLive DEF TypeOK, AclRequest
<1>4. CASE h = Boot
  <2>1. chain \o <<>> = Ask.add
    BY <1>2, <1>4 DEF PlaceOK
  <2>2. chain = Ask.add
    BY <1>3, <2>1
  <2> QED BY <1>2, <2>2
<1>5. CASE h # Boot
  <2>1. PICK d \in Seq(Entry) : Ask.add = d \o <<>> /\ Shows(i, chain, d)
    BY <1>2, <1>5 DEF PlaceOK
  <2>2. d = hd[h].add
    BY <1>2, <2>1
  <2>3. Own(d, i)
    BY <1>2, <1>5, <2>2 DEF OwnInv, HandlersOwn, Actor, Concerns, Scope
  <2>4. PICK o \in Seq(Entry) : o = Asked(i)
    BY AskedType
  <2>5. Shows(i, d, o)
    BY <2>2, <2>4
  <2> QED BY <1>3, <2>1, <2>3, <2>4, <2>5, ShowsComposed
<1> QED BY <1>4, <1>5

LEMMA FinishIsGood ==
    ASSUME AppInv, Serves, Finish, NEW i \in Ip, i \notin drift'
    PROVE  Good(i)'
<1> USE AppParts
<1>1. /\ UNCHANGED <<dbVars, chain, hd, drift>> /\ wk' = Resting
      /\ Rpc!HandleRequest(serving, IF wk.bad THEN "err" ELSE "ok")
      /\ (wk.at = "add" /\ wk.left = <<>>) \/ wk.at = "done"
  BY DEF Finish
<1>2. serving \in Conn /\ Live(serving) /\ serving' = serving /\ req' = req
  BY <1>1, ServedIsLive DEF Rpc!HandleRequest
<1>3. CASE wk.bad
  <2>1. Rpc!HandleRequest(serving, "err")
    BY <1>1, <1>3
  <2>2. Undisturbed /\ result' = "err"
    BY <1>2, <2>1, WorkerKeepsOrder DEF Rpc!HandleRequest
  <2> QED BY <1>1, <2>2, QuietIsGood
<1>4. CASE ~wk.bad
  <2>1. Rpc!HandleRequest(serving, "ok") /\ result' = "ok"
    BY <1>1, <1>4 DEF Rpc!HandleRequest
  <2>2. /\ ~Live(serving)'
        /\ \A d \in Conn : Live(d)' => Live(d)
        /\ \A d \in Conn : ~Ahead(d, serving)
        /\ \A d, e \in Conn : Ahead(d, e)' <=> Ahead(d, e)
        /\ \A d \in Conn : Ran(d)' => Ran(d) \/ d = serving
    BY <1>2, <2>1, RunIsFirst
  <2>3. \A c \in Conn : Pending(c)' => Pending(c) /\ c # serving
    BY <1>2, <2>2 DEF Pending
  <2>4. Good(i) /\ Asked(i)' = Asked(i)
    BY <1>1, SameAsked DEF AppInv, dbVars
  <2>5. CASE ~Rewrites(Ask, i)
    <3>1. \A g \in Actor : Concerns(g, i) /\ hd[g].at \in {"send", "wait"} => hd[g].conn # serving
      BY <2>5, ServedRewrites
    <3>2. Aside(i)
      BY <1>1, <1>2, <2>1, <2>2, <2>3, <3>1, QueueAside DEF dbVars
    <3> QED BY <2>4, <3>2, AsideIsGood
  <2>6. CASE Rewrites(Ask, i)
    <3>1. PICK h \in Actor : Concerns(h, i) /\ ~Done(i)
      BY <1>1, <2>6, SomebodyIs
    <3>2. OnCourse(h, i) /\ \A g \in Actor : g # h => ~Concerns(g, i)'
      BY <1>1, <2>4, <3>1, OnlyOne
    <3>3. Concerns(h, i)'
      BY <1>1, <3>1, ConcernsKept
    <3>4. hd'[h] = hd[h] /\ peers' = peers
      BY <1>1 DEF dbVars
    <3>5. Read(i)' <=> Read(i)
      BY <1>1 DEF Read, dbVars
    <3>6. OnCourse(h, i)'
      <4>1. hd[h].at \in {"idle", "settings", "list", "snapshot", "scan", "call", "send", "wait"}
        BY DEF Local
      <4>2. CASE hd[h].at \in {"idle", "settings", "list", "snapshot", "scan", "call"}
        BY <2>4, <3>1, <3>2, <3>4, <3>5, <4>2 DEF OnCourse
      <4>3. CASE hd[h].at \in {"send", "wait"}
        <5>1. PICK c \in Conn : c = hd[h].conn
          BY <4>3, WaitingConn
        <5>2. Shows(i, hd[h].add, Asked(i))
          BY <3>2, <4>3 DEF OnCourse
        <5>3. ASSUME Live(c)' PROVE LastInLine(h, i)'
          <6>1. LastInLine(h, i)
            BY <2>2, <3>2, <4>3, <5>1, <5>3 DEF OnCourse
          <6> QED BY <1>2, <2>2, <2>3, <3>4, <5>1, <6>1 DEF LastInLine
        <5>4. ASSUME hd[h].at = "wait", Ran(c)' PROVE Done(i)'
          <6>1. c = serving
            BY <2>2, <3>1, <3>2, <5>1, <5>4 DEF OnCourse
          <6>2. PlaceOK(i) /\ LastInLine(h, i)
            BY <1>2, <3>2, <5>1, <5>4, <6>1 DEF OnCourse, Serves
          <6>3. wk.at = "add" /\ wk.left = <<>>
            BY <1>1, <1>4, <6>2 DEF PlaceOK
          <6>4. Shows(i, chain, Asked(i))
            BY <1>4, <3>1, <5>1, <5>2, <5>4, <6>1, <6>2, <6>3, RanIsShown
          <6>5. \A d \in Conn : Pending(d)' => ~Rewrites(req[d], i)
            BY <2>2, <2>3, <5>1, <6>1, <6>2 DEF LastInLine
          <6> QED BY <1>1, <1>2, <2>4, <6>4, <6>5 DEF Done, Settled
        <5>5. Shows(i, hd'[h].add, Asked(i)')
          BY <2>4, <3>4, <5>2
        <5> QED BY <2>1, <3>4, <4>3, <5>1, <5>3, <5>4, <5>5 DEF OnCourse
      <4> QED BY <4>1, <4>2, <4>3
    <3> QED BY <3>2, <3>3, <3>6, Alone
  <2> QED BY <2>5, <2>6
<1> QED BY <1>3, <1>4

----------------------------------------------------------------------------
(* The theorem.                                                             *)

LEMMA NextIsGood ==
    ASSUME AppInv, [Next]_vars, Inv', HolderOK', NEW i \in Ip, i \notin drift'
    PROVE  Good(i)'
<1>1. CASE UNCHANGED vars
  <2>1. Undisturbed
    BY <1>1, SameQueue DEF Undisturbed, vars
  <2> QED BY <1>1, <2>1, QuietIsGood DEF vars, rpcVars
<1>2. CASE \E h \in Handler : Begin(h)
  BY <1>2, BeginAddIsGood, BeginRemoveIsGood DEF Begin
<1>3. CASE \E h \in Actor : Continue(h) \/ GiveUp(h)
  BY <1>3, ReadSettingsIsGood, ListIsGood, CallIsGood, SendIsGood, ReturnedIsGood DEF Continue
<1>4. CASE Restore
  BY <1>4, SnapshotIsGood, ScanIsGood, EndScanIsGood DEF Restore
<1>5. CASE Serve
  BY <1>5, CommandIsGood, FinishIsGood DEF Serve
<1>6. CASE SaveSettings
  <2>1. Undisturbed /\ UNCHANGED <<rpcVars, dbVars, chain, wk, hd, drift>>
    BY <1>6, SameQueue DEF Undisturbed, SaveSettings
  <2> QED BY <2>1, QuietIsGood DEF rpcVars
<1> QED BY <1>1, <1>2, <1>3, <1>4, <1>5, <1>6, CreatePeerIsGood, RemovePeerIsGood, LoopIsGood,
           ManagerCrashIsGood, RebootIsGood DEF Next

LEMMA InitIsGood == Init => AppInv
<1> SUFFICES ASSUME Init PROVE AppInv
  OBVIOUS
<1>1. OwnInv
  <2>1. HandlersOwn
    BY NoneOwn, RestartedType, ActorIs DEF Init, HandlersOwn, Restarted, Idle
  <2>2. RequestsOwn /\ WorkerOwn
    BY DEF Init, Rpc!Init, RequestsOwn, WorkerOwn, Serves
  <2> QED BY <2>1, <2>2, InitInv DEF OwnInv
<1>2. OwnerOK
  BY RestartedType DEF Init, OwnerOK
<1>3. HolderOK
  <2>1. peers = [p \in {} |-> NoIp] /\ hd = Restarted
    BY DEF Init
  <2>2. Unique
    BY <2>1 DEF Unique
  <2> QED BY <2>1, <2>2, StartsEmpty DEF HolderOK
<1>4. ASSUME NEW i \in Ip PROVE Good(i)
  <2>1. Asked(i) = <<>> /\ chain = <<>>
    BY AskedIs DEF Init, AskedOfNobody
  <2>2. About(i, <<>>) = {} /\ <<>> \in Seq(Entry)
    BY DEF About
  <2>3. Done(i)
    BY <2>1, <2>2, ShowsNone DEF Done, Settled, Pending, Init, Rpc!Init
  <2>4. \A h \in Actor : hd[h].at = IF h = Boot THEN "settings" ELSE "idle"
    BY RestartedType DEF Init
  <2> QED BY <2>3, <2>4 DEF Good, OnCourse, Concerns
<1> QED BY <1>1, <1>2, <1>3, <1>4 DEF AppInv

LEMMA NextKeepsApplied == AppInv /\ [Next]_vars => AppInv'
<1> SUFFICES ASSUME AppInv, [Next]_vars PROVE AppInv'
  OBVIOUS
<1>1. OwnInv' /\ Inv'
  BY NextInv, HandlersStayOwn, RequestsStayOwn, WorkerStaysOwn DEF AppInv, OwnInv
<1>2. OwnerOK' /\ HolderOK'
  BY AppParts, NextKeepsOwners, NextKeepsHolders DEF OwnInv
<1>3. \A i \in Ip : i \notin drift' => Good(i)'
  BY <1>1, <1>2, NextIsGood
<1> QED BY <1>1, <1>2, <1>3 DEF AppInv

\* An address whose last rewriting went through with no other beside it has in the chain
\* exactly the rules the table has for it, once each and by priority: whatever is still
\* with the worker, whatever was left behind by what failed before, whatever fails with
\* other addresses, and whatever the descriptions hold.
THEOREM AppliedIsAsked == Spec => []AppliedUnlessFailed
<1>1. AppInv => AppliedUnlessFailed
  BY DEF AppInv, AppliedUnlessFailed, Good, Done, Concerns, Busy
<1> QED BY <1>1, NextKeepsApplied, InitIsGood, PTL DEF Spec

=============================================================================
