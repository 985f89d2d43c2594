-------------------------- MODULE TrafficLogProofs --------------------------
(* Whose snapshots the traffic history holds and which of them pruning      *)
(* keeps, for every number of peers, rows and rounds, and every fault.      *)
EXTENDS TrafficLog, FiniteSetTheorems, TLAPS

----------------------------------------------------------------------------
(* The invariant.                                                           *)

\* The database and the copy of it, if there is one.
Databases == {data} \cup ({saved} \ {NoCopy})

\* OwnHistory of the database d.
Own(d) ==
    \A r \in d.log : /\ r.peer \in DOMAIN d.peers
                     /\ r.sure => r.of = d.peers[r.peer]

\* A row has a number of its own, and a newer row no earlier stamp.
Ordered(d) ==
    /\ \A r \in d.log : r.id <= d.lastRow /\ (~stepped => r.at <= clock)
    /\ \A r, s \in d.log :
          /\ r.id = s.id => r = s
          /\ ~stepped /\ r.id < s.id => r.at <= s.at

\* The task's list names each peer once, and unless the database has been restored since
\* a peer on it is gone or has the key it was measured on.
ListOK ==
    /\ task.at # "record" => task.todo = {}
    /\ \A x, y \in task.todo : x.id = y.id => x = y
    /\ task.sure => \A x \in task.todo :
                       /\ x.id <= data.lastPeer
                       /\ x.id \in DOMAIN data.peers => data.peers[x.id] = x.key

Inv ==
    /\ TypeOK
    /\ \A d \in Databases : Own(d) /\ Ordered(d)
    /\ ListOK

----------------------------------------------------------------------------
(* The table.                                                               *)

LEMMA PeersType ==
    ASSUME NEW d \in Contents
    PROVE  /\ DOMAIN d.peers \subseteq Key
           /\ d.peers \in [DOMAIN d.peers -> Key]
           /\ d.log \subseteq Row
           /\ d.lastPeer \in 0..MaxPeer /\ d.lastRow \in 0..MaxRow
BY DEF Contents

LEMMA PartialType ==
    ASSUME NEW S \in SUBSET Key, NEW f \in [S -> Key]
    PROVE  f \in UNION {[T -> Key] : T \in SUBSET Key}
OBVIOUS

\* What pruning keeps was there, and newer rows of a peer are kept before older ones.
LEMMA PruningKeepsNewest ==
    ASSUME NEW log \in SUBSET Row, NEW kept \in Prunings(log)
    PROVE  /\ kept \subseteq log
           /\ \A r \in log \ kept : \A s \in kept : s.peer = r.peer => s.at >= r.at
<1>1. PICK f \in [Key -> SUBSET log] :
         /\ kept = UNION {f[p] : p \in Key}
         /\ \A p \in Key : f[p] \in Leftovers(RowsOf(log, p))
  BY DEF Prunings
<1>2. ASSUME NEW r \in log \ kept, NEW s \in kept, s.peer = r.peer PROVE s.at >= r.at
  <2>1. PICK p \in Key : s \in f[p]
    BY <1>1
  <2>2. s.peer = p
    BY <1>1, <2>1 DEF Leftovers, RowsOf
  <2>3. r \notin f[p] /\ r \in RowsOf(log, p)
    BY <1>1, <1>2, <2>2 DEF RowsOf
  <2> QED BY <1>1, <2>1, <2>3 DEF Leftovers, StaysBefore
<1> QED BY <1>1, <1>2

----------------------------------------------------------------------------
LEMMA InitInv == Init => Inv
<1> SUFFICES ASSUME Init PROVE Inv
  OBVIOUS
<1>1. data.peers \in [{} -> Key]
  BY DEF Init
<1>2. data.peers \in UNION {[T -> Key] : T \in SUBSET Key} /\ DOMAIN data.peers = {}
  <2>1. {} \in SUBSET Key
    OBVIOUS
  <2>2. DOMAIN data.peers = {}
    BY DEF Init
  <2> QED BY <1>1, <2>1, <2>2, PartialType
<1>3. data \in Contents
  <2>1. data = [peers |-> data.peers, lastPeer |-> 0, log |-> {}, lastRow |-> 0, due |-> FALSE]
    BY DEF Init
  <2>2. 0 \in 0..MaxPeer /\ 0 \in 0..MaxRow /\ {} \in SUBSET Row
    BY BoundAssumption
  <2>3. [peers |-> data.peers, lastPeer |-> 0, log |-> {}, lastRow |-> 0, due |-> FALSE]
           \in Contents
    BY <1>2, <2>2 DEF Contents
  <2> QED BY <2>1, <2>3
<1>4. task \in Local
  BY DEF Init, Asleep, Local
<1>5. Databases = {data}
  BY DEF Init, Databases
<1>6. TypeOK
  <2>1. \A d \in Databases : d.peers = data.peers
    BY <1>5
  <2>2. \A d \in Databases : \A p \in DOMAIN d.peers : p <= d.lastPeer /\ d.peers[p] <= made
    BY <1>2, <2>1
  <2>3. saved = NoCopy /\ made = 0 /\ clock = 0 /\ stepped = FALSE /\ timer = TRUE
    BY DEF Init
  <2>4. 0 \in 0..MaxPeer /\ 0 \in 0..MaxTime
    BY BoundAssumption
  <2> QED BY <1>3, <1>4, <2>2, <2>3, <2>4 DEF TypeOK, Databases
<1>7. Own(data) /\ Ordered(data) /\ ListOK
  BY DEF Init, Own, Ordered, ListOK, Asleep
<1> QED BY <1>5, <1>6, <1>7 DEF Inv

LEMMA TimeKeeps == Inv /\ Time => Inv'
<1> SUFFICES ASSUME Inv, Time PROVE Inv'
  OBVIOUS
<1> USE DEF Inv
<1>1. /\ UNCHANGED <<data, saved, made, task>> /\ timer' = TRUE
      /\ \/ clock' = clock + 1 /\ UNCHANGED stepped /\ clock < MaxTime
         \/ clock' \in 0..clock /\ stepped' = TRUE
  BY DEF Time
<1>2. clock \in 0..MaxTime /\ clock' \in 0..MaxTime
  BY <1>1, BoundAssumption DEF TypeOK
<1>3. TypeOK'
  BY <1>1, <1>2 DEF TypeOK
<1>4. ASSUME NEW d \in Databases PROVE Own(d)' /\ Ordered(d)'
  <2>1. Own(d) /\ Ordered(d)
    OBVIOUS
  <2>2. d \in Contents
    BY DEF Databases, TypeOK
  <2>3. \A r \in d.log : r.at \in Int
    BY <2>2, PeersType DEF Row
  <2> QED BY <1>1, <1>2, <2>1, <2>3 DEF Own, Ordered
<1>5. Databases' = Databases
  BY <1>1 DEF Databases
<1>6. ListOK'
  BY <1>1 DEF ListOK
<1> QED BY <1>1, <1>3, <1>4, <1>5, <1>6 DEF Own, Ordered

\* The database is untouched; no new row is to be written.
LEMMA TaskOnly ==
    ASSUME Inv, task' \in Local, timer' \in BOOLEAN,
           task'.todo \subseteq task.todo, task'.at # "record" => task'.todo = {},
           task'.sure => task.sure \/ task'.todo = {},
           UNCHANGED <<data, saved, made, clock, stepped>>
    PROVE  Inv'
<1> USE DEF Inv
<1>1. TypeOK'
  BY DEF TypeOK
<1>2. \A d \in Databases : Own(d)' /\ Ordered(d)'
  BY DEF Own, Ordered
<1>3. ListOK'
  BY DEF ListOK
<1> QED BY <1>1, <1>2, <1>3 DEF Databases, Own, Ordered

LEMMA AsleepIs == Asleep \in Local /\ Asleep.todo = {} /\ Asleep.at = "sleep" /\ Asleep.sure
BY DEF Asleep, Local

LEMMA TickKeeps == Inv /\ Tick => Inv'
<1> SUFFICES ASSUME Inv, Tick PROVE Inv'
  OBVIOUS
<1>1. UNCHANGED <<data, saved, made, clock, stepped>> /\ timer' \in BOOLEAN
  BY DEF Tick
<1>2. ASSUME NEW keys \in SUBSET (1..made), task' = [Asleep EXCEPT !.at = "list", !.seen = keys]
      PROVE  task' \in Local /\ task'.todo = {}
  <2>1. task' = [at |-> "list", seen |-> keys, todo |-> {}, sure |-> TRUE]
    BY <1>2 DEF Asleep
  <2>2. keys \subseteq Key
    BY BoundAssumption DEF Inv, TypeOK, Key
  <2> QED BY <2>1, <2>2 DEF Local
<1>3. CASE UNCHANGED task
  BY <1>1, <1>3, TaskOnly DEF Inv, TypeOK, ListOK
<1> QED BY <1>1, <1>2, <1>3, TaskOnly DEF Tick

LEMMA TimerType == Inv /\ UNCHANGED timer => timer' \in BOOLEAN
BY DEF Inv, TypeOK

LEMMA ListKeeps == Inv /\ List => Inv'
<1> SUFFICES ASSUME Inv, List PROVE Inv'
  OBVIOUS
<1> USE DEF Inv
<1>1. UNCHANGED <<data, saved, made, clock, stepped, timer>> /\ task.at = "list"
  BY DEF List
<1>2. CASE task' = Asleep
  BY <1>1, <1>2, AsleepIs, TimerType, TaskOnly
<1> DEFINE rows == {[id |-> p, key |-> data.peers[p]] :
                       p \in {q \in DOMAIN data.peers : data.peers[q] \in task.seen}}
<1>3. CASE task' = [task EXCEPT !.at = "record", !.todo = rows]
  <2>1. data \in Contents /\ task \in Local
    BY DEF TypeOK
  <2>2. \A x \in rows : /\ x \in [id : Key, key : Key]
                        /\ x.id \in DOMAIN data.peers /\ x.key = data.peers[x.id]
    BY <2>1, PeersType
  <2>3. \A x, y \in rows : x.id = y.id => x = y
    OBVIOUS
  <2> HIDE DEF rows
  <2>4. task' \in Local
    BY <1>3, <2>1, <2>2 DEF Local
  <2>5. task'.at = "record" /\ task'.todo = rows /\ task'.sure = task.sure
    BY <1>3, <2>1 DEF Local
  <2>6. TypeOK'
    BY <1>1, <2>4 DEF TypeOK
  <2>7. \A x \in rows : x.id <= data.lastPeer
    BY <2>2 DEF TypeOK
  <2>8. ListOK'
    BY <1>1, <2>2, <2>3, <2>5, <2>7 DEF ListOK
  <2>9. \A d \in Databases : Own(d)' /\ Ordered(d)'
    BY <1>1, <2>5 DEF Own, Ordered
  <2> QED BY <1>1, <2>6, <2>8, <2>9 DEF Databases, Own, Ordered
<1> QED BY <1>2, <1>3 DEF List

LEMMA RecordKeeps == Inv /\ Record => Inv'
<1> SUFFICES ASSUME Inv, Record PROVE Inv'
  OBVIOUS
<1> USE DEF Inv
<1>1. PICK x \in task.todo :
         /\ task' = [task EXCEPT !.todo = task.todo \ {x}]
         /\ \/ data.lastRow < MaxRow /\ data' = Recorded(data, x.id, x.key, task.sure)
            \/ UNCHANGED data
  BY DEF Record
<1>2. task.at = "record" /\ UNCHANGED <<saved, made, clock, stepped, timer>>
  BY DEF Record
<1>3. task \in Local /\ data \in Contents
  BY DEF TypeOK
<1>4. /\ task' \in Local /\ task'.at = "record" /\ task'.todo = task.todo \ {x}
      /\ task'.sure = task.sure
  BY <1>1, <1>2, <1>3 DEF Local
<1>5. CASE UNCHANGED data
  BY <1>2, <1>4, <1>5, TimerType, TaskOnly
<1>6. CASE data.lastRow < MaxRow /\ x.id \in DOMAIN data.peers
           /\ data' = Recorded(data, x.id, x.key, task.sure)
  <2> DEFINE row == [id |-> data.lastRow + 1, peer |-> x.id, at |-> clock,
                     of |-> x.key, sure |-> task.sure]
  <2>1. x.id \in Key /\ x.key \in Key /\ task.sure \in BOOLEAN
    BY <1>3 DEF Local
  <2>2. data.lastRow \in 0..MaxRow /\ clock \in 0..MaxTime
    BY <1>3, PeersType DEF TypeOK
  <2>3. row \in Row
    BY <1>6, <2>1, <2>2, BoundAssumption DEF Row
  <2>4. data' = [data EXCEPT !.due = TRUE, !.lastRow = data.lastRow + 1,
                             !.log = data.log \cup {row}]
    BY <1>3, <1>6 DEF Recorded, Contents
  <2>5. /\ data'.peers = data.peers /\ data'.lastPeer = data.lastPeer
        /\ data'.log = data.log \cup {row} /\ data'.lastRow = data.lastRow + 1
    BY <1>3, <2>4 DEF Contents
  <2>6. row.id = data.lastRow + 1 /\ row.peer = x.id /\ row.at = clock
        /\ row.of = x.key /\ row.sure = task.sure
    OBVIOUS
  <2> HIDE DEF row
  <2>7. data' \in Contents
    <3>1. data.lastRow + 1 \in 0..MaxRow
      BY <1>6, <2>2, BoundAssumption
    <3> QED BY <1>3, <2>3, <2>4, <3>1 DEF Contents
  <2>8. TypeOK'
    BY <1>2, <1>4, <2>5, <2>7 DEF TypeOK
  <2>9. Own(data') /\ \A d \in Databases : Own(d)'
    <3>1. task.sure => data.peers[x.id] = x.key
      BY <1>6 DEF ListOK
    <3>2. Own(data)
      BY DEF Databases
    <3> QED BY <1>6, <2>5, <2>6, <3>1, <3>2 DEF Own
  <2>10. \A d \in Databases : Ordered(d)'
    BY <1>2, <1>4 DEF Ordered
  <2>11. (Ordered(data))'
    <3>1. Ordered(data)
      BY DEF Databases
    <3>2. \A r \in data.log : r.id \in Int /\ r.at \in Int /\ r.id <= data.lastRow
      BY <1>3, <3>1, PeersType DEF Ordered, Row
    <3>3. ASSUME NEW r \in data'.log
          PROVE  /\ r.id <= data'.lastRow
                 /\ ~stepped => r.at <= clock
      <4>1. CASE r \in data.log
        BY <1>4, <2>2, <2>5, <3>1, <3>2, <4>1 DEF Ordered
      <4>2. CASE r = row
        BY <2>2, <2>5, <2>6, <4>2
      <4> QED BY <2>5, <4>1, <4>2
    <3>4. ASSUME NEW r \in data'.log, NEW s \in data'.log
          PROVE  /\ r.id = s.id => r = s
                 /\ ~stepped /\ r.id < s.id => r.at <= s.at
      <4>1. CASE r \in data.log /\ s \in data.log
        BY <3>1, <4>1 DEF Ordered
      <4>2. CASE r = row /\ s = row
        BY <2>2, <2>6, <4>2
      <4>3. CASE r \in data.log /\ s = row
        BY <2>2, <2>6, <3>1, <3>2, <4>3 DEF Ordered
      <4>4. CASE r = row /\ s \in data.log
        BY <2>2, <2>6, <3>2, <4>4
      <4> QED BY <2>5, <4>1, <4>2, <4>3, <4>4
    <3> QED BY <1>2, <1>4, <3>3, <3>4 DEF Ordered
  <2>12. ListOK'
    BY <1>4, <2>5 DEF ListOK
  <2> QED BY <1>2, <2>8, <2>9, <2>10, <2>11, <2>12 DEF Databases, Own, Ordered
<1>7. CASE x.id \notin DOMAIN data.peers /\ data' = Recorded(data, x.id, x.key, task.sure)
  BY <1>5, <1>7 DEF Recorded
<1> QED BY <1>1, <1>5, <1>6, <1>7

LEMMA PruneKeeps == Inv /\ Prune => Inv'
<1> SUFFICES ASSUME Inv, Prune PROVE Inv'
  OBVIOUS
<1> USE DEF Inv
<1>1. task' = Asleep /\ UNCHANGED <<saved, made, clock, stepped, timer>>
  BY DEF Prune
<1>2. CASE UNCHANGED data
  BY <1>1, <1>2, AsleepIs, TimerType, TaskOnly
<1>3. CASE \E kept \in Prunings(data.log) : data' = [data EXCEPT !.log = kept, !.due = FALSE]
  <2>1. data \in Contents
    BY DEF TypeOK
  <2>2. PICK kept \in Prunings(data.log) :
           data' = [data EXCEPT !.log = kept, !.due = FALSE]
    BY <1>3
  <2>3. kept \subseteq data.log
    BY <2>1, PeersType, PruningKeepsNewest
  <2>4. /\ data' \in Contents
        /\ data'.peers = data.peers /\ data'.lastPeer = data.lastPeer
        /\ data'.log \subseteq data.log /\ data'.lastRow = data.lastRow
    BY <2>1, <2>2, <2>3 DEF Contents
  <2>5. TypeOK'
    BY <1>1, <2>4, AsleepIs DEF TypeOK
  <2>6. Own(data') /\ \A d \in Databases : Own(d)'
    BY <2>4 DEF Own, Databases
  <2>7. \A d \in Databases : Ordered(d)'
    BY <1>1, AsleepIs DEF Ordered
  <2>8. (Ordered(data))'
    <3>1. Ordered(data)
      BY DEF Databases
    <3> QED BY <1>1, <2>4, <3>1, AsleepIs DEF Ordered
  <2>9. ListOK'
    BY <1>1, AsleepIs DEF ListOK
  <2> QED BY <1>1, <2>5, <2>6, <2>7, <2>8, <2>9 DEF Databases, Own, Ordered
<1> QED BY <1>2, <1>3 DEF Prune

LEMMA RestartKeeps == Inv /\ Restart => Inv'
BY AsleepIs, TaskOnly DEF Restart

LEMMA CreatePeerKeeps == Inv /\ CreatePeer => Inv'
<1> SUFFICES ASSUME Inv, CreatePeer PROVE Inv'
  OBVIOUS
<1> USE DEF Inv
<1> DEFINE new == data.lastPeer + 1
           with == [p \in DOMAIN data.peers \cup {new} |->
                      IF p = new THEN made + 1 ELSE data.peers[p]]
<1>1. /\ made' = made + 1 /\ made' \in 0..MaxPeer /\ made \in 0..MaxPeer
      /\ UNCHANGED <<saved, clock, stepped, timer, task>>
  BY BoundAssumption DEF CreatePeer, TypeOK
<1>2. data \in Contents
  BY DEF TypeOK
<1>3. data' = [data EXCEPT !.lastPeer = new, !.peers = with]
  BY <1>1, <1>2 DEF CreatePeer, NewId
<1>4. new \in 0..MaxPeer /\ new \in Key /\ made + 1 \in Key
  BY <1>1, <1>2, BoundAssumption, PeersType DEF CreatePeer, Key
<1>5. with \in UNION {[T -> Key] : T \in SUBSET Key}
  <2>1. DOMAIN data.peers \cup {new} \in SUBSET Key
    BY <1>2, <1>4, PeersType
  <2>2. with \in [DOMAIN data.peers \cup {new} -> Key]
    BY <1>2, <1>4, PeersType
  <2> QED BY <2>1, <2>2, PartialType
<1>6. /\ data' \in Contents
      /\ data'.peers = with /\ data'.lastPeer = new
      /\ data'.log = data.log /\ data'.lastRow = data.lastRow
  BY <1>2, <1>3, <1>4, <1>5 DEF Contents
<1>7. \A p \in DOMAIN data.peers : p \in Int /\ p <= data.lastPeer /\ data.peers[p] <= made
                                   /\ data.peers[p] \in Int
  BY <1>2, PeersType DEF TypeOK, Key
<1>8. new \notin DOMAIN data.peers /\ data.lastPeer \in Int
  BY <1>2, <1>7, PeersType
<1>9. TypeOK'
  <2>1. \A p \in DOMAIN with : p <= new /\ with[p] <= made + 1
    BY <1>1, <1>7, <1>8
  <2>2. saved # NoCopy => \A p \in DOMAIN saved.peers : p <= saved.lastPeer
                                                        /\ saved.peers[p] <= made + 1
    <3> SUFFICES ASSUME saved # NoCopy, NEW p \in DOMAIN saved.peers
                 PROVE  p <= saved.lastPeer /\ saved.peers[p] <= made + 1
      OBVIOUS
    <3>1. saved \in Contents /\ p <= saved.lastPeer /\ saved.peers[p] <= made
      BY DEF TypeOK
    <3>2. saved.peers[p] \in Int
      BY <3>1, PeersType DEF Key
    <3> QED BY <1>1, <3>1, <3>2
  <2> QED BY <1>1, <1>6, <2>1, <2>2 DEF TypeOK
<1>10. Own(data') /\ \A d \in Databases : Own(d)'
  <2>1. Own(data)
    BY DEF Databases
  <2> QED BY <1>6, <1>8, <2>1 DEF Own
<1>11. Ordered(data)' /\ \A d \in Databases : Ordered(d)'
  <2>1. Ordered(data)
    BY DEF Databases
  <2> QED BY <1>1, <1>6, <2>1 DEF Ordered
<1>12. ListOK'
  <2>1. task.sure => \A x \in task.todo :
                        /\ x.id <= new /\ x.id # new
                        /\ x.id \in DOMAIN data.peers => with[x.id] = x.key
    <3>1. \A x \in task.todo : x.id \in Int
      BY DEF TypeOK, Local, Key
    <3> QED BY <1>8, <3>1 DEF ListOK
  <2> QED BY <1>1, <1>6, <2>1 DEF ListOK
<1> QED BY <1>1, <1>9, <1>10, <1>11, <1>12 DEF Databases, Own, Ordered

LEMMA DeletePeerKeeps == Inv /\ DeletePeer => Inv'
<1> SUFFICES ASSUME Inv, DeletePeer PROVE Inv'
  OBVIOUS
<1> USE DEF Inv
<1>1. PICK p \in DOMAIN data.peers : data' = Without(data, p)
  BY DEF DeletePeer
<1>2. UNCHANGED <<saved, made, clock, stepped, timer, task>>
  BY DEF DeletePeer
<1>3. data \in Contents
  BY DEF TypeOK
<1> DEFINE rest == [q \in DOMAIN data.peers \ {p} |-> data.peers[q]]
<1>4. data' = [data EXCEPT !.peers = rest, !.log = data.log \ RowsOf(data.log, p)]
  BY <1>1, <1>3 DEF Without
<1>5. rest \in UNION {[T -> Key] : T \in SUBSET Key}
  <2>1. DOMAIN data.peers \ {p} \in SUBSET Key
    BY <1>3, PeersType
  <2>2. rest \in [DOMAIN data.peers \ {p} -> Key]
    BY <1>3, PeersType
  <2> QED BY <2>1, <2>2, PartialType
<1>6. /\ data' \in Contents
      /\ data'.peers = rest /\ data'.lastPeer = data.lastPeer
      /\ data'.log = data.log \ RowsOf(data.log, p) /\ data'.lastRow = data.lastRow
  BY <1>3, <1>4, <1>5 DEF Contents
<1>7. TypeOK'
  BY <1>2, <1>6 DEF TypeOK
<1>8. Own(data') /\ \A d \in Databases : Own(d)'
  <2>1. Own(data)
    BY DEF Databases
  <2> QED BY <1>6, <2>1 DEF Own, RowsOf
<1>9. Ordered(data)' /\ \A d \in Databases : Ordered(d)'
  <2>1. Ordered(data)
    BY DEF Databases
  <2> QED BY <1>2, <1>6, <2>1 DEF Ordered
<1>10. ListOK'
  BY <1>2, <1>6 DEF ListOK
<1> QED BY <1>2, <1>7, <1>8, <1>9, <1>10 DEF Databases, Own, Ordered

LEMMA BackupKeeps == Inv /\ Backup => Inv'
<1> SUFFICES ASSUME Inv, Backup PROVE Inv'
  OBVIOUS
<1>1. saved' = data /\ UNCHANGED <<data, made, clock, stepped, timer, task>>
  BY DEF Backup
<1>2. Databases' \subseteq Databases
  BY <1>1 DEF Databases
<1>3. TypeOK'
  BY <1>1 DEF Inv, TypeOK
<1>4. ListOK' /\ \A d \in Databases : Own(d)' /\ Ordered(d)'
  BY <1>1 DEF Inv, ListOK, Own, Ordered
<1> QED BY <1>2, <1>3, <1>4 DEF Inv, Own, Ordered

LEMMA RestoreKeeps == Inv /\ Restore => Inv'
<1> SUFFICES ASSUME Inv, Restore PROVE Inv'
  OBVIOUS
<1>1. /\ saved # NoCopy /\ data' = saved /\ UNCHANGED <<saved, made, clock, stepped, timer>>
      /\ task' = [task EXCEPT !.sure = task.at # "record"]
  BY DEF Restore, Inv, TypeOK, Local
<1>2. /\ task' \in Local /\ task'.at = task.at /\ task'.todo = task.todo
      /\ task'.sure = (task.at # "record")
  BY <1>1 DEF Inv, TypeOK, Local
<1>3. Databases' \subseteq Databases
  BY <1>1 DEF Databases
<1>4. TypeOK'
  BY <1>1, <1>2 DEF Inv, TypeOK
<1>5. ListOK'
  BY <1>2 DEF Inv, ListOK
<1>6. \A d \in Databases : Own(d)' /\ Ordered(d)'
  BY <1>1, <1>2 DEF Inv, Own, Ordered
<1> QED BY <1>3, <1>4, <1>5, <1>6 DEF Inv, Own, Ordered

LEMMA NextInv == Inv /\ [Next]_vars => Inv'
<1> SUFFICES ASSUME Inv, UNCHANGED vars PROVE Inv'
  BY TimeKeeps, TickKeeps, ListKeeps, RecordKeeps, PruneKeeps, RestartKeeps, CreatePeerKeeps,
     DeletePeerKeeps, BackupKeeps, RestoreKeeps DEF Next
<1> QED BY DEF vars, Inv, TypeOK, Databases, Own, Ordered, ListOK

----------------------------------------------------------------------------
(* How many rows there are.                                                 *)

\* A table that has just been pruned holds at most Keep rows of each peer.
Counted(d) ==
    /\ IsFiniteSet(d.log)
    /\ ~d.due => \A p \in Key : Cardinality(RowsOf(d.log, p)) <= Keep

CountInv == \A d \in Databases : Counted(d)

LEMMA FewerRows ==
    ASSUME NEW d, NEW e, Counted(d), e.log \subseteq d.log, e.due = d.due
    PROVE  Counted(e)
<1>1. IsFiniteSet(e.log) /\ IsFiniteSet(d.log)
  BY FS_Subset DEF Counted
<1>2. ASSUME NEW p \in Key, ~d.due PROVE Cardinality(RowsOf(e.log, p)) <= Keep
  <2>1. IsFiniteSet(RowsOf(d.log, p)) /\ RowsOf(e.log, p) \in SUBSET RowsOf(d.log, p)
    BY <1>1, FS_Subset DEF RowsOf
  <2>2. /\ Cardinality(RowsOf(e.log, p)) <= Cardinality(RowsOf(d.log, p))
        /\ Cardinality(RowsOf(e.log, p)) \in Nat /\ Cardinality(RowsOf(d.log, p)) \in Nat
    BY <2>1, FS_Subset, FS_CardinalityType
  <2> QED BY <1>2, <2>2, KeepAssumption DEF Counted
<1> QED BY <1>1, <1>2 DEF Counted

LEMMA PruningLeavesKeep ==
    ASSUME NEW log \in SUBSET Row, IsFiniteSet(log), NEW kept \in Prunings(log), NEW p \in Key
    PROVE  Cardinality(RowsOf(kept, p)) <= Keep
<1>1. PICK f \in [Key -> SUBSET log] :
         /\ kept = UNION {f[q] : q \in Key}
         /\ \A q \in Key : f[q] \in Leftovers(RowsOf(log, q))
  BY DEF Prunings
<1>2. \A q \in Key : f[q] \subseteq RowsOf(log, q)
  BY <1>1 DEF Leftovers
<1>3. RowsOf(kept, p) = f[p]
  BY <1>1, <1>2 DEF RowsOf
<1>4. Cardinality(f[p]) <= Keep
  <2>1. IsFiniteSet(RowsOf(log, p))
    BY FS_Subset DEF RowsOf
  <2> QED BY <1>1, <2>1, FS_CardinalityType, KeepAssumption DEF Leftovers
<1> QED BY <1>3, <1>4

LEMMA InitCount == Init => CountInv
<1> SUFFICES ASSUME Init PROVE CountInv
  OBVIOUS
<1>1. Databases = {data} /\ data.log = {}
  BY DEF Init, Databases
<1>2. \A p \in Key : RowsOf({}, p) = {}
  BY DEF RowsOf
<1>3. Cardinality({}) <= Keep
  BY FS_EmptySet, KeepAssumption
<1> QED BY <1>1, <1>2, <1>3, FS_EmptySet DEF CountInv, Counted

LEMMA NextCount == Inv /\ CountInv /\ [Next]_vars => CountInv'
<1> SUFFICES ASSUME Inv, CountInv, [Next]_vars PROVE CountInv'
  OBVIOUS
<1> USE DEF CountInv
<1>1. ASSUME UNCHANGED saved, Counted(data') PROVE CountInv'
  BY <1>1 DEF Databases, Counted, RowsOf
<1>2. data \in Contents /\ Counted(data)
  BY DEF Inv, TypeOK, Databases
<1>3. CASE UNCHANGED <<data, saved>>
  BY <1>1, <1>2, <1>3
<1>4. CASE Record
  <2>1. PICK x \in task.todo :
           \/ UNCHANGED data
           \/ data' = Recorded(data, x.id, x.key, task.sure)
    BY <1>4 DEF Record
  <2>2. ASSUME x.id \in DOMAIN data.peers, data' = Recorded(data, x.id, x.key, task.sure)
        PROVE  Counted(data')
    <3>1. PICK row : data'.log = data.log \cup {row} /\ data'.due = TRUE
      BY <1>2, <2>2 DEF Recorded, Contents
    <3> QED BY <1>2, <3>1, FS_AddElement DEF Counted
  <2>3. Counted(data')
    BY <1>2, <2>1, <2>2 DEF Recorded
  <2> QED BY <1>1, <1>4, <2>3 DEF Record
<1>5. CASE Prune
  <2>1. CASE UNCHANGED data
    BY <1>3, <1>5, <2>1 DEF Prune
  <2>2. ASSUME NEW kept \in Prunings(data.log),
               data' = [data EXCEPT !.log = kept, !.due = FALSE]
        PROVE  Counted(data')
    <3>1. data.log \in SUBSET Row /\ IsFiniteSet(data.log)
      BY <1>2, PeersType DEF Counted
    <3>2. data'.log = kept /\ kept \subseteq data.log
      BY <1>2, <2>2, <3>1, PruningKeepsNewest DEF Contents
    <3>3. IsFiniteSet(kept) /\ \A p \in Key : Cardinality(RowsOf(kept, p)) <= Keep
      BY <3>1, <3>2, FS_Subset, PruningLeavesKeep
    <3> QED BY <3>2, <3>3 DEF Counted
  <2> QED BY <1>1, <1>5, <2>1, <2>2 DEF Prune
<1>6. CASE CreatePeer
  <2>1. data'.log = data.log /\ data'.due = data.due
    BY <1>2, <1>6 DEF CreatePeer, Contents
  <2> QED BY <1>1, <1>2, <1>6, <2>1, FewerRows DEF CreatePeer
<1>7. CASE DeletePeer
  <2>1. data'.log \subseteq data.log /\ data'.due = data.due
    BY <1>2, <1>7 DEF DeletePeer, Without, Contents
  <2> QED BY <1>1, <1>2, <1>7, <2>1, FewerRows DEF DeletePeer
<1>8. CASE Backup \/ Restore
  <2>1. Databases' \subseteq Databases
    BY <1>8 DEF Backup, Restore, Databases
  <2> QED BY <2>1 DEF Counted, RowsOf
<1> QED BY <1>3, <1>4, <1>5, <1>6, <1>7, <1>8 DEF Next, Time, Tick, List, Restart, vars

----------------------------------------------------------------------------
(* The history that is answered.                                            *)

\* A sorted table has every row, once.
LEMMA SortedIsSorted ==
    ASSUME NEW rows \in SUBSET Row, IsFiniteSet(rows), NEW l \in Sorted(rows)
    PROVE  LET n == Cardinality(rows)
           IN  /\ n \in Nat /\ l \in Seq(Row) /\ Len(l) = n
               /\ \A i \in 1..n : l[i] \in rows
               /\ \A r \in rows : \E i \in 1..n : r = l[i]
               /\ \A i, j \in 1..n : i < j => l[i] # l[j] /\ l[i].at >= l[j].at
<1> DEFINE n == Cardinality(rows)
<1>1. n \in Nat
  BY FS_CardinalityType
<1>2. l \in [1..n -> rows] /\ \A i, j \in 1..n : i # j => l[i] # l[j]
  BY DEF Sorted, SetToSeqs
<1>3. \A i, j \in 1..Len(l) : i < j => l[i].at >= l[j].at
  BY DEF Sorted
<1>4. l \in Surjection(1..n, rows)
  <2>1. l \in Injection(1..n, rows)
    BY <1>2 DEF Injection, IsInjective
  <2>2. IsFiniteSet(1..n) /\ Cardinality(1..n) = n
    BY <1>1, FS_Interval
  <2> HIDE DEF n
  <2>3. Cardinality(1..n) = Cardinality(rows)
    BY <2>2 DEF n
  <2> QED BY <2>1, <2>2, <2>3, FS_Injection
<1> HIDE DEF n
<1>5. l \in Seq(Row) /\ Len(l) = n
  <2>1. l \in [1..n -> Row]
    BY <1>2
  <2> QED BY <1>1, <2>1
<1> QED BY <1>1, <1>2, <1>3, <1>4, <1>5 DEF n, Surjection

\* An answer is the first rows of a sorted table, the last of them first.
LEMMA HistoryIs ==
    ASSUME NEW log \in SUBSET Row, IsFiniteSet(log),
           NEW p \in Key, NEW m \in Int, NEW a \in Histories(log, p, m)
    PROVE  \E l \in Sorted(RowsOf(log, p)) :
              \E k \in 0..Len(l) :
                 /\ k = IF m < 0 \/ m > Len(l) THEN Len(l) ELSE m
                 /\ Len(a) = k
                 /\ \A i \in 1..k : a[i] = l[k + 1 - i]
<1>1. PICK l \in Sorted(RowsOf(log, p)) :
         a = Reverse(IF m < 0 \/ m > Len(l) THEN l ELSE SubSeq(l, 1, m))
  BY DEF Histories, Shown
<1> DEFINE k == IF m < 0 \/ m > Len(l) THEN Len(l) ELSE m
           s == IF m < 0 \/ m > Len(l) THEN l ELSE SubSeq(l, 1, m)
<1>2. IsFiniteSet(RowsOf(log, p)) /\ RowsOf(log, p) \in SUBSET Row
  BY FS_Subset DEF RowsOf
<1>3. l \in Seq(Row)
  BY <1>1, <1>2, SortedIsSorted
<1>4. k \in 0..Len(l) /\ s \in Seq(Row) /\ Len(s) = k /\ \A i \in 1..k : s[i] = l[i]
  BY <1>3
<1>5. a = Reverse(s)
  BY <1>1
<1> HIDE DEF s, k
<1>6. Len(Reverse(s)) = k /\ \A i \in 1..k : Reverse(s)[i] = s[k + 1 - i]
  BY <1>4 DEF Reverse
<1>7. \A i \in 1..k : k + 1 - i \in 1..k
  BY <1>3, <1>4
<1>8. Len(a) = k /\ \A i \in 1..k : a[i] = l[k + 1 - i]
  BY <1>4, <1>5, <1>6, <1>7
<1> QED BY <1>1, <1>4, <1>8 DEF k

----------------------------------------------------------------------------
(* The theorems.                                                            *)

\* The tables and the task's list keep their types.
THEOREM TrafficTypeCorrect == Spec => []TypeOK
<1>1. Inv => TypeOK
  BY DEF Inv
<1> QED
  BY <1>1, InitInv, NextInv, PTL DEF Spec

\* Every snapshot is of a peer that exists and was measured on its key, unless a database
\* was restored while the task was writing.
THEOREM HistoryIsOwn == Spec => []OwnHistory
<1>1. Inv => OwnHistory
  BY DEF Inv, Databases, Own, OwnHistory
<1> QED
  BY <1>1, InitInv, NextInv, PTL DEF Spec

\* Pruning drops no snapshot of a peer while an older one stays, unless both have the same
\* stamp or the clock has been set back.
THEOREM PruningKeepsTheNewest == Spec => NewestKept
<1> DEFINE Kept ==
      Prune /\ ~stepped =>
          \A r \in data.log \ data'.log : \A s \in RowsOf(data'.log, r.peer) :
              r.id < s.id \/ r.at = s.at
<1>1. Inv /\ [Next]_vars => [Kept]_vars
  <2> SUFFICES ASSUME Inv, Prune, ~stepped,
                      NEW r \in data.log \ data'.log, NEW s \in RowsOf(data'.log, r.peer),
                      r.at # s.at
               PROVE  r.id < s.id
    OBVIOUS
  <2>1. data \in Contents /\ data.log \in SUBSET Row /\ Ordered(data)
    BY PeersType DEF Inv, TypeOK, Databases
  <2>2. PICK kept \in Prunings(data.log) : data' = [data EXCEPT !.log = kept, !.due = FALSE]
    BY DEF Prune
  <2>3. data'.log = kept
    BY <2>1, <2>2 DEF Contents
  <2>4. r \in data.log \ kept /\ s \in kept /\ s \in data.log /\ s.peer = r.peer
    BY <2>1, <2>3, PruningKeepsNewest DEF RowsOf
  <2>5. s.at >= r.at
    BY <2>1, <2>4, PruningKeepsNewest
  <2>6. r.id \in Int /\ s.id \in Int /\ r.at \in Int /\ s.at \in Int
    BY <2>1, <2>4 DEF Row
  <2>7. ~(s.id < r.id) /\ s.id # r.id
    BY <2>1, <2>4, <2>5, <2>6 DEF Ordered
  <2> QED BY <2>6, <2>7
<1> QED
  BY <1>1, InitInv, NextInv, PTL DEF Spec, NewestKept

\* Whatever number a request names, it is answered the newest snapshots, each once, the
\* oldest first; and no more than the cap, unless the number is negative and the table is
\* yet to be pruned.
THEOREM AnswersAreNewest == Spec => []AnswerIsNewest
<1>1. ASSUME Inv, CountInv PROVE AnswerIsNewest
  <2> SUFFICES ASSUME NEW p \in Key, NEW limit \in -1..Cap + 1,
                      NEW a \in Answers(data.log, p, limit)
               PROVE  /\ limit >= 0 \/ ~data.due => Len(a) <= Cap
                      /\ \A i, j \in 1..Len(a) :
                            i < j => /\ a[i] # a[j] /\ a[i].at <= a[j].at
                                     /\ ~stepped => a[i].id < a[j].id \/ a[i].at = a[j].at
                      /\ \A r \in RowsOf(data.log, p) :
                            (\A i \in 1..Len(a) : r # a[i]) =>
                               \A i \in 1..Len(a) : r.at <= a[i].at
    BY DEF AnswerIsNewest
  <2> DEFINE rows == RowsOf(data.log, p)
             m == IF limit < Cap THEN limit ELSE Cap
  <2>1. data.log \in SUBSET Row /\ Ordered(data) /\ Counted(data)
    BY <1>1, PeersType DEF Inv, CountInv, TypeOK, Databases
  <2>2. IsFiniteSet(data.log) /\ \A r, s \in data.log : r.id = s.id => r = s
    BY <2>1 DEF Counted, Ordered
  <2>3. rows \in SUBSET Row /\ rows \subseteq data.log /\ IsFiniteSet(rows)
    BY <2>1, <2>2, FS_Subset DEF RowsOf
  <2>4. m \in Int /\ limit \in Int /\ (limit < 0 <=> m < 0) /\ m <= Cap
    BY KeepAssumption
  <2>5. PICK l \in Sorted(rows) :
           \E k \in 0..Len(l) : /\ k = IF m < 0 \/ m > Len(l) THEN Len(l) ELSE m
                               /\ Len(a) = k
                               /\ \A i \in 1..k : a[i] = l[k + 1 - i]
    <3>1. a \in Histories(data.log, p, m)
      BY DEF Answers
    <3> HIDE DEF m
    <3>2. \E l \in Sorted(RowsOf(data.log, p)) :
             \E k \in 0..Len(l) : /\ k = IF m < 0 \/ m > Len(l) THEN Len(l) ELSE m
                                 /\ Len(a) = k
                                 /\ \A i \in 1..k : a[i] = l[k + 1 - i]
      <4>1. m \in Int
        BY <2>4
      <4>2. data.log \in SUBSET Row /\ IsFiniteSet(data.log)
        BY <2>1, <2>2
      <4> QED BY <3>1, <4>1, <4>2, HistoryIs
    <3> QED BY <3>2
  <2> DEFINE k == Len(a)
  <2>6. /\ k \in 0..Len(l) /\ \A i \in 1..k : a[i] = l[k + 1 - i]
        /\ k = IF m < 0 \/ m > Len(l) THEN Len(l) ELSE m
    BY <2>5
  <2>7. /\ Len(l) = Cardinality(rows) /\ Len(l) \in Nat
        /\ \A i \in 1..Len(l) : l[i] \in rows
        /\ \A r \in rows : \E i \in 1..Len(l) : r = l[i]
        /\ \A i, j \in 1..Len(l) : i < j => l[i] # l[j] /\ l[i].at >= l[j].at
    BY <2>3, SortedIsSorted
  <2>8. \A r \in rows : r.id \in Int /\ r.at \in Int
    BY <2>3 DEF Row
  <2>9. limit >= 0 \/ ~data.due => k <= Cap
    <3>1. ~data.due => Len(l) <= Keep
      BY <2>1, <2>7 DEF Counted
    <3> HIDE DEF m, k
    <3> QED BY <2>4, <2>6, <2>7, <3>1, KeepAssumption
  <2> HIDE DEF k, rows, m
  <2>10. ASSUME NEW i \in 1..k, NEW j \in 1..k, i < j
         PROVE  /\ a[i] # a[j] /\ a[i].at <= a[j].at
                /\ ~stepped => a[i].id < a[j].id \/ a[i].at = a[j].at
    <3>1. k + 1 - j \in 1..Len(l) /\ k + 1 - i \in 1..Len(l) /\ k + 1 - j < k + 1 - i
      BY <2>6, <2>7, <2>10
    <3>2. a[j] # a[i] /\ a[j].at >= a[i].at /\ a[i] \in rows /\ a[j] \in rows
      BY <2>6, <2>7, <3>1
    <3>3. a[i].id # a[j].id
      BY <2>2, <2>3, <3>2
    <3>4. ~stepped /\ a[j].id < a[i].id => a[j].at <= a[i].at
      BY <2>1, <2>3, <3>2 DEF Ordered
    <3> QED BY <2>8, <3>2, <3>3, <3>4
  <2>11. ASSUME NEW r \in rows, \A i \in 1..k : r # a[i], NEW j \in 1..k
         PROVE  r.at <= a[j].at
    <3>1. PICK i \in 1..Len(l) : r = l[i]
      BY <2>7
    <3>2. ~(i <= k)
      <4>1. i <= k => k + 1 - i \in 1..k /\ a[k + 1 - i] = l[k + 1 - (k + 1 - i)]
                      /\ k + 1 - (k + 1 - i) = i
        BY <2>6, <2>7
      <4> QED BY <2>11, <3>1, <4>1
    <3>3. k + 1 - j \in 1..Len(l) /\ k + 1 - j < i
      BY <2>6, <2>7, <3>2
    <3>4. a[j].at >= r.at /\ a[j] \in rows
      BY <2>6, <2>7, <3>1, <3>3
    <3> QED BY <2>8, <3>4
  <2> QED BY <2>9, <2>10, <2>11 DEF k, rows
<1> QED
  BY <1>1, InitInv, NextInv, InitCount, NextCount, PTL DEF Spec
=============================================================================
