----------------------------- MODULE TrafficLog -----------------------------
(* The traffic history: the background task that measures every five        *)
(* minutes, writes one row per peer and prunes, next to the handlers that   *)
(* create and delete peers and to a database restored under its feet.       *)
(*                                                                          *)
(* The kernel counts by public key, the table by row id: the task joins the *)
(* two by a list of peers that grows old while it writes.                   *)
EXTENDS Integers, Sequences, FiniteSets, SequencesExt

CONSTANTS
    MaxPeer,        \* BOUND: key pairs ever made
    MaxRow,         \* BOUND: snapshots ever recorded
    MaxTime,        \* BOUND: the clock
    Keep,           \* snapshots the task keeps of each peer (200)
    Cap,            \* what a history answers at most (500)
    NoCopy,
    Faults          \* what can go wrong in this run

ASSUME BoundAssumption == MaxPeer \in Nat /\ MaxRow \in Nat /\ MaxTime \in Nat
ASSUME KeepAssumption == Keep \in Nat \ {0} /\ Cap \in Nat /\ Keep <= Cap
ASSUME OptionAssumption == Faults \subseteq {"wg", "db", "restart", "clock"}

VARIABLES
    data,           \* the database
    saved,          \* a copy of it that an administrator has, or NoCopy
    made,           \* key pairs made so far: the last one's name
    clock,          \* the time the rows are stamped with, in seconds
    stepped,        \* the clock has been set back (history)
    timer,          \* the interval of five minutes is over
    task            \* the locals of the task

vars == <<data, saved, made, clock, stepped, timer, task>>

----------------------------------------------------------------------------
Key == 1..MaxPeer

\* A row of peer_traffic_log.  of: the key it was measured on; sure: not with a list of
\* peers older than the database (history).
Row == [id : 1..MaxRow, peer : Key, at : 0..MaxTime, of : Key, sure : BOOLEAN]

\* peers: id -> key.  lastPeer, lastRow: sqlite_sequence.  due: a row has been
\* written since the table was last pruned (history).
Contents == [peers    : UNION {[S -> Key] : S \in SUBSET Key},
             lastPeer : 0..MaxPeer,
             log      : SUBSET Row,
             lastRow  : 0..MaxRow,
             due      : BOOLEAN]

\* seen: the keys that have moved any bytes.  todo: the rows to write.  sure: the list
\* of peers is of the database in place, or of none (history).
Local == [at   : {"sleep", "list", "record"},
          seen : SUBSET Key,
          todo : SUBSET [id : Key, key : Key],
          sure : BOOLEAN]

TypeOK ==
    /\ data \in Contents /\ saved \in Contents \cup {NoCopy}
    /\ \A d \in {data} \cup ({saved} \ {NoCopy}) :
          \A p \in DOMAIN d.peers : p <= d.lastPeer /\ d.peers[p] <= made
    /\ made \in 0..MaxPeer
    /\ clock \in 0..MaxTime
    /\ stepped \in BOOLEAN /\ timer \in BOOLEAN
    /\ task \in Local

Asleep == [at |-> "sleep", seen |-> {}, todo |-> {}, sure |-> TRUE]

Init ==
    /\ data =
            [peers |-> [p \in {} |-> 0], lastPeer |-> 0, log |-> {}, lastRow |-> 0,
             due |-> FALSE]
    /\ saved = NoCopy
    /\ made = 0
    /\ clock = 0
    /\ stepped = FALSE /\ timer = TRUE
    /\ task = Asleep

----------------------------------------------------------------------------
(* The table (db.rs).                                                       *)

RowsOf(log, p) == {r \in log : r.peer = p}

\* MUTANT: the id of a deleted peer is used again (no AUTOINCREMENT).
NewId_Reused(d) ==
    CHOOSE n \in 1..d.lastPeer + 1 : \A p \in 1..MaxPeer : p \in DOMAIN d.peers => p < n

\* AUTOINCREMENT.
NewId(d) == d.lastPeer + 1

\* record_traffic_snapshot: the foreign key refuses a peer that is no more.
Recorded(d, p, key, sure) ==
    IF p \notin DOMAIN d.peers THEN d
    ELSE [d EXCEPT !.due = TRUE, !.lastRow = @ + 1,
                   !.log = @ \cup {[id |-> d.lastRow + 1, peer |-> p, at |-> clock,
                                    of |-> key, sure |-> sure]}]

\* MUTANT: ASC for DESC.
StaysBefore_Oldest(r, s) == r.at <= s.at

\* ORDER BY recorded_at DESC: r is kept rather than s.  Equal stamps come in any order.
StaysBefore(r, s) == r.at >= s.at

\* prune_traffic_log: what can be left of a peer's rows.
Leftovers(rows) ==
    {kept \in SUBSET rows :
        /\ IF Cardinality(rows) <= Keep THEN kept = rows ELSE Cardinality(kept) = Keep
        /\ \A r \in kept, s \in rows \ kept : StaysBefore(r, s)}

\* PARTITION BY peer_id.
Prunings(log) ==
    {UNION {f[p] : p \in Key} : f \in {g \in [Key -> SUBSET log] :
                                        \A p \in Key : g[p] \in Leftovers(RowsOf(log, p))}}

\* ORDER BY recorded_at DESC, which leaves the order of equal stamps open.
Sorted(rows) ==
    {l \in SetToSeqs(rows) : \A i, j \in 1..Len(l) : i < j => l[i].at >= l[j].at}

\* MUTANT: not reversed.
Shown_Newest(rows) == rows

Shown(rows) == Reverse(rows)

\* get_traffic_history: LIMIT n, no limit when n is negative; then reversed.
Histories(log, p, n) ==
    {Shown(IF n < 0 \/ n > Len(l) THEN l ELSE SubSeq(l, 1, n)) : l \in Sorted(RowsOf(log, p))}

\* api_peers_traffic: what it can answer.
Answers(log, p, limit) == Histories(log, p, IF limit < Cap THEN limit ELSE Cap)

----------------------------------------------------------------------------
(* traffic_recording_task.                                                  *)

\* The clock goes on to another second, or is set, at any point.  The interval may be
\* over by then.
Time ==
    /\ \/ clock < MaxTime /\ clock' = clock + 1 /\ UNCHANGED stepped
       \/ "clock" \in Faults /\ clock' \in 0..clock /\ stepped' = TRUE
    /\ timer' = TRUE
    /\ UNCHANGED <<data, saved, made, task>>

\* The tick: at once after a start, and after a round that took longer than the interval.
\* WireGuard is asked: the keys that have moved any bytes.  An unreadable counter is 0,
\* an unreadable line is skipped; without an answer the round is over.
Tick ==
    /\ task.at = "sleep"
    /\ timer /\ timer' = FALSE
    /\ \/ \E keys \in SUBSET (1..made) : task' = [Asleep EXCEPT !.at = "list", !.seen = keys]
       \/ "wg" \in Faults /\ UNCHANGED task
    /\ UNCHANGED <<data, saved, made, clock, stepped>>

\* list_peers, joined with the answer by public key.
List ==
    /\ task.at = "list"
    /\ \/ task' = [task EXCEPT !.at = "record",
                      !.todo = {[id |-> p, key |-> data.peers[p]] :
                                  p \in {q \in DOMAIN data.peers : data.peers[q] \in task.seen}}]
       \/ "db" \in Faults /\ task' = Asleep
    /\ UNCHANGED <<data, saved, made, clock, stepped, timer>>

\* The next row, by id.  One that cannot be written is left out.
Record ==
    /\ task.at = "record"
    /\ \E x \in task.todo :
          /\ \A y \in task.todo : x.id <= y.id
          /\ task' = [task EXCEPT !.todo = @ \ {x}]
          /\ \/ /\ data.lastRow < MaxRow
                /\ data' = Recorded(data, x.id, x.key, task.sure)
             \/ "db" \in Faults /\ UNCHANGED data
    /\ UNCHANGED <<saved, made, clock, stepped, timer>>

Prune ==
    /\ task.at = "record" /\ task.todo = {}
    /\ task' = Asleep
    /\ \/ \E kept \in Prunings(data.log) : data' = [data EXCEPT !.log = kept, !.due = FALSE]
       \/ "db" \in Faults /\ UNCHANGED data
    /\ UNCHANGED <<saved, made, clock, stepped, timer>>

\* The process dies, or is stopped; it starts with an immediate tick.
Restart ==
    /\ "restart" \in Faults
    /\ timer' = TRUE
    /\ task' = Asleep
    /\ UNCHANGED <<data, saved, made, clock, stepped>>

----------------------------------------------------------------------------
(* The handlers.                                                            *)

CreatePeer ==
    /\ made < MaxPeer /\ data.lastPeer < MaxPeer
    /\ made' = made + 1
    /\ data' = [data EXCEPT !.lastPeer = NewId(data),
                            !.peers = [p \in DOMAIN @ \cup {NewId(data)} |->
                                         IF p = NewId(data) THEN made' ELSE @[p]]]
    /\ UNCHANGED <<saved, clock, stepped, timer, task>>

\* MUTANT: the snapshots stay, without their peer (ON DELETE SET NULL).
Without_SetNull(d, p) ==
    [d EXCEPT !.peers = [q \in DOMAIN @ \ {p} |-> @[q]],
              !.log = {IF r.peer = p THEN [r EXCEPT !.peer = 0] ELSE r : r \in @}]

\* ON DELETE CASCADE.
Without(d, p) ==
    [d EXCEPT !.peers = [q \in DOMAIN @ \ {p} |-> @[q]], !.log = @ \ RowsOf(@, p)]

DeletePeer ==
    /\ \E p \in DOMAIN data.peers : data' = Without(data, p)
    /\ UNCHANGED <<saved, made, clock, stepped, timer, task>>

\* api_backup_download.  BOUND: one copy is taken.
Backup ==
    /\ saved = NoCopy
    /\ saved' = data
    /\ UNCHANGED <<data, made, clock, stepped, timer, task>>

\* api_backup_restore: everything goes back, the sequences too.  The list the task is
\* working on, if there is one, is now of another database.
Restore ==
    /\ saved # NoCopy
    /\ data' = saved
    /\ task' = [task EXCEPT !.sure = task.at # "record"]
    /\ UNCHANGED <<saved, made, clock, stepped, timer>>

Next ==
    \/ Time
    \/ Tick \/ List \/ Record \/ Prune
    \/ Restart
    \/ CreatePeer \/ DeletePeer \/ Backup \/ Restore

Spec == Init /\ [][Next]_vars

----------------------------------------------------------------------------
(* What the history shows.                                                  *)

\* A snapshot belongs to a peer that exists and was measured on that peer's key, through
\* deletions, creations and restores between the measuring and the writing.  Only a
\* database restored while the task was writing can get rows of another peer: the ids
\* on the task's list have another meaning in it.
OwnHistory ==
    \A r \in data.log :
        /\ r.peer \in DOMAIN data.peers
        /\ r.sure => r.of = data.peers[r.peer]

\* Pruning goes by the stamps, and a restored database continues older numbers with
\* later stamps.  Still, unless the clock has been set back, a snapshot is dropped while
\* one recorded before it is kept only if both were recorded in the same second.
NewestKept ==
    [][Prune /\ ~stepped =>
          \A r \in data.log \ data'.log : \A s \in RowsOf(data'.log, r.peer) :
              r.id < s.id \/ r.at = s.at]_vars

\* Whatever number the request names, the answer is the newest snapshots, each once, the
\* oldest first (in the order they were recorded, if the clock was never set back and no
\* two were recorded in the same second), and never more than the cap: a negative number
\* lifts it, but then the pruning still holds.
AnswerIsNewest ==
    \A p \in Key, limit \in -1..Cap + 1 : \A a \in Answers(data.log, p, limit) :
        /\ limit >= 0 \/ ~data.due => Len(a) <= Cap
        /\ \A i, j \in 1..Len(a) :
              i < j => /\ a[i] # a[j] /\ a[i].at <= a[j].at
                       /\ ~stepped => a[i].id < a[j].id \/ a[i].at = a[j].at
        /\ \A r \in RowsOf(data.log, p) :
              (\A i \in 1..Len(a) : r # a[i]) => \A i \in 1..Len(a) : r.at <= a[i].at
=============================================================================
