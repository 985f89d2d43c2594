# WireGuard Web Manager in TLA+

A verification development kept beside the Rust program in `rust/`. It models the parts of
the program whose correctness depends on the order in which things happen: the socket protocol
between the web application and its privileged worker, the peers (table, kernel and handlers),
the access rules (table, nftables and handlers), the settings (file and memory), the database
file under backup and restore, and the traffic history. Two small modules have the functions that
compute an answer from one input: the address allocator and the peer statistics. TLC checks
the models on small instances; TLAPS proves the most important facts for every instance.

## 1. The system

| Component | State | Operations | Talks to |
|---|---|---|---|
| `wg-manager` (axum, multi-threaded tokio) | settings in memory, handlers in flight | HTTP API, start-up ACL restore, traffic task | SQLite, worker or `sudo wg`, config.yaml |
| `wg-worker` (one thread, root) | listen queue, request being served | `peer_set`, `peer_remove`, `apply_acl_rules`, `reload_all_acl`, stats, `apt-get` | kernel (`wg`), nftables (`nft`) |
| SQLite (`db.rs`) | peers, peer_acl_rules, peer_traffic_log | one connection and one autocommit statement per call | - |
| WireGuard interface | peer -> allowed IP | `wg set`, `wg show dump` | - |
| nftables table `wgwm` | rules of chain `forward`, in order | add, delete, flush | - |
| config.yaml | settings | load at start-up, save from the settings page | both processes |

What is hard about it:

* a handler reads a row, calls the worker, writes the row, and holds nothing meanwhile: handlers
  interleave at every one of these points;
* a call can time out while its request stays in the listen queue and is executed later;
* either process can die between two steps, and systemd restarts it; nothing is reconciled then;
* the outcome of some steps is dropped (`let _ =`), so a later step runs after a failed one;
* the kernel gives an allowed IP to one peer only, so giving it to one takes it from another;
* nftables is changed one command at a time, and rules are found again by a text search over
  comments that end in what an administrator wrote;
* with a blank worker socket, a documented way to run, rules are saved and nftables is not touched;
* a restore copies the database while statements may write to it, renames a file over it while
  connections are open on the old one, and two restores share one temporary file;
* the traffic task joins kernel counters with a list of peers that grows old while it writes, and its
  stamps are whole seconds of a clock that can be set.

### Components: state, operations, what makes them correct

* **Worker socket protocol** (`wg-manager/src/wg_client.rs`, `wg-worker/src/main.rs`). State: the
  listen queue, the connection being served, both ends of every connection. Operations: connect,
  write one line, read one line or give up after 15 s; accept, read a line without a time-out, run
  it to completion, answer. Correct when a request runs at most once, an "ok" means that it ran,
  the answer of one request never reaches another, every call returns, and abandoned connections
  do not fill the queue.
* **Peer management** (`api_peers_create/update/delete`, `db.rs`, `wg_local.rs`). State: table
  `peers`, the interface. Correct when a peer has exactly the tunnel its row asks for and no two
  rows share an address.
* **Access control** (`api_acl_create/delete`, the start-up restore task, `apply_peer_acl`,
  `reload_all_acl`). State: table `peer_acl_rules`, the chain `forward` of table `inet wgwm`.
  Correct when the chain holds the rules of the table, a peer's own, once each, by priority.
* **IP allocator** (`allocate_next_ip`). A walk over the hosts of the CIDR past the used addresses.
  Correct when it finds the least free address, whatever the prefix, and gives up only without one.
* **Settings** (`config.rs`, `api_settings_put`). State: config.yaml and the copy in memory.
  Correct when the two agree after a save and the program can start from the file it wrote.
* **Backup and restore of the database** (`api_backup_restore`). State: the database file, its
  `.bak`, the shared `restore_tmp`. Correct when only a checked file is put in place and the
  previous database is never lost.
* **Traffic history** (`traffic_recording_task`, `prune_traffic_log`). State: `peer_traffic_log`.
  Correct when a snapshot is shown for the peer it was measured on, when pruning keeps the newest
  200 of each peer, and when the history answers the newest ones, oldest first.
* **Peer statistics** (`parse_dump`, `handle_get_peer_stats`, `api_server_peer_stats`). A function of
  `wg show dump` and the clock. Correct when a bad line takes nothing from the other peers and a peer
  counts as connected when its last handshake is recent.
* **Client configuration, QR code, package update, login and pages, documentation
  pages**: no state of their own, or one child process; see "Not modelled".

## 2. The modules

| Module | Models | Built on |
|---|---|---|
| `AtMostOnceRpc` | what a caller may rely on when it asks the worker for something | - |
| `WorkerRpc` | the socket protocol; refines `AtMostOnceRpc` | INSTANCE of `AtMostOnceRpc` |
| `PeerSync` | the handlers that change peers, the table, the interface, the worker's `wg` commands | INSTANCE of `WorkerRpc` |
| `AclSync` | the handlers that change rules, the restore task, the table, the chain, the worker's `nft` commands | INSTANCE of `WorkerRpc` |
| `SettingsStore` | config.yaml, the copy in memory, the handler that saves both, the start | - |
| `DbRestore` | the database file, its journal, `.restore_tmp` and `.bak`; statements, downloads and restores | - |
| `TrafficLog` | the recording task, pruning, the history; peers created, deleted, restored | - |
| `AddressPool` | the walk of `allocate_next_ip` over a range | - |
| `PeerViews` | `parse_dump` and the page of statistics computed from it | - |
| `WorkerRpcProofs`, `PeerSyncProofs`, `AclSyncProofs`, `SettingsStoreProofs`, `DbRestoreProofs`, `TrafficLogProofs` | theorems and proofs | extend the module they are about; `PeerSyncProofs` and `AclSyncProofs` use an INSTANCE of `WorkerRpcProofs` |
| `PeerInSyncProofs` | the proof that peers are in sync | extends `PeerSyncProofs` |
| `InputProofs` | theorems and proofs | extends `AddressPool` and `PeerViews` |
| `MCWorkerRpc`, `MCPeerSync`, `MCAclSync`, `MCSettingsStore`, `MCDbRestore` | model values, symmetry sets and defaults for TLC | extend the module they check |
| `MCInputs` | all small inputs of `AddressPool` and `PeerViews`, one at a time | extends both |

A definition whose comment starts with MUTANT is never part of a specification: it is a
plausible bug in the definition that follows it, kept to show that a property notices it.

### WorkerRpc

`cli[c]` is the client's end of connection `c`, `backlog`, `serving` and `result` are the worker's
side, `req[c]` is the line written and `runs[c]` a history variable counting how often it was run.
`Connect`, `Write`, `Timeout` and `Return` are the four points of `wg_client::request`; `Accept`,
`HandleRequest`, `HandleEmpty` and `Reply` are the body of the worker's accept loop. `Timeout` and
`ManagerCrash` close the client's end and leave the request with the worker, as closing a UNIX
socket does; `WorkerCrash` drops the queue and every waiting client reads EOF, which the client
reports as an error although the command may have been run. `Conn` is the number of connections
the kernel allows at once; a thread that finds none free blocks in connect(2).

### PeerSync

`peers` is the table, `lastId` its AUTOINCREMENT sequence, `kernel[p]` the address routed to peer
`p`, `hd[h]` the locals of handler `h`. A handler stops between two steps wherever another handler,
the worker or a crash can come in: after the allocation (`BeginCreate`), the INSERT (`InsertRow`),
around the worker call (`Call`, `Send`, `Receive`, `GiveUp`) or `sudo wg` (`LocalWg`), and before the
table is written (`DbWrite`). `AfterWg` is the kernel's rule that an address belongs to one peer.
The code's dropped outcomes are kept: a failed read of the used addresses counts as "none used", a
deletion goes on after a failed removal, a creation leaves its row when `wg set` fails.
`socket` is the setting `wg_worker_socket` (set or blank, which means `sudo wg`); a handler clones
the settings when it starts, and `SaveSettings` may change them under requests in flight. `Reboot`
empties the interface, as nothing in the program puts the peers back into it.

### AclSync

`rules` is the table, `chain` the rules of chain `forward` in order, `nft` whether the table and its
chain exist, `wk` the worker's place in the request it serves: one step is one `nft` command.
`BeginAdd` and `BeginRemove` commit the row, `ReadSettings` clones the settings, `List` reads the rules
back, then the call is made. `socket` is the setting `wg_worker_socket`, set or blank (`SaveSettings`
changes it): when it is blank the request is answered 2xx and nftables is not touched, and the restore
task ends at once.
`BeginRemove` deletes whatever rule it is given and rewrites the chain of the peer in the path, as
`api_acl_delete` does: the rule may be another peer's.
The peer may be gone when its rules are read back: then the list is empty, and the address it is sent
for may be another peer's by now.
The restore task (`Snapshot`, `Scan`, `EndScan`) runs beside the handlers after every start of the
manager and reads the table peer by peer. A rule is its row id. The worker finds it again by its
comment, the mark of its address and then the description as it was typed: `Found` is the search for
a mark without the trailing space, so that `...2` finds `...2`, `...20` and `...200`, in the comment's own
address and in every address that a description names (`Marks`). The handle is read behind the first `# handle ` of the
line: a rule whose description holds that text (`Unhandled`) is found and cannot be deleted. `Ensure` takes any
failing `nft list table` for a missing table, as the worker does, and adding one that is there
changes nothing.

### SettingsStore

`file` is config.yaml: a document, absent, empty, or torn (one body and the end of a longer one).
A document is a password, the rest, and whether it deserializes into `Settings`. A save stops where
another save, a failure or a crash can come in: after the old file is read and the body completed
(`BeginSave`), after `fs::write` has truncated the file (`Truncate`), after it has written it
(`Write`), after the reload (`Reload`), and while it waits for the lock on the copy in memory
(`Publish`, or `Leave` when the client goes). An empty file loads: every section has a default.
`want` and `hurt` are history variables: the password last asked for and written, and what a save
that failed half-way or overlapped another may have spoilt, until an undisturbed one mends it.

### DbRestore

A file is what SQLite finds in it: rows on top of a base, with or without the tables of this version,
or `Spoilt`. `db`, `tmp` and `bak` are the three paths; a rename moves files from path to path, and
`fd` and `wr[w]` say on which file an open descriptor of `fs::write` or a connection now is. SQLite is
external: one writer at a time on a file, a rollback journal found by its path, so that after a
rename a journal can lie beside a file it does not belong to (`journal = "gone"`). The restore stops
after each of its operations: `BeginRestore` truncates the shared temporary file, `Fill` writes the
body where its descriptor points by then, `Check` is the integrity check, `Remove` or the copy and
`Rename` follow. `tokio::fs::copy` reads and writes over some time: `Copy` opens the database and empties
`.bak`, `EndCopy` is its end, and a statement that begins or writes between the two may be in the copy,
or not, or in part (`Disturbed`).
Each operation can fail, and a client that leaves drops the handler (`Then`).
`expect` and `bad` are history: the database the administrators were told is in place, or `Unsure`
since a restore met another one or replaced the file under a statement.

### TrafficLog

`data` is the database (peers, their ids, `peer_traffic_log`, both sequences), `saved` a backup of it.
The task ticks and asks WireGuard (`Tick`), joins the answer with the list of peers (`List`), writes
one row per step (`Record`) and prunes (`Prune`); peers are created, deleted and restored between any
two steps. The kernel counts by public key, the rows go by id: each row keeps, as history, the key it
was measured on. Stamps are whole seconds of a clock that moves on, or is set back, between any two steps
(`Time`); `timer` is the interval having run out, so a round that took five minutes is followed by the
next at once and a restarted task begins without waiting: two snapshots of a peer can have the same
stamp. `ORDER BY recorded_at` then leaves their order open, and the pruning keeps (`Leftovers`), and the page
is given (`Answers`), any of the orders SQLite may choose. `Answers` is `api_peers_traffic` with its cap,
for any limit the request names.

### AddressPool, PeerViews

An address is a number, a CIDR an address and a power of two; one step is one host looked at. A dump
is a sequence of lines with the columns that are read, each a number or unreadable; `PeerLines` are the
numbers of the lines that count, `Shown` is what the page says of a peer, and `Poll` shows the page again.
Handshakes and the clock are whole seconds; `Parts` is into how many parts a second is cut where a property
speaks of the time that really passed.

### The marks

`drift` in `PeerSync` and `AclSync` is a history variable: the peers (addresses) that a failed or
interrupted step, or two requests about them at once, have left behind, and that no later successful
one, alone from the reading of the table on, has brought back (a request whose peer has been
deleted meanwhile brings nothing back). It appears in the
properties, never in a guard of the code's steps.

## 3. What is checked

| Run | Question | Bounds | Result |
|---|---|---|---|
| `rpc` | `TypeOK`, `EndsAgree`, `RunOnce`, the refinement `AtMostOnce`, liveness `EveryCallReturns`, `AbandonedDrain` | 3 connections | holds |
| `peers_admin` | `TypeOK`, `SyncUnlessFailed`, worker or `sudo wg`, settings saved at rest, all faults and a reboot | 2 handlers on the same or different peers, 3 connections, 2 rows, 2 addresses | holds |
| `peers_live` | `OwnAnswer`, liveness `HandlersFinish`, settings saved at any time | 2 handlers, 2 connections, 1 row | holds |
| `acl_faults` | `TypeOK`, `AppliedUnlessFailed`, `UnnamedUntouched`, all faults but database errors, a reboot, the socket set and unset | 1 handler and the restore task, 2 connections, 2 peers with addresses 2 and 20, 2 rules, one naming the other peer, 2 priorities | holds |
| `acl_live` | `AppliedUnlessFailed` with requests that overlap, database errors, liveness `RequestsFinish` | 2 handlers and the restore task, 1 connection, 2 peers with the same address in turn, 2 rules, one never found by its handle | holds |
| `settings` | `TypeOK`, `PasswordKept`, `InForce`, `StartsAgain`, all faults | 2 handlers, 2 passwords and blank, 2 values of the rest | holds |
| `restore` | `TypeOK`, `InPlace`, `PreviousKept`, all faults | 2 restores, 2 writing statements, 2 rows, 2 bases | holds |
| `traffic` | `TypeOK`, `OwnHistory`, `AnswerIsNewest`, `NewestKept`, all faults | 2 key pairs, 3 snapshots at 3 times, 1 kept, at most 2 answered | holds |
| `inputs` | `TypeOK`, `LeastFree`; `OthersUnharmed`, `ConnectedIfRecent` | 8 addresses, 4 prefixes, every set of used ones; every dump of at most 2 peers, 4 times, quarters of a second | holds |
| `peers_allocator` | `AllocatedIpIsUnused` | 1 handler, nothing fails | violated |
| `acl_prefix` | `OthersUntouched` with addresses 2 and 20 | 1 handler, nothing fails | violated |
| `acl_restart` | `RestoredAtStart` | 1 handler and the restore task, the host restarts | violated |

What the passing runs show:

* **The socket.** Whatever mixture of time-outs and crashes, both ends agree on what is open
  (`EndsAgree`), a request is run at most once and "ok" means it was (`RunOnce`); more precisely the
  protocol implements `AtMostOnceRpc` (`AtMostOnce`). Calls return even if no time-out ever fires.
* **Peers.** `SyncUnlessFailed`: a peer whose last change succeeded, no other request about it being
  in flight when it began, has exactly the tunnel its row asks for. The hard cases are
  requests that timed out and are executed later, and addresses that pass from a deleted peer to a
  new one while requests about the first may still be queued. That it holds rests on the worker
  serving connections oldest first: with the newest first the property is violated. Two requests
  about one peer that meet can leave its row and the kernel contradicting each other (one reads
  "active", the other disables, the first enables), and can take the tunnel of a peer that got the
  address meanwhile; the model marks both, and the next request alone mends them. After a reboot
  every active peer is without its tunnel until its next change.
* **Rules.** `AppliedUnlessFailed` is the same statement for the chain: what was listed last and
  applied with success is there, once each and in order, whatever failed before. A worker that dies
  between two commands, a deletion that fails, a rule that cannot be added, rewritings that overlapped, a
  rule deleted by way of another peer, a reboot, the rules a deleted peer leaves to the next holder of its
  address, and changes made without a socket are all repaired by
  the next successful rewriting. Left behind, and marked so, are a peer whose rule another peer's
  rewriting took away and one with a rule that is never found by its handle. `UnnamedUntouched` says which rules
  a rewriting leaves alone at every command, unmoved: all those of other peers that the search text does not
  name, by their address or in a description.
* **Settings.** A blank password keeps the present one (`PasswordKept`), what is in force is what the
  next start would read (`InForce`), and the program can start from what a save left behind
  (`StartsAgain`), each up to the exceptions the code has: a save that fails or dies between
  truncating and writing leaves an empty file, which loads as all defaults; a body that does not
  deserialize is saved, answered 204 and stops the next start; saves that overlap may read the file
  the other has just emptied, or write over one another. The first undisturbed save mends
  the copy in memory, and the password if it names one.

* **Restore.** `InPlace`: refused uploads, failing operations, clients that leave and crashes at any
  point leave in place either the old database or the new one, whole, with every row acknowledged
  since. The exceptions the code has are named by `Unsure`: two restores that overlap share one
  temporary file, so what is renamed need not be what was checked, and a write can end in the
  database itself; and a restore under a writing statement loses its row or leaves its journal
  beside the wrong file. A restore that meets nothing mends both. `PreviousKept`: `.bak` is exactly
  the database replaced, unless the copy failed, which the code ignores, or a statement began or wrote
  while it was made or before the rename.
* **Traffic.** `OwnHistory`: however old the task's list of peers, a snapshot is of the peer it is
  shown for, because ids are never used again; a database restored while the task writes is the one
  exception. `NewestKept` and `AnswerIsNewest` hold up to a clock that was set back, where the pruning
  drops what was just recorded, and up to stamps that are equal, where either row may be kept and either
  come first; a negative limit is answered with everything.
* **Inputs.** `LeastFree`, for every range, with host bits or not: a /32 has no address for a
  peer, a /31 one. A bad line of the dump or a handshake stamped in the future hurts nobody.
  `ConnectedIfRecent`: who is shown as connected has had a handshake less than 180 s ago, or one that the
  clock places in the future; who had one at most 179 s ago is. In between it is open, because both stamps are
  whole seconds. After exactly 180 s nobody is connected: the comment at `rust/wg-manager/src/main.rs:433`
  (「直近 180 秒以内」, within the last 180 seconds) counts that moment in, the code (`< 180`) does not, and
  the property is stated as the code has it.

What the violated ones show, each a disagreement between a text of the repository and the code
(the texts are quoted in PROJECT.json): the allocator forgets the addresses of disabled peers, so
creating a peer fails while free addresses exist; rewriting the rules of 10.0.0.2 deletes those of
10.0.0.20; after a restart of the host the rules are not restored when the worker does not listen yet,
as the task makes a single call.

Not a disagreement with a text, so without a run of its own: a deleted peer's rules stay in the chain, and hold for
the next peer that gets its address until the first change of that peer's own rules
(`AppliedUnlessFailed` says that this change clears them).

### Bounds

`MaxPeer`, `MaxRule` cap the AUTOINCREMENT sequences, `MaxChain` caps the rules that a failed
deletion or flush may leave behind (without it they pile up for ever), `Conn` the connections at
once. Two rows over two addresses are the least with which one peer disturbs another and an
address changes hands. Three connections are one being served and two waiting in either order;
two let an abandoned request meet a live one. Of two rules with two priorities the
later one comes first (`LaterFirst`, a constraint of the run): the order of the table is then not that of the ids.
The addresses 2 and 20 are one that begins the other, and the description of rule 1 names 20, so that it is
found for its own peer and for a stranger. No passing run has a rule that `nft` refuses every time:
to the worker it is a command that fails, which any may. `acl_live` has two peers after each other on one address and a rule of
each, so that a request of the first meets those of the second.
`MaxWrite` is two rows: one that a restore may lose and one that it must keep. Two restores and two
statements are what it takes for a restore to meet another one and a statement on either side of a
rename. `MaxRow`, `MaxTime` and one backup copy bound `TrafficLog`; keeping one
row of three makes pruning choose, and answering two makes the cap matter; three rows at three times
may all be stamped alike or differ. Eight addresses hold
every position of a range of one, two, four or eight. `Faults` names what may go wrong in a run;
"overlap" (`AclSync`, `DbRestore`) lets requests meet, which in `PeerSync` they always may. Symmetry
is used on connections, handlers and writers, in runs that check no liveness.

`AclSync` is checked without deadlock detection: once the rules of the bound are created and the
administrators are done nothing need ever happen. So is `SettingsStore`: with a file that does not
load the program stays down. The walk of `AddressPool` ends. The other modules are checked with it.

### Fairness

Weak fairness of the worker's loop and of its start: systemd restarts it (`Restart=on-failure`),
its loop never pauses, and every child process is assumed to end. Weak fairness of every step of
a handler that has started: it is run by the runtime's threads. Strong fairness of `Call`: a thread
blocked in connect(2) on a full queue is woken in its turn. Nothing is assumed of administrators,
of time-outs, of crashes or of faults, so liveness is not bought with any of them.

## 4. What is proved

TLAPS checks these for all values of the constants, from the constants' named assumptions only.

* `WorkerRpcProofs`: `TypeCorrect`, `EndsAlwaysAgree`, `RunsAtMostOnce` and `Refinement`
  (`Spec => AtMostOnce`). The inductive invariant `IInv` is the conjunction of the three state
  properties, and none is inductive alone: that a request is not run twice needs the connection being
  served not to be queued again, which `EndsAgree` says; that two queued connections differ needs
  a connection in the queue not to look free to its client. The listen queue is reasoned about
  as a set by two lemmas about `Append` and `Tail`. A second group of lemmas is about the order in which requests
  are run (`WorkerKeepsOrder`, `RunIsFirst`): a connection is never overtaken by a later one. Every action is shown to be a step of
  `AtMostOnceRpc` or to stutter.
* `PeerSyncProofs`: `TypeCorrect`, `AnswersAreOwn` and `UsesRpc` (`Spec => Rpc!Spec`). The
  invariant `Inv` adds to the socket's invariant what the locals of a handler hold at each point
  (`LocalsOK`) and that a creation which has its address will find an id (`RoomOK`, a
  statement about cardinalities, which `TypeOK` needs). Every step of `PeerSync` is a step of
  `WorkerRpc` or leaves it alone (`NextUsesRpc`), so the socket's invariant, proved once, is
  carried over instead of proved again. `OwnAnswer` then needs that no handler is given a connection
  another one, or an abandoned request, still has.
* `PeerInSyncProofs`: `InSyncUnlessFailed`, that `SyncUnlessFailed` holds however many handlers, connections, peers and
  addresses there are, with every fault but settings saved while requests are in flight (`"switch" \notin Faults`,
  see "Not modelled"). The invariant `SyncInv` says of a peer that is not marked: with no request about it in flight the
  kernel has what the row asks for, and nothing still queued can change it (`RestOK`); with one, that one finds the row as
  it left it, and once run is the last word (`CourseOK`). The queue may hold abandoned requests of other peers that name the same
  address; they run before any live one about the peer that has it now (`InTurnOK`), which rests on the worker serving the
  oldest connection first (lemma `RunIsFirst`). The other conjuncts: the locals of a handler fit its point (`StagesOK`), every
  request goes the way the settings say (`SocketOK`), no two rows have an address in common (`UniqueOK`), nobody has heard
  of an id not handed out (`FreshOK`), whatever names a peer names its row's address (`AddressOK`), two requests about
  one peer are marked (`MetOK`).
* `SettingsStoreProofs`: `TypeCorrect`, `PasswordIsKept`, `FileIsInForce`, `AlwaysStartsAgain`. The
  invariant says what the properties, which speak of moments without a save, leave open: where
  nothing has spoilt the copy in memory (`MemInv`) or the password (`PwInv`) at most one save runs, and
  at each of its points the file, the copy and its locals stand in a known relation; `TornInv` is
  the same for a file that two saves have written over. That a mended `hurt` is no longer spoilt
  rests on `AtMostOne`: a save that began alone and was overlapped since is not trusted.
* `AclSyncProofs`: `TypeCorrect`, `UsesRpc`, `UnnamedAreUntouched`, `OthersAreUntouched` and
  `AppliedIsAsked`. `ListedIsSorted` says that
  `list_acl_rules` lists every rule of a peer once, in order, by counting how many rules come before
  each (`RankOrder`); the type of what is sent and applied rests on it. `UnnamedAreUntouched` has no hypothesis, as
  `UnnamedUntouched` itself excuses the rules whose address or description the search names; `OthersAreUntouched` says it of
  all rules of other peers under `NoneBegins`, that no address begins another, which the run `acl_prefix`
  shows it cannot do without, and `NoneNamed`, that no description holds a mark. The invariant `OwnInv` follows one address from the handler's locals into the request,
  into the worker's list of rules to add, and says that nothing is left over between two requests;
  `ServedStays`, that nobody else touches a request being run, comes from `EndsAgree`. Three lemmas
  build the correspondence between the chain before and after a command.

  `AppliedUnlessFailed` says nothing while a rewriting is on its way, so its invariant `AppInv` says of each
  unmarked address (`Good`) that at most one actor is about it, and where that one stands. With nobody
  about it, the chain shows what the table asks for and nothing unread at the worker rewrites it (`Done`).
  With one, `OnCourse` follows it: the list it read is still what the table asks for; its request is the last
  in line of those that rewrite the address (`LastInLine`, from the queue-order lemmas of `WorkerRpcProofs`);
  while it runs, what is in the chain and what is left to add make up the list (`PlaceOK`); once it ran,
  `Done`. `OwnerOK` and `HolderOK` are what it takes for steps of the others to leave it alone (`AsideIsGood`): no two
  calls have a connection in common, no two peers an address, and a handler's peer has the address the
  handler noted while it exists. `NextIsGood` has one lemma per action. `AppliedIsAsked` is the property itself, whatever
  the addresses and the descriptions are: a command that takes away a rule of another address, or leaves one of
  its own, marks it, so what is unmarked is not touched by anybody else's request.
* `DbRestoreProofs`: `RestoreTypeCorrect`, `RestoredIsInPlace` and `PreviousIsKept`. `InPlace` is far from
  inductive. The invariant says who may have the temporary file open (`TmpIsMine`: a restore that met
  nobody has its own body there once it is written), whose a journal is (`JournalIsOurs`), that nothing writes
  around SQLite's lock while it is known what is in place (`Safe`), that at most one transaction is on the file in place (`OneWriter`), that every restore beside another
  knows it (`MetIsKnown`), what a copy that is being made will be (`CopyIsWhole`: the database in place, or it is known
that a statement disturbed it), and what the copy is once made (`BakIsLast`).
* `TrafficLogProofs`: `TrafficTypeCorrect`, `HistoryIsOwn`, `PruningKeepsTheNewest`, `AnswersAreNewest`. The invariant relates
  ids, stamps and keys of all rows to the sequences, in the database and in the backup alike; and what
  the task is about to write to the peers of the database it was listed from. The query's ORDER BY is
  the set of the orders it allows, and `SortedIsSorted` is about each of them; `CountInv` adds that there are
  finitely many rows, and no more than are kept right after pruning.
* `InputProofs`: `WalkTypeCorrect` and `WalkFindsLeastFree`, whose invariant is that every host passed was
  left out or in use; `OthersAreUnharmed` and `ConnectedIsRecent`, for dumps of any length. The
  former maps the lines of the dump to those of the dump without the bad one, in order, so that the last line
  of a peer stays its last (`OthersLine`); that there is a last one, `MaxIs`, comes from the sets of lines
  after each being well-founded. That the limit of a recent handshake is not zero is an assumption of the
  module, and needed: with zero, a handshake in the future would not count. `WholeSeconds` carries what holds of
  the whole seconds over to the time that really passed, for any number of parts.

Only model-checked: liveness (`EveryCallReturns`, `AbandonedDrain`, `HandlersFinish`,
`RequestsFinish`), because fairness and ENABLED are out of the prover's reach. Every safety property of a
passing run is proved.

## 5. What is not modelled

* IPv6 ranges in the allocator: every other place of the program writes `/32`.
* `SyncUnlessFailed` across a change of `paths.wg_worker_socket` with requests in flight or
  abandoned in the worker's queue: a request that timed out could run after a later `sudo wg` and
  undo it, so `peers_admin` saves settings at rest only. `peers_live` saves them at any time.
* In `AclSync`, what a description can do beyond naming marks and hiding the handle: it is taken to be one line,
  and what follows a `# handle ` in it to be no handle of another rule. Whether a rule's text lets `nft` accept it
  is `Refused`.
* Settings bodies other than the settings page's, which has every section and field. `Settings::save`
  is called by nobody.
* Power failures: a file that was written counts as on the disk. `Reboot` empties the kernel only.
* SQLite's WAL mode, which the program does not use, and how long a statement waits for the lock: it
  gets it or fails, which is one of the database faults.
* The package update: a request that takes minutes, which `WorkerRpc` covers (a request takes any
  time and others time out behind it). What `apt-get` answers is passed through.
* The client configuration and the QR code: formatting of one row and the settings, without state or
  choice but the optional `PresharedKey` line.
* Login (a constant cookie compared on every request), pages, documentation pages: no state of the
  program changes. Ownership and modes of the worker's socket file: pure I/O.
* `archive/python`: superseded; it is read only as documentation.

## 6. Plan

All modules planned are written. What could follow:

1. `SyncUnlessFailed` with the settings saved under requests in flight, once a request that was
   abandoned is told apart by the way it was sent.
