------------------------------ MODULE DbRestore ------------------------------
(* The database file: the statements that write it, the backup that reads   *)
(* it, and the restore that replaces it while both go on.                   *)
(*                                                                          *)
(* Every statement opens a connection of its own by the path, and a rename  *)
(* leaves those already open on the file that was there before.  SQLite     *)
(* itself (its lock and its rollback journal) is external; fs::write, copy  *)
(* and rename take no part in its locking.                                  *)
EXTENDS Naturals

CONSTANTS
    Handler,        \* restores that can be in flight at once
    Writer,         \* statements that can be in flight at once
    MaxWrite,       \* BOUND: rows ever written
    Base, NoBase,   \* databases that rows are written on top of; NoBase: a new one
    Upload,         \* SQLite files administrators have at hand
    Spoilt,         \* a SQLite file that does not pass the integrity check
    Absent,         \* there is no such file
    Unsure,
    Faults          \* what can go wrong in this run

\* What a database holds: rows on top of those of its base.  tables: it has the tables
\* and columns that the statements of this version name.
Contents == [base : Base, rows : SUBSET (1..MaxWrite), tables : BOOLEAN]

ASSUME WriteAssumption == MaxWrite \in Nat
ASSUME BaseAssumption == NoBase \in Base
ASSUME UploadAssumption == Upload \subseteq Contents \cup {Spoilt}
ASSUME FileAssumption ==
    /\ \A f \in {Spoilt, Absent, Unsure} : f \notin Contents
    /\ Spoilt # Absent /\ Spoilt # Unsure
ASSUME OptionAssumption == Faults \subseteq {"crash", "io", "leave", "overlap"}

VARIABLES
    db, tmp, bak,   \* the files <db_path>, .restore_tmp and .db.bak
    journal,        \* whose journal is beside the database: that of a transaction on
                    \* the file in place ("main"), on one replaced since ("gone")
    up,             \* wg-manager runs
    hd,             \* hd[h]: the locals of the restore h
    wr,             \* wr[w]: the file on which statement w has a transaction
    wrote,          \* rows written so far
    expect          \* what the administrators have been told is in place, or Unsure
                    \* since a restore met another or a statement (history)

vars == <<db, tmp, bak, journal, up, hd, wr, wrote, expect>>

----------------------------------------------------------------------------
Database == Contents \cup {Spoilt}
File == Database \cup {Absent}

\* SQLite takes an empty file for an empty database.
Empty == [base |-> NoBase, rows |-> {}, tables |-> FALSE]

\* fd: where the file now is that fs::write has open.  src: the database as it was when
\* fs::copy opened it.  bad: what has disturbed the restore, another one ("met") or what
\* happened to its copy (history).
Local == [at   : {"idle", "fill", "check", "remove", "copy", "copying", "rename"},
          body : File,
          fd   : {"none", "tmp", "main", "gone"},
          src  : File,
          bad  : SUBSET {"met", "copy"}]

Idle == [at |-> "idle", body |-> Absent, fd |-> "none", src |-> Absent, bad |-> {}]

TypeOK ==
    /\ db \in Database
    /\ tmp \in File /\ bak \in File
    /\ journal \in {"none", "main", "gone"}
    /\ up \in BOOLEAN
    /\ hd \in [Handler -> Local]
    /\ wr \in [Writer -> {"idle", "main", "gone"}]
    /\ wrote \in 0..MaxWrite
    /\ expect \in Contents \cup {Unsure}

\* After Database::init on a new file.
Init ==
    /\ db = [Empty EXCEPT !.tables = TRUE]
    /\ tmp = Absent /\ bak = Absent
    /\ journal = "none"
    /\ up = TRUE
    /\ hd = [h \in Handler |-> Idle]
    /\ wr = [w \in Writer |-> "idle"]
    /\ wrote = 0
    /\ expect = db

\* The members of S, on a condition.
When(condition, S) == {x \in S : condition}

----------------------------------------------------------------------------
(* Statements (Database::conn, external SQLite).                            *)

Writing == \E w \in Writer : wr[w] = "main"

\* Opening the database rolls back a journal whose transaction holds no lock on the
\* file in place.  One that belongs to another file spoils this one.
Recovered ==
    IF journal = "gone" /\ ~Writing THEN {db, Spoilt} ELSE {db}

\* A statement disturbs the copies of the handlers at this place.
Disturbed(at) ==
    [h \in Handler |-> IF hd[h].at = at THEN [hd[h] EXCEPT !.bad = @ \cup {"copy"}]
                       ELSE hd[h]]

\* A writing statement: connection, lock and journal.  (A connection opened before
\* the file was replaced cannot start one any more: SQLITE_READONLY_DBMOVED.)  What it
\* writes from now on can be half in a copy.
BeginWrite(w) ==
    /\ up
    /\ wr[w] = "idle"
    /\ ~Writing
    /\ db \in Contents => db.tables
    /\ wrote < MaxWrite
    /\ db' \in Recovered
    /\ journal' = "main"
    /\ wr' = [wr EXCEPT ![w] = "main"]
    /\ hd' = Disturbed("copying")
    /\ UNCHANGED <<tmp, bak, up, wrote, expect>>

\* f with one more row; with the tables it lacks.
WithRow(f, n) == IF f \in Contents THEN [f EXCEPT !.rows = @ \cup {n}] ELSE f
WithTables(f) == IF f \in Contents THEN [f EXCEPT !.tables = TRUE] ELSE f

\* It commits and is answered; the journal is unlinked by its path.  A finished copy is
\* out of date.
Commit(w) ==
    /\ wr[w] # "idle"
    /\ wrote < MaxWrite
    /\ wrote' = wrote + 1
    /\ expect' = WithRow(expect, wrote')
    /\ IF wr[w] = "main"
       THEN db' = WithRow(db, wrote') /\ hd' = Disturbed("rename")
       ELSE UNCHANGED <<db, hd>>
    /\ journal' = "none"
    /\ wr' = [wr EXCEPT ![w] = "idle"]
    /\ UNCHANGED <<tmp, bak, up>>

\* It fails, and is rolled back.
Rollback(w) ==
    /\ "io" \in Faults
    /\ wr[w] # "idle"
    /\ journal' = "none"
    /\ wr' = [wr EXCEPT ![w] = "idle"]
    /\ UNCHANGED <<db, tmp, bak, up, hd, wrote, expect>>

\* A reading statement changes the file only if it finds a journal to roll back.
Read ==
    /\ up
    /\ journal # "none" /\ ~Writing
    /\ db' \in Recovered
    /\ journal' = "none"
    /\ UNCHANGED <<tmp, bak, up, hd, wr, wrote, expect>>

----------------------------------------------------------------------------
(* Backup and restore.                                                      *)

\* The file read without SQLite's lock: a commit under way can be half in it.
RawRead == {db} \cup When(Writing, {Spoilt})

\* A restore is writing .bak.
Copying == \E h \in Handler : hd[h].at = "copying"

\* What an administrator can send: a file at hand, a backup just downloaded
\* (api_backup_download), the .bak fetched from the server.
Body == Upload \cup RawRead \cup When(bak # Absent, {bak}) \cup When(Copying, {Spoilt})

Quiet == \A h \in Handler : hd[h].at = "idle"

\* The other restores in flight have met one more.
Met == [h \in Handler |-> IF hd[h].at = "idle" THEN hd[h]
                          ELSE [hd[h] EXCEPT !.bad = @ \cup {"met"}]]

\* api_backup_restore: the body is a SQLite file; fs::write opens the temporary file,
\* which all restores share, and truncates it.
BeginRestore(h, body) ==
    /\ up
    /\ hd[h].at = "idle"
    /\ Quiet \/ "overlap" \in Faults
    /\ tmp' = Empty
    /\ hd' = [Met EXCEPT ![h] = [at |-> "fill", body |-> body, fd |-> "tmp",
                                 src |-> Absent, bad |-> When(~Quiet, {"met"})]]
    /\ UNCHANGED <<db, bak, journal, up, wr, wrote, expect>>

\* An operation in the thread pool has ended.  The handler goes on, or its client has
\* left meanwhile and it has been dropped.
Then(h, at) ==
    hd' \in {[hd EXCEPT ![h].at = at, ![h].fd = "none"]}
            \cup When("leave" \in Faults, {[hd EXCEPT ![h] = Idle]})

\* One body, or the same over what another write has left there.
Over(f, body) == {body} \cup When(f # Empty, {Spoilt})

\* fs::write writes into the file it has opened, wherever that is by now.
Fill(h) ==
    /\ hd[h].at = "fill"
    /\ tmp' \in IF hd[h].fd = "tmp" THEN Over(tmp, hd[h].body) ELSE {tmp}
    /\ db' \in IF hd[h].fd = "main" THEN Over(db, hd[h].body) ELSE {db}
    /\ Then(h, "check")
    /\ UNCHANGED <<bak, journal, up, wr, wrote, expect>>

\* It fails: 500, with less than the body written.
FillFails(h) ==
    /\ "io" \in Faults
    /\ hd[h].at = "fill"
    /\ tmp' \in IF hd[h].fd = "tmp" THEN {tmp, Spoilt} ELSE {tmp}
    /\ db' \in IF hd[h].fd = "main" THEN {db, Spoilt} ELSE {db}
    /\ hd' = [hd EXCEPT ![h] = Idle]
    /\ UNCHANGED <<bak, journal, up, wr, wrote, expect>>

\* MUTANT: the file is opened and not checked.
Check_OpensOnly(h) ==
    /\ hd[h].at = "check"
    /\ tmp' = IF tmp = Absent THEN Empty ELSE tmp
    /\ Then(h, "copy")
    /\ UNCHANGED <<db, bak, journal, up, wr, wrote, expect>>

\* The integrity check, of what is at the path now; opening it creates it.
Check(h) ==
    /\ hd[h].at = "check"
    /\ tmp' = IF tmp = Absent THEN Empty ELSE tmp
    /\ \/ tmp' # Spoilt /\ Then(h, "copy")
       \/ (tmp' = Spoilt \/ "io" \in Faults) /\ Then(h, "remove")
    /\ UNCHANGED <<db, bak, journal, up, wr, wrote, expect>>

\* The descriptors after the temporary file has become f and the one in place g.
Moved(f, g) ==
    [h \in Handler |-> [hd[h] EXCEPT !.fd = IF @ = "tmp" THEN f ELSE IF @ = "main" THEN g ELSE @]]

\* A file that does not pass is removed, or not: 400.
Remove(h) ==
    /\ hd[h].at = "remove"
    /\ \/ tmp' = Absent /\ hd' = [Moved("gone", "main") EXCEPT ![h] = Idle]
       \/ "io" \in Faults /\ UNCHANGED tmp /\ hd' = [hd EXCEPT ![h] = Idle]
    /\ UNCHANGED <<db, bak, journal, up, wr, wrote, expect>>

\* fs::copy has ended, which it does whether or not the client has left meanwhile.  That
\* it fails is ignored.
CopyEnds(h, bad) ==
    hd' \in {[hd EXCEPT ![h].at = "rename", ![h].src = Absent, ![h].bad = @ \cup bad]}
            \cup When("leave" \in Faults, {[hd EXCEPT ![h] = Idle]})

\* MUTANT: an older backup is not overwritten.
Copy_KeepsOldest(h) ==
    /\ hd[h].at = "copy"
    /\ IF bak = Absent
       THEN /\ bak' = Empty
            /\ hd' = [hd EXCEPT ![h].at = "copying", ![h].src = db,
                                ![h].bad = @ \cup When(Writing, {"copy"})]
       ELSE UNCHANGED bak /\ CopyEnds(h, {})
    /\ UNCHANGED <<db, tmp, journal, up, wr, wrote, expect>>

\* The database is copied to .bak: it is opened, and .bak truncated.  A statement under
\* way may have written some of its pages...
Copy(h) ==
    /\ hd[h].at = "copy"
    /\ \/ /\ bak' = Empty
          /\ hd' = [hd EXCEPT ![h].at = "copying", ![h].src = db,
                              ![h].bad = @ \cup When(Writing, {"copy"})]
       \/ "io" \in Faults /\ UNCHANGED bak /\ CopyEnds(h, {"copy"})
    /\ UNCHANGED <<db, tmp, journal, up, wr, wrote, expect>>

\* ... and it is read from end to end, without SQLite's lock.  What is written to it, or
\* to .bak, meanwhile is in the copy, or not, or in part.
EndCopy(h) ==
    /\ hd[h].at = "copying"
    /\ \/ /\ bak' \in {hd[h].src} \cup When(hd[h].bad # {}, {db, Spoilt})
          /\ CopyEnds(h, {})
       \/ "io" \in Faults /\ bak' \in {bak, Spoilt} /\ CopyEnds(h, {"copy"})
    /\ UNCHANGED <<db, tmp, journal, up, wr, wrote, expect>>

\* MUTANT: the database is removed first, whether or not there is a file to replace it.
Rename_RemovesFirst(h) ==
    /\ hd[h].at = "rename"
    /\ db' = tmp
    /\ tmp' = Absent
    /\ hd' = [Moved("main", "gone") EXCEPT ![h] = Idle]
    /\ wr' = [w \in Writer |-> IF wr[w] = "main" THEN "gone" ELSE wr[w]]
    /\ journal' = IF journal = "main" THEN "gone" ELSE journal
    /\ expect' = Unsure
    /\ UNCHANGED <<bak, up, wrote>>

\* The temporary file takes the place of the database: 200.
Rename(h) ==
    /\ hd[h].at = "rename"
    /\ tmp # Absent
    /\ db' = tmp
    /\ tmp' = Absent
    /\ hd' = [Moved("main", "gone") EXCEPT ![h] = Idle]
    /\ wr' = [w \in Writer |-> IF wr[w] = "main" THEN "gone" ELSE wr[w]]
    /\ journal' = IF journal = "main" THEN "gone" ELSE journal
    /\ expect' = IF "met" \in hd[h].bad \/ \E w \in Writer : wr[w] # "idle"
                 THEN Unsure ELSE hd[h].body
    /\ UNCHANGED <<bak, up, wrote>>

\* It is gone, or the rename fails: 500.
RenameFails(h) ==
    /\ hd[h].at = "rename"
    /\ tmp = Absent \/ "io" \in Faults
    /\ hd' = [hd EXCEPT ![h] = Idle]
    /\ UNCHANGED <<db, tmp, bak, journal, up, wr, wrote, expect>>

----------------------------------------------------------------------------
(* The process.                                                             *)

\* It dies.  A commit whose journal has been unlinked under it is left half done, and
\* so is a copy.
Crash ==
    /\ "crash" \in Faults
    /\ up
    /\ up' = FALSE
    /\ db' \in {db} \cup When(Writing /\ journal # "main", {Spoilt})
    /\ bak' \in {bak} \cup When(Copying, {Spoilt})
    /\ hd' = [h \in Handler |-> Idle]
    /\ wr' = [w \in Writer |-> "idle"]
    /\ UNCHANGED <<tmp, journal, wrote, expect>>

\* Database::init: what is missing is added.
Start ==
    /\ ~up
    /\ up' = TRUE
    /\ db' \in {WithTables(f) : f \in Recovered}
    /\ journal' = "none"
    /\ expect' = WithTables(expect)
    /\ UNCHANGED <<tmp, bak, hd, wr, wrote>>

Continue(h) ==
    \/ Fill(h) \/ FillFails(h) \/ Check(h) \/ Remove(h) \/ Copy(h) \/ EndCopy(h)
    \/ Rename(h) \/ RenameFails(h)

Next ==
    \/ \E w \in Writer : BeginWrite(w) \/ Commit(w) \/ Rollback(w)
    \/ Read
    \/ \E h \in Handler :
          \/ \E body \in Body : BeginRestore(h, body)
          \/ Continue(h)
    \/ Crash
    \/ Start

Spec == Init /\ [][Next]_vars

----------------------------------------------------------------------------
(* What an administrator may rely on.                                       *)

\* What is in place is the database restored last, whole, with every row that has been
\* acknowledged since and no other, through refused uploads, failures, clients that
\* leave and crashes at any point.  Only a restore that met another one, or replaced
\* the file under a statement, can lose rows, spoil the file or put an unchecked one
\* in place; the next restore that meets nothing mends it.
InPlace == expect # Unsure => db = expect /\ db \in Contents

\* settings.html: the present database is backed up as .bak.  A restore that met no
\* other, whose copy did not fail, and during and after whose copy nothing was written,
\* leaves in .bak exactly the database that it replaces.
PreviousKept ==
    [][\A h \in Handler : expect # Unsure /\ hd[h].bad = {} /\ Rename(h) => bak' = db]_vars
=============================================================================
