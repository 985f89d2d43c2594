-------------------------- MODULE DbRestoreProofs --------------------------
(* What a restore leaves in place and in .bak, for every number of restores *)
(* and statements in flight, every upload and every fault.                  *)
EXTENDS DbRestore, TLAPS

----------------------------------------------------------------------------
(* The invariant.                                                           *)

\* What the locals of a restore hold at each point.
LocalsOK ==
    \A h \in Handler :
        /\ hd[h].at = "idle" => hd[h] = Idle
        /\ hd[h].at # "fill" => hd[h].fd = "none"
        /\ hd[h].at # "idle" => hd[h].body \in Database

\* Nothing is in flight in a process that is dead.
DeadIsStill == ~up => Quiet /\ \A w \in Writer : wr[w] = "idle"

\* Of two restores in flight each has met the other.
MetIsKnown ==
    \A g, h \in Handler :
        g # h /\ hd[g].at # "idle" /\ hd[h].at # "idle" => "met" \in hd[h].bad

\* SQLite's lock on the file in place.
OneWriter == \A v, w \in Writer : wr[v] = "main" /\ wr[w] = "main" => v = w

\* As long as the process lives, a journal is that of a statement under way.
JournalIsOurs ==
    up => /\ journal = "main" => Writing
          /\ journal = "gone" => \E w \in Writer : wr[w] = "gone"

\* While it is known what is in place, nothing writes around SQLite's lock and journal.
Safe ==
    expect # Unsure =>
        /\ \A w \in Writer : wr[w] # "gone"
        /\ journal # "gone"
        /\ Writing => journal = "main"
        /\ \A h \in Handler : hd[h].fd # "main"

\* The temporary file is that of a restore that has met no other.
TmpIsMine ==
    \A h \in Handler :
        "met" \notin hd[h].bad =>
            /\ hd[h].at = "fill" => tmp = Empty /\ hd[h].fd = "tmp"
            /\ hd[h].at \in {"check", "copy", "copying", "rename"} => tmp = hd[h].body
            /\ hd[h].at \in {"copy", "copying", "rename"} => tmp # Spoilt

\* What a copy reads that nothing has disturbed is the database in place, and nothing
\* writes it.
CopyIsWhole ==
    \A h \in Handler :
        hd[h].at = "copying" /\ hd[h].bad = {} =>
            ~Writing /\ (expect # Unsure => hd[h].src = db)

\* And it is in .bak, from the copy to the rename.
BakIsLast ==
    \A h \in Handler :
        expect # Unsure /\ hd[h].at = "rename" /\ hd[h].bad = {} => bak = db

IInv ==
    /\ TypeOK /\ LocalsOK /\ DeadIsStill /\ MetIsKnown /\ OneWriter
    /\ JournalIsOurs /\ Safe /\ TmpIsMine /\ CopyIsWhole /\ BakIsLast /\ InPlace

----------------------------------------------------------------------------
(* Types.                                                                   *)

LEMMA Files ==
    /\ Empty \in Contents /\ Empty \in Database /\ Spoilt \in Database
    /\ Database \subseteq File /\ Absent \in File /\ Absent \notin Database
    /\ Unsure \notin Database /\ Unsure \notin Contents
    /\ Contents \subseteq Database /\ Spoilt \notin Contents
    /\ Idle \in Local
BY BaseAssumption, FileAssumption DEF Empty, Contents, Database, File, Idle, Local

LEMMA WithRowType ==
    ASSUME NEW n \in 1..MaxWrite
    PROVE  /\ \A f \in Contents : WithRow(f, n) \in Contents
           /\ \A f \in Database : WithRow(f, n) \in Database
           /\ WithRow(Unsure, n) = Unsure
<1>1. ASSUME NEW f \in Contents PROVE WithRow(f, n) \in Contents
  BY WriteAssumption DEF WithRow, Contents
<1>2. WithRow(Spoilt, n) = Spoilt /\ WithRow(Unsure, n) = Unsure
  BY FileAssumption DEF WithRow
<1> QED BY <1>1, <1>2 DEF Database

LEMMA WithTablesType ==
    /\ \A f \in Contents : WithTables(f) \in Contents
    /\ \A f \in Database : WithTables(f) \in Database
    /\ WithTables(Unsure) = Unsure
<1>1. ASSUME NEW f \in Contents PROVE WithTables(f) \in Contents
  BY DEF WithTables, Contents
<1>2. WithTables(Spoilt) = Spoilt /\ WithTables(Unsure) = Unsure
  BY FileAssumption DEF WithTables
<1> QED BY <1>1, <1>2 DEF Database

LEMMA RecoveredType == TypeOK => Recovered \subseteq Database
BY Files DEF Recovered, TypeOK

LEMMA BodyType == TypeOK => Body \subseteq Database
BY UploadAssumption DEF Body, RawRead, When, TypeOK, Database, File

\* The handler that goes on after an operation in the thread pool, or is dropped.
LEMMA ThenIs ==
    ASSUME TypeOK, NEW h \in Handler,
           NEW at \in {"check", "remove", "copy"}, Then(h, at)
    PROVE  \E l \in {Idle, [at   |-> at,
                            body |-> hd[h].body,
                            fd   |-> "none",
                            src  |-> hd[h].src,
                            bad  |-> hd[h].bad]} : hd' = [hd EXCEPT ![h] = l]
<1>1. hd[h] \in Local /\ hd \in [Handler -> Local]
  BY DEF TypeOK
<1>2. CASE hd' = [hd EXCEPT ![h] = Idle]
  BY <1>2
<1>3. CASE hd' = [hd EXCEPT ![h].at = at, ![h].fd = "none"]
  <2>1. hd' = [hd EXCEPT ![h] = [[hd[h] EXCEPT !.at = at] EXCEPT !.fd = "none"]]
    BY <1>1, <1>3
  <2>2. [[hd[h] EXCEPT !.at = at] EXCEPT !.fd = "none"]
           = [at |-> at, body |-> hd[h].body, fd |-> "none", src |-> hd[h].src,
              bad |-> hd[h].bad]
    <3>1. hd[h] = [at |-> hd[h].at, body |-> hd[h].body, fd |-> hd[h].fd,
                   src |-> hd[h].src, bad |-> hd[h].bad]
      BY <1>1 DEF Local
    <3> DEFINE m == [hd[h] EXCEPT !.at = at]
    <3>2. m = [at |-> at, body |-> hd[h].body, fd |-> hd[h].fd, src |-> hd[h].src,
               bad |-> hd[h].bad]
      BY <3>1
    <3> HIDE DEF m
    <3>3. [m EXCEPT !.fd = "none"]
             = [at |-> at, body |-> hd[h].body, fd |-> "none", src |-> hd[h].src,
                bad |-> hd[h].bad]
      BY <3>2
    <3> QED BY <3>3 DEF m
  <2> QED BY <2>1, <2>2
<1> QED BY <1>2, <1>3 DEF Then, When

LEMMA MovedType ==
    ASSUME TypeOK, NEW f \in {"main", "gone"}, NEW g \in {"main", "gone"}
    PROVE  Moved(f, g) \in [Handler -> Local]
BY DEF TypeOK, Moved, Local

LEMMA InitType == Init => TypeOK
<1> SUFFICES ASSUME Init PROVE TypeOK
  OBVIOUS
<1>1. [Empty EXCEPT !.tables = TRUE] \in Contents
  BY BaseAssumption DEF Empty, Contents
<1> QED BY <1>1, Files, WriteAssumption DEF Init, TypeOK

LEMMA NextType == IInv /\ [Next]_vars => TypeOK'
<1> SUFFICES ASSUME TypeOK, LocalsOK, TmpIsMine, [Next]_vars PROVE TypeOK'
  BY DEF IInv
<1> USE Files
<1>1. CASE UNCHANGED vars
  BY <1>1 DEF vars, TypeOK
<1>17. \A at : Disturbed(at) \in [Handler -> Local]
  BY DEF Disturbed, TypeOK, Local
<1>2. ASSUME NEW w \in Writer, BeginWrite(w) PROVE TypeOK'
  BY <1>2, <1>17, RecoveredType DEF BeginWrite, TypeOK
<1>3. ASSUME NEW w \in Writer, Commit(w) PROVE TypeOK'
  <2>1. wrote' \in 1..MaxWrite /\ wrote' \in 0..MaxWrite
    BY <1>3, WriteAssumption DEF Commit, TypeOK
  <2>2. expect' \in Contents \cup {Unsure} /\ WithRow(db, wrote') \in Database
    BY <1>3, <2>1, WithRowType DEF Commit, TypeOK
  <2> QED BY <1>3, <1>17, <2>1, <2>2 DEF Commit, TypeOK
<1>4. ASSUME NEW w \in Writer, Rollback(w) PROVE TypeOK'
  BY <1>4 DEF Rollback, TypeOK
<1>5. CASE Read
  BY <1>5, RecoveredType DEF Read, TypeOK
<1>6. ASSUME NEW h \in Handler, NEW body \in Body, BeginRestore(h, body) PROVE TypeOK'
  <2>1. Met \in [Handler -> Local]
    BY DEF Met, TypeOK, Local
  <2>2. [at |-> "fill", body |-> body, fd |-> "tmp", src |-> Absent,
         bad |-> When(~Quiet, {"met"})] \in Local
    BY BodyType DEF Local, When
  <2>3. hd' \in [Handler -> Local]
    BY <1>6, <2>1, <2>2 DEF BeginRestore
  <2> QED BY <1>6, <2>3 DEF BeginRestore, TypeOK
<1>7. ASSUME NEW h \in Handler, NEW at \in {"check", "remove", "copy"}, Then(h, at)
      PROVE  hd' \in [Handler -> Local]
  <2>1. [at |-> at, body |-> hd[h].body, fd |-> "none", src |-> hd[h].src,
         bad |-> hd[h].bad] \in Local
    BY DEF TypeOK, Local
  <2> QED BY <1>7, <2>1, ThenIs DEF TypeOK
<1>8. ASSUME NEW h \in Handler, Fill(h) PROVE TypeOK'
  <2>1. hd' \in [Handler -> Local]
    BY <1>7, <1>8 DEF Fill
  <2>2. hd[h].body \in Database
    BY <1>8 DEF Fill, LocalsOK
  <2> QED BY <1>8, <2>1, <2>2 DEF Fill, Over, When, TypeOK
<1>9. ASSUME NEW h \in Handler, FillFails(h) PROVE TypeOK'
  BY <1>9 DEF FillFails, TypeOK
<1>10. ASSUME NEW h \in Handler, Check(h) PROVE TypeOK'
  <2>1. hd' \in [Handler -> Local]
    BY <1>7, <1>10 DEF Check
  <2> QED BY <1>10, <2>1 DEF Check, TypeOK
<1>11. ASSUME NEW h \in Handler, Remove(h) PROVE TypeOK'
  BY <1>11, MovedType DEF Remove, TypeOK
<1>18. ASSUME NEW h \in Handler, NEW bad \in SUBSET {"copy"}, CopyEnds(h, bad)
       PROVE  hd' \in [Handler -> Local]
  BY <1>18 DEF CopyEnds, When, TypeOK, Local
<1>12. ASSUME NEW h \in Handler, Copy(h) PROVE TypeOK'
  <2>1. [hd EXCEPT ![h].at = "copying", ![h].src = db,
                   ![h].bad = @ \cup When(Writing, {"copy"})] \in [Handler -> Local]
    BY DEF When, TypeOK, Local
  <2>2. hd' \in [Handler -> Local] /\ bak' \in File
    BY <1>12, <1>18, <2>1 DEF Copy, TypeOK
  <2> QED BY <1>12, <2>2 DEF Copy, TypeOK
<1>19. ASSUME NEW h \in Handler, EndCopy(h) PROVE TypeOK'
  <2>1. hd' \in [Handler -> Local]
    BY <1>18, <1>19 DEF EndCopy
  <2>2. bak' \in File
    BY <1>19 DEF EndCopy, When, TypeOK, Local
  <2> QED BY <1>19, <2>1, <2>2 DEF EndCopy, TypeOK
<1>13. ASSUME NEW h \in Handler, Rename(h) PROVE TypeOK'
  <2>1. hd' \in [Handler -> Local]
    BY <1>13, MovedType DEF Rename
  <2>2. tmp \in Database
    BY <1>13 DEF Rename, TypeOK, File
  <2>3. "met" \notin hd[h].bad => hd[h].body \in Contents
    BY <1>13, <2>2 DEF Rename, TmpIsMine, Database
  <2> QED BY <1>13, <2>1, <2>2, <2>3 DEF Rename, TypeOK
<1>14. ASSUME NEW h \in Handler, RenameFails(h) PROVE TypeOK'
  BY <1>14 DEF RenameFails, TypeOK
<1>15. CASE Crash
  BY <1>15 DEF Crash, When, TypeOK
<1>16. CASE Start
  BY <1>16, RecoveredType, WithTablesType DEF Start, TypeOK
<1> QED
  BY <1>1, <1>2, <1>3, <1>4, <1>5, <1>6, <1>8, <1>9, <1>10, <1>11, <1>12, <1>13,
     <1>14, <1>15, <1>16, <1>19 DEF Next, Continue

----------------------------------------------------------------------------
(* The steps of a restore.                                                  *)

\* A restore that has met no other is alone.
LEMMA Alone ==
    ASSUME LocalsOK, MetIsKnown,
           NEW h \in Handler, hd[h].at # "idle", "met" \notin hd[h].bad,
           NEW g \in Handler, g # h
    PROVE  hd[g] = Idle
BY DEF LocalsOK, MetIsKnown

\* What l the locals of a restore become when it goes on, or ends.
GoesOnWith(h, l) ==
    /\ hd[h].at # "idle"
    /\ hd' = [hd EXCEPT ![h] = l]
    /\ UNCHANGED <<journal, up, wr, wrote, expect>>
    /\ \/ l = Idle
       \/ /\ l.at \in {"check", "remove", "copy", "copying", "rename"} /\ l.fd = "none"
          /\ l.body = hd[h].body
          /\ l.bad = hd[h].bad \/ l.bad = hd[h].bad \cup {"copy"}

\* It disturbs nothing but what the files hold.
LEMMA GoesOnKeeps ==
    ASSUME IInv, TypeOK', NEW h \in Handler, NEW l, GoesOnWith(h, l)
    PROVE  /\ LocalsOK' /\ DeadIsStill' /\ MetIsKnown' /\ OneWriter'
           /\ JournalIsOurs' /\ Safe'
<1> USE DEF IInv, TypeOK, GoesOnWith
<1>1. hd'[h] = l /\ \A g \in Handler : g # h => hd'[g] = hd[g]
  OBVIOUS
<1>2. LocalsOK'
  <2>1. ASSUME NEW g \in Handler
        PROVE  /\ hd'[g].at = "idle" => hd'[g] = Idle
               /\ hd'[g].at # "fill" => hd'[g].fd = "none"
               /\ hd'[g].at # "idle" => hd'[g].body \in Database
    <3>1. CASE g = h
      <4>1. hd[h].body \in Database
        BY DEF LocalsOK
      <4> QED BY <1>1, <3>1, <4>1 DEF Idle
    <3>2. CASE g # h
      BY <1>1, <3>2 DEF LocalsOK
    <3> QED BY <3>1, <3>2
  <2> QED BY <2>1 DEF LocalsOK
<1>3. DeadIsStill'
  BY DEF DeadIsStill, Quiet
<1>4. MetIsKnown'
  BY <1>1 DEF MetIsKnown, Idle
<1>5. OneWriter' /\ JournalIsOurs'
  BY DEF OneWriter, JournalIsOurs, Writing
<1>6. Safe'
  BY <1>1 DEF Safe, Writing, Idle
<1> QED BY <1>2, <1>3, <1>4, <1>5, <1>6

\* If it touches the temporary file only for itself, the others still have theirs.
LEMMA TmpKept ==
    ASSUME IInv, TypeOK', NEW h \in Handler, NEW l, GoesOnWith(h, l),
           "met" \notin l.bad /\ l.at \in {"check", "copy", "copying", "rename"} => tmp' = hd[h].body,
           "met" \notin l.bad /\ l.at \in {"copy", "copying", "rename"} => tmp' # Spoilt
    PROVE  TmpIsMine'
<1> SUFFICES ASSUME NEW g \in Handler, "met" \notin hd'[g].bad
             PROVE  /\ hd'[g].at = "fill" => tmp' = Empty /\ hd'[g].fd = "tmp"
                    /\ hd'[g].at \in {"check", "copy", "copying", "rename"} => tmp' = hd'[g].body
                    /\ hd'[g].at \in {"copy", "copying", "rename"} => tmp' # Spoilt
  BY DEF TmpIsMine
<1>1. CASE g = h
  BY <1>1 DEF GoesOnWith, IInv, TypeOK, Idle
<1>2. CASE g # h
  <2>1. hd'[g] = hd[g]
    BY <1>2 DEF GoesOnWith, IInv, TypeOK
  <2>2. hd[g].at = "idle"
    BY <1>2, <2>1 DEF GoesOnWith, IInv, MetIsKnown
  <2> QED BY <2>1, <2>2
<1> QED BY <1>1, <1>2

\* And if it leaves the database and .bak alone.
LEMMA BakKept ==
    ASSUME IInv, TypeOK', NEW h \in Handler, NEW l, GoesOnWith(h, l), UNCHANGED <<db, bak>>,
           l.at # "rename"
    PROVE  BakIsLast' /\ InPlace'
<1>1. InPlace'
  BY DEF IInv, InPlace, GoesOnWith
<1>2. ASSUME NEW g \in Handler, expect' # Unsure, hd'[g].at = "rename", hd'[g].bad = {}
      PROVE  bak' = db'
  BY <1>2 DEF IInv, TypeOK, BakIsLast, GoesOnWith
<1> QED BY <1>1, <1>2 DEF BakIsLast

\* A copy that nothing has disturbed goes on alone.
LEMMA CopyKept ==
    ASSUME IInv, NEW h \in Handler, NEW l, GoesOnWith(h, l), l.at # "copying"
    PROVE  CopyIsWhole'
<1> SUFFICES ASSUME NEW g \in Handler, hd'[g].at = "copying", hd'[g].bad = {} PROVE FALSE
  BY DEF CopyIsWhole
<1>1. g # h /\ hd'[g] = hd[g]
  BY DEF GoesOnWith, IInv, TypeOK
<1> QED BY <1>1 DEF GoesOnWith, IInv, MetIsKnown

LEMMA FillKeeps ==
    ASSUME IInv, TypeOK', NEW h \in Handler, Fill(h) \/ FillFails(h)
    PROVE  IInv'
<1> DEFINE next == [at   |-> "check",
                    body |-> hd[h].body,
                    fd   |-> "none",
                    src  |-> hd[h].src,
                    bad  |-> hd[h].bad]
<1>1. CASE Fill(h)
  <2>1. PICK l \in {Idle, next} : hd' = [hd EXCEPT ![h] = l]
    BY <1>1, ThenIs DEF Fill, IInv
  <2>2. GoesOnWith(h, l)
    BY <1>1, <2>1 DEF Fill, GoesOnWith
  <2>3. "met" \notin hd[h].bad => tmp' = hd[h].body
    BY <1>1 DEF Fill, Over, When, IInv, TmpIsMine
  <2>4. TmpIsMine'
    BY <2>1, <2>2, <2>3, TmpKept DEF Idle
  <2>5. InPlace'
    BY <1>1 DEF Fill, IInv, Safe, InPlace
  <2>6. BakIsLast'
    <3> SUFFICES ASSUME NEW g \in Handler,
                        expect' # Unsure, hd'[g].at = "rename", hd'[g].bad = {}
                 PROVE  bak' = db'
      BY DEF BakIsLast
    <3>1. g # h
      BY <2>1 DEF IInv, TypeOK, Idle
    <3> QED BY <1>1, <2>1, <3>1 DEF Fill, IInv, TypeOK, Safe, BakIsLast
  <2>7. CopyIsWhole'
    BY <2>1, <2>2, CopyKept DEF Idle
  <2> QED BY <2>2, <2>4, <2>5, <2>6, <2>7, GoesOnKeeps DEF IInv
<1>2. CASE FillFails(h)
  <2>2. GoesOnWith(h, Idle)
    BY <1>2 DEF FillFails, GoesOnWith
  <2>4. TmpIsMine'
    BY <2>2, TmpKept DEF Idle
  <2>5. InPlace'
    BY <1>2 DEF FillFails, IInv, Safe, InPlace
  <2>6. BakIsLast'
    <3> SUFFICES ASSUME NEW g \in Handler,
                        expect' # Unsure, hd'[g].at = "rename", hd'[g].bad = {}
                 PROVE  bak' = db'
      BY DEF BakIsLast
    <3>1. g # h
      BY <1>2 DEF FillFails, IInv, TypeOK, Idle
    <3> QED BY <1>2, <3>1 DEF FillFails, IInv, TypeOK, Safe, BakIsLast
  <2>7. CopyIsWhole'
    BY <2>2, CopyKept DEF Idle
  <2> QED BY <2>2, <2>4, <2>5, <2>6, <2>7, GoesOnKeeps DEF IInv
<1> QED BY <1>1, <1>2

LEMMA CheckKeeps ==
    ASSUME IInv, TypeOK', NEW h \in Handler, Check(h)
    PROVE  IInv'
<1>1. PICK at \in {"copy", "remove"} : Then(h, at) /\ (at = "copy" => tmp' # Spoilt)
  BY DEF Check
<1> DEFINE next == [at   |-> at,
                    body |-> hd[h].body,
                    fd   |-> "none",
                    src  |-> hd[h].src,
                    bad  |-> hd[h].bad]
<1>2. PICK l \in {Idle, next} : hd' = [hd EXCEPT ![h] = l]
  BY <1>1, ThenIs DEF IInv
<1>3. GoesOnWith(h, l)
  BY <1>2 DEF Check, GoesOnWith
<1>4. "met" \notin hd[h].bad => tmp' = hd[h].body
  BY Files DEF Check, IInv, TmpIsMine, LocalsOK
<1>5. TmpIsMine'
  BY <1>1, <1>2, <1>3, <1>4, TmpKept DEF Idle
<1>6. l.at # "rename" /\ l.at # "copying"
  BY <1>2 DEF Idle
<1> QED BY <1>3, <1>5, <1>6, GoesOnKeeps, BakKept, CopyKept DEF Check, IInv

LEMMA RemoveKeeps ==
    ASSUME IInv, TypeOK', NEW h \in Handler, Remove(h)
    PROVE  IInv'
<1> USE DEF IInv
<1>1. CASE hd' = [hd EXCEPT ![h] = Idle]
  <2>1. GoesOnWith(h, Idle)
    BY <1>1 DEF Remove, GoesOnWith
  <2>2. TmpIsMine'
    BY <2>1, TmpKept DEF Idle
  <2> QED BY <2>1, <2>2, GoesOnKeeps, BakKept, CopyKept DEF Remove, Idle
<1>2. CASE hd' = [Moved("gone", "main") EXCEPT ![h] = Idle]
  <2> USE DEF TypeOK
  <2>1. hd'[h] = Idle
    BY <1>2 DEF Moved
  <2>2. ASSUME NEW g \in Handler, g # h
        PROVE  /\ hd'[g].at = hd[g].at /\ hd'[g].body = hd[g].body
               /\ hd'[g].bad = hd[g].bad /\ hd'[g].src = hd[g].src
               /\ hd'[g].fd = IF hd[g].fd = "tmp" THEN "gone" ELSE hd[g].fd
               /\ hd[g].at = "idle" => hd'[g] = Idle
    <3>1. hd'[g] = [hd[g] EXCEPT !.fd = IF @ = "tmp" THEN "gone"
                                       ELSE IF @ = "main" THEN "main" ELSE @]
      BY <1>2, <2>2 DEF Moved
    <3>2. hd[g].at = "idle" => hd[g] = Idle
      BY DEF LocalsOK
    <3>3. hd[g] \in Local
      OBVIOUS
    <3>4. /\ hd'[g].at = hd[g].at /\ hd'[g].body = hd[g].body
          /\ hd'[g].bad = hd[g].bad /\ hd'[g].src = hd[g].src
          /\ hd'[g].fd = IF hd[g].fd = "tmp" THEN "gone" ELSE hd[g].fd
      BY <3>1, <3>3 DEF Local
    <3>5. hd'[g] = [at   |-> hd'[g].at,
                    body |-> hd'[g].body,
                    fd   |-> hd'[g].fd,
                    src  |-> hd'[g].src,
                    bad  |-> hd'[g].bad]
      BY DEF Local
    <3> QED BY <3>2, <3>4, <3>5 DEF Idle
  <2>3. /\ UNCHANGED <<db, bak, journal, up, wr, wrote, expect>>
        /\ hd[h].at = "remove"
    BY DEF Remove
  <2>4. LocalsOK'
    <3>1. ASSUME NEW g \in Handler
          PROVE  /\ hd'[g].at = "idle" => hd'[g] = Idle
                 /\ hd'[g].at # "fill" => hd'[g].fd = "none"
                 /\ hd'[g].at # "idle" => hd'[g].body \in Database
      <4>1. CASE g = h
        BY <2>1, <4>1 DEF Idle
      <4>2. CASE g # h
        <5>1. hd[g].at # "fill" => hd[g].fd = "none"
          BY DEF LocalsOK
        <5>2. hd[g].at # "idle" => hd[g].body \in Database
          BY DEF LocalsOK
        <5>3. hd'[g].at # "fill" => hd'[g].fd = "none"
          BY <2>2, <4>2, <5>1
        <5> QED BY <2>2, <4>2, <5>2, <5>3
      <4> QED BY <4>1, <4>2
    <3> QED BY <3>1 DEF LocalsOK
  <2>5. DeadIsStill'
    BY <2>3 DEF DeadIsStill, Quiet
  <2>6. MetIsKnown'
    BY <2>1, <2>2 DEF MetIsKnown, Idle
  <2>7. OneWriter' /\ JournalIsOurs'
    BY <2>3 DEF OneWriter, JournalIsOurs, Writing
  <2>8. Safe'
    <3>1. expect # Unsure => \A g \in Handler : hd'[g].fd # "main"
      BY <2>1, <2>2 DEF Safe, Idle
    <3> QED BY <2>3, <3>1 DEF Safe, Writing
  <2>9. TmpIsMine'
    <3> SUFFICES ASSUME NEW g \in Handler, "met" \notin hd'[g].bad
                 PROVE  hd'[g].at = "idle"
      BY DEF TmpIsMine
    <3> QED BY <2>1, <2>2, <2>3 DEF MetIsKnown, Idle
  <2>10. BakIsLast'
    BY <2>1, <2>2, <2>3 DEF BakIsLast, Idle
  <2>11. InPlace'
    BY <2>3 DEF InPlace
  <2>12. CopyIsWhole'
    <3> SUFFICES ASSUME NEW g \in Handler, hd'[g].bad = {} PROVE hd'[g].at # "copying"
      BY DEF CopyIsWhole
    <3> QED BY <2>1, <2>2, <2>3 DEF MetIsKnown, Idle
  <2> QED BY <2>4, <2>5, <2>6, <2>7, <2>8, <2>9, <2>10, <2>11, <2>12
<1> QED BY <1>1, <1>2 DEF Remove

\* What becomes of the restore whose copy has ended.
LEMMA CopyEndsIs ==
    ASSUME TypeOK, LocalsOK, NEW h \in Handler, hd[h].at \in {"copy", "copying"},
           NEW bad \in SUBSET {"copy"}, CopyEnds(h, bad)
    PROVE  \E l : /\ hd' = [hd EXCEPT ![h] = l]
                  /\ \/ l = Idle
                     \/ /\ l.at = "rename" /\ l.fd = "none" /\ l.body = hd[h].body
                        /\ l.bad = hd[h].bad \cup bad
<1>1. CASE hd' = [hd EXCEPT ![h] = Idle]
  BY <1>1
<1>2. CASE hd' = [hd EXCEPT ![h].at = "rename", ![h].src = Absent, ![h].bad = @ \cup bad]
  <2>1. hd[h] \in Local /\ hd \in [Handler -> Local] /\ hd[h].fd = "none"
    BY DEF TypeOK, LocalsOK
  <2>2. hd' = [hd EXCEPT ![h] = hd'[h]]
    BY <1>2, <2>1
  <2>3. /\ hd'[h].at = "rename" /\ hd'[h].fd = "none" /\ hd'[h].body = hd[h].body
        /\ hd'[h].bad = hd[h].bad \cup bad
    BY <1>2, <2>1 DEF Local
  <2> QED BY <2>2, <2>3
<1> QED BY <1>1, <1>2 DEF CopyEnds, When

\* A copy that has ended, well if nothing has disturbed it.
LEMMA CopyEndedKeeps ==
    ASSUME IInv, TypeOK', NEW h \in Handler, hd[h].at \in {"copy", "copying"},
           NEW bad \in SUBSET {"copy"}, CopyEnds(h, bad),
           UNCHANGED <<db, tmp, journal, up, wr, wrote, expect>>,
           expect # Unsure /\ hd[h].bad \cup bad = {} => bak' = db
    PROVE  IInv'
<1> USE DEF IInv
<1>1. PICK l : /\ hd' = [hd EXCEPT ![h] = l]
               /\ \/ l = Idle
                  \/ /\ l.at = "rename" /\ l.fd = "none" /\ l.body = hd[h].body
                     /\ l.bad = hd[h].bad \cup bad
  BY CopyEndsIs
<1>2. GoesOnWith(h, l)
  BY <1>1 DEF GoesOnWith
<1>3. TmpIsMine'
  <2>1. "met" \notin l.bad /\ l.at = "rename" => tmp' = hd[h].body /\ tmp' # Spoilt
    BY <1>1 DEF TmpIsMine, Idle
  <2> QED BY <1>1, <1>2, <2>1, TmpKept DEF Idle
<1>4. BakIsLast'
  <2> SUFFICES ASSUME NEW g \in Handler,
                      expect' # Unsure, hd'[g].at = "rename", hd'[g].bad = {}
               PROVE  bak' = db'
    BY DEF BakIsLast
  <2>1. CASE g = h
    <3>1. hd'[g] = l
      BY <1>1, <2>1 DEF TypeOK
    <3>2. l # Idle
      BY <3>1 DEF Idle
    <3> QED BY <1>1, <3>1, <3>2
  <2>2. CASE g # h
    <3>1. hd'[g] = hd[g]
      BY <1>1, <2>2 DEF TypeOK
    <3> QED BY <2>2, <3>1 DEF MetIsKnown
  <2> QED BY <2>1, <2>2
<1>5. InPlace'
  BY DEF InPlace
<1>6. CopyIsWhole'
  BY <1>1, <1>2, CopyKept DEF Idle
<1> QED BY <1>2, <1>3, <1>4, <1>5, <1>6, GoesOnKeeps

LEMMA CopyKeeps ==
    ASSUME IInv, TypeOK', NEW h \in Handler, Copy(h)
    PROVE  IInv'
<1> USE DEF IInv
<1>1. hd[h].at = "copy" /\ UNCHANGED <<db, tmp, journal, up, wr, wrote, expect>>
  BY DEF Copy
<1>2. CASE CopyEnds(h, {"copy"})
  BY <1>1, <1>2, CopyEndedKeeps
<1>3. CASE hd' = [hd EXCEPT ![h].at = "copying", ![h].src = db,
                            ![h].bad = @ \cup When(Writing, {"copy"})]
  <2>1. hd[h] \in Local /\ hd \in [Handler -> Local] /\ hd[h].fd = "none"
    BY <1>1 DEF TypeOK, LocalsOK
  <2>2. PICK l : l = hd'[h]
    OBVIOUS
  <2>3. hd' = [hd EXCEPT ![h] = l] /\ \A g \in Handler : g # h => hd'[g] = hd[g]
    BY <1>3, <2>1, <2>2
  <2>4. /\ l.at = "copying" /\ l.fd = "none" /\ l.body = hd[h].body /\ l.src = db
        /\ l.bad = hd[h].bad \cup When(Writing, {"copy"})
    BY <1>3, <2>1, <2>2 DEF Local
  <2>5. GoesOnWith(h, l)
    BY <1>1, <2>3, <2>4 DEF GoesOnWith, When
  <2>6. TmpIsMine'
    <3>1. "met" \notin l.bad => tmp' = hd[h].body /\ tmp' # Spoilt
      BY <1>1, <2>4 DEF TmpIsMine
    <3> QED BY <2>4, <2>5, <3>1, TmpKept
  <2>7. CopyIsWhole'
    <3> SUFFICES ASSUME NEW g \in Handler, hd'[g].at = "copying", hd'[g].bad = {}
                 PROVE  ~Writing' /\ (expect' # Unsure => hd'[g].src = db')
      BY DEF CopyIsWhole
    <3>1. g = h
      BY <1>1, <2>3 DEF MetIsKnown
    <3>2. ~Writing
      BY <2>2, <2>4, <3>1 DEF When
    <3> QED BY <1>1, <2>2, <2>4, <3>1, <3>2 DEF Writing
  <2>8. BakIsLast'
    <3> SUFFICES ASSUME NEW g \in Handler, hd'[g].at = "rename", hd'[g].bad = {} PROVE FALSE
      BY DEF BakIsLast
    <3>1. g # h /\ hd'[g] = hd[g]
      BY <2>2, <2>3, <2>4
    <3> QED BY <1>1, <3>1 DEF MetIsKnown
  <2>9. InPlace'
    BY <1>1 DEF InPlace
  <2> QED BY <2>5, <2>6, <2>7, <2>8, <2>9, GoesOnKeeps
<1> QED BY <1>2, <1>3 DEF Copy

LEMMA EndCopyKeeps ==
    ASSUME IInv, TypeOK', NEW h \in Handler, EndCopy(h)
    PROVE  IInv'
<1> USE DEF IInv
<1>1. hd[h].at = "copying" /\ UNCHANGED <<db, tmp, journal, up, wr, wrote, expect>>
  BY DEF EndCopy
<1>2. CASE CopyEnds(h, {"copy"})
  BY <1>1, <1>2, CopyEndedKeeps
<1>3. CASE CopyEnds(h, {}) /\ bak' \in {hd[h].src} \cup When(hd[h].bad # {}, {db, Spoilt})
  <2>1. expect # Unsure /\ hd[h].bad = {} => bak' = db
    BY <1>1, <1>3 DEF CopyIsWhole, When
  <2> QED BY <1>1, <1>3, <2>1, CopyEndedKeeps
<1> QED BY <1>2, <1>3 DEF EndCopy

LEMMA RenameFailsKeeps ==
    ASSUME IInv, TypeOK', NEW h \in Handler, RenameFails(h)
    PROVE  IInv'
<1>1. GoesOnWith(h, Idle)
  BY DEF RenameFails, GoesOnWith
<1>2. TmpIsMine'
  BY <1>1, TmpKept DEF Idle
<1> QED BY <1>1, <1>2, GoesOnKeeps, BakKept, CopyKept DEF RenameFails, Idle, IInv

LEMMA RenameKeeps ==
    ASSUME IInv, TypeOK', NEW h \in Handler, Rename(h)
    PROVE  IInv'
<1> USE DEF IInv, TypeOK
<1>1. hd'[h] = Idle
  BY DEF Rename, Moved
<1>2. ASSUME NEW g \in Handler, g # h
      PROVE  /\ hd'[g].at = hd[g].at /\ hd'[g].body = hd[g].body
             /\ hd'[g].bad = hd[g].bad
             /\ hd[g].fd = "none" => hd'[g].fd = "none"
             /\ hd[g].at = "idle" => hd'[g] = Idle
  <2>1. hd'[g] = [hd[g] EXCEPT !.fd = IF @ = "tmp" THEN "main"
                                     ELSE IF @ = "main" THEN "gone" ELSE @]
    BY <1>2 DEF Rename, Moved
  <2>2. hd[g].at = "idle" => hd[g] = Idle
    BY DEF LocalsOK
  <2>3. hd[g] \in Local /\ hd'[g] \in Local
    OBVIOUS
  <2>4. /\ hd'[g].at = hd[g].at /\ hd'[g].body = hd[g].body
        /\ hd'[g].bad = hd[g].bad /\ hd'[g].src = hd[g].src
        /\ hd[g].fd = "none" => hd'[g].fd = "none"
    BY <2>1, <2>3 DEF Local
  <2>5. hd'[g] = [at   |-> hd'[g].at,
                  body |-> hd'[g].body,
                  fd   |-> hd'[g].fd,
                  src  |-> hd'[g].src,
                  bad  |-> hd'[g].bad]
    BY <2>3 DEF Local
  <2> QED BY <2>2, <2>4, <2>5 DEF Idle
<1>3. /\ hd[h].at = "rename" /\ up /\ up' = up
      /\ db' = tmp /\ bak' = bak /\ wrote' = wrote
  BY DEF Rename, DeadIsStill, Quiet
<1>4. \A w \in Writer : wr'[w] = IF wr[w] = "main" THEN "gone" ELSE wr[w]
  BY DEF Rename
<1>5. ASSUME NEW g \in Handler, g # h, hd[g].at # "idle"
      PROVE  "met" \in hd'[g].bad /\ "met" \in hd[h].bad
  BY <1>2, <1>3, <1>5 DEF MetIsKnown
<1>6. LocalsOK'
  <2>1. ASSUME NEW g \in Handler
        PROVE  /\ hd'[g].at = "idle" => hd'[g] = Idle
               /\ hd'[g].at # "fill" => hd'[g].fd = "none"
               /\ hd'[g].at # "idle" => hd'[g].body \in Database
    <3>1. CASE g = h
      BY <1>1, <3>1 DEF Idle
    <3>2. CASE g # h
      <4>1. /\ hd[g].at # "fill" => hd[g].fd = "none"
            /\ hd[g].at # "idle" => hd[g].body \in Database
        BY DEF LocalsOK
      <4> QED BY <1>2, <3>2, <4>1
    <3> QED BY <3>1, <3>2
  <2> QED BY <2>1 DEF LocalsOK
<1>7. DeadIsStill'
  BY <1>3 DEF DeadIsStill
<1>8. MetIsKnown'
  <2> SUFFICES ASSUME NEW g \in Handler, NEW k \in Handler, g # k,
                      hd'[g].at # "idle", hd'[k].at # "idle"
               PROVE  "met" \in hd'[k].bad
    BY DEF MetIsKnown
  <2>1. k # h
    BY <1>1 DEF Idle
  <2> QED BY <1>2, <1>5, <2>1
<1>9. OneWriter'
  BY <1>4 DEF OneWriter
<1>10. JournalIsOurs'
  <2>1. journal' # "main"
    BY DEF Rename
  <2>2. CASE journal = "main"
    <3>1. PICK w \in Writer : wr[w] = "main"
      BY <1>3, <2>2 DEF JournalIsOurs, Writing
    <3> QED BY <1>4, <2>1, <3>1 DEF JournalIsOurs
  <2>3. CASE journal # "main"
    <3>1. journal' = journal
      BY <2>3 DEF Rename
    <3>2. journal = "gone" => \E w \in Writer : wr[w] = "gone"
      BY <1>3 DEF JournalIsOurs
    <3>3. journal = "gone" => \E w \in Writer : wr'[w] = "gone"
      BY <1>4, <3>2
    <3> QED BY <2>1, <3>1, <3>3 DEF JournalIsOurs
  <2> QED BY <2>2, <2>3
<1>11. ASSUME expect' # Unsure
       PROVE  /\ "met" \notin hd[h].bad /\ expect' = hd[h].body
              /\ \A w \in Writer : wr[w] = "idle"
              /\ tmp = hd[h].body /\ tmp # Spoilt
  <2>1. "met" \notin hd[h].bad /\ expect' = hd[h].body /\ \A w \in Writer : wr[w] = "idle"
    BY <1>11 DEF Rename
  <2> QED BY <1>3, <2>1 DEF TmpIsMine
<1>12. Safe'
  <2> SUFFICES ASSUME expect' # Unsure
               PROVE  /\ \A w \in Writer : wr'[w] = "idle"
                      /\ journal' # "gone"
                      /\ \A g \in Handler : hd'[g].fd # "main"
    BY DEF Safe, Writing
  <2>1. \A w \in Writer : wr'[w] = "idle"
    BY <1>4, <1>11
  <2>2. journal # "main" /\ journal # "gone"
    BY <1>3, <1>11 DEF JournalIsOurs, Writing
  <2>3. ASSUME NEW g \in Handler PROVE hd'[g].fd # "main"
    <3>1. CASE g = h
      BY <1>1, <3>1 DEF Idle
    <3>2. CASE g # h
      BY <1>2, <1>5, <1>11, <3>2 DEF Idle
    <3> QED BY <3>1, <3>2
  <2> QED BY <2>1, <2>2, <2>3 DEF Rename
<1>13. TmpIsMine'
  <2> SUFFICES ASSUME NEW g \in Handler, "met" \notin hd'[g].bad
               PROVE  hd'[g].at = "idle"
    BY DEF TmpIsMine
  <2> QED BY <1>1, <1>2, <1>5 DEF Idle
<1>14. BakIsLast'
  <2> SUFFICES ASSUME NEW g \in Handler, hd'[g].bad = {}
               PROVE  hd'[g].at = "idle"
    BY DEF BakIsLast
  <2> QED BY <1>1, <1>2, <1>5 DEF Idle
<1>15. InPlace'
  <2>1. tmp # Absent
    BY DEF Rename
  <2> QED BY <1>3, <1>11, <2>1 DEF InPlace, Database, File
<1>16. CopyIsWhole'
  <2> SUFFICES ASSUME NEW g \in Handler, hd'[g].bad = {}
               PROVE  hd'[g].at = "idle"
    BY DEF CopyIsWhole
  <2> QED BY <1>1, <1>2, <1>5 DEF Idle
<1> QED
  BY <1>6, <1>7, <1>8, <1>9, <1>10, <1>12, <1>13, <1>14, <1>15, <1>16

LEMMA BeginRestoreKeeps ==
    ASSUME IInv, TypeOK', NEW h \in Handler, NEW body \in Body, BeginRestore(h, body)
    PROVE  IInv'
<1> USE DEF IInv, TypeOK
<1> DEFINE l == [at |-> "fill", body |-> body, fd |-> "tmp", src |-> Absent,
                 bad |-> When(~Quiet, {"met"})]
<1>1. hd'[h] = l /\ body \in Database
  BY BodyType DEF BeginRestore, Met
<1>2. ASSUME NEW g \in Handler, g # h
      PROVE  /\ hd[g].at = "idle" => hd'[g] = Idle
             /\ hd[g].at # "idle" => /\ hd'[g].at = hd[g].at /\ hd'[g].body = hd[g].body
                                     /\ hd'[g].fd = hd[g].fd
                                     /\ "met" \in hd'[g].bad /\ "met" \in hd'[h].bad
  <2>1. hd'[g] = IF hd[g].at = "idle" THEN hd[g]
                 ELSE [hd[g] EXCEPT !.bad = hd[g].bad \cup {"met"}]
    BY <1>2 DEF BeginRestore, Met
  <2>2. CASE hd[g].at = "idle"
    BY <2>1, <2>2 DEF LocalsOK
  <2>3. CASE hd[g].at # "idle"
    <3>1. "met" \in l.bad
      BY <2>3 DEF Quiet, When
    <3>2. hd'[g] = [hd[g] EXCEPT !.bad = hd[g].bad \cup {"met"}]
      BY <2>1, <2>3
    <3>3. hd[g] \in Local
      OBVIOUS
    <3> QED BY <1>1, <2>3, <3>1, <3>2, <3>3 DEF Local
  <2> QED BY <2>2, <2>3
<1>3. /\ hd[h].at = "idle" /\ up /\ tmp' = Empty
      /\ UNCHANGED <<db, bak, journal, up, wr, wrote, expect>>
  BY DEF BeginRestore
<1>4. LocalsOK'
  <2>1. ASSUME NEW g \in Handler
        PROVE  /\ hd'[g].at = "idle" => hd'[g] = Idle
               /\ hd'[g].at # "fill" => hd'[g].fd = "none"
               /\ hd'[g].at # "idle" => hd'[g].body \in Database
    <3>1. CASE g = h
      BY <1>1, <3>1
    <3>2. CASE g # h
      <4>1. /\ hd[g].at # "fill" => hd[g].fd = "none"
            /\ hd[g].at # "idle" => hd[g].body \in Database
        BY DEF LocalsOK
      <4> QED BY <1>2, <3>2, <4>1 DEF Idle
    <3> QED BY <3>1, <3>2
  <2> QED BY <2>1 DEF LocalsOK
<1>5. DeadIsStill'
  BY <1>3 DEF DeadIsStill
<1>6. MetIsKnown'
  <2> SUFFICES ASSUME NEW g \in Handler, NEW k \in Handler, g # k,
                      hd'[g].at # "idle", hd'[k].at # "idle"
               PROVE  "met" \in hd'[k].bad
    BY DEF MetIsKnown
  <2>1. CASE k = h
    BY <1>2, <2>1 DEF Idle
  <2>2. CASE k # h
    BY <1>2, <2>2 DEF Idle
  <2> QED BY <2>1, <2>2
<1>7. OneWriter' /\ JournalIsOurs'
  BY <1>3 DEF OneWriter, JournalIsOurs, Writing
<1>8. Safe'
  <2>1. ASSUME expect # Unsure, NEW g \in Handler PROVE hd'[g].fd # "main"
    <3>1. CASE g = h
      BY <1>1, <3>1
    <3>2. CASE g # h
      BY <1>2, <2>1, <3>2 DEF Safe, Idle
    <3> QED BY <3>1, <3>2
  <2> QED BY <1>3, <2>1 DEF Safe, Writing
<1>9. TmpIsMine'
  <2> SUFFICES ASSUME NEW g \in Handler, "met" \notin hd'[g].bad
               PROVE  \/ hd'[g].at = "idle"
                      \/ hd'[g].at = "fill" /\ hd'[g].fd = "tmp"
    BY <1>3 DEF TmpIsMine
  <2>1. CASE g = h
    BY <1>1, <2>1
  <2>2. CASE g # h
    BY <1>2, <2>2 DEF Idle
  <2> QED BY <2>1, <2>2
<1>10. BakIsLast' /\ CopyIsWhole'
  <2> SUFFICES ASSUME NEW g \in Handler, hd'[g].bad = {}
               PROVE  hd'[g].at \notin {"copying", "rename"}
    BY DEF BakIsLast, CopyIsWhole
  <2>1. CASE g = h
    BY <1>1, <2>1
  <2>2. CASE g # h
    BY <1>2, <2>2 DEF Idle
  <2> QED BY <2>1, <2>2
<1>11. InPlace'
  BY <1>3 DEF InPlace
<1> QED
  BY <1>4, <1>5, <1>6, <1>7, <1>8, <1>9, <1>10, <1>11

----------------------------------------------------------------------------
(* Statements and the process.                                              *)

\* A statement changes no more of a restore than that it has disturbed its copy.
LEMMA DisturbedIs ==
    ASSUME TypeOK, LocalsOK, NEW at \in {"copying", "rename"}, hd' = Disturbed(at),
           NEW g \in Handler
    PROVE  /\ hd'[g].at = hd[g].at /\ hd'[g].body = hd[g].body
           /\ hd'[g].fd = hd[g].fd /\ hd'[g].src = hd[g].src
           /\ hd[g].bad \subseteq hd'[g].bad
           /\ hd[g].at # at => hd'[g] = hd[g]
           /\ "met" \in hd'[g].bad => "met" \in hd[g].bad
           /\ hd[g].at = at => hd'[g].bad # {}
<1>1. hd[g] \in Local
  BY DEF TypeOK
<1>2. \/ hd'[g] = hd[g] /\ hd[g].at # at
      \/ hd'[g] = [hd[g] EXCEPT !.bad = hd[g].bad \cup {"copy"}] /\ hd[g].at = at
  BY DEF Disturbed
<1> QED BY <1>1, <1>2 DEF Local

LEMMA DisturbedKeeps ==
    ASSUME IInv, NEW at \in {"copying", "rename"}, hd' = Disturbed(at), UNCHANGED tmp
    PROVE  LocalsOK' /\ MetIsKnown' /\ TmpIsMine'
<1> USE DEF IInv
<1>1. LocalsOK'
  <2>1. ASSUME NEW g \in Handler
        PROVE  /\ hd'[g].at = "idle" => hd'[g] = Idle
               /\ hd'[g].at # "fill" => hd'[g].fd = "none"
               /\ hd'[g].at # "idle" => hd'[g].body \in Database
    BY DisturbedIs DEF LocalsOK
  <2> QED BY <2>1 DEF LocalsOK
<1>2. MetIsKnown'
  <2> SUFFICES ASSUME NEW g \in Handler, NEW k \in Handler, g # k,
                      hd'[g].at # "idle", hd'[k].at # "idle"
               PROVE  "met" \in hd'[k].bad
    BY DEF MetIsKnown
  <2>1. hd[g].at # "idle" /\ hd[k].at # "idle"
    BY DisturbedIs
  <2>2. "met" \in hd[k].bad
    BY <2>1 DEF MetIsKnown
  <2> QED BY <2>2, DisturbedIs
<1>3. TmpIsMine'
  <2> SUFFICES ASSUME NEW g \in Handler, "met" \notin hd'[g].bad
               PROVE  /\ hd'[g].at = "fill" => tmp' = Empty /\ hd'[g].fd = "tmp"
                      /\ hd'[g].at \in {"check", "copy", "copying", "rename"} => tmp' = hd'[g].body
                      /\ hd'[g].at \in {"copy", "copying", "rename"} => tmp' # Spoilt
    BY DEF TmpIsMine
  <2>1. "met" \notin hd[g].bad /\ hd'[g].at = hd[g].at /\ hd'[g].body = hd[g].body
        /\ hd'[g].fd = hd[g].fd
    BY DisturbedIs
  <2> QED BY <2>1 DEF TmpIsMine
<1> QED BY <1>1, <1>2, <1>3

\* While it is known what is in place there is no journal of another file to find.
LEMMA SureRecovered == IInv /\ expect # Unsure => Recovered = {db}
BY DEF IInv, Safe, Recovered

LEMMA BeginWriteKeeps ==
    ASSUME IInv, TypeOK', NEW w \in Writer, BeginWrite(w)
    PROVE  IInv'
<1> USE DEF IInv, TypeOK
<1>1. /\ up /\ wr[w] = "idle" /\ ~Writing /\ journal' = "main"
      /\ wr' = [wr EXCEPT ![w] = "main"] /\ hd' = Disturbed("copying")
      /\ UNCHANGED <<tmp, bak, up, wrote, expect>>
  BY DEF BeginWrite
<1>2. expect # Unsure => db' = db
  BY SureRecovered DEF BeginWrite
<1>3. wr'[w] = "main" /\ \A v \in Writer : v # w => wr'[v] = wr[v]
  BY <1>1
<1>4. LocalsOK' /\ MetIsKnown' /\ TmpIsMine'
  BY <1>1, DisturbedKeeps
<1>5. DeadIsStill'
  BY <1>1 DEF DeadIsStill
<1>6. OneWriter' /\ JournalIsOurs'
  BY <1>1, <1>3 DEF OneWriter, JournalIsOurs, Writing
<1>7. Safe'
  BY <1>1, <1>3, DisturbedIs DEF Safe
<1>8. InPlace'
  BY <1>1, <1>2 DEF InPlace
<1>9. BakIsLast'
  <2> SUFFICES ASSUME NEW g \in Handler, expect' # Unsure, hd'[g].at = "rename", hd'[g].bad = {}
               PROVE  bak' = db'
    BY DEF BakIsLast
  <2>1. hd'[g] = hd[g]
    BY <1>1, DisturbedIs
  <2> QED BY <1>1, <1>2, <2>1 DEF BakIsLast
<1>10. CopyIsWhole'
  <2> SUFFICES ASSUME NEW g \in Handler, hd'[g].at = "copying" PROVE hd'[g].bad # {}
    BY DEF CopyIsWhole
  <2> QED BY <1>1, DisturbedIs
<1> QED
  BY <1>4, <1>5, <1>6, <1>7, <1>8, <1>9, <1>10

LEMMA CommitKeeps ==
    ASSUME IInv, TypeOK', NEW w \in Writer, Commit(w)
    PROVE  IInv'
<1> USE DEF IInv, TypeOK
<1>1. /\ wr[w] # "idle" /\ up /\ journal' = "none"
      /\ wr' = [wr EXCEPT ![w] = "idle"]
      /\ wrote' \in 1..MaxWrite /\ expect' = WithRow(expect, wrote')
      /\ UNCHANGED <<tmp, bak, up>>
  BY WriteAssumption DEF Commit, DeadIsStill
<1>2. wr'[w] = "idle" /\ \A v \in Writer : v # w => wr'[v] = wr[v]
  BY <1>1
<1>3. expect' # Unsure => expect # Unsure
  BY <1>1, WithRowType
<1>4. \/ wr[w] = "main" /\ hd' = Disturbed("rename")
      \/ wr[w] # "main" /\ hd' = hd /\ db' = db
  BY DEF Commit
<1>5. LocalsOK' /\ MetIsKnown' /\ TmpIsMine'
  <2>1. CASE hd' = Disturbed("rename")
    BY <1>1, <2>1, DisturbedKeeps
  <2>2. CASE hd' = hd
    BY <1>1, <2>2 DEF LocalsOK, MetIsKnown, TmpIsMine
  <2> QED BY <1>4, <2>1, <2>2
<1>6. DeadIsStill'
  BY <1>1 DEF DeadIsStill
<1>7. OneWriter' /\ JournalIsOurs'
  BY <1>1, <1>2 DEF OneWriter, JournalIsOurs
<1>8. expect' # Unsure =>
        /\ wr[w] = "main" /\ db' = WithRow(db, wrote') /\ hd' = Disturbed("rename")
        /\ \A v \in Writer : wr'[v] = "idle"
  <2> SUFFICES ASSUME expect' # Unsure
               PROVE  /\ wr[w] = "main" /\ db' = WithRow(db, wrote')
                      /\ hd' = Disturbed("rename")
                      /\ \A v \in Writer : wr'[v] = "idle"
    OBVIOUS
  <2>1. \A v \in Writer : wr[v] # "gone"
    BY <1>3 DEF Safe
  <2>2. wr[w] = "main"
    BY <1>1, <2>1
  <2>3. \A v \in Writer : wr'[v] = "idle"
    BY <1>2, <2>1, <2>2 DEF OneWriter
  <2> QED BY <2>2, <2>3 DEF Commit
<1>9. Safe'
  <2>1. ASSUME expect' # Unsure, NEW g \in Handler PROVE hd'[g].fd # "main"
    BY <1>3, <1>8, <2>1, DisturbedIs DEF Safe
  <2> QED BY <1>1, <1>8, <2>1 DEF Safe, Writing
<1>10. BakIsLast'
  <2> SUFFICES ASSUME NEW g \in Handler, expect' # Unsure, hd'[g].at = "rename"
               PROVE  hd'[g].bad # {}
    BY DEF BakIsLast
  <2> QED BY <1>8, DisturbedIs
<1>11. InPlace'
  BY <1>1, <1>3, <1>8, WithRowType DEF InPlace
<1>12. CopyIsWhole'
  <2> SUFFICES ASSUME NEW g \in Handler, hd'[g].at = "copying", hd'[g].bad = {}
               PROVE  ~Writing' /\ expect' = Unsure
    BY DEF CopyIsWhole
  <2>1. hd[g].at = "copying" /\ hd[g].bad = {}
    BY <1>4, DisturbedIs
  <2>2. ~Writing
    BY <2>1 DEF CopyIsWhole
  <2>3. wr[w] # "main"
    BY <2>2 DEF Writing
  <2>4. ~Writing'
    BY <1>2, <2>2 DEF Writing
  <2> QED BY <1>8, <2>3, <2>4
<1> QED
  BY <1>5, <1>6, <1>7, <1>9, <1>10, <1>11, <1>12

LEMMA RollbackKeeps ==
    ASSUME IInv, TypeOK', NEW w \in Writer, Rollback(w)
    PROVE  IInv'
<1> USE DEF IInv, TypeOK
<1>1. /\ wr[w] # "idle" /\ up /\ journal' = "none"
      /\ wr' = [wr EXCEPT ![w] = "idle"]
      /\ UNCHANGED <<db, tmp, bak, up, hd, wrote, expect>>
  BY DEF Rollback, DeadIsStill
<1>2. wr'[w] = "idle" /\ \A v \in Writer : v # w => wr'[v] = wr[v]
  BY <1>1
<1>3. LocalsOK' /\ MetIsKnown' /\ TmpIsMine' /\ BakIsLast' /\ InPlace'
  BY <1>1 DEF LocalsOK, MetIsKnown, TmpIsMine, BakIsLast, InPlace
<1>4. DeadIsStill'
  BY <1>1 DEF DeadIsStill
<1>5. OneWriter' /\ JournalIsOurs'
  BY <1>1, <1>2 DEF OneWriter, JournalIsOurs
<1>6. Safe'
  <2> SUFFICES ASSUME expect # Unsure PROVE \A v \in Writer : wr'[v] = "idle"
    BY <1>1 DEF Safe, Writing
  <2>1. \A v \in Writer : wr[v] # "gone"
    BY DEF Safe
  <2>2. wr[w] = "main"
    BY <1>1, <2>1
  <2> QED BY <1>2, <2>1, <2>2 DEF OneWriter
<1>7. CopyIsWhole'
  BY <1>1, <1>2 DEF CopyIsWhole, Writing
<1> QED
  BY <1>3, <1>4, <1>5, <1>6, <1>7

LEMMA ReadKeeps ==
    ASSUME IInv, TypeOK', Read
    PROVE  IInv'
<1> USE DEF IInv, TypeOK
<1>1. up /\ journal' = "none" /\ UNCHANGED <<tmp, bak, up, hd, wr, wrote, expect>>
  BY DEF Read
<1>2. ~Writing /\ (expect # Unsure => db' = db)
  BY SureRecovered DEF Read
<1>3. LocalsOK' /\ MetIsKnown' /\ TmpIsMine' /\ OneWriter'
  BY <1>1 DEF LocalsOK, MetIsKnown, TmpIsMine, OneWriter
<1>4. DeadIsStill' /\ JournalIsOurs'
  BY <1>1 DEF DeadIsStill, JournalIsOurs
<1>5. Safe'
  BY <1>1, <1>2 DEF Safe, Writing
<1>6. BakIsLast' /\ InPlace' /\ CopyIsWhole'
  BY <1>1, <1>2 DEF BakIsLast, InPlace, CopyIsWhole, Writing
<1> QED
  BY <1>3, <1>4, <1>5, <1>6

LEMMA CrashKeeps ==
    ASSUME IInv, TypeOK', Crash
    PROVE  IInv'
<1> USE DEF IInv, TypeOK
<1>1. /\ ~up' /\ UNCHANGED <<tmp, journal, wrote, expect>>
      /\ \A h \in Handler : hd'[h] = Idle
      /\ \A w \in Writer : wr'[w] = "idle"
  BY DEF Crash
<1>2. expect # Unsure => db' = db
  BY DEF Crash, Safe, When
<1>3. LocalsOK' /\ MetIsKnown' /\ TmpIsMine' /\ BakIsLast' /\ CopyIsWhole'
  BY <1>1 DEF LocalsOK, MetIsKnown, TmpIsMine, BakIsLast, CopyIsWhole, Idle
<1>4. DeadIsStill' /\ JournalIsOurs' /\ OneWriter'
  BY <1>1 DEF DeadIsStill, JournalIsOurs, OneWriter, Quiet, Idle
<1>5. Safe'
  BY <1>1 DEF Safe, Writing, Idle
<1>6. InPlace'
  BY <1>1, <1>2 DEF InPlace
<1> QED
  BY <1>3, <1>4, <1>5, <1>6

LEMMA StartKeeps ==
    ASSUME IInv, TypeOK', Start
    PROVE  IInv'
<1> USE DEF IInv, TypeOK
<1>1. /\ ~up /\ journal' = "none" /\ expect' = WithTables(expect)
      /\ UNCHANGED <<tmp, bak, hd, wr, wrote>>
  BY DEF Start
<1>2. /\ \A h \in Handler : hd[h].at = "idle"
      /\ \A w \in Writer : wr[w] = "idle"
  BY <1>1 DEF DeadIsStill, Quiet
<1>3. expect' # Unsure => expect # Unsure
  BY <1>1, WithTablesType
<1>4. expect # Unsure => db' = WithTables(db)
  BY SureRecovered DEF Start
<1>5. LocalsOK' /\ MetIsKnown' /\ TmpIsMine' /\ BakIsLast' /\ CopyIsWhole'
  BY <1>1, <1>2 DEF LocalsOK, MetIsKnown, TmpIsMine, BakIsLast, CopyIsWhole
<1>6. DeadIsStill' /\ JournalIsOurs' /\ OneWriter'
  BY <1>1, <1>2 DEF DeadIsStill, JournalIsOurs, OneWriter, Quiet
<1>7. Safe'
  BY <1>1, <1>2, <1>3 DEF Safe, Writing
<1>8. InPlace'
  BY <1>1, <1>3, <1>4, WithTablesType DEF InPlace
<1> QED
  BY <1>5, <1>6, <1>7, <1>8

----------------------------------------------------------------------------
(* The theorems.                                                            *)

LEMMA InitIInv == Init => IInv
<1> SUFFICES ASSUME Init PROVE IInv
  OBVIOUS
<1>1. TypeOK
  BY InitType
<1>2. db = expect /\ db \in Contents
  BY BaseAssumption DEF Init, Empty, Contents
<1> QED
  BY <1>1, <1>2
  DEF Init, IInv, LocalsOK, DeadIsStill, Quiet, MetIsKnown, OneWriter, JournalIsOurs,
      Safe, Writing, TmpIsMine, CopyIsWhole, BakIsLast, InPlace, Idle

LEMMA NextIInv == IInv /\ [Next]_vars => IInv'
<1> SUFFICES ASSUME IInv, [Next]_vars PROVE IInv'
  OBVIOUS
<1>1. TypeOK'
  BY NextType
<1>2. CASE UNCHANGED vars
  BY <1>2 DEF vars, IInv, TypeOK, LocalsOK, DeadIsStill, Quiet, MetIsKnown, OneWriter,
              JournalIsOurs, Safe, Writing, TmpIsMine, CopyIsWhole, BakIsLast,
              InPlace
<1>3. ASSUME NEW w \in Writer, BeginWrite(w) \/ Commit(w) \/ Rollback(w) PROVE IInv'
  BY <1>1, <1>3, BeginWriteKeeps, CommitKeeps, RollbackKeeps
<1>4. ASSUME NEW h \in Handler, Continue(h) PROVE IInv'
  BY <1>1, <1>4, FillKeeps, CheckKeeps, RemoveKeeps, CopyKeeps, EndCopyKeeps,
     RenameKeeps, RenameFailsKeeps DEF Continue
<1>5. ASSUME NEW h \in Handler, NEW body \in Body, BeginRestore(h, body) PROVE IInv'
  BY <1>1, <1>5, BeginRestoreKeeps
<1>6. CASE Read \/ Crash \/ Start
  BY <1>1, <1>6, ReadKeeps, CrashKeeps, StartKeeps
<1> QED BY <1>2, <1>3, <1>4, <1>5, <1>6 DEF Next

\* The files, descriptors and locals keep their types.
THEOREM RestoreTypeCorrect == Spec => []TypeOK
<1>1. IInv => TypeOK
  BY DEF IInv
<1> QED
  BY <1>1, InitIInv, NextIInv, PTL DEF Spec

\* What is known to be in place is in place, whole, with every acknowledged row and no
\* other: for any number of restores and statements and every failure.
THEOREM RestoredIsInPlace == Spec => []InPlace
<1>1. IInv => InPlace
  BY DEF IInv
<1> QED
  BY <1>1, InitIInv, NextIInv, PTL DEF Spec

\* A restore that nothing has disturbed leaves in .bak the database that it replaces.
THEOREM PreviousIsKept == Spec => PreviousKept
<1>1. IInv /\ [Next]_vars =>
        [\A h \in Handler : expect # Unsure /\ hd[h].bad = {} /\ Rename(h) => bak' = db]_vars
  BY DEF IInv, BakIsLast, Rename
<1> QED
  BY <1>1, InitIInv, NextIInv, PTL DEF Spec, PreviousKept
=============================================================================
