------------------------ MODULE SettingsStoreProofs ------------------------
(* Theorems about SettingsStore, for any number of handlers, any passwords  *)
(* and values, and any mixture of faults.                                   *)
EXTENDS SettingsStore, TLAPS

----------------------------------------------------------------------------
(* The inductive invariant.                                                 *)

Busy(h) == hd[h].at # "idle"

AtMostOne == \A g, h \in Handler : Busy(g) /\ Busy(h) => g = h

\* A handler runs in a process, and a process has a file.
Running ==
    /\ \A h \in Handler : Busy(h) => up
    /\ up => file # Absent
    /\ file = Absent => want = Defaults.pw

\* What a handler knows: a password it was asked for is one.
Asked == \A h \in Handler :
    hd[h].at \in {"truncate", "write"} => /\ hd[h].body \in Doc
                                          /\ hd[h].asks => hd[h].body.pw \in Password

\* Where nothing has spoilt the copy in memory, at most one save runs, and the copy
\* is the file's, or is about to be.
MemInv == "mem" \notin hurt =>
    /\ AtMostOne
    /\ up /\ Quiet /\ Loads(file) => mem = Loaded(file)
    /\ \A h \in Handler : hd[h].at = "truncate" /\ Loads(file) => mem = Loaded(file)
    /\ \A h \in Handler : hd[h].at = "publish" /\ Loads(file)
                              => Loaded(hd[h].body) = Loaded(file)

\* Where nothing has spoilt the password, at most one save runs, the file has the
\* password last asked for, and only that save may have emptied it.
PwInv == "pw" \notin hurt =>
    /\ AtMostOne
    /\ file \in Doc => file.pw = want
    /\ file \in Doc \cup {Absent} \/ \E h \in Handler : hd[h].at = "write"
    /\ \A h \in Handler : hd[h].at = "write" => file = Empty
    /\ \A h \in Handler : hd[h].at \in {"truncate", "write"} /\ ~hd[h].asks
                              => hd[h].body.pw = want

\* Without overlapping saves nothing is written over anything.
TornInv == "overlap" \notin Faults =>
    /\ AtMostOne
    /\ file # Torn
    /\ \A h \in Handler : hd[h].at = "write" => file = Empty

IInv == TypeOK /\ Running /\ Asked /\ MemInv /\ PwInv /\ TornInv

----------------------------------------------------------------------------
(* The file.                                                                *)

LEMMA NotDoc ==
  /\ Absent \notin Doc /\ Empty \notin Doc /\ Torn \notin Doc
  /\ Absent # Empty /\ Absent # Torn /\ Empty # Torn
  BY FileAssumption

\* Whatever is read becomes settings.
LEMMA LoadedType == ASSUME NEW f PROVE Loaded(f) \in Settings
  BY DefaultsAssumption DEF Loaded, Settings, Doc

\* Settings become a document that is read as the same settings again.
LEMMA WrittenAndRead ==
  ASSUME NEW s \in Settings
  PROVE  /\ AsDoc(s) \in Doc
         /\ AsDoc(s).pw = s.pw
         /\ Loaded(AsDoc(s)) = s
  <1>1. AsDoc(s) \in Doc
    BY DEF AsDoc, Doc, Settings
  <1>. QED
    BY <1>1 DEF AsDoc, Loaded, Settings

LEMMA DefaultsWritten ==
  /\ Defaults \in Settings
  /\ AsDoc(Defaults) \in Doc
  /\ AsDoc(Defaults).pw = Defaults.pw
  /\ Loaded(AsDoc(Defaults)) = Defaults
  /\ Loaded(Absent) = Defaults
  <1>1. Defaults \in Settings
    BY DefaultsAssumption DEF Settings
  <1>. QED
    BY <1>1, WrittenAndRead, NotDoc DEF Loaded

\* A completed body is a document, and keeps the password it names.
LEMMA FilledType ==
  ASSUME NEW body \in Doc, NEW f
  PROVE  /\ Filled(body, f) \in Doc
         /\ body.pw # Blank => Filled(body, f).pw = body.pw
         /\ body.pw = Blank /\ f \in Doc => Filled(body, f).pw = f.pw
  BY DEF Filled, Doc

LEMMA IdleIsLocal == Idle \in Local
  BY DEF Idle, Local

\* What a handler holds when its save begins.
LEMMA SaveBegun ==
  ASSUME TypeOK, NEW h \in Handler, NEW body \in Doc, BeginSave(h, body)
  PROVE  /\ hd' = [hd EXCEPT ![h] = hd'[h]]
         /\ hd'[h] \in Local
         /\ hd'[h].at = "truncate"
         /\ hd'[h].body \in Doc
         /\ hd'[h].asks => hd'[h].body.pw \in Password
         /\ ~hd'[h].asks /\ file \in Doc /\ "pw" \notin hurt' => hd'[h].body.pw = file.pw
         /\ "pw" \notin hurt' => Quiet /\ "pw" \notin hurt
         /\ hurt' \subseteq {"pw", "mem"}
         /\ up /\ UNCHANGED <<file, up, mem, want>>
  <1>1. PICK f :
          /\ hd' = [hd EXCEPT ![h] = [at |-> "truncate", body |-> Filled(body, f),
                                      asks |-> body.pw # Blank]]
          /\ hurt' = hurt \cup When(f # file, {"pw"}) \cup When(~Quiet, {"pw", "mem"})
    BY DEF BeginSave
  <1>2. hd'[h] = [at |-> "truncate", body |-> Filled(body, f), asks |-> body.pw # Blank]
    BY <1>1 DEF TypeOK
  <1>3. "pw" \notin hurt' => f = file /\ Quiet /\ "pw" \notin hurt
    BY <1>1 DEF When
  <1>4. body.pw \in Password \cup {Blank}
    BY DEF Doc
  <1>5. Filled(body, f) \in Doc
    BY FilledType
  <1>6. /\ hd'[h] \in Local
        /\ hd'[h].at = "truncate"
        /\ hd'[h].body = Filled(body, f)
    BY <1>2, <1>5 DEF Local
  <1>7. hd'[h].asks <=> body.pw # Blank
    <2>1. PICK a \in BOOLEAN : a = (body.pw # Blank)
      OBVIOUS
    <2>2. hd'[h] = [at |-> "truncate", body |-> Filled(body, f), asks |-> a]
      BY <1>2, <2>1
    <2>3. hd'[h].asks = a
      BY <2>2
    <2>. QED
      BY <2>1, <2>3
  <1>8. hd' = [hd EXCEPT ![h] = hd'[h]]
    BY <1>1, <1>2
  <1>9. hurt' \subseteq {"pw", "mem"}
    BY <1>1 DEF When, TypeOK
  <1>. QED
    BY <1>3, <1>4, <1>5, <1>6, <1>7, <1>8, <1>9, FilledType DEF BeginSave

----------------------------------------------------------------------------
(* Initially.                                                               *)

LEMMA InitInv == Init => IInv
  <1>. SUFFICES ASSUME Init PROVE IInv
    OBVIOUS
  <1>1. TypeOK
    BY IdleIsLocal, DefaultsAssumption DEF Init, TypeOK, File, Settings
  <1>2. \A h \in Handler : hd[h].at = "idle"
    BY DEF Init, Idle
  <1>. QED
    BY <1>1, <1>2, NotDoc
    DEF Init, IInv, Running, Asked, MemInv, PwInv, TornInv, AtMostOne, Busy

----------------------------------------------------------------------------
(* Every step.                                                              *)

LEMMA TypeNext == TypeOK /\ Asked /\ [Next]_vars => TypeOK'
  <1>. SUFFICES ASSUME TypeOK, Asked, [Next]_vars PROVE TypeOK'
    OBVIOUS
  <1>. USE IdleIsLocal
  <1>1. ASSUME NEW h \in Handler, NEW body \in Doc, BeginSave(h, body) PROVE TypeOK'
    BY <1>1, SaveBegun DEF TypeOK
  <1>2. ASSUME NEW h \in Handler, Truncate(h) PROVE TypeOK'
    BY <1>2 DEF Truncate, TypeOK, File, Local
  <1>3. ASSUME NEW h \in Handler, Write(h) PROVE TypeOK'
    BY <1>3 DEF Write, TypeOK, Asked, File, Local, When
  <1>4. ASSUME NEW h \in Handler, SaveFails(h) PROVE TypeOK'
    BY <1>4 DEF SaveFails, TypeOK, When
  <1>5. ASSUME NEW h \in Handler, Reload(h) PROVE TypeOK'
    BY <1>5, LoadedType, WrittenAndRead DEF Reload, TypeOK, Local
  <1>6. ASSUME NEW h \in Handler, ReloadFails(h) PROVE TypeOK'
    BY <1>6 DEF ReloadFails, TypeOK, When
  <1>7. ASSUME NEW h \in Handler, Publish(h) PROVE TypeOK'
    BY <1>7, LoadedType DEF Publish, TypeOK
  <1>8. ASSUME NEW h \in Handler, Leave(h) PROVE TypeOK'
    BY <1>8 DEF Leave, TypeOK
  <1>9. CASE Start
    BY <1>9, LoadedType, DefaultsWritten DEF Start, TypeOK, File
  <1>10. CASE StartDies
    BY <1>10 DEF StartDies, TypeOK, File
  <1>11. CASE Crash
    BY <1>11 DEF Crash, TypeOK, When
  <1>12. CASE UNCHANGED vars
    BY <1>12 DEF vars, TypeOK
  <1>. QED
    BY <1>1, <1>2, <1>3, <1>4, <1>5, <1>6, <1>7, <1>8, <1>9, <1>10, <1>11, <1>12
    DEF Next, Continue

LEMMA RunningNext == TypeOK /\ Asked /\ Running /\ [Next]_vars => Running'
  <1>. SUFFICES ASSUME TypeOK, Asked, Running, [Next]_vars PROVE Running'
    OBVIOUS
  <1>1. ASSUME NEW h \in Handler, NEW body \in Doc, BeginSave(h, body) PROVE Running'
    BY <1>1 DEF BeginSave, Running
  <1>2. ASSUME NEW h \in Handler, Truncate(h) PROVE Running'
    BY <1>2, NotDoc DEF Truncate, Running, Busy
  <1>3. ASSUME NEW h \in Handler, Write(h) PROVE Running'
    BY <1>3, NotDoc DEF Write, Asked, Running, Busy, When
  <1>4. ASSUME NEW h \in Handler, SaveFails(h) PROVE Running'
    BY <1>4 DEF SaveFails, Running, Busy
  <1>5. ASSUME NEW h \in Handler, Reload(h) PROVE Running'
    BY <1>5 DEF Reload, Running, Busy
  <1>6. ASSUME NEW h \in Handler, ReloadFails(h) PROVE Running'
    BY <1>6 DEF ReloadFails, Running, Busy
  <1>7. ASSUME NEW h \in Handler, Publish(h) PROVE Running'
    BY <1>7 DEF Publish, Running, Busy
  <1>8. ASSUME NEW h \in Handler, Leave(h) PROVE Running'
    BY <1>8 DEF Leave, Running, Busy
  <1>9. CASE Start
    BY <1>9, NotDoc, DefaultsWritten DEF Start, Running
  <1>10. CASE StartDies
    BY <1>10 DEF StartDies, Running, Busy
  <1>11. CASE Crash
    BY <1>11 DEF Crash, Running, Busy, Idle
  <1>12. CASE UNCHANGED vars
    BY <1>12 DEF vars, Running, Busy
  <1>. QED
    BY <1>1, <1>2, <1>3, <1>4, <1>5, <1>6, <1>7, <1>8, <1>9, <1>10, <1>11, <1>12
    DEF Next, Continue

LEMMA AskedNext == TypeOK /\ Asked /\ [Next]_vars => Asked'
  <1>. SUFFICES ASSUME TypeOK, Asked, [Next]_vars PROVE Asked'
    OBVIOUS
  <1>1. ASSUME NEW h \in Handler, NEW body \in Doc, BeginSave(h, body) PROVE Asked'
    BY <1>1, SaveBegun DEF TypeOK, Asked
  <1>2. ASSUME NEW h \in Handler, Truncate(h) PROVE Asked'
    BY <1>2 DEF Truncate, Asked
  <1>3. ASSUME NEW h \in Handler, Write(h) PROVE Asked'
    BY <1>3 DEF Write, Asked
  <1>4. ASSUME NEW h \in Handler, SaveFails(h) PROVE Asked'
    BY <1>4 DEF SaveFails, Asked, Idle
  <1>5. ASSUME NEW h \in Handler, Reload(h) PROVE Asked'
    BY <1>5 DEF Reload, TypeOK, Asked
  <1>6. ASSUME NEW h \in Handler, ReloadFails(h) PROVE Asked'
    BY <1>6 DEF ReloadFails, Asked, Idle
  <1>7. ASSUME NEW h \in Handler, Publish(h) PROVE Asked'
    BY <1>7 DEF Publish, Asked, Idle
  <1>8. ASSUME NEW h \in Handler, Leave(h) PROVE Asked'
    BY <1>8 DEF Leave, Asked, Idle
  <1>9. CASE Start
    BY <1>9 DEF Start, Asked
  <1>10. CASE StartDies
    BY <1>10 DEF StartDies, Asked
  <1>11. CASE Crash
    BY <1>11 DEF Crash, Asked, Idle
  <1>12. CASE UNCHANGED vars
    BY <1>12 DEF vars, Asked
  <1>. QED
    BY <1>1, <1>2, <1>3, <1>4, <1>5, <1>6, <1>7, <1>8, <1>9, <1>10, <1>11, <1>12
    DEF Next, Continue

LEMMA TornNext == TypeOK /\ Asked /\ TornInv /\ [Next]_vars => TornInv'
  <1>. SUFFICES ASSUME TypeOK, Asked, TornInv, [Next]_vars PROVE TornInv'
    OBVIOUS
  <1>1. ASSUME NEW h \in Handler, NEW body \in Doc, BeginSave(h, body) PROVE TornInv'
    BY <1>1 DEF BeginSave, TornInv, AtMostOne, Busy, Quiet
  <1>2. ASSUME NEW h \in Handler, Truncate(h) PROVE TornInv'
    BY <1>2, NotDoc DEF Truncate, TornInv, AtMostOne, Busy
  <1>3. ASSUME NEW h \in Handler, Write(h) PROVE TornInv'
    BY <1>3, NotDoc DEF Write, TypeOK, Asked, TornInv, AtMostOne, Busy, When
  <1>4. ASSUME NEW h \in Handler, SaveFails(h) PROVE TornInv'
    BY <1>4 DEF SaveFails, TornInv, AtMostOne, Busy, Idle
  <1>5. ASSUME NEW h \in Handler, Reload(h) PROVE TornInv'
    BY <1>5 DEF Reload, TypeOK, TornInv, AtMostOne, Busy
  <1>6. ASSUME NEW h \in Handler, ReloadFails(h) PROVE TornInv'
    BY <1>6 DEF ReloadFails, TornInv, AtMostOne, Busy, Idle
  <1>7. ASSUME NEW h \in Handler, Publish(h) PROVE TornInv'
    BY <1>7 DEF Publish, TornInv, AtMostOne, Busy, Idle
  <1>8. ASSUME NEW h \in Handler, Leave(h) PROVE TornInv'
    BY <1>8 DEF Leave, TornInv, AtMostOne, Busy, Idle
  <1>9. CASE Start
    BY <1>9, NotDoc, DefaultsWritten DEF Start, TornInv, AtMostOne, Busy
  <1>10. CASE StartDies
    BY <1>10, NotDoc DEF StartDies, TornInv, AtMostOne, Busy
  <1>11. CASE Crash
    BY <1>11 DEF Crash, TornInv, AtMostOne, Busy, Idle
  <1>12. CASE UNCHANGED vars
    BY <1>12 DEF vars, TornInv, AtMostOne, Busy
  <1>. QED
    BY <1>1, <1>2, <1>3, <1>4, <1>5, <1>6, <1>7, <1>8, <1>9, <1>10, <1>11, <1>12
    DEF Next, Continue

LEMMA MemNext == TypeOK /\ Running /\ MemInv /\ [Next]_vars => MemInv'
  <1>. SUFFICES ASSUME TypeOK, Running, MemInv, [Next]_vars PROVE MemInv'
    OBVIOUS
  <1>1. ASSUME NEW h \in Handler, NEW body \in Doc, BeginSave(h, body) PROVE MemInv'
    BY <1>1 DEF BeginSave, MemInv, AtMostOne, Busy, Quiet, When
  <1>2. ASSUME NEW h \in Handler, Truncate(h) PROVE MemInv'
    BY <1>2 DEF Truncate, TypeOK, MemInv, AtMostOne, Busy, Quiet
  <1>3. ASSUME NEW h \in Handler, Write(h) PROVE MemInv'
    BY <1>3 DEF Write, MemInv, AtMostOne, Busy, Quiet
  <1>4. ASSUME NEW h \in Handler, SaveFails(h) PROVE MemInv'
    BY <1>4 DEF SaveFails, MemInv, AtMostOne, Busy, Idle, When
  <1>5. ASSUME NEW h \in Handler, Reload(h) PROVE MemInv'
    BY <1>5, LoadedType, WrittenAndRead
    DEF Reload, TypeOK, MemInv, AtMostOne, Busy, Quiet, Alone
  <1>6. ASSUME NEW h \in Handler, ReloadFails(h) PROVE MemInv'
    BY <1>6 DEF ReloadFails, MemInv, AtMostOne, Busy, When
  <1>7. ASSUME NEW h \in Handler, Publish(h) PROVE MemInv'
    BY <1>7 DEF Publish, MemInv, AtMostOne, Busy, Idle
  <1>8. ASSUME NEW h \in Handler, Leave(h) PROVE MemInv'
    BY <1>8 DEF Leave, MemInv
  <1>9. CASE Start
    BY <1>9, DefaultsWritten DEF Start, Running, MemInv, AtMostOne, Busy
  <1>10. CASE StartDies
    BY <1>10 DEF StartDies, Running, MemInv, AtMostOne, Busy
  <1>11. CASE Crash
    BY <1>11 DEF Crash, MemInv, AtMostOne, Busy, Idle
  <1>12. CASE UNCHANGED vars
    BY <1>12 DEF vars, MemInv, AtMostOne, Busy, Quiet
  <1>. QED
    BY <1>1, <1>2, <1>3, <1>4, <1>5, <1>6, <1>7, <1>8, <1>9, <1>10, <1>11, <1>12
    DEF Next, Continue

LEMMA PwNext == TypeOK /\ Running /\ Asked /\ PwInv /\ [Next]_vars => PwInv'
  <1>. SUFFICES ASSUME TypeOK, Running, Asked, PwInv, [Next]_vars PROVE PwInv'
    OBVIOUS
  <1>1. ASSUME NEW h \in Handler, NEW body \in Doc, BeginSave(h, body) PROVE PwInv'
    BY <1>1, SaveBegun DEF TypeOK, Running, PwInv, AtMostOne, Busy, Quiet
  <1>2. ASSUME NEW h \in Handler, Truncate(h) PROVE PwInv'
    BY <1>2, NotDoc DEF Truncate, TypeOK, PwInv, AtMostOne, Busy
  <1>3. ASSUME NEW h \in Handler, Write(h) PROVE PwInv'
    BY <1>3 DEF Write, TypeOK, Asked, PwInv, AtMostOne, Busy, Alone, When
  <1>4. ASSUME NEW h \in Handler, SaveFails(h) PROVE PwInv'
    BY <1>4 DEF SaveFails, PwInv, AtMostOne, Busy, Idle, When
  <1>5. ASSUME NEW h \in Handler, Reload(h) PROVE PwInv'
    BY <1>5 DEF Reload, TypeOK, PwInv, AtMostOne, Busy
  <1>6. ASSUME NEW h \in Handler, ReloadFails(h) PROVE PwInv'
    BY <1>6 DEF ReloadFails, PwInv, AtMostOne, Busy, Idle
  <1>7. ASSUME NEW h \in Handler, Publish(h) PROVE PwInv'
    BY <1>7 DEF Publish, PwInv, AtMostOne, Busy, Idle
  <1>8. ASSUME NEW h \in Handler, Leave(h) PROVE PwInv'
    BY <1>8 DEF Leave, PwInv, AtMostOne, Busy, Idle
  <1>9. CASE Start
    BY <1>9, DefaultsWritten DEF Start, Running, PwInv, AtMostOne, Busy
  <1>10. CASE StartDies
    BY <1>10 DEF StartDies, PwInv
  <1>11. CASE Crash
    BY <1>11 DEF Crash, PwInv, AtMostOne, Busy, Idle, When
  <1>12. CASE UNCHANGED vars
    BY <1>12 DEF vars, PwInv, AtMostOne, Busy
  <1>. QED
    BY <1>1, <1>2, <1>3, <1>4, <1>5, <1>6, <1>7, <1>8, <1>9, <1>10, <1>11, <1>12
    DEF Next, Continue

----------------------------------------------------------------------------
(* The theorems.                                                            *)

LEMMA Invariant == Spec => []IInv
  <1>1. IInv /\ [Next]_vars => IInv'
    BY TypeNext, RunningNext, AskedNext, MemNext, PwNext, TornNext DEF IInv
  <1>. QED
    BY InitInv, <1>1, PTL DEF Spec

\* Type correctness of the file, the copy in memory and the handlers.
THEOREM TypeCorrect == Spec => []TypeOK
  <1>1. IInv => TypeOK
    BY DEF IInv
  <1>. QED
    BY Invariant, <1>1, PTL

\* A blank password keeps the present one, whatever fails, however many save
\* (api_settings_put).
THEOREM PasswordIsKept == Spec => []PasswordKept
  <1>1. IInv => PasswordKept
    BY DEF IInv, PwInv, PasswordKept
  <1>. QED
    BY Invariant, <1>1, PTL

\* What is in force is what the next start would read (the reload that ends
\* api_settings_put, and Settings::load).
THEOREM FileIsInForce == Spec => []InForce
  <1>1. IInv => InForce
    BY DEF IInv, MemInv, InForce
  <1>. QED
    BY Invariant, <1>1, PTL

\* Neither a crash nor a failed write keeps the program from starting
\* (Settings::load, for which an empty file is all defaults).
THEOREM AlwaysStartsAgain == Spec => []StartsAgain
  <1>1. IInv => StartsAgain
    BY DEF IInv, TypeOK, TornInv, StartsAgain, File, Loads, Doc
  <1>. QED
    BY Invariant, <1>1, PTL

=============================================================================
