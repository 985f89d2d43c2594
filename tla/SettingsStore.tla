--------------------------- MODULE SettingsStore ---------------------------
(* The settings: config.yaml, the copy of it in wg-manager's memory, the    *)
(* handler that saves both, and the start that reads the file.              *)
(*                                                                          *)
(* fs::write opens the file with O_TRUNC and then writes at its beginning:  *)
(* in between anybody who reads it reads an empty file.                     *)
CONSTANTS
    Handler,        \* HTTP requests that can be in flight at once
    Password,       \* passwords administrators choose
    Blank,          \* the password field of a body that leaves it as it is
    Value,          \* the rest of the settings
    Defaults,       \* Settings::default()
    Absent, Empty, Torn,    \* the file when it is no document
    NoDoc,
    Faults          \* what can go wrong in this run

\* A body, and the file it becomes: the settings page sends every field.  fits: it
\* deserializes into Settings; one with a number out of range is saved all the same.
Doc == [pw : Password \cup {Blank}, rest : Value, fits : BOOLEAN]

ASSUME PasswordAssumption == Blank \notin Password
ASSUME DefaultsAssumption == Defaults \in [pw : Password, rest : Value]
ASSUME FileAssumption ==
    /\ Absent # Empty /\ Absent # Torn /\ Empty # Torn
    /\ \A f \in {Absent, Empty, Torn, NoDoc} : f \notin Doc
ASSUME OptionAssumption == Faults \subseteq {"crash", "io", "leave", "misfit", "overlap"}

VARIABLES
    file,           \* config.yaml
    up,             \* wg-manager runs
    mem,            \* AppState.settings
    hd,             \* hd[h]: the locals of handler h
    want,           \* the password last asked for and written (history)
    hurt            \* what failed, interrupted or overlapping saves may have spoilt:
                    \* the password in the file, the copy in memory (history)

vars == <<file, up, mem, hd, want, hurt>>

----------------------------------------------------------------------------
Settings == [pw : Password \cup {Blank}, rest : Value]

\* Torn: one body and the end of a longer one, not YAML any more.
File == Doc \cup {Absent, Empty, Torn}

Local == [at   : {"idle", "truncate", "write", "reload", "publish"},
          body : Doc \cup {NoDoc},
          asks : BOOLEAN]

Idle == [at |-> "idle", body |-> NoDoc, asks |-> FALSE]

TypeOK ==
    /\ file \in File
    /\ up \in BOOLEAN
    /\ mem \in Settings
    /\ hd \in [Handler -> Local]
    /\ want \in Password
    /\ hurt \subseteq {"pw", "mem"}

Init ==
    /\ file = Absent
    /\ up = FALSE
    /\ mem = Defaults
    /\ hd = [h \in Handler |-> Idle]
    /\ want = Defaults.pw
    /\ hurt = {}

----------------------------------------------------------------------------
(* Settings::load.                                                          *)

\* MUTANT: the sections of the file are not optional.
Loads_Sections(f) == f \in Doc /\ f.fits

\* An empty file has no sections, and every section has a default.
Loads(f) == f = Empty \/ (f \in Doc /\ f.fits)

Loaded(f) == IF f \in Doc THEN [pw |-> f.pw, rest |-> f.rest] ELSE Defaults

\* Settings as they are written, or held by a handler.
AsDoc(s) == [pw |-> s.pw, rest |-> s.rest, fits |-> TRUE]

----------------------------------------------------------------------------
(* api_settings_put.                                                        *)

Quiet == \A h \in Handler : hd[h].at = "idle"

Alone(h) == \A g \in Handler \ {h} : hd[g].at = "idle"

\* The members of S, on a condition.
When(condition, S) == {x \in S : condition}

\* MUTANT: a blank password is saved as it is.
Filled_AsSent(body, f) == body

\* MUTANT: it becomes null when there is none in the file.
Filled_Null(body, f) ==
    IF body.pw = Blank THEN [body EXCEPT !.pw = IF f \in Doc THEN f.pw ELSE NoDoc] ELSE body

\* A blank password is filled in from the file, if there is one in it.
Filled(body, f) ==
    IF body.pw = Blank /\ f \in Doc THEN [body EXCEPT !.pw = f.pw] ELSE body

\* The file is read and the body completed.  A file that cannot be read counts as
\* empty.
BeginSave(h, body) ==
    /\ up
    /\ hd[h].at = "idle"
    /\ Quiet \/ "overlap" \in Faults
    /\ body.fits \/ "misfit" \in Faults
    /\ \E f \in {file} \cup When("io" \in Faults, {Empty}) :
          /\ hd' = [hd EXCEPT ![h] = [at |-> "truncate", body |-> Filled(body, f),
                                      asks |-> body.pw # Blank]]
          /\ hurt' = hurt \cup When(f # file, {"pw"}) \cup When(~Quiet, {"pw", "mem"})
    /\ UNCHANGED <<file, up, mem, want>>

\* fs::write opens the file.
Truncate(h) ==
    /\ hd[h].at = "truncate"
    /\ file' = Empty
    /\ hd' = [hd EXCEPT ![h].at = "write"]
    /\ UNCHANGED <<up, mem, want, hurt>>

\* fs::write writes it, over what another save has written since: the end of a longer
\* one stays, which is in the last section and never the password.
Write(h) ==
    /\ hd[h].at = "write"
    /\ file' \in {hd[h].body}
                  \cup When(file # Empty, {Torn} \cup {d \in Doc : d.pw = hd[h].body.pw})
    /\ want' = IF hd[h].asks THEN hd[h].body.pw ELSE want
    /\ hurt' = IF hd[h].asks /\ Alone(h) /\ file' # Torn THEN hurt \ {"pw"} ELSE hurt
    /\ hd' = [hd EXCEPT ![h].at = "reload"]
    /\ UNCHANGED <<up, mem>>

\* Either fails: 500, and in the second case the file stays empty.
SaveFails(h) ==
    /\ "io" \in Faults
    /\ hd[h].at \in {"truncate", "write"}
    /\ hd' = [hd EXCEPT ![h] = Idle]
    /\ hurt' = hurt \cup When(hd[h].at = "write", {"pw", "mem"})
    /\ UNCHANGED <<file, up, mem, want>>

\* The file is loaded again.
Reload(h) ==
    /\ hd[h].at = "reload"
    /\ Loads(file)
    /\ hd' = [hd EXCEPT ![h].at = "publish", ![h].body = AsDoc(Loaded(file))]
    /\ hurt' = IF Alone(h) THEN hurt \ {"mem"} ELSE hurt
    /\ UNCHANGED <<file, up, mem, want>>

\* What does not load, or cannot be read, is answered 204 all the same.
ReloadFails(h) ==
    /\ hd[h].at = "reload"
    /\ ~Loads(file) \/ "io" \in Faults
    /\ hd' = [hd EXCEPT ![h] = Idle]
    /\ hurt' = hurt \cup When(Loads(file), {"mem"})
    /\ UNCHANGED <<file, up, mem, want>>

\* MUTANT: what was loaded is forgotten.
Publish_Forgets(h) ==
    /\ hd[h].at = "publish"
    /\ hd' = [hd EXCEPT ![h] = Idle]
    /\ UNCHANGED <<file, up, mem, want, hurt>>

\* The copy in memory is replaced: 204.
Publish(h) ==
    /\ hd[h].at = "publish"
    /\ mem' = Loaded(hd[h].body)
    /\ hd' = [hd EXCEPT ![h] = Idle]
    /\ UNCHANGED <<file, up, want, hurt>>

\* The client leaves while the handler waits for the lock on the copy.
Leave(h) ==
    /\ "leave" \in Faults
    /\ hd[h].at = "publish"
    /\ hd' = [hd EXCEPT ![h] = Idle]
    /\ hurt' = hurt \cup {"mem"}
    /\ UNCHANGED <<file, up, mem, want>>

----------------------------------------------------------------------------
(* The process.                                                             *)

\* A missing file is written with the defaults; with one that does not load the
\* program exits, however often it is started.
Start ==
    /\ ~up
    /\ file = Absent \/ Loads(file)
    /\ up' = TRUE
    /\ mem' = Loaded(file)
    /\ file' = IF file = Absent THEN AsDoc(Defaults) ELSE file
    /\ hurt' = hurt \ {"mem"}
    /\ UNCHANGED <<hd, want>>

\* It dies while it writes the defaults.
StartDies ==
    /\ "crash" \in Faults
    /\ ~up
    /\ file = Absent
    /\ file' = Empty
    /\ hurt' = hurt \cup {"pw"}
    /\ UNCHANGED <<up, mem, hd, want>>

Crash ==
    /\ "crash" \in Faults
    /\ up
    /\ up' = FALSE
    /\ hd' = [h \in Handler |-> Idle]
    /\ hurt' = hurt \cup When(\E h \in Handler : hd[h].at = "write", {"pw"})
    /\ UNCHANGED <<file, mem, want>>

Continue(h) ==
    \/ Truncate(h) \/ Write(h) \/ SaveFails(h)
    \/ Reload(h) \/ ReloadFails(h) \/ Publish(h) \/ Leave(h)

Next ==
    \/ \E h \in Handler :
          \/ \E body \in Doc : BeginSave(h, body)
          \/ Continue(h)
    \/ Start
    \/ StartDies
    \/ Crash

Spec == Init /\ [][Next]_vars

----------------------------------------------------------------------------
(* What the settings page promises.                                         *)

\* docs/02-config.md: a blank password keeps the present one.  So the file has the
\* password last asked for, through saves that do not load and crashes, until a save has
\* emptied the file and left it so, or another has read it meanwhile; and again as
\* soon as a password is saved by a request that nothing disturbs.
PasswordKept == Quiet /\ "pw" \notin hurt /\ file \in Doc => file.pw = want

\* Whenever nothing is being saved, what is in force is what the next start would
\* read, if it reads anything.  Only a save that failed half-way, whose client left, or
\* that overlapped another leaves the two apart, until the next that nothing disturbs
\* or the next start.
InForce == up /\ Quiet /\ "mem" \notin hurt /\ Loads(file) => mem = Loaded(file)

\* A crash or a failure in the middle of a save does not keep the program from
\* starting again: only a body that does not fit does, or two saves written over
\* one another.
StartsAgain ==
    \/ file = Absent \/ Loads(file)
    \/ file = Torn /\ "overlap" \in Faults
    \/ file \in Doc /\ ~file.fits
=============================================================================
