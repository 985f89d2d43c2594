----------------------------- MODULE PeerViews -----------------------------
(* What the statistics page shows of a peer, out of `wg show dump`.         *)
(* The dump is parsed alike by the worker and, without one, by the manager. *)
EXTENDS Integers, Sequences, SequencesExt

CONSTANTS
    Key,            \* public keys
    Unread,         \* a column that is not a number
    Recent,         \* seconds for which a handshake counts (180)
    Parts,          \* parts of a second, which stamps and clock leave out
    Dump, Time      \* what wg prints, and what the clock says

ASSUME UnreadAssumption == Unread \notin Nat
ASSUME RecentAssumption == Recent \in Nat \ {0} /\ Parts \in Nat \ {0}

\* A line of the dump: its number of columns and the ones that are read.  The line of
\* the interface comes first and has other columns.
Column == Nat \cup {Unread}
Line == [cols : Nat, key : Key, shake : Column, rx : Column, tx : Column]

ASSUME DumpAssumption == Dump \subseteq Seq(Line)
ASSUME TimeAssumption == Time \subseteq Nat

\* A PeerStat.  shake: 0 for none.
Stat == [key : Key, shake : Nat, rx : Nat, tx : Nat]

VARIABLES
    dump, now       \* what the page being shown was computed from

pageVars == <<dump, now>>

----------------------------------------------------------------------------
(* parse_dump and handle_get_peer_stats.                                    *)

\* parse().unwrap_or(0)
Number(col) == IF col = Unread THEN 0 ELSE col

\* MUTANT: a short line ends the list.
PeerLines_UntilShort(d) == {i \in 2..Len(d) : \A j \in 2..i : d[j].cols >= 8}

\* The numbers of the lines read.  The first line is skipped, and so are short ones.
PeerLines(d) == {i \in 2..Len(d) : d[i].cols >= 8}

\* The peers of a dump, in the order of their lines.
Parsed(d) ==
    LET stat(line) == [key |-> line.key, shake |-> Number(line.shake),
                       rx |-> Number(line.rx), tx |-> Number(line.tx)]
    IN  [i \in PeerLines(d) |-> stat(d[i])]

----------------------------------------------------------------------------
(* api_server_peer_stats.                                                   *)

\* Collected into a map by public key: the last one counts.
ByKey(stats, key) ==
    LET mine == {i \in DOMAIN stats : stats[i].key = key}
    IN  IF mine = {} THEN [key |-> key, shake |-> 0, rx |-> 0, tx |-> 0]
        ELSE stats[Max(mine)]

\* MUTANT: the subtraction wraps.
Elapsed_Wraps(time, shake) == (time - shake) % (2^6)

\* saturating_sub
Elapsed(time, shake) == IF shake > time THEN 0 ELSE time - shake

\* What the page shows of the peer with this key.
Shown(d, key, time) ==
    LET s == ByKey(Parsed(d), key)
    IN  [connected |-> s.shake # 0 /\ Elapsed(time, s.shake) < Recent,
         shake |-> s.shake, rx |-> s.rx, tx |-> s.tx]

PageInit == dump \in Dump /\ now \in Time

\* The page is shown again, of another dump; the clock may have been set back.
Poll == dump' \in Dump /\ now' \in Time

PageSpec == PageInit /\ [][Poll]_pageVars

----------------------------------------------------------------------------
(* What its readers may rely on.                                            *)

\* A line that is short, or has unreadable columns, takes nothing from the other
\* peers: they are shown as if it were not there.
OthersUnharmed ==
    \A i \in 2..Len(dump) : \A key \in Key \ {dump[i].key} :
        Shown(dump, key, now) = Shown(RemoveAt(dump, i), key, now)

\* Connected is who had a handshake within the last Recent seconds.  The stamp and the
\* clock are whole seconds.  Whatever they leave out: who is shown as connected has had
\* one less than Recent seconds ago (or one stamped in the future, when the clock has
\* been set back), and who has had one in all but the last second of that time is
\* connected.  In that last second both occur; at an age of Recent itself nobody is.
ConnectedIfRecent ==
    \A key \in Key : \A f, g \in 0..Parts - 1 :
        LET s == Shown(dump, key, now)
            age == (now - s.shake) * Parts + f - g
        IN  /\ s.connected => s.shake # 0 /\ age < Recent * Parts
            /\ s.shake # 0 /\ age <= (Recent - 1) * Parts => s.connected
=============================================================================
