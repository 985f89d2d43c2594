----------------------------- MODULE MCAclSync -----------------------------
(* AclSync for TLC.                                                         *)
EXTENDS AclSync, TLC

\* Connections are interchangeable.
ConnSymmetry == Permutations(Conn)

\* No description holds a mark.
NoMarks == [r \in Rule |-> {}]

\* The description of rule 1 holds the mark of 20.
MarksOfOther == [r \in Rule |-> IF r = 1 THEN {20} ELSE {}]

\* BOUND: a rule has a higher priority number than those created after it, so that the
\* order of the table is never that of the ids.
LaterFirst == \A r, s \in DOMAIN rules : r < s => rules[r].prio > rules[s].prio
=============================================================================
