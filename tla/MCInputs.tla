------------------------------ MODULE MCInputs ------------------------------
(* AddressPool on every small range, PeerViews on every small dump, one at  *)
(* a time: they have nothing to do with each other.                         *)
EXTENDS AddressPool, PeerViews

MCAddress == 0..7

\* BOUND: a good column or two, one that is not a number; the first line and two more.
MCColumn == {0, 10, Unread}
MCLines == [cols : {7, 8}, key : Key, shake : MCColumn, rx : {5, Unread}, tx : {6}]
MCDump ==
    {<<>>} \cup
    {<<[cols |-> 4, key |-> key, shake |-> 0, rx |-> 0, tx |-> 0]>> \o lines :
        key \in Key, lines \in SeqOf(MCLines, 2)}

NoPage == dump = <<>> /\ now \in Time /\ \A t \in Time : now <= t
NoWalk == cidr = [addr |-> 0, size |-> 1] /\ used = {} /\ at = "walk"

MCInit == Init /\ PageInit /\ (NoPage \/ NoWalk)

MCNext ==
    \/ NoPage /\ Next /\ UNCHANGED pageVars
    \/ NoWalk /\ Poll /\ UNCHANGED vars

MCSpec == MCInit /\ [][MCNext]_<<vars, pageVars>>
=============================================================================
