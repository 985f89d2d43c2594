---------------------------- MODULE AddressPool ----------------------------
(* allocate_next_ip: the walk over the hosts of client_ip_range in search   *)
(* of an address that is not in use.                                        *)
(*                                                                          *)
(* IPv4 only: build_client_conf and the handlers write every address with   *)
(* /32.  An address is a number; a CIDR is an address and the number of     *)
(* addresses its prefix leaves (1 for a /32).                               *)
EXTENDS Integers

CONSTANTS
    Address,        \* BOUND: the addresses
    Size,           \* sizes of the ranges, powers of two
    NoIp

ASSUME AddressAssumption == Address \subseteq Int /\ NoIp \notin Int
ASSUME SizeAssumption == Size \subseteq Nat \ {0}

VARIABLES
    cidr,           \* client_ip_range; the host bits of its address need not be 0
    used,           \* addresses in use
    idx,            \* hosts visited
    at,             \* "walk" or "done"
    ip              \* the address answered, or NoIp

vars == <<cidr, used, idx, at, ip>>

----------------------------------------------------------------------------
Cidr == [addr : Address, size : Size]

Network(c) == c.addr - (c.addr % c.size)

Broadcast(c) == Network(c) + c.size - 1

\* MUTANT: the end of the range is exclusive and taken for inclusive.
LastHost_OneMore(c) == Network(c) + c.size

\* IpNet::hosts: all addresses of a /32 and a /31, of a larger range all but the first
\* and the last.
FirstHost(c) == IF c.size > 2 THEN Network(c) + 1 ELSE Network(c)

LastHost(c) == IF c.size > 2 THEN Broadcast(c) - 1 ELSE Broadcast(c)

TypeOK ==
    /\ cidr \in Cidr
    /\ used \subseteq Address
    /\ idx \in 0..cidr.size
    /\ at \in {"walk", "done"}
    /\ ip \in Network(cidr)..Broadcast(cidr) \cup {NoIp}

Init ==
    /\ cidr \in Cidr
    /\ used \in SUBSET Address
    /\ idx = 0
    /\ at = "walk"
    /\ ip = NoIp

\* The host the walk comes to next.
Here == FirstHost(cidr) + idx

\* MUTANT: none is left out.
LeftOut_None(n) == FALSE

\* The first host is left out.
LeftOut(n) == n <= 1

Pass ==
    /\ at = "walk"
    /\ Here <= LastHost(cidr)
    /\ idx' = idx + 1
    /\ LeftOut(idx') \/ Here \in used
    /\ UNCHANGED <<cidr, used, at, ip>>

Found ==
    /\ at = "walk"
    /\ Here <= LastHost(cidr)
    /\ idx' = idx + 1
    /\ ~LeftOut(idx') /\ Here \notin used
    /\ at' = "done"
    /\ ip' = Here
    /\ UNCHANGED <<cidr, used>>

Exhausted ==
    /\ at = "walk"
    /\ Here > LastHost(cidr)
    /\ at' = "done"
    /\ UNCHANGED <<cidr, used, idx, ip>>

Next == Pass \/ Found \/ Exhausted

Spec == Init /\ [][Next]_vars

----------------------------------------------------------------------------
(* What a new peer gets.                                                    *)

\* The addresses a peer can have, by the size of the range: none of a /32, the second
\* of a /31, of a larger range all but the first two and the last.
ForPeers(c) ==
    Network(c) + (IF c.size > 2 THEN 2 ELSE 1)..Broadcast(c) - (IF c.size > 2 THEN 1 ELSE 0)

\* The answer is the least of them that is not in use, and there is none only when all
\* are in use, whatever the prefix and the host bits and whatever else is in use.
LeastFree ==
    at = "done" =>
        IF ForPeers(cidr) \subseteq used THEN ip = NoIp
        ELSE /\ ip \in ForPeers(cidr) \ used
             /\ \A i \in ForPeers(cidr) \ used : ip <= i
=============================================================================
