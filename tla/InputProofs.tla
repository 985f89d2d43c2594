---------------------------- MODULE InputProofs ----------------------------
(* The walk of allocate_next_ip answers the least free address, for every   *)
(* range, every prefix and every set of used addresses.  The page shows     *)
(* each peer by its own line, for every dump and whatever the clock says.   *)
EXTENDS AddressPool, PeerViews, FiniteSetTheorems, WellFoundedInduction,
        SequenceTheorems, TLAPS

----------------------------------------------------------------------------
(* The allocator.                                                           *)

\* The bounds of a range, and how its hosts and the addresses for peers lie in it.
LEMMA Bounds ==
    ASSUME NEW c \in Cidr
    PROVE  /\ c.size \in Nat \ {0}
           /\ Network(c) \in Int /\ Broadcast(c) \in Int
           /\ FirstHost(c) \in Int /\ LastHost(c) \in Int
           /\ Broadcast(c) = Network(c) + c.size - 1
           /\ Network(c) <= FirstHost(c) /\ LastHost(c) <= Broadcast(c)
           /\ LastHost(c) <= FirstHost(c) + c.size - 1
           /\ ForPeers(c) = FirstHost(c) + 1 .. LastHost(c)
<1>1. c.addr \in Int /\ c.size \in Nat \ {0}
  BY AddressAssumption, SizeAssumption DEF Cidr
<1>2. c.addr % c.size \in Int
  BY <1>1
<1>3. PICK n \in Int : n = Network(c)
  BY <1>1, <1>2 DEF Network
<1>4. Broadcast(c) = n + c.size - 1
  BY <1>3 DEF Broadcast
<1>5. CASE c.size > 2
  BY <1>1, <1>3, <1>4, <1>5 DEF FirstHost, LastHost, ForPeers
<1>6. CASE ~(c.size > 2)
  BY <1>1, <1>3, <1>4, <1>6 DEF FirstHost, LastHost, ForPeers
<1> QED
  BY <1>5, <1>6

\* While the walk goes on, every address for peers that it has passed is in use.
Passed ==
    at = "walk" => /\ ip = NoIp
                   /\ \A i \in ForPeers(cidr) : i < Here => i \in used

Inv == TypeOK /\ Passed /\ LeastFree

LEMMA InitInv == Init => Inv
<1> SUFFICES ASSUME Init PROVE Inv
  OBVIOUS
<1>1. cidr \in Cidr
  BY DEF Init
<1>2. cidr.size \in Nat /\ FirstHost(cidr) \in Int
  BY <1>1, Bounds
<1>3. TypeOK
  BY <1>2 DEF Init, TypeOK
<1>4. \A i \in ForPeers(cidr) : ~(i < Here)
  BY <1>1, <1>2, Bounds DEF Init, Here
<1> QED
  BY <1>3, <1>4 DEF Init, Inv, Passed, LeastFree

LEMMA NextInv == Inv /\ [Next]_vars => Inv'
<1> SUFFICES ASSUME Inv, [Next]_vars PROVE Inv'
  OBVIOUS
<1> DEFINE first == FirstHost(cidr)
           last == LastHost(cidr)
<1>1. cidr \in Cidr /\ idx \in Nat
  BY DEF Inv, TypeOK
<1>2. /\ first \in Int /\ last \in Int
      /\ Network(cidr) \in Int /\ Broadcast(cidr) \in Int
      /\ Network(cidr) <= first /\ last <= Broadcast(cidr)
      /\ cidr.size \in Nat /\ last <= first + cidr.size - 1
      /\ ForPeers(cidr) = first + 1 .. last
  BY <1>1, Bounds
<1>3. Here = first + idx /\ Here \in Int
  BY <1>1, <1>2 DEF Here
<1>4. CASE UNCHANGED vars
  BY <1>4 DEF vars, Inv, TypeOK, Passed, LeastFree, Here
<1>5. CASE Pass
  <2>1. UNCHANGED <<cidr, used, at, ip>> /\ idx' = idx + 1 /\ at = "walk"
    BY <1>5 DEF Pass
  <2>2. idx' \in 0..cidr.size
    BY <1>1, <1>2, <1>3, <1>5 DEF Pass
  <2>3. TypeOK'
    BY <2>1, <2>2 DEF Inv, TypeOK
  <2>4. Here' = Here + 1
    BY <1>1, <1>2, <1>3, <2>1 DEF Here
  <2>5. ASSUME NEW i \in ForPeers(cidr), i < Here + 1 PROVE i \in used
    <3>1. CASE i < Here
      BY <2>1, <3>1 DEF Inv, Passed
    <3>2. CASE i = Here
      BY <1>1, <1>2, <1>3, <1>5, <3>2 DEF Pass, LeftOut
    <3> QED
      BY <1>2, <1>3, <2>5, <3>1, <3>2
  <2>6. ip' = NoIp
    BY <2>1 DEF Inv, Passed
  <2> QED
    BY <2>1, <2>3, <2>4, <2>5, <2>6 DEF Inv, Passed, LeastFree
<1>6. CASE Found
  <2>1. /\ UNCHANGED <<cidr, used>> /\ idx' = idx + 1
        /\ at = "walk" /\ at' = "done" /\ ip' = Here
    BY <1>6 DEF Found
  <2>2. idx' \in 0..cidr.size
    BY <1>1, <1>2, <1>3, <1>6 DEF Found
  <2>3. Here \in ForPeers(cidr) \ used
    BY <1>1, <1>2, <1>3, <1>6 DEF Found, LeftOut
  <2>4. ip' \in Network(cidr)..Broadcast(cidr)
    BY <1>2, <2>1, <2>3
  <2>5. TypeOK'
    BY <2>1, <2>2, <2>4 DEF Inv, TypeOK
  <2>6. \A i \in ForPeers(cidr) \ used : ~(i < Here)
    BY <2>1 DEF Inv, Passed
  <2>7. \A i \in ForPeers(cidr) \ used : Here <= i
    BY <1>2, <1>3, <2>6
  <2>8. ~(ForPeers(cidr) \subseteq used)
    BY <2>3
  <2>9. LeastFree'
    BY <2>1, <2>3, <2>7, <2>8 DEF LeastFree
  <2> QED
    BY <2>1, <2>5, <2>9 DEF Inv, Passed
<1>7. CASE Exhausted
  <2>1. /\ UNCHANGED <<cidr, used, idx, ip>>
        /\ at = "walk" /\ at' = "done"
    BY <1>7 DEF Exhausted
  <2>2. \A i \in ForPeers(cidr) : i < Here
    BY <1>2, <1>3, <1>7 DEF Exhausted
  <2>3. ForPeers(cidr) \subseteq used /\ ip = NoIp
    BY <2>1, <2>2 DEF Inv, Passed
  <2> QED
    BY <2>1, <2>3 DEF Inv, TypeOK, Passed, LeastFree
<1> QED
  BY <1>4, <1>5, <1>6, <1>7 DEF Next

\* The walk stays within the range, whatever the range.
THEOREM WalkTypeCorrect == Spec => []TypeOK
<1>1. Inv => TypeOK
  BY DEF Inv
<1> QED
  BY <1>1, InitInv, NextInv, PTL DEF Spec

\* allocate_next_ip answers the least address for peers that is not in use, and none
\* only when there is none: for all ranges, prefixes, host bits and used addresses.
THEOREM WalkFindsLeastFree == Spec => []LeastFree
<1>1. Inv => LeastFree
  BY DEF Inv
<1> QED
  BY <1>1, InitInv, NextInv, PTL DEF Spec

----------------------------------------------------------------------------
(* The page.                                                                *)

\* A set of line numbers has a greatest one.
LEMMA MaxIs ==
    ASSUME NEW n \in Nat, NEW S \in SUBSET (1..n), S # {}
    PROVE  Max(S) \in S /\ \A j \in S : j <= Max(S)
<1> DEFINE above(i) == {j \in S : i < j}
           T == {above(i) : i \in S}
<1>1. IsFiniteSet(1..n)
  BY FS_Interval
<1>2. IsWellFoundedOn(StrictSubsetOrdering(1..n), FiniteSubsetsOf(1..n))
  BY FS_StrictSubsetOrderingWellFounded
<1>3. FiniteSubsetsOf(1..n) = SUBSET (1..n)
  BY <1>1, FS_FiniteSubsetsOfFinite
<1>4. T \subseteq SUBSET (1..n) /\ T # {}
  OBVIOUS
<1>5. PICK t \in T : \A u \in T : <<u, t>> \notin StrictSubsetOrdering(1..n)
  <2> HIDE DEF T
  <2> QED
    BY <1>2, <1>3, <1>4, WFMin
<1>6. PICK m \in S : t = above(m)
  BY <1>5
<1>7. ASSUME NEW j \in S PROVE j <= m
  <2>1. SUFFICES ASSUME m < j PROVE FALSE
    BY <1>6
  <2>2. m \in Int /\ \A k \in S : k \in Int
    OBVIOUS
  <2>3. \A k \in S : j < k => m < k
    BY <2>1, <2>2
  <2>4. above(j) \subseteq above(m)
    BY <2>3
  <2>5. j \in above(m)
    BY <2>1
  <2>6. j \notin above(j)
    BY <2>2
  <2>7. <<above(j), t>> \in StrictSubsetOrdering(1..n)
    BY <1>4, <1>6, <2>4, <2>5, <2>6 DEF StrictSubsetOrdering
  <2> QED
    BY <1>5, <2>7
<1> QED
  BY <1>6, <1>7 DEF Max

\* The sequence without its i-th element.
LEMMA WithoutOne ==
    ASSUME NEW d \in Seq(Line), NEW i \in 1..Len(d)
    PROVE  /\ RemoveAt(d, i) \in Seq(Line)
           /\ Len(RemoveAt(d, i)) = Len(d) - 1
           /\ \A j \in 1..Len(d) - 1 :
                 RemoveAt(d, i)[j] = IF j < i THEN d[j] ELSE d[j + 1]
<1> DEFINE a == SubSeq(d, 1, i - 1)
           b == SubSeq(d, i + 1, Len(d))
<1>1. /\ a \in Seq(Line) /\ Len(a) = i - 1
      /\ \A j \in 1..i - 1 : a[j] = d[j]
  <2>1. 1 \in Int /\ i - 1 \in Int /\ \A j \in 1..i - 1 : d[j] \in Line
    OBVIOUS
  <2>2. /\ a \in Seq(Line) /\ Len(a) = IF 1 <= i - 1 THEN i - 1 - 1 + 1 ELSE 0
        /\ \A j \in 1..i - 1 - 1 + 1 : a[j] = d[1 + j - 1]
    BY <2>1, SubSeqProperties
  <2> HIDE DEF a
  <2> QED
    BY <2>2
<1>2. /\ b \in Seq(Line) /\ Len(b) = Len(d) - i
      /\ \A j \in 1..Len(d) - i : b[j] = d[i + j]
  <2>1. i + 1 \in Int /\ Len(d) \in Int /\ \A j \in i + 1..Len(d) : d[j] \in Line
    OBVIOUS
  <2>2. /\ b \in Seq(Line) /\ Len(b) = IF i + 1 <= Len(d) THEN Len(d) - (i + 1) + 1 ELSE 0
        /\ \A j \in 1..Len(d) - (i + 1) + 1 : b[j] = d[i + 1 + j - 1]
    BY <2>1, SubSeqProperties
  <2> HIDE DEF b
  <2> QED
    BY <2>2
<1> HIDE DEF a, b
<1>3. /\ a \o b \in Seq(Line) /\ Len(a \o b) = Len(d) - 1
      /\ \A j \in 1..Len(d) - 1 : (a \o b)[j] = IF j < i THEN a[j] ELSE b[j - (i - 1)]
  <2>1. /\ a \o b \in Seq(Line) /\ Len(a \o b) = Len(a) + Len(b)
        /\ \A j \in 1..Len(a) + Len(b) :
             (a \o b)[j] = IF j <= Len(a) THEN a[j] ELSE b[j - Len(a)]
    BY <1>1, <1>2, ConcatProperties
  <2>2. Len(a) + Len(b) = Len(d) - 1 /\ \A j \in Int : j <= Len(a) <=> j < i
    BY <1>1, <1>2
  <2> QED
    BY <1>1, <2>1, <2>2
<1>4. ASSUME NEW j \in 1..Len(d) - 1
      PROVE  (a \o b)[j] = IF j < i THEN d[j] ELSE d[j + 1]
  <2>1. CASE j < i
    BY <1>1, <1>3, <2>1
  <2>2. CASE ~(j < i)
    <3>1. j - (i - 1) \in 1..Len(d) - i /\ i + (j - (i - 1)) = j + 1
      BY <2>2
    <3> QED
      BY <1>2, <1>3, <2>2, <3>1
  <2> QED
    BY <2>1, <2>2
<1> QED
  BY <1>3, <1>4 DEF RemoveAt, a, b

\* The lines of a dump that are about one peer.
Of(d, key) == {i \in PeerLines(d) : d[i].key = key}

LEMMA ByKeyIs ==
    ASSUME NEW d \in Seq(Line), NEW key
    PROVE  /\ Of(d, key) \subseteq 1..Len(d)
           /\ {i \in DOMAIN Parsed(d) : Parsed(d)[i].key = key} = Of(d, key)
BY DEF Of, Parsed, PeerLines

\* Without a line that is about another peer, what is read of a peer is the same.
LEMMA OthersLine ==
    ASSUME NEW d \in Seq(Line), NEW i \in 2..Len(d), NEW key, d[i].key # key
    PROVE  ByKey(Parsed(d), key) = ByKey(Parsed(RemoveAt(d, i)), key)
<1> DEFINE e == RemoveAt(d, i)
           from(j) == IF j < i THEN j ELSE j + 1
<1>1. /\ e \in Seq(Line) /\ Len(e) = Len(d) - 1 /\ Len(d) \in Nat /\ Len(e) \in Nat
      /\ \A j \in 1..Len(e) : e[j] = d[from(j)]
  <2>1. i \in 1..Len(d) /\ Len(d) \in Nat
    OBVIOUS
  <2>2. /\ e \in Seq(Line) /\ Len(e) = Len(d) - 1
        /\ \A j \in 1..Len(d) - 1 : e[j] = IF j < i THEN d[j] ELSE d[j + 1]
    <3> HIDE DEF from
    <3> QED
      BY <2>1, WithoutOne
  <2> QED
    BY <2>1, <2>2
<1> HIDE DEF e
<1>2. \A j \in 1..Len(e) : j \in Of(e, key) <=> from(j) \in Of(d, key)
  BY <1>1 DEF Of, PeerLines
<1>3. ASSUME NEW k \in Of(d, key)
      PROVE  \E j \in Of(e, key) : from(j) = k
  <2>1. k # i /\ k \in 2..Len(d)
    BY DEF Of, PeerLines
  <2>2. PICK j \in 1..Len(e) : from(j) = k
    <3>1. CASE k < i
      <4>1. k \in 1..Len(e) /\ from(k) = k
        BY <1>1, <2>1, <3>1
      <4> QED
        BY <4>1
    <3>2. CASE i < k
      <4>1. k - 1 \in 1..Len(e) /\ from(k - 1) = k
        BY <1>1, <2>1, <3>2
      <4> QED
        BY <4>1
    <3> QED
      BY <2>1, <3>1, <3>2
  <2> QED
    BY <1>2, <2>2
<1>4. /\ Of(d, key) \subseteq 1..Len(d) /\ Of(e, key) \subseteq 1..Len(e)
      /\ {j \in DOMAIN Parsed(d) : Parsed(d)[j].key = key} = Of(d, key)
      /\ {j \in DOMAIN Parsed(e) : Parsed(e)[j].key = key} = Of(e, key)
  BY <1>1, ByKeyIs
<1>5. CASE Of(d, key) = {}
  <2>1. Of(e, key) = {}
    BY <1>2, <1>4, <1>5
  <2> QED
    BY <1>4, <1>5, <2>1 DEF ByKey, e
<1>6. CASE Of(d, key) # {}
  <2>1. Of(e, key) # {}
    BY <1>3, <1>6
  <2> DEFINE m == Max(Of(d, key))
             n == Max(Of(e, key))
  <2>2. m \in Of(d, key) /\ \A k \in Of(d, key) : k <= m
    BY <1>1, <1>4, <1>6, MaxIs
  <2>3. n \in Of(e, key) /\ \A j \in Of(e, key) : j <= n
    BY <1>1, <1>4, <2>1, MaxIs
  <2> HIDE DEF m, n
  <2>4. PICK j \in Of(e, key) : from(j) = m
    BY <1>3, <2>2
  <2>5. from(n) \in Of(d, key)
    BY <1>2, <1>4, <2>3
  <2>6. m = from(n)
    BY <1>4, <2>2, <2>3, <2>4, <2>5
  <2>7. e[n] = d[m]
    BY <1>1, <1>4, <2>3, <2>6
  <2>8. m \in PeerLines(d) /\ n \in PeerLines(e)
    BY <2>2, <2>3 DEF Of
  <2>9. Parsed(d)[m] = Parsed(e)[n]
    BY <2>7, <2>8 DEF Parsed
  <2> QED
    BY <1>4, <1>6, <2>1, <2>9 DEF ByKey, e, m, n
<1> QED
  BY <1>5, <1>6

\* What is read of a peer.
LEMMA ByKeyType ==
    ASSUME NEW d \in Seq(Line), NEW key \in Key
    PROVE  ByKey(Parsed(d), key) \in Stat
<1>1. /\ Of(d, key) \subseteq 1..Len(d) /\ Len(d) \in Nat
      /\ {i \in DOMAIN Parsed(d) : Parsed(d)[i].key = key} = Of(d, key)
  BY ByKeyIs
<1>2. CASE Of(d, key) = {}
  BY <1>1, <1>2 DEF ByKey, Stat
<1>3. CASE Of(d, key) # {}
  <2> DEFINE m == Max(Of(d, key))
  <2>1. m \in Of(d, key)
    BY <1>1, <1>3, MaxIs
  <2> HIDE DEF m
  <2>2. m \in PeerLines(d) /\ d[m] \in Line
    BY <1>1, <2>1 DEF Of
  <2>3. Parsed(d)[m] \in Stat
    BY <2>2 DEF Parsed, Stat, Line, Column, Number
  <2> QED
    BY <1>1, <1>3, <2>3 DEF ByKey, m
<1> QED
  BY <1>2, <1>3

PageInv == dump \in Dump /\ now \in Time

LEMMA PageInvHolds == PageSpec => []PageInv
<1>1. PageInit => PageInv
  BY DEF PageInit, PageInv
<1>2. PageInv /\ [Poll]_pageVars => PageInv'
  BY DEF PageInv, Poll, pageVars
<1> QED
  BY <1>1, <1>2, PTL DEF PageSpec

\* A line that is short or unreadable costs no other peer anything: of parse_dump and
\* api_server_peer_stats, for every dump, however long, and every time.
THEOREM OthersAreUnharmed == PageSpec => []OthersUnharmed
<1>1. PageInv => OthersUnharmed
  <2> SUFFICES ASSUME PageInv, NEW i \in 2..Len(dump), NEW key \in Key \ {dump[i].key}
               PROVE  Shown(dump, key, now) = Shown(RemoveAt(dump, i), key, now)
    BY DEF OthersUnharmed
  <2>1. dump \in Seq(Line)
    BY DumpAssumption DEF PageInv
  <2>2. ByKey(Parsed(dump), key) = ByKey(Parsed(RemoveAt(dump, i)), key)
    BY <2>1, OthersLine
  <2> QED
    BY <2>2 DEF Shown
<1> QED
  BY <1>1, PageInvHolds, PTL

LEMMA WholeSeconds ==
    ASSUME NEW a \in Int, NEW b \in Int, NEW n \in Nat \ {0}
    PROVE  /\ a < b => a * n + n <= b * n
           /\ a >= b => a * n >= b * n
<1>1. a < b => (b - a - 1) * n >= 0 /\ (b - a - 1) * n = b * n - a * n - n
  OBVIOUS
<1>2. a >= b => (a - b) * n >= 0 /\ (a - b) * n = a * n - b * n
  OBVIOUS
<1>3. a * n \in Int /\ b * n \in Int
  OBVIOUS
<1> QED BY <1>1, <1>2, <1>3

\* connected says that the last handshake is recent, also when its stamp lies in the
\* future: of api_server_peer_stats, for every dump and every time.
THEOREM ConnectedIsRecent == PageSpec => []ConnectedIfRecent
<1>1. PageInv => ConnectedIfRecent
  <2> SUFFICES ASSUME PageInv, NEW key \in Key,
                      NEW f \in 0..Parts - 1, NEW g \in 0..Parts - 1
               PROVE  LET s == Shown(dump, key, now)
                          age == (now - s.shake) * Parts + f - g
                      IN  /\ s.connected => s.shake # 0 /\ age < Recent * Parts
                          /\ s.shake # 0 /\ age <= (Recent - 1) * Parts => s.connected
    BY DEF ConnectedIfRecent
  <2>1. now \in Nat /\ Recent \in Nat \ {0} /\ Parts \in Nat \ {0} /\ dump \in Seq(Line)
    BY DumpAssumption, TimeAssumption, RecentAssumption DEF PageInv
  <2>2. PICK s \in Stat : s = ByKey(Parsed(dump), key)
    BY <2>1, ByKeyType
  <2>3. s.shake \in Nat /\ now - s.shake \in Int
    BY <2>1 DEF Stat
  <2>4. Elapsed(now, s.shake) < Recent <=> now - s.shake < Recent
    BY <2>1, <2>3 DEF Elapsed
  <2>5. /\ Shown(dump, key, now).shake = s.shake
        /\ Shown(dump, key, now).connected <=> s.shake # 0 /\ now - s.shake < Recent
    BY <2>2, <2>4 DEF Shown
  <2>6. PICK d \in Int : d = now - s.shake
    BY <2>3
  <2> DEFINE age == d * Parts + f - g
  <2>7. /\ d * Parts \in Int /\ Recent * Parts \in Int /\ (Recent - 1) * Parts \in Int
        /\ age \in Int
    BY <2>1
  <2>8. d < Recent => d * Parts + Parts <= Recent * Parts
    BY <2>1, WholeSeconds
  <2>9. d >= Recent => d * Parts > (Recent - 1) * Parts + Parts - 1
    <3>1. d >= Recent => d * Parts >= Recent * Parts
      BY <2>1, WholeSeconds
    <3>2. (Recent - 1) * Parts + Parts <= Recent * Parts
      BY <2>1, WholeSeconds
    <3> QED BY <2>1, <2>7, <3>1, <3>2
  <2>10. d < Recent => age < Recent * Parts
    BY <2>1, <2>7, <2>8
  <2>11. d >= Recent => age > (Recent - 1) * Parts
    BY <2>1, <2>7, <2>9
  <2>12. d < Recent \/ d >= Recent
    BY <2>1
  <2> HIDE DEF age
  <2>13. /\ Shown(dump, key, now).connected => s.shake # 0 /\ age < Recent * Parts
         /\ s.shake # 0 /\ age <= (Recent - 1) * Parts => Shown(dump, key, now).connected
    BY <2>5, <2>6, <2>7, <2>10, <2>11, <2>12
  <2> QED BY <2>5, <2>6, <2>13 DEF age
<1> QED
  BY <1>1, PageInvHolds, PTL
=============================================================================
