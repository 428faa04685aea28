------------------------- MODULE RouteManagerProofs -------------------------
(***************************************************************************)
(* Proofs about RouteManager, for every set of gateways and addresses,     *)
(* every list the UPnP service may have and every failure.                 *)
(***************************************************************************)
EXTENDS RouteManager, SequenceTheorems, WellFoundedInduction, TLAPS

-----------------------------------------------------------------------------
(* Searching lists *)

\* A set of numbers that is not empty has a smallest one.
LEMMA MinOfNats ==
    ASSUME NEW T, T \subseteq Nat, T # {}
    PROVE  Min(T) \in T /\ \A y \in T : Min(T) <= y
<1>1. PICK x \in T : \A y \in T : ~(<<y, x>> \in OpToRel(<, Nat))
  BY NatLessThanWellFounded, WFMin
<1>2. \A y \in T : ~(y < x)
  BY <1>1 DEF OpToRel
<1>3. \E z \in T : \A y \in T : z <= y
  BY <1>2
<1> QED BY <1>3 DEF Min

\* The search for an address finds the first entry that has it, or nothing.
LEMMA FirstRoute ==
    ASSUME NEW list \in Seq(RouteInfos), NEW ip,
           NEW i, i = SelectInSeq(list, LAMBDA r : r.ip = ip)
    PROVE  /\ i \in 0..Len(list)
           /\ i = 0 => \A j \in 1..Len(list) : list[j].ip # ip
           /\ i # 0 => list[i].ip = ip /\ \A j \in 1..Len(list) : list[j].ip = ip => i <= j
<1> DEFINE I == {j \in 1..Len(list) : list[j].ip = ip}
<1>1. Len(list) \in Nat
  BY LenProperties
<1>2. i = IF I # {} THEN Min(I) ELSE 0
  BY DEF SelectInSeq
<1>3. I # {} => Min(I) \in I /\ \A j \in I : Min(I) <= j
  <2>1. I \subseteq Nat
    BY <1>1
  <2> QED BY <2>1, MinOfNats
<1>4. (i = 0 /\ I = {}) \/ (i \in I /\ \A j \in I : i <= j)
  <2> HIDE DEF I
  <2> QED BY <1>2, <1>3
<1>5. i \in 0..Len(list)
  <2>1. CASE i = 0
    BY <1>1, <2>1
  <2>2. CASE i \in I
    <3>1. i \in 1..Len(list)
      BY <2>2
    <3> QED BY <1>1, <3>1
  <2> QED BY <1>4, <2>1, <2>2
<1>6. i = 0 => \A j \in 1..Len(list) : list[j].ip # ip
  BY <1>1, <1>4
<1>7. i # 0 => list[i].ip = ip
  BY <1>4
<1>8. i # 0 => \A j \in 1..Len(list) : list[j].ip = ip => i <= j
  BY <1>4
<1> QED BY <1>5, <1>6, <1>7, <1>8

\* Likewise for the search for a gateway with an address (g_list_find_gw).
LEMMA FirstGateway ==
    ASSUME NEW list \in Seq(Gateways), NEW ip,
           NEW i, i = SelectInSeq(list, LAMBDA g : ip \in {g.ip4, g.ip6})
    PROVE  /\ i \in 0..Len(list)
           /\ i = 0 => \A j \in 1..Len(list) : ip \notin {list[j].ip4, list[j].ip6}
           /\ i # 0 => ip \in {list[i].ip4, list[i].ip6}
<1> DEFINE I == {j \in 1..Len(list) : ip \in {list[j].ip4, list[j].ip6}}
<1>1. Len(list) \in Nat
  BY LenProperties
<1>2. i = IF I # {} THEN Min(I) ELSE 0
  BY DEF SelectInSeq
<1>3. I # {} => Min(I) \in I
  <2>1. I \subseteq Nat
    BY <1>1
  <2> QED BY <2>1, MinOfNats
<1> QED BY <1>1, <1>2, <1>3

\* Removing an entry closes the gap and keeps the order.
LEMMA RemoveAtProperties ==
    ASSUME NEW S, NEW s \in Seq(S), NEW i \in 1..Len(s)
    PROVE  /\ RemoveAt(s, i) \in Seq(S)
           /\ Len(RemoveAt(s, i)) = Len(s) - 1
           /\ \A j \in 1..(Len(s) - 1) : RemoveAt(s, i)[j] = IF j < i THEN s[j] ELSE s[j + 1]
<1>1. Len(s) \in Nat /\ i \in Nat /\ \A j \in 1..Len(s) : s[j] \in S
  BY LenProperties, ElementOfSeq
<1> DEFINE a == SubSeq(s, 1, i - 1)
           b == SubSeq(s, i + 1, Len(s))
<1>2. /\ a \in Seq(S) /\ Len(a) = i - 1
      /\ \A j \in 1..(i - 1) : a[j] = s[j]
  <2>1. i - 1 \in Int /\ \A j \in 1..(i - 1) : s[j] \in S
    BY <1>1
  <2>2. /\ a \in Seq(S) /\ Len(a) = (IF 1 <= i - 1 THEN (i - 1) - 1 + 1 ELSE 0)
        /\ \A j \in 1..((i - 1) - 1 + 1) : a[j] = s[1 + j - 1]
    BY <2>1, SubSeqProperties
  <2> QED BY <1>1, <2>2
<1>3. /\ b \in Seq(S) /\ Len(b) = Len(s) - i
      /\ \A j \in 1..(Len(s) - i) : b[j] = s[i + j]
  <2>1. i + 1 \in Int /\ \A j \in (i + 1)..Len(s) : s[j] \in S
    BY <1>1
  <2>2. /\ b \in Seq(S) /\ Len(b) = (IF i + 1 <= Len(s) THEN Len(s) - (i + 1) + 1 ELSE 0)
        /\ \A j \in 1..(Len(s) - (i + 1) + 1) : b[j] = s[(i + 1) + j - 1]
    BY <1>1, <2>1, SubSeqProperties
  <2> QED BY <1>1, <2>2
<1> HIDE DEF a, b
<1>4. /\ a \o b \in Seq(S) /\ Len(a \o b) = Len(a) + Len(b)
      /\ \A j \in 1..(Len(a) + Len(b)) :
            (a \o b)[j] = IF j <= Len(a) THEN a[j] ELSE b[j - Len(a)]
  BY <1>2, <1>3, ConcatProperties
<1>5. RemoveAt(s, i) = a \o b
  BY DEF RemoveAt, a, b
<1>6. ASSUME NEW j \in 1..(Len(s) - 1)
      PROVE  (a \o b)[j] = IF j < i THEN s[j] ELSE s[j + 1]
  <2>1. j \in 1..(Len(a) + Len(b))
    BY <1>1, <1>2, <1>3
  <2>2. CASE j < i
    BY <1>1, <1>2, <1>4, <2>1, <2>2
  <2>3. CASE ~(j < i)
    <3>1. j - Len(a) \in 1..(Len(s) - i) /\ j - Len(a) = j - i + 1
      BY <1>1, <1>2, <2>3
    <3>2. (a \o b)[j] = b[j - i + 1]
      BY <1>1, <1>2, <1>4, <2>1, <2>3, <3>1
    <3>3. b[j - i + 1] = s[i + (j - i + 1)]
      BY <1>3, <3>1
    <3>4. i + (j - i + 1) = j + 1
      BY <1>1
    <3> QED BY <2>3, <3>2, <3>3, <3>4
  <2> QED BY <2>2, <2>3
<1>7. Len(a) + Len(b) = Len(s) - 1
  BY <1>1, <1>2, <1>3
<1> QED BY <1>4, <1>5, <1>6, <1>7

-----------------------------------------------------------------------------
(* The list of routes *)

\* TrackedRoutesInstalled of any list of routes, any table and any set of addresses excepted.
Tracked(routes, table, two) ==
    /\ \A i \in DOMAIN routes : routes[i].ip \in table \cup two
    /\ \A i, j \in DOMAIN routes : routes[i].ip = routes[j].ip => i = j \/ routes[i].ip \in two

\* An entry's family is the one of its address.
FamilyKnown(route) == route.ip \in (IF route.v4 THEN V4s ELSE V6s)

\* A table that has lost at most one address.
LosesAtMost(ip, table, left) == \A x \in table : x = ip \/ x \in left

\* What is left of a list of routes, and of a table, when the route of entry i is removed.
\* Another entry than i goes only when its address is excepted.
Removed(rest, left, routes, two, i) ==
    /\ rest \in Seq(RouteInfos) /\ Len(rest) = Len(routes) - 1
    /\ Tracked(rest, left, two)
    /\ \A j \in DOMAIN rest : \E m \in DOMAIN routes : rest[j] = routes[m]
    /\ \A j \in DOMAIN rest : j < i =>
          rest[j].ip \in two \/ \E m \in DOMAIN routes : m < i /\ rest[j] = routes[m]

\* The list without the first entry of entry i's address tracks what is left when the route of
\* that address is deleted.
LEMMA Removal ==
    ASSUME NEW routes \in Seq(RouteInfos), NEW table, NEW two, Tracked(routes, table, two),
           NEW i \in 1..Len(routes), NEW k \in 1..Len(routes), k <= i, routes[k].ip = routes[i].ip,
           NEW left, LosesAtMost(routes[i].ip, table, left),
           NEW rest, rest = RemoveAt(routes, k)
    PROVE  Removed(rest, left, routes, two, i)
<1>1. /\ rest \in Seq(RouteInfos) /\ Len(rest) = Len(routes) - 1
      /\ \A j \in 1..(Len(routes) - 1) : rest[j] = IF j < k THEN routes[j] ELSE routes[j + 1]
  BY RemoveAtProperties
<1>2. /\ Len(routes) \in Nat /\ DOMAIN routes = 1..Len(routes)
      /\ DOMAIN rest = 1..(Len(routes) - 1)
  BY <1>1, LenProperties
<1> DEFINE From(j) == IF j < k THEN j ELSE j + 1
<1>3. \A j \in DOMAIN rest : From(j) \in DOMAIN routes /\ From(j) # k /\ rest[j] = routes[From(j)]
  BY <1>1, <1>2
<1>4. \A j, m \in DOMAIN rest : From(j) = From(m) => j = m
  BY <1>2
<1>5. \A j \in DOMAIN rest : j < i => From(j) < i \/ (From(j) = i /\ k # i)
  BY <1>2
<1> HIDE DEF From
<1>6. ASSUME NEW j \in DOMAIN rest PROVE rest[j].ip \in left \cup two
  <2>1. CASE rest[j].ip = routes[i].ip
    BY <1>2, <1>3, <2>1 DEF Tracked
  <2>2. CASE rest[j].ip # routes[i].ip
    BY <1>3, <2>2 DEF Tracked, LosesAtMost
  <2> QED BY <2>1, <2>2
<1>7. \A j, m \in DOMAIN rest : rest[j].ip = rest[m].ip => j = m \/ rest[j].ip \in two
  BY <1>3, <1>4 DEF Tracked
<1>8. ASSUME NEW j \in DOMAIN rest, j < i
      PROVE  rest[j].ip \in two \/ \E m \in DOMAIN routes : m < i /\ rest[j] = routes[m]
  <2>1. CASE From(j) < i
    BY <1>3, <2>1
  <2>2. CASE From(j) = i /\ k # i
    <3>1. routes[i].ip \in two
      BY <1>2, <2>2 DEF Tracked
    <3> QED BY <1>3, <2>2, <3>1
  <2> QED BY <1>5, <1>8, <2>1, <2>2
<1>9. Tracked(rest, left, two)
  BY <1>6, <1>7 DEF Tracked
<1> QED BY <1>1, <1>3, <1>8, <1>9 DEF Removed

\* A new address, or an excepted one, at the head of the list.
LEMMA Addition ==
    ASSUME NEW routes \in Seq(RouteInfos), NEW table, NEW two, Tracked(routes, table, two),
           NEW route \in RouteInfos, route.ip \in table,
           route.ip \in two \/ \A m \in DOMAIN routes : routes[m].ip # route.ip
    PROVE  LET list == <<route>> \o routes
           IN  /\ list \in Seq(RouteInfos)
               /\ Tracked(list, table, two)
               /\ \A j \in DOMAIN list : list[j] = route \/ \E m \in DOMAIN routes : list[j] = routes[m]
<1> DEFINE list == <<route>> \o routes
<1>1. <<route>> \in Seq(RouteInfos) /\ Len(<<route>>) = 1 /\ <<route>>[1] = route
  OBVIOUS
<1>2. Len(routes) \in Nat /\ DOMAIN routes = 1..Len(routes)
  BY LenProperties
<1>3. /\ list \in Seq(RouteInfos) /\ Len(list) = 1 + Len(routes)
      /\ \A j \in 1..(1 + Len(routes)) : list[j] = IF j <= 1 THEN <<route>>[j] ELSE routes[j - 1]
  BY <1>1, ConcatProperties
<1>4. DOMAIN list = 1..(1 + Len(routes))
  BY <1>3, LenProperties
<1>5. \A j \in DOMAIN list :
         (j = 1 /\ list[j] = route) \/ (j # 1 /\ j - 1 \in DOMAIN routes /\ list[j] = routes[j - 1])
  BY <1>1, <1>2, <1>3, <1>4
<1> HIDE DEF list
<1>6. \A j \in DOMAIN list : list[j].ip \in table \cup two
  BY <1>5 DEF Tracked
<1>7. ASSUME NEW j \in DOMAIN list, NEW m \in DOMAIN list, list[j].ip = list[m].ip
      PROVE  j = m \/ list[j].ip \in two
  <2>1. CASE j = 1 \/ m = 1
    BY <1>5, <1>7, <2>1
  <2>2. CASE j # 1 /\ m # 1
    <3>1. j - 1 = m - 1 \/ list[j].ip \in two
      BY <1>5, <1>7, <2>2 DEF Tracked
    <3> QED BY <1>2, <1>4, <3>1
  <2> QED BY <2>1, <2>2
<1>8. Tracked(list, table, two)
  BY <1>6, <1>7 DEF Tracked
<1> QED BY <1>3, <1>5, <1>8 DEF list

-----------------------------------------------------------------------------
(* Routes and gateways *)

\* StillValid for any list of gateways.
ValidIn(list, route) ==
    LET i == SelectInSeq(list, LAMBDA g : route.ip \in {g.ip4, g.ip6})
    IN  i # 0 /\ (route.v4 \/ list[i].prefix = route.prefix)

LEMMA StillValidIn == ASSUME NEW route PROVE StillValid(route) <=> ValidIn(gwList, route)
BY DEF StillValid, ValidIn

\* The addresses of a gateway have their families, which do not meet.
LEMMA GatewayAddresses ==
    ASSUME NEW g \in Gateways
    PROVE  /\ g.ip4 \in V4s /\ g.ip6 \in V6s /\ V4s \cap V6s = {}
           /\ RouteOf(g) \in RouteInfos /\ FamilyKnown(RouteOf(g))
<1>1. g.ip4 \in V4s /\ g.ip6 \in V6s
  BY DEF V4s, V6s
<1>2. V4s \cap V6s = {}
  BY RouteAssumption DEF V4s, V6s
<1> QED BY <1>1, <1>2 DEF RouteOf, RouteInfos, FamilyKnown

\* What a route that is valid in a list has in common with a gateway of its address, when the
\* list has that address with one prefix.
LEMMA ValidPrefix ==
    ASSUME NEW list \in Seq(Gateways), NEW route, NEW k \in 1..Len(list),
           route.ip = list[k].ip6, ~route.v4, route.ip \notin TwoPrefixes(list)
    PROVE  ValidIn(list, route) <=> route.prefix = list[k].prefix
<1> DEFINE i == SelectInSeq(list, LAMBDA g : route.ip \in {g.ip4, g.ip6})
<1>1. ValidIn(list, route) <=> i # 0 /\ (route.v4 \/ list[i].prefix = route.prefix)
  BY DEF ValidIn
<1>2. /\ i \in 0..Len(list)
      /\ i = 0 => \A j \in 1..Len(list) : route.ip \notin {list[j].ip4, list[j].ip6}
      /\ i # 0 => route.ip \in {list[i].ip4, list[i].ip6}
  BY FirstGateway
<1> HIDE DEF i
<1>3. Len(list) \in Nat /\ DOMAIN list = 1..Len(list) /\ \A j \in 1..Len(list) : list[j] \in Gateways
  BY LenProperties, ElementOfSeq
<1>4. i \in 1..Len(list)
  BY <1>2, <1>3
<1>5. list[i].ip6 = route.ip /\ route.ip \in V6s
  BY <1>2, <1>3, <1>4, GatewayAddresses
<1>6. list[i].prefix = list[k].prefix
  BY <1>3, <1>4, <1>5 DEF TwoPrefixes
<1> QED BY <1>1, <1>4, <1>6

\* A route that is valid in the list of gateways is listed there.
LEMMA ValidIsListed ==
    ASSUME gwList \in Seq(Gateways), NEW route, ValidIn(gwList, route) PROVE Listed(route)
<1> DEFINE i == SelectInSeq(gwList, LAMBDA g : route.ip \in {g.ip4, g.ip6})
<1>1. i # 0 /\ (route.v4 \/ gwList[i].prefix = route.prefix)
  BY DEF ValidIn
<1>2. /\ i \in 0..Len(gwList)
      /\ i = 0 => \A j \in 1..Len(gwList) : route.ip \notin {gwList[j].ip4, gwList[j].ip6}
      /\ i # 0 => route.ip \in {gwList[i].ip4, gwList[i].ip6}
  BY FirstGateway
<1> HIDE DEF i
<1>3. i \in DOMAIN gwList
  BY <1>1, <1>2, LenProperties
<1> QED BY <1>1, <1>2, <1>3 DEF Listed

\* The route of a gateway in the list is valid, unless the list has two prefixes for it.
LEMMA OwnRouteValid ==
    ASSUME NEW list \in Seq(Gateways), NEW k \in 1..Len(list)
    PROVE  ValidIn(list, RouteOf(list[k])) \/ RouteOf(list[k]).ip \in TwoPrefixes(list)
<1> DEFINE route == RouteOf(list[k])
<1>1. CASE list[k].prefix = NoPrefix
  <2>1. route.ip = list[k].ip4 /\ route.v4
    BY <1>1 DEF RouteOf
  <2> HIDE DEF route
  <2> DEFINE i == SelectInSeq(list, LAMBDA g : route.ip \in {g.ip4, g.ip6})
  <2>2. ValidIn(list, route) <=> i # 0 /\ (route.v4 \/ list[i].prefix = route.prefix)
    BY DEF ValidIn
  <2>3. i = 0 => \A j \in 1..Len(list) : route.ip \notin {list[j].ip4, list[j].ip6}
    BY FirstGateway
  <2> HIDE DEF i
  <2> QED BY <2>1, <2>2, <2>3 DEF route
<1>2. CASE list[k].prefix # NoPrefix
  <2>1. route.ip = list[k].ip6 /\ ~route.v4 /\ route.prefix = list[k].prefix
    BY <1>2 DEF RouteOf
  <2> HIDE DEF route
  <2> QED BY <2>1, ValidPrefix DEF route
<1> QED BY <1>1, <1>2

-----------------------------------------------------------------------------
(* The invariant *)

\* What the thread relies on between its steps.  The loop over the routes has found the
\* entries before its position valid; once it is done all entries are, until the next fetch
\* changes the list of gateways.  That is what keeps an address from being tracked twice: an
\* entry is added only for an address that is not tracked, or for another prefix than the
\* tracked one, which validation has removed by then unless the list has both.
RoutesInv ==
    /\ Tracked(gwRouteInfo, kernel \cup swept, twins)
    /\ \A i \in DOMAIN gwRouteInfo : FamilyKnown(gwRouteInfo[i])

Fine(route) == ValidIn(gwList, route) \/ route.ip \in twins

LoopInv ==
    /\ element >= 1
    /\ pc = "parse" => element = 1
    /\ pc \in {"validate", "validateLast"} =>
            \A i \in DOMAIN gwRouteInfo : i < element => Fine(gwRouteInfo[i])
    /\ pc = "del" /\ gwRouteInfo # <<>> => element \in DOMAIN gwRouteInfo
    /\ pc \in {"set", "tail", "wait"} => \A i \in DOMAIN gwRouteInfo : Fine(gwRouteInfo[i])

GatewaysInv == pc \in {"validate", "set"} => TwoPrefixes(gwList) \subseteq twins

\* Unless a preferred gateway is selected, IPv6 routes and tracked routes are there only while
\* a gateway is selected, so that neither sweep takes a tracked route away; and a loss is noted
\* together with the renewal.
SweepInv ==
    /\ ~xb3Selected /\ ~gwSelected => gwRouteInfo = <<>> /\ kernel \cap V6s = {}
    /\ renewals = IF upnpGwyLost THEN 1 ELSE 0
    /\ (pc = "wait" /\ gwRouteInfo = <<>> /\ ~leased /\ ~xb3Selected) => ~gwSelected /\ upnpGwyLost

IInv == TypeOK /\ RoutesInv /\ GatewaysInv /\ LoopInv /\ SweepInv

LEMMA InitInv == Init => IInv
<1> SUFFICES ASSUME Init PROVE IInv
  OBVIOUS
<1> USE DEF Init
<1>1. /\ gwFullData \in Seq(Gateways) /\ gwList \in Seq(Gateways) /\ gwRouteInfo \in Seq(RouteInfos)
      /\ DOMAIN gwRouteInfo = {}
  BY EmptySeq
<1>2. /\ upnp \in Replies /\ messageLength \in Replies /\ msgLength \in Replies /\ seen \in Replies
  BY ReplyAssumption
<1>3. changes \in 0..MaxChanges /\ element \in Nat /\ oldLength \in Nat /\ renewals \in Nat
  BY RouteAssumption
<1>4. xb3Selected \in BOOLEAN
  BY RouteAssumption
<1>5. told \in [ip : V4s \cup V6s \cup {NoIp}, v4 : BOOLEAN]
  OBVIOUS
<1>6. TypeOK
  BY <1>1, <1>2, <1>3, <1>4, <1>5 DEF TypeOK
<1>7. RoutesInv /\ GatewaysInv /\ LoopInv /\ SweepInv
  BY <1>1 DEF RoutesInv, Tracked, GatewaysInv, LoopInv, SweepInv
<1> QED BY <1>6, <1>7 DEF IInv

\* The UPnP service and its event touch nothing of the thread.
LEMMA BusStepInv ==
    ASSUME IInv, _evtHandler \/ \E reply \in Replies : UpnpChanges(reply) PROVE IInv'
<1>1. TypeOK'
  <2>0. MaxChanges \in Nat
    BY RouteAssumption
  <2>1. CASE _evtHandler
    <3>1. /\ upnp' \in Replies /\ messageLength' \in Replies /\ notice' \in BOOLEAN
          /\ signalUpnpDataReady' \in BOOLEAN /\ changes' \in 0..MaxChanges
      BY <2>1 DEF _evtHandler, IInv, TypeOK
    <3>2. UNCHANGED <<loopVars, routeVars, gwVars>>
      BY <2>1 DEF _evtHandler
    <3> QED BY <3>1, <3>2 DEF IInv, TypeOK, loopVars, routeVars, gwVars
  <2>2. ASSUME NEW reply \in Replies, UpnpChanges(reply) PROVE TypeOK'
    BY <2>0, <2>2 DEF UpnpChanges, IInv, TypeOK, loopVars, routeVars, gwVars
  <2> QED BY <2>1, <2>2
<1>2. UNCHANGED <<loopVars, routeVars, gwVars>>
  BY DEF _evtHandler, UpnpChanges
<1> QED BY <1>1, <1>2 DEF IInv, RoutesInv, GatewaysInv, LoopInv, Fine, SweepInv, loopVars, routeVars, gwVars

\* A route the WiFi manager clears is excepted from then on.
LEMMA WifiClearsInv == ASSUME IInv, WifiClears PROVE IInv'
<1>1. /\ kernel' = kernel \ V6s /\ swept' = swept \cup (TrackedIps \cap V6s)
      /\ UNCHANGED <<busVars, loopVars, gwRouteInfo, lastRouteSetV4, told, twins, gwVars>>
  BY DEF WifiClears
<1>2. TypeOK'
  BY <1>1 DEF IInv, TypeOK, busVars, loopVars, gwVars
<1>3. RoutesInv'
  <2>1. \A i \in DOMAIN gwRouteInfo : gwRouteInfo[i].ip \in kernel' \cup swept' \cup twins
    BY <1>1 DEF IInv, RoutesInv, Tracked, TrackedIps
  <2> QED BY <1>1, <2>1 DEF IInv, RoutesInv, Tracked
<1>4. SweepInv'
  BY <1>1 DEF IInv, SweepInv, loopVars, gwVars
<1> QED BY <1>1, <1>2, <1>3, <1>4 DEF IInv, GatewaysInv, LoopInv, Fine, loopVars

\* Waiting and fetching.
LEMMA TakeUpdateInv == ASSUME IInv, TakeUpdate PROVE IInv'
<1>1. /\ pc' = "fetch" /\ signalUpnpDataReady' = FALSE /\ msgLength' = messageLength
      /\ UNCHANGED <<upnp, notice, changes, messageLength, seen, missed, element, oldLength, retVal,
                     gwFullData, gwList, routeVars, gwVars>>
  BY DEF TakeUpdate
<1>2. TypeOK'
  BY <1>1 DEF IInv, TypeOK, routeVars, gwVars
<1> QED BY <1>1, <1>2 DEF IInv, RoutesInv, GatewaysInv, LoopInv, SweepInv, routeVars, gwVars

\* An answer is what the service has, or no JSON.
LEMMA AnswersAreReplies == TypeOK => Answers \subseteq Replies
BY ReplyAssumption DEF TypeOK, Answers

LEMMA FetchInv == ASSUME IInv, Fetch PROVE IInv'
<1>0. gwRouteInfo \in Seq(RouteInfos) /\ gwList \in Seq(Gateways) /\ gwFullData \in Seq(Gateways)
  BY DEF IInv, TypeOK
<1>1. /\ Len(gwRouteInfo) \in Nat /\ DOMAIN gwRouteInfo = 1..Len(gwRouteInfo)
      /\ gwRouteInfo # <<>> => Len(gwRouteInfo) \in Nat \ {0}
  BY <1>0, LenProperties, EmptySeq
<1>2. /\ pc' \in {"validateLast", "del", "parse"} /\ element' = 1 /\ oldLength' \in Nat
      /\ UNCHANGED <<busVars, msgLength, retVal, routeVars, gwVars>>
  BY <1>1 DEF Fetch
<1>3. /\ gwList' \in Seq(Gateways) /\ gwFullData' \in Seq(Gateways)
      /\ seen' \in Replies /\ missed' \in BOOLEAN
  <2>0. <<>> \in Seq(Gateways)
    BY EmptySeq
  <2>1. CASE missed' = TRUE /\ UNCHANGED <<seen, gwList, gwFullData>>
    BY <1>0, <2>1 DEF IInv, TypeOK
  <2>2. ASSUME NEW reply \in Answers, seen' = reply, missed' = FALSE, gwList' = <<>>,
               IF reply \in {NoJson, NoList} THEN UNCHANGED gwFullData ELSE gwFullData' = reply
        PROVE  /\ gwList' \in Seq(Gateways) /\ gwFullData' \in Seq(Gateways)
               /\ seen' \in Replies /\ missed' \in BOOLEAN
    <3>1. reply \in Replies
      BY <2>2, AnswersAreReplies DEF IInv
    <3>2. reply \in {NoJson, NoList} \/ reply \in Seq(Gateways)
      BY <3>1, RouteAssumption
    <3> QED BY <1>0, <2>0, <2>2, <3>1, <3>2
  <2> QED BY <2>1, <2>2 DEF Fetch
<1>4. TypeOK'
  BY <1>2, <1>3 DEF IInv, TypeOK, busVars, routeVars, gwVars
<1>5. LoopInv'
  BY <1>1, <1>2 DEF LoopInv, routeVars
<1> QED BY <1>2, <1>4, <1>5 DEF IInv, RoutesInv, GatewaysInv, SweepInv, routeVars, gwVars

\* The loop that keeps the valid gateways.
LEMMA ParseEntryInv == ASSUME IInv, ParseEntry PROVE IInv'
<1> DEFINE h == Head(gwFullData)
<1>1. gwList \in Seq(Gateways) /\ gwFullData \in Seq(Gateways) /\ gwFullData # <<>>
  BY DEF IInv, TypeOK, ParseEntry
<1>2. h \in Gateways /\ Tail(gwFullData) \in Seq(Gateways)
  BY <1>1, HeadTailProperties
<1>3. Append(gwList, h) \in Seq(Gateways)
  BY <1>1, <1>2
<1>4. /\ gwList' = (IF h.valid THEN Append(gwList, h) ELSE gwList) /\ gwFullData' = Tail(gwFullData)
      /\ UNCHANGED <<busVars, pc, msgLength, seen, missed, element, oldLength, retVal, routeVars, gwVars>>
      /\ pc = "parse"
  BY DEF ParseEntry
<1> HIDE DEF h
<1>5. gwList' \in Seq(Gateways) /\ gwFullData' \in Seq(Gateways)
  BY <1>1, <1>2, <1>3, <1>4
<1>6. TypeOK'
  BY <1>4, <1>5 DEF IInv, TypeOK, busVars, routeVars, gwVars
<1>7. LoopInv'
  BY <1>4 DEF IInv, LoopInv, routeVars
<1> QED BY <1>4, <1>6, <1>7 DEF IInv, RoutesInv, GatewaysInv, SweepInv, routeVars, gwVars

\* The addresses the new list has twice join those that are tracked.
LEMMA ParseDoneInv == ASSUME IInv, ParseDone PROVE IInv'
<1>1. /\ gwRouteInfo \in Seq(RouteInfos) /\ element = 1 /\ pc' \in {"del", "validate"}
      /\ twins' = (twins \cap TrackedIps) \cup TwoPrefixes(gwList)
      /\ UNCHANGED <<busVars, msgLength, seen, missed, element, oldLength, retVal, gwFullData, gwList,
                     gwRouteInfo, kernel, lastRouteSetV4, told, swept, gwVars>>
  BY DEF IInv, TypeOK, LoopInv, ParseDone
<1>2. /\ DOMAIN gwRouteInfo = 1..Len(gwRouteInfo) /\ Len(gwRouteInfo) \in Nat
      /\ gwRouteInfo # <<>> => Len(gwRouteInfo) \in Nat \ {0}
  BY <1>1, LenProperties, EmptySeq
<1>3. LoopInv'
  BY <1>1, <1>2 DEF LoopInv
<1>4. twins' \in SUBSET V6s
  BY <1>1 DEF IInv, TypeOK, TwoPrefixes
<1>5. TypeOK'
  BY <1>1, <1>4 DEF IInv, TypeOK, busVars, gwVars
<1>6. RoutesInv'
  <2>1. \A i \in DOMAIN gwRouteInfo : gwRouteInfo[i].ip \in twins => gwRouteInfo[i].ip \in twins'
    BY <1>1 DEF TrackedIps
  <2> QED BY <1>1, <2>1 DEF IInv, RoutesInv, Tracked
<1>7. GatewaysInv'
  BY <1>1 DEF GatewaysInv, TwoPrefixes
<1>8. SweepInv'
  BY <1>1 DEF IInv, SweepInv, gwVars
<1> QED BY <1>3, <1>5, <1>6, <1>7, <1>8 DEF IInv

\* Deleting a route and telling the others which one is left.
LEMMA RemoveType ==
    ASSUME TypeOK, NEW i, checkRemoveRouteInfo(i)
    PROVE  /\ kernel' = kernel \/ kernel' = kernel \ {gwRouteInfo[i].ip}
           /\ kernel' \in SUBSET (V4s \cup V6s)
           /\ told' \in [ip : V4s \cup V6s \cup {NoIp}, v4 : BOOLEAN]
           /\ lastRouteSetV4' \in BOOLEAN
           /\ UNCHANGED <<twins, swept>>
<1>1. kernel' = kernel \/ kernel' = kernel \ {gwRouteInfo[i].ip}
  BY DEF checkRemoveRouteInfo
<1>2. kernel \in SUBSET (V4s \cup V6s) /\ lastRouteSetV4 \in BOOLEAN
  BY DEF TypeOK
<1>3. told' \in CurrentRoute(kernel', lastRouteSetV4) /\ UNCHANGED <<lastRouteSetV4, twins, swept>>
  BY DEF checkRemoveRouteInfo
<1>4. told' \in [ip : V4s \cup V6s \cup {NoIp}, v4 : BOOLEAN]
  BY <1>2, <1>3 DEF CurrentRoute
<1> QED BY <1>1, <1>2, <1>3, <1>4

\* Removing entry i from the list of routes and from the kernel's (or failing at the latter).
LEMMA RemoveStep ==
    ASSUME IInv, NEW i \in DOMAIN gwRouteInfo, checkRemoveRouteInfo(i)
    PROVE  LET rest == RemoveRouteFromList(i)
           IN  /\ rest \in Seq(RouteInfos) /\ Len(rest) = Len(gwRouteInfo) - 1
               /\ DOMAIN rest = 1..Len(rest)
               /\ Tracked(rest, kernel' \cup swept', twins')
               /\ \A j \in DOMAIN rest : FamilyKnown(rest[j])
               /\ \A j \in DOMAIN rest : j < i =>
                    rest[j].ip \in twins \/ \E m \in DOMAIN gwRouteInfo : m < i /\ rest[j] = gwRouteInfo[m]
<1>1. /\ gwRouteInfo \in Seq(RouteInfos) /\ Tracked(gwRouteInfo, kernel \cup swept, twins)
      /\ \A j \in DOMAIN gwRouteInfo : FamilyKnown(gwRouteInfo[j])
  BY DEF IInv, TypeOK, RoutesInv
<1>2. i \in 1..Len(gwRouteInfo) /\ Len(gwRouteInfo) \in Nat /\ DOMAIN gwRouteInfo = 1..Len(gwRouteInfo)
  BY <1>1, LenProperties
<1>3. /\ kernel' = kernel \/ kernel' = kernel \ {gwRouteInfo[i].ip}
      /\ UNCHANGED <<twins, swept>>
  BY RemoveType DEF IInv
<1> DEFINE rest == RemoveRouteFromList(i)
           k == SelectInSeq(gwRouteInfo, LAMBDA r : r.ip = gwRouteInfo[i].ip)
<1>4. rest = RemoveAt(gwRouteInfo, k)
  BY DEF RemoveRouteFromList, RemoveFirstMatch
<1>5. k \in 1..Len(gwRouteInfo) /\ k <= i /\ gwRouteInfo[k].ip = gwRouteInfo[i].ip
  <2>1. /\ k \in 0..Len(gwRouteInfo)
        /\ k = 0 => \A j \in 1..Len(gwRouteInfo) : gwRouteInfo[j].ip # gwRouteInfo[i].ip
        /\ k # 0 => /\ gwRouteInfo[k].ip = gwRouteInfo[i].ip
                    /\ \A j \in 1..Len(gwRouteInfo) : gwRouteInfo[j].ip = gwRouteInfo[i].ip => k <= j
    BY <1>1, FirstRoute
  <2> HIDE DEF k
  <2> QED BY <1>2, <2>1
<1> DEFINE routes == gwRouteInfo
           left == kernel' \cup swept'
           table == kernel \cup swept
<1>6. LosesAtMost(routes[i].ip, table, left)
  BY <1>3 DEF LosesAtMost
<1> HIDE DEF rest, routes, left, table, k
<1>7. /\ rest \in Seq(RouteInfos) /\ Len(rest) = Len(gwRouteInfo) - 1
      /\ Tracked(rest, kernel' \cup swept', twins)
      /\ \A j \in DOMAIN rest : \E m \in DOMAIN gwRouteInfo : rest[j] = gwRouteInfo[m]
      /\ \A j \in DOMAIN rest : j < i =>
            rest[j].ip \in twins \/ \E m \in DOMAIN gwRouteInfo : m < i /\ rest[j] = gwRouteInfo[m]
  <2>1. /\ routes \in Seq(RouteInfos) /\ Tracked(routes, table, twins) /\ i \in 1..Len(routes)
        /\ k \in 1..Len(routes) /\ k <= i /\ routes[k].ip = routes[i].ip
        /\ rest = RemoveAt(routes, k)
    BY <1>1, <1>2, <1>4, <1>5 DEF routes, table
  <2>2. Removed(rest, left, routes, twins, i)
    BY <1>6, <2>1, Removal
  <2> QED BY <2>2 DEF Removed, routes, left
<1>8. DOMAIN rest = 1..Len(rest)
  BY <1>7, LenProperties
<1>9. \A j \in DOMAIN rest : FamilyKnown(rest[j])
  BY <1>1, <1>7
<1> QED BY <1>3, <1>7, <1>8, <1>9 DEF rest

LEMMA ValidateEntryInv == ASSUME IInv, ValidateEntry PROVE IInv'
<1>0. /\ gwRouteInfo \in Seq(RouteInfos) /\ element \in Nat /\ element >= 1
      /\ pc \in {"validate", "validateLast"} /\ element <= Len(gwRouteInfo)
  BY DEF IInv, TypeOK, LoopInv, ValidateEntry
<1>1. DOMAIN gwRouteInfo = 1..Len(gwRouteInfo) /\ Len(gwRouteInfo) \in Nat
  BY <1>0, LenProperties
<1>2. element \in DOMAIN gwRouteInfo
  BY <1>0, <1>1
<1>3. UNCHANGED <<busVars, pc, msgLength, seen, missed, oldLength, retVal, gwFullData, gwList, gwVars>>
  BY DEF ValidateEntry
<1>4. \A i \in DOMAIN gwRouteInfo : i < element => Fine(gwRouteInfo[i])
  BY <1>0 DEF IInv, LoopInv
<1>5. CASE StillValid(gwRouteInfo[element])
  <2>1. element' = element + 1 /\ UNCHANGED routeVars
    BY <1>5 DEF ValidateEntry
  <2>2. \A i \in DOMAIN gwRouteInfo : i < element + 1 => Fine(gwRouteInfo[i])
    BY <1>0, <1>1, <1>4, <1>5, StillValidIn DEF Fine
  <2>3. LoopInv'
    BY <1>0, <1>3, <2>1, <2>2 DEF LoopInv, Fine, routeVars
  <2>4. TypeOK'
    BY <1>0, <1>3, <2>1 DEF IInv, TypeOK, busVars, routeVars, gwVars
  <2> QED BY <1>0, <1>3, <2>1, <2>3, <2>4
          DEF IInv, RoutesInv, GatewaysInv, SweepInv, routeVars, gwVars
<1>6. CASE ~StillValid(gwRouteInfo[element])
  <2> DEFINE rest == RemoveRouteFromList(element)
  <2>1. checkRemoveRouteInfo(element) /\ gwRouteInfo' = rest /\ UNCHANGED element
    BY <1>6 DEF ValidateEntry
  <2>2. /\ rest \in Seq(RouteInfos)
        /\ Tracked(rest, kernel' \cup swept', twins')
        /\ \A j \in DOMAIN rest : FamilyKnown(rest[j])
        /\ \A j \in DOMAIN rest : j < element =>
              rest[j].ip \in twins \/ \E m \in DOMAIN gwRouteInfo : m < element /\ rest[j] = gwRouteInfo[m]
    BY <1>2, <2>1, RemoveStep
  <2> HIDE DEF rest
  <2>3. /\ kernel' \in SUBSET (V4s \cup V6s) /\ lastRouteSetV4' \in BOOLEAN
        /\ told' \in [ip : V4s \cup V6s \cup {NoIp}, v4 : BOOLEAN]
        /\ kernel' \subseteq kernel /\ UNCHANGED <<twins, swept>>
    BY <2>1, RemoveType DEF IInv
  <2>4. TypeOK'
    BY <1>0, <1>3, <2>1, <2>2, <2>3 DEF IInv, TypeOK, busVars, gwVars
  <2>5. \A j \in DOMAIN rest : j < element => Fine(rest[j])
    BY <1>4, <2>2 DEF Fine
  <2>6. LoopInv'
    BY <1>0, <1>3, <2>1, <2>3, <2>5 DEF LoopInv, Fine
  <2>7. RoutesInv'
    BY <2>1, <2>2 DEF RoutesInv
  <2>8. SweepInv'
    <3>1. gwRouteInfo # <<>>
      BY <1>2
    <3> QED BY <1>0, <1>3, <2>3, <3>1 DEF IInv, SweepInv, gwVars
  <2> QED BY <1>0, <1>3, <2>3, <2>4, <2>6, <2>7, <2>8 DEF IInv, GatewaysInv
<1> QED BY <1>5, <1>6

LEMMA ValidateDoneInv == ASSUME IInv, ValidateDone PROVE IInv'
<1>1. /\ gwRouteInfo \in Seq(RouteInfos) /\ element \in Nat /\ element > Len(gwRouteInfo)
      /\ pc \in {"validate", "validateLast"} /\ pc' \in {"del", "tail", "set"}
      /\ pc' = "set" => pc = "validate"
      /\ element' = 1 /\ retVal' = FALSE
      /\ UNCHANGED <<busVars, msgLength, seen, missed, oldLength, gwFullData, gwList, routeVars, gwVars>>
  BY DEF IInv, TypeOK, ValidateDone
<1>2. /\ DOMAIN gwRouteInfo = 1..Len(gwRouteInfo) /\ Len(gwRouteInfo) \in Nat
      /\ gwRouteInfo # <<>> => Len(gwRouteInfo) \in Nat \ {0}
  BY <1>1, LenProperties, EmptySeq
<1>3. \A i \in DOMAIN gwRouteInfo : Fine(gwRouteInfo[i])
  BY <1>1, <1>2 DEF IInv, LoopInv
<1>4. LoopInv'
  BY <1>1, <1>2, <1>3 DEF LoopInv, Fine, routeVars
<1>5. TypeOK'
  <2>1. /\ pc' \in {"wait", "fetch", "parse", "validate", "validateLast", "set", "del", "tail"}
        /\ element' \in Nat /\ retVal' \in BOOLEAN
    BY <1>1
  <2>2. UNCHANGED <<busVars, msgLength, seen, missed, oldLength, gwFullData, gwList, routeVars, gwVars>>
    BY <1>1
  <2> QED BY <2>1, <2>2 DEF IInv, TypeOK, busVars, routeVars, gwVars
<1> QED BY <1>1, <1>4, <1>5
        DEF IInv, RoutesInv, GatewaysInv, SweepInv, routeVars, gwVars

LEMMA DeleteEntryInv == ASSUME IInv, DeleteEntry PROVE IInv'
<1> DEFINE rest == RemoveRouteFromList(element)
<1>1. /\ element \in DOMAIN gwRouteInfo /\ checkRemoveRouteInfo(element) /\ pc = "del"
      /\ UNCHANGED <<busVars, msgLength, seen, missed, oldLength, retVal, gwFullData, gwList, gwVars>>
  BY DEF IInv, LoopInv, DeleteEntry
<1>2. IF Len(rest) >= 2 THEN gwRouteInfo' = rest /\ element' = 2 /\ UNCHANGED pc
                        ELSE gwRouteInfo' = <<>> /\ element' = 1 /\ pc' = "tail"
  BY DEF DeleteEntry
<1>3. /\ rest \in Seq(RouteInfos) /\ DOMAIN rest = 1..Len(rest)
      /\ Tracked(rest, kernel' \cup swept', twins')
      /\ \A j \in DOMAIN rest : FamilyKnown(rest[j])
  BY <1>1, RemoveStep
<1> HIDE DEF rest
<1>4. /\ kernel' \in SUBSET (V4s \cup V6s) /\ lastRouteSetV4' \in BOOLEAN
      /\ told' \in [ip : V4s \cup V6s \cup {NoIp}, v4 : BOOLEAN]
      /\ kernel' \subseteq kernel /\ UNCHANGED <<twins, swept>>
  BY <1>1, RemoveType DEF IInv
<1>5. Len(rest) \in Nat
  BY <1>3, LenProperties
<1>6. gwRouteInfo # <<>> /\ pc' # "wait"
  BY <1>1, <1>2
<1>7. SweepInv'
  BY <1>1, <1>4, <1>6 DEF IInv, SweepInv, gwVars
<1>8. CASE Len(rest) >= 2
  <2>1. 2 \in DOMAIN rest
    BY <1>3, <1>5, <1>8
  <2>2. LoopInv' /\ RoutesInv'
    BY <1>1, <1>2, <1>3, <1>8, <2>1 DEF LoopInv, RoutesInv
  <2>3. TypeOK'
    BY <1>1, <1>2, <1>3, <1>4, <1>8 DEF IInv, TypeOK, busVars, gwVars
  <2> QED BY <1>1, <1>2, <1>7, <1>8, <2>2, <2>3 DEF IInv, GatewaysInv
<1>9. CASE ~(Len(rest) >= 2)
  <2>1. gwRouteInfo' \in Seq(RouteInfos) /\ DOMAIN gwRouteInfo' = {}
    BY <1>2, <1>9, EmptySeq
  <2>2. LoopInv' /\ RoutesInv'
    BY <1>2, <1>9, <2>1 DEF LoopInv, RoutesInv, Tracked
  <2>3. TypeOK'
    BY <1>1, <1>2, <1>4, <1>9, <2>1 DEF IInv, TypeOK, busVars, gwVars
  <2> QED BY <1>1, <1>2, <1>7, <1>9, <2>2, <2>3 DEF IInv, GatewaysInv
<1> QED BY <1>8, <1>9

LEMMA DeleteNothingInv == ASSUME IInv, DeleteNothing PROVE IInv'
<1>1. /\ gwRouteInfo = <<>> /\ pc' = "tail" /\ element' = 1
      /\ UNCHANGED <<busVars, msgLength, seen, missed, oldLength, retVal, gwFullData, gwList, routeVars,
                     gwVars>>
  BY DEF DeleteNothing
<1>2. DOMAIN gwRouteInfo = {}
  BY <1>1
<1>3. LoopInv'
  BY <1>1, <1>2 DEF LoopInv, routeVars
<1>4. TypeOK'
  BY <1>1 DEF IInv, TypeOK, busVars, routeVars, gwVars
<1> QED BY <1>1, <1>3, <1>4 DEF IInv, RoutesInv, GatewaysInv, SweepInv, routeVars, gwVars

\* Adding the route of gateway k: its address is not tracked yet, or it is excepted.
LEMMA AddStep ==
    ASSUME IInv, pc = "set", NEW k \in 1..Len(gwList), checkAddRouteInfo(RouteOf(gwList[k])),
           RouteOf(gwList[k]).ip \in kernel' \cup swept',
           Tracked(gwRouteInfo, kernel' \cup swept', twins)
    PROVE  /\ gwRouteInfo' \in Seq(RouteInfos) /\ lastRouteSetV4' \in BOOLEAN
           /\ Tracked(gwRouteInfo', kernel' \cup swept', twins)
           /\ \A i \in DOMAIN gwRouteInfo' : FamilyKnown(gwRouteInfo'[i]) /\ Fine(gwRouteInfo'[i])
<1>0. /\ gwRouteInfo \in Seq(RouteInfos) /\ gwList \in Seq(Gateways)
      /\ \A i \in DOMAIN gwRouteInfo : FamilyKnown(gwRouteInfo[i]) /\ Fine(gwRouteInfo[i])
      /\ lastRouteSetV4 \in BOOLEAN
      /\ TwoPrefixes(gwList) \subseteq twins
  BY DEF IInv, TypeOK, RoutesInv, LoopInv, GatewaysInv
<1>1. gwList[k] \in Gateways
  BY <1>0, ElementOfSeq
<1> DEFINE route == RouteOf(gwList[k])
           table == kernel' \cup swept'
           i == SelectInSeq(gwRouteInfo, LAMBDA r : r.ip = route.ip)
<1>2. route \in RouteInfos /\ FamilyKnown(route) /\ V4s \cap V6s = {}
  BY <1>1, GatewayAddresses
<1>3. Fine(route)
  BY <1>0, OwnRouteValid DEF Fine
<1>4. route.v4 \/ (route.ip = gwList[k].ip6 /\ route.prefix = gwList[k].prefix)
  BY DEF RouteOf
<1>5. IF i = 0 \/ (~route.v4 /\ gwRouteInfo[i].prefix # route.prefix)
      THEN gwRouteInfo' = <<route>> \o gwRouteInfo /\ lastRouteSetV4' = route.v4
      ELSE UNCHANGED <<gwRouteInfo, lastRouteSetV4>>
  BY DEF checkAddRouteInfo
<1>6. route.ip \in table /\ Tracked(gwRouteInfo, table, twins)
  OBVIOUS
<1> HIDE DEF route, table
<1>7. /\ i \in 0..Len(gwRouteInfo)
      /\ i = 0 => \A j \in 1..Len(gwRouteInfo) : gwRouteInfo[j].ip # route.ip
      /\ i # 0 => /\ gwRouteInfo[i].ip = route.ip
                  /\ \A j \in 1..Len(gwRouteInfo) : gwRouteInfo[j].ip = route.ip => i <= j
  BY <1>0, FirstRoute
<1> HIDE DEF i
<1>8. DOMAIN gwRouteInfo = 1..Len(gwRouteInfo) /\ Len(gwRouteInfo) \in Nat
  BY <1>0, LenProperties
<1>9. route.v4 \in BOOLEAN
  BY <1>2 DEF RouteInfos
<1>10. CASE i = 0 \/ (~route.v4 /\ gwRouteInfo[i].prefix # route.prefix)
  <2>1. route.ip \in twins \/ \A j \in DOMAIN gwRouteInfo : gwRouteInfo[j].ip # route.ip
    <3>1. CASE i = 0
      BY <1>7, <1>8, <3>1
    <3>2. CASE i # 0 /\ ~route.v4 /\ gwRouteInfo[i].prefix # route.prefix
      <4>1. i \in DOMAIN gwRouteInfo /\ gwRouteInfo[i].ip = route.ip
        BY <1>7, <1>8, <3>2
      <4>2. route.ip \in V6s /\ ~gwRouteInfo[i].v4
        BY <1>0, <1>2, <3>2, <4>1 DEF FamilyKnown
      <4>3. gwRouteInfo[i].ip = gwList[k].ip6 /\ route.prefix = gwList[k].prefix
        BY <1>4, <3>2, <4>1
      <4>4. CASE route.ip \notin twins
        <5>1. ValidIn(gwList, gwRouteInfo[i]) /\ gwRouteInfo[i].ip \notin TwoPrefixes(gwList)
          BY <1>0, <4>1, <4>4 DEF Fine
        <5>2. gwRouteInfo[i].prefix = gwList[k].prefix
          BY <1>0, <4>2, <4>3, <5>1, ValidPrefix
        <5> QED BY <3>2, <4>3, <5>2
      <4> QED BY <4>4
    <3> QED BY <1>10, <3>1, <3>2
  <2> DEFINE routes == gwRouteInfo
             list == <<route>> \o routes
  <2>2. gwRouteInfo' = list /\ lastRouteSetV4' = route.v4
    BY <1>5, <1>10
  <2>3. /\ routes \in Seq(RouteInfos) /\ Tracked(routes, table, twins)
        /\ route.ip \in twins \/ \A m \in DOMAIN routes : routes[m].ip # route.ip
    BY <1>0, <1>6, <2>1
  <2> HIDE DEF routes
  <2>4. /\ list \in Seq(RouteInfos)
        /\ Tracked(list, table, twins)
        /\ \A j \in DOMAIN list : list[j] = route \/ \E m \in DOMAIN routes : list[j] = routes[m]
    BY <1>2, <1>6, <2>3, Addition
  <2> HIDE DEF list
  <2>5. \A j \in DOMAIN list : FamilyKnown(list[j]) /\ Fine(list[j])
    BY <1>0, <1>2, <1>3, <2>4 DEF routes
  <2> QED BY <1>9, <2>2, <2>4, <2>5 DEF table
<1>11. CASE ~(i = 0 \/ (~route.v4 /\ gwRouteInfo[i].prefix # route.prefix))
  <2>1. UNCHANGED <<gwRouteInfo, lastRouteSetV4>>
    BY <1>5, <1>11
  <2> QED BY <1>0, <1>6, <2>1 DEF table
<1> QED BY <1>10, <1>11

LEMMA SetGatewayInv == ASSUME IInv, SetGateway PROVE IInv'
<1> DEFINE route == RouteOf(gwList[element])
           table == IF gwSelected' # gwSelected THEN kernel \ V6s ELSE kernel
<1>0. /\ gwList \in Seq(Gateways) /\ element \in Nat /\ element >= 1 /\ pc = "set"
      /\ element <= Len(gwList) /\ element' = element + 1
      /\ upnpGwyLost' = FALSE /\ renewals' = 0 /\ gwSelected' = (gwSelected \/ ~xb3Selected)
      /\ UNCHANGED <<busVars, pc, msgLength, seen, missed, oldLength, gwFullData, gwList, told, twins,
                     xb3Selected, leased>>
  BY DEF IInv, TypeOK, LoopInv, SetGateway
<1>1. Len(gwList) \in Nat
  BY <1>0, LenProperties
<1>2. element \in 1..Len(gwList)
  BY <1>0, <1>1
<1>3. gwList[element] \in Gateways
  BY <1>0, <1>2, ElementOfSeq
<1>4. route.ip \in V4s \cup V6s
  BY <1>3, GatewayAddresses DEF RouteInfos
<1>5. \/ kernel' = table /\ UNCHANGED <<retVal, gwRouteInfo, lastRouteSetV4, swept>>
      \/ /\ kernel' = table \cup {route.ip} /\ swept' = swept \ {route.ip}
         /\ checkAddRouteInfo(route) /\ retVal' = TRUE
  BY DEF SetGateway
<1>6. table \subseteq kernel /\ (table = kernel \/ gwRouteInfo = <<>>)
  BY <1>0 DEF IInv, SweepInv, TypeOK
<1> HIDE DEF table
<1>7. Tracked(gwRouteInfo, kernel' \cup swept', twins)
  <2>1. CASE gwRouteInfo = <<>>
    BY <2>1 DEF Tracked
  <2>2. CASE table = kernel
    <3>1. kernel \cup swept \subseteq kernel' \cup swept'
      BY <1>5, <2>2
    <3> QED BY <3>1 DEF IInv, RoutesInv, Tracked
  <2> QED BY <1>6, <2>1, <2>2
<1>8. /\ gwRouteInfo' \in Seq(RouteInfos) /\ lastRouteSetV4' \in BOOLEAN /\ retVal' \in BOOLEAN
      /\ Tracked(gwRouteInfo', kernel' \cup swept', twins)
      /\ \A i \in DOMAIN gwRouteInfo' : FamilyKnown(gwRouteInfo'[i]) /\ Fine(gwRouteInfo'[i])
  <2>1. CASE kernel' = table /\ UNCHANGED <<retVal, gwRouteInfo, lastRouteSetV4, swept>>
    BY <1>0, <1>7, <2>1 DEF IInv, TypeOK, RoutesInv, LoopInv
  <2>2. CASE /\ kernel' = table \cup {route.ip} /\ swept' = swept \ {route.ip}
             /\ checkAddRouteInfo(route) /\ retVal' = TRUE
    <3>1. RouteOf(gwList[element]).ip \in kernel' \cup swept' /\ checkAddRouteInfo(RouteOf(gwList[element]))
      BY <2>2
    <3> QED BY <1>0, <1>2, <1>7, <2>2, <3>1, AddStep
  <2> QED BY <1>5, <2>1, <2>2
<1>9. kernel' \in SUBSET (V4s \cup V6s) /\ swept' \in SUBSET V6s
  BY <1>4, <1>5, <1>6 DEF IInv, TypeOK
<1>10. TypeOK'
  <2>1. upnpGwyLost' \in BOOLEAN /\ gwSelected' \in BOOLEAN /\ xb3Selected' \in BOOLEAN /\ leased' \in BOOLEAN
        /\ renewals' \in Nat
    BY <1>0 DEF IInv, TypeOK
  <2> QED BY <1>0, <1>8, <1>9, <2>1 DEF IInv, TypeOK, busVars
<1>11. LoopInv' /\ RoutesInv'
  BY <1>0, <1>8 DEF LoopInv, RoutesInv, Fine
<1>12. SweepInv' /\ GatewaysInv'
  BY <1>0 DEF IInv, SweepInv, GatewaysInv
<1> QED BY <1>10, <1>11, <1>12 DEF IInv

LEMMA SetDoneInv == ASSUME IInv, SetDone PROVE IInv'
<1>1. /\ pc = "set" /\ pc' = "tail"
      /\ UNCHANGED <<busVars, msgLength, seen, missed, element, oldLength, retVal, gwFullData, gwList,
                     gwRouteInfo, kernel, lastRouteSetV4, twins, swept, gwVars>>
  BY DEF SetDone
<1>2. told' \in [ip : V4s \cup V6s \cup {NoIp}, v4 : BOOLEAN]
  BY DEF SetDone, CurrentRoute, IInv, TypeOK
<1>3. TypeOK'
  BY <1>1, <1>2 DEF IInv, TypeOK, busVars, gwVars
<1>4. LoopInv' /\ RoutesInv'
  BY <1>1 DEF IInv, LoopInv, RoutesInv, Fine
<1> QED BY <1>1, <1>3, <1>4 DEF IInv, GatewaysInv, SweepInv, gwVars

\* A loss is noted, and the IPv6 routes swept, in the step that sees it.
LEMMA FallBackInv == ASSUME IInv, FallBack PROVE IInv'
<1> DEFINE lost == gwRouteInfo = <<>> /\ ~leased'
           renew == lost /\ ~upnpGwyLost /\ ~xb3Selected
<1>1. /\ pc = "tail" /\ pc' = "wait" /\ leased' \in Leases
      /\ upnpGwyLost' = (upnpGwyLost \/ renew)
      /\ renewals' = (IF renew THEN renewals + 1 ELSE renewals)
      /\ gwSelected' = (gwSelected /\ ~lost)
      /\ kernel' = (IF lost /\ gwSelected THEN kernel \ V6s ELSE kernel)
      /\ UNCHANGED <<busVars, msgLength, seen, missed, element, oldLength, retVal, gwFullData, gwList,
                     gwRouteInfo, lastRouteSetV4, told, twins, swept, xb3Selected>>
  BY DEF FallBack
<1>2. leased' \in BOOLEAN
  BY <1>1, RouteAssumption
<1>3. upnpGwyLost' \in BOOLEAN /\ gwSelected' \in BOOLEAN /\ xb3Selected' \in BOOLEAN
      /\ renewals' \in Nat /\ kernel' \in SUBSET (V4s \cup V6s)
  BY <1>1 DEF IInv, TypeOK
<1>4. SweepInv'
  <2>1. upnpGwyLost \in BOOLEAN /\ gwSelected \in BOOLEAN /\ xb3Selected \in BOOLEAN
    BY DEF IInv, TypeOK
  <2>2. /\ ~xb3Selected /\ ~gwSelected => gwRouteInfo = <<>> /\ kernel \cap V6s = {}
        /\ renewals = IF upnpGwyLost THEN 1 ELSE 0
    BY DEF IInv, SweepInv
  <2>3. ~xb3Selected' /\ ~gwSelected' => gwRouteInfo' = <<>> /\ kernel' \cap V6s = {}
    <3>1. CASE gwSelected
      BY <1>1, <2>1, <3>1
    <3>2. CASE ~gwSelected
      BY <1>1, <2>1, <2>2, <3>2
    <3> QED BY <3>1, <3>2
  <2>4. renewals' = IF upnpGwyLost' THEN 1 ELSE 0
    <3>1. CASE renew
      <4>1. upnpGwyLost' /\ ~upnpGwyLost /\ renewals' = renewals + 1
        BY <1>1, <3>1
      <4>2. renewals = 0
        BY <2>2, <4>1
      <4> QED BY <4>1, <4>2
    <3>2. CASE ~renew
      <4>1. upnpGwyLost' = upnpGwyLost /\ renewals' = renewals
        BY <1>1, <2>1, <3>2
      <4> QED BY <2>2, <4>1
    <3> QED BY <3>1, <3>2
  <2>5. (gwRouteInfo' = <<>> /\ ~leased' /\ ~xb3Selected') => ~gwSelected' /\ upnpGwyLost'
    BY <1>1, <2>1
  <2> QED BY <2>3, <2>4, <2>5 DEF SweepInv
<1>5. TypeOK'
  BY <1>1, <1>2, <1>3 DEF IInv, TypeOK, busVars
<1>6. RoutesInv'
  <2>1. CASE gwRouteInfo = <<>>
    BY <1>1, <2>1 DEF RoutesInv, Tracked
  <2>2. CASE gwRouteInfo # <<>>
    <3>1. kernel' = kernel
      BY <1>1, <2>2
    <3> QED BY <1>1, <3>1 DEF IInv, RoutesInv
  <2> QED BY <2>1, <2>2
<1>7. LoopInv'
  BY <1>1 DEF IInv, LoopInv, Fine
<1> QED BY <1>1, <1>4, <1>5, <1>6, <1>7 DEF IInv, GatewaysInv

LEMMA StepInv == IInv /\ [Next]_vars => IInv'
<1> SUFFICES ASSUME IInv, [Next]_vars PROVE IInv'
  OBVIOUS
<1>1. CASE UNCHANGED vars
  BY <1>1 DEF vars, busVars, loopVars, routeVars, gwVars, IInv, TypeOK, RoutesInv, GatewaysInv,
              LoopInv, Fine, SweepInv
<1> QED BY <1>1, BusStepInv, WifiClearsInv, TakeUpdateInv, FetchInv, ParseEntryInv, ParseDoneInv,
           ValidateEntryInv, ValidateDoneInv, DeleteEntryInv, DeleteNothingInv, SetGatewayInv,
           SetDoneInv, FallBackInv
        DEF Next, getGatewayRouteDataThrd

THEOREM Invariance == Spec => []IInv
<1>1. Init => IInv
  BY InitInv
<1>2. IInv /\ [Next]_vars => IInv'
  BY StepInv
<1> QED BY <1>1, <1>2, PTL DEF Spec

\* Type correctness of the route service manager.
THEOREM TypeCorrect == Spec => []TypeOK
<1>1. IInv => TypeOK
  BY DEF IInv
<1> QED BY <1>1, Invariance, PTL

\* Every tracked route is in the kernel and tracked once, whatever lists arrive and whichever
\* commands fail, until the WiFi manager clears it or a list has its address with two prefixes.
THEOREM RoutesInstalled == Spec => []TrackedRoutesInstalled
<1>1. IInv => TrackedRoutesInstalled
  BY DEF IInv, RoutesInv, Tracked, TrackedRoutesInstalled, TrackedIps
<1> QED BY <1>1, Invariance, PTL

\* After an update no tracked route goes through a gateway that is gone or has another prefix.
THEOREM RoutesFresh == Spec => []NoStaleRoute
<1>1. ASSUME IInv PROVE NoStaleRoute
  <2>1. gwList \in Seq(Gateways) /\ (pc = "wait" => \A i \in DOMAIN gwRouteInfo : Fine(gwRouteInfo[i]))
    BY <1>1 DEF IInv, TypeOK, LoopInv
  <2> QED BY <2>1, ValidIsListed DEF NoStaleRoute, Fine
<1> QED BY <1>1, Invariance, PTL

\* A loss of all gateways leaves no IPv6 route behind and renews DHCP exactly once.
THEOREM LossIsCleanedUp == Spec => []LossCleanedUp
<1>1. IInv => LossCleanedUp
  BY DEF IInv, SweepInv, LossCleanedUp
<1> QED BY <1>1, Invariance, PTL
=============================================================================
