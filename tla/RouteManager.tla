---------------------------- MODULE RouteManager ----------------------------
(***************************************************************************)
(* The route service manager (routeSrvMgr.cpp): a UPnP service announces   *)
(* that its list of gateways changed, getGatewayRouteDataThrd fetches the  *)
(* list, drops the default routes whose gateway is gone (one per loop      *)
(* iteration, each with a shell command and a broadcast), installs the     *)
(* routes of the gateways it found, and falls back to DHCP and IPv6        *)
(* autoconfiguration when no route is left.                                *)
(*                                                                         *)
(* The UPnP service, the kernel's routing table, gwSetup.sh and the        *)
(* netlink library are external.  The interface a route is set on          *)
(* (routeIf) is left out: it is one of those whose IPv6 routes are swept.  *)
(***************************************************************************)
EXTENDS Naturals, Sequences, SequencesExt

CONSTANTS Gateways,      \* gateway descriptions: ip4, ip6, prefix, valid
          Replies,       \* what the UPnP service may answer
          NoList,        \* JSON without "xmediagateways"
          NoJson,        \* an answer that is no JSON, the empty one included
          NoPrefix,      \* the empty IPv6 prefix
          NoIp,          \* no route
          Preferred,     \* whether /opt/prefered-gateway may say XB3: a set of BOOLEANs
          Leases,        \* whether /tmp/usingdhcp may exist: a set of BOOLEANs
          Failures,      \* whether bus calls and shell commands may fail
          MaxChanges     \* bound: changes of the UPnP data

ASSUME RouteAssumption ==
    /\ \A g \in Gateways : DOMAIN g = {"ip4", "ip6", "prefix", "valid"} /\ g.valid \in BOOLEAN
    /\ {g.ip4 : g \in Gateways} \cap {g.ip6 : g \in Gateways} = {}
    /\ Replies \subseteq Seq(Gateways) \cup {NoList, NoJson}
    /\ Preferred \subseteq BOOLEAN /\ Leases \subseteq BOOLEAN /\ Failures \in BOOLEAN
    /\ MaxChanges \in Nat

\* Before the UPnP service has answered for the first time it has no list.
ASSUME ReplyAssumption == NoJson \in Replies

V4s == {g.ip4 : g \in Gateways}
V6s == {g.ip6 : g \in Gateways}

VARIABLES
    upnp,                \* external: the gateway list the UPnP service has
    notice,              \* external: an update event is on the bus
    changes,             \* counter of the bound
    signalUpnpDataReady, \* predicate of condRoute
    messageLength,       \* length announced: the list it was announced for
    pc, msgLength,       \* getGatewayRouteDataThrd
    seen, missed,        \* history: the last answer; the last bus call failed
    element, oldLength,  \* position and length of the loops over gwRouteInfo
    retVal,              \* setRoute's result
    gwFullData,          \* entries of the answer that are still to be parsed
    gwList,              \* gateways of the last answer that was parsed
    gwRouteInfo,         \* routes this manager has set
    kernel,              \* external: addresses default routes go through
    lastRouteSetV4, told,\* family of the last route set; last route broadcast
    twins,               \* history: IPv6 addresses that came with two prefixes in one list,
                         \* now or while they have been tracked
    swept,               \* history: tracked addresses whose route the WiFi manager cleared
    upnpGwyLost, gwSelected,
    xb3Selected,         \* the preferred gateway, read once by Start
    renewals,            \* history: DHCP renewals since a gateway was last set up
    leased               \* external: what the last look at /tmp/usingdhcp found

busVars == <<upnp, notice, changes, signalUpnpDataReady, messageLength>>
loopVars == <<pc, msgLength, seen, missed, element, oldLength, retVal, gwFullData, gwList>>
routeVars == <<gwRouteInfo, kernel, lastRouteSetV4, told, twins, swept>>
gwVars == <<upnpGwyLost, gwSelected, xb3Selected, renewals, leased>>
vars == <<busVars, loopVars, routeVars, gwVars>>

RouteInfos == [ip : V4s \cup V6s, v4 : BOOLEAN, prefix : {g.prefix : g \in Gateways}]

TypeOK ==
    /\ upnp \in Replies /\ notice \in BOOLEAN /\ changes \in 0..MaxChanges
    /\ signalUpnpDataReady \in BOOLEAN
    /\ messageLength \in Replies /\ msgLength \in Replies
    /\ seen \in Replies /\ missed \in BOOLEAN
    /\ pc \in {"wait", "fetch", "parse", "validate", "validateLast", "set", "del", "tail"}
    /\ element \in Nat /\ oldLength \in Nat /\ retVal \in BOOLEAN
    /\ gwFullData \in Seq(Gateways) /\ gwList \in Seq(Gateways)
    /\ gwRouteInfo \in Seq(RouteInfos)
    /\ kernel \in SUBSET (V4s \cup V6s)
    /\ lastRouteSetV4 \in BOOLEAN
    /\ told \in [ip : V4s \cup V6s \cup {NoIp}, v4 : BOOLEAN]
    /\ twins \in SUBSET V6s /\ swept \in SUBSET V6s
    /\ upnpGwyLost \in BOOLEAN /\ gwSelected \in BOOLEAN
    /\ xb3Selected \in BOOLEAN /\ renewals \in Nat /\ leased \in BOOLEAN

Init ==
    /\ upnp = NoJson /\ notice = FALSE /\ changes = 0
    /\ signalUpnpDataReady = TRUE /\ messageLength = NoJson /\ msgLength = NoJson
    /\ pc = "wait" /\ seen = NoJson /\ missed = FALSE /\ element = 1 /\ oldLength = 0 /\ retVal = FALSE
    /\ gwFullData = <<>> /\ gwList = <<>> /\ gwRouteInfo = <<>> /\ kernel = {}
    /\ lastRouteSetV4 = FALSE /\ told = [ip |-> NoIp, v4 |-> FALSE]
    /\ twins = {} /\ swept = {}
    /\ upnpGwyLost = TRUE /\ renewals = 1     \* DHCP ran at boot
    /\ gwSelected = FALSE /\ xb3Selected \in Preferred /\ leased = FALSE

----------------------------------------------------------------------------
(* External: the UPnP service.  _evtHandler: its event reaches the thread. *)

UpnpChanges(reply) ==
    /\ changes < MaxChanges /\ changes' = changes + 1
    /\ upnp' = reply /\ notice' = TRUE
    /\ UNCHANGED <<signalUpnpDataReady, messageLength, loopVars, routeVars,
                   gwVars>>

\* Mutant: an update is not noted while the thread works on an earlier one.
_evtHandlerMutant ==
    /\ notice /\ notice' = FALSE
    /\ signalUpnpDataReady' = (signalUpnpDataReady \/ pc = "wait") /\ messageLength' = upnp
    /\ UNCHANGED <<upnp, changes, loopVars, routeVars, gwVars>>

_evtHandler ==
    /\ notice /\ notice' = FALSE
    /\ signalUpnpDataReady' = TRUE /\ messageLength' = upnp
    /\ UNCHANGED <<upnp, changes, loopVars, routeVars, gwVars>>

----------------------------------------------------------------------------
(* getGatewayRouteDataThrd: wait for an update and fetch the list. *)

\* Under mutexRoute.
TakeUpdate ==
    /\ pc = "wait" /\ signalUpnpDataReady
    /\ signalUpnpDataReady' = FALSE
    /\ msgLength' = messageLength /\ pc' = "fetch"
    /\ UNCHANGED <<upnp, notice, changes, messageLength, seen, missed, element, oldLength,
                   retVal, gwFullData, gwList, routeVars, gwVars>>

\* External: GetXUPNPDeviceInfo with a buffer of the announced length answers
\* with the list, cut off (no JSON) when the list has outgrown the buffer.
Answers ==
    IF msgLength = upnp THEN {upnp}
    ELSE IF msgLength = NoJson THEN {NoJson} ELSE {upnp, NoJson}

\* Mutant: an answer without a list is parsed as one.
FetchMutant ==
    /\ pc = "fetch" /\ seen' = upnp /\ missed' = FALSE
    /\ gwList' = <<>> /\ gwFullData' \in Answers
    /\ pc' = "parse" /\ element' = 1 /\ oldLength' = Len(gwRouteInfo)
    /\ UNCHANGED <<busVars, msgLength, retVal, routeVars, gwVars>>

\* storeRouteDetails, parse_store_gateway_data up to its loop.  Without a list the routes are
\* validated against none, then deleted.
Fetch ==
    /\ pc = "fetch"
    /\ \/ \E reply \in Answers :
            /\ seen' = reply /\ missed' = FALSE
            /\ gwList' = <<>>
            /\ IF reply \in {NoJson, NoList}
               THEN /\ pc' = IF reply = NoList THEN "validateLast" ELSE "del"
                    /\ UNCHANGED gwFullData
               ELSE pc' = "parse" /\ gwFullData' = reply
       \/ Failures /\ pc' = "del" /\ missed' = TRUE /\ UNCHANGED <<seen, gwList, gwFullData>>
    /\ element' = 1 /\ oldLength' = Len(gwRouteInfo)
    /\ UNCHANGED <<busVars, msgLength, retVal, routeVars, gwVars>>

\* One iteration of that loop: only valid gateways are kept.
ParseEntry ==
    /\ pc = "parse" /\ gwFullData # <<>>
    /\ gwList' = IF Head(gwFullData).valid THEN Append(gwList, Head(gwFullData)) ELSE gwList
    /\ gwFullData' = Tail(gwFullData)
    /\ UNCHANGED <<busVars, pc, msgLength, seen, missed, element, oldLength, retVal, routeVars, gwVars>>

TrackedIps == {gwRouteInfo[i].ip : i \in DOMAIN gwRouteInfo}

\* Addresses a list of gateways has with two prefixes.
TwoPrefixes(list) ==
    {ip \in V6s : \E i, j \in DOMAIN list :
                    list[i].ip6 = ip /\ list[j].ip6 = ip /\ list[i].prefix # list[j].prefix}

\* Without a valid gateway all routes are deleted.
ParseDone ==
    /\ pc = "parse" /\ gwFullData = <<>>
    /\ pc' = IF gwList = <<>> THEN "del" ELSE "validate"
    /\ twins' = (twins \cap TrackedIps) \cup TwoPrefixes(gwList)
    /\ UNCHANGED <<busVars, msgLength, seen, missed, element, oldLength, retVal, gwFullData, gwList,
                   gwRouteInfo, kernel, lastRouteSetV4, told, swept, gwVars>>

----------------------------------------------------------------------------
(* Removing routes. *)

\* getCurrentRoute: some route of the family that was set last.
CurrentRoute(routes, v4) ==
    LET found == routes \cap (IF v4 THEN V4s ELSE V6s)
    IN  [ip : IF found = {} THEN {NoIp} ELSE found, v4 : {v4}]

\* checkRemoveRouteInfo for the address of entry i: delete the route, broadcast
\* what is left; a failing command changes nothing else.
checkRemoveRouteInfo(i) ==
    /\ kernel' \in {kernel \ {gwRouteInfo[i].ip}} \cup (IF Failures THEN {kernel} ELSE {})
    /\ told' \in CurrentRoute(kernel', lastRouteSetV4)
    /\ UNCHANGED <<lastRouteSetV4, twins, swept>>

\* ... and remove the first entry with that address from the list.
RemoveRouteFromList(i) == RemoveFirstMatch(gwRouteInfo, LAMBDA r : r.ip = gwRouteInfo[i].ip)

\* g_list_find_gw finds a gateway with the route's address, and for an IPv6
\* route its prefix is the one the route was set with.
StillValid(route) ==
    LET Matches(g) == route.ip \in {g.ip4, g.ip6}
        i == SelectInSeq(gwList, Matches)
    IN  i # 0 /\ (route.v4 \/ gwList[i].prefix = route.prefix)

\* Mutant: the loop skips the entry after one it removed.
ValidateEntryMutant ==
    /\ pc \in {"validate", "validateLast"} /\ element <= Len(gwRouteInfo)
    /\ IF StillValid(gwRouteInfo[element])
       THEN UNCHANGED routeVars
       ELSE checkRemoveRouteInfo(element) /\ gwRouteInfo' = RemoveRouteFromList(element)
    /\ element' = element + 1
    /\ UNCHANGED <<busVars, pc, msgLength, seen, missed, oldLength, retVal, gwFullData, gwList, gwVars>>

\* checkExistingRouteValid, one iteration.
ValidateEntry ==
    /\ pc \in {"validate", "validateLast"} /\ element <= Len(gwRouteInfo)
    /\ IF StillValid(gwRouteInfo[element])
       THEN element' = element + 1 /\ UNCHANGED routeVars
       ELSE /\ checkRemoveRouteInfo(element) /\ gwRouteInfo' = RemoveRouteFromList(element)
            /\ UNCHANGED element
    /\ UNCHANGED <<busVars, pc, msgLength, seen, missed, oldLength, retVal, gwFullData, gwList, gwVars>>

\* Its result: when some routes were removed and some stay, setRoute is skipped.
ValidateDone ==
    /\ pc \in {"validate", "validateLast"} /\ element > Len(gwRouteInfo)
    /\ pc' = IF pc = "validateLast" THEN "del"
             ELSE IF Len(gwRouteInfo) \notin {0, oldLength} THEN "tail" ELSE "set"
    /\ element' = 1 /\ retVal' = FALSE
    /\ UNCHANGED <<busVars, msgLength, seen, missed, oldLength, gwFullData, gwList, routeVars, gwVars>>

\* delRouteList, one iteration: checkRemoveRouteInfo leaves gwRouteInfo at the
\* head of what is left and the loop steps on from there, so that the head is
\* passed over; in the end the list is empty either way.
DeleteEntry ==
    /\ pc = "del" /\ gwRouteInfo # <<>>
    /\ checkRemoveRouteInfo(element)
    /\ LET rest == RemoveRouteFromList(element)
       IN  IF Len(rest) >= 2 THEN gwRouteInfo' = rest /\ element' = 2 /\ UNCHANGED pc
                             ELSE gwRouteInfo' = <<>> /\ element' = 1 /\ pc' = "tail"
    /\ UNCHANGED <<busVars, msgLength, seen, missed, oldLength, retVal, gwFullData, gwList, gwVars>>

DeleteNothing ==
    /\ pc = "del" /\ gwRouteInfo = <<>> /\ pc' = "tail" /\ element' = 1
    /\ UNCHANGED <<busVars, msgLength, seen, missed, oldLength, retVal, gwFullData, gwList, routeVars,
                   gwVars>>

----------------------------------------------------------------------------
(* Setting routes. *)

\* checkIpMode decides by the prefix which address of the gateway is used.
RouteOf(g) == IF g.prefix = NoPrefix THEN [ip |-> g.ip4, v4 |-> TRUE, prefix |-> g.prefix]
                                     ELSE [ip |-> g.ip6, v4 |-> FALSE, prefix |-> g.prefix]

\* Mutant: every route the script sets is added.
checkAddRouteInfoMutant(route) ==
    gwRouteInfo' = <<route>> \o gwRouteInfo /\ lastRouteSetV4' = route.v4

\* checkAddRouteInfo: a new address, or a new prefix for a known IPv6 address.
checkAddRouteInfo(route) ==
    LET i == SelectInSeq(gwRouteInfo, LAMBDA r : r.ip = route.ip)
    IN  IF i = 0 \/ (~route.v4 /\ gwRouteInfo[i].prefix # route.prefix)
        THEN gwRouteInfo' = <<route>> \o gwRouteInfo /\ lastRouteSetV4' = route.v4
        ELSE UNCHANGED <<gwRouteInfo, lastRouteSetV4>>

\* External: gwSetup.sh answers "set" when it changed something: the routing table, or the
\* prefix that goes with an IPv6 route.
ScriptSets(route, table) ==
    IF Failures \/ (~route.v4 /\ route.ip \in table) THEN BOOLEAN ELSE {route.ip \notin table}

\* setRoute, one gateway.  The local variable setRoute, once TRUE, stays so: every gateway is
\* set up, whatever its device type.  Before the first one, autoconfiguration is disabled and
\* the IPv6 routes there are are swept.
SetGateway ==
    /\ pc = "set" /\ element <= Len(gwList) /\ element' = element + 1
    /\ upnpGwyLost' = FALSE /\ renewals' = 0
    /\ gwSelected' = (gwSelected \/ ~xb3Selected)
    /\ LET route == RouteOf(gwList[element])
           table == IF gwSelected' # gwSelected THEN kernel \ V6s ELSE kernel
       IN  \E sets \in ScriptSets(route, table) :
             IF sets THEN /\ kernel' = table \cup {route.ip} /\ swept' = swept \ {route.ip}
                          /\ checkAddRouteInfo(route) /\ retVal' = TRUE
                     ELSE kernel' = table /\ UNCHANGED <<retVal, gwRouteInfo, lastRouteSetV4, swept>>
    /\ UNCHANGED <<busVars, pc, msgLength, seen, missed, oldLength, gwFullData, gwList,
                   told, twins, xb3Selected, leased>>

\* sendCurrentRouteData when a route was set.
SetDone ==
    /\ pc = "set" /\ element > Len(gwList) /\ pc' = "tail"
    /\ IF retVal THEN told' \in CurrentRoute(kernel, lastRouteSetV4) ELSE UNCHANGED told
    /\ UNCHANGED <<busVars, msgLength, seen, missed, element, oldLength, retVal, gwFullData, gwList,
                   gwRouteInfo, kernel, lastRouteSetV4, twins, swept, gwVars>>

\* Mutant: the routes delRouteList passed over are not swept.
FallBackMutant ==
    /\ pc = "tail" /\ pc' = "wait" /\ leased' \in Leases
    /\ LET lost == gwRouteInfo = <<>> /\ ~leased'
           renew == lost /\ ~upnpGwyLost /\ ~xb3Selected
       IN  /\ upnpGwyLost' = (upnpGwyLost \/ renew)
           /\ renewals' = IF renew THEN renewals + 1 ELSE renewals
           /\ gwSelected' = (gwSelected /\ ~lost)
    /\ UNCHANGED <<busVars, msgLength, seen, missed, element, oldLength, retVal, gwFullData, gwList,
                   routeVars, xb3Selected>>

\* No route left and no DHCP lease: renew DHCP, unless that was done since a gateway was last
\* there; sweep the IPv6 routes and enable autoconfiguration, if it was disabled.
FallBack ==
    /\ pc = "tail" /\ pc' = "wait" /\ leased' \in Leases
    /\ LET lost == gwRouteInfo = <<>> /\ ~leased'
           renew == lost /\ ~upnpGwyLost /\ ~xb3Selected
       IN  /\ upnpGwyLost' = (upnpGwyLost \/ renew)
           /\ renewals' = IF renew THEN renewals + 1 ELSE renewals
           /\ gwSelected' = (gwSelected /\ ~lost)
           /\ kernel' = IF lost /\ gwSelected THEN kernel \ V6s ELSE kernel
    /\ UNCHANGED <<busVars, msgLength, seen, missed, element, oldLength, retVal, gwFullData, gwList,
                   gwRouteInfo, lastRouteSetV4, told, twins, swept, xb3Selected>>

----------------------------------------------------------------------------
(* The WiFi manager, on its callback's thread: connected to another network *)
(* (wifi_status_action), it clears the IPv6 routes of its interface.        *)

WifiClears ==
    /\ kernel \cap V6s # {} /\ kernel' = kernel \ V6s
    /\ swept' = swept \cup (TrackedIps \cap V6s)
    /\ UNCHANGED <<busVars, loopVars, gwRouteInfo, lastRouteSetV4, told, twins, gwVars>>

----------------------------------------------------------------------------
getGatewayRouteDataThrd ==
    \/ TakeUpdate \/ Fetch \/ ParseEntry \/ ParseDone \/ ValidateEntry \/ ValidateDone
    \/ DeleteEntry \/ DeleteNothing \/ SetGateway \/ SetDone \/ FallBack

Next ==
    \/ getGatewayRouteDataThrd \/ _evtHandler \/ WifiClears
    \/ \E reply \in Replies : UpnpChanges(reply)

\* The bus delivers the event and the thread runs.
Spec == Init /\ [][Next]_vars
FairSpec == Spec /\ WF_vars(_evtHandler) /\ WF_vars(getGatewayRouteDataThrd)

----------------------------------------------------------------------------
(* Properties. *)

\* The two lists never drift apart in the dangerous direction: a route the manager believes to
\* have set is in the kernel, and one entry speaks of it, though entries are removed by address
\* and added by address and prefix.  The code keeps this but for two cases: the WiFi manager has
\* cleared the route and no update has set it again; or one list had the address with two
\* prefixes, so that it may be tracked twice, and removal by address deletes the one route and
\* not always the entry it means.
TrackedRoutesInstalled ==
    /\ TrackedIps \subseteq kernel \cup swept \cup twins
    /\ \A i, j \in DOMAIN gwRouteInfo :
            gwRouteInfo[i].ip = gwRouteInfo[j].ip => i = j \/ gwRouteInfo[i].ip \in twins

\* The list of gateways has the address of the route and, for IPv6, its prefix.
Listed(route) ==
    \E i \in DOMAIN gwList : /\ route.ip \in {gwList[i].ip4, gwList[i].ip6}
                             /\ route.v4 \/ gwList[i].prefix = route.prefix

\* When an update has been dealt with, no tracked route goes through a gateway that is not in
\* the list any more, or that announces another IPv6 prefix (save for addresses that came with
\* two).
NoStaleRoute ==
    pc = "wait" => \A i \in DOMAIN gwRouteInfo :
                        Listed(gwRouteInfo[i]) \/ gwRouteInfo[i].ip \in twins

\* An update that leaves the box without a tracked route and without a DHCP lease leaves no
\* IPv6 route behind, not even those delRouteList passes over or whose removal failed, and DHCP
\* has been renewed exactly once since a gateway was last set up.  (With a preferred gateway
\* selected the code does neither.)
LossCleanedUp ==
    (pc = "wait" /\ gwRouteInfo = <<>> /\ ~leased /\ ~xb3Selected) =>
        kernel \cap V6s = {} /\ renewals = 1

\* In the end the thread rests, with the whole of the list in force as its last answer, though
\* updates arrive while it works on earlier ones and lists outgrow the length announced; unless
\* the last bus call failed, which is not repeated.
LastUpdateFetched == <>[](pc = "wait" /\ ~signalUpnpDataReady /\ (seen = upnp \/ missed))

----------------------------------------------------------------------------
(* What the comments and messages say, and the code does not keep. *)

Quiet == pc = "wait" /\ ~signalUpnpDataReady /\ ~notice

\* "route is not there in new list proceed to remove it": with nothing failing,
\* no route this manager has set outlives its gateway.
LostGatewaysLoseRoutes ==
    Quiet => \A ip \in kernel : \E i \in DOMAIN gwList : ip \in {gwList[i].ip4, gwList[i].ip6}

=============================================================================
