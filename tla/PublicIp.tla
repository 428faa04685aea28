------------------------------ MODULE PublicIp ------------------------------
(***************************************************************************)
(* The bus calls getPublicIP, isConnectedToInternet and                    *)
(* setConnectivityTestEndpoints of netSrvMgrMain.cpp: the connectivity     *)
(* check and the STUN client put together on the bus thread, which serves  *)
(* one call after the other.                                               *)
(***************************************************************************)
EXTENDS StunClient, Connectivity

CONSTANTS Params,       \* [server, interface, bindTimeout, cacheTimeout] of a caller; server
                        \* may be Nothing and the timeouts zero
          Conf,         \* confProp.stunProps, with the same fields
          InterfaceOf,  \* what the environment calls WIFI, ETHERNET and MOCA, NoIface if unset
          MaxCalls      \* bound: bus calls in a behaviour

VARIABLES param,        \* the getPublicIP under way, or Nothing
          phase,        \* its place: "none", "test" or "bind"
          publicIp,     \* what the last getPublicIP gave its caller
          calls

busVars == <<param, phase, publicIp, calls>>
vars == <<stunVars, connVars, busVars>>

TypeOK ==
    /\ StunTypeOK /\ ConnTypeOK
    /\ param \in Params \cup {Nothing}
    /\ phase \in {"none", "test", "bind"}
    /\ publicIp \in PublicIps \cup {Nothing}
    /\ calls \in 0..MaxCalls

Init == StunInit /\ ConnInit /\ param = Nothing /\ phase = "none" /\ publicIp = Nothing /\ calls = 0

BusFree == phase = "none" /\ connPc = "idle" /\ stunPc = "idle"

Call == BusFree /\ calls < MaxCalls /\ calls' = calls + 1

setConnectivityTestEndpoints(list) ==
    /\ Call /\ SetEndpoints(list)
    /\ UNCHANGED <<stunVars, param, phase, publicIp>>

isConnectedToInternet ==
    /\ Call /\ TestBegin
    /\ UNCHANGED <<stunVars, param, phase, publicIp>>

-----------------------------------------------------------------------------
(* getPublicIP *)

getPublicIP(p) ==
    /\ Call /\ TestBegin
    /\ param' = p /\ phase' = "test" /\ publicIp' = Nothing
    /\ UNCHANGED stunVars

Reply(ip) == param' = Nothing /\ phase' = "none" /\ publicIp' = ip

\* The arguments of bind.  The active interface, which is looked up when the caller names
\* none, only decides whether there is a call: the configured interface is used.
Argument(p) ==
    [server |-> IF p.server = Nothing THEN Conf.server ELSE p.server,
     iface |-> IF p.interface = "" THEN Conf.interface ELSE InterfaceOf[p.interface],
     bindTimeout |-> IF p.bindTimeout = 0 THEN Conf.bindTimeout ELSE p.bindTimeout,
     cacheTimeout |-> IF p.cacheTimeout = 0 THEN Conf.cacheTimeout ELSE p.cacheTimeout]

\* What callers send and the configuration add up to arguments of bind.
ASSUME ParamAssumption ==
    /\ Nothing \notin Params /\ MaxCalls \in Nat
    /\ \A p \in Params : p.interface \in DOMAIN InterfaceOf \cup {""} => Argument(p) \in Requests

\* No internet, an interface of another name, or no route and no active interface.
PublicIpRefused ==
    /\ phase = "test" /\ connPc = "idle"
    /\ \/ ~verdict
       \/ param.interface \notin DOMAIN InterfaceOf
    /\ Reply(Nothing)
    /\ UNCHANGED <<stunVars, connVars, calls>>

PublicIpBinds ==
    /\ phase = "test" /\ connPc = "idle" /\ verdict
    /\ param.interface \in DOMAIN InterfaceOf \cup {""}
    /\ BindEnter(Argument(param))
    /\ phase' = "bind"
    /\ UNCHANGED <<connVars, param, publicIp, calls>>

PublicIpReturns ==
    /\ phase = "bind" /\ stunPc = "idle"
    /\ Reply(IF ret_ok THEN result ELSE Nothing)
    /\ UNCHANGED <<stunVars, connVars, calls>>

-----------------------------------------------------------------------------

Stun == ClientStep /\ UNCHANGED <<connVars, busVars>>
Conn == (EndpointsSet \/ TestStep) /\ UNCHANGED <<stunVars, busVars>>
World == Network /\ UNCHANGED <<connVars, busVars>>

\* The daemon dies and systemd starts it again.
Restart == StunRestart /\ ConnRestart /\ Reply(Nothing) /\ UNCHANGED calls

BusStep == PublicIpRefused \/ PublicIpBinds \/ PublicIpReturns

Next ==
    \/ \E list \in EndpointLists : setConnectivityTestEndpoints(list)
    \/ isConnectedToInternet
    \/ \E p \in Params : getPublicIP(p)
    \/ BusStep \/ Stun \/ Conn \/ World \/ Restart

Fairness == WF_vars(BusStep) /\ WF_vars(Stun) /\ WF_vars(Conn)

Spec == Init /\ [][Next]_vars /\ Fairness

-----------------------------------------------------------------------------
(* Properties *)

\* Whatever the network loses and whatever fails, every call gives the bus thread back.
BusServed == []<>BusFree
=============================================================================
