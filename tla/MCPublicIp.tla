----------------------------- MODULE MCPublicIp -----------------------------
(* An instance of PublicIp for TLC.                                        *)
EXTENDS PublicIp, TLC

CONSTANTS A, B, eth0, ga, gb, gc

\* Both servers are asked on the same port, or each on its own.
MCResolutions == A :> {2} @@ B :> {0, 1}
MCLocalPort == A :> 3478 @@ B :> 3478
MCOwnPorts == A :> 3478 @@ B :> 19302
MCInterfaceOf == "ETHERNET" :> eth0 @@ "MOCA" :> NoIface
MCConf == [server |-> A, interface |-> NoIface, bindTimeout |-> 30, cacheTimeout |-> 0]
MCDefaults == <<ga, gb, gc>>
MCEndpointLists == {<<>>, <<ga>>, <<ga, gb>>}

\* Timeouts of one attempt (30, the default) and of three, of which the last is cut short
\* (5000); with and without an interface, cached and not; an interface nobody knows.
Param(s, i, b, c) == [server |-> s, interface |-> i, bindTimeout |-> b, cacheTimeout |-> c]
MCParams == {Param(Nothing, "ETHERNET", 5000, 1), Param(B, "ETHERNET", 0, 1),
             Param(Nothing, "", 5000, 1), Param(B, "MOCA", 0, 0), Param(B, "PLC", 0, 0)}
MCRequests == {Argument(p) : p \in {q \in MCParams : q.interface # "PLC"}}
=============================================================================
