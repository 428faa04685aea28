--------------------------- MODULE MCRouteManager ---------------------------
(***************************************************************************)
(* Gateways: one seen over IPv4 and under two IPv6 prefixes, one seen over *)
(* IPv4 and IPv6, a third over IPv4, and a device that is no gateway.      *)
(* One list has the first gateway with both prefixes.                      *)
(***************************************************************************)
EXTENDS RouteManager

Xg(ip4, ip6, prefix) == [ip4 |-> ip4, ip6 |-> ip6, prefix |-> prefix, valid |-> TRUE]

A4 == Xg("a4", "a6", "none")
A6 == Xg("a4", "a6", "p")
A6New == Xg("a4", "a6", "q")
B4 == Xg("b4", "b6", "none")
B6 == Xg("b4", "b6", "p")
C4 == Xg("c4", "c6", "none")
Client == [ip4 |-> "d4", ip6 |-> "d6", prefix |-> "none", valid |-> FALSE]

MCGateways == {A4, A6, A6New, B4, B6, C4, Client}

MCReplies ==
    {NoList, NoJson, <<Client>>, <<A6>>, <<A6New, Client>>, <<A6, B4>>, <<A6New, B6>>, <<B6>>,
     <<C4, A4, B4>>, <<A6, A6New>>}

=============================================================================
