------------------------- MODULE MCWifiCredentials -------------------------
(* An instance of WifiCredentials for TLC.                                 *)
EXTENDS WifiCredentials

\* A home network whose access point is replaced by one with WPA3 and another passphrase.
Home(pass, security) == [ssid |-> "home", pass |-> pass, security |-> security]
MCNetworks == {Home("p1", "WPA-PSK"), Home("p2", "SAE")}
MCAirs == {{n} : n \in MCNetworks}
MCLegacy == Home("p1", "WPA-PSK")
=============================================================================
