-------------------------- MODULE InterfaceControl --------------------------
(***************************************************************************)
(* Which network interface the box uses: the bus calls setInterfaceEnabled,*)
(* setDefaultInterface and setIPSettings (netSrvMgrMain.cpp), the script   *)
(* pni_controller.sh that every one of them restarts, the event by which   *)
(* the script makes netsrvmgr enable or disable Wi-Fi, and the boot.       *)
(*                                                                         *)
(* Calls and script share marker files and the state of the links without  *)
(* a lock.  Both are sequences of shell commands and system calls; each is *)
(* modelled by the list of those it still has to carry out, one per step,  *)
(* and a restart of the service kills the script between any two of them.  *)
(* systemd, the links, DHCP and the Internet are external.                 *)
(***************************************************************************)
EXTENDS Naturals, Sequences

CONSTANTS Callers,       \* bus threads
          PniRfc,        \* values the RFC PreferredNetworkInterface may have
          DisableRfc,    \* the RFC AllowDisableDefaultNetwork
          Settings,      \* manual IP settings
          Internets,     \* sets of interfaces on which the Internet may be reached
          MaxCalls, MaxFaults, MaxEvents   \* bounds

Ifaces == {"ETHERNET", "WIFI"}
Markers == {"pni_wifi", "wifi_disallowed", "ethernet_disallowed"}

ASSUME InterfaceAssumption ==
    /\ PniRfc \subseteq BOOLEAN /\ DisableRfc \in BOOLEAN
    /\ {"dhcp", "none"} \cap Settings = {}
    /\ Internets \subseteq SUBSET Ifaces
    /\ {MaxCalls, MaxFaults, MaxEvents} \subseteq Nat

VARIABLES
    tmp, persistent,     \* markers under /tmp and /opt/persistent
    file,                \* per interface: /opt/persistent/ip.*, or "dhcp" without one
    ani,                 \* /tmp/ani_wifi: Wi-Fi is the active interface
    up, cfgd,            \* external: links that are up; IP settings in force
    carrier, internet,   \* external: Ethernet cable; where the Internet is
    pniRfc,              \* the RFC's value
    run,                 \* commands pni_controller.sh has left
    call,                \* per caller: commands the bus call has left
    alive,               \* netsrvmgr runs
    loaded,              \* pni_settings_loader.service has run since boot
    wifiEnabled,         \* bWiFiEnabled
    events,              \* WiFiInterfaceStateEvents on the bus
    calls, faults

markerVars == <<tmp, persistent>>
linkVars == <<up, cfgd>>
envVars == <<carrier, internet, pniRfc>>
procVars == <<alive, loaded, wifiEnabled, events>>
counters == <<calls, faults>>
vars == <<markerVars, file, ani, linkVars, envVars, run, call, procVars, counters>>

\* A command, what it is about, whether it sets or clears it, and the IP
\* settings it writes (only the command "settings" does).
Cmd(op, arg, value) == [op |-> op, arg |-> arg, value |-> value, ip |-> "dhcp"]
Write(interface, settings) == [Cmd("settings", interface, TRUE) EXCEPT !.ip = settings]

Commands == [op : {"start", "marker", "saved", "link", "wifi", "launch", "settings", "default",
                   "deconf", "conf", "ani", "event", "test"},
             arg : Ifaces \cup Markers \cup {""},
             value : BOOLEAN,
             ip : Settings \cup {"dhcp"}]

TypeOK ==
    /\ tmp \subseteq Markers /\ persistent \subseteq Markers
    /\ file \in [Ifaces -> Settings \cup {"dhcp"}] /\ ani \in BOOLEAN
    /\ up \subseteq Ifaces /\ cfgd \in [Ifaces -> Settings \cup {"dhcp", "none"}]
    /\ carrier \in BOOLEAN /\ internet \subseteq Ifaces /\ pniRfc \in BOOLEAN
    /\ run \in Seq(Commands) /\ call \in [Callers -> Seq(Commands)]
    /\ alive \in BOOLEAN /\ loaded \in BOOLEAN /\ wifiEnabled \in BOOLEAN
    /\ events \in Seq(BOOLEAN) /\ Len(events) <= MaxEvents
    /\ calls \in 0..MaxCalls /\ faults \in 0..MaxFaults

Disallowed(interface) == IF interface = "WIFI" THEN "wifi_disallowed" ELSE "ethernet_disallowed"
Other(interface) == IF interface = "WIFI" THEN "ETHERNET" ELSE "WIFI"

\* launch_pni_controller: systemctl restart kills a script that is running.
Restarted == <<Cmd("start", "", TRUE)>>

\* A box that boots for the first time.  Without the RFC the script never asks
\* where the Internet is.
Init ==
    /\ tmp = {} /\ persistent = {} /\ file = [i \in Ifaces |-> "dhcp"] /\ ani = FALSE
    /\ up = Ifaces /\ cfgd = [i \in Ifaces |-> "none"]
    /\ carrier \in BOOLEAN /\ pniRfc \in PniRfc
    /\ internet \in IF pniRfc THEN Internets ELSE {{}}
    /\ run = Restarted /\ call = [c \in Callers |-> <<>>]
    /\ alive = FALSE /\ loaded = FALSE /\ wifiEnabled = FALSE /\ events = <<>>
    /\ calls = 0 /\ faults = 0

----------------------------------------------------------------------------
(* The bus calls, as the commands they carry out. *)

\* mark and unmark: the file under /tmp, then the persistent one.
Mark(marker, present, persist) ==
    <<Cmd("marker", marker, present)>>
        \o (IF persist THEN <<Cmd("saved", marker, present)>> ELSE <<>>)

\* Mutant: the script is not restarted.
EnableCommandsMutant(interface, enabled, persist) ==
    Mark(Disallowed(interface), ~enabled, persist)
        \o <<Cmd("link", interface, enabled)>>
        \o (IF interface = "WIFI" THEN <<Cmd("wifi", interface, enabled)>> ELSE <<>>)

EnableCommands(interface, enabled, persist) ==
    Mark(Disallowed(interface), ~enabled, persist)
        \o <<Cmd("link", interface, enabled)>>
        \o (IF interface = "WIFI" THEN <<Cmd("wifi", interface, enabled)>> ELSE <<>>)
        \o <<Cmd("launch", "", TRUE)>>

\* Interfaces a default route may go through.
Routes == {i \in up : cfgd[i] # "none"}

\* validate_interface_can_be_disabled.
validate_interface_can_be_disabled(interface) ==
    DisableRfc \/ \E active \in Routes : active # interface

Begins(c, commands) ==
    /\ alive /\ call[c] = <<>> /\ calls < MaxCalls /\ calls' = calls + 1
    /\ call' = [call EXCEPT ![c] = commands]
    /\ UNCHANGED <<markerVars, file, ani, linkVars, envVars, run, procVars, faults>>

\* Only Wi-Fi needs the permission; a call that is refused changes nothing.
setInterfaceEnabled(c, interface, enabled, persist) ==
    /\ interface = "WIFI" /\ ~enabled => validate_interface_can_be_disabled(interface)
    /\ Begins(c, EnableCommands(interface, enabled, persist))

\* Preferring Wi-Fi needs the RFC and the link of the interface up.
setDefaultInterface(c, interface, persist) ==
    /\ interface = "WIFI" => pniRfc /\ "WIFI" \in up
    /\ Begins(c, Mark("pni_wifi", interface = "WIFI", persist) \o <<Cmd("launch", "", TRUE)>>)

\* Mutant: the file is written after the interface was configured anew.
setIPSettingsMutant(c, interface, settings) ==
    /\ settings # file[interface]
    /\ Begins(c, <<Cmd("default", interface, TRUE), Cmd("deconf", interface, TRUE),
                   Cmd("launch", "", TRUE), Write(interface, settings)>>)

\* Settings equal to those in the file change nothing, invalid ones are refused.
setIPSettings(c, interface, settings) ==
    /\ settings # file[interface]
    /\ Begins(c, <<Write(interface, settings), Cmd("default", interface, TRUE),
                   Cmd("deconf", interface, TRUE), Cmd("launch", "", TRUE)>>)

----------------------------------------------------------------------------
(* The commands of a call. *)

AtCall(c, op) == alive /\ call[c] # <<>> /\ Head(call[c]).op = op
CallDone(c) == call' = [call EXCEPT ![c] = Tail(@)]
Put(set, c) == IF Head(call[c]).value THEN set \cup {Head(call[c]).arg}
                                      ELSE set \ {Head(call[c]).arg}

CallMarker(c) ==
    /\ \/ AtCall(c, "marker") /\ tmp' = Put(tmp, c) /\ UNCHANGED persistent
       \/ AtCall(c, "saved") /\ persistent' = Put(persistent, c) /\ UNCHANGED tmp
    /\ CallDone(c)
    /\ UNCHANGED <<file, ani, linkVars, envVars, run, procVars, counters>>

\* setInterfaceState: ip link set dev <interface> up or down.
CallLink(c) ==
    /\ AtCall(c, "link") /\ up' = Put(up, c) /\ CallDone(c)
    /\ UNCHANGED <<markerVars, file, ani, cfgd, envVars, run, procVars, counters>>

\* setWifiEnabled (module WifiLifecycle has its steps).
CallWifi(c) ==
    /\ AtCall(c, "wifi") /\ wifiEnabled' = Head(call[c]).value /\ CallDone(c)
    /\ UNCHANGED <<markerVars, file, ani, linkVars, envVars, run, alive, loaded, events, counters>>

\* Mutant: after a write that fails an empty file is left.
CallSettingsMutant(c) ==
    /\ AtCall(c, "settings") /\ CallDone(c)
    /\ file' \in {[file EXCEPT ![Head(call[c]).arg] = Head(call[c]).ip],
                  [file EXCEPT ![Head(call[c]).arg] = "none"]}
    /\ UNCHANGED <<markerVars, ani, linkVars, envVars, run, procVars, counters>>

\* The settings file is removed or written; a removal that fails ends the
\* call; after a write that fails the old file is removed if it can be, and
\* the call goes on.  Between fopen and fclose the file is empty, which the
\* script takes for DHCP, and a crash leaves it so.
CallSettings(c) ==
    /\ AtCall(c, "settings")
    /\ LET interface == Head(call[c]).arg
           settings == Head(call[c]).ip
       IN  \/ file' = [file EXCEPT ![interface] = settings] /\ CallDone(c)
           \/ /\ settings # "dhcp" /\ CallDone(c)
              /\ file' \in {file, [file EXCEPT ![interface] = "dhcp"]}
           \/ /\ settings # "dhcp" /\ UNCHANGED call
              /\ file' = [file EXCEPT ![interface] = "dhcp"]
           \/ settings = "dhcp" /\ UNCHANGED file /\ call' = [call EXCEPT ![c] = <<>>]
    /\ UNCHANGED <<markerVars, ani, linkVars, envVars, run, procVars, counters>>

\* ipv4_reconfigure_interface: nothing to do when the default route goes
\* through another interface.  A route may also not be there yet.
CallDefault(c) ==
    /\ AtCall(c, "default")
    /\ IF Routes = {Other(Head(call[c]).arg)}
       THEN CallDone(c) \/ call' = [call EXCEPT ![c] = <<>>] ELSE CallDone(c)
    /\ UNCHANGED <<markerVars, file, ani, linkVars, envVars, run, procVars, counters>>

\* pni_controller.sh ipv4_reconfigure_interface, up to the restart.
CallDeconfigure(c) ==
    /\ AtCall(c, "deconf") /\ cfgd' = [cfgd EXCEPT ![Head(call[c]).arg] = "none"] /\ CallDone(c)
    /\ UNCHANGED <<markerVars, file, ani, up, envVars, run, procVars, counters>>

CallLaunch(c) ==
    /\ AtCall(c, "launch") /\ run' = Restarted /\ CallDone(c)
    /\ UNCHANGED <<markerVars, file, ani, linkVars, envVars, procVars, counters>>

----------------------------------------------------------------------------
(* pni_controller.sh, as the commands it carries out. *)

set_wifi_state(state) == <<Cmd("link", "WIFI", state), Cmd("event", "WIFI", state)>>

\* Mutant: Ethernet keeps its addresses when Wi-Fi is tried.
try_wifiMutant(pniEnabled) ==
    <<Cmd("ani", "WIFI", TRUE)>> \o set_wifi_state(TRUE)
        \o <<Cmd("conf", "WIFI", TRUE)>>
        \o (IF pniEnabled THEN <<Cmd("test", "WIFI", TRUE)>> ELSE <<>>)

try_wifi(pniEnabled) ==
    <<Cmd("ani", "WIFI", TRUE)>> \o set_wifi_state(TRUE)
        \o <<Cmd("deconf", "ETHERNET", TRUE), Cmd("conf", "WIFI", TRUE)>>
        \o (IF pniEnabled THEN <<Cmd("test", "WIFI", TRUE)>> ELSE <<>>)

\* With a preferred interface Ethernet that works turns Wi-Fi off.
try_ethernet(pniEnabled) ==
    <<Cmd("ani", "WIFI", FALSE), Cmd("link", "ETHERNET", TRUE),
      Cmd("deconf", "WIFI", TRUE), Cmd("conf", "ETHERNET", TRUE)>>
        \o (IF pniEnabled THEN <<Cmd("test", "ETHERNET", TRUE)>> \o set_wifi_state(FALSE)
                          ELSE <<>>)

try_interface(interface, pniEnabled) ==
    IF interface = "WIFI" THEN try_wifi(pniEnabled) ELSE try_ethernet(pniEnabled)

\* The choice, with all it reads taken at once: a call that changes a marker
\* restarts the script afterwards.  The carrier of a link that is down reads
\* as none.
Choice ==
    IF {"ethernet_disallowed", "wifi_disallowed"} \subseteq tmp
    THEN <<Cmd("link", "ETHERNET", FALSE)>> \o set_wifi_state(FALSE)
    ELSE IF "wifi_disallowed" \in tmp
    THEN set_wifi_state(FALSE) \o try_interface("ETHERNET", FALSE)
    ELSE IF "ethernet_disallowed" \in tmp
    THEN <<Cmd("link", "ETHERNET", FALSE)>> \o try_interface("WIFI", FALSE)
    ELSE IF ~carrier \/ "ETHERNET" \notin up
    THEN try_interface("WIFI", FALSE)
    ELSE IF ~pniRfc
    THEN <<Cmd("saved", "pni_wifi", FALSE), Cmd("marker", "pni_wifi", FALSE)>>
            \o set_wifi_state(TRUE) \o try_interface("ETHERNET", FALSE)
    ELSE try_interface(IF "pni_wifi" \in tmp THEN "WIFI" ELSE "ETHERNET", TRUE)

AtRun(op) == run # <<>> /\ Head(run).op = op
RunUnchanged == UNCHANGED <<envVars, call, alive, loaded, wifiEnabled, counters>>

PniChoose ==
    /\ AtRun("start") /\ run' = Choice
    /\ UNCHANGED <<markerVars, file, ani, linkVars, events>> /\ RunUnchanged

PniLink ==
    /\ AtRun("link") /\ run' = Tail(run)
    /\ up' = IF Head(run).value THEN up \cup {Head(run).arg} ELSE up \ {Head(run).arg}
    /\ UNCHANGED <<markerVars, file, ani, cfgd, events>> /\ RunUnchanged

\* wpa_supplicant_enable: an event, lost when netsrvmgr is not there.
PniEvent ==
    /\ AtRun("event") /\ run' = Tail(run)
    /\ Len(events) < MaxEvents
    /\ events' = IF alive THEN Append(events, Head(run).value) ELSE events
    /\ UNCHANGED <<markerVars, file, ani, linkVars>> /\ RunUnchanged

PniAni ==
    /\ AtRun("ani") /\ run' = Tail(run) /\ ani' = Head(run).value
    /\ UNCHANGED <<markerVars, file, linkVars, events>> /\ RunUnchanged

\* rm of a marker, if it is there.
PniMarker ==
    /\ AtRun("saved") \/ AtRun("marker")
    /\ run' = Tail(run)
    /\ \/ AtRun("saved") /\ persistent' = persistent \ {Head(run).arg} /\ UNCHANGED tmp
       \/ AtRun("marker") /\ tmp' = tmp \ {Head(run).arg} /\ UNCHANGED persistent
    /\ UNCHANGED <<file, ani, linkVars, events>> /\ RunUnchanged

PniDeconfigure ==
    /\ AtRun("deconf") /\ run' = Tail(run)
    /\ cfgd' = [cfgd EXCEPT ![Head(run).arg] = "none"]
    /\ UNCHANGED <<markerVars, file, ani, up, events>> /\ RunUnchanged

\* ipv4_configure_interface: the manual settings, or DHCP without a file.
PniConfigure ==
    /\ AtRun("conf") /\ run' = Tail(run)
    /\ cfgd' = [cfgd EXCEPT ![Head(run).arg] = file[Head(run).arg]]
    /\ UNCHANGED <<markerVars, file, ani, up, events>> /\ RunUnchanged

\* External: the Internet answers on the interface under test.
Reachable(interface) ==
    /\ interface \in internet \cap Routes
    /\ IF interface = "WIFI" THEN wifiEnabled ELSE carrier

\* Mutant: the interface that failed is tried again.
PniTestMutant ==
    /\ AtRun("test")
    /\ run' = IF Reachable(Head(run).arg) THEN Tail(run) ELSE try_interface(Head(run).arg, TRUE)
    /\ UNCHANGED <<markerVars, file, ani, linkVars, events>> /\ RunUnchanged

\* test_connectivity, and the loop over the preferred and the other interface.
PniTest ==
    /\ AtRun("test")
    /\ run' = IF Reachable(Head(run).arg) THEN Tail(run)
                                          ELSE try_interface(Other(Head(run).arg), TRUE)
    /\ UNCHANGED <<markerVars, file, ani, linkVars, events>> /\ RunUnchanged

----------------------------------------------------------------------------
(* netsrvmgr itself, systemd and the outside. *)

\* _eventHandler: setWifiEnabled as the script asked.
_eventHandler ==
    /\ alive /\ events # <<>> /\ events' = Tail(events) /\ wifiEnabled' = Head(events)
    /\ UNCHANGED <<markerVars, file, ani, linkVars, envVars, run, call, alive, loaded, counters>>

\* systemd starts netsrvmgr after the settings loader; it restarts the script.
netSrvMgr_start ==
    /\ ~alive /\ loaded /\ alive' = TRUE /\ run' = Restarted
    /\ UNCHANGED <<markerVars, file, ani, linkVars, envVars, call, loaded, wifiEnabled, events,
                   counters>>

\* pni_settings_loader.service copies the persistent markers, at some time
\* after the boot and maybe after the script's first run has begun.
LoadSettings ==
    /\ ~loaded /\ loaded' = TRUE /\ tmp' = tmp \cup persistent
    /\ UNCHANGED <<persistent, file, ani, linkVars, envVars, run, call, alive, wifiEnabled,
                   events, counters>>

\* External: netsrvmgr dies between two steps of its calls; systemd restarts it.
Crash ==
    /\ alive /\ faults < MaxFaults /\ faults' = faults + 1
    /\ alive' = FALSE /\ wifiEnabled' = FALSE /\ events' = <<>>
    /\ call' = [c \in Callers |-> <<>>]
    /\ UNCHANGED <<markerVars, file, ani, linkVars, envVars, run, loaded, calls>>

\* External: the box reboots; /tmp is empty and the script is started.
Reboot ==
    /\ faults < MaxFaults /\ faults' = faults + 1
    /\ tmp' = {} /\ ani' = FALSE /\ up' = Ifaces /\ cfgd' = [i \in Ifaces |-> "none"]
    /\ alive' = FALSE /\ loaded' = FALSE /\ wifiEnabled' = FALSE /\ events' = <<>>
    /\ run' = Restarted /\ call' = [c \in Callers |-> <<>>]
    /\ UNCHANGED <<persistent, file, envVars, calls>>

\* External: the cable is plugged or pulled, and the script may be restarted.
CarrierChanges ==
    /\ faults < MaxFaults /\ faults' = faults + 1
    /\ carrier' = ~carrier /\ run' \in {run, Restarted}
    /\ UNCHANGED <<markerVars, file, ani, linkVars, internet, pniRfc, call, procVars, calls>>

----------------------------------------------------------------------------
CallStep(c) == \/ CallMarker(c) \/ CallLink(c) \/ CallWifi(c) \/ CallSettings(c)
               \/ CallDefault(c) \/ CallDeconfigure(c) \/ CallLaunch(c)
pni_controller == \/ PniChoose \/ PniLink \/ PniEvent \/ PniAni \/ PniMarker \/ PniDeconfigure
                  \/ PniConfigure \/ PniTest

Next ==
    \/ \E c \in Callers :
         \/ CallStep(c)
         \/ \E i \in Ifaces :
              \/ \E persist \in BOOLEAN :
                   \/ \E enabled \in BOOLEAN : setInterfaceEnabled(c, i, enabled, persist)
                   \/ setDefaultInterface(c, i, persist)
              \/ \E s \in Settings \cup {"dhcp"} : setIPSettings(c, i, s)
    \/ pni_controller \/ _eventHandler \/ netSrvMgr_start \/ LoadSettings
    \/ Crash \/ Reboot \/ CarrierChanges

\* Calls, script and event handler run on; systemd starts what it should.
Fairness ==
    /\ \A c \in Callers : WF_vars(CallStep(c))
    /\ WF_vars(pni_controller) /\ WF_vars(_eventHandler)
    /\ WF_vars(netSrvMgr_start) /\ WF_vars(LoadSettings)

Spec == Init /\ [][Next]_vars
FairSpec == Spec /\ Fairness

----------------------------------------------------------------------------
(* Properties. *)

AtRest == alive /\ run = <<>> /\ events = <<>> /\ \A c \in Callers : call[c] = <<>>
Active == IF ani THEN "WIFI" ELSE "ETHERNET"
AllDisallowed == \A i \in Ifaces : Disallowed(i) \in tmp

\* Whatever calls, script runs, crashes and boots were interleaved, once all is
\* quiet an interface whose marker says "disallowed" is down, and Wi-Fi is
\* not enabled behind its back by a late event of the script.
DisallowedIsDown ==
    AtRest => \A i \in Ifaces : Disallowed(i) \in tmp =>
                 i \notin up /\ (i = "WIFI" => ~wifiEnabled)

\* Once all is quiet exactly one interface has addresses: the active one that
\* /tmp/ani_wifi names, which is allowed, up, and served by the Wi-Fi manager
\* if it is Wi-Fi, though scripts were killed half way.
OneInterfaceActive ==
    (AtRest /\ ~AllDisallowed) =>
        /\ {i \in Ifaces : cfgd[i] # "none"} = {Active}
        /\ Active \in up /\ Disallowed(Active) \notin tmp
        /\ Active = "WIFI" => wifiEnabled

\* Settings written while the script configured the same interface are not
\* lost: once all is quiet the active interface has the settings of its file.
SettingsApplied == (AtRest /\ ~AllDisallowed) => cfgd[Active] = file[Active]

\* The script's loop comes to an end, and the events it sent are handled, when
\* there is no loop or the Internet can be reached at all: Wi-Fi is enabled and
\* tried again after every Ethernet that fails.
ControllerRests ==
    (<>[](\/ ~pniRfc \/ "WIFI" \in internet
          \/ "ETHERNET" \in internet /\ carrier)) => <>[]AtRest

=============================================================================
