-------------------------- MODULE WifiCredentials --------------------------
(***************************************************************************)
(* The credentials of the private network and pairing by WPS.  There are   *)
(* four copies of the credentials: in RAM (savedWiFiConnList, without a    *)
(* lock), in wpa_supplicant.conf (written by the HAL), in the MFR library  *)
(* (so that a device whose files are lost finds its network again) and, on *)
(* a device updated from older software, in NetApp.db.  The HAL's connect  *)
(* callback, the bus calls, the WPS key and the boot move them about, and  *)
(* any call of the MFR library or the HAL may fail.                        *)
(*                                                                         *)
(* The HAL, the supplicant, the air and the MFR library are external.  The *)
(* flags of lost-and-found are in LostFound; here it only connects to its  *)
(* own network.                                                            *)
(***************************************************************************)
EXTENDS Integers, Sequences

CONSTANTS Callers,       \* bus threads
          IrThread,      \* the thread on which IR key events arrive
          Networks,      \* [ssid, pass, security]: private networks
          Airs,          \* sets of networks that may be on the air at the same time
          Legacy,        \* a network that NetApp.db and the MFR library may hold at first
          LnfSSID,       \* the lost-and-found network
          MaxCalls, MaxFaults, MaxInputs   \* bounds: bus calls, failures, both together

Securities == {"WPA-PSK", "SAE", "WPA-EAP", "WEP", "NONE"}

ASSUME CredentialAssumption ==
    /\ IrThread \notin Callers
    /\ \A n \in Networks : /\ DOMAIN n = {"ssid", "pass", "security"}
                           /\ n.security \in Securities
                           /\ n.ssid \notin {"", LnfSSID} /\ n.pass # ""
    /\ Airs \subseteq SUBSET Networks
    /\ Legacy \in Networks /\ Legacy.security = "WPA-PSK"
    /\ {MaxCalls, MaxFaults, MaxInputs} \subseteq Nat

Threads == Callers \cup {IrThread}
SSIDs == {n.ssid : n \in Networks}
Passes == {n.pass : n \in Networks}

\* SsidSecurity, as far as it is told apart, and -1 ("no security mode") of old MFR data.
Modes == {"WPA_PSK_AES", "WPA3_SAE", "WPA2_ENTERPRISE_AES", "WEP", "NONE", "-1"}
NoNetwork == [ssid |-> "", pass |-> "", security |-> "NONE"]
Empty == [ssid |-> "", pass |-> "", mode |-> "NONE"]
Credentials == [ssid : SSIDs \cup {""}, pass : Passes \cup {""}, mode : Modes]

\* What wifi_connectEndpoint was asked for: whole says that an EAP identity or a WEP key
\* came with it, save that the network is to be written to wpa_supplicant.conf.
NoRequest == [cred |-> Empty, whole |-> FALSE, save |-> FALSE]
LnfRequest == [NoRequest EXCEPT !.cred.ssid = LnfSSID]
Request(cred, whole) == [cred |-> cred, whole |-> whole, save |-> TRUE]
Requests == [cred : Credentials, whole : BOOLEAN, save : BOOLEAN] \cup {LnfRequest}

\* What the HAL's callback is called with.
Links == SSIDs \cup {LnfSSID, ""}
Reports == [status : {"CONNECTED", "DISCONNECTED"}, ssid : Links]

VARIABLES
    conf, confFile,     \* the network in wpa_supplicant.conf; the file exists
    db,                 \* the network in NetApp.db
    mfr,                \* the credentials the MFR library keeps
    saved,              \* savedWiFiConnList.ssidSession
    status,             \* gWifiAdopterStatus
    isLAFCurrConnectedssid,
    boot,               \* how far Init and Start are
    pc,                 \* per thread
    wpsConnLock,
    cb, cbSSID, param,  \* wifi_status_action: program point, ap_SSID, storeMfr's param
    air, link, trying, wps,   \* external: networks on the air, SSID of the association,
                        \* what the supplicant tries, a WPS session is on
    reports,            \* external: callbacks the HAL is going to make
    calls, faults,
    untouched,          \* history: no call and no failure of the MFR library since the boot began
    storing,            \* history: an undisturbed callback for a new SSID is under way
    cleared             \* history: the network was cleared and no connection asked for since

diskVars == <<conf, confFile, db, mfr>>
ramVars == <<saved, status, isLAFCurrConnectedssid>>
cbVars == <<cb, cbSSID, param>>
halVars == <<air, link, trying, wps, reports>>
historyVars == <<untouched, storing, cleared>>
vars == <<diskVars, ramVars, boot, pc, wpsConnLock, cbVars, halVars, calls, faults, historyVars>>

CallerPcs == {"idle", "wpsLock", "wpsWait", "wpsPush", "clearInfo", "clearSaved", "clearErase",
              "asleep"}   \* in wpsConnLock's queue, which Stop has forgotten
CbPcs == {"idle", "read", "compare", "copySSID", "set", "after"}

TypeOK ==
    /\ conf \in Networks \cup {NoNetwork} /\ db \in Networks \cup {NoNetwork}
    /\ confFile \in BOOLEAN /\ (conf # NoNetwork => confFile)
    /\ mfr \in Credentials /\ saved \in Credentials /\ param \in Credentials
    /\ status \in {"UNINSTALLED", "CONNECTING", "CONNECTED", "DISCONNECTED"}
    /\ isLAFCurrConnectedssid \in BOOLEAN
    /\ boot \in {"init", "write", "remove", "start", "mfr", "run", "stopping", "off"}
    /\ pc \in [Threads -> CallerPcs]
    /\ wpsConnLock \in BOOLEAN
    /\ cb \in CbPcs /\ cbSSID \in Links
    /\ air \in Airs /\ link \in Links /\ wps \in BOOLEAN
    /\ trying \in Requests /\ reports \in Seq(Reports)
    /\ calls \in 0..MaxCalls /\ faults \in 0..MaxFaults
    /\ untouched \in BOOLEAN /\ storing \in BOOLEAN /\ cleared \in BOOLEAN

\* A new device, or one updated from software that left NetApp.db or a network without a
\* security mode in the MFR library; that network is still there.
Init ==
    /\ conf = NoNetwork /\ confFile = FALSE
    /\ db \in {NoNetwork, Legacy}
    /\ mfr \in {Empty, [ssid |-> Legacy.ssid, pass |-> Legacy.pass, mode |-> "-1"]}
    /\ saved = Empty /\ status = "UNINSTALLED" /\ isLAFCurrConnectedssid = FALSE
    /\ boot = "init" /\ pc = [c \in Threads |-> "idle"] /\ wpsConnLock = FALSE
    /\ cb = "idle" /\ cbSSID = "" /\ param = Empty
    /\ air \in Airs /\ Legacy \in air
    /\ link = "" /\ trying = NoRequest /\ wps = FALSE /\ reports = <<>>
    /\ calls = 0 /\ faults = 0
    /\ untouched = FALSE /\ storing = FALSE /\ cleared = FALSE

Fault == faults < MaxFaults /\ calls + faults < MaxInputs /\ faults' = faults + 1
NoFault == UNCHANGED faults

\* History: a failure or another thread came in between.
Disturbed == untouched' = FALSE /\ storing' = FALSE

-----------------------------------------------------------------------------
(* The HAL, as the code uses it. *)

SecurityModeMutant(security) == security

\* lastConnectedSSID: a mode is derived from the security in wpa_supplicant.conf; WPA2 and
\* WPA3 get the same.
SecurityMode(security) ==
    CASE security \in {"WPA-PSK", "SAE"} -> "WPA3_SAE"
      [] security = "WPA-EAP" -> "WPA2_ENTERPRISE_AES"
      [] OTHER -> security

lastConnectedSSID == [ssid |-> conf.ssid, pass |-> conf.pass, mode |-> SecurityMode(conf.security)]

\* wifi_connectEndpoint returns before the supplicant has connected.
wifi_connectEndpoint(request) == trying' = request

Gone == IF link = "" THEN <<>> ELSE <<[status |-> "DISCONNECTED", ssid |-> link]>>

wifi_disconnectEndpoint == link' = "" /\ trying' = NoRequest /\ reports' = reports \o Gone

ModesOf(security) ==
    CASE security = "WPA-PSK" -> {"WPA_PSK_AES", "WPA3_SAE"}
      [] security = "SAE" -> {"WPA3_SAE"}
      [] security = "WPA-EAP" -> {"WPA2_ENTERPRISE_AES"}
      [] OTHER -> {security}

\* The access point takes what it is asked with.
Accepts(n, request) ==
    /\ n.ssid = request.cred.ssid
    /\ n.security = "NONE" \/ n.pass = request.cred.pass
    /\ request.cred.mode \in ModesOf(n.security)
    /\ n.security \in {"WPA-EAP", "WEP"} => request.whole

HalUp == boot \in {"mfr", "run", "stopping"}
HalUnchanged == UNCHANGED <<db, mfr, ramVars, boot, pc, wpsConnLock, cbVars, air, calls, faults,
                            untouched, cleared>>

Associated(ssid) ==
    /\ link' = ssid /\ trying' = NoRequest
    /\ reports' = reports \o Gone \o <<[status |-> "CONNECTED", ssid |-> ssid]>>

HalConnects ==
    /\ HalUp /\ trying # NoRequest
    /\ \/ trying = LnfRequest /\ Associated(LnfSSID) /\ UNCHANGED <<conf, confFile, storing>>
       \/ \E n \in air : /\ Accepts(n, trying) /\ Associated(n.ssid)
                         /\ conf' = (IF trying.save THEN n ELSE conf)
                         /\ confFile' = (confFile \/ trying.save) /\ storing' = FALSE
    /\ UNCHANGED wps /\ HalUnchanged

HalRefuses ==
    /\ HalUp /\ trying \notin {NoRequest, LnfRequest} /\ \A n \in air : ~Accepts(n, trying)
    /\ trying' = NoRequest
    /\ reports' = Append(reports, [status |-> "DISCONNECTED", ssid |-> ""])
    /\ UNCHANGED <<conf, confFile, link, wps, storing>> /\ HalUnchanged

\* The other side of WPS answers, or nobody does.
HalPairs ==
    /\ HalUp /\ wps /\ wps' = FALSE
    /\ \/ \E n \in air : Associated(n.ssid) /\ conf' = n /\ confFile' = TRUE /\ storing' = FALSE
       \/ UNCHANGED <<conf, confFile, link, trying, reports, storing>>
    /\ HalUnchanged

-----------------------------------------------------------------------------
(* wifi_status_action, on the HAL's thread. *)

CbUnchanged == UNCHANGED <<conf, confFile, db, boot, pc, wpsConnLock, air, link, trying, wps, calls,
                           cleared>>

\* The status is set at once.  A new private network is stored.
CbBegin ==
    /\ HalUp /\ cb = "idle" /\ reports # <<>>
    /\ reports' = Tail(reports)
    /\ LET r == Head(reports)
           new == r.status = "CONNECTED" /\ r.ssid # LnfSSID /\ saved.ssid # r.ssid
       IN /\ status' = r.status
          /\ cbSSID' = r.ssid
          /\ cb' = (IF r.status = "DISCONNECTED" THEN "idle" ELSE IF new THEN "read" ELSE "after")
          /\ storing' = new
    /\ NoFault /\ UNCHANGED <<mfr, saved, isLAFCurrConnectedssid, param, untouched>> /\ CbUnchanged

\* storeMfrWifiCredentials reads what the supplicant has, over savedWiFiConnList.
StoreRead ==
    /\ cb = "read"
    /\ \/ /\ conf # NoNetwork
          /\ saved' = lastConnectedSSID /\ cb' = "compare"
          /\ NoFault /\ UNCHANGED <<untouched, storing>>
       \/ /\ conf = NoNetwork
          /\ cb' = "after" /\ Disturbed /\ NoFault /\ UNCHANGED saved
    /\ UNCHANGED <<mfr, status, isLAFCurrConnectedssid, cbSSID, param, reports>> /\ CbUnchanged

SameMutant(stored, cred) == stored.ssid = cred.ssid

\* The comparison of storeMfrWifiCredentials.
Same(stored, cred) ==
    /\ stored.ssid = cred.ssid /\ stored.pass = cred.pass
    /\ stored.mode \in {cred.mode, "-1"}

\* WIFI_GET_CREDENTIALS; if it fails the credentials are stored anyway.
StoreCompare ==
    /\ cb = "compare"
    /\ \/ cb' = (IF Same(mfr, saved) THEN "after" ELSE "copySSID") /\ NoFault /\ UNCHANGED <<untouched, storing>>
       \/ cb' = "copySSID" /\ Fault /\ Disturbed
    /\ UNCHANGED <<mfr, ramVars, cbSSID, param, reports>> /\ CbUnchanged

\* savedWiFiConnList is copied field by field while others write it.
StoreCopySSID ==
    /\ cb = "copySSID" /\ cb' = "set"
    /\ param' = [Empty EXCEPT !.ssid = saved.ssid]
    /\ NoFault /\ UNCHANGED <<mfr, ramVars, cbSSID, reports, untouched, storing>> /\ CbUnchanged

\* The rest, and WIFI_SET_CREDENTIALS.  What storeMfrWifiCredentials returns is not looked at.
StoreSet ==
    /\ cb = "set" /\ cb' = "after"
    /\ \/ mfr' = [param EXCEPT !.pass = saved.pass, !.mode = saved.mode] /\ NoFault
                                                                 /\ UNCHANGED <<untouched, storing>>
       \/ UNCHANGED mfr /\ Fault /\ Disturbed
    /\ UNCHANGED <<ramVars, cbSSID, param, reports>> /\ CbUnchanged

\* After the DHCP scripts: the flag of lost-and-found, and the credentials again.
CbAfter ==
    /\ cb = "after" /\ cb' = "idle"
    /\ isLAFCurrConnectedssid' = (cbSSID = LnfSSID)
    /\ saved' = (IF cbSSID # LnfSSID /\ conf # NoNetwork THEN lastConnectedSSID ELSE saved)
    /\ cbSSID' = "" /\ param' = Empty /\ storing' = FALSE
    /\ NoFault /\ UNCHANGED <<mfr, status, reports, untouched>> /\ CbUnchanged

Callback == \/ CbBegin \/ StoreRead \/ StoreCompare \/ StoreCopySSID \/ StoreSet
            \/ CbAfter

-----------------------------------------------------------------------------
(* The bus calls. *)

Call(c) ==
    /\ HalUp /\ pc[c] = "idle"
    /\ calls < MaxCalls /\ calls + faults < MaxInputs /\ calls' = calls + 1
    /\ Disturbed

At(c, from, to) == pc[c] = from /\ pc' = [pc EXCEPT ![c] = to]

CallUnchanged == UNCHANGED <<db, isLAFCurrConnectedssid, boot, cbVars, air>>

\* The mode a caller gives for a network.
CallerMode(security) ==
    CASE security = "WPA-PSK" -> "WPA_PSK_AES" [] OTHER -> SecurityMode(security)

CredentialsOf(n) == [ssid |-> n.ssid, pass |-> n.pass, mode |-> CallerMode(n.security)]

\* connect: without an SSID the saved network is used, if there is one; a network without
\* security goes with the saved passphrase.
connect(c, n) ==
    /\ Call(c)
    /\ LET cred == IF n = NoNetwork THEN saved
                   ELSE IF n.security = "NONE" THEN [CredentialsOf(n) EXCEPT !.pass = saved.pass]
                   ELSE CredentialsOf(n)
       IN IF n = NoNetwork /\ "" \in {saved.ssid, saved.pass}
          THEN UNCHANGED <<status, trying, cleared>> /\ NoFault
          ELSE /\ status' = "CONNECTING"
               /\ cleared' = FALSE
               /\ \/ wifi_connectEndpoint(Request(cred, TRUE)) /\ NoFault
                  \/ UNCHANGED trying /\ Fault
    /\ UNCHANGED <<conf, confFile, mfr, saved, pc, wpsConnLock, link, wps, reports>> /\ CallUnchanged

\* saveSSID writes to RAM only.
saveSSID(c, n) ==
    /\ Call(c)
    /\ saved' = CredentialsOf(n)
    /\ NoFault
    /\ UNCHANGED <<conf, confFile, mfr, status, pc, wpsConnLock, link, trying, wps, reports, cleared>>
    /\ CallUnchanged

\* wifi_disconnectEndpoint succeeds, or fails and changes nothing.
Disconnects == \/ wifi_disconnectEndpoint /\ NoFault
               \/ UNCHANGED <<link, trying, reports>> /\ Fault

disconnectSSID(c) ==
    /\ Call(c) /\ Disconnects
    /\ UNCHANGED <<conf, confFile, mfr, saved, status, pc, wpsConnLock, wps, cleared>> /\ CallUnchanged

\* clearSSID_On_Disconnect_AP: a disconnection that fails ends the call.
clearSSID(c) ==
    /\ Call(c)
    /\ \/ wifi_disconnectEndpoint /\ NoFault /\ At(c, "idle", "clearInfo")
       \/ UNCHANGED <<link, trying, reports, pc>> /\ Fault
    /\ UNCHANGED <<conf, confFile, mfr, saved, status, wpsConnLock, wps, cleared>> /\ CallUnchanged

ClearInfo(c) ==
    /\ At(c, "clearInfo", "clearSaved") /\ Disturbed
    /\ \/ conf' = NoNetwork /\ NoFault
       \/ UNCHANGED conf /\ Fault
    /\ UNCHANGED <<confFile, mfr, saved, status, wpsConnLock, link, trying, wps, reports, calls, cleared>>
    /\ CallUnchanged

\* On the lost-and-found network the other copies are kept.
ClearSaved(c) ==
    /\ At(c, "clearSaved", IF isLAFCurrConnectedssid THEN "idle" ELSE "clearErase") /\ Disturbed
    /\ saved' = (IF isLAFCurrConnectedssid THEN saved ELSE Empty)
    /\ NoFault
    /\ UNCHANGED <<conf, confFile, mfr, status, wpsConnLock, link, trying, wps, reports, calls, cleared>>
    /\ CallUnchanged

\* A callback for a network that has just connected may put the credentials back, and the
\* next boot converts a NetApp.db that this one could neither read nor remove, so the history
\* only counts a call that met no callback, no new association and no such database.
Nothing == /\ conf = NoNetwork /\ trying = NoRequest /\ ~wps /\ cb = "idle"
           /\ link \in {"", LnfSSID}
           /\ confFile \/ db = NoNetwork
           /\ \A i \in DOMAIN reports : reports[i].status # "CONNECTED"

\* eraseMfrWifiCredentials; its failure is ignored.
ClearErase(c) ==
    /\ At(c, "clearErase", "idle") /\ Disturbed
    /\ \/ mfr' = Empty /\ NoFault /\ cleared' = Nothing
       \/ UNCHANGED <<mfr, cleared>> /\ Fault
    /\ UNCHANGED <<conf, confFile, saved, status, wpsConnLock, link, trying, wps, reports, calls>>
    /\ CallUnchanged

-----------------------------------------------------------------------------
(* WPS. *)

WpsUnchanged == UNCHANGED <<conf, confFile, mfr, saved, status>> /\ CallUnchanged

\* initiateWPSPairing and initiateWPSPairing2, and _irEventHandler on the WPS key if the
\* configuration says so.
initiateWPSPairing(c) ==
    /\ Call(c) /\ At(c, "idle", "wpsLock") /\ NoFault
    /\ UNCHANGED <<wpsConnLock, link, trying, wps, reports, cleared>> /\ WpsUnchanged

\* connect_WpsPush and connect_WpsPin, under wpsConnLock: the present network is left first;
\* whether that worked is not asked.
WpsCheck(c) ==
    /\ ~wpsConnLock /\ wpsConnLock' = TRUE
    /\ \/ status = "CONNECTED" /\ At(c, "wpsLock", "wpsWait") /\ Disconnects
       \/ status # "CONNECTED" /\ At(c, "wpsLock", "wpsPush") /\ NoFault
                               /\ UNCHANGED <<link, trying, reports>>
    /\ UNCHANGED <<wps, calls, historyVars>> /\ WpsUnchanged

\* get_WpsPIN fails: the call ends before it has done anything.
WpsNoPin(c) ==
    /\ ~wpsConnLock /\ At(c, "wpsLock", "idle") /\ Fault
    /\ UNCHANGED <<wpsConnLock, link, trying, wps, reports, calls, historyVars>> /\ WpsUnchanged

WpsPushMutant(c) ==
    /\ At(c, "wpsPush", "idle") \/ (At(c, "wpsWait", "idle") /\ status # "CONNECTED")
    /\ wpsConnLock' = FALSE /\ Disturbed
    /\ \/ HalUp /\ wps' = TRUE /\ cleared' = FALSE /\ NoFault
       \/ UNCHANGED <<wps, cleared>> /\ (Fault \/ (~HalUp /\ NoFault))
    /\ UNCHANGED <<link, trying, reports, calls>> /\ WpsUnchanged

\* The wait ends when the status is not CONNECTED any more, or it has been polled thirty
\* times; then wifi_setCliWpsButtonPush or wifi_setCliWpsEnrolleePin.
WpsPush(c) ==
    /\ At(c, "wpsPush", "idle") \/ At(c, "wpsWait", "idle")
    /\ wpsConnLock' = FALSE /\ Disturbed
    /\ \/ HalUp /\ wps' = TRUE /\ cleared' = FALSE /\ NoFault
       \/ UNCHANGED <<wps, cleared>> /\ (Fault \/ (~HalUp /\ NoFault))
    /\ UNCHANGED <<link, trying, reports, calls>> /\ WpsUnchanged

cancelWPSPairing(c) ==
    /\ Call(c) /\ wps' = FALSE /\ NoFault
    /\ UNCHANGED <<pc, wpsConnLock, link, trying, reports, cleared>> /\ WpsUnchanged

-----------------------------------------------------------------------------
(* Boot: WiFiNetworkMgr::Init and Start. *)

BootUnchanged == UNCHANGED <<saved, isLAFCurrConnectedssid, pc, wpsConnLock, cbVars, air, link, wps,
                             reports, calls, storing, cleared>>

MigrateMutant == conf = NoNetwork

\* create_wpa_supplicant_conf_from_netapp_db never overwrites a file.
Migrate == ~confFile

\* The database is converted, if it can be read, and the file is open now.
BootInit ==
    /\ boot = "init"
    /\ \/ Migrate /\ db # NoNetwork /\ boot' = "write" /\ confFile' = TRUE /\ NoFault
       \/ ~(Migrate /\ db # NoNetwork) /\ boot' = "remove" /\ UNCHANGED confFile /\ NoFault
       \/ Migrate /\ db # NoNetwork /\ boot' = "remove" /\ UNCHANGED confFile /\ Fault
    /\ untouched' = TRUE
    /\ UNCHANGED <<conf, db, mfr, status, trying>> /\ BootUnchanged

BootWrite ==
    /\ boot = "write" /\ boot' = "remove" /\ conf' = db /\ NoFault
    /\ UNCHANGED <<confFile, db, mfr, status, trying, untouched>> /\ BootUnchanged

\* The database is removed in any case, converted or not.
BootRemove ==
    /\ boot = "remove" /\ boot' = "start"
    /\ \/ db' = NoNetwork /\ NoFault
       \/ UNCHANGED db /\ Fault
    /\ UNCHANGED <<conf, confFile, mfr, status, trying, untouched>> /\ BootUnchanged

\* wifi_init: the supplicant tries the network of its file.
Resumes == IF conf = NoNetwork THEN NoRequest ELSE Request(lastConnectedSSID, TRUE)

\* That wifi_init failed is only logged.
StartHal ==
    /\ boot = "start" /\ boot' = "mfr"
    /\ \/ trying' = Resumes /\ NoFault /\ UNCHANGED untouched
       \/ UNCHANGED trying /\ Fault /\ untouched' = FALSE
    /\ UNCHANGED <<diskVars, status>> /\ BootUnchanged

ConnectModeMutant(mode) == mode

\* connectToMfrWifiCredentials: a network stored without a mode is WPA2.
ConnectMode(mode) == IF mode = "-1" THEN "WPA_PSK_AES" ELSE mode

\* Only a device without a network in wpa_supplicant.conf asks the MFR library, which may
\* fail, or have nothing, and then the HAL may refuse.
StartMfr ==
    /\ boot = "mfr" /\ boot' = "run"
    /\ \/ /\ conf # NoNetwork \/ mfr = Empty
          /\ UNCHANGED <<status, trying, untouched>> /\ NoFault
       \/ /\ conf = NoNetwork /\ status' = "CONNECTING"
          /\ \/ /\ wifi_connectEndpoint(Request([mfr EXCEPT !.mode = ConnectMode(mfr.mode)], FALSE))
                /\ NoFault /\ UNCHANGED untouched
             \/ UNCHANGED trying /\ untouched' = FALSE /\ Fault
       \/ /\ conf = NoNetwork /\ mfr # Empty
          /\ untouched' = FALSE /\ UNCHANGED <<status, trying>> /\ Fault
    /\ UNCHANGED diskVars /\ BootUnchanged

Boot == BootInit \/ BootWrite \/ BootRemove \/ StartHal \/ StartMfr

-----------------------------------------------------------------------------
(* setWifiEnabled: WiFi is switched off, and on again. *)

\* WPS calls that sleep for wpsConnLock.
Sleepers == {c \in Threads : wpsConnLock /\ pc[c] = "wpsLock"}

\* Stop initialises wpsConnLock anew, whoever holds it.  The holder's unlock does not know
\* of a thread that slept for it before.
Stop ==
    /\ boot = "run" /\ boot' = "stopping" /\ Fault /\ Disturbed
    /\ wpsConnLock' = FALSE
    /\ \E lost \in SUBSET Sleepers :
          pc' = [c \in Threads |-> IF c \in lost THEN "asleep" ELSE pc[c]]
    /\ UNCHANGED <<diskVars, ramVars, cbVars, halVars, calls, cleared>>

\* Two later calls that meet at the lock may wake it.
WpsWoken(c) ==
    /\ At(c, "asleep", "wpsLock")
    /\ UNCHANGED <<diskVars, ramVars, boot, wpsConnLock, cbVars, halVars, calls, faults, historyVars>>

\* The HAL makes no callback after wifi_uninit; one that is under way goes on.
shutdownWifi ==
    /\ boot = "stopping" /\ boot' = "off" /\ Disturbed
    /\ saved' = Empty /\ status' = "UNINSTALLED" /\ isLAFCurrConnectedssid' = FALSE
    /\ link' = "" /\ trying' = NoRequest /\ wps' = FALSE /\ reports' = <<>>
    /\ UNCHANGED <<diskVars, pc, wpsConnLock, cbVars, air, calls, faults, cleared>>

StartAgain ==
    /\ boot = "off" /\ boot' = "start"
    /\ UNCHANGED <<diskVars, ramVars, pc, wpsConnLock, cbVars, halVars, calls, faults, historyVars>>

-----------------------------------------------------------------------------
(* The outside. *)

\* Lost-and-found connects to its own network (module LostFound).
LnfConnects ==
    /\ boot = "run" /\ link = "" /\ trying = NoRequest
    /\ trying' = LnfRequest
    /\ UNCHANGED <<diskVars, ramVars, boot, pc, wpsConnLock, cbVars, air, link, wps, reports, calls,
                   faults, historyVars>>

\* The association is lost; the supplicant tries its network again.
LinkLost ==
    /\ HalUp /\ link # "" /\ Fault
    /\ link' = "" /\ reports' = reports \o Gone
    /\ trying' = (IF trying = NoRequest THEN Resumes ELSE trying)
    /\ UNCHANGED <<diskVars, ramVars, boot, pc, wpsConnLock, cbVars, air, wps, calls, historyVars>>

\* An access point gets another passphrase.
AirChanges ==
    /\ Fault /\ air' \in Airs \ {air} /\ untouched' = FALSE
    /\ UNCHANGED <<diskVars, ramVars, boot, pc, wpsConnLock, cbVars, link, trying, wps, reports, calls,
                   storing, cleared>>

\* The daemon dies and is started again.  The files under /opt/secure may be lost with it.
Restart(lost) ==
    /\ Fault
    /\ IF lost THEN conf' = NoNetwork /\ confFile' = FALSE /\ db' = NoNetwork
               ELSE UNCHANGED <<conf, confFile, db>>
    /\ saved' = Empty /\ status' = "UNINSTALLED" /\ isLAFCurrConnectedssid' = FALSE
    /\ boot' = "init" /\ pc' = [c \in Threads |-> "idle"] /\ wpsConnLock' = FALSE
    /\ cb' = "idle" /\ cbSSID' = "" /\ param' = Empty
    /\ link' = "" /\ trying' = NoRequest /\ wps' = FALSE /\ reports' = <<>>
    /\ untouched' = FALSE /\ storing' = FALSE
    /\ UNCHANGED <<mfr, air, calls, cleared>>

-----------------------------------------------------------------------------

CallStep(c) == \/ ClearInfo(c) \/ ClearSaved(c) \/ ClearErase(c)
               \/ WpsCheck(c) \/ WpsNoPin(c) \/ WpsPush(c)

Next ==
    \/ \E c \in Threads : CallStep(c) \/ initiateWPSPairing(c)
    \/ \E c \in Callers :
         \/ \E n \in Networks \cup {NoNetwork} : connect(c, n)
         \/ \E n \in Networks : saveSSID(c, n)
         \/ disconnectSSID(c) \/ clearSSID(c) \/ cancelWPSPairing(c)
    \/ \E c \in Threads : WpsWoken(c)
    \/ Callback \/ Boot
    \/ Stop \/ shutdownWifi \/ StartAgain
    \/ HalConnects \/ HalRefuses \/ HalPairs
    \/ LnfConnects \/ LinkLost \/ AirChanges
    \/ \E lost \in BOOLEAN : Restart(lost)

\* Threads run, and the supplicant comes to an end with what it tries.
Fairness == /\ \A c \in Threads : WF_vars(CallStep(c))
            /\ WF_vars(Callback) /\ WF_vars(Boot) /\ WF_vars(HalConnects \/ HalRefuses)

Spec == Init /\ [][Next]_vars /\ Fairness

-----------------------------------------------------------------------------
(* Properties. *)

\* isPaired.
isPaired == conf # NoNetwork

\* A connect callback for an SSID that is not the saved one, which no failure and no other
\* thread disturbs, leaves the MFR library with the network the supplicant has, the
\* passphrase included: whatever the library held before, and whether or not the daemon was
\* restarted since.  (A changed passphrase of the saved SSID is only stored after a restart.)
StoredWhenNew ==
    cb = "after" /\ storing =>
        /\ isPaired /\ mfr.ssid = conf.ssid /\ mfr.pass = conf.pass
        /\ mfr.mode \in {SecurityMode(conf.security), "-1"}

\* A network that clearSSID has removed does not come back by itself: not out of a NetApp.db
\* that was converted and could not be removed, not by a visit to the lost-and-found network,
\* not by a restart.
ClearedStaysCleared ==
    cleared => /\ mfr = Empty /\ ~isPaired
               /\ link \in {"", LnfSSID} /\ trying.cred.ssid \in {"", LnfSSID}

\* A network the device knows and can be had with what it knows: WEP keys and EAP identities
\* are not in the MFR library, and data without a mode stands for WPA2.
Usable ==
    \E n \in air :
        IF isPaired THEN conf = n
        ELSE /\ n.ssid = mfr.ssid /\ n.pass = mfr.pass
             /\ n.security \in {"WPA-PSK", "SAE"} /\ (mfr.mode = "-1" => n.security = "WPA-PSK")

\* A boot that nobody disturbs takes the device back to its private network: the one of
\* wpa_supplicant.conf or, when the files are lost, the one of the MFR library, though it was
\* stored by older software or the boot before died in the middle of a migration.
Reconnects == (boot = "remove" /\ untouched /\ Usable) ~> (link \in SSIDs \/ ~untouched)

\* A WPS call returns and gives the lock to the next, though the HAL refuses or forgets to
\* disconnect first, and though WiFi is switched off and the lock initialised anew while it
\* holds it.  The one call that need not return is one that slept for the lock just then.
WpsReturns == \A c \in Threads : pc[c] = "wpsLock" ~> pc[c] \in {"idle", "asleep"}
=============================================================================
