----------------------------- MODULE LostFound -----------------------------
(***************************************************************************)
(* The "Lost and Found" (LNF) engine of the Wi-Fi service manager:         *)
(* lafConnThread (activation), lafConnPrivThread (private credentials),    *)
(* startLAFIfNecessary, the laf_wifi_* callbacks that run inside           *)
(* triggerLostFound, the HAL connection callback wifi_status_action and    *)
(* the IARM event handler of wifiSrvMgr.cpp.                               *)
(*                                                                         *)
(* Every thread is cut at its blocking calls (a lock, a wait, a sleep, a   *)
(* HAL or library call) and at every unlocked read of a flag another       *)
(* thread writes.  The Wi-Fi HAL and the laf library are external: they    *)
(* are modelled from how the code calls them.                              *)
(***************************************************************************)
EXTENDS Naturals, Sequences

CONSTANTS PrivateSsids,     \* the private networks of the household
          LfSsid,           \* the one SSID for which laf_is_lnfssid holds
          NoSsid,           \* the empty SSID
          Activation,       \* values getDeviceActivationState may answer
          Warehouse,        \* sysModeParam = IARM_BUS_SYS_MODE_WAREHOUSE
          Codes,            \* HAL codes other than SUCCESS that may be reported
          MaxHalEvents,     \* bound: callbacks the HAL has queued
          MaxReports,       \* bound: unsolicited HAL reports in a behaviour
          MaxUserEvents     \* bound: IARM events in a behaviour

ConnCodes == {"CONNECTING", "NOT_FOUND", "SSID_CHANGED", "INVALID_CREDENTIALS",
              "AUTH_FAILED", "TIMEOUT", "DEV_DISCONNECT", "CONNECTION_LOST",
              "CONNECTION_FAILED", "INTERRUPTED", "UNRECOVERABLE", "UNKNOWN",
              "DISCONNECTING"}

ASSUME SsidAssumption ==
    /\ LfSsid \notin PrivateSsids
    /\ NoSsid \notin PrivateSsids \cup {LfSsid}

ASSUME BoundAssumption ==
    /\ Activation \subseteq BOOLEAN
    /\ Warehouse \in BOOLEAN
    /\ Codes \subseteq ConnCodes
    /\ MaxHalEvents \in Nat /\ MaxReports \in Nat /\ MaxUserEvents \in Nat

Ssids == PrivateSsids \cup {LfSsid}
OptSsids == Ssids \cup {NoSsid}

VARIABLES
    adopter,             \* gWifiAdopterStatus
    lnf,                 \* gWifiLNFStatus
    startLAF,            \* predicate of condLAF
    mutexTriggerLAF,     \* "free", or the thread that holds it
    bDeviceActivated, bLnfActivationLoop, bStopLNF, isLAFCurrConnectedssid,
    bIsStopLNF, bAutoSwitch, bSwitch2Private, bPrivConnectionLost,
    saved,               \* savedWiFiConnList.ssidSession.ssid
    prevCode,            \* connCode_prev_state
    conf,                \* external: the network stored by the supplicant
    link, target,        \* external: current association, and attempt under way
    halEvents,           \* external: callbacks the HAL has not delivered yet
    silentLoss,          \* history: an UNKNOWN report ended the last association
    callback,            \* SSID of the connect callback in its DHCP step
    pcPriv, reqType,     \* lafConnPrivThread
    pcAct,               \* lafConnThread
    pcStart,             \* startLAFIfNecessary
    lafPc, lafSsid, lafOk,\* triggerLostFound and the callbacks it makes
    reports, userEvents  \* counters of the bounds

flagVars == <<bDeviceActivated, bStopLNF, bAutoSwitch>>
halVars == <<link, target, halEvents, conf, reports, silentLoss>>
cbVars == <<callback, prevCode, isLAFCurrConnectedssid>>
lafVars == <<lafPc, lafSsid, lafOk>>
privVars == <<pcPriv, reqType, bSwitch2Private>>
actVars == <<pcAct, bLnfActivationLoop>>
sigVars == <<startLAF, bPrivConnectionLost>>
vars == <<adopter, lnf, mutexTriggerLAF, bIsStopLNF, saved, pcStart, userEvents,
          flagVars, halVars, cbVars, lafVars, privVars, actVars, sigVars>>

PrivPcs == {"top", "wait", "entry", "settle", "choose", "checkStop", "checkConn",
            "lock", "backoff", "laf", "failed", "manual", "pause", "success", "out"}
ActPcs == {"none", "enter", "outer", "inner", "check", "lock", "backoff", "laf",
           "failed", "settle", "after", "exit", "dead"}
StartPcs == {"none", "first", "sleep", "second", "lost", "dead"}
LafPcs == {"idle", "connect", "tearDown", "hal", "poll", "server", "disconnect",
           "discPoll", "finish", "done"}

\* wifi_status_action's callbacks: a code and the SSID it is about.
HalEvents == [code : {"CONNECT", "DISCONNECT"} \cup ConnCodes, ssid : OptSsids]

TypeOK ==
    /\ adopter \in {"DISCONNECTED", "CONNECTING", "CONNECTED", "FAILED"}
    /\ lnf \in {"UNITIALIZED", "IN_PROGRESS", "CONNECTED_LNF", "CONNECTED_PRIVATE"}
    /\ startLAF \in BOOLEAN
    /\ mutexTriggerLAF \in {"free", "priv", "act"}
    /\ bDeviceActivated \in BOOLEAN /\ bLnfActivationLoop \in BOOLEAN
    /\ bStopLNF \in BOOLEAN /\ isLAFCurrConnectedssid \in BOOLEAN
    /\ bIsStopLNF \in BOOLEAN /\ bAutoSwitch \in BOOLEAN
    /\ bSwitch2Private \in BOOLEAN /\ bPrivConnectionLost \in BOOLEAN
    /\ saved \in OptSsids /\ conf \in OptSsids
    /\ prevCode \in {"SUCCESS"} \cup ConnCodes
    /\ link \in OptSsids /\ target \in OptSsids
    /\ halEvents \in Seq(HalEvents) /\ silentLoss \in BOOLEAN
    /\ callback \in OptSsids
    /\ pcPriv \in PrivPcs
    /\ reqType \in {"CONNECT_TO_LFSSID", "CONNECT_TO_PRIV_WIFI", "SWITCH_TO_PRIVATE"}
    /\ pcAct \in ActPcs
    /\ pcStart \in StartPcs
    /\ lafPc \in LafPcs /\ lafSsid \in OptSsids /\ lafOk \in BOOLEAN
    /\ reports \in 0..MaxReports /\ userEvents \in 0..MaxUserEvents

----------------------------------------------------------------------------
\* The state the first Start() leaves: the supplicant tries the network it has
\* stored, which nobody has read into memory yet, lafConnPrivThread runs, and connectToLAF created lafConnThread or
\* startLAFIfNecessary, whichever getDeviceActivationState asks for.
Init ==
    /\ adopter = "DISCONNECTED" /\ lnf = "UNITIALIZED"
    /\ startLAF = FALSE /\ mutexTriggerLAF = "free"
    /\ bDeviceActivated \in Activation
    /\ bLnfActivationLoop = FALSE /\ bStopLNF = FALSE
    /\ isLAFCurrConnectedssid = FALSE /\ bIsStopLNF = FALSE
    /\ bAutoSwitch = TRUE /\ bSwitch2Private = FALSE /\ bPrivConnectionLost = FALSE
    /\ conf \in PrivateSsids \cup {NoSsid} /\ target = conf /\ saved = NoSsid
    /\ prevCode = "SUCCESS" /\ link = NoSsid /\ halEvents = <<>> /\ callback = NoSsid
    /\ silentLoss = FALSE
    /\ pcPriv = "top" /\ reqType = "CONNECT_TO_PRIV_WIFI"
    /\ LET unactivated == ~bDeviceActivated /\ ~Warehouse
       IN  /\ pcAct = IF unactivated THEN "enter" ELSE "none"
           /\ pcStart = IF unactivated THEN "none" ELSE "first"
    /\ lafPc = "idle" /\ lafSsid = NoSsid /\ lafOk = FALSE
    /\ reports = 0 /\ userEvents = 0

----------------------------------------------------------------------------
(* Helpers shared by the threads. *)

ConnectedPrivate == lnf = "CONNECTED_PRIVATE" /\ adopter = "CONNECTED"

\* lastConnectedSSID(&savedWiFiConnList): the HAL answers, or fails and leaves it.
lastConnectedSSID(ok) == saved' = IF ok THEN conf ELSE saved

\* lnfConnectPrivCredentials: dropped while the activation loop runs.
lnfConnectPrivCredentials(inLoop) == startLAF' = (startLAF \/ ~inLoop)

\* wifi_connectEndpoint: refused, or the attempt starts and, if asked to, the
\* supplicant stores the network.
wifi_connectEndpoint(ssid, save, ok) ==
    /\ target' = IF ok THEN ssid ELSE target
    /\ conf' = IF ok /\ save THEN ssid ELSE conf
    /\ UNCHANGED <<link, halEvents, reports, silentLoss>>

\* connect_withSSID: with saveSSID the status goes to CONNECTING before the
\* HAL is called, and stays there when the HAL refuses.
connect_withSSID(ssid, save, ok) ==
    /\ adopter' = IF save THEN "CONNECTING" ELSE adopter
    /\ wifi_connectEndpoint(ssid, save, ok)

\* wifi_disconnectEndpoint: refused, or the association ends and the HAL owes
\* a callback.
wifi_disconnectEndpoint(ok) ==
    /\ link' = IF ok THEN NoSsid ELSE link
    /\ target' = IF ok THEN NoSsid ELSE target
    /\ halEvents' = IF ok /\ link # NoSsid
                    THEN Append(halEvents, [code |-> "DISCONNECT", ssid |-> link])
                    ELSE halEvents
    /\ UNCHANGED <<conf, reports, silentLoss>>

Room == Len(halEvents) < MaxHalEvents

----------------------------------------------------------------------------
(* External: the Wi-Fi HAL and the supplicant behind it. *)

\* The attempt under way succeeds: the association changes and the HAL owes the
\* connect callback.
HalConnects ==
    /\ target # NoSsid /\ Room
    /\ link' = target /\ target' = NoSsid /\ silentLoss' = FALSE
    /\ halEvents' = Append(halEvents, [code |-> "CONNECT", ssid |-> target])
    /\ UNCHANGED <<adopter, lnf, mutexTriggerLAF, bIsStopLNF, saved, pcStart, userEvents,
                   flagVars, conf, reports, cbVars, lafVars, privVars, actVars, sigVars>>

\* The HAL reports of its own accord.  After an error the association is gone,
\* and the supplicant may or may not try it again; progress says nothing about
\* it; after UNKNOWN it may be there or gone.
HalReports(code) ==
    /\ reports < MaxReports /\ Room
    /\ reports' = reports + 1
    /\ \/ /\ code \in {"CONNECTING", "DISCONNECTING", "UNKNOWN"}
          /\ {link, target} # {NoSsid} /\ UNCHANGED <<link, target, silentLoss>>
       \/ /\ code \notin {"CONNECTING", "DISCONNECTING"}
          /\ link' = NoSsid /\ target' \in {target, link, NoSsid}
          /\ silentLoss' = (code = "UNKNOWN" /\ (link # NoSsid \/ silentLoss))
    /\ halEvents' = Append(halEvents, [code |-> code, ssid |-> link])
    /\ UNCHANGED <<adopter, lnf, mutexTriggerLAF, bIsStopLNF, saved, pcStart, userEvents,
                   flagVars, conf, cbVars, lafVars, privVars, actVars, sigVars>>

----------------------------------------------------------------------------
(* wifi_status_action, run by the HAL's callback thread, one event at a time. *)

Delivers(codes) ==
    /\ callback = NoSsid /\ halEvents # <<>>
    /\ Head(halEvents).code \in codes
    /\ halEvents' = Tail(halEvents)
    /\ UNCHANGED <<link, target, conf, reports, silentLoss, mutexTriggerLAF, bIsStopLNF, pcStart,
                   userEvents, lafVars, privVars, actVars>>

\* SUCCESS on connect, up to the DHCP scripts: the status is already CONNECTED;
\* a private network that differs from the saved one is stored, which
\* re-reads it from the supplicant.
CbConnect ==
    /\ Delivers({"CONNECT"})
    /\ LET ssid == Head(halEvents).ssid
       IN  /\ adopter' = "CONNECTED"
           /\ callback' = ssid
           /\ \E ok \in BOOLEAN :
                 IF ssid # LfSsid /\ saved # ssid THEN lastConnectedSSID(ok)
                                                 ELSE ok /\ UNCHANGED saved
    /\ UNCHANGED <<lnf, prevCode, isLAFCurrConnectedssid, flagVars, sigVars>>

\* Mutant: a successful connect leaves connCode_prev_state alone.
CbConnectDoneMutant ==
    /\ callback # NoSsid
    /\ isLAFCurrConnectedssid' = (callback = LfSsid)
    /\ lnf' = IF callback = LfSsid THEN "CONNECTED_LNF" ELSE "CONNECTED_PRIVATE"
    /\ callback' = NoSsid /\ UNCHANGED <<prevCode, saved>>
    /\ UNCHANGED <<adopter, mutexTriggerLAF, bIsStopLNF, pcStart, userEvents, flagVars,
                   halVars, lafVars, privVars, actVars, sigVars>>

\* SUCCESS on connect, after DHCP: only now do the LNF flags follow the network.
CbConnectDone ==
    /\ callback # NoSsid
    /\ isLAFCurrConnectedssid' = (callback = LfSsid)
    /\ IF callback = LfSsid
       THEN lnf' = "CONNECTED_LNF" /\ UNCHANGED <<bStopLNF, saved>>
       ELSE /\ lnf' = "CONNECTED_PRIVATE"
            /\ bStopLNF' = FALSE
            /\ \E ok \in BOOLEAN : lastConnectedSSID(ok)
    /\ callback' = NoSsid /\ prevCode' = "SUCCESS"
    /\ UNCHANGED <<adopter, mutexTriggerLAF, bIsStopLNF, pcStart, userEvents,
                   bDeviceActivated, bAutoSwitch, halVars, lafVars, privVars, actVars, sigVars>>

CbDisconnect ==
    /\ Delivers({"DISCONNECT"})
    /\ adopter' = "DISCONNECTED" /\ prevCode' = "SUCCESS"
    /\ UNCHANGED <<lnf, saved, callback, isLAFCurrConnectedssid, flagVars, sigVars>>

CbConnecting ==
    /\ Delivers({"CONNECTING"})
    /\ adopter' = "CONNECTING" /\ prevCode' = "CONNECTING"
    /\ UNCHANGED <<lnf, saved, callback, isLAFCurrConnectedssid, flagVars, sigVars>>

\* The errors that start lost and found.  NOT_FOUND and SSID_CHANGED are acted
\* on only when they differ from the previous code.
LnfCodes == {"NOT_FOUND", "SSID_CHANGED", "INVALID_CREDENTIALS", "AUTH_FAILED"}

CbLnfError ==
    /\ Delivers(LnfCodes)
    /\ LET code == Head(halEvents).code
       IN  /\ prevCode' = code
           /\ IF prevCode = code /\ code \in {"NOT_FOUND", "SSID_CHANGED"}
              THEN UNCHANGED <<adopter, sigVars>>
              ELSE /\ adopter' = "DISCONNECTED"
                   /\ bPrivConnectionLost' = TRUE
                   /\ lnfConnectPrivCredentials(bLnfActivationLoop)
    /\ UNCHANGED <<lnf, saved, callback, isLAFCurrConnectedssid, flagVars>>

\* The other errors change the status only, and only when not repeated.
CbOtherError ==
    /\ Delivers(ConnCodes \ (LnfCodes \cup {"CONNECTING"}))
    /\ LET code == Head(halEvents).code
       IN  /\ prevCode' = code
           /\ adopter' = IF code \in {prevCode, "UNKNOWN", "DISCONNECTING"} THEN adopter
                         ELSE IF code = "UNRECOVERABLE" THEN "FAILED" ELSE "DISCONNECTED"
    /\ UNCHANGED <<lnf, saved, callback, isLAFCurrConnectedssid, flagVars, sigVars>>

----------------------------------------------------------------------------
(* triggerLostFound and the callbacks the laf library makes inside it.  The    *)
(* library (external) connects to the LF SSID, asks its server for private     *)
(* credentials unless only the LF SSID was requested, disconnects, and         *)
(* connects to the private network.                                            *)

LafReq == IF mutexTriggerLAF = "act" THEN "CONNECT_TO_LFSSID" ELSE reqType

LafUnchanged == UNCHANGED <<mutexTriggerLAF, bIsStopLNF, pcStart, userEvents, flagVars,
                            cbVars, privVars, actVars, sigVars>>

\* laf_config_new or laf_client_new may fail before anything is done.
LafStart == lafPc' \in {"connect", "finish"} /\ lafSsid' = LfSsid /\ lafOk' = FALSE

\* A callback returns to laf_start, which goes on or gives up.
LafReturn(ok) ==
    /\ lafPc' = IF ok /\ lafSsid = LfSsid /\ LafReq # "CONNECT_TO_LFSSID"
                THEN "server" ELSE "finish"
    /\ lafOk' = ok
    /\ UNCHANGED lafSsid

\* laf_wifi_connect, up to the HAL calls.  When a private network is up already
\* the outcome of lastConnectedSSID is what decides.
laf_wifi_connect ==
    /\ lafPc = "connect"
    /\ \E ok \in BOOLEAN :
         IF lafSsid = LfSsid /\ isLAFCurrConnectedssid /\ adopter = "CONNECTED"
         THEN LafReturn(TRUE) /\ UNCHANGED <<saved, lnf>>
         ELSE IF bStopLNF
         THEN LafReturn(FALSE) /\ UNCHANGED <<saved, lnf>>
         ELSE /\ IF lafSsid = LfSsid THEN UNCHANGED saved ELSE lastConnectedSSID(ok)
              /\ IF lnf # "CONNECTED_PRIVATE"
                 THEN /\ lnf' = "IN_PROGRESS"
                      /\ lafPc' = IF lafSsid = LfSsid THEN "tearDown" ELSE "hal"
                      /\ UNCHANGED <<lafSsid, lafOk>>
                 ELSE /\ UNCHANGED lnf
                      /\ IF lafSsid # LfSsid /\ ok
                         THEN lafPc' = "poll" /\ UNCHANGED <<lafSsid, lafOk>>
                         ELSE LafReturn(FALSE)
    /\ UNCHANGED <<adopter, halVars>> /\ LafUnchanged

\* laf_wifi_connect drops the current association before joining the LF SSID; a
\* refusal by the HAL is only logged.
LafTearDown ==
    /\ lafPc = "tearDown" /\ Room
    /\ \E ok \in BOOLEAN : wifi_disconnectEndpoint(ok)
    /\ lafPc' = "hal"
    /\ UNCHANGED <<adopter, lnf, saved, lafSsid, lafOk>> /\ LafUnchanged

\* Mutant: laf_wifi_connect passes SAVE_SSID for every network.
LafConnectMutant ==
    /\ lafPc = "hal"
    /\ \E ok \in BOOLEAN :
         /\ connect_withSSID(lafSsid, TRUE, ok)
         /\ IF ok THEN lafPc' = "poll" /\ UNCHANGED <<lafSsid, lafOk>> ELSE LafReturn(FALSE)
    /\ UNCHANGED <<lnf, saved>> /\ LafUnchanged

\* laf_wifi_connect calls connect_withSSID; the LF SSID is never saved.
LafConnect ==
    /\ lafPc = "hal"
    /\ \E ok \in BOOLEAN :
         /\ connect_withSSID(lafSsid, lafSsid # LfSsid, ok)
         /\ IF ok THEN lafPc' = "poll" /\ UNCHANGED <<lafSsid, lafOk>> ELSE LafReturn(FALSE)
    /\ UNCHANGED <<lnf, saved>> /\ LafUnchanged

\* The wait for CONNECTED in laf_wifi_connect: satisfied, stopped or timed out.
LafPoll ==
    /\ lafPc = "poll"
    /\ \/ /\ adopter = "CONNECTED"
          /\ lnf' = IF lafSsid = LfSsid THEN lnf ELSE "CONNECTED_PRIVATE"
          /\ LafReturn(TRUE)
       \/ LafReturn(FALSE) /\ UNCHANGED lnf   \* bStopLNF, or lnfRetryCount exceeded
    /\ UNCHANGED <<adopter, saved, halVars>> /\ LafUnchanged

\* External: the LNF server answers with private credentials, which takes a
\* network the DHCP scripts have configured, or it does not.
LafServer ==
    /\ lafPc = "server"
    /\ \/ \E ssid \in PrivateSsids :
             link # NoSsid /\ callback = NoSsid /\ halEvents = <<>>
             /\ lafPc' = "disconnect" /\ lafSsid' = ssid /\ UNCHANGED lafOk
       \/ lafPc' = "finish" /\ lafOk' = FALSE /\ UNCHANGED lafSsid
    /\ UNCHANGED <<adopter, lnf, saved, halVars>> /\ LafUnchanged

\* A refused disconnect: the library goes on to connect, or gives up.
LafDisconnectFails ==
    /\ lafPc' \in {"connect", "finish"} /\ lafOk' = FALSE /\ UNCHANGED lafSsid

\* laf_wifi_disconnect.  The HAL's RETURN_OK is 0 and retVal is a bool: the call
\* that succeeds returns EPERM, the one the HAL refuses goes on to wait.
laf_wifi_disconnect ==
    /\ lafPc = "disconnect" /\ Room
    /\ IF ~isLAFCurrConnectedssid
       THEN lafPc' = "connect" /\ UNCHANGED <<lafSsid, lafOk, lnf, halVars>>
       ELSE IF bStopLNF
       THEN LafDisconnectFails /\ UNCHANGED <<lnf, halVars>>
       ELSE /\ lnf' = "IN_PROGRESS"
            /\ \E ok \in BOOLEAN :
                 /\ wifi_disconnectEndpoint(ok)
                 /\ IF ok THEN LafDisconnectFails
                          ELSE lafPc' = "discPoll" /\ UNCHANGED <<lafSsid, lafOk>>
    /\ UNCHANGED <<adopter, saved>> /\ LafUnchanged

LafDiscPoll ==
    /\ lafPc = "discPoll"
    /\ \/ adopter = "DISCONNECTED" /\ lafPc' = "connect" /\ UNCHANGED <<lafSsid, lafOk>>
       \/ LafDisconnectFails
    /\ UNCHANGED <<adopter, lnf, saved, halVars>> /\ LafUnchanged

\* triggerLostFound returns to the thread that called it.
LafLeave ==
    /\ lafPc = "done"
    /\ lafPc' = "idle" /\ lafSsid' = NoSsid /\ lafOk' = FALSE
    /\ mutexTriggerLAF' = "free"

\* Failing to collect the device information fails triggerLostFound whatever
\* laf_start did.
LafFinish ==
    /\ lafPc = "finish"
    /\ lafPc' = "done"
    /\ \E devInfo \in BOOLEAN : lafOk' = (lafOk /\ devInfo)
    /\ UNCHANGED <<adopter, lnf, saved, lafSsid, halVars, mutexTriggerLAF, bIsStopLNF, pcStart,
                   userEvents, flagVars, cbVars, privVars, actVars, sigVars>>

----------------------------------------------------------------------------
(* lafConnPrivThread. *)

PrivUnchanged == UNCHANGED <<pcStart, userEvents, flagVars, cbVars, actVars>>

\* Mutant: every start signal that arrived meanwhile is dropped.
PrivTopMutant ==
    /\ pcPriv = "top"
    /\ startLAF' = FALSE
    /\ pcPriv' = "wait"
    /\ UNCHANGED <<adopter, lnf, mutexTriggerLAF, bIsStopLNF, saved, bPrivConnectionLost,
                   reqType, bSwitch2Private, halVars, lafVars>> /\ PrivUnchanged

\* Under mutexLAF: a start signal is dropped when private Wi-Fi is up.
PrivTop ==
    /\ pcPriv = "top"
    /\ startLAF' = (startLAF /\ ~ConnectedPrivate)
    /\ pcPriv' = "wait"
    /\ UNCHANGED <<adopter, lnf, mutexTriggerLAF, bIsStopLNF, saved, bPrivConnectionLost,
                   reqType, bSwitch2Private, halVars, lafVars>> /\ PrivUnchanged

PrivTakeSignal ==
    /\ pcPriv = "wait" /\ startLAF
    /\ startLAF' = FALSE /\ pcPriv' = "entry"
    /\ UNCHANGED <<adopter, lnf, mutexTriggerLAF, bIsStopLNF, saved, bPrivConnectionLost,
                   reqType, bSwitch2Private, halVars, lafVars>> /\ PrivUnchanged

PrivEntry ==
    /\ pcPriv = "entry"
    /\ lnf' = IF lnf # "CONNECTED_LNF" THEN "IN_PROGRESS" ELSE lnf
    /\ bPrivConnectionLost' = FALSE
    /\ pcPriv' = IF bPrivConnectionLost THEN "settle" ELSE "choose"
    /\ UNCHANGED <<adopter, mutexTriggerLAF, bIsStopLNF, saved, startLAF,
                   reqType, bSwitch2Private, halVars, lafVars>> /\ PrivUnchanged

PrivSettled ==
    /\ pcPriv = "settle" /\ pcPriv' = "choose"
    /\ UNCHANGED <<adopter, lnf, mutexTriggerLAF, bIsStopLNF, saved, sigVars,
                   reqType, bSwitch2Private, halVars, lafVars>> /\ PrivUnchanged

PrivChoose ==
    /\ pcPriv = "choose" /\ pcPriv' = "checkStop"
    /\ IF bAutoSwitch \/ bSwitch2Private
       THEN /\ reqType' = IF bSwitch2Private THEN "SWITCH_TO_PRIVATE" ELSE "CONNECT_TO_PRIV_WIFI"
            /\ bSwitch2Private' = FALSE /\ UNCHANGED lnf
       ELSE /\ reqType' = "CONNECT_TO_LFSSID"
            /\ lnf' = "IN_PROGRESS" /\ UNCHANGED bSwitch2Private
    /\ UNCHANGED <<adopter, mutexTriggerLAF, bIsStopLNF, saved, sigVars,
                   halVars, lafVars>> /\ PrivUnchanged

\* Mutant: the stop is reported with a state of its own.
PrivCheckStopMutant ==
    /\ pcPriv = "checkStop"
    /\ lnf' = "DISCONNECTED_CANT_CONNECT_TO_PRIVATE" /\ pcPriv' = "checkConn"
    /\ UNCHANGED <<adopter, mutexTriggerLAF, bIsStopLNF, saved, sigVars,
                   reqType, bSwitch2Private, halVars, lafVars>> /\ PrivUnchanged

PrivCheckStop ==
    /\ pcPriv = "checkStop"
    /\ IF bStopLNF THEN lnf' = "UNITIALIZED" /\ pcPriv' = "out"
                   ELSE UNCHANGED lnf /\ pcPriv' = "checkConn"
    /\ UNCHANGED <<adopter, mutexTriggerLAF, bIsStopLNF, saved, sigVars,
                   reqType, bSwitch2Private, halVars, lafVars>> /\ PrivUnchanged

PrivCheckConnected ==
    /\ pcPriv = "checkConn"
    /\ IF adopter = "CONNECTED" /\ ~isLAFCurrConnectedssid
       THEN lnf' = "CONNECTED_PRIVATE" /\ pcPriv' = "out" /\ UNCHANGED bIsStopLNF
       ELSE bIsStopLNF' = FALSE /\ pcPriv' = "lock" /\ UNCHANGED lnf
    /\ UNCHANGED <<adopter, mutexTriggerLAF, saved, sigVars,
                   reqType, bSwitch2Private, halVars, lafVars>> /\ PrivUnchanged

\* Mutant: the result of the lock is ignored.
PrivLockMutant ==
    /\ pcPriv = "lock"
    /\ mutexTriggerLAF' = "priv" /\ pcPriv' = "backoff"
    /\ UNCHANGED <<adopter, lnf, bIsStopLNF, saved, sigVars,
                   reqType, bSwitch2Private, halVars, lafVars>> /\ PrivUnchanged

PrivLock ==
    /\ pcPriv = "lock" /\ mutexTriggerLAF = "free"
    /\ mutexTriggerLAF' = "priv" /\ pcPriv' = "backoff"
    /\ UNCHANGED <<adopter, lnf, bIsStopLNF, saved, sigVars,
                   reqType, bSwitch2Private, halVars, lafVars>> /\ PrivUnchanged

\* doLnFBackoff sleeps with the mutex held; then the state is looked at again.
PrivBackoff ==
    /\ pcPriv = "backoff"
    /\ IF ConnectedPrivate
       THEN /\ mutexTriggerLAF' = "free" /\ pcPriv' = "out"
            /\ UNCHANGED <<lnf, lafVars>>
       ELSE /\ lnf' = IF lnf = "UNITIALIZED" THEN "IN_PROGRESS" ELSE lnf
            /\ LafStart /\ pcPriv' = "laf" /\ UNCHANGED mutexTriggerLAF
    /\ UNCHANGED <<adopter, bIsStopLNF, saved, sigVars, reqType, bSwitch2Private,
                   halVars>> /\ PrivUnchanged

PrivLafDone ==
    /\ pcPriv = "laf" /\ LafLeave
    /\ pcPriv' = IF lafOk THEN "success" ELSE "failed"
    /\ UNCHANGED <<adopter, lnf, bIsStopLNF, saved, sigVars, reqType, bSwitch2Private,
                   halVars>> /\ PrivUnchanged

PrivSuccess ==
    /\ pcPriv = "success" /\ pcPriv' = "out"
    /\ lnf' = IF reqType = "CONNECT_TO_LFSSID" THEN "CONNECTED_LNF" ELSE lnf
    /\ UNCHANGED <<adopter, mutexTriggerLAF, bIsStopLNF, saved, sigVars, reqType,
                   bSwitch2Private, halVars, lafVars>> /\ PrivUnchanged

PrivFailed ==
    /\ pcPriv = "failed"
    /\ IF bStopLNF
       THEN lnf' = "UNITIALIZED" /\ pcPriv' = "out" /\ UNCHANGED saved
       ELSE /\ \E ok \in BOOLEAN :
                 /\ lastConnectedSSID(ok)
                 /\ pcPriv' = IF ok /\ conf # NoSsid THEN "manual" ELSE "pause"
            /\ UNCHANGED lnf
    /\ UNCHANGED <<adopter, mutexTriggerLAF, bIsStopLNF, sigVars, reqType, bSwitch2Private,
                   lafVars, halVars>> /\ PrivUnchanged

\* The manual connect to the stored network after lost and found failed.
PrivManualConnect ==
    /\ pcPriv = "manual" /\ pcPriv' = "pause"
    /\ \E ok \in BOOLEAN : connect_withSSID(saved, TRUE, ok)
    /\ UNCHANGED <<lnf, mutexTriggerLAF, bIsStopLNF, saved, sigVars, reqType, bSwitch2Private,
                   lafVars>> /\ PrivUnchanged

PrivPause ==
    /\ pcPriv = "pause"
    /\ pcPriv' = IF lnf # "CONNECTED_PRIVATE" /\ bAutoSwitch THEN "choose" ELSE "out"
    /\ UNCHANGED <<adopter, lnf, mutexTriggerLAF, bIsStopLNF, saved, sigVars, reqType,
                   bSwitch2Private, halVars, lafVars>> /\ PrivUnchanged

PrivOut ==
    /\ pcPriv = "out" /\ pcPriv' = "top"
    /\ bIsStopLNF' = TRUE
    /\ UNCHANGED <<adopter, lnf, mutexTriggerLAF, saved, sigVars, reqType,
                   bSwitch2Private, halVars, lafVars>> /\ PrivUnchanged

----------------------------------------------------------------------------
(* lafConnThread: runs until the device is activated. *)

ActUnchanged == UNCHANGED <<adopter, saved, pcStart, userEvents, flagVars, halVars, cbVars,
                            privVars>>

\* The thread leaves: the loop flag is cleared, and some exits report the stop.
ActReturn(stopped) ==
    /\ pcAct' = "dead" /\ bLnfActivationLoop' = FALSE
    /\ bIsStopLNF' = (stopped \/ bIsStopLNF)

ActEnter ==
    /\ pcAct = "enter" /\ pcAct' = "outer"
    /\ lnf' = "IN_PROGRESS"
    /\ UNCHANGED <<bLnfActivationLoop, bIsStopLNF, mutexTriggerLAF, lafVars, sigVars>>
    /\ ActUnchanged

ActOuter ==
    /\ pcAct = "outer"
    /\ pcAct' = IF bDeviceActivated THEN "exit" ELSE "inner"
    /\ bLnfActivationLoop' = ~bDeviceActivated
    /\ UNCHANGED <<lnf, bIsStopLNF, mutexTriggerLAF, lafVars, sigVars>>
    /\ ActUnchanged

\* The inner loop ends at CONNECTED_LNF; bDeviceActivated is not read in it.
ActInner ==
    /\ pcAct = "inner"
    /\ pcAct' = IF lnf # "CONNECTED_LNF" THEN "check" ELSE "settle"
    /\ bIsStopLNF' = FALSE
    /\ UNCHANGED <<lnf, bLnfActivationLoop, mutexTriggerLAF, lafVars, sigVars>>
    /\ ActUnchanged

ActCheck ==
    /\ pcAct = "check"
    /\ IF adopter = "CONNECTED" /\ ~isLAFCurrConnectedssid
       THEN lnf' = "CONNECTED_PRIVATE" /\ ActReturn(TRUE)
       ELSE IF adopter = "CONNECTED"
       THEN pcAct' = "settle" /\ bIsStopLNF' = FALSE /\ UNCHANGED <<lnf, bLnfActivationLoop>>
       ELSE IF bStopLNF
       THEN lnf' = "UNITIALIZED" /\ ActReturn(TRUE)
       ELSE pcAct' = "lock" /\ UNCHANGED <<lnf, bLnfActivationLoop, bIsStopLNF>>
    /\ UNCHANGED <<mutexTriggerLAF, lafVars, sigVars>>
    /\ ActUnchanged

ActLock ==
    /\ pcAct = "lock" /\ mutexTriggerLAF = "free"
    /\ mutexTriggerLAF' = "act" /\ pcAct' = "backoff"
    /\ UNCHANGED <<lnf, bLnfActivationLoop, bIsStopLNF, lafVars, sigVars>>
    /\ ActUnchanged

ActBackoff ==
    /\ pcAct = "backoff"
    /\ IF lnf = "CONNECTED_PRIVATE"
       THEN /\ mutexTriggerLAF' = "free" /\ pcAct' = "settle" /\ bIsStopLNF' = FALSE
            /\ UNCHANGED lafVars
       ELSE /\ LafStart /\ pcAct' = "laf"
            /\ UNCHANGED <<mutexTriggerLAF, bIsStopLNF>>
    /\ UNCHANGED <<lnf, bLnfActivationLoop, sigVars>>
    /\ ActUnchanged

ActLafDone ==
    /\ pcAct = "laf" /\ LafLeave
    /\ IF lafOk THEN pcAct' = "settle" /\ lnf' = "CONNECTED_LNF" /\ bIsStopLNF' = FALSE
                ELSE pcAct' = "failed" /\ UNCHANGED <<lnf, bIsStopLNF>>
    /\ UNCHANGED <<bLnfActivationLoop, sigVars>>
    /\ ActUnchanged

\* Mutant: this return forgets bLnfActivationLoop.
ActFailedMutant ==
    /\ pcAct = "failed"
    /\ IF bStopLNF THEN pcAct' = "dead" /\ bIsStopLNF' = TRUE
       ELSE pcAct' = "inner" /\ UNCHANGED bIsStopLNF
    /\ UNCHANGED <<lnf, bLnfActivationLoop, mutexTriggerLAF, lafVars, sigVars>>
    /\ ActUnchanged

\* A failed attempt: leave if stopped, else sleep lnfRetryInSecs and try again.
ActFailed ==
    /\ pcAct = "failed"
    /\ IF bStopLNF THEN ActReturn(TRUE)
       ELSE pcAct' = "inner" /\ UNCHANGED <<bLnfActivationLoop, bIsStopLNF>>
    /\ UNCHANGED <<lnf, mutexTriggerLAF, lafVars, sigVars>>
    /\ ActUnchanged

\* After the sleep that ends a round.
ActSettled ==
    /\ pcAct = "settle" /\ pcAct' = "after"
    /\ lnf' = IF adopter = "CONNECTED" /\ ~isLAFCurrConnectedssid
              THEN "CONNECTED_PRIVATE" ELSE lnf
    /\ UNCHANGED <<bLnfActivationLoop, bIsStopLNF, mutexTriggerLAF, lafVars, sigVars>>
    /\ ActUnchanged

\* Mutant: the stop is not looked at between two rounds.
ActAfterMutant ==
    /\ pcAct = "after" /\ pcAct' = "outer"
    /\ UNCHANGED <<lnf, bLnfActivationLoop, bIsStopLNF, mutexTriggerLAF, lafVars, sigVars>>
    /\ ActUnchanged

ActAfter ==
    /\ pcAct = "after"
    /\ IF bStopLNF THEN ActReturn(FALSE)
       ELSE pcAct' = "outer" /\ UNCHANGED <<bLnfActivationLoop, bIsStopLNF>>
    /\ UNCHANGED <<lnf, mutexTriggerLAF, lafVars, sigVars>>
    /\ ActUnchanged

\* Activated: hand over to lafConnPrivThread when the LF SSID is up.
ActExit ==
    /\ pcAct = "exit" /\ pcAct' = "dead"
    /\ IF lnf = "CONNECTED_LNF"
       THEN bPrivConnectionLost' = FALSE /\ lnfConnectPrivCredentials(bLnfActivationLoop)
       ELSE UNCHANGED sigVars
    /\ UNCHANGED <<lnf, bLnfActivationLoop, bIsStopLNF, mutexTriggerLAF, lafVars>>
    /\ ActUnchanged

----------------------------------------------------------------------------
(* startLAFIfNecessary: on an activated device, one delayed start signal. *)

StartUnchanged == UNCHANGED <<adopter, lnf, mutexTriggerLAF, bIsStopLNF, userEvents, flagVars,
                              halVars, cbVars, lafVars, privVars, actVars>>

StartRead ==
    /\ pcStart \in {"first", "sleep"}
    /\ \E ok \in BOOLEAN : lastConnectedSSID(ok)
    /\ pcStart' = IF pcStart = "first" /\ saved' # NoSsid THEN "sleep" ELSE "second"
    /\ UNCHANGED sigVars /\ StartUnchanged

\* The signal is given before the flag that asks for the ten-second delay.
StartSignal ==
    /\ pcStart = "second"
    /\ IF (saved # LfSsid /\ adopter = "CONNECTED") \/ Warehouse
       THEN pcStart' = "dead" /\ UNCHANGED startLAF
       ELSE pcStart' = "lost" /\ startLAF' = TRUE
    /\ UNCHANGED <<saved, bPrivConnectionLost>> /\ StartUnchanged

StartLost ==
    /\ pcStart = "lost" /\ pcStart' = "dead"
    /\ bPrivConnectionLost' = TRUE
    /\ UNCHANGED <<saved, startLAF>> /\ StartUnchanged

----------------------------------------------------------------------------
(* The IARM event handler and the calls of wifiSrvMgr.cpp that reach the       *)
(* same state, each on a thread of the bus.                                    *)

UserStep ==
    /\ userEvents < MaxUserEvents /\ userEvents' = userEvents + 1
    /\ UNCHANGED <<lnf, mutexTriggerLAF, bIsStopLNF, pcStart, cbVars, lafVars, actVars,
                   pcPriv, reqType>>

\* _eventHandler: the authorisation service reports the activation.
EvtDeviceActivated ==
    /\ UserStep
    /\ bDeviceActivated' = TRUE
    /\ UNCHANGED <<adopter, saved, bStopLNF, bAutoSwitch, bSwitch2Private, sigVars, halVars>>

\* _eventHandler: SWITCH_TO_PRIVATE, with or without the activation.
EvtSwitchToPrivate(activated) ==
    /\ UserStep
    /\ bDeviceActivated' = (bDeviceActivated \/ activated)
    /\ IF bAutoSwitch
       THEN UNCHANGED <<bSwitch2Private, startLAF>>
       ELSE bSwitch2Private' = TRUE /\ lnfConnectPrivCredentials(bLnfActivationLoop)
    /\ UNCHANGED <<adopter, saved, bStopLNF, bAutoSwitch, bPrivConnectionLost, halVars>>

\* _eventHandler: STOP_LNF_WHILE_DISCONNECTED; clearing it restarts LNF.
EvtStopLNF(value) ==
    /\ UserStep
    /\ value # bStopLNF /\ bStopLNF' = value
    /\ IF ~value /\ lnf # "CONNECTED_PRIVATE"
       THEN lnfConnectPrivCredentials(bLnfActivationLoop) ELSE UNCHANGED startLAF
    /\ UNCHANGED <<adopter, saved, bDeviceActivated, bAutoSwitch, bSwitch2Private,
                   bPrivConnectionLost, halVars>>

\* _eventHandler: AUTO_SWITCH_TO_PRIVATE_ENABLED.
EvtAutoSwitch(value) ==
    /\ UserStep
    /\ value # bAutoSwitch /\ bAutoSwitch' = value
    /\ IF value /\ lnf # "CONNECTED_PRIVATE"
       THEN lnfConnectPrivCredentials(bLnfActivationLoop) ELSE UNCHANGED startLAF
    /\ UNCHANGED <<adopter, saved, bDeviceActivated, bStopLNF, bSwitch2Private,
                   bPrivConnectionLost, halVars>>

\* connect: the named network, or the saved one when none is named.
Connect(ssid) ==
    /\ UserStep
    /\ ssid # NoSsid
    /\ \E ok \in BOOLEAN : connect_withSSID(ssid, TRUE, ok)
    /\ UNCHANGED <<saved, flagVars, bSwitch2Private, sigVars>>

\* saveSSID only changes the copy in memory.
SaveSSID(ssid) ==
    /\ UserStep
    /\ saved' = ssid
    /\ UNCHANGED <<adopter, flagVars, bSwitch2Private, sigVars, halVars>>

\* disconnectSSID.
DisconnectSSID ==
    /\ UserStep /\ Room
    /\ \E ok \in BOOLEAN : wifi_disconnectEndpoint(ok)
    /\ UNCHANGED <<adopter, saved, flagVars, bSwitch2Private, sigVars>>

\* clearSSID: the supplicant's network is dropped; the copy in memory only when
\* the LF SSID is not the one in use.
ClearSSID ==
    /\ UserStep /\ Room
    /\ link' = NoSsid /\ target' = NoSsid
    /\ conf' \in {conf, NoSsid}                  \* wifi_clearSSIDInfo may fail
    /\ halEvents' = IF link = NoSsid THEN halEvents
                    ELSE Append(halEvents, [code |-> "DISCONNECT", ssid |-> link])
    /\ saved' = IF isLAFCurrConnectedssid THEN saved ELSE NoSsid
    /\ UNCHANGED <<adopter, flagVars, bSwitch2Private, sigVars, reports, silentLoss>>

----------------------------------------------------------------------------
Hal == HalConnects \/ \E code \in Codes : HalReports(code)
Callback == CbConnect \/ CbConnectDone \/ CbDisconnect \/ CbConnecting \/ CbLnfError \/ CbOtherError
Laf == \/ laf_wifi_connect \/ LafTearDown \/ LafConnect \/ LafPoll \/ LafServer
       \/ laf_wifi_disconnect \/ LafDiscPoll \/ LafFinish
lafConnPrivThread ==
    \/ PrivTop \/ PrivTakeSignal \/ PrivEntry \/ PrivSettled \/ PrivChoose \/ PrivCheckStop
    \/ PrivCheckConnected \/ PrivLock \/ PrivBackoff \/ PrivLafDone \/ PrivSuccess
    \/ PrivFailed \/ PrivManualConnect \/ PrivPause \/ PrivOut
lafConnThread ==
    \/ ActEnter \/ ActOuter \/ ActInner \/ ActCheck \/ ActLock \/ ActBackoff \/ ActLafDone
    \/ ActFailed \/ ActSettled \/ ActAfter \/ ActExit
startLAFIfNecessary == StartRead \/ StartSignal \/ StartLost
User == \/ EvtDeviceActivated
        \/ \E b \in BOOLEAN : EvtSwitchToPrivate(b) \/ EvtStopLNF(b) \/ EvtAutoSwitch(b)
        \/ Connect(saved) \/ \E ssid \in PrivateSsids : Connect(ssid) \/ SaveSSID(ssid)
        \/ DisconnectSSID \/ ClearSSID

Next == Hal \/ Callback \/ Laf \/ lafConnPrivThread \/ lafConnThread \/ startLAFIfNecessary \/ User

\* Threads run: sleeps end, the HAL delivers what it queued, the laf library
\* returns, and a thread that waits for mutexTriggerLAF while the other keeps
\* releasing it gets it in the end.  Nothing obliges the network to be there.
Fairness ==
    /\ WF_vars(Callback) /\ WF_vars(Laf)
    /\ WF_vars(lafConnPrivThread) /\ SF_vars(PrivLock)
    /\ WF_vars(lafConnThread) /\ SF_vars(ActLock)
    /\ WF_vars(startLAFIfNecessary)

Spec == Init /\ [][Next]_vars
FairSpec == Spec /\ Fairness

----------------------------------------------------------------------------
(* Properties. *)

PrivInTrigger == pcPriv \in {"backoff", "laf"}
ActInTrigger == pcAct \in {"backoff", "laf"}

\* mutexTriggerLAF is held by exactly the thread that is between its lock and
\* its unlock, and the laf library runs for the thread that holds it: the two
\* LNF threads never drive the radio at the same time.
TriggerExclusion ==
    /\ mutexTriggerLAF = "priv" <=> PrivInTrigger
    /\ mutexTriggerLAF = "act" <=> ActInTrigger
    /\ lafPc # "idle" <=> (pcPriv = "laf" \/ pcAct = "laf")

\* bLnfActivationLoop makes lnfConnectPrivCredentials drop start signals, so it
\* must be set only while lafConnThread is there to serve them: every return
\* of the thread clears it.
ActivationLoopHasThread ==
    bLnfActivationLoop => pcAct \in ActPcs \ {"none", "enter", "exit", "dead"}

\* The LF SSID is never taken for the household's network: neither the copy in
\* memory nor the supplicant's stored network becomes the LF SSID, though the
\* LNF threads connect to it and re-read the stored network at will.
LfSsidNeverStored == saved # LfSsid /\ conf # LfSsid

\* A start signal is served: lafConnPrivThread runs lost and found for it,
\* unless LNF is stopped or Wi-Fi has come up meanwhile.
StartSignalServed ==
    startLAF ~> (pcPriv = "laf" \/ bStopLNF \/ adopter = "CONNECTED")

\* Once bStopLNFWhileDisconnected stays set, both threads leave lost and found
\* for good, lafConnThread by returning.
StopLeavesLnf ==
    <>[]bStopLNF => <>[](mutexTriggerLAF = "free" /\ pcAct \in {"none", "dead"})

\* When every callback has been handled, CONNECTED means that there is an
\* association, or that it ended with the one code wifi_status_action only
\* logs ("DISCONNECTED,WIFI_HAL_ERROR_UNKNOWN").  The codes it drops because
\* they repeat the previous one hide no loss.
KnownLossNoticed ==
    adopter = "CONNECTED" /\ halEvents = <<>> /\ ~silentLoss => link # NoSsid

=============================================================================
