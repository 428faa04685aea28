-------------------------- MODULE LostFoundProofs --------------------------
(***************************************************************************)
(* Proofs about LostFound for every set of private networks, every HAL     *)
(* code set and every bound.                                               *)
(***************************************************************************)
EXTENDS LostFound, SequenceTheorems, TLAPS

\* The state Start() leaves is well typed.
LEMMA InitType == Init => TypeOK
<1> SUFFICES ASSUME Init PROVE TypeOK
  OBVIOUS
<1>1. bDeviceActivated \in BOOLEAN
  BY BoundAssumption DEF Init
<1>2. pcAct \in ActPcs /\ pcStart \in StartPcs
  BY DEF Init, ActPcs, StartPcs
<1>3. halEvents \in Seq(HalEvents)
  BY DEF Init
<1>4. /\ conf \in OptSsids /\ saved \in OptSsids /\ target \in OptSsids
      /\ link \in OptSsids /\ callback \in OptSsids /\ lafSsid \in OptSsids
  BY DEF Init, OptSsids, Ssids
<1>5. reports \in 0..MaxReports /\ userEvents \in 0..MaxUserEvents
  BY BoundAssumption DEF Init
<1> QED BY <1>1, <1>2, <1>3, <1>4, <1>5 DEF Init, TypeOK, PrivPcs, LafPcs

\* What the HAL queues of its own accord is a callback wifi_status_action knows.
LEMMA HalType == TypeOK /\ Hal => TypeOK'
<1> SUFFICES ASSUME TypeOK, Hal PROVE TypeOK'
  OBVIOUS
<1> USE DEF TypeOK, flagVars, halVars, cbVars, lafVars, privVars, actVars, sigVars
<1>1. CASE HalConnects
  <2>1. [code |-> "CONNECT", ssid |-> target] \in HalEvents
    BY DEF HalEvents
  <2>2. halEvents' \in Seq(HalEvents) /\ link' \in OptSsids /\ target' \in OptSsids
    BY <1>1, <2>1 DEF HalConnects, OptSsids
  <2>3. silentLoss' \in BOOLEAN
    BY <1>1, Zenon DEF HalConnects
  <2> QED BY <1>1, <2>2, <2>3 DEF HalConnects
<1>2. ASSUME NEW code \in Codes, HalReports(code) PROVE TypeOK'
  <2>1. [code |-> code, ssid |-> link] \in HalEvents
    BY BoundAssumption DEF HalEvents
  <2>2. halEvents' \in Seq(HalEvents) /\ link' \in OptSsids /\ target' \in OptSsids
    BY <1>2, <2>1 DEF HalReports, OptSsids
  <2>3. silentLoss' \in BOOLEAN
    BY <1>2, Zenon DEF HalReports
  <2>4. reports' \in 0..MaxReports
    BY <1>2, BoundAssumption DEF HalReports
  <2> QED BY <1>2, <2>2, <2>3, <2>4 DEF HalReports
<1> QED BY <1>1, <1>2 DEF Hal

\* Every branch of wifi_status_action keeps the types.
LEMMA CallbackType == TypeOK /\ Callback => TypeOK'
<1> SUFFICES ASSUME TypeOK, Callback PROVE TypeOK'
  OBVIOUS
<1> USE DEF TypeOK, flagVars, halVars, cbVars, lafVars, privVars, actVars, sigVars
<1>1. CASE CbConnect
  <2>1. Head(halEvents) \in HalEvents
    BY <1>1 DEF CbConnect, Delivers
  <2>2. callback' \in OptSsids /\ saved' \in OptSsids
    BY <1>1, <2>1 DEF CbConnect, HalEvents, lastConnectedSSID
  <2>3. halEvents' \in Seq(HalEvents)
    BY <1>1 DEF CbConnect, Delivers
  <2> QED BY <1>1, <2>2, <2>3 DEF CbConnect, Delivers
<1>2. CASE CbConnectDone
  <2>1. isLAFCurrConnectedssid' \in BOOLEAN
    BY <1>2, Zenon DEF CbConnectDone
  <2>2. saved' \in OptSsids /\ callback' \in OptSsids
    BY <1>2 DEF CbConnectDone, lastConnectedSSID, OptSsids
  <2>3. bStopLNF' \in BOOLEAN
    BY <1>2 DEF CbConnectDone
  <2>4. lnf' \in {"CONNECTED_LNF", "CONNECTED_PRIVATE"}
    BY <1>2 DEF CbConnectDone
  <2> QED BY <1>2, <2>1, <2>2, <2>3, <2>4 DEF CbConnectDone
<1>3. CASE CbDisconnect
  BY <1>3 DEF CbDisconnect, Delivers
<1>4. CASE CbConnecting
  BY <1>4 DEF CbConnecting, Delivers, ConnCodes
<1>5. CASE CbLnfError
  <2>1. startLAF' \in BOOLEAN
    BY <1>5, Zenon DEF CbLnfError, lnfConnectPrivCredentials
  <2>2. halEvents' \in Seq(HalEvents)
    BY <1>5 DEF CbLnfError, Delivers
  <2>3. prevCode' \in ConnCodes /\ adopter' \in {adopter, "DISCONNECTED"}
    BY <1>5 DEF CbLnfError, Delivers, LnfCodes, ConnCodes
  <2>4. bPrivConnectionLost' \in BOOLEAN
    BY <1>5 DEF CbLnfError
  <2> QED BY <1>5, <2>1, <2>2, <2>3, <2>4 DEF CbLnfError, Delivers
<1>6. CASE CbOtherError
  BY <1>6 DEF CbOtherError, Delivers
<1> QED BY <1>1, <1>2, <1>3, <1>4, <1>5, <1>6 DEF Callback

\* wifi_disconnectEndpoint leaves the HAL's queue of callbacks well typed.
LEMMA DisconnectType ==
  ASSUME TypeOK, NEW ok \in BOOLEAN, wifi_disconnectEndpoint(ok)
  PROVE  link' \in OptSsids /\ target' \in OptSsids /\ halEvents' \in Seq(HalEvents)
<1>1. [code |-> "DISCONNECT", ssid |-> link] \in HalEvents
  BY DEF TypeOK, HalEvents
<1> QED BY <1>1 DEF TypeOK, wifi_disconnectEndpoint, OptSsids

\* The callbacks made inside triggerLostFound keep the types.
LEMMA LafType == TypeOK /\ Laf => TypeOK'
<1> SUFFICES ASSUME TypeOK, Laf PROVE TypeOK'
  OBVIOUS
<1> USE DEF TypeOK, flagVars, halVars, cbVars, lafVars, privVars, actVars, sigVars
<1>1. CASE laf_wifi_connect
  <2>1. lafOk' \in BOOLEAN
    BY <1>1, Zenon DEF laf_wifi_connect, LafReturn
  <2>2. /\ saved' \in OptSsids
        /\ lnf' \in {lnf, "IN_PROGRESS"}
        /\ lafPc' \in LafPcs
        /\ lafSsid' = lafSsid
    BY <1>1 DEF laf_wifi_connect, LafReturn, lastConnectedSSID, LafPcs
  <2> QED BY <1>1, <2>1, <2>2 DEF laf_wifi_connect, LafUnchanged
<1>2. CASE LafTearDown
  <2>1. /\ link' \in OptSsids /\ target' \in OptSsids
        /\ halEvents' \in Seq(HalEvents)
        /\ UNCHANGED <<conf, reports, silentLoss>>
    BY <1>2, DisconnectType DEF LafTearDown, wifi_disconnectEndpoint
  <2> QED BY <1>2, <2>1 DEF LafTearDown, LafUnchanged, LafPcs
<1>3. CASE LafConnect
  <2>1. lafOk' \in BOOLEAN
    BY <1>3, Zenon DEF LafConnect, connect_withSSID, wifi_connectEndpoint, LafReturn
  <2>2. /\ adopter' \in {"DISCONNECTED", "CONNECTING", "CONNECTED", "FAILED"} 
        /\ target' \in OptSsids 
        /\ conf' \in OptSsids 
        /\ lafPc' \in LafPcs
    BY <1>3 DEF LafConnect, connect_withSSID, wifi_connectEndpoint, LafReturn, LafPcs
  <2> QED BY <1>3, <2>1, <2>2 DEF LafConnect, LafUnchanged, connect_withSSID, wifi_connectEndpoint, LafReturn
<1>4. CASE LafPoll
  <2>1. lafOk' \in BOOLEAN
    BY <1>4, Zenon DEF LafPoll, LafReturn
  <2>2. /\ lnf' \in {"UNITIALIZED", "IN_PROGRESS", "CONNECTED_LNF", "CONNECTED_PRIVATE"} 
        /\ lafPc' \in LafPcs
    BY <1>4 DEF LafPoll, LafReturn, LafPcs
  <2> QED BY <1>4, <2>1, <2>2 DEF LafPoll, LafUnchanged, LafReturn
<1>5. CASE LafServer
  <2>1. lafOk' \in BOOLEAN
    BY <1>5, Zenon DEF LafServer, OptSsids, Ssids
  <2>2. /\ lafSsid' \in OptSsids 
        /\ lafPc' \in LafPcs
    BY <1>5 DEF LafServer, OptSsids, Ssids, LafPcs
  <2> QED BY <1>5, <2>1, <2>2 DEF LafServer, LafUnchanged
<1>6. CASE laf_wifi_disconnect
  <2>1. lafOk' \in BOOLEAN
    BY <1>6, Zenon DEF laf_wifi_disconnect, LafDisconnectFails
  <2>2. /\ link' \in OptSsids /\ target' \in OptSsids
        /\ halEvents' \in Seq(HalEvents)
        /\ UNCHANGED <<conf, reports, silentLoss>>
    BY <1>6, DisconnectType DEF laf_wifi_disconnect, wifi_disconnectEndpoint
  <2>3. lnf' \in {lnf, "IN_PROGRESS"} /\ lafPc' \in LafPcs /\ lafSsid' = lafSsid
    BY <1>6 DEF laf_wifi_disconnect, LafDisconnectFails, LafPcs
  <2> QED BY <1>6, <2>1, <2>2, <2>3 DEF laf_wifi_disconnect, LafUnchanged
<1>7. CASE LafDiscPoll
  <2>1. lafOk' \in BOOLEAN
    BY <1>7, Zenon DEF LafDiscPoll, LafDisconnectFails
  <2>2. /\ lafPc' \in LafPcs
    BY <1>7 DEF LafDiscPoll, LafDisconnectFails, LafPcs
  <2> QED BY <1>7, <2>1, <2>2 DEF LafDiscPoll, LafUnchanged, LafDisconnectFails
<1>8. CASE LafFinish
  BY <1>8 DEF LafFinish, LafPcs
<1> QED BY <1>1, <1>2, <1>3, <1>4, <1>5, <1>6, <1>7, <1>8 DEF Laf

\* Every step of lafConnPrivThread keeps the types.
LEMMA PrivType == TypeOK /\ lafConnPrivThread => TypeOK'
<1> SUFFICES ASSUME TypeOK, lafConnPrivThread PROVE TypeOK'
  OBVIOUS
<1> USE DEF TypeOK, flagVars, halVars, cbVars, lafVars, privVars, actVars, sigVars
<1>1. CASE PrivTop
  BY <1>1 DEF PrivTop, PrivUnchanged, PrivPcs, ConnectedPrivate
<1>2. CASE PrivTakeSignal
  <2>1. startLAF' \in BOOLEAN
    BY <1>2, Zenon DEF PrivTakeSignal, PrivUnchanged
  <2>2. /\ pcPriv' \in PrivPcs
    BY <1>2 DEF PrivTakeSignal, PrivPcs
  <2> QED BY <1>2, <2>1, <2>2 DEF PrivTakeSignal, PrivUnchanged
<1>3. CASE PrivEntry
  <2>1. bPrivConnectionLost' \in BOOLEAN
    BY <1>3, Zenon DEF PrivEntry, PrivUnchanged
  <2>2. /\ pcPriv' \in PrivPcs 
        /\ lnf' \in {"UNITIALIZED", "IN_PROGRESS", "CONNECTED_LNF", "CONNECTED_PRIVATE"}
    BY <1>3 DEF PrivEntry, PrivPcs
  <2> QED BY <1>3, <2>1, <2>2 DEF PrivEntry, PrivUnchanged
<1>4. CASE PrivSettled
  BY <1>4 DEF PrivSettled, PrivUnchanged, PrivPcs
<1>5. CASE PrivChoose
  <2>1. bSwitch2Private' \in BOOLEAN
    BY <1>5, Zenon DEF PrivChoose, PrivUnchanged
  <2>2. /\ pcPriv' \in PrivPcs 
        /\ lnf' \in {"UNITIALIZED", "IN_PROGRESS", "CONNECTED_LNF", "CONNECTED_PRIVATE"} 
        /\ reqType' \in {"CONNECT_TO_LFSSID", "CONNECT_TO_PRIV_WIFI", "SWITCH_TO_PRIVATE"}
    BY <1>5 DEF PrivChoose, PrivPcs
  <2> QED BY <1>5, <2>1, <2>2 DEF PrivChoose, PrivUnchanged
<1>6. CASE PrivCheckStop
  BY <1>6 DEF PrivCheckStop, PrivUnchanged, PrivPcs
<1>7. CASE PrivCheckConnected
  <2>1. bIsStopLNF' \in BOOLEAN
    BY <1>7, Zenon DEF PrivCheckConnected, PrivUnchanged
  <2>2. /\ pcPriv' \in PrivPcs 
        /\ lnf' \in {"UNITIALIZED", "IN_PROGRESS", "CONNECTED_LNF", "CONNECTED_PRIVATE"}
    BY <1>7 DEF PrivCheckConnected, PrivPcs
  <2> QED BY <1>7, <2>1, <2>2 DEF PrivCheckConnected, PrivUnchanged
<1>8. CASE PrivLock
  BY <1>8 DEF PrivLock, PrivUnchanged, PrivPcs
<1>9. CASE PrivBackoff
  <2>1. lafOk' \in BOOLEAN
    BY <1>9, Zenon DEF PrivBackoff, PrivUnchanged, LafStart, OptSsids, Ssids
  <2>2. /\ pcPriv' \in PrivPcs 
        /\ lnf' \in {"UNITIALIZED", "IN_PROGRESS", "CONNECTED_LNF", "CONNECTED_PRIVATE"} 
        /\ mutexTriggerLAF' \in {"free", "priv", "act"} 
        /\ lafPc' \in LafPcs 
        /\ lafSsid' \in OptSsids
    BY <1>9 DEF PrivBackoff, LafStart, OptSsids, Ssids, LafPcs, PrivPcs
  <2> QED BY <1>9, <2>1, <2>2 DEF PrivBackoff, PrivUnchanged, LafStart
<1>10. CASE PrivLafDone
  <2>1. lafOk' \in BOOLEAN
    BY <1>10, Zenon DEF PrivLafDone, LafLeave, OptSsids
  <2>2. /\ pcPriv' \in PrivPcs 
        /\ mutexTriggerLAF' \in {"free", "priv", "act"} 
        /\ lafPc' \in LafPcs 
        /\ lafSsid' \in OptSsids
    BY <1>10 DEF PrivLafDone, LafLeave, OptSsids, LafPcs, PrivPcs
  <2> QED BY <1>10, <2>1, <2>2 DEF PrivLafDone, PrivUnchanged, LafLeave
<1>11. CASE PrivSuccess
  BY <1>11 DEF PrivSuccess, PrivUnchanged, PrivPcs
<1>12. CASE PrivFailed
  <2>2. /\ pcPriv' \in PrivPcs 
        /\ lnf' \in {"UNITIALIZED", "IN_PROGRESS", "CONNECTED_LNF", "CONNECTED_PRIVATE"} 
        /\ saved' \in OptSsids
    BY <1>12 DEF PrivFailed, lastConnectedSSID, PrivPcs
  <2>3. /\ PrivUnchanged
        /\ UNCHANGED <<adopter, mutexTriggerLAF, bIsStopLNF, sigVars, reqType, bSwitch2Private,
                       lafVars, halVars>>
    BY <1>12 DEF PrivFailed
  <2> QED BY <2>2, <2>3 DEF PrivUnchanged
<1>13. CASE PrivManualConnect
  BY <1>13 DEF PrivManualConnect, PrivUnchanged, PrivPcs, connect_withSSID, wifi_connectEndpoint
<1>14. CASE PrivPause
  BY <1>14 DEF PrivPause, PrivUnchanged, PrivPcs
<1>15. CASE PrivOut
  BY <1>15 DEF PrivOut, PrivUnchanged, PrivPcs
<1> QED BY <1>1, <1>2, <1>3, <1>4, <1>5, <1>6, <1>7, <1>8, <1>9, <1>10, <1>11, <1>12, <1>13, <1>14,
           <1>15 DEF lafConnPrivThread

\* Every step of lafConnThread keeps the types.
LEMMA ActType == TypeOK /\ lafConnThread => TypeOK'
<1> SUFFICES ASSUME TypeOK, lafConnThread PROVE TypeOK'
  OBVIOUS
<1> USE DEF TypeOK, flagVars, halVars, cbVars, lafVars, privVars, actVars, sigVars
<1>1. CASE ActEnter
  BY <1>1 DEF ActEnter, ActUnchanged, ActPcs
<1>2. CASE ActOuter
  BY <1>2 DEF ActOuter, ActUnchanged, ActPcs
<1>3. CASE ActInner
  <2>1. bIsStopLNF' \in BOOLEAN
    BY <1>3, Zenon DEF ActInner, ActUnchanged
  <2>2. /\ pcAct' \in ActPcs
    BY <1>3 DEF ActInner, ActPcs
  <2> QED BY <1>3, <2>1, <2>2 DEF ActInner, ActUnchanged
<1>4. CASE ActCheck
  <2>1. bIsStopLNF' \in BOOLEAN /\ bLnfActivationLoop' \in BOOLEAN
    BY <1>4, Zenon DEF ActCheck, ActUnchanged, ActReturn
  <2>2. /\ pcAct' \in ActPcs 
        /\ lnf' \in {"UNITIALIZED", "IN_PROGRESS", "CONNECTED_LNF", "CONNECTED_PRIVATE"}
    BY <1>4 DEF ActCheck, ActReturn, ActPcs
  <2> QED BY <1>4, <2>1, <2>2 DEF ActCheck, ActUnchanged, ActReturn
<1>5. CASE ActLock
  BY <1>5 DEF ActLock, ActUnchanged, ActPcs
<1>6. CASE ActBackoff
  <2>1. bIsStopLNF' \in BOOLEAN /\ lafOk' \in BOOLEAN
    BY <1>6, Zenon DEF ActBackoff, ActUnchanged, LafStart, OptSsids, Ssids
  <2>2. /\ pcAct' \in ActPcs 
        /\ mutexTriggerLAF' \in {"free", "priv", "act"} 
        /\ lafPc' \in LafPcs 
        /\ lafSsid' \in OptSsids
    BY <1>6 DEF ActBackoff, LafStart, OptSsids, Ssids, ActPcs, LafPcs
  <2> QED BY <1>6, <2>1, <2>2 DEF ActBackoff, ActUnchanged, LafStart
<1>7. CASE ActLafDone
  <2>1. bIsStopLNF' \in BOOLEAN /\ lafOk' \in BOOLEAN
    BY <1>7, Zenon DEF ActLafDone, LafLeave, OptSsids
  <2>2. /\ pcAct' \in ActPcs 
        /\ lnf' \in {"UNITIALIZED", "IN_PROGRESS", "CONNECTED_LNF", "CONNECTED_PRIVATE"} 
        /\ mutexTriggerLAF' \in {"free", "priv", "act"} 
        /\ lafPc' \in LafPcs 
        /\ lafSsid' \in OptSsids
    BY <1>7 DEF ActLafDone, LafLeave, OptSsids, ActPcs, LafPcs
  <2> QED BY <1>7, <2>1, <2>2 DEF ActLafDone, ActUnchanged, LafLeave
<1>8. CASE ActFailed
  <2>1. bIsStopLNF' \in BOOLEAN /\ bLnfActivationLoop' \in BOOLEAN
    BY <1>8, Zenon DEF ActFailed, ActUnchanged, ActReturn
  <2>2. /\ pcAct' \in ActPcs
    BY <1>8 DEF ActFailed, ActReturn, ActPcs
  <2> QED BY <1>8, <2>1, <2>2 DEF ActFailed, ActUnchanged, ActReturn
<1>9. CASE ActSettled
  BY <1>9 DEF ActSettled, ActUnchanged, ActPcs
<1>10. CASE ActAfter
  <2>1. bIsStopLNF' \in BOOLEAN /\ bLnfActivationLoop' \in BOOLEAN
    BY <1>10, Zenon DEF ActAfter, ActUnchanged, ActReturn
  <2>2. /\ pcAct' \in ActPcs
    BY <1>10 DEF ActAfter, ActReturn, ActPcs
  <2> QED BY <1>10, <2>1, <2>2 DEF ActAfter, ActUnchanged, ActReturn
<1>11. CASE ActExit
  <2>1. bPrivConnectionLost' \in BOOLEAN /\ startLAF' \in BOOLEAN
    BY <1>11, Zenon DEF ActExit, ActUnchanged, lnfConnectPrivCredentials
  <2>2. /\ pcAct' \in ActPcs
    BY <1>11 DEF ActExit, lnfConnectPrivCredentials, ActPcs
  <2> QED BY <1>11, <2>1, <2>2 DEF ActExit, ActUnchanged, lnfConnectPrivCredentials
<1> QED BY <1>1, <1>2, <1>3, <1>4, <1>5, <1>6, <1>7, <1>8, <1>9, <1>10, <1>11 DEF lafConnThread

\* Every step of startLAFIfNecessary keeps the types.
LEMMA StartType == TypeOK /\ startLAFIfNecessary => TypeOK'
<1> SUFFICES ASSUME TypeOK, startLAFIfNecessary PROVE TypeOK'
  OBVIOUS
<1> USE DEF TypeOK, flagVars, halVars, cbVars, lafVars, privVars, actVars, sigVars
<1>1. CASE StartRead
  BY <1>1 DEF StartRead, StartUnchanged, StartPcs, lastConnectedSSID
<1>2. CASE StartSignal
  <2>1. startLAF' \in BOOLEAN
    BY <1>2, Zenon DEF StartSignal, StartUnchanged
  <2>2. /\ pcStart' \in StartPcs
    BY <1>2 DEF StartSignal, StartPcs
  <2> QED BY <1>2, <2>1, <2>2 DEF StartSignal, StartUnchanged
<1>3. CASE StartLost
  BY <1>3 DEF StartLost, StartUnchanged, StartPcs
<1> QED BY <1>1, <1>2, <1>3 DEF startLAFIfNecessary

\* Every IARM event and call of wifiSrvMgr.cpp keeps the types.
LEMMA UserType == TypeOK /\ User => TypeOK'
<1> SUFFICES ASSUME TypeOK, User PROVE TypeOK'
  OBVIOUS
<1> USE DEF TypeOK, flagVars, halVars, cbVars, lafVars, privVars, actVars, sigVars
<1>1. UserStep => userEvents' \in 0..MaxUserEvents
  BY BoundAssumption DEF UserStep
<1>2. CASE EvtDeviceActivated
  BY <1>1, <1>2 DEF EvtDeviceActivated, UserStep
<1>3. ASSUME NEW b \in BOOLEAN, EvtSwitchToPrivate(b) PROVE TypeOK'
  <2>1. bDeviceActivated' \in BOOLEAN /\ bSwitch2Private' \in BOOLEAN /\ startLAF' \in BOOLEAN
    BY <1>3, Zenon DEF EvtSwitchToPrivate, lnfConnectPrivCredentials
  <2> QED BY <1>1, <1>3, <2>1 DEF EvtSwitchToPrivate, UserStep
<1>4. ASSUME NEW b \in BOOLEAN, EvtStopLNF(b) PROVE TypeOK'
  <2>1. bStopLNF' \in BOOLEAN /\ startLAF' \in BOOLEAN
    BY <1>4, Zenon DEF EvtStopLNF, lnfConnectPrivCredentials
  <2> QED BY <1>1, <1>4, <2>1 DEF EvtStopLNF, UserStep
<1>5. ASSUME NEW b \in BOOLEAN, EvtAutoSwitch(b) PROVE TypeOK'
  <2>1. bAutoSwitch' \in BOOLEAN /\ startLAF' \in BOOLEAN
    BY <1>5, Zenon DEF EvtAutoSwitch, lnfConnectPrivCredentials
  <2> QED BY <1>1, <1>5, <2>1 DEF EvtAutoSwitch, UserStep
<1>6. ASSUME NEW ssid \in OptSsids, Connect(ssid) PROVE TypeOK'
  <2>1. /\ adopter' = "CONNECTING" /\ target' \in OptSsids /\ conf' \in OptSsids
        /\ UNCHANGED <<link, halEvents, reports, silentLoss>>
    BY <1>6 DEF Connect, connect_withSSID, wifi_connectEndpoint
  <2> QED BY <1>1, <1>6, <2>1 DEF Connect, UserStep
<1>7. ASSUME NEW ssid \in PrivateSsids, SaveSSID(ssid) PROVE TypeOK'
  BY <1>1, <1>7 DEF SaveSSID, UserStep, OptSsids, Ssids
<1>8. CASE DisconnectSSID
  <2>1. /\ link' \in OptSsids /\ target' \in OptSsids
        /\ halEvents' \in Seq(HalEvents)
        /\ UNCHANGED <<conf, reports, silentLoss>>
    BY <1>8, DisconnectType DEF DisconnectSSID, wifi_disconnectEndpoint
  <2> QED BY <1>1, <1>8, <2>1 DEF DisconnectSSID, UserStep
<1>9. CASE ClearSSID
  <2>1. [code |-> "DISCONNECT", ssid |-> link] \in HalEvents
    BY DEF HalEvents
  <2>2. /\ link' \in OptSsids /\ target' \in OptSsids /\ conf' \in OptSsids
        /\ saved' \in OptSsids /\ halEvents' \in Seq(HalEvents)
    BY <1>9, <2>1 DEF ClearSSID, OptSsids
  <2> QED BY <1>1, <1>9, <2>2 DEF ClearSSID, UserStep
<1> QED BY <1>2, <1>3, <1>4, <1>5, <1>6, <1>7, <1>8, <1>9 DEF User, OptSsids, Ssids

\* Every variable keeps its type: no HAL code, event or interleaving of the
\* LNF threads takes gWifiAdopterStatus or gWifiLNFStatus out of the states
\* the rest of the manager knows.
THEOREM TypeCorrect == Spec => []TypeOK
<1>1. TypeOK /\ [Next]_vars => TypeOK'
  <2> SUFFICES ASSUME TypeOK, [Next]_vars PROVE TypeOK'
    OBVIOUS
  <2>1. CASE UNCHANGED vars
    BY <2>1 DEF TypeOK, vars, flagVars, halVars, cbVars, lafVars, privVars, actVars, sigVars
  <2> QED BY <2>1, HalType, CallbackType, LafType, PrivType, ActType, StartType, UserType DEF Next
<1> QED BY <1>1, InitType, PTL DEF Spec

----------------------------------------------------------------------------
(* Mutual exclusion of the two LNF threads.                                    *)

\* The HAL, its callbacks, the delayed start and the bus touch neither the
\* mutex nor the program points it guards.
LEMMA OthersKeepTrigger ==
  Hal \/ Callback \/ startLAFIfNecessary \/ User
  => UNCHANGED <<mutexTriggerLAF, pcPriv, pcAct, lafPc>>
<1> USE DEF cbVars, lafVars, privVars, actVars
<1>1. Hal => UNCHANGED <<mutexTriggerLAF, pcPriv, pcAct, lafPc>>
  BY DEF Hal, HalConnects, HalReports
<1>2. Callback => UNCHANGED <<mutexTriggerLAF, pcPriv, pcAct, lafPc>>
  BY DEF Callback, CbConnect, CbConnectDone, CbDisconnect, CbConnecting, CbLnfError,
         CbOtherError, Delivers
<1>3. startLAFIfNecessary => UNCHANGED <<mutexTriggerLAF, pcPriv, pcAct, lafPc>>
  BY DEF startLAFIfNecessary, StartRead, StartSignal, StartLost, StartUnchanged
<1>4. User => UNCHANGED <<mutexTriggerLAF, pcPriv, pcAct, lafPc>>
  <2>1. UserStep => UNCHANGED <<mutexTriggerLAF, pcPriv, pcAct, lafPc>>
    BY DEF UserStep
  <2> QED BY <2>1 DEF User, EvtDeviceActivated, EvtSwitchToPrivate, EvtStopLNF, EvtAutoSwitch,
                      Connect, SaveSSID, DisconnectSSID, ClearSSID
<1> QED BY <1>1, <1>2, <1>3, <1>4

\* Inside triggerLostFound the library moves, and does not leave by itself.
LEMMA LafKeepsTrigger ==
  Laf => /\ lafPc # "idle" /\ lafPc' # "idle"
         /\ UNCHANGED <<mutexTriggerLAF, pcPriv, pcAct>>
  BY DEF Laf, laf_wifi_connect, LafTearDown, LafConnect, LafPoll, LafServer,
         laf_wifi_disconnect, LafDiscPoll, LafFinish, LafReturn, LafDisconnectFails,
         LafUnchanged, privVars, actVars

\* lafConnPrivThread takes and releases mutexTriggerLAF around triggerLostFound on
\* every path, the ones that skip the call included.
LEMMA PrivExclusion == TypeOK /\ TriggerExclusion /\ lafConnPrivThread => TriggerExclusion'
<1> SUFFICES ASSUME TypeOK, TriggerExclusion, lafConnPrivThread PROVE TriggerExclusion'
  OBVIOUS
<1> USE DEF TriggerExclusion, PrivInTrigger, ActInTrigger, lafVars, privVars, actVars
<1>1. CASE PrivTop
  BY <1>1 DEF PrivTop, PrivUnchanged
<1>2. CASE PrivTakeSignal
  BY <1>2 DEF PrivTakeSignal, PrivUnchanged
<1>3. CASE PrivEntry
  BY <1>3 DEF PrivEntry, PrivUnchanged
<1>4. CASE PrivSettled
  BY <1>4 DEF PrivSettled, PrivUnchanged
<1>5. CASE PrivChoose
  BY <1>5 DEF PrivChoose, PrivUnchanged
<1>6. CASE PrivCheckStop
  BY <1>6 DEF PrivCheckStop, PrivUnchanged
<1>7. CASE PrivCheckConnected
  BY <1>7 DEF PrivCheckConnected, PrivUnchanged
<1>8. CASE PrivLock
  BY <1>8 DEF PrivLock, PrivUnchanged
<1>9. CASE PrivBackoff
  BY <1>9 DEF PrivBackoff, PrivUnchanged, LafStart
<1>10. CASE PrivLafDone
  BY <1>10 DEF PrivLafDone, PrivUnchanged, LafLeave
<1>11. CASE PrivSuccess
  BY <1>11 DEF PrivSuccess, PrivUnchanged
<1>12. CASE PrivFailed
  BY <1>12 DEF PrivFailed, PrivUnchanged
<1>13. CASE PrivManualConnect
  BY <1>13 DEF PrivManualConnect, PrivUnchanged
<1>14. CASE PrivPause
  BY <1>14 DEF PrivPause, PrivUnchanged
<1>15. CASE PrivOut
  BY <1>15 DEF PrivOut, PrivUnchanged
<1> QED BY <1>1, <1>2, <1>3, <1>4, <1>5, <1>6, <1>7, <1>8, <1>9, <1>10, <1>11, <1>12, <1>13, <1>14,
           <1>15 DEF lafConnPrivThread

\* So does lafConnThread.
LEMMA ActExclusion == TypeOK /\ TriggerExclusion /\ lafConnThread => TriggerExclusion'
<1> SUFFICES ASSUME TypeOK, TriggerExclusion, lafConnThread PROVE TriggerExclusion'
  OBVIOUS
<1> USE DEF TriggerExclusion, PrivInTrigger, ActInTrigger, lafVars, privVars, actVars
<1>1. CASE ActEnter
  BY <1>1 DEF ActEnter, ActUnchanged
<1>2. CASE ActOuter
  BY <1>2 DEF ActOuter, ActUnchanged
<1>3. CASE ActInner
  BY <1>3 DEF ActInner, ActUnchanged
<1>4. CASE ActCheck
  BY <1>4 DEF ActCheck, ActUnchanged, ActReturn
<1>5. CASE ActLock
  BY <1>5 DEF ActLock, ActUnchanged
<1>6. CASE ActBackoff
  BY <1>6 DEF ActBackoff, ActUnchanged, LafStart
<1>7. CASE ActLafDone
  BY <1>7 DEF ActLafDone, ActUnchanged, LafLeave
<1>8. CASE ActFailed
  BY <1>8 DEF ActFailed, ActUnchanged, ActReturn
<1>9. CASE ActSettled
  BY <1>9 DEF ActSettled, ActUnchanged
<1>10. CASE ActAfter
  BY <1>10 DEF ActAfter, ActUnchanged, ActReturn
<1>11. CASE ActExit
  BY <1>11 DEF ActExit, ActUnchanged
<1> QED BY <1>1, <1>2, <1>3, <1>4, <1>5, <1>6, <1>7, <1>8, <1>9, <1>10, <1>11 DEF lafConnThread

\* mutexTriggerLAF keeps the two LNF threads apart: for every schedule, HAL
\* report and event, at most one of lafConnThread and lafConnPrivThread is
\* inside triggerLostFound, and it is the holder of the mutex.
THEOREM TriggerExclusionHolds == Spec => []TriggerExclusion
<1>1. Init => TriggerExclusion
  BY DEF Init, TriggerExclusion, PrivInTrigger, ActInTrigger
<1>2. TypeOK /\ TriggerExclusion /\ [Next]_vars => TriggerExclusion'
  <2> SUFFICES ASSUME TypeOK, TriggerExclusion, [Next]_vars PROVE TriggerExclusion'
    OBVIOUS
  <2>1. CASE Hal \/ Callback \/ startLAFIfNecessary \/ User
    BY <2>1, OthersKeepTrigger DEF TriggerExclusion, PrivInTrigger, ActInTrigger
  <2>2. CASE Laf
    BY <2>2, LafKeepsTrigger DEF TriggerExclusion, PrivInTrigger, ActInTrigger
  <2>3. CASE lafConnPrivThread
    BY <2>3, PrivExclusion
  <2>4. CASE lafConnThread
    BY <2>4, ActExclusion
  <2>5. CASE UNCHANGED vars
    BY <2>5 DEF vars, lafVars, privVars, actVars, TriggerExclusion, PrivInTrigger, ActInTrigger
  <2> QED BY <2>1, <2>2, <2>3, <2>4, <2>5 DEF Next
<1> QED BY <1>1, <1>2, TypeCorrect, PTL DEF Spec

----------------------------------------------------------------------------
(* The activation loop flag and the stored network.                            *)

\* Only lafConnThread moves its program counter and its flag.
LEMMA OthersKeepActivation ==
  Hal \/ Callback \/ Laf \/ lafConnPrivThread \/ startLAFIfNecessary \/ User
  => UNCHANGED <<pcAct, bLnfActivationLoop>>
<1> USE DEF actVars
<1>1. Hal \/ Callback => UNCHANGED <<pcAct, bLnfActivationLoop>>
  BY DEF Hal, HalConnects, HalReports, Callback, CbConnect, CbConnectDone, CbDisconnect,
         CbConnecting, CbLnfError, CbOtherError, Delivers
<1>2. Laf => UNCHANGED <<pcAct, bLnfActivationLoop>>
  BY DEF Laf, laf_wifi_connect, LafTearDown, LafConnect, LafPoll, LafServer,
         laf_wifi_disconnect, LafDiscPoll, LafFinish, LafUnchanged
<1>3. lafConnPrivThread => UNCHANGED <<pcAct, bLnfActivationLoop>>
  <2>1. lafConnPrivThread => PrivUnchanged
    BY DEF lafConnPrivThread, PrivTop, PrivTakeSignal, PrivEntry, PrivSettled, PrivChoose,
           PrivCheckStop, PrivCheckConnected, PrivLock, PrivBackoff, PrivLafDone, PrivSuccess,
           PrivFailed, PrivManualConnect, PrivPause, PrivOut
  <2> QED BY <2>1 DEF PrivUnchanged
<1>4. startLAFIfNecessary => UNCHANGED <<pcAct, bLnfActivationLoop>>
  BY DEF startLAFIfNecessary, StartRead, StartSignal, StartLost, StartUnchanged
<1>5. User => UNCHANGED <<pcAct, bLnfActivationLoop>>
  <2>1. UserStep => UNCHANGED <<pcAct, bLnfActivationLoop>>
    BY DEF UserStep
  <2> QED BY <2>1 DEF User, EvtDeviceActivated, EvtSwitchToPrivate, EvtStopLNF, EvtAutoSwitch,
                      Connect, SaveSSID, DisconnectSSID, ClearSSID
<1> QED BY <1>1, <1>2, <1>3, <1>4, <1>5

\* While bLnfActivationLoop makes lnfConnectPrivCredentials drop start signals,
\* lafConnThread is running: every return of the thread clears the flag.
THEOREM ActivationLoopHolds == Spec => []ActivationLoopHasThread
<1>1. Init => ActivationLoopHasThread
  BY DEF Init, ActivationLoopHasThread
<1>2. TypeOK /\ ActivationLoopHasThread /\ [Next]_vars => ActivationLoopHasThread'
  <2> SUFFICES ASSUME TypeOK, ActivationLoopHasThread, [Next]_vars
               PROVE  ActivationLoopHasThread'
    OBVIOUS
  <2> USE DEF ActivationLoopHasThread, ActPcs
  <2>1. CASE Hal \/ Callback \/ Laf \/ lafConnPrivThread \/ startLAFIfNecessary \/ User
    BY <2>1, OthersKeepActivation
  <2>2. CASE lafConnThread
    <3>1. CASE ActEnter \/ ActOuter \/ ActInner
      BY <3>1 DEF ActEnter, ActOuter, ActInner
    <3>2. CASE ActCheck \/ ActFailed \/ ActAfter
      BY <3>2 DEF ActCheck, ActFailed, ActAfter, ActReturn
    <3>3. CASE ActLock \/ ActBackoff \/ ActLafDone
      BY <3>3 DEF ActLock, ActBackoff, ActLafDone
    <3>4. CASE ActSettled \/ ActExit
      BY <3>4 DEF ActSettled, ActExit
    <3> QED BY <2>2, <3>1, <3>2, <3>3, <3>4 DEF lafConnThread
  <2>3. CASE UNCHANGED vars
    BY <2>3 DEF vars, actVars
  <2> QED BY <2>1, <2>2, <2>3 DEF Next
<1> QED BY <1>1, <1>2, TypeCorrect, PTL DEF Spec

\* A HAL connect stores the network only when it is asked to.
LEMMA ConnectStores ==
  ASSUME NEW ssid, NEW save \in BOOLEAN, NEW ok \in BOOLEAN,
         connect_withSSID(ssid, save, ok), save => ssid # LfSsid, conf # LfSsid
  PROVE  conf' # LfSsid
  BY DEF connect_withSSID, wifi_connectEndpoint

\* The LF SSID never becomes the stored network, though both threads connect
\* to it: were it stored once, every re-read and manual connect would keep it.
THEOREM LfSsidNeverStoredHolds == Spec => []LfSsidNeverStored
<1>1. Init => LfSsidNeverStored
  BY SsidAssumption DEF Init, LfSsidNeverStored
<1>2. TypeOK /\ LfSsidNeverStored /\ [Next]_vars => LfSsidNeverStored'
  <2> SUFFICES ASSUME TypeOK, LfSsidNeverStored, [Next]_vars PROVE LfSsidNeverStored'
    OBVIOUS
  <2> USE DEF LfSsidNeverStored, halVars
  <2>1. CASE Hal
    BY <2>1 DEF Hal, HalConnects, HalReports
  <2>2. CASE Callback
    BY <2>2 DEF Callback, CbConnect, CbConnectDone, CbDisconnect, CbConnecting, CbLnfError,
                CbOtherError, Delivers, lastConnectedSSID
  <2>3. CASE Laf
    <3>1. CASE laf_wifi_connect
      BY <3>1 DEF laf_wifi_connect, lastConnectedSSID
    <3>2. CASE LafConnect
      BY <3>2, ConnectStores DEF LafConnect
    <3>3. CASE LafTearDown \/ laf_wifi_disconnect
      BY <3>3 DEF LafTearDown, laf_wifi_disconnect, wifi_disconnectEndpoint
    <3>4. CASE LafPoll \/ LafServer \/ LafDiscPoll \/ LafFinish
      BY <3>4 DEF LafPoll, LafServer, LafDiscPoll, LafFinish
    <3> QED BY <2>3, <3>1, <3>2, <3>3, <3>4 DEF Laf
  <2>4. CASE lafConnPrivThread
    <3>1. CASE PrivManualConnect
      BY <3>1, ConnectStores DEF PrivManualConnect
    <3>2. CASE PrivFailed
      BY <3>2 DEF PrivFailed, lastConnectedSSID
    <3>3. ~PrivManualConnect /\ ~PrivFailed => UNCHANGED <<saved, conf>>
      BY <2>4 DEF lafConnPrivThread, PrivTop, PrivTakeSignal, PrivEntry, PrivSettled, PrivChoose,
                  PrivCheckStop, PrivCheckConnected, PrivLock, PrivBackoff, PrivLafDone,
                  PrivSuccess, PrivPause, PrivOut
    <3> QED BY <3>1, <3>2, <3>3
  <2>5. CASE lafConnThread
    <3>1. ActUnchanged
      BY <2>5 DEF lafConnThread, ActEnter, ActOuter, ActInner, ActCheck, ActLock, ActBackoff,
                  ActLafDone, ActFailed, ActSettled, ActAfter, ActExit
    <3> QED BY <3>1 DEF ActUnchanged
  <2>6. CASE startLAFIfNecessary
    BY <2>6 DEF startLAFIfNecessary, StartRead, StartSignal, StartLost, StartUnchanged,
                lastConnectedSSID
  <2>7. CASE User
    <3>1. ASSUME NEW ssid \in PrivateSsids \cup {saved}, Connect(ssid) PROVE LfSsidNeverStored'
      BY <3>1, ConnectStores, SsidAssumption DEF Connect
    <3>2. ASSUME NEW ssid \in PrivateSsids, SaveSSID(ssid) PROVE LfSsidNeverStored'
      BY <3>2, SsidAssumption DEF SaveSSID
    <3>3. CASE DisconnectSSID \/ ClearSSID
      BY <3>3, SsidAssumption DEF DisconnectSSID, ClearSSID, wifi_disconnectEndpoint
    <3>4. ASSUME NEW b \in BOOLEAN,
                 EvtDeviceActivated \/ EvtSwitchToPrivate(b) \/ EvtStopLNF(b) \/ EvtAutoSwitch(b)
          PROVE  LfSsidNeverStored'
      BY <3>4 DEF EvtDeviceActivated, EvtSwitchToPrivate, EvtStopLNF, EvtAutoSwitch
    <3> QED BY <2>7, <3>1, <3>2, <3>3, <3>4 DEF User
  <2>8. CASE UNCHANGED vars
    BY <2>8 DEF vars
  <2> QED BY <2>1, <2>2, <2>3, <2>4, <2>5, <2>6, <2>7, <2>8 DEF Next
<1> QED BY <1>1, <1>2, TypeCorrect, PTL DEF Spec

----------------------------------------------------------------------------
(* The status and the association.  The HAL's callbacks arrive late: CONNECTED *)
(* may outlive the association as long as a callback that tells of the loss is *)
(* still to be delivered, after every connect callback in the queue, and       *)
(* connCode_prev_state must not make wifi_status_action ignore that callback.  *)

\* The codes that tell of a loss: DISCONNECT, and all but progress and UNKNOWN.
LossCodes == {"DISCONNECT"} \cup (ConnCodes \ {"CONNECTING", "DISCONNECTING", "UNKNOWN"})

EndsLost(queue) ==
    \E k \in DOMAIN queue :
        /\ queue[k].code \in LossCodes
        /\ \A j \in DOMAIN queue : j > k => queue[j].code # "CONNECT"
NoConnect(queue) == \A k \in DOMAIN queue : queue[k].code # "CONNECT"
Named(queue) == \A k \in DOMAIN queue : queue[k].code = "CONNECT" => queue[k].ssid # NoSsid

\* What connCode_prev_state may be while the status is CONNECTED: no code of a loss.
PrevHarmless ==
    adopter = "CONNECTED" /\ callback = NoSsid => prevCode \in {"SUCCESS", "UNKNOWN", "DISCONNECTING"}
LossAnnounced ==
    link = NoSsid /\ ~silentLoss => EndsLost(halEvents) \/ (adopter # "CONNECTED" /\ NoConnect(halEvents))

RealInv == Named(halEvents) /\ PrevHarmless /\ LossAnnounced

LEMMA QueueAppend ==
    ASSUME NEW queue \in Seq(HalEvents), NEW e \in HalEvents
    PROVE  /\ Named(queue) /\ (e.code = "CONNECT" => e.ssid # NoSsid) => Named(Append(queue, e))
           /\ NoConnect(queue) /\ e.code # "CONNECT" => NoConnect(Append(queue, e))
           /\ EndsLost(queue) /\ e.code # "CONNECT" => EndsLost(Append(queue, e))
           /\ e.code \in LossCodes => EndsLost(Append(queue, e))
<1> DEFINE longer == Append(queue, e)
<1>1. /\ Len(queue) \in Nat /\ DOMAIN queue = 1..Len(queue) /\ DOMAIN longer = 1..(Len(queue) + 1)
      /\ longer[Len(queue) + 1] = e
  OBVIOUS
<1>2. \A k \in DOMAIN queue : k \in DOMAIN longer /\ longer[k] = queue[k] /\ k <= Len(queue) /\ k \in Nat
  OBVIOUS
<1>3. \A k \in DOMAIN longer : k \in DOMAIN queue \/ k = Len(queue) + 1
  BY <1>1
<1>4. Len(queue) + 1 \in DOMAIN longer /\ \A j \in DOMAIN longer : ~(j > Len(queue) + 1)
  BY <1>1
<1> HIDE DEF longer
<1>5. Named(queue) /\ (e.code = "CONNECT" => e.ssid # NoSsid) => Named(longer)
  BY <1>1, <1>2, <1>3 DEF Named
<1>6. NoConnect(queue) /\ e.code # "CONNECT" => NoConnect(longer)
  BY <1>1, <1>2, <1>3 DEF NoConnect
<1>7. ASSUME EndsLost(queue), e.code # "CONNECT" PROVE EndsLost(longer)
  <2>1. PICK k \in DOMAIN queue : /\ queue[k].code \in LossCodes
                                  /\ \A j \in DOMAIN queue : j > k => queue[j].code # "CONNECT"
    BY <1>7 DEF EndsLost
  <2>2. ASSUME NEW j \in DOMAIN longer, j > k PROVE longer[j].code # "CONNECT"
    BY <1>1, <1>2, <1>3, <1>7, <2>1, <2>2
  <2> QED BY <1>2, <2>1, <2>2 DEF EndsLost
<1>8. e.code \in LossCodes => EndsLost(longer)
  BY <1>1, <1>4 DEF EndsLost
<1> QED BY <1>5, <1>6, <1>7, <1>8 DEF longer

LEMMA QueueTail ==
    ASSUME NEW queue \in Seq(HalEvents), queue # <<>>
    PROVE  /\ Named(queue) => Named(Tail(queue))
           /\ Named(queue) /\ Head(queue).code = "CONNECT" => Head(queue).ssid # NoSsid
           /\ NoConnect(queue) => NoConnect(Tail(queue)) /\ Head(queue).code # "CONNECT"
           /\ EndsLost(queue) => \/ EndsLost(Tail(queue))
                                 \/ Head(queue).code \in LossCodes /\ NoConnect(Tail(queue))
<1>1. 1 \in DOMAIN queue /\ Head(queue) = queue[1]
  OBVIOUS
<1>2. \A k \in DOMAIN Tail(queue) : k \in Nat /\ k >= 1 /\ k + 1 \in DOMAIN queue /\ Tail(queue)[k] = queue[k + 1]
  OBVIOUS
<1>3. \A k \in DOMAIN queue : k # 1 => k \in Nat /\ k - 1 \in DOMAIN Tail(queue) /\ Tail(queue)[k - 1] = queue[k]
  OBVIOUS
<1>4. Named(queue) => Named(Tail(queue)) /\ (Head(queue).code = "CONNECT" => Head(queue).ssid # NoSsid)
  BY <1>1, <1>2 DEF Named
<1>5. NoConnect(queue) => NoConnect(Tail(queue)) /\ Head(queue).code # "CONNECT"
  BY <1>1, <1>2 DEF NoConnect
<1>6. ASSUME EndsLost(queue)
      PROVE  EndsLost(Tail(queue)) \/ (Head(queue).code \in LossCodes /\ NoConnect(Tail(queue)))
  <2>1. PICK k \in DOMAIN queue : /\ queue[k].code \in LossCodes
                                  /\ \A j \in DOMAIN queue : j > k => queue[j].code # "CONNECT"
    BY <1>6 DEF EndsLost
  <2>2. CASE k = 1
    <3>1. ASSUME NEW j \in DOMAIN Tail(queue) PROVE Tail(queue)[j].code # "CONNECT"
      <4>1. j + 1 \in DOMAIN queue /\ j + 1 > k /\ Tail(queue)[j] = queue[j + 1]
        BY <1>2, <2>2
      <4> QED BY <2>1, <4>1
    <3> QED BY <1>1, <2>1, <2>2, <3>1 DEF NoConnect
  <2>3. CASE k # 1
    <3>1. k \in Nat /\ k - 1 \in DOMAIN Tail(queue) /\ Tail(queue)[k - 1] = queue[k]
      BY <1>3, <2>3
    <3>2. ASSUME NEW j \in DOMAIN Tail(queue), j > k - 1 PROVE Tail(queue)[j].code # "CONNECT"
      <4>1. j + 1 \in DOMAIN queue /\ j + 1 > k /\ Tail(queue)[j] = queue[j + 1]
        BY <1>2, <3>1, <3>2
      <4> QED BY <2>1, <4>1
    <3> QED BY <2>1, <3>1, <3>2 DEF EndsLost
  <2> QED BY <2>2, <2>3
<1> QED BY <1>4, <1>5, <1>6

\* The association ends only with a callback that tells of it.
LEMMA HalReal == TypeOK /\ RealInv /\ Hal => RealInv'
<1> SUFFICES ASSUME TypeOK, RealInv, Hal PROVE RealInv'
  OBVIOUS
<1>1. halEvents \in Seq(HalEvents) /\ link \in OptSsids /\ target \in OptSsids
  BY DEF TypeOK
<1>2. UNCHANGED <<adopter, callback, prevCode>>
  BY DEF Hal, HalConnects, HalReports, cbVars
<1>3. PrevHarmless'
  BY <1>2 DEF RealInv, PrevHarmless
<1>4. CASE HalConnects
  <2>1. PICK e \in HalEvents : e = [code |-> "CONNECT", ssid |-> target]
    BY <1>1 DEF HalEvents
  <2>2. halEvents' = Append(halEvents, e) /\ e.ssid # NoSsid /\ link' # NoSsid
    BY <1>4, <2>1 DEF HalConnects
  <2>3. Named(halEvents')
    BY <1>1, <2>2, QueueAppend DEF RealInv
  <2> QED BY <1>3, <2>2, <2>3 DEF RealInv, LossAnnounced
<1>5. ASSUME NEW code \in Codes, HalReports(code) PROVE RealInv'
  <2>1. code \in ConnCodes /\ code # "CONNECT"
    BY BoundAssumption DEF ConnCodes
  <2>2. PICK e \in HalEvents : e = [code |-> code, ssid |-> link]
    BY <1>1, <2>1 DEF HalEvents
  <2>3. halEvents' = Append(halEvents, e) /\ e.code = code
    BY <1>5, <2>2 DEF HalReports
  <2>4. Named(halEvents')
    BY <1>1, <2>1, <2>3, QueueAppend DEF RealInv
  <2>5. LossAnnounced'
    <3>1. CASE UNCHANGED <<link, silentLoss>>
      BY <1>1, <1>2, <2>1, <2>3, <3>1, QueueAppend DEF RealInv, LossAnnounced
    <3>2. CASE code = "UNKNOWN" /\ silentLoss'
      BY <3>2 DEF LossAnnounced
    <3>3. CASE code \notin {"CONNECTING", "DISCONNECTING", "UNKNOWN"}
      <4>1. EndsLost(halEvents')
        BY <1>1, <2>1, <2>3, <3>3, QueueAppend DEF LossCodes
      <4> QED BY <4>1 DEF LossAnnounced
    <3>4. silentLoss \in BOOLEAN
      BY DEF TypeOK
    <3>5. \/ UNCHANGED <<link, silentLoss>>
          \/ code = "UNKNOWN" /\ silentLoss'
          \/ code \notin {"CONNECTING", "DISCONNECTING", "UNKNOWN"}
      BY <1>5, <3>4 DEF HalReports
    <3> QED BY <3>1, <3>2, <3>3, <3>5
  <2> QED BY <1>3, <2>4, <2>5 DEF RealInv
<1> QED BY <1>4, <1>5 DEF Hal

\* wifi_status_action acts on the callback of a loss whenever the status is CONNECTED.
LEMMA CallbackReal == TypeOK /\ RealInv /\ Callback => RealInv'
<1> SUFFICES ASSUME TypeOK, RealInv, Callback PROVE RealInv'
  OBVIOUS
<1>0. Named(halEvents) /\ PrevHarmless /\ LossAnnounced
  BY DEF RealInv
<1>1. CASE CbConnectDone
  <2>1. UNCHANGED <<halEvents, link, adopter, silentLoss>> /\ prevCode' = "SUCCESS"
    BY <1>1 DEF CbConnectDone, halVars
  <2> QED BY <1>0, <2>1 DEF RealInv, PrevHarmless, LossAnnounced
<1>2. CASE ~CbConnectDone
  <2>1. Delivers({"CONNECT", "DISCONNECT"} \cup ConnCodes)
    BY <1>2 DEF Callback, CbConnect, CbDisconnect, CbConnecting, CbLnfError, CbOtherError, Delivers, LnfCodes,
                ConnCodes
  <2>2. /\ halEvents \in Seq(HalEvents) /\ halEvents # <<>> /\ halEvents' = Tail(halEvents)
        /\ link' = link /\ silentLoss' = silentLoss /\ callback = NoSsid
    BY <2>1 DEF Delivers, TypeOK
  <2> DEFINE code == Head(halEvents).code
  <2>3. Named(halEvents')
    BY <1>0, <2>2, QueueTail
  <2>4. CASE CbConnect
    <3>1. callback' = Head(halEvents).ssid /\ code = "CONNECT"
      BY <2>4 DEF CbConnect, Delivers
    <3>2. callback' # NoSsid
      BY <1>0, <2>2, <3>1, QueueTail
    <3>3. PrevHarmless'
      BY <3>2 DEF PrevHarmless
    <3>4. link' = NoSsid /\ ~silentLoss' => EndsLost(halEvents')
      <4>1. "CONNECT" \notin LossCodes
        BY DEF LossCodes, ConnCodes
      <4> QED BY <1>0, <2>2, <3>1, <4>1, QueueTail DEF LossAnnounced
    <3> QED BY <2>3, <3>3, <3>4 DEF RealInv, LossAnnounced
  <2>5. CASE CbDisconnect \/ CbConnecting \/ CbLnfError \/ CbOtherError
    <3>1. callback' = callback /\ (adopter' = "CONNECTED" => adopter = "CONNECTED")
      BY <2>5 DEF CbDisconnect, CbConnecting, CbLnfError, CbOtherError
    <3>2. adopter' = "CONNECTED" => code \in {"UNKNOWN", "DISCONNECTING"} /\ prevCode' = code
      <4>1. adopter' = "CONNECTED" => prevCode \in {"SUCCESS", "UNKNOWN", "DISCONNECTING"}
        BY <1>0, <2>2, <3>1 DEF PrevHarmless
      <4>2. CASE CbDisconnect \/ CbConnecting
        BY <4>2 DEF CbDisconnect, CbConnecting
      <4>3. CASE CbLnfError
        BY <4>1, <4>3 DEF CbLnfError, Delivers, LnfCodes
      <4>4. CASE CbOtherError
        <5>1. code \notin {prevCode, "UNKNOWN", "DISCONNECTING"} => adopter' # "CONNECTED"
          BY <4>4 DEF CbOtherError
        <5>2. prevCode' = code /\ code \in ConnCodes
          BY <4>4 DEF CbOtherError, Delivers
        <5> QED BY <4>1, <5>1, <5>2 DEF ConnCodes
      <4> QED BY <2>5, <4>2, <4>3, <4>4
    <3>3. PrevHarmless'
      BY <3>2 DEF PrevHarmless
    <3>4. {"UNKNOWN", "DISCONNECTING"} \cap LossCodes = {}
      BY DEF LossCodes
    <3>5. ASSUME link' = NoSsid, ~silentLoss', adopter' = "CONNECTED" PROVE EndsLost(halEvents')
      <4>1. EndsLost(halEvents) /\ code \notin LossCodes
        BY <1>0, <2>2, <3>1, <3>2, <3>4, <3>5 DEF LossAnnounced
      <4> QED BY <2>2, <4>1, QueueTail
    <3>6. ASSUME link' = NoSsid, ~silentLoss' PROVE EndsLost(halEvents') \/ NoConnect(halEvents')
      BY <1>0, <2>2, <3>6, QueueTail DEF LossAnnounced
    <3>7. LossAnnounced'
      BY <3>5, <3>6 DEF LossAnnounced
    <3> QED BY <2>3, <3>3, <3>7 DEF RealInv
  <2> QED BY <1>2, <2>4, <2>5 DEF Callback
<1> QED BY <1>1, <1>2

\* What wifi_disconnectEndpoint and clearSSID do to the association: it ends, if there is one,
\* and the HAL owes the callback.
Disconnects(ok) ==
    /\ link' = IF ok THEN NoSsid ELSE link
    /\ halEvents' = IF ok /\ link # NoSsid
                    THEN Append(halEvents, [code |-> "DISCONNECT", ssid |-> link]) ELSE halEvents

LEMMA DisconnectReal ==
    ASSUME TypeOK, RealInv, NEW ok \in BOOLEAN, Disconnects(ok)
    PROVE  /\ Named(halEvents')
           /\ link' = NoSsid /\ ~silentLoss =>
               EndsLost(halEvents') \/ (adopter # "CONNECTED" /\ NoConnect(halEvents'))
<1>1. halEvents \in Seq(HalEvents) /\ Named(halEvents) /\ LossAnnounced
  BY DEF TypeOK, RealInv
<1>2. CASE ok /\ link # NoSsid
  <2>1. PICK e \in HalEvents : e = [code |-> "DISCONNECT", ssid |-> link]
    BY DEF HalEvents, TypeOK
  <2>2. halEvents' = Append(halEvents, e) /\ e.code = "DISCONNECT" /\ e.code \in LossCodes
    BY <1>2, <2>1 DEF Disconnects, LossCodes
  <2>3. Named(halEvents') /\ EndsLost(halEvents')
    BY <1>1, <2>2, QueueAppend
  <2> QED BY <2>3, Zenon
<1>3. CASE ~(ok /\ link # NoSsid)
  <2>1. halEvents' = halEvents /\ link' = link
    BY <1>3 DEF Disconnects
  <2>2. Named(halEvents')
    BY <1>1, <2>1
  <2>3. ASSUME link' = NoSsid, ~silentLoss
        PROVE  EndsLost(halEvents') \/ (adopter # "CONNECTED" /\ NoConnect(halEvents'))
    BY <1>1, <2>1, <2>3 DEF LossAnnounced
  <2> QED BY <2>2, <2>3, Zenon
<1> QED BY <1>2, <1>3

\* The other threads never set CONNECTED, and end an association through the HAL.
LEMMA OthersReal ==
    ASSUME TypeOK, RealInv, UNCHANGED <<callback, prevCode, silentLoss>>, adopter' \in {adopter, "CONNECTING"},
           \/ UNCHANGED <<link, halEvents>>
           \/ \E ok \in BOOLEAN : Disconnects(ok)
    PROVE  RealInv'
<1>1. PrevHarmless'
  BY DEF RealInv, PrevHarmless
<1>2. CASE UNCHANGED <<link, halEvents>>
  BY <1>1, <1>2 DEF RealInv, LossAnnounced
<1>3. ASSUME NEW ok \in BOOLEAN, Disconnects(ok) PROVE RealInv'
  <2>1. /\ Named(halEvents')
        /\ link' = NoSsid /\ ~silentLoss =>
               EndsLost(halEvents') \/ (adopter # "CONNECTED" /\ NoConnect(halEvents'))
    BY <1>3, DisconnectReal
  <2> QED BY <1>1, <2>1 DEF RealInv, LossAnnounced
<1> QED BY <1>2, <1>3

LEMMA OtherSteps ==
    ASSUME Laf \/ lafConnPrivThread \/ lafConnThread \/ startLAFIfNecessary \/ User
    PROVE  /\ UNCHANGED <<callback, prevCode, silentLoss>> /\ adopter' \in {adopter, "CONNECTING"}
           /\ \/ UNCHANGED <<link, halEvents>>
              \/ \E ok \in BOOLEAN : Disconnects(ok)
<1> USE DEF halVars, cbVars
<1>1. CASE Laf
  <2>1. CASE LafConnect
    BY <2>1 DEF LafConnect, connect_withSSID, wifi_connectEndpoint, LafUnchanged
  <2>2. CASE LafTearDown
    BY <2>2 DEF LafTearDown, LafUnchanged, wifi_disconnectEndpoint, Disconnects
  <2>3. CASE laf_wifi_disconnect
    BY <2>3 DEF laf_wifi_disconnect, LafUnchanged, wifi_disconnectEndpoint, Disconnects
  <2>4. CASE laf_wifi_connect \/ LafPoll \/ LafServer \/ LafDiscPoll \/ LafFinish
    BY <2>4 DEF laf_wifi_connect, LafPoll, LafServer, LafDiscPoll, LafFinish, LafUnchanged
  <2> QED BY <1>1, <2>1, <2>2, <2>3, <2>4 DEF Laf
<1>2. CASE lafConnPrivThread
  <2>1. PrivUnchanged
    BY <1>2 DEF lafConnPrivThread, PrivTop, PrivTakeSignal, PrivEntry, PrivSettled, PrivChoose,
           PrivCheckStop, PrivCheckConnected, PrivLock, PrivBackoff, PrivLafDone, PrivSuccess,
           PrivFailed, PrivManualConnect, PrivPause, PrivOut
  <2>2. CASE PrivManualConnect
    BY <2>1, <2>2 DEF PrivManualConnect, connect_withSSID, wifi_connectEndpoint, PrivUnchanged
  <2>3. ~PrivManualConnect => UNCHANGED <<adopter, link, halEvents, silentLoss>>
    BY <1>2 DEF lafConnPrivThread, PrivTop, PrivTakeSignal, PrivEntry, PrivSettled, PrivChoose,
           PrivCheckStop, PrivCheckConnected, PrivLock, PrivBackoff, PrivLafDone, PrivSuccess,
           PrivFailed, PrivPause, PrivOut
  <2> QED BY <2>1, <2>2, <2>3 DEF PrivUnchanged
<1>3. CASE lafConnThread
  <2>1. ActUnchanged
    BY <1>3 DEF lafConnThread, ActEnter, ActOuter, ActInner, ActCheck, ActLock, ActBackoff,
                ActLafDone, ActFailed, ActSettled, ActAfter, ActExit
  <2> QED BY <2>1 DEF ActUnchanged
<1>4. CASE startLAFIfNecessary
  BY <1>4 DEF startLAFIfNecessary, StartRead, StartSignal, StartLost, StartUnchanged
<1>5. CASE User
  <2>1. UserStep => UNCHANGED <<callback, prevCode>>
    BY DEF UserStep
  <2>2. ASSUME NEW ssid, Connect(ssid) PROVE UserStep /\ adopter' = "CONNECTING"
                                            /\ UNCHANGED <<link, halEvents, silentLoss>>
    BY <2>2 DEF Connect, connect_withSSID, wifi_connectEndpoint
  <2>3. ASSUME NEW ssid, SaveSSID(ssid) PROVE UserStep /\ UNCHANGED <<adopter, link, halEvents, silentLoss>>
    BY <2>3 DEF SaveSSID
  <2>4. CASE DisconnectSSID \/ ClearSSID
    <3>1. CASE DisconnectSSID
      BY <2>1, <3>1 DEF DisconnectSSID, wifi_disconnectEndpoint, Disconnects
    <3>2. CASE ClearSSID
      <4>1. Disconnects(TRUE)
        BY <3>2 DEF ClearSSID, Disconnects
      <4> QED BY <2>1, <3>2, <4>1 DEF ClearSSID
    <3> QED BY <2>4, <3>1, <3>2
  <2>5. ASSUME NEW b \in BOOLEAN,
               EvtDeviceActivated \/ EvtSwitchToPrivate(b) \/ EvtStopLNF(b) \/ EvtAutoSwitch(b)
        PROVE  UserStep /\ UNCHANGED <<adopter, link, halEvents, silentLoss>>
    BY <2>5 DEF EvtDeviceActivated, EvtSwitchToPrivate, EvtStopLNF, EvtAutoSwitch
  <2> QED BY <1>5, <2>1, <2>2, <2>3, <2>4, <2>5 DEF User
<1> QED BY <1>1, <1>2, <1>3, <1>4, <1>5

\* For every schedule, every number of callbacks the HAL has queued and every order of its
\* codes: once all callbacks are handled, gWifiAdopterStatus is CONNECTED only with an
\* association, or after one that an UNKNOWN code ended.  The codes wifi_status_action
\* drops as repetitions hide no loss.
THEOREM KnownLossNoticedHolds == Spec => []KnownLossNoticed
<1>1. Init => RealInv
  BY DEF Init, RealInv, Named, PrevHarmless, LossAnnounced, NoConnect
<1>2. TypeOK /\ RealInv /\ [Next]_vars => RealInv'
  <2> SUFFICES ASSUME TypeOK, RealInv, [Next]_vars PROVE RealInv'
    OBVIOUS
  <2>1. CASE Hal \/ Callback
    BY <2>1, HalReal, CallbackReal
  <2>2. CASE Laf \/ lafConnPrivThread \/ lafConnThread \/ startLAFIfNecessary \/ User
    BY <2>2, OtherSteps, OthersReal
  <2>3. CASE UNCHANGED vars
    BY <2>3, OthersReal DEF vars, halVars, cbVars
  <2> QED BY <2>1, <2>2, <2>3 DEF Next
<1>3. RealInv => KnownLossNoticed
  <2>1. halEvents = <<>> => ~EndsLost(halEvents)
    BY DEF EndsLost
  <2> QED BY <2>1 DEF RealInv, LossAnnounced, KnownLossNoticed
<1> QED BY <1>1, <1>2, <1>3, TypeCorrect, PTL DEF Spec

=============================================================================
