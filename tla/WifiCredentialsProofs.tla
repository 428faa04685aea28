------------------------ MODULE WifiCredentialsProofs ------------------------
(***************************************************************************)
(* Theorems about WifiCredentials: its types, that an undisturbed callback *)
(* stores a new network (StoredWhenNew), and that a cleared network stays  *)
(* cleared (ClearedStaysCleared), for any networks, callers and numbers of *)
(* calls and failures.                                                     *)
(***************************************************************************)
EXTENDS WifiCredentials, SequenceTheorems, TLAPS

LEMMA Bounds == MaxCalls \in Nat /\ MaxFaults \in Nat /\ MaxInputs \in Nat
BY CredentialAssumption

\* Whatever is in wpa_supplicant.conf becomes well-formed credentials: SecurityMode yields a
\* mode of SsidSecurity for every security the file can have.
LEMMA CredentialsOfConf ==
    ASSUME conf \in Networks \cup {NoNetwork}
    PROVE  lastConnectedSSID \in Credentials
<1>1. conf.security \in Securities /\ conf.ssid \in SSIDs \cup {""} /\ conf.pass \in Passes \cup {""}
  <2>1. CASE conf \in Networks
    BY <2>1, CredentialAssumption DEF SSIDs, Passes
  <2>2. CASE conf = NoNetwork
    BY <2>2 DEF NoNetwork, Securities
  <2> QED BY <2>1, <2>2
<1>2. SecurityMode(conf.security) \in Modes
  BY <1>1 DEF SecurityMode, Securities, Modes
<1> QED BY <1>1, <1>2 DEF lastConnectedSSID, Credentials

\* So does what a caller gives.
LEMMA CredentialsOfCaller ==
    ASSUME NEW n \in Networks
    PROVE  /\ CredentialsOf(n) \in Credentials
           /\ \A p \in Passes \cup {""} : [CredentialsOf(n) EXCEPT !.pass = p] \in Credentials
<1>1. n.security \in Securities /\ n.ssid \in SSIDs /\ n.pass \in Passes
  BY CredentialAssumption DEF SSIDs, Passes
<1>2. CallerMode(n.security) \in Modes
  BY <1>1 DEF CallerMode, SecurityMode, Securities, Modes
<1> QED BY <1>1, <1>2 DEF CredentialsOf, Credentials

LEMMA Constants ==
    /\ Empty \in Credentials
    /\ NoRequest \in Requests /\ LnfRequest \in Requests
    /\ \A cred \in Credentials : \A whole \in BOOLEAN : Request(cred, whole) \in Requests
    /\ \A m \in Credentials : [m EXCEPT !.mode = ConnectMode(m.mode)] \in Credentials
    /\ \A s \in Links, st \in {"CONNECTED", "DISCONNECTED"} : [status |-> st, ssid |-> s] \in Reports
    /\ "" \in Links /\ LnfSSID \in Links /\ \A n \in Networks : n.ssid \in Links
<1>1. Empty \in Credentials
  BY DEF Empty, Credentials, Modes
<1>2. NoRequest \in Requests /\ LnfRequest \in Requests
  BY <1>1 DEF NoRequest, Requests
<1>3. \A cred \in Credentials : \A whole \in BOOLEAN : Request(cred, whole) \in Requests
  BY DEF Request, Requests
<1>4. \A m \in Credentials : [m EXCEPT !.mode = ConnectMode(m.mode)] \in Credentials
  BY DEF Credentials, ConnectMode, Modes
<1>5. \A s \in Links, st \in {"CONNECTED", "DISCONNECTED"} : [status |-> st, ssid |-> s] \in Reports
  BY DEF Reports
<1>6. "" \in Links /\ LnfSSID \in Links /\ \A n \in Networks : n.ssid \in Links
  BY DEF Links, SSIDs
<1> QED BY <1>1, <1>2, <1>3, <1>4, <1>5, <1>6

\* The supplicant's first request, and the callbacks of an association, are well-formed.
LEMMA HalTypes ==
    ASSUME TypeOK
    PROVE  /\ Resumes \in Requests
           /\ Gone \in Seq(Reports)
           /\ reports \o Gone \in Seq(Reports)
           /\ \A s \in Links : reports \o Gone \o <<[status |-> "CONNECTED", ssid |-> s]>> \in Seq(Reports)
           /\ Append(reports, [status |-> "DISCONNECTED", ssid |-> ""]) \in Seq(Reports)
           /\ reports # <<>> => /\ Head(reports) \in Reports /\ Tail(reports) \in Seq(Reports)
                                /\ Head(reports).ssid \in Links
<1>1. Resumes \in Requests
  BY CredentialsOfConf, Constants DEF Resumes, TypeOK
<1>2. reports \in Seq(Reports) /\ link \in Links
  BY DEF TypeOK
<1>a. /\ [status |-> "DISCONNECTED", ssid |-> link] \in Reports
      /\ [status |-> "DISCONNECTED", ssid |-> ""] \in Reports
      /\ \A s \in Links : [status |-> "CONNECTED", ssid |-> s] \in Reports
  BY <1>2, Constants
<1>b. \A r \in Reports : <<r>> \in Seq(Reports) /\ Append(reports, r) \in Seq(Reports)
  BY <1>2
<1>3. Gone \in Seq(Reports)
  <2>1. <<>> \in Seq(Reports)
    OBVIOUS
  <2>2. <<[status |-> "DISCONNECTED", ssid |-> link]>> \in Seq(Reports)
    BY <1>a, <1>b, Zenon
  <2> QED BY <2>1, <2>2, Zenon DEF Gone
<1>4. reports \o Gone \in Seq(Reports)
  BY <1>2, <1>3
<1>5. ASSUME NEW s \in Links
      PROVE  reports \o Gone \o <<[status |-> "CONNECTED", ssid |-> s]>> \in Seq(Reports)
  <2>1. <<[status |-> "CONNECTED", ssid |-> s]>> \in Seq(Reports)
    BY <1>a, <1>b
  <2> QED BY <1>4, <2>1
<1>6. Append(reports, [status |-> "DISCONNECTED", ssid |-> ""]) \in Seq(Reports)
  BY <1>a, <1>b
<1>7. reports # <<>> => /\ Head(reports) \in Reports /\ Tail(reports) \in Seq(Reports)
  BY <1>2
<1>8. \A r \in Reports : r.ssid \in Links
  BY DEF Reports
<1> QED BY <1>1, <1>3, <1>4, <1>5, <1>6, <1>7, <1>8

-----------------------------------------------------------------------------
(* Types. *)

\* The parts of the type invariant, by the steps that disturb them.
DiskOK == /\ conf \in Networks \cup {NoNetwork} /\ db \in Networks \cup {NoNetwork}
          /\ confFile \in BOOLEAN /\ (conf # NoNetwork => confFile)
CredOK == mfr \in Credentials /\ saved \in Credentials /\ param \in Credentials
FlagOK == /\ status \in {"UNINSTALLED", "CONNECTING", "CONNECTED", "DISCONNECTED"}
          /\ isLAFCurrConnectedssid \in BOOLEAN /\ wpsConnLock \in BOOLEAN /\ wps \in BOOLEAN
          /\ untouched \in BOOLEAN /\ storing \in BOOLEAN /\ cleared \in BOOLEAN
PcOK == /\ boot \in {"init", "write", "remove", "start", "mfr", "run", "stopping", "off"}
        /\ pc \in [Threads -> CallerPcs]
        /\ cb \in CbPcs /\ cbSSID \in Links
HalOK == air \in Airs /\ link \in Links /\ trying \in Requests /\ reports \in Seq(Reports)
CountOK == calls \in 0..MaxCalls /\ faults \in 0..MaxFaults

LEMMA TypeParts == /\ TypeOK <=> DiskOK /\ CredOK /\ FlagOK /\ PcOK /\ HalOK /\ CountOK
                   /\ TypeOK' <=> DiskOK' /\ CredOK' /\ FlagOK' /\ PcOK' /\ HalOK' /\ CountOK'
BY DEF TypeOK, DiskOK, CredOK, FlagOK, PcOK, HalOK, CountOK

LEMMA InitType == Init => TypeOK
<1> SUFFICES ASSUME Init PROVE DiskOK /\ CredOK /\ FlagOK /\ PcOK /\ HalOK /\ CountOK
  BY TypeParts
<1>1. DiskOK /\ FlagOK
  BY CredentialAssumption DEF Init, DiskOK, FlagOK
<1>2. CredOK
  <2>1. [ssid |-> Legacy.ssid, pass |-> Legacy.pass, mode |-> "-1"] \in Credentials
    BY CredentialAssumption DEF Credentials, Modes, SSIDs, Passes
  <2> QED BY <2>1, Constants DEF Init, CredOK
<1>3. PcOK
  BY Constants DEF Init, PcOK, CallerPcs, CbPcs
<1>4. HalOK
  <2>1. <<>> \in Seq(Reports)
    OBVIOUS
  <2> QED BY <2>1, Constants DEF Init, HalOK
<1>5. CountOK
  <2>1. calls = 0 /\ faults = 0
    BY DEF Init
  <2> QED BY <2>1, Bounds DEF CountOK
<1> QED BY <1>1, <1>2, <1>3, <1>4, <1>5

\* Every failure is counted.
LEMMA Counted ==
    /\ CountOK /\ Fault => faults' \in 0..MaxFaults
    /\ CountOK /\ NoFault => faults' \in 0..MaxFaults
    /\ \A c \in Threads : CountOK /\ Call(c) => calls' \in 0..MaxCalls
BY Bounds DEF CountOK, Fault, NoFault, Call

\* The HAL and the air.
LEMMA HalType == TypeOK /\ (HalConnects \/ HalRefuses \/ HalPairs \/ LnfConnects \/ LinkLost \/ AirChanges) => TypeOK'
<1> SUFFICES ASSUME TypeOK, HalConnects \/ HalRefuses \/ HalPairs \/ LnfConnects \/ LinkLost \/ AirChanges
             PROVE  DiskOK' /\ CredOK' /\ FlagOK' /\ PcOK' /\ HalOK' /\ CountOK'
  BY TypeParts
<1>0. DiskOK /\ CredOK /\ FlagOK /\ PcOK /\ HalOK /\ CountOK
  BY TypeParts
<1>1. CASE HalConnects
  <2>1. CredOK' /\ PcOK' /\ CountOK'
    BY <1>0, <1>1 DEF HalConnects, HalUnchanged, CredOK, PcOK, CountOK, ramVars, cbVars
  <2>2. FlagOK'
    BY <1>0, <1>1 DEF HalConnects, HalUnchanged, FlagOK, ramVars
  <2>3. DiskOK'
    <3>1. air \subseteq Networks
      BY <1>0, CredentialAssumption DEF HalOK
    <3>2. trying.save \in BOOLEAN
      BY <1>0 DEF HalOK, Requests, LnfRequest, NoRequest
    <3>3. \/ \E n \in air : /\ conf' = (IF trying.save THEN n ELSE conf)
                            /\ confFile' = (confFile \/ trying.save)
          \/ UNCHANGED <<conf, confFile>>
      BY <1>1 DEF HalConnects
    <3>4. \/ \E n \in air : conf' = n /\ confFile' = TRUE
          \/ UNCHANGED <<conf, confFile>>
      BY <1>0, <3>2, <3>3 DEF DiskOK
    <3>5. db' = db
      BY <1>1 DEF HalConnects, HalUnchanged
    <3> QED BY <1>0, <3>1, <3>4, <3>5 DEF DiskOK
  <2>4. HalOK'
    <3>1. \A n \in air : n.ssid \in Links
      BY <1>0, CredentialAssumption, Constants DEF HalOK
    <3>2. UNCHANGED <<link, trying, reports>> \/ \E s \in Links : Associated(s)
      BY <1>1, <3>1, Constants DEF HalConnects
    <3>3. link' \in Links /\ trying' \in Requests /\ reports' \in Seq(Reports)
      BY <1>0, <3>2, HalTypes, Constants DEF Associated, HalOK
    <3>4. air' = air
      BY <1>1 DEF HalConnects, HalUnchanged
    <3> QED BY <1>0, <3>3, <3>4 DEF HalOK
  <2> QED BY <2>1, <2>2, <2>3, <2>4
<1>2. CASE HalRefuses
  <2>1. DiskOK' /\ CredOK' /\ PcOK' /\ CountOK'
    BY <1>0, <1>2 DEF HalRefuses, HalUnchanged, DiskOK, CredOK, PcOK, CountOK, ramVars, cbVars
  <2>2. FlagOK'
    BY <1>0, <1>2 DEF HalRefuses, HalUnchanged, FlagOK, ramVars
  <2>3. HalOK'
    BY <1>0, <1>2, HalTypes, Constants DEF HalRefuses, HalUnchanged, HalOK
  <2> QED BY <2>1, <2>2, <2>3
<1>3. CASE HalPairs
  <2>1. CredOK' /\ PcOK' /\ CountOK'
    BY <1>0, <1>3 DEF HalPairs, HalUnchanged, CredOK, PcOK, CountOK, ramVars, cbVars
  <2>2. FlagOK'
    BY <1>0, <1>3 DEF HalPairs, HalUnchanged, FlagOK, ramVars
  <2>3. DiskOK'
    <3>1. air \subseteq Networks
      BY <1>0, CredentialAssumption DEF HalOK
    <3>2. \/ \E n \in air : conf' = n /\ confFile' = TRUE
          \/ UNCHANGED <<conf, confFile>>
      BY <1>3 DEF HalPairs
    <3>3. db' = db
      BY <1>3 DEF HalPairs, HalUnchanged
    <3> QED BY <1>0, <3>1, <3>2, <3>3 DEF DiskOK
  <2>4. HalOK'
    <3>1. \A n \in air : n.ssid \in Links
      BY <1>0, CredentialAssumption, Constants DEF HalOK
    <3>2. UNCHANGED <<link, trying, reports>> \/ \E s \in Links : Associated(s)
      BY <1>3, <3>1, Constants DEF HalPairs
    <3>3. link' \in Links /\ trying' \in Requests /\ reports' \in Seq(Reports)
      BY <1>0, <3>2, HalTypes, Constants DEF Associated, HalOK
    <3>4. air' = air
      BY <1>3 DEF HalPairs, HalUnchanged
    <3> QED BY <1>0, <3>3, <3>4 DEF HalOK
  <2> QED BY <2>1, <2>2, <2>3, <2>4
<1>4. CASE LnfConnects
  BY <1>0, <1>4, Constants
     DEF LnfConnects, DiskOK, CredOK, FlagOK, PcOK, HalOK, CountOK, diskVars, ramVars, cbVars, historyVars
<1>5. CASE LinkLost
  <2>1. CountOK'
    BY <1>0, <1>5, Counted DEF LinkLost, CountOK
  <2>2. DiskOK' /\ CredOK' /\ PcOK'
    BY <1>0, <1>5 DEF LinkLost, DiskOK, CredOK, PcOK, diskVars, ramVars, cbVars
  <2>3. FlagOK'
    BY <1>0, <1>5 DEF LinkLost, FlagOK, ramVars, historyVars
  <2>4. HalOK'
    BY <1>0, <1>5, HalTypes, Constants DEF LinkLost, HalOK
  <2> QED BY <2>1, <2>2, <2>3, <2>4
<1>6. CASE AirChanges
  <2>1. CountOK'
    BY <1>0, <1>6, Counted DEF AirChanges, CountOK
  <2>2. DiskOK' /\ CredOK' /\ PcOK'
    BY <1>0, <1>6 DEF AirChanges, DiskOK, CredOK, PcOK, diskVars, ramVars, cbVars
  <2>3. FlagOK'
    BY <1>0, <1>6 DEF AirChanges, FlagOK, ramVars
  <2>4. HalOK'
    BY <1>0, <1>6 DEF AirChanges, HalOK
  <2> QED BY <2>1, <2>2, <2>3, <2>4
<1> QED BY <1>1, <1>2, <1>3, <1>4, <1>5, <1>6

\* wifi_status_action.
LEMMA CallbackType == TypeOK /\ Callback => TypeOK'
<1> SUFFICES ASSUME TypeOK, Callback
             PROVE  DiskOK' /\ CredOK' /\ FlagOK' /\ PcOK' /\ HalOK' /\ CountOK'
  BY TypeParts
<1>0. DiskOK /\ CredOK /\ FlagOK /\ PcOK /\ HalOK /\ CountOK
  BY TypeParts
<1>a. CbUnchanged
  BY DEF Callback, CbBegin, StoreRead, StoreCompare, StoreCopySSID, StoreSet, CbAfter
<1>b. CountOK'
  BY <1>0, <1>a, Counted
     DEF Callback, CbBegin, StoreRead, StoreCompare, StoreCopySSID, StoreSet, CbAfter, CbUnchanged, CountOK
<1>c. DiskOK'
  BY <1>0, <1>a DEF CbUnchanged, DiskOK
<1>1. CASE CbBegin
  <2>1. Head(reports) \in Reports /\ Head(reports).status \in {"CONNECTED", "DISCONNECTED"}
    BY <1>1, HalTypes DEF CbBegin, Reports
  <2>2. CredOK' /\ HalOK'
    BY <1>0, <1>1, <1>a, HalTypes DEF CbBegin, CbUnchanged, CredOK, HalOK
  <2>3. PcOK'
    BY <1>0, <1>1, <1>a, HalTypes DEF CbBegin, CbUnchanged, PcOK, CbPcs
  <2>4. FlagOK'
    BY <1>0, <1>1, <1>a, <2>1 DEF CbBegin, CbUnchanged, FlagOK
  <2> QED BY <1>b, <1>c, <2>2, <2>3, <2>4
<1>2. CASE StoreRead
  <2>1. CredOK' /\ HalOK'
    BY <1>0, <1>2, <1>a, CredentialsOfConf DEF StoreRead, CbUnchanged, CredOK, HalOK, DiskOK
  <2>2. PcOK' /\ FlagOK'
    BY <1>0, <1>2, <1>a DEF StoreRead, CbUnchanged, PcOK, FlagOK, CbPcs, Disturbed
  <2> QED BY <1>b, <1>c, <2>1, <2>2
<1>3. CASE StoreCompare
  <2>1. CredOK' /\ HalOK'
    BY <1>0, <1>3, <1>a DEF StoreCompare, CbUnchanged, CredOK, HalOK, ramVars
  <2>2. PcOK' /\ FlagOK'
    BY <1>0, <1>3, <1>a DEF StoreCompare, CbUnchanged, PcOK, FlagOK, CbPcs, Disturbed, ramVars
  <2> QED BY <1>b, <1>c, <2>1, <2>2
<1>4. CASE StoreCopySSID
  <2>1. CredOK' /\ HalOK'
    <3>1. [Empty EXCEPT !.ssid = saved.ssid] \in Credentials
      BY <1>0 DEF CredOK, Credentials, Empty, Modes
    <3> QED BY <1>0, <1>4, <1>a, <3>1 DEF StoreCopySSID, CbUnchanged, CredOK, HalOK, ramVars
  <2>2. PcOK' /\ FlagOK'
    BY <1>0, <1>4, <1>a DEF StoreCopySSID, CbUnchanged, PcOK, FlagOK, CbPcs, ramVars
  <2> QED BY <1>b, <1>c, <2>1, <2>2
<1>5. CASE StoreSet
  <2>1. CredOK' /\ HalOK'
    <3>1. [param EXCEPT !.pass = saved.pass, !.mode = saved.mode] \in Credentials
      BY <1>0 DEF CredOK, Credentials
    <3> QED BY <1>0, <1>5, <1>a, <3>1 DEF StoreSet, CbUnchanged, CredOK, HalOK, ramVars
  <2>2. PcOK' /\ FlagOK'
    BY <1>0, <1>5, <1>a DEF StoreSet, CbUnchanged, PcOK, FlagOK, CbPcs, Disturbed, ramVars
  <2> QED BY <1>b, <1>c, <2>1, <2>2
<1>6. CASE CbAfter
  <2>1. CredOK' /\ HalOK'
    BY <1>0, <1>6, <1>a, CredentialsOfConf, Constants DEF CbAfter, CbUnchanged, CredOK, HalOK, DiskOK
  <2>2. PcOK' /\ FlagOK'
    BY <1>0, <1>6, <1>a, Constants DEF CbAfter, CbUnchanged, PcOK, FlagOK, CbPcs
  <2> QED BY <1>b, <1>c, <2>1, <2>2
<1> QED BY <1>1, <1>2, <1>3, <1>4, <1>5, <1>6 DEF Callback
\* The migration writes to the file it has opened, so that conf # NoNetwork => confFile is
\* kept.
FileOpen == boot = "write" => confFile

\* Boot and restart.
LEMMA BootType == TypeOK /\ FileOpen /\ (Boot \/ \E lost \in BOOLEAN : Restart(lost)) => TypeOK'
<1> SUFFICES ASSUME TypeOK, FileOpen, Boot \/ \E lost \in BOOLEAN : Restart(lost)
             PROVE  DiskOK' /\ CredOK' /\ FlagOK' /\ PcOK' /\ HalOK' /\ CountOK'
  BY TypeParts
<1>0. DiskOK /\ CredOK /\ FlagOK /\ PcOK /\ HalOK /\ CountOK
  BY TypeParts
<1>1. ASSUME Boot PROVE DiskOK' /\ CredOK' /\ FlagOK' /\ PcOK' /\ HalOK' /\ CountOK'
  <2>1. BootUnchanged
    BY <1>1 DEF Boot, BootInit, BootWrite, BootRemove, StartHal, StartMfr
  <2>2. CountOK'
    <3>1. Fault \/ NoFault
      BY <1>1 DEF Boot, BootInit, BootWrite, BootRemove, StartHal, StartMfr
    <3>2. calls' = calls
      BY <2>1 DEF BootUnchanged
    <3> QED BY <1>0, <3>1, <3>2, Counted DEF CountOK
  <2>3. CredOK'
    BY <1>0, <1>1, <2>1
       DEF Boot, BootInit, BootWrite, BootRemove, StartHal, StartMfr, BootUnchanged, CredOK, cbVars, diskVars
  <2>4. PcOK'
    BY <1>0, <1>1, <2>1
       DEF Boot, BootInit, BootWrite, BootRemove, StartHal, StartMfr, BootUnchanged, PcOK, cbVars
  <2>5. FlagOK'
    BY <1>0, <1>1, <2>1
       DEF Boot, BootInit, BootWrite, BootRemove, StartHal, StartMfr, BootUnchanged, FlagOK
  <2>6. DiskOK'
    <3>1. CASE BootWrite
      BY <1>0, <3>1 DEF BootWrite, DiskOK, FileOpen
    <3>2. CASE BootInit \/ BootRemove \/ StartHal \/ StartMfr
      BY <1>0, <3>2 DEF BootInit, BootRemove, StartHal, StartMfr, DiskOK, diskVars
    <3> QED BY <1>1, <3>1, <3>2 DEF Boot
  <2>7. HalOK'
    <3>1. Request([mfr EXCEPT !.mode = ConnectMode(mfr.mode)], FALSE) \in Requests
      BY <1>0, Constants DEF CredOK
    <3>2. trying' \in Requests
      BY <1>0, <1>1, <3>1, HalTypes
         DEF Boot, BootInit, BootWrite, BootRemove, StartHal, StartMfr, wifi_connectEndpoint, HalOK
    <3> QED BY <1>0, <2>1, <3>2 DEF BootUnchanged, HalOK
  <2> QED BY <2>2, <2>3, <2>4, <2>5, <2>6, <2>7
<1>2. ASSUME NEW lost \in BOOLEAN, Restart(lost)
      PROVE  DiskOK' /\ CredOK' /\ FlagOK' /\ PcOK' /\ HalOK' /\ CountOK'
  <2>1. DiskOK'
    BY <1>0, <1>2 DEF Restart, DiskOK
  <2>2. CredOK'
    BY <1>0, <1>2, Constants DEF Restart, CredOK
  <2>3. FlagOK'
    BY <1>0, <1>2 DEF Restart, FlagOK
  <2>4. PcOK'
    BY <1>0, <1>2, Constants DEF Restart, PcOK, CallerPcs, CbPcs
  <2>5. HalOK'
    <3>1. <<>> \in Seq(Reports)
      OBVIOUS
    <3> QED BY <1>0, <1>2, <3>1, Constants DEF Restart, HalOK
  <2>6. CountOK'
    BY <1>0, <1>2, Counted DEF Restart, CountOK
  <2> QED BY <2>1, <2>2, <2>3, <2>4, <2>5, <2>6
<1> QED BY <1>1, <1>2

\* A bus call or a step of one, as far as the types go: only the thread's own program
\* counter moves, files are only emptied, requests and credentials are well-formed.
CallShape(c) ==
    /\ UNCHANGED <<db, isLAFCurrConnectedssid, boot, cb, cbSSID, param, air, confFile>>
    /\ conf' \in {conf, NoNetwork}
    /\ mfr' \in {mfr, Empty} /\ saved' \in Credentials
    /\ status' \in {status, "CONNECTING"}
    /\ pc' = pc \/ \E to \in CallerPcs : pc' = [pc EXCEPT ![c] = to]
    /\ link' \in {link, ""} /\ trying' \in Requests /\ reports' \in {reports, reports \o Gone}
    /\ {wpsConnLock', wps', untouched', storing', cleared'} \subseteq BOOLEAN
    /\ Fault \/ NoFault
    /\ calls' = calls \/ Call(c)

LEMMA CallShapeType == ASSUME TypeOK, NEW c \in Threads, CallShape(c) PROVE TypeOK'
<1>0. DiskOK /\ CredOK /\ FlagOK /\ PcOK /\ HalOK /\ CountOK
  BY TypeParts
<1>1. DiskOK' /\ CredOK'
  BY <1>0, Constants DEF CallShape, DiskOK, CredOK
<1>2. FlagOK'
  BY <1>0 DEF CallShape, FlagOK
<1>3. PcOK'
  BY <1>0 DEF CallShape, PcOK
<1>4. HalOK'
  BY <1>0, HalTypes, Constants DEF CallShape, HalOK
<1>5. CountOK'
  BY <1>0, Counted DEF CallShape, CountOK
<1> QED BY <1>1, <1>2, <1>3, <1>4, <1>5, TypeParts

\* The bus calls and the WPS key have that shape.
LEMMA CallsShape ==
    ASSUME TypeOK, NEW c \in Threads,
           \/ CallStep(c) \/ initiateWPSPairing(c)
           \/ \E n \in Networks \cup {NoNetwork} : connect(c, n)
           \/ \E n \in Networks : saveSSID(c, n)
           \/ disconnectSSID(c) \/ clearSSID(c) \/ cancelWPSPairing(c)
    PROVE  CallShape(c)
<1>0. DiskOK /\ CredOK /\ FlagOK /\ PcOK /\ HalOK /\ CountOK
  BY TypeParts
<1>a. {wpsConnLock, wps, untouched, storing, cleared} \subseteq BOOLEAN
  BY <1>0 DEF FlagOK
<1>b. saved \in Credentials /\ trying \in Requests /\ NoRequest \in Requests /\ Empty \in Credentials
  BY <1>0, Constants DEF CredOK, HalOK
<1>1. ASSUME NEW n \in Networks \cup {NoNetwork}, connect(c, n) PROVE CallShape(c)
  <2> DEFINE cred == IF n = NoNetwork THEN saved
                     ELSE IF n.security = "NONE" THEN [CredentialsOf(n) EXCEPT !.pass = saved.pass]
                     ELSE CredentialsOf(n)
  <2>1. saved.pass \in Passes \cup {""}
    BY <1>b DEF Credentials
  <2>2. cred \in Credentials
    BY <1>b, <2>1, CredentialsOfCaller
  <2>3. Request(cred, TRUE) \in Requests
    BY <2>2, Constants
  <2>4. /\ status' \in {status, "CONNECTING"} /\ cleared' \in {cleared, FALSE}
        /\ trying' \in {trying, Request(cred, TRUE)}
        /\ Fault \/ NoFault
    BY <1>1 DEF connect, wifi_connectEndpoint
  <2> QED BY <1>1, <1>a, <1>b, <2>3, <2>4 DEF connect, CallShape, CallUnchanged, cbVars, Call, Disturbed
<1>2. ASSUME NEW n \in Networks, saveSSID(c, n) PROVE CallShape(c)
  BY <1>2, <1>a, <1>b, CredentialsOfCaller DEF saveSSID, CallShape, CallUnchanged, cbVars, Call, Disturbed
<1>3. CASE disconnectSSID(c)
  BY <1>3, <1>a, <1>b
     DEF disconnectSSID, CallShape, CallUnchanged, cbVars, Call, Disturbed, Disconnects, wifi_disconnectEndpoint
<1>4. CASE clearSSID(c)
  BY <1>4, <1>a, <1>b
     DEF clearSSID, CallShape, CallUnchanged, cbVars, Call, Disturbed, wifi_disconnectEndpoint, At, CallerPcs
<1>5. CASE cancelWPSPairing(c)
  BY <1>5, <1>a, <1>b
     DEF cancelWPSPairing, CallShape, CallUnchanged, WpsUnchanged, cbVars, Call, Disturbed
<1>6. CASE initiateWPSPairing(c)
  BY <1>6, <1>a, <1>b
     DEF initiateWPSPairing, CallShape, CallUnchanged, WpsUnchanged, cbVars, Call, Disturbed, At, CallerPcs
<1>7. CASE ClearInfo(c)
  BY <1>7, <1>a, <1>b DEF ClearInfo, CallShape, CallUnchanged, cbVars, Disturbed, At, CallerPcs
<1>8. CASE ClearSaved(c)
  BY <1>8, <1>a, <1>b DEF ClearSaved, CallShape, CallUnchanged, cbVars, Disturbed, At, CallerPcs
<1>9. CASE ClearErase(c)
  BY <1>9, <1>a, <1>b DEF ClearErase, CallShape, CallUnchanged, cbVars, Disturbed, At, CallerPcs, Nothing
<1>10. CASE WpsCheck(c)
  BY <1>10, <1>a, <1>b
     DEF WpsCheck, CallShape, CallUnchanged, WpsUnchanged, cbVars, historyVars, At, CallerPcs,
         Disconnects, wifi_disconnectEndpoint
<1>11. CASE WpsNoPin(c)
  BY <1>11, <1>a, <1>b
     DEF WpsNoPin, CallShape, CallUnchanged, WpsUnchanged, cbVars, historyVars, At, CallerPcs
<1>12. CASE WpsPush(c)
  BY <1>12, <1>a, <1>b
     DEF WpsPush, CallShape, CallUnchanged, WpsUnchanged, cbVars, Disturbed, At, CallerPcs
<1> QED BY <1>1, <1>2, <1>3, <1>4, <1>5, <1>6, <1>7, <1>8, <1>9, <1>10, <1>11, <1>12 DEF CallStep

\* WiFi switched off and on, and a call that Stop left asleep.
Switched == Stop \/ shutdownWifi \/ StartAgain \/ \E c \in Threads : WpsWoken(c)

LEMMA SwitchType == TypeOK /\ FileOpen /\ Switched => TypeOK' /\ FileOpen'
<1> SUFFICES ASSUME TypeOK, FileOpen, Switched
             PROVE  DiskOK' /\ CredOK' /\ FlagOK' /\ PcOK' /\ HalOK' /\ CountOK' /\ FileOpen'
  BY TypeParts
<1>0. DiskOK /\ CredOK /\ FlagOK /\ PcOK /\ HalOK /\ CountOK
  BY TypeParts
<1>1. CASE Stop
  <2>1. DiskOK' /\ CredOK' /\ HalOK' /\ FileOpen'
    BY <1>0, <1>1 DEF Stop, DiskOK, CredOK, HalOK, FileOpen, diskVars, ramVars, cbVars, halVars
  <2>2. FlagOK'
    BY <1>0, <1>1 DEF Stop, FlagOK, Disturbed, ramVars, halVars
  <2>3. PcOK'
    BY <1>0, <1>1 DEF Stop, PcOK, CallerPcs, cbVars
  <2>4. CountOK'
    BY <1>0, <1>1, Counted DEF Stop, CountOK
  <2> QED BY <2>1, <2>2, <2>3, <2>4
<1>2. CASE shutdownWifi
  <2>1. DiskOK' /\ CredOK' /\ FileOpen'
    BY <1>0, <1>2, Constants DEF shutdownWifi, DiskOK, CredOK, FileOpen, diskVars, cbVars
  <2>2. FlagOK' /\ PcOK' /\ CountOK'
    BY <1>0, <1>2 DEF shutdownWifi, FlagOK, PcOK, CountOK, Disturbed, cbVars
  <2>3. <<>> \in Seq(Reports)
    OBVIOUS
  <2>4. HalOK'
    BY <1>0, <1>2, <2>3, Constants DEF shutdownWifi, HalOK
  <2> QED BY <2>1, <2>2, <2>4
<1>3. CASE StartAgain
  BY <1>0, <1>3
     DEF StartAgain, DiskOK, CredOK, FlagOK, PcOK, HalOK, CountOK, FileOpen, diskVars, ramVars, cbVars,
         halVars, historyVars
<1>4. ASSUME NEW c \in Threads, WpsWoken(c)
      PROVE  DiskOK' /\ CredOK' /\ FlagOK' /\ PcOK' /\ HalOK' /\ CountOK' /\ boot' = boot /\ confFile' = confFile
  <2>1. PcOK'
    BY <1>0, <1>4 DEF WpsWoken, At, PcOK, CallerPcs, cbVars
  <2> QED BY <1>0, <1>4, <2>1
             DEF WpsWoken, DiskOK, CredOK, FlagOK, HalOK, CountOK, diskVars, ramVars, cbVars, halVars, historyVars
<1> QED BY <1>1, <1>2, <1>3, <1>4 DEF Switched, FileOpen

LEMMA StepType == TypeOK /\ FileOpen /\ [Next]_vars => TypeOK' /\ FileOpen'
<1> SUFFICES ASSUME TypeOK, FileOpen, [Next]_vars PROVE TypeOK' /\ FileOpen'
  OBVIOUS
<1>1. CASE UNCHANGED vars
  BY <1>1 DEF TypeOK, FileOpen, vars, diskVars, ramVars, cbVars, halVars, historyVars
<1>2. ASSUME NEW c \in Threads, CallShape(c) PROVE TypeOK' /\ FileOpen'
  BY <1>2, CallShapeType DEF CallShape, FileOpen
<1>3. HalConnects \/ HalRefuses \/ HalPairs \/ LnfConnects \/ LinkLost \/ AirChanges => FileOpen'
  <2>1. HalConnects \/ HalRefuses \/ HalPairs => HalUp /\ boot' = boot
    BY DEF HalConnects, HalRefuses, HalPairs, HalUnchanged
  <2>2. LnfConnects \/ LinkLost \/ AirChanges => UNCHANGED <<confFile, boot>>
    BY DEF LnfConnects, LinkLost, AirChanges, diskVars
  <2> QED BY <2>1, <2>2 DEF HalUp, FileOpen
<1>4. Callback => FileOpen'
  <2>1. Callback => CbUnchanged
    BY DEF Callback, CbBegin, StoreRead, StoreCompare, StoreCopySSID, StoreSet, CbAfter
  <2> QED BY <2>1 DEF CbUnchanged, FileOpen
<1>5. Boot => FileOpen'
  BY DEF Boot, BootInit, BootWrite, BootRemove, StartHal, StartMfr, FileOpen
<1>6. ASSUME NEW lost \in BOOLEAN, Restart(lost) PROVE FileOpen'
  BY <1>6 DEF Restart, FileOpen
<1> QED BY <1>1, <1>2, <1>3, <1>4, <1>5, <1>6, CallsShape, HalType, CallbackType, BootType, SwitchType
           DEF Next, Switched, Threads

\* The types of WifiCredentials hold for any networks and bounds: in particular the mode that
\* lastConnectedSSID derives is always one of SsidSecurity, and wpa_supplicant.conf exists
\* whenever it has a network.
THEOREM TypeCorrect == Spec => []TypeOK
<1>1. Init => TypeOK /\ FileOpen
  BY InitType DEF Init, FileOpen
<1> QED BY <1>1, StepType, PTL DEF Spec
-----------------------------------------------------------------------------
(* Storing a new network. *)

\* What an undisturbed callback for a new SSID has found out at each program point: the
\* device has a network since StoreRead, RAM has it until the comparison and the copies are
\* made, and the copy of the SSID is of that network.
StoreInv ==
    storing => /\ HalUp /\ cb # "idle"
               /\ cb # "read" => isPaired
               /\ cb \in {"compare", "copySSID", "set"} => saved = lastConnectedSSID
               /\ cb = "set" => param.ssid = saved.ssid

\* The library has the network of wpa_supplicant.conf.
InLibrary ==
    /\ isPaired /\ mfr.ssid = conf.ssid /\ mfr.pass = conf.pass
    /\ mfr.mode \in {SecurityMode(conf.security), "-1"}

\* Steps that leave the callback and the four copies alone.
LEMMA StoreUntouched ==
    ASSUME StoreInv, StoredWhenNew, UNCHANGED <<conf, mfr, saved, cb, param>>,
           storing' => storing, HalUp => HalUp'
    PROVE  StoreInv' /\ StoredWhenNew'
<1>1. lastConnectedSSID' = lastConnectedSSID /\ isPaired' = isPaired
  BY DEF lastConnectedSSID, isPaired
<1>2. StoreInv'
  BY <1>1 DEF StoreInv
<1>3. StoredWhenNew'
  BY <1>1 DEF StoredWhenNew
<1> QED BY <1>2, <1>3

LEMMA StoreStep == TypeOK /\ StoreInv /\ StoredWhenNew /\ [Next]_vars => StoreInv' /\ StoredWhenNew'
<1> SUFFICES ASSUME TypeOK, StoreInv, StoredWhenNew, [Next]_vars PROVE StoreInv' /\ StoredWhenNew'
  OBVIOUS
<1>0. ASSUME ~storing' PROVE StoreInv' /\ StoredWhenNew'
  BY <1>0 DEF StoreInv, StoredWhenNew
<1>1. CASE UNCHANGED vars
  BY <1>1, StoreUntouched DEF vars, diskVars, ramVars, cbVars, historyVars, HalUp
<1>2. ASSUME NEW c \in Threads, CallStep(c) PROVE StoreInv' /\ StoredWhenNew'
  <2>1. CASE ClearInfo(c) \/ ClearSaved(c) \/ ClearErase(c) \/ WpsPush(c)
    BY <1>0, <2>1 DEF ClearInfo, ClearSaved, ClearErase, WpsPush, Disturbed
  <2>2. CASE WpsCheck(c) \/ WpsNoPin(c)
    <3>1. UNCHANGED <<conf, mfr, saved, cb, param, storing, boot>>
      BY <2>2 DEF WpsCheck, WpsNoPin, WpsUnchanged, CallUnchanged, cbVars, historyVars
    <3> QED BY <3>1, StoreUntouched DEF HalUp
  <2> QED BY <1>2, <2>1, <2>2 DEF CallStep
<1>3. ASSUME NEW c \in Threads, Call(c) PROVE StoreInv' /\ StoredWhenNew'
  BY <1>0, <1>3 DEF Call, Disturbed
<1>4. CASE CbBegin
  <2>1. storing' => cb' = "read"
    BY <1>4 DEF CbBegin
  <2>2. HalUp'
    BY <1>4 DEF CbBegin, CbUnchanged, HalUp
  <2> QED BY <2>1, <2>2 DEF StoreInv, StoredWhenNew
<1>5. CASE StoreRead
  <2>1. CASE conf = NoNetwork
    BY <1>0, <1>5, <2>1 DEF StoreRead, Disturbed
  <2>2. CASE conf # NoNetwork
    <3>1. cb' = "compare" /\ saved' = lastConnectedSSID /\ UNCHANGED <<storing, conf, boot>>
      BY <1>5, <2>2 DEF StoreRead, CbUnchanged
    <3> QED BY <2>2, <3>1 DEF StoreInv, StoredWhenNew, isPaired, lastConnectedSSID, HalUp
  <2> QED BY <2>1, <2>2
<1>6. CASE StoreCompare
  <2>1. UNCHANGED <<conf, boot, mfr, saved, param>>
    BY <1>6 DEF StoreCompare, CbUnchanged, ramVars
  <2>2. CASE storing' /\ storing
    <3>1. isPaired /\ saved = lastConnectedSSID /\ HalUp
      BY <1>6, <2>2 DEF StoreCompare, StoreInv
    <3>2. CASE Same(mfr, saved) /\ cb' = "after"
      <4>1. InLibrary
        BY <3>1, <3>2 DEF Same, lastConnectedSSID, InLibrary
      <4>2. StoredWhenNew'
        BY <2>1, <4>1 DEF InLibrary, StoredWhenNew, isPaired
      <4> QED BY <2>1, <3>1, <3>2, <4>2 DEF StoreInv, isPaired, HalUp
    <3>3. CASE cb' = "copySSID"
      BY <2>1, <3>1, <3>3 DEF StoreInv, StoredWhenNew, isPaired, lastConnectedSSID, HalUp
    <3> QED BY <1>6, <2>2, <3>2, <3>3 DEF StoreCompare, Disturbed
  <2>3. storing' => storing
    BY <1>6 DEF StoreCompare, Disturbed
  <2> QED BY <1>0, <2>2, <2>3
<1>7. CASE StoreCopySSID
  <2>1. UNCHANGED <<conf, boot, saved, storing>> /\ cb' = "set" /\ param' = [Empty EXCEPT !.ssid = saved.ssid]
    BY <1>7 DEF StoreCopySSID, CbUnchanged, ramVars
  <2>2. param'.ssid = saved.ssid
    BY <2>1 DEF Empty
  <2>3. storing => isPaired /\ saved = lastConnectedSSID /\ HalUp
    BY <1>7 DEF StoreCopySSID, StoreInv
  <2> QED BY <2>1, <2>2, <2>3 DEF StoreInv, StoredWhenNew, isPaired, lastConnectedSSID, HalUp
<1>8. CASE StoreSet
  <2>1. UNCHANGED <<conf, boot>> /\ cb' = "after"
    BY <1>8 DEF StoreSet, CbUnchanged
  <2>2. CASE storing' /\ storing
    <3>1. isPaired /\ saved = lastConnectedSSID /\ HalUp /\ param.ssid = saved.ssid
      BY <1>8, <2>2 DEF StoreSet, StoreInv
    <3>2. mfr' = [param EXCEPT !.pass = saved.pass, !.mode = saved.mode]
      BY <1>8, <2>2 DEF StoreSet, Disturbed
    <3>3. mfr'.ssid = saved.ssid /\ mfr'.pass = saved.pass /\ mfr'.mode = saved.mode
      BY <3>1, <3>2 DEF TypeOK, Credentials
    <3>4. StoredWhenNew'
      BY <2>1, <3>1, <3>3 DEF StoredWhenNew, isPaired, lastConnectedSSID
    <3> QED BY <2>1, <3>1, <3>4 DEF StoreInv, isPaired, HalUp
  <2>3. storing' => storing
    BY <1>8 DEF StoreSet, Disturbed
  <2> QED BY <1>0, <2>2, <2>3
<1>9. CASE CbAfter
  BY <1>0, <1>9 DEF CbAfter
<1>10. CASE Boot
  <2>1. CASE BootInit \/ BootWrite \/ BootRemove \/ StartHal
    <3>1. ~HalUp /\ storing' = storing
      BY <2>1 DEF BootInit, BootWrite, BootRemove, StartHal, HalUp, BootUnchanged
    <3> QED BY <1>0, <3>1 DEF StoreInv
  <2>2. CASE StartMfr
    <3>1. UNCHANGED <<conf, mfr, saved, cb, param, storing>> /\ HalUp'
      BY <2>2 DEF StartMfr, HalUp, BootUnchanged, diskVars, cbVars
    <3> QED BY <3>1, StoreUntouched
  <2> QED BY <1>10, <2>1, <2>2 DEF Boot
<1>11. CASE HalConnects
  <2>1. \/ storing' = FALSE
        \/ UNCHANGED <<conf, storing>>
    BY <1>11 DEF HalConnects
  <2>2. UNCHANGED <<mfr, saved, cb, param, boot>>
    BY <1>11 DEF HalConnects, HalUnchanged, ramVars, cbVars
  <2> QED BY <1>0, <2>1, <2>2, StoreUntouched DEF HalUp
<1>12. CASE HalPairs
  <2>1. \/ storing' = FALSE
        \/ UNCHANGED <<conf, storing>>
    BY <1>12 DEF HalPairs
  <2>2. UNCHANGED <<mfr, saved, cb, param, boot>>
    BY <1>12 DEF HalPairs, HalUnchanged, ramVars, cbVars
  <2> QED BY <1>0, <2>1, <2>2, StoreUntouched DEF HalUp
<1>13. CASE HalRefuses \/ LnfConnects \/ LinkLost \/ AirChanges
  <2>1. UNCHANGED <<conf, mfr, saved, cb, param, boot, storing>>
    BY <1>13 DEF HalRefuses, LnfConnects, LinkLost, AirChanges, HalUnchanged, diskVars, ramVars, cbVars, historyVars
  <2> QED BY <2>1, StoreUntouched DEF HalUp
<1>14. ASSUME NEW lost \in BOOLEAN, Restart(lost) PROVE StoreInv' /\ StoredWhenNew'
  BY <1>0, <1>14 DEF Restart
<1>15. ASSUME NEW c \in Callers PROVE c \in Threads
  BY DEF Threads
<1>16. CASE Stop \/ shutdownWifi
  BY <1>0, <1>16 DEF Stop, shutdownWifi, Disturbed
<1>17. CASE StartAgain
  <2>1. ~HalUp /\ storing' = storing
    BY <1>17 DEF StartAgain, HalUp, historyVars
  <2> QED BY <1>0, <2>1 DEF StoreInv
<1>18. ASSUME NEW c \in Threads, WpsWoken(c) PROVE StoreInv' /\ StoredWhenNew'
  <2>1. UNCHANGED <<conf, mfr, saved, cb, param, boot, storing>>
    BY <1>18 DEF WpsWoken, diskVars, ramVars, cbVars, historyVars
  <2> QED BY <2>1, StoreUntouched DEF HalUp
<1> QED
  BY <1>16, <1>17, <1>18, <1>1, <1>2, <1>3, <1>4, <1>5, <1>6, <1>7, <1>8, <1>9, <1>10, <1>11, <1>12, <1>13, <1>14, <1>15
     DEF Next, Callback, initiateWPSPairing, connect, saveSSID, disconnectSSID, clearSSID, cancelWPSPairing

\* A connect callback for a new SSID that nothing disturbs leaves the MFR library with the
\* network of wpa_supplicant.conf, for any networks and any number of calls and failures
\* before it.
THEOREM NewIsStored == Spec => []StoredWhenNew
<1>1. Init => TypeOK /\ FileOpen /\ StoreInv /\ StoredWhenNew
  BY InitType DEF Init, FileOpen, StoreInv, StoredWhenNew
<1>2. TypeOK /\ FileOpen /\ StoreInv /\ StoredWhenNew /\ [Next]_vars
      => (TypeOK /\ FileOpen /\ StoreInv /\ StoredWhenNew)'
  BY StepType, StoreStep
<1> QED BY <1>1, <1>2, PTL DEF Spec
-----------------------------------------------------------------------------
(* A cleared network. *)

\* No callback for a private network is waiting in a queue.
Quiet(queue) == \A i \in DOMAIN queue : queue[i].status = "CONNECTED" => queue[i].ssid = LnfSSID

\* Nothing in the device can bring a private network back: every copy is empty, NetApp.db is
\* gone or will not be converted, and no request, WPS session, association or callback for a
\* private network is under way.
Bare == /\ mfr = Empty /\ conf = NoNetwork /\ ~wps
        /\ (confFile \/ db = NoNetwork) /\ boot # "write"
        /\ link \in {"", LnfSSID} /\ trying.cred.ssid \in {"", LnfSSID}
        /\ cb \in {"idle", "after"} /\ (cb = "after" => cbSSID = LnfSSID)
        /\ Quiet(reports)

ClearInv == cleared => Bare

LEMMA QuietQueues ==
    /\ \A q \in Seq(Reports), r \in Reports :
          Quiet(q) /\ (r.status = "CONNECTED" => r.ssid = LnfSSID) => Quiet(Append(q, r)) /\ Quiet(q \o <<r>>)
    /\ \A q \in Seq(Reports) :
          Quiet(q) /\ q # <<>> =>
             /\ Quiet(Tail(q))
             /\ Head(q).status = "CONNECTED" => Head(q).ssid = LnfSSID
<1>1. ASSUME NEW q \in Seq(Reports), NEW r \in Reports, Quiet(q), r.status = "CONNECTED" => r.ssid = LnfSSID
      PROVE  Quiet(Append(q, r)) /\ Quiet(q \o <<r>>)
  BY <1>1 DEF Quiet
<1>2. ASSUME NEW q \in Seq(Reports), Quiet(q), q # <<>>
      PROVE  Quiet(Tail(q)) /\ (Head(q).status = "CONNECTED" => Head(q).ssid = LnfSSID)
  BY <1>2 DEF Quiet
<1> QED BY <1>1, <1>2

\* What the HAL says when it leaves a network, and when it joins lost-and-found.
LEMMA QuietReports ==
    ASSUME TypeOK, Quiet(reports)
    PROVE  /\ Quiet(reports \o Gone)
           /\ Quiet(reports \o Gone \o <<[status |-> "CONNECTED", ssid |-> LnfSSID]>>)
           /\ Quiet(Append(reports, [status |-> "DISCONNECTED", ssid |-> ""]))
<1>1. reports \in Seq(Reports) /\ reports \o Gone \in Seq(Reports) /\ link \in Links
  BY HalTypes DEF TypeOK
<1>2. /\ [status |-> "DISCONNECTED", ssid |-> link] \in Reports
      /\ [status |-> "DISCONNECTED", ssid |-> ""] \in Reports
      /\ [status |-> "CONNECTED", ssid |-> LnfSSID] \in Reports
  BY <1>1, Constants
<1>3. Quiet(reports \o Gone)
  <2>1. CASE link = ""
    <3>1. reports \o <<>> = reports
      BY <1>1
    <3> QED BY <2>1, <3>1 DEF Gone
  <2>2. CASE link # ""
    <3>1. Gone = <<[status |-> "DISCONNECTED", ssid |-> link]>>
      BY <2>2 DEF Gone
    <3>2. Quiet(reports \o <<[status |-> "DISCONNECTED", ssid |-> link]>>)
      BY <1>1, <1>2, QuietQueues
    <3> QED BY <3>1, <3>2
  <2> QED BY <2>1, <2>2
<1>4. Quiet(reports \o Gone \o <<[status |-> "CONNECTED", ssid |-> LnfSSID]>>)
  BY <1>1, <1>2, <1>3, QuietQueues
<1>5. Quiet(Append(reports, [status |-> "DISCONNECTED", ssid |-> ""]))
  BY <1>1, <1>2, QuietQueues
<1> QED BY <1>3, <1>4, <1>5
LEMMA RequestNames ==
    /\ NoRequest.cred.ssid = "" /\ LnfRequest.cred.ssid = LnfSSID
    /\ \A mode \in Modes : Request([Empty EXCEPT !.mode = mode], FALSE).cred.ssid = ""
BY DEF NoRequest, LnfRequest, Request, Empty

\* No network on the air takes a request without an SSID, or for lost-and-found.
LEMMA NobodyAccepts ==
    ASSUME TypeOK, trying.cred.ssid \in {"", LnfSSID}, NEW n \in air
    PROVE  ~Accepts(n, trying)
BY CredentialAssumption DEF TypeOK, Accepts

LEMMA ClearHal ==
    ASSUME TypeOK, Bare, HalConnects \/ HalRefuses \/ HalPairs \/ LnfConnects \/ LinkLost \/ AirChanges
    PROVE  Bare'
<1>0. /\ Quiet(reports \o Gone)
      /\ Quiet(reports \o Gone \o <<[status |-> "CONNECTED", ssid |-> LnfSSID]>>)
      /\ Quiet(Append(reports, [status |-> "DISCONNECTED", ssid |-> ""]))
  BY QuietReports DEF Bare
<1>1. CASE HalConnects
  <2>1. trying = LnfRequest /\ Associated(LnfSSID) /\ UNCHANGED <<conf, confFile, storing, wps>>
    BY <1>1, NobodyAccepts DEF HalConnects, Bare
  <2>2. UNCHANGED <<mfr, db, boot, cb, cbSSID>>
    BY <1>1 DEF HalConnects, HalUnchanged, cbVars
  <2> QED BY <1>0, <2>1, <2>2, RequestNames DEF Bare, Associated
<1>2. CASE HalRefuses
  BY <1>0, <1>2, RequestNames DEF HalRefuses, HalUnchanged, cbVars, Bare
<1>3. CASE HalPairs
  BY <1>3 DEF HalPairs, Bare
<1>4. CASE LnfConnects
  BY <1>4, RequestNames DEF LnfConnects, Bare, diskVars, cbVars
<1>5. CASE LinkLost
  <2>1. trying' \in {trying, NoRequest}
    BY <1>5 DEF LinkLost, Resumes, Bare
  <2>2. trying'.cred.ssid \in {"", LnfSSID}
    BY <2>1, RequestNames DEF Bare
  <2>3. reports' = reports \o Gone /\ link' = "" /\ UNCHANGED <<mfr, conf, confFile, db, boot, cb, cbSSID, wps>>
    BY <1>5 DEF LinkLost, diskVars, cbVars
  <2> QED BY <1>0, <2>2, <2>3 DEF Bare
<1>6. CASE AirChanges
  BY <1>6 DEF AirChanges, Bare, diskVars, cbVars
<1> QED BY <1>1, <1>2, <1>3, <1>4, <1>5, <1>6

LEMMA ClearCallback == ASSUME TypeOK, Bare, Callback PROVE Bare'
<1>0. CbUnchanged
  BY DEF Callback, CbBegin, StoreRead, StoreCompare, StoreCopySSID, StoreSet, CbAfter
<1>1. CASE CbBegin
  <2>1. reports # <<>> /\ reports \in Seq(Reports)
    BY <1>1 DEF CbBegin, TypeOK
  <2>2. Quiet(Tail(reports)) /\ (Head(reports).status = "CONNECTED" => Head(reports).ssid = LnfSSID)
    BY <2>1, QuietQueues DEF Bare
  <2>3. Head(reports).status \in {"CONNECTED", "DISCONNECTED"}
    BY <2>1, HalTypes DEF Reports
  <2>4. cb' \in {"idle", "after"} /\ (cb' = "after" => cbSSID' = LnfSSID)
    BY <1>1, <2>2, <2>3 DEF CbBegin
  <2>5. reports' = Tail(reports) /\ mfr' = mfr
    BY <1>1 DEF CbBegin
  <2> QED BY <1>0, <2>2, <2>4, <2>5 DEF Bare, CbUnchanged
<1>2. CASE CbAfter
  <2>1. UNCHANGED <<mfr, reports>> /\ cb' = "idle"
    BY <1>2 DEF CbAfter
  <2> QED BY <1>0, <2>1 DEF CbUnchanged, Bare
<1>3. CASE StoreRead \/ StoreCompare \/ StoreCopySSID \/ StoreSet
  BY <1>3 DEF StoreRead, StoreCompare, StoreCopySSID, StoreSet, Bare
<1> QED BY <1>1, <1>2, <1>3 DEF Callback

LEMMA ClearBoot == ASSUME TypeOK, Bare, Boot \/ \E lost \in BOOLEAN : Restart(lost) PROVE Bare'
<1>1. ASSUME Boot PROVE Bare'
  <2>1. BootUnchanged
    BY <1>1 DEF Boot, BootInit, BootWrite, BootRemove, StartHal, StartMfr
  <2>2. mfr' = mfr /\ conf' = conf /\ (confFile' \/ db' = NoNetwork) /\ boot' # "write"
    BY <1>1 DEF Boot, BootInit, BootWrite, BootRemove, StartHal, StartMfr, Migrate, Bare, diskVars
  <2>3. trying'.cred.ssid \in {"", LnfSSID}
    <3>1. CASE BootInit \/ BootWrite \/ BootRemove
      BY <3>1 DEF BootInit, BootWrite, BootRemove, Bare
    <3>2. CASE StartHal
      BY <3>2, RequestNames DEF StartHal, Resumes, Bare
    <3>3. CASE StartMfr
      <4>1. ConnectMode(mfr.mode) \in Modes
        BY DEF Bare, Empty, ConnectMode, Modes
      <4>2. trying' = trying \/ trying' = Request([mfr EXCEPT !.mode = ConnectMode(mfr.mode)], FALSE)
        BY <3>3 DEF StartMfr, wifi_connectEndpoint
      <4> QED BY <4>1, <4>2, RequestNames DEF Bare
    <3> QED BY <1>1, <3>1, <3>2, <3>3 DEF Boot
  <2> QED BY <2>1, <2>2, <2>3 DEF BootUnchanged, Bare, cbVars
<1>2. ASSUME NEW lost \in BOOLEAN, Restart(lost) PROVE Bare'
  <2>1. Quiet(<<>>)
    BY DEF Quiet
  <2>2. trying'.cred.ssid = "" /\ link' = "" /\ reports' = <<>> /\ cb' = "idle" /\ ~wps' /\ boot' = "init"
    BY <1>2, RequestNames DEF Restart
  <2>3. mfr' = mfr /\ conf' = NoNetwork /\ (confFile' \/ db' = NoNetwork)
    BY <1>2 DEF Restart, Bare
  <2> QED BY <2>1, <2>2, <2>3 DEF Bare
<1> QED BY <1>1, <1>2

\* A thread is in a call only after the migration: no call survives a restart.
Booted == boot \notin {"init", "write", "remove"}
CallsRun == \A c \in Threads : pc[c] # "idle" => Booted

LEMMA CallsRunStep == TypeOK /\ CallsRun /\ [Next]_vars => CallsRun'
<1> SUFFICES ASSUME TypeOK, CallsRun, [Next]_vars PROVE CallsRun'
  OBVIOUS
<1>1. CASE UNCHANGED <<pc, boot>>
  BY <1>1 DEF CallsRun, Booted
<1>2. ASSUME NEW c \in Threads, CallShape(c), Booted PROVE CallsRun'
  BY <1>2 DEF CallsRun, CallShape, Booted
<1>3. ASSUME NEW c \in Threads, CallStep(c) PROVE CallsRun'
  <2>1. pc[c] # "idle"
    BY <1>3 DEF CallStep, ClearInfo, ClearSaved, ClearErase, WpsCheck, WpsNoPin, WpsPush, At
  <2>2. CallShape(c)
    BY <1>3, CallsShape
  <2> QED BY <1>2, <2>1, <2>2 DEF CallsRun
<1>4. ASSUME NEW c \in Threads,
             \/ initiateWPSPairing(c)
             \/ \E n \in Networks \cup {NoNetwork} : connect(c, n)
             \/ \E n \in Networks : saveSSID(c, n)
             \/ disconnectSSID(c) \/ clearSSID(c) \/ cancelWPSPairing(c)
      PROVE CallsRun'
  <2>1. Booted
    BY <1>4 DEF HalUp, Booted, initiateWPSPairing, connect, saveSSID, disconnectSSID, clearSSID, cancelWPSPairing, Call
  <2>2. CallShape(c)
    BY <1>4, CallsShape
  <2> QED BY <1>2, <2>1, <2>2
<1>5. CASE Callback
  <2>1. CbUnchanged
    BY <1>5 DEF Callback, CbBegin, StoreRead, StoreCompare, StoreCopySSID, StoreSet, CbAfter
  <2> QED BY <1>1, <2>1 DEF CbUnchanged
<1>6. CASE Boot
  <2>1. BootUnchanged
    BY <1>6 DEF Boot, BootInit, BootWrite, BootRemove, StartHal, StartMfr
  <2>2. Booted => Booted'
    BY <1>6 DEF Boot, BootInit, BootWrite, BootRemove, StartHal, StartMfr, Booted
  <2> QED BY <2>1, <2>2 DEF BootUnchanged, CallsRun
<1>7. CASE HalConnects \/ HalRefuses \/ HalPairs
  BY <1>1, <1>7 DEF HalConnects, HalRefuses, HalPairs, HalUnchanged
<1>8. CASE LnfConnects \/ LinkLost \/ AirChanges
  BY <1>1, <1>8 DEF LnfConnects, LinkLost, AirChanges
<1>9. ASSUME NEW lost \in BOOLEAN, Restart(lost) PROVE CallsRun'
  BY <1>9 DEF Restart, CallsRun
<1>10. CASE UNCHANGED vars
  BY <1>1, <1>10 DEF vars
<1>11. Callers \subseteq Threads
  BY DEF Threads
<1>12. CASE Stop \/ shutdownWifi \/ StartAgain
  <2>1. Booted'
    BY <1>12 DEF Stop, shutdownWifi, StartAgain, Booted
  <2> QED BY <2>1 DEF CallsRun
<1>13. ASSUME NEW c \in Threads, WpsWoken(c) PROVE CallsRun'
  <2>1. pc[c] # "idle" /\ boot' = boot
    BY <1>13 DEF WpsWoken, At
  <2>2. Booted'
    BY <2>1 DEF CallsRun, Booted
  <2> QED BY <2>2 DEF CallsRun
<1> QED BY <1>3, <1>4, <1>5, <1>6, <1>7, <1>8, <1>9, <1>10, <1>11, <1>12, <1>13 DEF Next

\* A step of a call either keeps the device bare or asks for a connection.
LEMMA ClearCalls ==
    ASSUME TypeOK, CallsRun, ClearInv, NEW c \in Threads,
           \/ CallStep(c) \/ initiateWPSPairing(c)
           \/ \E n \in Networks \cup {NoNetwork} : connect(c, n)
           \/ \E n \in Networks : saveSSID(c, n)
           \/ disconnectSSID(c) \/ clearSSID(c) \/ cancelWPSPairing(c)
    PROVE  ClearInv'
<1>1. ASSUME ClearErase(c), cleared' = Nothing, mfr' = Empty PROVE ClearInv'
  <2> SUFFICES ASSUME Nothing PROVE Bare'
    BY <1>1 DEF ClearInv
  <2>1. Quiet(reports)
    BY DEF Nothing, Quiet
  <2>2. UNCHANGED <<conf, confFile, db, boot, cb, cbSSID, link, trying, wps, reports>>
    BY <1>1 DEF ClearErase, CallUnchanged, cbVars
  <2>3. boot # "write"
    BY <1>1 DEF ClearErase, At, CallsRun, Booted
  <2>4. trying.cred.ssid = ""
    BY RequestNames DEF Nothing
  <2> QED BY <1>1, <2>1, <2>2, <2>3, <2>4 DEF Nothing, Bare
<1>2. ASSUME cleared', ~(ClearErase(c) /\ cleared' = Nothing /\ mfr' = Empty)
      PROVE  /\ cleared
             /\ wps' => wps
             /\ \/ UNCHANGED <<link, trying, reports>>
                \/ link' = "" /\ trying' = NoRequest /\ reports' = reports \o Gone
  <2>0. cleared \in BOOLEAN /\ wps \in BOOLEAN
    BY DEF TypeOK
  <2>1. CASE CallStep(c)
    <3>1. CASE ClearInfo(c) \/ ClearSaved(c)
      <4>1. UNCHANGED <<cleared, wps, link, trying, reports>>
        BY <3>1 DEF ClearInfo, ClearSaved
      <4> QED BY <1>2, <4>1
    <3>2. CASE ClearErase(c)
      BY <1>2, <2>0, <3>2 DEF ClearErase
    <3>3. CASE WpsCheck(c)
      BY <1>2, <2>0, <3>3 DEF WpsCheck, Disconnects, wifi_disconnectEndpoint, historyVars
    <3>4. CASE WpsNoPin(c)
      BY <1>2, <2>0, <3>4 DEF WpsNoPin, historyVars
    <3>5. CASE WpsPush(c)
      <4>1. UNCHANGED <<link, trying, reports>>
        BY <3>5 DEF WpsPush
      <4>2. cleared' = FALSE \/ UNCHANGED <<wps, cleared>>
        BY <3>5 DEF WpsPush
      <4>3. UNCHANGED <<wps, cleared>>
        BY <1>2, <4>2
      <4> QED BY <1>2, <4>1, <4>3
    <3> QED BY <2>1, <3>1, <3>2, <3>3, <3>4, <3>5 DEF CallStep
  <2>2. ASSUME NEW n \in Networks \cup {NoNetwork}, connect(c, n)
        PROVE cleared /\ UNCHANGED <<wps, link, trying, reports>>
    BY <1>2, <2>2 DEF connect
  <2>3. ASSUME NEW n \in Networks, saveSSID(c, n)
        PROVE cleared /\ UNCHANGED <<wps, link, trying, reports>>
    BY <1>2, <2>3 DEF saveSSID
  <2>4. CASE disconnectSSID(c) \/ clearSSID(c)
    <3>1. UNCHANGED <<cleared, wps>>
      BY <2>4 DEF disconnectSSID, clearSSID
    <3>2. UNCHANGED <<link, trying, reports>> \/ wifi_disconnectEndpoint
      BY <2>4 DEF disconnectSSID, clearSSID, Disconnects
    <3> QED BY <1>2, <3>1, <3>2 DEF wifi_disconnectEndpoint
  <2>5. CASE initiateWPSPairing(c) \/ cancelWPSPairing(c)
    <3>1. UNCHANGED <<cleared, link, trying, reports>>
      BY <2>5 DEF initiateWPSPairing, cancelWPSPairing
    <3>2. wps' = FALSE \/ wps' = wps
      BY <2>5 DEF initiateWPSPairing, cancelWPSPairing
    <3> QED BY <1>2, <3>1, <3>2
  <2> QED BY <2>1, <2>2, <2>3, <2>4, <2>5
<1>3. ASSUME cleared', ~(ClearErase(c) /\ cleared' = Nothing /\ mfr' = Empty) PROVE Bare'
  <2>1. Bare /\ Quiet(reports) /\ Quiet(reports \o Gone)
    BY <1>2, <1>3, QuietReports DEF ClearInv, Bare
  <2>2. CallShape(c)
    BY CallsShape
  <2>3. mfr' = Empty /\ conf' = NoNetwork /\ UNCHANGED <<confFile, db, boot, cb, cbSSID>>
    BY <2>1, <2>2 DEF CallShape, Bare
  <2>4. ~wps'
    BY <1>2, <1>3, <2>1 DEF Bare
  <2>5. link' \in {"", LnfSSID} /\ trying'.cred.ssid \in {"", LnfSSID} /\ Quiet(reports')
    BY <1>2, <1>3, <2>1, RequestNames DEF Bare
  <2> QED BY <2>1, <2>3, <2>4, <2>5 DEF Bare
<1> QED BY <1>1, <1>3 DEF ClearInv

LEMMA ClearSwitch == ASSUME TypeOK, Bare, Switched PROVE Bare'
<1>1. CASE Stop
  BY <1>1 DEF Stop, Bare, diskVars, cbVars, halVars
<1>2. CASE shutdownWifi
  <2>1. Quiet(<<>>)
    BY DEF Quiet
  <2>2. trying'.cred.ssid = ""
    BY <1>2, RequestNames DEF shutdownWifi
  <2> QED BY <1>2, <2>1, <2>2 DEF shutdownWifi, Bare, diskVars, cbVars
<1>3. CASE StartAgain
  BY <1>3 DEF StartAgain, Bare, diskVars, cbVars, halVars
<1>4. ASSUME NEW c \in Threads, WpsWoken(c) PROVE Bare'
  BY <1>4 DEF WpsWoken, Bare, diskVars, cbVars, halVars
<1> QED BY <1>1, <1>2, <1>3, <1>4 DEF Switched

\* The inductive invariant of ClearedStaysCleared.
IInv == TypeOK /\ FileOpen /\ CallsRun /\ ClearInv

\* clearSSID is final: once it has emptied every copy and met no connection under way, no
\* callback, failure, visit to lost-and-found, switching WiFi off and on, or restart brings a private network back,
\* until a connection is asked for.
THEOREM ClearedIsFinal == Spec => []ClearedStaysCleared
<1>1. Init => IInv
  BY InitType DEF Init, IInv, FileOpen, CallsRun, ClearInv
<1>2. IInv /\ [Next]_vars => IInv'
  <2> SUFFICES ASSUME IInv, [Next]_vars PROVE ClearInv'
    BY StepType, CallsRunStep DEF IInv
  <2>0. TypeOK /\ CallsRun /\ ClearInv
    BY DEF IInv
  <2>1. CASE UNCHANGED vars
    BY <2>0, <2>1 DEF ClearInv, Bare, vars, diskVars, cbVars, halVars, historyVars
  <2>2. ASSUME NEW c \in Threads,
               \/ CallStep(c) \/ initiateWPSPairing(c)
               \/ \E n \in Networks \cup {NoNetwork} : connect(c, n)
               \/ \E n \in Networks : saveSSID(c, n)
               \/ disconnectSSID(c) \/ clearSSID(c) \/ cancelWPSPairing(c)
        PROVE  ClearInv'
    BY <2>0, <2>2, ClearCalls
  <2>3. CASE Callback
    <3>1. cleared' = cleared
      BY <2>3 DEF Callback, CbBegin, StoreRead, StoreCompare, StoreCopySSID, StoreSet, CbAfter, CbUnchanged
    <3> QED BY <2>0, <2>3, <3>1, ClearCallback DEF ClearInv
  <2>4. CASE Boot \/ \E lost \in BOOLEAN : Restart(lost)
    <3>1. cleared' = cleared
      BY <2>4 DEF Boot, BootInit, BootWrite, BootRemove, StartHal, StartMfr, BootUnchanged, Restart
    <3> QED BY <2>0, <2>4, <3>1, ClearBoot DEF ClearInv
  <2>5. CASE HalConnects \/ HalRefuses \/ HalPairs \/ LnfConnects \/ LinkLost \/ AirChanges
    <3>1. cleared' = cleared
      BY <2>5 DEF HalConnects, HalRefuses, HalPairs, LnfConnects, LinkLost, AirChanges, HalUnchanged, historyVars
    <3> QED BY <2>0, <2>5, <3>1, ClearHal DEF ClearInv
  <2>6. Callers \subseteq Threads
    BY DEF Threads
  <2>7. CASE Switched
    <3>1. cleared' = cleared
      BY <2>7 DEF Switched, Stop, shutdownWifi, StartAgain, WpsWoken, historyVars
    <3> QED BY <2>0, <2>7, <3>1, ClearSwitch DEF ClearInv
  <2> QED BY <2>1, <2>2, <2>3, <2>4, <2>5, <2>6, <2>7 DEF Next, Switched
<1>3. IInv => ClearedStaysCleared
  BY DEF IInv, ClearInv, Bare, ClearedStaysCleared, isPaired
<1> QED BY <1>1, <1>2, <1>3, PTL DEF Spec
=============================================================================
