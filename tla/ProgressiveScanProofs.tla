----------------------- MODULE ProgressiveScanProofs -----------------------
(***************************************************************************)
(* For any number of progressive scans and stops: the radio is given back  *)
(* unrestricted.                                                           *)
(***************************************************************************)
EXTENDS ProgressiveScan, TLAPS

\* The steps of a behaviour, one case each, as every proof below splits them.
LEMMA NextCases ==
    ASSUME Next
    PROVE  \/ \E i \in Scans : \/ getAvailableSSIDsAsyncIncr(i) \/ Begin(i) \/ Restrict(i)
                               \/ Scan(i) \/ Check(i) \/ Exit(i)
           \/ stopProgressiveWifiScanning
BY DEF Next, getAvailableSSIDsIncrThread

\* Type correctness: every step of getAvailableSSIDsIncrThread, of the call that
\* creates it and of the stop keeps the variables in their types.
THEOREM TypeCorrect == Spec => []TypeOK
<1>1. Init => TypeOK
  <2> SUFFICES ASSUME Init PROVE TypeOK
    OBVIOUS
  <2>1. stops \in Nat /\ refused \in BOOLEAN
    BY DEF Init
  <2>2. pc \in [Scans -> {"none"}] /\ band \in [Scans -> {"preferred"}]
    BY DEF Init
  <2>3. told = {}
    BY DEF Init
  <2>4. bStopProgressiveScanning \in BOOLEAN /\ freqList \in Bands \cup {"all"}
    BY DEF Init
  <2> QED BY <2>1, <2>2, <2>3, <2>4 DEF TypeOK, Bands
<1>2. TypeOK /\ [Next]_vars => TypeOK'
  <2> SUFFICES ASSUME TypeOK, [Next]_vars PROVE TypeOK'
    OBVIOUS
  <2> USE DEF TypeOK, Bands
  <2>1. CASE stopProgressiveWifiScanning
    <3>1. stops' \in Nat
      BY <2>1 DEF stopProgressiveWifiScanning
    <3>2. told' \in SUBSET Scans
      BY <2>1 DEF stopProgressiveWifiScanning
    <3> QED BY <2>1, <3>1, <3>2 DEF stopProgressiveWifiScanning
  <2>2. ASSUME NEW i \in Scans, getAvailableSSIDsAsyncIncr(i) PROVE TypeOK'
    BY <2>2 DEF getAvailableSSIDsAsyncIncr
  <2>3. ASSUME NEW i \in Scans, Begin(i) PROVE TypeOK'
    BY <2>3 DEF Begin
  <2>4. ASSUME NEW i \in Scans, Restrict(i) PROVE TypeOK'
    BY <2>4 DEF Restrict
  <2>5. ASSUME NEW i \in Scans, Scan(i) PROVE TypeOK'
    BY <2>5 DEF Scan
  <2>6. ASSUME NEW i \in Scans, Check(i) PROVE TypeOK'
    BY <2>6 DEF Check
  <2>7. ASSUME NEW i \in Scans, Exit(i) PROVE TypeOK'
    BY <2>7 DEF Exit
  <2>8. CASE UNCHANGED vars
    BY <2>8 DEF vars
  <2> QED BY <2>1, <2>2, <2>3, <2>4, <2>5, <2>6, <2>7, <2>8, NextCases
<1> QED BY <1>1, <1>2, PTL DEF Spec

\* The frequency list of the radio is "all" whenever no scan is between its
\* first wifi_setRadioScanningFreqList and exit_scan, for any overlap of scans,
\* unless the HAL refused to lift the restriction at the last exit.
THEOREM RadioRestoredHolds == Spec => []RadioRestored
<1>1. Init => RadioRestored
  BY DEF Init, RadioRestored
<1>2. TypeOK /\ RadioRestored /\ [Next]_vars => RadioRestored'
  <2> SUFFICES ASSUME TypeOK, RadioRestored, [Next]_vars PROVE RadioRestored'
    OBVIOUS
  <2> USE DEF RadioRestored, Restricting, TypeOK
  <2>1. CASE stopProgressiveWifiScanning
    BY <2>1 DEF stopProgressiveWifiScanning
  <2>2. ASSUME NEW i \in Scans, getAvailableSSIDsAsyncIncr(i) PROVE RadioRestored'
    BY <2>2 DEF getAvailableSSIDsAsyncIncr
  <2>3. ASSUME NEW i \in Scans, Begin(i) \/ Restrict(i) \/ Scan(i) \/ Check(i)
        PROVE  RadioRestored'
    <3>1. pc'[i] \in {"scan", "check", "restrict", "exit"}
      BY <2>3 DEF Begin, Restrict, Scan, Check
    <3> QED BY <3>1
  <2>4. ASSUME NEW i \in Scans, Exit(i) PROVE RadioRestored'
    BY <2>4 DEF Exit
  <2>5. CASE UNCHANGED vars
    BY <2>5 DEF vars
  <2> QED BY <2>1, <2>2, <2>3, <2>4, <2>5, NextCases
<1> QED BY <1>1, <1>2, TypeCorrect, PTL DEF Spec

=============================================================================
