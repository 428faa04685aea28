-------------------------- MODULE ProgressiveScan --------------------------
(***************************************************************************)
(* Progressive Wi-Fi scanning (wifiSrvMgr.cpp): every call of              *)
(* getAvailableSSIDsAsyncIncr creates a detached thread that scans three   *)
(* bands one after the other, restricting the radio of the box to each in  *)
(* turn and broadcasting what it found; stopProgressiveWifiScanning asks,  *)
(* through one flag shared by all of them, to skip the bands left.         *)
(* Nothing keeps two scans apart.                                          *)
(***************************************************************************)
EXTENDS Naturals

CONSTANTS MaxScans,      \* bound: calls of getAvailableSSIDsAsyncIncr
          MaxStops,      \* bound: calls of stopProgressiveWifiScanning
          DualBand       \* wifi_getDualBandSupport()

Scans == 1..MaxScans

Bands == {"preferred", "2.4GHz", "low"}

VARIABLES
    bStopProgressiveScanning,
    freqList,            \* external: the bands the radio is restricted to, or "all"
    pc, band,            \* per thread: program point, and the band it is at
    stops,               \* counter of the bound
    told,                \* history: threads that were under way when a stop was asked for
    refused              \* history: the HAL refused to lift the restriction at the last exit

vars == <<bStopProgressiveScanning, freqList, pc, band, stops, told, refused>>

TypeOK ==
    /\ bStopProgressiveScanning \in BOOLEAN
    /\ freqList \in Bands \cup {"all"}
    /\ pc \in [Scans -> {"none", "created", "restrict", "scan", "check", "exit", "done"}]
    /\ band \in [Scans -> Bands]
    /\ stops \in Nat /\ told \in SUBSET Scans /\ refused \in BOOLEAN

Init ==
    /\ bStopProgressiveScanning = FALSE /\ freqList = "all"
    /\ pc = [i \in Scans |-> "none"] /\ band = [i \in Scans |-> "preferred"]
    /\ stops = 0 /\ told = {} /\ refused = FALSE

----------------------------------------------------------------------------
getAvailableSSIDsAsyncIncr(i) ==
    /\ pc[i] = "none" /\ pc' = [pc EXCEPT ![i] = "created"]
    /\ UNCHANGED <<bStopProgressiveScanning, freqList, band, stops, told, refused>>

stopProgressiveWifiScanning ==
    /\ stops < MaxStops /\ stops' = stops + 1
    /\ bStopProgressiveScanning' = TRUE
    /\ told' = told \cup {i \in Scans : pc[i] \notin {"none", "created", "done"}}
    /\ UNCHANGED <<freqList, pc, band, refused>>

----------------------------------------------------------------------------
(* getAvailableSSIDsIncrThread. *)

\* Its first statement takes back whatever was asked before.
Begin(i) ==
    /\ pc[i] = "created" /\ pc' = [pc EXCEPT ![i] = "restrict"]
    /\ bStopProgressiveScanning' = FALSE
    /\ UNCHANGED <<freqList, band, stops, told, refused>>

\* wifi_setRadioScanningFreqList, whose result is ignored.
Restrict(i) ==
    /\ pc[i] = "restrict" /\ pc' = [pc EXCEPT ![i] = "scan"]
    /\ freqList' \in {band[i], freqList}
    /\ UNCHANGED <<bStopProgressiveScanning, band, stops, told, refused>>

\* scanAndBroadcastResults: a failure is only logged.
Scan(i) ==
    /\ pc[i] = "scan"
    /\ pc' = [pc EXCEPT ![i] = IF band[i] = "low" THEN "exit" ELSE "check"]
    /\ UNCHANGED <<bStopProgressiveScanning, freqList, band, stops, told, refused>>

\* Under wifiScanLock, between two bands.  Without dual band support the flag
\* is looked at twice in a row, which makes no difference.
Check(i) ==
    /\ pc[i] = "check"
    /\ IF bStopProgressiveScanning
       THEN pc' = [pc EXCEPT ![i] = "exit"] /\ UNCHANGED band
       ELSE /\ pc' = [pc EXCEPT ![i] = "restrict"]
            /\ band' = [band EXCEPT ![i] = IF @ = "preferred" /\ DualBand THEN "2.4GHz" ELSE "low"]
    /\ UNCHANGED <<bStopProgressiveScanning, freqList, stops, told, refused>>

\* exit_scan: the restriction is lifted on every way out, if the HAL does as it is told.
Exit(i) ==
    /\ pc[i] = "exit" /\ pc' = [pc EXCEPT ![i] = "done"]
    /\ freqList' \in {"all", freqList} /\ refused' = (freqList' # "all")
    /\ UNCHANGED <<bStopProgressiveScanning, band, stops, told>>

----------------------------------------------------------------------------
getAvailableSSIDsIncrThread(i) == Begin(i) \/ Restrict(i) \/ Scan(i) \/ Check(i) \/ Exit(i)

Next ==
    \/ \E i \in Scans : getAvailableSSIDsAsyncIncr(i) \/ getAvailableSSIDsIncrThread(i)
    \/ stopProgressiveWifiScanning

Spec == Init /\ [][Next]_vars

----------------------------------------------------------------------------
(* Properties. *)

Restricting(i) == pc[i] \in {"scan", "check", "restrict", "exit"}

\* When no progressive scan is under way the radio is not restricted, however the scans
\* overlapped and were stopped (nothing else lifts the restriction), unless the HAL refused to
\* lift it at the last exit, which the code does not notice.
RadioRestored == (\A i \in Scans : ~Restricting(i)) => freqList = "all" \/ refused

\* "Stop any in-progress wifi progressive scanning thread": a scan that was under way when the
\* stop was asked for finds the flag set when it looks at it.
StopsAnyScan == \A i \in told : pc[i] = "check" => bStopProgressiveScanning

=============================================================================
