------------------------ MODULE WifiLifecycleProofs ------------------------
(***************************************************************************)
(* Proofs about WifiLifecycle, for any number of callers, enable/disable   *)
(* cycles and connects.                                                    *)
(***************************************************************************)
EXTENDS WifiLifecycle, TLAPS

-----------------------------------------------------------------------------
(* Type correctness *)

LEMMA InitType == Init => TypeOK
<1> SUFFICES ASSUME Init PROVE TypeOK
  OBVIOUS
<1>1. MaxStarts \in Nat /\ MaxConnects \in Nat /\ MaxCalls \in Nat
  BY BoundAssumption
<1>2. /\ pc \in [Callers -> CallerPcs] /\ want \in [Callers -> BOOLEAN]
      /\ mine \in [Callers -> 0..MaxStarts]
  BY <1>1 DEF Init, CallerPcs
<1>3. /\ starts \in 0..MaxStarts /\ calls \in 0..MaxCalls /\ connects \in 0..MaxConnects
      /\ monitorHandle \in 0..MaxStarts
      /\ apHandle \in 0..MaxConnects /\ apHolder \in 0..MaxConnects
  BY <1>1 DEF Init
<1>4. monitor \in [Starts -> MonitorPcs] /\ ap \in [Aps -> ApPcs] /\ apCancelled \in SUBSET Aps
  BY DEF Init, MonitorPcs, ApPcs
<1> QED BY <1>2, <1>3, <1>4 DEF Init, TypeOK

\* A signal moves a waiting monitor on.
LEMMA SignalGoType == ASSUME TypeOK, SignalGo PROVE monitor' \in [Starts -> MonitorPcs]
BY DEF TypeOK, SignalGo, MonitorPcs

LEMMA ApSignalledType == ASSUME TypeOK, NEW a \in ApSignalled PROVE a \in [Aps -> ApPcs]
BY DEF TypeOK, ApSignalled, ApPcs

LEMMA TypeStep == TypeOK /\ [Next]_vars => TypeOK'
<1> SUFFICES ASSUME TypeOK, [Next]_vars PROVE TypeOK'
  OBVIOUS
<1>0. MaxStarts \in Nat /\ MaxConnects \in Nat /\ MaxCalls \in Nat
  BY BoundAssumption
<1> USE DEF TypeOK, callVars, monVars, apVars, CallerUnchanged, ShutdownUnchanged
<1>1. ASSUME NEW c \in Callers, NEW new \in BOOLEAN, CallSetEnabled(c, new) PROVE TypeOK'
  <2>1. overlapped' \in BOOLEAN
    BY <1>1, Zenon DEF CallSetEnabled
  <2>2. pc' \in [Callers -> CallerPcs] /\ want' \in [Callers -> BOOLEAN] /\ calls' \in 0..MaxCalls
    BY <1>0, <1>1 DEF CallSetEnabled, CallerPcs
  <2> QED BY <1>1, <2>1, <2>2 DEF CallSetEnabled
<1>2. ASSUME NEW c \in Callers, SetFlag(c) PROVE TypeOK'
  BY <1>2 DEF SetFlag, CallerPcs
<1>3. ASSUME NEW c \in Callers, StartMonitor(c) PROVE TypeOK'
  <2>1. starts' \in 0..MaxStarts /\ monitorHandle' \in 0..MaxStarts
    BY <1>0, <1>3 DEF StartMonitor
  <2>2. mine' \in [Callers -> 0..MaxStarts] /\ pc' \in [Callers -> CallerPcs]
    BY <1>0, <1>3 DEF StartMonitor, CallerPcs
  <2>3. monitor' \in [Starts -> MonitorPcs]
    BY <1>3 DEF StartMonitor, MonitorPcs
  <2> QED BY <1>3, <2>1, <2>2, <2>3 DEF StartMonitor
<1>4. ASSUME NEW c \in Callers, StartHal(c) PROVE TypeOK'
  BY <1>4 DEF StartHal, CallerPcs
<1>5. ASSUME NEW c \in Callers, StartLaf(c) PROVE TypeOK'
  BY <1>0, <1>5 DEF StartLaf, CallerPcs
<1>6. ASSUME NEW c \in Callers, ShutdownFlag(c) PROVE TypeOK'
  BY <1>6 DEF ShutdownFlag, CallerPcs
<1>7. ASSUME NEW c \in Callers, ShutdownSignal(c) PROVE TypeOK'
  BY <1>7, SignalGoType DEF ShutdownSignal, CallerPcs
<1>8. ASSUME NEW c \in Callers, ShutdownJoin(c) PROVE TypeOK'
  BY <1>8 DEF ShutdownJoin, CallerPcs
<1>9. ASSUME NEW c \in Callers, ShutdownApSignal(c) PROVE TypeOK'
  BY <1>9, ApSignalledType DEF ShutdownApSignal, CallerPcs
<1>10. ASSUME NEW c \in Callers, ShutdownApCancel(c) PROVE TypeOK'
  <2>1. apCancelled' \in SUBSET Aps
    BY <1>0, <1>10 DEF ShutdownApCancel, Aps
  <2> QED BY <1>10, <2>1 DEF ShutdownApCancel, CallerPcs
<1>11. ASSUME NEW c \in Callers, ShutdownCancel(c) PROVE TypeOK'
  BY <1>11 DEF ShutdownCancel, CallerPcs
<1>12. ASSUME NEW c \in Callers, ShutdownUninit(c) PROVE TypeOK'
  <2>1. ap' \in [Aps -> ApPcs] /\ monitor' \in [Starts -> MonitorPcs]
    BY <1>12 DEF ShutdownUninit, ApPcs, MonitorPcs
  <2>2. /\ mine' \in [Callers -> 0..MaxStarts] /\ pc' \in [Callers -> CallerPcs]
        /\ apHolder' \in 0..MaxConnects
    BY <1>0, <1>12 DEF ShutdownUninit, CallerPcs
  <2> QED BY <1>12, <2>1, <2>2 DEF ShutdownUninit
<1>13. ASSUME NEW i \in Starts, Monitor(i) PROVE TypeOK'
  <2>1. monitor' \in [Starts -> MonitorPcs]
    BY <1>13 DEF Monitor, MonLock, MonWait, MonLoop, MonTimedWait, MonReturns, MonGoes, MonitorPcs
  <2>2. mutexGo' \in BOOLEAN /\ MonUnchanged
    BY <1>13 DEF Monitor, MonLock, MonWait, MonLoop, MonTimedWait, MonReturns
  <2> QED BY <2>1, <2>2 DEF MonUnchanged
<1>14. CASE CbConnect
  BY <1>0, <1>14 DEF CbConnect, CbUnchanged
<1>15. CASE CbCollect
  BY <1>0, <1>15 DEF CbCollect, CbUnchanged, ApPcs
<1>16. CASE CbTest \/ CbRetry \/ CbUnlock
  BY <1>16 DEF CbTest, CbRetry, CbUnlock, CbUnchanged
<1>17. CASE CbTake
  BY <1>17, SignalGoType DEF CbTake, CbUnchanged
<1>18. CASE ApUpdate
  BY <1>18, ApSignalledType DEF ApUpdate, ApUnchanged
<1>19. ASSUME NEW i \in Aps, Ap(i) \/ ApDies(i) PROVE TypeOK'
  <2>1. ap' \in [Aps -> ApPcs] /\ apReady' \in BOOLEAN /\ discovery' \in BOOLEAN
    BY <1>19 DEF Ap, ApCheck, ApFetched, ApDies, ApUnchanged, ApPcs
  <2>2. apHolder' \in 0..MaxConnects
    BY <1>0, <1>19 DEF Ap, ApCheck, ApFetched, ApDies, Aps
  <2> QED BY <1>19, <2>1, <2>2 DEF Ap, ApCheck, ApFetched, ApDies, ApUnchanged
<1>20. CASE UNCHANGED vars
  BY <1>20 DEF vars
<1> QED BY <1>1, <1>2, <1>3, <1>4, <1>5, <1>6, <1>7, <1>8, <1>9, <1>10, <1>11, <1>12, <1>13, <1>14,
           <1>15, <1>16, <1>17, <1>18, <1>19, <1>20 DEF Next, Caller, Cb

\* Type correctness, also with several callers at once.
THEOREM TypeCorrect == Spec => []TypeOK
<1>1. Init => TypeOK
  BY InitType
<1>2. TypeOK /\ [Next]_vars => TypeOK'
  BY TypeStep
<1> QED BY <1>1, <1>2, PTL DEF Spec

-----------------------------------------------------------------------------
(* The monitor, as long as no two calls were under way together *)

Live(i) == monitor[i] \notin {"none", "done"}
NoMonitor == \A i \in Starts : ~Live(i)

\* At most one caller is inside setWifiEnabled.
Alone == \A c, d \in Callers : pc[c] # "idle" /\ pc[d] # "idle" => c = d

\* Only the monitor created last can be running.
LastOnly == monitorHandle = starts /\ \A i \in Starts : Live(i) => i = starts

\* With Wi-Fi off and nobody switching it off, no monitor runs.
OffInv ==
    ~bWiFiEnabled /\ (\A c \in Callers : pc[c] \in {"idle", "decided"}) => NoMonitor

\* A caller on its way to create a monitor finds none running: Wi-Fi was off, and it was last
\* switched off by a caller that waited for the monitor to end.
CallerInv(c) ==
    /\ pc[c] = "decided" => want[c] = ~bWiFiEnabled
    /\ pc[c] \in {"monitor", "wifiInit", "lafCreate"} => bWiFiEnabled
    /\ pc[c] = "join" => mine[c] = monitorHandle
    /\ pc[c] \in {"monitor", "apSignal", "apCancel", "cancel", "uninit"} => NoMonitor

SafeInv == Alone /\ LastOnly /\ OffInv /\ \A c \in Callers : CallerInv(c)

IInv == TypeOK /\ (~overlapped => SafeInv)

LEMMA InitInv == Init => IInv
<1> SUFFICES ASSUME Init PROVE IInv
  OBVIOUS
<1>1. SafeInv
  BY DEF Init, SafeInv, Alone, LastOnly, OffInv, CallerInv, NoMonitor, Live
<1> QED BY <1>1, InitType DEF IInv

\* A signal wakes only a monitor that runs.
LEMMA SignalGoInv == ASSUME TypeOK, SignalGo PROVE \A i \in Starts : Live(i)' => Live(i)
BY DEF TypeOK, SignalGo, Live

\* A step that leaves the callers alone and starts no monitor.
LEMMA OtherStepInv ==
    ASSUME SafeInv, UNCHANGED <<callVars, starts, monitorHandle>>,
           \A i \in Starts : Live(i)' => Live(i)
    PROVE  SafeInv'
<1>1. UNCHANGED <<bWiFiEnabled, pc, want, mine, starts, monitorHandle>>
  BY DEF callVars
<1>2. NoMonitor => NoMonitor'
  BY DEF NoMonitor
<1>3. Alone' /\ LastOnly'
  BY <1>1 DEF SafeInv, Alone, LastOnly
<1>4. OffInv' /\ \A c \in Callers : CallerInv(c)'
  BY <1>1, <1>2 DEF SafeInv, OffInv, CallerInv
<1> QED BY <1>3, <1>4 DEF SafeInv

\* A step of a caller, the others being idle, that starts no monitor.
LEMMA CallerStepInv ==
    ASSUME TypeOK, SafeInv, NEW c \in Callers, NEW p, pc' = [pc EXCEPT ![c] = p],
           \A d \in Callers : d # c => pc[d] = "idle",
           UNCHANGED <<starts, monitorHandle>>, \A i \in Starts : Live(i)' => Live(i),
           CallerInv(c)', p \in {"idle", "decided"} /\ ~bWiFiEnabled' => NoMonitor'
    PROVE  SafeInv'
<1>1. pc'[c] = p /\ \A d \in Callers : d # c => pc'[d] = "idle"
  BY DEF TypeOK
<1>2. Alone'
  BY <1>1 DEF Alone
<1>3. LastOnly'
  BY DEF SafeInv, LastOnly
<1>4. OffInv'
  BY <1>1 DEF OffInv
<1>5. ASSUME NEW d \in Callers PROVE CallerInv(d)'
  <2>1. CASE d = c
    BY <2>1
  <2>2. CASE d # c
    BY <1>1, <2>2 DEF CallerInv
  <2> QED BY <2>1, <2>2
<1> QED BY <1>2, <1>3, <1>4, <1>5 DEF SafeInv

LEMMA StepInv == IInv /\ [Next]_vars => IInv'
<1> SUFFICES ASSUME TypeOK, TypeOK', ~overlapped => SafeInv, [Next]_vars, ~overlapped' PROVE SafeInv'
  BY TypeStep DEF IInv
<1>o. overlapped \in BOOLEAN
  BY DEF TypeOK
<1>0. SafeInv
  <2>1. CASE UNCHANGED overlapped
    BY <2>1
  <2>2. ASSUME NEW c \in Callers, NEW new \in BOOLEAN, CallSetEnabled(c, new) PROVE ~overlapped
    BY <1>o, <2>2 DEF CallSetEnabled
  <2>3. (\E c \in Callers, new \in BOOLEAN : CallSetEnabled(c, new)) \/ UNCHANGED overlapped
    <3> USE DEF callVars, CallerUnchanged, ShutdownUnchanged, MonUnchanged, CbUnchanged, ApUnchanged
    <3>1. ASSUME NEW c \in Callers, Caller(c) PROVE UNCHANGED overlapped
      BY <3>1 DEF Caller, SetFlag, StartMonitor, StartHal, StartLaf, ShutdownFlag, ShutdownSignal,
                  ShutdownJoin, ShutdownApSignal, ShutdownApCancel, ShutdownCancel, ShutdownUninit
    <3>2. ASSUME NEW i \in Starts, Monitor(i) PROVE UNCHANGED overlapped
      BY <3>2 DEF Monitor, MonLock, MonWait, MonLoop, MonTimedWait, MonReturns
    <3>3. CbConnect \/ Cb \/ ApUpdate => UNCHANGED overlapped
      BY DEF CbConnect, Cb, CbCollect, CbTest, CbTake, CbRetry, CbUnlock, ApUpdate
    <3>4. ASSUME NEW i \in Aps, Ap(i) \/ ApDies(i) PROVE UNCHANGED overlapped
      BY <3>4 DEF Ap, ApCheck, ApFetched, ApDies
    <3> QED BY <3>1, <3>2, <3>3, <3>4 DEF Next, vars
  <2> QED BY <2>1, <2>2, <2>3
<1>a. \A c \in Callers : CallerInv(c)
  BY <1>0 DEF SafeInv
<1>b. \A c, d \in Callers : pc[c] # "idle" /\ d # c => pc[d] = "idle"
  BY <1>0 DEF SafeInv, Alone
<1>c. (\A i \in Starts : Live(i)' => Live(i)) => (NoMonitor => NoMonitor')
  BY DEF NoMonitor
<1>d. UNCHANGED monitor => \A i \in Starts : Live(i)' => Live(i)
  BY DEF Live
<1>1. ASSUME NEW c \in Callers, NEW new \in BOOLEAN, CallSetEnabled(c, new) PROVE SafeInv'
  <2>1. CASE bWiFiEnabled = new
    <3>1. UNCHANGED <<bWiFiEnabled, pc, want, mine, overlapped, starts, monVars>>
      BY <1>1, <2>1 DEF CallSetEnabled
    <3>2. NoMonitor => NoMonitor'
      BY <1>c, <1>d, <3>1 DEF monVars
    <3> QED BY <1>0, <1>d, <3>1, <3>2 DEF SafeInv, Alone, LastOnly, OffInv, CallerInv, monVars
  <2>2. CASE bWiFiEnabled # new
    <3>1. /\ pc' = [pc EXCEPT ![c] = "decided"] /\ want' = [want EXCEPT ![c] = new]
          /\ UNCHANGED <<bWiFiEnabled, starts, monVars>>
          /\ \A d \in Callers : pc[d] = "idle"
      BY <1>o, <1>1, <2>2 DEF CallSetEnabled
    <3>2. CallerInv(c)'
      BY <2>2, <3>1 DEF CallerInv, TypeOK
    <3>3. ~bWiFiEnabled => NoMonitor
      BY <1>0, <3>1 DEF SafeInv, OffInv
    <3> QED BY <1>0, <1>c, <1>d, <3>1, <3>2, <3>3, CallerStepInv DEF monVars
  <2> QED BY <2>1, <2>2
<1>2. ASSUME NEW c \in Callers, SetFlag(c) PROVE SafeInv'
  <2>1. pc[c] = "decided" /\ UNCHANGED <<starts, monVars>> /\ bWiFiEnabled' = want[c]
    BY <1>2 DEF SetFlag
  <2>2. want[c] => NoMonitor
    <3>1. want[c] => ~bWiFiEnabled
      BY <1>a, <2>1 DEF CallerInv, TypeOK
    <3>2. \A d \in Callers : pc[d] \in {"idle", "decided"}
      BY <1>b, <2>1
    <3> QED BY <1>0, <3>1, <3>2 DEF SafeInv, OffInv
  <2>3. PICK p \in {"monitor", "shutdown"} : pc' = [pc EXCEPT ![c] = p] /\ (p = "monitor" <=> want[c])
    BY <1>2 DEF SetFlag, TypeOK
  <2>4. CallerInv(c)'
    BY <1>c, <1>d, <2>1, <2>2, <2>3 DEF CallerInv, TypeOK, monVars
  <2> QED BY <1>0, <1>b, <1>d, <2>1, <2>3, <2>4, CallerStepInv DEF monVars
<1>3. ASSUME NEW c \in Callers, StartMonitor(c) PROVE SafeInv'
  <2>1. NoMonitor /\ bWiFiEnabled /\ pc[c] = "monitor"
    BY <1>3, <1>a DEF StartMonitor, CallerInv
  <2>2. /\ monitorHandle' = starts + 1 /\ starts' = starts + 1 /\ UNCHANGED bWiFiEnabled
        /\ monitor' = [monitor EXCEPT ![starts + 1] = "created"]
        /\ pc'[c] = "wifiInit" /\ \A d \in Callers : d # c => pc'[d] = "idle"
    BY <1>3, <1>b DEF StartMonitor, TypeOK
  <2>3. \A i \in Starts : Live(i)' => i = starts + 1
    BY <2>1, <2>2 DEF NoMonitor, Live, TypeOK
  <2>4. \A d \in Callers : CallerInv(d)'
    BY <2>1, <2>2 DEF CallerInv
  <2>5. OffInv'
    BY <2>1, <2>2 DEF OffInv
  <2>6. Alone' /\ LastOnly'
    BY <2>2, <2>3 DEF Alone, LastOnly
  <2> QED BY <2>4, <2>5, <2>6 DEF SafeInv
<1>4. ASSUME NEW c \in Callers, StartHal(c) PROVE SafeInv'
  <2>1. pc[c] = "wifiInit" /\ pc' = [pc EXCEPT ![c] = "lafCreate"] /\ UNCHANGED <<bWiFiEnabled, starts, monVars>>
    BY <1>4 DEF StartHal
  <2>2. CallerInv(c)'
    BY <1>a, <2>1 DEF CallerInv, TypeOK
  <2> QED BY <1>0, <1>b, <1>d, <2>1, <2>2, CallerStepInv DEF monVars
<1>5. ASSUME NEW c \in Callers, StartLaf(c) PROVE SafeInv'
  <2>1. /\ pc[c] = "lafCreate" /\ pc' = [pc EXCEPT ![c] = "idle"]
        /\ UNCHANGED <<bWiFiEnabled, starts, monVars>> /\ bWiFiEnabled
    BY <1>5, <1>a DEF StartLaf, CallerInv
  <2>2. CallerInv(c)'
    BY <2>1 DEF CallerInv, TypeOK
  <2> QED BY <1>0, <1>b, <1>d, <2>1, <2>2, CallerStepInv DEF monVars
<1>6. ASSUME NEW c \in Callers, ShutdownFlag(c) PROVE SafeInv'
  <2>1. pc[c] = "shutdown" /\ pc' = [pc EXCEPT ![c] = "signal"] /\ UNCHANGED <<starts, monVars>>
    BY <1>6 DEF ShutdownFlag, ShutdownUnchanged
  <2>2. CallerInv(c)'
    BY <2>1 DEF CallerInv, TypeOK
  <2> QED BY <1>0, <1>b, <1>d, <2>1, <2>2, CallerStepInv DEF monVars
<1>7. ASSUME NEW c \in Callers, ShutdownSignal(c) PROVE SafeInv'
  <2>1. /\ pc[c] = "signal" /\ pc' = [pc EXCEPT ![c] = "join"] /\ UNCHANGED <<starts, monitorHandle>>
        /\ mine' = [mine EXCEPT ![c] = monitorHandle]
    BY <1>7 DEF ShutdownSignal, ShutdownUnchanged
  <2>2. \A i \in Starts : Live(i)' => Live(i)
    BY <1>7, SignalGoInv DEF ShutdownSignal
  <2>3. CallerInv(c)'
    BY <2>1 DEF CallerInv, TypeOK
  <2> QED BY <1>0, <1>b, <2>1, <2>2, <2>3, CallerStepInv
<1>8. ASSUME NEW c \in Callers, ShutdownJoin(c) PROVE SafeInv'
  <2>0. pc[c] = "join" /\ pc' = [pc EXCEPT ![c] = "apSignal"] /\ UNCHANGED <<starts, monVars>>
    BY <1>8 DEF ShutdownJoin, ShutdownUnchanged
  <2>1. mine[c] = starts /\ (starts # 0 => monitor[starts] = "done")
    BY <1>0, <1>8, <1>a DEF ShutdownJoin, CallerInv, SafeInv, LastOnly
  <2>2. NoMonitor
    <3> SUFFICES ASSUME NEW i \in Starts, Live(i) PROVE FALSE
      BY DEF NoMonitor
    <3>1. i = starts /\ i # 0
      BY <1>0, BoundAssumption DEF SafeInv, LastOnly, Starts
    <3> QED BY <2>1, <3>1 DEF Live
  <2>3. CallerInv(c)'
    BY <1>c, <1>d, <2>0, <2>2 DEF CallerInv, TypeOK, monVars
  <2> QED BY <1>0, <1>b, <1>d, <2>0, <2>3, CallerStepInv DEF monVars
<1>9. ASSUME NEW c \in Callers, ShutdownApSignal(c) \/ ShutdownApCancel(c) \/ ShutdownCancel(c) PROVE SafeInv'
  <2>1. PICK p \in {"apCancel", "cancel", "uninit"} :
            /\ pc[c] \in {"apSignal", "apCancel", "cancel"} /\ pc' = [pc EXCEPT ![c] = p]
            /\ UNCHANGED <<starts, monVars>>
    BY <1>9 DEF ShutdownApSignal, ShutdownApCancel, ShutdownCancel, ShutdownUnchanged
  <2>2. NoMonitor
    BY <1>a, <2>1 DEF CallerInv
  <2>3. CallerInv(c)'
    BY <1>c, <1>d, <2>1, <2>2 DEF CallerInv, TypeOK, monVars
  <2> QED BY <1>0, <1>b, <1>d, <2>1, <2>3, CallerStepInv DEF monVars
<1>10. ASSUME NEW c \in Callers, ShutdownUninit(c) PROVE SafeInv'
  <2>1. pc[c] = "uninit" /\ pc' = [pc EXCEPT ![c] = "idle"] /\ UNCHANGED <<starts, monitorHandle>>
    BY <1>10 DEF ShutdownUninit, ShutdownUnchanged
  <2>2. NoMonitor
    BY <1>a, <2>1 DEF CallerInv
  <2>3. \A i \in Starts : Live(i)' => Live(i)
    BY <1>10 DEF ShutdownUninit, Live
  <2>4. CallerInv(c)'
    BY <2>1 DEF CallerInv, TypeOK
  <2> QED BY <1>0, <1>b, <1>c, <2>1, <2>2, <2>3, <2>4, CallerStepInv
<1>11. ASSUME NEW i \in Starts, Monitor(i) PROVE SafeInv'
  <2>1. UNCHANGED <<callVars, starts, monitorHandle>>
    BY <1>11 DEF Monitor, MonLock, MonWait, MonLoop, MonTimedWait, MonReturns, MonUnchanged
  <2>2. \A j \in Starts : Live(j)' => Live(j)
    BY <1>11 DEF TypeOK, Live, Monitor, MonLock, MonWait, MonLoop, MonTimedWait, MonReturns, MonGoes
  <2> QED BY <1>0, <2>1, <2>2, OtherStepInv
<1>12. CASE CbTake
  <2>1. UNCHANGED <<callVars, starts, monitorHandle>> /\ SignalGo
    BY <1>12 DEF CbTake, CbUnchanged
  <2> QED BY <1>0, <2>1, SignalGoInv, OtherStepInv
<1>13. CASE UNCHANGED <<callVars, starts, monitorHandle, monitor>>
  BY <1>0, <1>13, <1>d, OtherStepInv
<1>14. CbConnect \/ CbCollect \/ CbTest \/ CbRetry \/ CbUnlock \/ ApUpdate
         => UNCHANGED <<callVars, starts, monitorHandle, monitor>>
  BY DEF CbConnect, CbCollect, CbTest, CbRetry, CbUnlock, ApUpdate, CbUnchanged, ApUnchanged, monVars
<1>15. ASSUME NEW i \in Aps, Ap(i) \/ ApDies(i) PROVE UNCHANGED <<callVars, starts, monitorHandle, monitor>>
  BY <1>15 DEF Ap, ApCheck, ApFetched, ApDies, ApUnchanged, monVars
<1>16. UNCHANGED vars => UNCHANGED <<callVars, starts, monitorHandle, monitor>>
  BY DEF vars, monVars
<1> QED BY <1>1, <1>2, <1>3, <1>4, <1>5, <1>6, <1>7, <1>8, <1>9, <1>10, <1>11, <1>12, <1>13, <1>14,
           <1>15, <1>16 DEF Next, Caller, Cb

\* shutdownWifi initialises the mutex and the condition of the monitor anew only when no
\* monitor is left to hold them or wait for them, for any number of callers, however often
\* Wi-Fi is switched on and off and wherever the callback's lock and signal fall, until two
\* calls of setWifiEnabled are under way together.
THEOREM ReinitIsSafe == Spec => []ReinitSafe
<1>1. Init => IInv
  BY InitInv
<1>2. IInv /\ [Next]_vars => IInv'
  BY StepInv
<1>3. IInv => ReinitSafe
  BY DEF IInv, SafeInv, CallerInv, NoMonitor, Live, ReinitSafe
<1> QED BY <1>1, <1>2, <1>3, PTL DEF Spec
=============================================================================
