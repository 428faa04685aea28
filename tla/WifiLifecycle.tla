--------------------------- MODULE WifiLifecycle ---------------------------
(***************************************************************************)
(* Enabling and disabling Wi-Fi: setWifiEnabled, Start, Stop and           *)
(* shutdownWifi, and the threads they create, join, cancel or forget: the  *)
(* status monitor (wifiConnStatusThread), the access-point details threads *)
(* (getAPMakeAndModel) and the HAL's connect callback, which signals the   *)
(* monitor.  Two threads may be inside setWifiEnabled at once.  The LNF    *)
(* threads are in LnfLifecycle and LostFound.                              *)
(***************************************************************************)
EXTENDS Naturals, FiniteSets

CONSTANTS Callers,       \* bus and event threads that may call setWifiEnabled
          MaxStarts,     \* bound: Starts, one monitor and one LNF thread each
          MaxConnects,   \* bound: connect callbacks for a new network
          MaxCalls,      \* bound: calls of setWifiEnabled
          MaxInputs      \* bound: calls and connects together, an overlap counting as two

ASSUME BoundAssumption ==
    /\ MaxStarts \in Nat /\ MaxConnects \in Nat /\ MaxCalls \in Nat /\ MaxInputs \in Nat
    /\ IsFiniteSet(Callers)

Starts == 1..MaxStarts
Aps == 1..MaxConnects

VARIABLES
    bWiFiEnabled, bShutdownWifi, halUp,
    pc, want,            \* per caller: program point in setWifiEnabled, argument
    mine,                \* per caller: the Start it makes, or the monitor it joins
    overlapped,          \* history: two calls were once under way together
    starts, calls, connects,
    monitor,             \* per Start: program point of wifiConnStatusThread
    monitorHandle,       \* wifiStatusMonitorThread, 0 before the first Start
    mutexGo,             \* whether it is locked
    ap, apHandle,        \* per connect: getAPMakeAndModel; the handle kept
    apReady,             \* bsignalAPDetailsReady
    apHolder,            \* 0, or the thread that locked mutexAPDetails
    apCancelled,         \* access-point threads with a pending cancel
    discovery,           \* _evtHandler is registered
    callback             \* wifi_status_action on a successful connect

callVars == <<bWiFiEnabled, pc, want, mine, calls, overlapped>>
monVars == <<monitor, monitorHandle, mutexGo>>
apVars == <<ap, apHandle, apReady, apHolder, apCancelled, discovery>>
vars == <<bShutdownWifi, halUp, starts, connects, callback, callVars, monVars, apVars>>

CallerPcs == {"idle", "decided", "monitor", "wifiInit", "lafCreate",
              "shutdown", "signal", "join", "apSignal", "apCancel", "cancel", "uninit"}
MonitorPcs == {"none", "created", "locked", "waiting", "running", "relocked",
               "timedWait", "woken", "stranded", "done"}
ApPcs == {"none", "check", "waiting", "woken", "fetch", "stranded", "blocked", "dead", "done"}

TypeOK ==
    /\ bWiFiEnabled \in BOOLEAN /\ bShutdownWifi \in BOOLEAN /\ halUp \in BOOLEAN
    /\ pc \in [Callers -> CallerPcs] /\ want \in [Callers -> BOOLEAN]
    /\ mine \in [Callers -> 0..MaxStarts]
    /\ overlapped \in BOOLEAN
    /\ starts \in 0..MaxStarts /\ calls \in 0..MaxCalls /\ connects \in 0..MaxConnects
    /\ monitor \in [Starts -> MonitorPcs]
    /\ monitorHandle \in 0..MaxStarts
    /\ mutexGo \in BOOLEAN
    /\ ap \in [Aps -> ApPcs]
    /\ apHandle \in 0..MaxConnects /\ apReady \in BOOLEAN
    /\ apHolder \in 0..MaxConnects /\ apCancelled \in SUBSET Aps /\ discovery \in BOOLEAN
    /\ callback \in {"idle", "dhcp", "signal", "try", "held"}

Init ==
    /\ bWiFiEnabled = FALSE /\ bShutdownWifi = FALSE /\ halUp = FALSE
    /\ pc = [c \in Callers |-> "idle"] /\ want = [c \in Callers |-> FALSE]
    /\ mine = [c \in Callers |-> 0] /\ overlapped = FALSE
    /\ starts = 0 /\ calls = 0 /\ connects = 0
    /\ monitor = [i \in Starts |-> "none"] /\ monitorHandle = 0 /\ mutexGo = FALSE
    /\ ap = [i \in Aps |-> "none"] /\ apHandle = 0 /\ apReady = TRUE
    /\ apHolder = 0 /\ apCancelled = {} /\ discovery = FALSE
    /\ callback = "idle"

----------------------------------------------------------------------------
(* setWifiEnabled: the flag is read and written without a lock. *)

Inputs == calls + connects + (IF overlapped THEN 2 ELSE 0)

\* The call: nothing to do if the flag already has the requested value.
CallSetEnabled(c, new) ==
    /\ pc[c] = "idle" /\ calls < MaxCalls /\ (new => starts < MaxStarts)
    /\ calls' = calls + 1
    /\ IF bWiFiEnabled = new THEN UNCHANGED <<pc, want, overlapped>>
       ELSE /\ pc' = [pc EXCEPT ![c] = "decided"] /\ want' = [want EXCEPT ![c] = new]
            /\ overlapped' = (overlapped \/ \E d \in Callers : pc[d] # "idle")
    /\ UNCHANGED <<bWiFiEnabled, mine, bShutdownWifi, halUp, starts, connects, callback,
                   monVars, apVars>>
    /\ Inputs' <= MaxInputs

CallerUnchanged == UNCHANGED <<calls, overlapped, connects, callback>>

SetFlag(c) ==
    /\ pc[c] = "decided"
    /\ bWiFiEnabled' = want[c] /\ want' = [want EXCEPT ![c] = FALSE]
    /\ pc' = [pc EXCEPT ![c] = IF want[c] THEN "monitor" ELSE "shutdown"]
    /\ UNCHANGED <<mine, bShutdownWifi, halUp, starts, monVars, apVars>>
    /\ CallerUnchanged

\* Start, monitor_WiFiStatus: clear the shutdown flag and create the monitor.
StartMonitor(c) ==
    /\ pc[c] = "monitor" /\ starts < MaxStarts
    /\ bShutdownWifi' = FALSE
    /\ starts' = starts + 1 /\ mine' = [mine EXCEPT ![c] = starts + 1]
    /\ monitor' = [monitor EXCEPT ![starts + 1] = "created"]
    /\ monitorHandle' = starts + 1
    /\ pc' = [pc EXCEPT ![c] = "wifiInit"]
    /\ UNCHANGED <<bWiFiEnabled, want, halUp, mutexGo, apVars>>
    /\ CallerUnchanged

\* A failed wifi_init is logged, and Start goes on.
StartHal(c) ==
    /\ pc[c] = "wifiInit"
    /\ halUp' \in {halUp, TRUE}
    /\ pc' = [pc EXCEPT ![c] = "lafCreate"]
    /\ UNCHANGED <<bWiFiEnabled, want, mine, bShutdownWifi, starts, monVars, apVars>>
    /\ CallerUnchanged

\* The rest of Start: the LNF threads are created.
StartLaf(c) ==
    /\ pc[c] = "lafCreate"
    /\ pc' = [pc EXCEPT ![c] = "idle"] /\ mine' = [mine EXCEPT ![c] = 0]
    /\ UNCHANGED <<bWiFiEnabled, want, bShutdownWifi, halUp, starts, monVars, apVars>>
    /\ CallerUnchanged

----------------------------------------------------------------------------
(* Stop: shutdownWifi. *)

ShutdownUnchanged == UNCHANGED <<bWiFiEnabled, want, starts>> /\ CallerUnchanged

ShutdownFlag(c) ==
    /\ pc[c] = "shutdown"
    /\ bShutdownWifi' = TRUE
    /\ pc' = [pc EXCEPT ![c] = "signal"]
    /\ UNCHANGED <<mine, halUp, monVars, apVars>> /\ ShutdownUnchanged

\* pthread_cond_signal(&condGo) wakes one waiter, if there is one.
SignalGo ==
    LET waiters == {i \in Starts : monitor[i] \in {"waiting", "timedWait"}}
    IN  IF waiters = {} THEN UNCHANGED monitor
        ELSE \E i \in waiters :
               monitor' = [monitor EXCEPT ![i] = IF @ = "waiting" THEN "running" ELSE "woken"]

ShutdownSignal(c) ==
    /\ pc[c] = "signal" /\ ~mutexGo
    /\ SignalGo
    /\ mine' = [mine EXCEPT ![c] = monitorHandle]
    /\ pc' = [pc EXCEPT ![c] = "join"]
    /\ UNCHANGED <<bShutdownWifi, halUp, monitorHandle, mutexGo, apVars>>
    /\ ShutdownUnchanged

\* Mutant: the monitor is signalled but not joined.
ShutdownJoinMutant(c) ==
    /\ pc[c] = "join"
    /\ pc' = [pc EXCEPT ![c] = "apSignal"]
    /\ UNCHANGED <<mine, bShutdownWifi, halUp, monVars, apVars>> /\ ShutdownUnchanged

ShutdownJoin(c) ==
    /\ pc[c] = "join"
    /\ mine[c] # 0 => monitor[mine[c]] = "done"
    /\ pc' = [pc EXCEPT ![c] = "apSignal"]
    /\ UNCHANGED <<mine, bShutdownWifi, halUp, monVars, apVars>> /\ ShutdownUnchanged

\* pthread_cond_signal(&condAPDetails): the outcomes for the waiting threads.
ApSignalled ==
    LET waiters == {i \in Aps : ap[i] = "waiting"}
    IN  IF waiters = {} THEN {ap} ELSE {[ap EXCEPT ![i] = "woken"] : i \in waiters}

\* One access-point thread is woken, under mutexAPDetails.
ShutdownApSignal(c) ==
    /\ pc[c] = "apSignal" /\ apHolder = 0
    /\ apReady' = TRUE
    /\ \E a \in ApSignalled : ap' = a
    /\ pc' = [pc EXCEPT ![c] = "apCancel"]
    /\ UNCHANGED <<mine, bShutdownWifi, halUp, monVars, apHandle, apHolder, apCancelled,
                   discovery>> /\ ShutdownUnchanged

\* pthread_cancel(apDetailsCollectionThread): the one whose handle is kept, and
\* pending until it reaches a cancellation point.
ShutdownApCancel(c) ==
    /\ pc[c] = "apCancel"
    /\ apCancelled' = IF apHandle = 0 THEN apCancelled ELSE apCancelled \cup {apHandle}
    /\ pc' = [pc EXCEPT ![c] = "cancel"]
    /\ UNCHANGED <<mine, bShutdownWifi, halUp, monVars, ap, apHandle, apReady, apHolder,
                   discovery>> /\ ShutdownUnchanged

\* pthread_cancel of the LNF threads.
ShutdownCancel(c) ==
    /\ pc[c] = "cancel"
    /\ pc' = [pc EXCEPT ![c] = "uninit"]
    /\ UNCHANGED <<mine, bShutdownWifi, halUp, monVars, apVars>> /\ ShutdownUnchanged

\* wifi_uninit, then every mutex and condition is initialised again except
\* mutexTriggerLAF, whoever holds or wants it: a thread that waits on a
\* condition is stranded, and one that waits for a held mutex may never be woken.
ShutdownUninit(c) ==
    /\ pc[c] = "uninit"
    /\ halUp' = FALSE /\ mutexGo' = FALSE /\ apHolder' = 0
    /\ \E lost \in SUBSET {i \in Starts : mutexGo /\ monitor[i] \in {"created", "running", "woken"}} :
          monitor' = [i \in Starts |-> IF monitor[i] = "waiting" \/ i \in lost
                                      THEN "stranded" ELSE monitor[i]]
    /\ \E lost \in SUBSET {i \in Aps : apHolder # 0 /\ ap[i] \in {"check", "woken"}} :
          ap' = [i \in Aps |-> IF ap[i] = "waiting" THEN "stranded"
                               ELSE IF i \in lost THEN "blocked" ELSE ap[i]]
    /\ pc' = [pc EXCEPT ![c] = "idle"] /\ mine' = [mine EXCEPT ![c] = 0]
    /\ UNCHANGED <<bShutdownWifi, monitorHandle, apHandle, apReady, apCancelled, discovery>>
    /\ ShutdownUnchanged

----------------------------------------------------------------------------
(* wifiConnStatusThread. *)

MonUnchanged == UNCHANGED <<bShutdownWifi, halUp, starts, connects, callback, callVars,
                            monitorHandle, apVars>>

MonGoes(i, from, to) == monitor[i] = from /\ monitor' = [monitor EXCEPT ![i] = to]

MonLock(i) ==
    /\ MonGoes(i, "created", "locked") /\ ~mutexGo /\ mutexGo' = TRUE
    /\ MonUnchanged

\* The first wait has no predicate: bShutdownWifi is not looked at.
MonWait(i) ==
    /\ MonGoes(i, "locked", "waiting") /\ mutexGo' = FALSE
    /\ MonUnchanged

MonLoop(i) ==
    /\ \/ bShutdownWifi /\ MonGoes(i, "running", "done") /\ UNCHANGED mutexGo
       \/ ~bShutdownWifi /\ ~mutexGo /\ MonGoes(i, "running", "relocked") /\ mutexGo' = TRUE
    /\ MonUnchanged

\* Mutant: a plain sleep, which keeps mutexGo, in place of the timed wait.
MonTimedWaitMutant(i) ==
    /\ MonGoes(i, "relocked", IF bShutdownWifi THEN "running" ELSE "timedWait")
    /\ mutexGo' = ~bShutdownWifi
    /\ MonUnchanged

MonTimedWait(i) ==
    /\ MonGoes(i, "relocked", IF bShutdownWifi THEN "running" ELSE "timedWait")
    /\ mutexGo' = FALSE
    /\ MonUnchanged

\* The timed wait returns, with the mutex: on a signal the condition is looked
\* at again, on a timeout the next report is due.
MonReturns(i) ==
    /\ ~mutexGo /\ UNCHANGED mutexGo
    /\ \/ MonGoes(i, "woken", IF bShutdownWifi THEN "running" ELSE "timedWait")
       \/ MonGoes(i, "timedWait", "running")
    /\ MonUnchanged

----------------------------------------------------------------------------
(* wifi_status_action on a connect, and the access-point details. *)

CbUnchanged == UNCHANGED <<bShutdownWifi, halUp, starts, callVars, monitorHandle>>

\* External: the HAL reports a connection to a network that is not the saved one.
CbConnect ==
    /\ halUp /\ callback = "idle" /\ connects < MaxConnects
    /\ callback' = "dhcp" /\ connects' = connects + 1
    /\ UNCHANGED <<monitor, mutexGo, apVars>> /\ CbUnchanged
    /\ Inputs' <= MaxInputs

\* Mutant: the handle kept is one past the thread created.
CbCollectMutant ==
    /\ callback = "dhcp" /\ callback' = "signal"
    /\ ap' = [ap EXCEPT ![connects] = "check"] /\ apHandle' = connects + 1
    /\ discovery' = TRUE
    /\ UNCHANGED <<connects, monitor, mutexGo, apReady, apHolder, apCancelled>> /\ CbUnchanged

\* collectAPDetails: a new thread each time; the old handle is forgotten.
\* initializeDiscovery registers _evtHandler.
CbCollect ==
    /\ callback = "dhcp" /\ callback' = "signal"
    /\ ap' = [ap EXCEPT ![connects] = "check"] /\ apHandle' = connects
    /\ discovery' = TRUE
    /\ UNCHANGED <<connects, monitor, mutexGo, apReady, apHolder, apCancelled>> /\ CbUnchanged

\* The callback's loop on mutexGo: the test of the shutdown flag,
CbTest ==
    /\ callback = "signal" /\ callback' = IF bShutdownWifi THEN "idle" ELSE "try"
    /\ UNCHANGED <<connects, monitor, mutexGo, apVars>> /\ CbUnchanged

\* pthread_mutex_trylock, which gets the mutex and signals the monitor, or
CbTake ==
    /\ callback = "try" /\ ~mutexGo
    /\ mutexGo' = TRUE /\ SignalGo
    /\ callback' = "held"
    /\ UNCHANGED <<connects, apVars>> /\ CbUnchanged

\* does not, and sleeps a second before the flag is looked at again;
CbRetry ==
    /\ callback = "try" /\ mutexGo
    /\ callback' = "signal"
    /\ UNCHANGED <<connects, monitor, mutexGo, apVars>> /\ CbUnchanged

\* the unlock, of a mutex that may have been initialised since.
CbUnlock ==
    /\ callback = "held" /\ callback' = "idle"
    /\ mutexGo' = FALSE
    /\ UNCHANGED <<connects, monitor, apVars>> /\ CbUnchanged

ApUnchanged == UNCHANGED <<bShutdownWifi, halUp, starts, connects, callback, callVars, monVars,
                           apHandle, apCancelled>>

\* getAPMakeAndModel: the loop test, then the wait with its predicate.
ApCheck(i) ==
    /\ ap[i] \in {"check", "woken"}
    /\ IF ap[i] = "check" /\ bShutdownWifi
       THEN ap' = [ap EXCEPT ![i] = "done"] /\ UNCHANGED <<apReady, apHolder>>
       ELSE /\ apHolder = 0
            /\ ap' = [ap EXCEPT ![i] = IF apReady THEN "fetch" ELSE "waiting"]
            /\ apHolder' = IF apReady THEN i ELSE 0
            /\ apReady' = FALSE
    /\ UNCHANGED discovery /\ ApUnchanged

\* getAPDetails, under the mutex, found the device and the search is over, or
\* did not.
ApFetched(i) ==
    /\ ap[i] = "fetch" /\ apHolder' = 0
    /\ \/ ap' = [ap EXCEPT ![i] = "done"] /\ discovery' = FALSE
       \/ ap' = [ap EXCEPT ![i] = "check"] /\ UNCHANGED discovery
    /\ UNCHANGED apReady /\ ApUnchanged

\* A pending cancel takes effect in the bus call of getAPDetails, with the mutex
\* locked, or in pthread_cond_wait, which locks it first: either way it stays
\* locked.
ApDies(i) ==
    /\ i \in apCancelled
    /\ \/ ap[i] = "fetch" /\ UNCHANGED apHolder
       \/ ap[i] \in {"waiting", "stranded"} /\ apHolder = 0 /\ apHolder' = i
    /\ ap' = [ap EXCEPT ![i] = "dead"]
    /\ UNCHANGED <<apReady, discovery>> /\ ApUnchanged

\* Mutant: the flag is set and nobody is signalled.
ApUpdateMutant ==
    /\ apHolder = 0 /\ discovery
    /\ apReady' = TRUE
    /\ UNCHANGED <<ap, apHolder, discovery>>
    /\ ApUnchanged

\* _evtHandler: the UPnP data changed.
ApUpdate ==
    /\ apHolder = 0 /\ discovery
    /\ apReady' = TRUE
    /\ \E a \in ApSignalled : ap' = a
    /\ UNCHANGED <<apHolder, discovery>> /\ ApUnchanged

----------------------------------------------------------------------------
Caller(c) == \/ SetFlag(c) \/ StartMonitor(c) \/ StartHal(c) \/ StartLaf(c)
             \/ ShutdownFlag(c) \/ ShutdownSignal(c) \/ ShutdownJoin(c) \/ ShutdownApSignal(c)
             \/ ShutdownApCancel(c) \/ ShutdownCancel(c) \/ ShutdownUninit(c)
Monitor(i) == MonLock(i) \/ MonWait(i) \/ MonLoop(i) \/ MonTimedWait(i) \/ MonReturns(i)
Cb == CbCollect \/ CbTest \/ CbTake \/ CbRetry \/ CbUnlock
Ap(i) == ApCheck(i) \/ ApFetched(i)

Next ==
    \/ \E c \in Callers : Caller(c) \/ \E new \in BOOLEAN : CallSetEnabled(c, new)
    \/ \E i \in Starts : Monitor(i)
    \/ CbConnect \/ Cb \/ ApUpdate
    \/ \E i \in Aps : Ap(i) \/ ApDies(i)

\* Every thread that can run does: a caller inside setWifiEnabled, the monitor,
\* the HAL's callback and the access-point threads.  mutexGo is
\* held for a few instructions at a time and the callback polls for it a second
\* apart: its polls do not all fall into those instructions.
Fairness ==
    /\ \A c \in Callers : WF_vars(Caller(c))
    /\ \A i \in Starts : WF_vars(Monitor(i))
    /\ WF_vars(Cb)
    /\ SF_vars(CbTest /\ ~mutexGo) /\ SF_vars(CbTake)
    /\ \A i \in Aps : SF_vars(ApCheck(i)) /\ WF_vars(ApFetched(i))

Spec == Init /\ [][Next]_vars
FairSpec == Spec /\ Fairness

----------------------------------------------------------------------------
(* Properties. *)

Down == ~bWiFiEnabled /\ \A c \in Callers : pc[c] = "idle"

\* shutdownWifi initialises mutexGo and condGo anew: as long as no two calls of
\* setWifiEnabled were ever under way together, no monitor thread is left by
\* then, because the one that was created last has been joined.
ReinitSafe ==
    ~overlapped =>
        \A c \in Callers : pc[c] \in {"apSignal", "apCancel", "cancel", "uninit"} =>
            \A i \in Starts : monitor[i] \in {"none", "done"}

\* A connect callback gets out of its loop on mutexGo, so that the HAL thread
\* it runs on is free again.
CallbackReturns == callback = "signal" ~> callback = "idle"

\* A cancelled thread died with mutexAPDetails locked, and it has not been
\* initialised since.
ApMutexLost == apHolder # 0 /\ ap[apHolder] = "dead"

\* An update of the UPnP data is picked up by an access-point thread that
\* waits for one, unless Wi-Fi goes down first or an earlier shutdown's cancel
\* took a thread that now keeps the mutex.
UpdateServed ==
    \A i \in Aps : (apReady /\ ap[i] \in {"waiting", "woken"})
                    ~> (ap[i] \notin {"waiting", "woken"} \/ ~apReady \/ bShutdownWifi \/ ApMutexLost)

----------------------------------------------------------------------------
(* What the comments say of shutdownWifi, and the code does not keep.          *)

\* "Signalling wifiStatusMonitorThread to exit cond wait", and join it: the
\* join ends.
StopReturns == \A c \in Callers : pc[c] = "join" ~> pc[c] # "join"

=============================================================================
