--------------------------- MODULE LnfLifecycle ----------------------------
(***************************************************************************)
(* The life of lafConnPrivThread through enabling and disabling Wi-Fi:     *)
(* Start creates it, shutdownWifi cancels the one whose handle is kept,    *)
(* and the cancel takes effect where the thread blocks.  The calls and the *)
(* monitor are those of WifiLifecycle, what the thread does is in          *)
(* LostFound; here only its life and its lock matter.                      *)
(***************************************************************************)
EXTENDS WifiLifecycle

VARIABLES laf,               \* per Start: lafConnPrivThread
          cancelled,         \* the threads with a pending cancel
          lafHandle,         \* lafConnectToPrivateThread
          mutexTriggerLAF    \* 0, or the LNF thread that locked it

lafVars == <<laf, cancelled, lafHandle, mutexTriggerLAF>>

LnfTypeOK ==
    /\ laf \in [Starts -> {"none", "idle", "lock", "trigger", "dead"}]
    /\ cancelled \in SUBSET Starts
    /\ lafHandle \in 0..MaxStarts /\ mutexTriggerLAF \in 0..MaxStarts

LnfInit ==
    /\ Init
    /\ laf = [i \in Starts |-> "none"] /\ cancelled = {}
    /\ lafHandle = 0 /\ mutexTriggerLAF = 0

\* Start: lafConnectToPrivate.
CreateLaf(c) ==
    /\ StartLaf(c)
    /\ laf' = [laf EXCEPT ![mine[c]] = "idle"] /\ lafHandle' = mine[c]
    /\ UNCHANGED <<cancelled, mutexTriggerLAF>>

\* shutdownWifi: pthread_cancel(lafConnectToPrivateThread), pending until the
\* thread blocks.
CancelLaf(c) ==
    /\ ShutdownCancel(c)
    /\ cancelled' = IF lafHandle = 0 THEN cancelled ELSE cancelled \cup {lafHandle}
    /\ UNCHANGED <<laf, lafHandle, mutexTriggerLAF>>

\* Every other step of WifiLifecycle; mutexTriggerLAF is not among the mutexes
\* shutdownWifi initialises anew.
OtherStep ==
    /\ Next
    /\ \A c \in Callers : pc[c] \in {"lafCreate", "cancel"} => pc'[c] = pc[c]
    /\ UNCHANGED lafVars

LafGoes(i, from, to) == laf[i] = from /\ laf' = [laf EXCEPT ![i] = to]

LafSignalled(i) ==
    /\ LafGoes(i, "idle", "lock")
    /\ UNCHANGED <<cancelled, lafHandle, mutexTriggerLAF, vars>>

LafLock(i) ==
    /\ LafGoes(i, "lock", "trigger") /\ mutexTriggerLAF = 0 /\ mutexTriggerLAF' = i
    /\ UNCHANGED <<cancelled, lafHandle, vars>>

LafUnlock(i) ==
    /\ LafGoes(i, "trigger", "idle") /\ mutexTriggerLAF' = 0
    /\ UNCHANGED <<cancelled, lafHandle, vars>>

\* A pending cancel takes effect where the thread waits or sleeps; locking a
\* mutex is no such place, the backoff and the polls under the mutex are.
LafCancelled(i) ==
    /\ i \in cancelled /\ laf[i] \in {"idle", "trigger"}
    /\ laf' = [laf EXCEPT ![i] = "dead"]
    /\ UNCHANGED <<cancelled, lafHandle, mutexTriggerLAF, vars>>

LnfNext ==
    \/ \E c \in Callers : CreateLaf(c) \/ CancelLaf(c)
    \/ OtherStep
    \/ \E i \in Starts : LafSignalled(i) \/ LafLock(i) \/ LafUnlock(i) \/ LafCancelled(i)

LnfSpec == LnfInit /\ [][LnfNext]_<<vars, lafVars>>

----------------------------------------------------------------------------
(* What the comment above shutdownWifi says, and the code does not keep.       *)

\* "Returns true if successfully terminated all operations": with Wi-Fi down
\* and the LNF threads gone, no lost-and-found operation holds the lock.
StopEndsLnf ==
    (Down /\ \A i \in Starts : laf[i] \in {"none", "dead"}) => mutexTriggerLAF = 0

=============================================================================
