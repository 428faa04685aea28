---------------------------- MODULE Connectivity ----------------------------
(***************************************************************************)
(* The internet connectivity check of connectivity.cpp: the persistent     *)
(* list of test endpoints, and test_connectivity, which connects to all of *)
(* them at once and counts.  libcurl and the network are external.         *)
(***************************************************************************)
EXTENDS Naturals, Sequences, FiniteSets

CONSTANTS Endpoints,        \* endpoint names
          Defaults,         \* the three endpoints get_connectivity_test_endpoints adds
          EndpointLists     \* lists callers of setConnectivityTestEndpoints may send

ASSUME ConnAssumption ==
    /\ Defaults \in Seq(Endpoints) /\ Len(Defaults) = 3
    /\ EndpointLists \subseteq Seq(Endpoints)

\* MAX_CONNECTIVITY_TEST_ENDPOINTS
MaxEndpoints == 5

VARIABLES
    file,           \* /opt/persistent/connectivity_test_endpoints
    connPc,
    writing,        \* the list between fopen("w") and fclose
    endpoints,      \* local of test_connectivity
    pending,        \* handles (indices of endpoints) that libcurl works on
    connected,      \* the handles that finished with CURLE_OK
    verdict         \* what test_connectivity returned

fileVars == <<file, writing>>
testVars == <<endpoints, pending, connected, verdict>>
connVars == <<fileVars, connPc, testVars>>

ConnPcs == {"idle", "set", "read", "populate", "init", "perform"}

ConnTypeOK ==
    /\ file \in Seq(Endpoints) /\ writing \in Seq(Endpoints) /\ endpoints \in Seq(Endpoints)
    /\ connPc \in ConnPcs
    /\ pending \subseteq DOMAIN endpoints /\ connected \subseteq DOMAIN endpoints
    /\ pending \cap connected = {}
    /\ verdict \in BOOLEAN

\* A new device has no file, which reads as an empty one.
ConnInit ==
    /\ file = <<>> /\ writing = <<>> /\ endpoints = <<>>
    /\ connPc = "idle"
    /\ pending = {} /\ connected = {} /\ verdict = FALSE

\* set_connectivity_test_endpoints: fopen truncates the file, fclose writes the list.
OpenFile(list, pc) ==
    /\ file' = <<>> /\ writing' = list
    /\ connPc' = pc

WriteFile(pc) ==
    /\ file' \in {writing, <<>>}       \* fclose may fail
    /\ writing' = <<>>
    /\ connPc' = pc

SetEndpoints(list) ==
    /\ connPc = "idle"
    /\ \/ OpenFile(list, "set")
       \/ UNCHANGED <<fileVars, connPc>>        \* fopen fails: IARM_RESULT_IPCCORE_FAIL
    /\ UNCHANGED testVars

EndpointsSet == connPc = "set" /\ WriteFile("idle") /\ UNCHANGED testVars

-----------------------------------------------------------------------------
(* test_connectivity *)

TestBegin ==
    /\ connPc = "idle"
    /\ connPc' = "read" /\ verdict' = FALSE
    /\ UNCHANGED <<fileVars, endpoints, pending, connected>>

EnoughMutant(list) == Len(list) >= 1

\* "minimum two endpoints should be there"
Enough(list) == Len(list) >= 2

\* get_connectivity_test_endpoints: the defaults follow what the file has, and the whole list
\* is written back (if the file can be opened).
ReadEndpoints ==
    /\ connPc = "read"
    /\ LET list == SubSeq(file, 1, IF Len(file) < MaxEndpoints THEN Len(file) ELSE MaxEndpoints)
       IN IF Enough(list)
          THEN endpoints' = list /\ connPc' = "init" /\ UNCHANGED fileVars
          ELSE /\ endpoints' = list \o Defaults
               /\ OpenFile(list \o Defaults, "populate") \/ (connPc' = "init" /\ UNCHANGED fileVars)
    /\ UNCHANGED <<pending, connected, verdict>>

EndpointsPopulated ==
    /\ connPc = "populate" /\ WriteFile("init")
    /\ UNCHANGED testVars

TestReturnsMutant(v) ==
    verdict' = v /\ connPc' = "idle" /\ endpoints' = <<>> /\ connected' = {} /\ UNCHANGED pending

\* The function is over and its locals are gone.
TestReturns(v) ==
    /\ verdict' = v
    /\ connPc' = "idle" /\ endpoints' = <<>> /\ pending' = {} /\ connected' = {}

\* A handle that cannot be made or added is left out.  Without a multi handle the function
\* returns -1, which a bool function makes true.
CurlInit ==
    /\ connPc = "init"
    /\ \/ /\ pending' \in SUBSET DOMAIN endpoints
          /\ connPc' = "perform" /\ UNCHANGED <<endpoints, connected, verdict>>
       \/ TestReturns(TRUE)
    /\ UNCHANGED fileVars

\* curl_multi_perform finishes a handle, connected or not.
HandleDone(h) ==
    /\ connPc = "perform" /\ h \in pending
    /\ pending' = pending \ {h}
    /\ connected' \in {connected, connected \cup {h}}
    /\ UNCHANGED <<fileVars, connPc, endpoints, verdict>>

\* "checking ~90% endpoints connectivity": all but one.
Verdict == Cardinality(connected) >= Len(endpoints) - 1

TestEndMutant ==
    /\ connPc = "perform" /\ connected = DOMAIN endpoints
    /\ TestReturns(Verdict)
    /\ UNCHANGED fileVars

\* No handle is left, the deadline has passed, or libcurl failed.
TestEnd ==
    /\ connPc = "perform"
    /\ TestReturns(Verdict)
    /\ UNCHANGED fileVars

TestStep == \/ ReadEndpoints \/ EndpointsPopulated \/ CurlInit
            \/ (\E h \in pending : HandleDone(h)) \/ TestEnd

\* The daemon dies and is started again: a list not closed yet is lost.
ConnRestart ==
    /\ connPc' = "idle" /\ writing' = <<>> /\ endpoints' = <<>>
    /\ pending' = {} /\ connected' = {} /\ verdict' = FALSE
    /\ UNCHANGED file

-----------------------------------------------------------------------------
(* Properties *)

\* A test that finds the internet has connected to an endpoint, and to all but at most one:
\* whatever list was set, however a crash left the file.  (A lone endpoint would pass
\* unreached, "all but one" of one being none.)  The exception is libcurl failing to start
\* (connPc = "init"), which the code reports as connected.
VerdictSound ==
    [][verdict' /\ ~verdict =>
         \/ connPc = "init"
         \/ connected # {} /\ Cardinality(DOMAIN endpoints \ connected) <= 1]_connVars
=============================================================================
