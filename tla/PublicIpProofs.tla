--------------------------- MODULE PublicIpProofs ---------------------------
(***************************************************************************)
(* Proofs about PublicIp and its parts StunClient and Connectivity, for    *)
(* every set of servers, requests, timeouts and endpoints, and any number  *)
(* of calls and restarts.                                                  *)
(***************************************************************************)
EXTENDS PublicIp, FiniteSetTheorems, SequenceTheorems, TLAPS

-----------------------------------------------------------------------------
(* stun::client *)

\* What bind relies on between its steps: the parameters it was called with are the ones it
\* keeps; the loops leave enough attempts and addresses for the step under way; no socket is
\* open before the first attempt; and a return value of true means that the result is the
\* address learnt last.
StunInv ==
    /\ StunTypeOK
    /\ SocketsAccounted
    /\ request # Nothing => m_params = request
    /\ stunPc \in {"socket", "send", "select", "attempted"} => attempt < MaxAttempts
    /\ stunPc \in {"send", "select"} => addrs > 0
    /\ stunPc = "enter" => m_fd = Nothing
    /\ ret_ok => result # Nothing
    /\ request # Nothing /\ ret_ok => result = m_last_result
    /\ firstAnswer => ret_ok

\* client::client starts with nothing known and nothing open.
LEMMA StunInitInv == StunInit => StunInv
<1> SUFFICES ASSUME StunInit PROVE StunInv
  OBVIOUS
<1>1. clock \in Clock /\ m_last_cache_time \in Clock
  BY StunBounds DEF StunInit, Clock
<1>2. attempt \in 0..MaxAttempts /\ sleep_time \in Int /\ stunPc \in StunPcs
  BY DEF StunInit, MaxAttempts, StunPcs
<1>3. StunTypeOK
  BY <1>1, <1>2 DEF StunInit, StunTypeOK
<1> QED BY <1>3 DEF StunInit, StunInv, SocketsAccounted

\* The parameters of a request have their types.
LEMMA RequestType ==
    ASSUME NEW r \in Requests
    PROVE  /\ r.server \in Servers /\ r.iface \in Ifaces
           /\ r.bindTimeout \in Nat /\ r.cacheTimeout \in Nat
           /\ Resolutions[r.server] \subseteq Nat
BY RequestAssumption DEF Servers, Ifaces

\* The arithmetic of the pauses stays within its types, as long as the loop goes on.
LEMMA PauseType ==
    ASSUME m_params.bindTimeout \in Nat, total_time \in Nat, sleep_time \in Int,
           attempt \in 0..MaxAttempts, attempt < MaxAttempts,
           ~(attempt > 0 /\ SleepTime < 0), AfterPause
    PROVE  attempt' \in 0..MaxAttempts /\ total_time' \in Nat /\ sleep_time' \in Int
BY DEF AfterPause, SleepTime, Spent, WaitInterval, MaxAttempts

\* Every step of bind, of the network and of a restart keeps what bind relies on.
LEMMA StunStepInv == StunInv /\ [StunNext]_stunVars => StunInv'
<1> SUFFICES ASSUME StunInv, [StunNext]_stunVars PROVE StunInv'
  OBVIOUS
<1> USE DEF StunInv, StunTypeOK, SocketsAccounted, StunPcs, clientVars, localVars, netVars, fdVars
<1> DEFINE Fresh == attempt' \in 0..MaxAttempts /\ addrs' \in Nat /\ total_time' \in Nat /\ sleep_time' \in Int
<1>0. stunPc # "idle" => m_params \in Requests /\ m_params.bindTimeout \in Nat
  BY RequestType
<1>1. ASSUME NEW r \in Requests, BindEnter(r) PROVE StunInv'
  BY <1>1, NothingAssumption DEF BindEnter
<1>2. CASE BindCached
  <2>1. Fresh
    BY <1>2 DEF BindCached, Return, MaxAttempts
  <2> QED BY <1>2, <2>1 DEF BindCached, Return, CacheUsable
<1>3. CASE BindUncached
  BY <1>3 DEF BindUncached
<1>4. CASE NextAttempt
  BY <1>4, <1>0, RequestType DEF NextAttempt, Throw
<1>5. CASE CreateUdpSocket
  <2> USE <1>5 DEF CreateUdpSocket
  <2>1. ASSUME NEW fd \in Sockets, SocketMade(fd) PROVE StunInv'
    <3>1. replies' \subseteq Replies
      BY <2>1 DEF SocketMade, Reachable
    <3>2. openFds' \in Nat /\ openFds' = noAddress' + 1 /\ m_fd' # Nothing
      BY <2>1, NothingAssumption DEF SocketMade
    <3> QED BY <2>1, <3>1, <3>2 DEF SocketMade
  <2>2. CASE SocketForgotten
    BY <2>2 DEF SocketForgotten
  <2>3. CASE SocketRefused
    BY <2>3 DEF SocketRefused, Throw
  <2> QED BY <2>1, <2>2, <2>3 DEF Sockets
<1>6. CASE NoAddressLeft
  BY <1>6 DEF NoAddressLeft
<1>7. CASE SendMessage
  BY <1>7, <1>0, RequestType DEF SendMessage, NextAddress, Throw, Replies
<1>8. CASE SelectTimeout
  BY <1>8 DEF SelectTimeout, NextAddress
<1>9. CASE Receive
  BY <1>9 DEF Receive, NextAddress, Throw
<1>10. CASE LoopBreaks
  BY <1>10 DEF LoopBreaks
<1>11. CASE TakeAddress
  <2>1. response \in Replies /\ clock \in Clock
    BY <1>11 DEF TakeAddress, Got
  <2>2. m_last_result' \in PublicIps /\ m_last_result' # Nothing
    BY <1>11, <2>1, NothingAssumption DEF TakeAddress, Replies, PublicIps
  <2>3. attempt' \in 0..MaxAttempts /\ total_time' \in Nat /\ sleep_time' \in Int
    BY <1>11, <1>0, PauseType DEF TakeAddress
  <2> QED BY <1>11, <2>2, <2>3 DEF TakeAddress
<1>12. CASE NoAddressTaken
  <2>1. attempt' \in 0..MaxAttempts /\ total_time' \in Nat /\ sleep_time' \in Int
    BY <1>12, <1>0, PauseType DEF NoAddressTaken
  <2> QED BY <1>12, <2>1 DEF NoAddressTaken, Throw
<1>13. CASE BindReturn
  <2>1. Fresh
    BY <1>13 DEF BindReturn, Return, MaxAttempts
  <2>2. replies' \subseteq Replies
    BY <1>13 DEF BindReturn, Reachable
  <2>3. openFds' \in Nat /\ openFds' = noAddress' + 0
    BY <1>13 DEF BindReturn
  <2>4. result' \in PublicIps \cup {Nothing} /\ (ret_ok' => result' # Nothing)
    BY <1>13 DEF BindReturn
  <2> QED BY <1>13, <2>1, <2>2, <2>3, <2>4 DEF BindReturn, Return
<1>14. CASE Lose
  BY <1>14 DEF Lose
<1>15. CASE Tick
  BY <1>15, StunBounds DEF Tick, Clock
<1>16. CASE StunRestart
  <2>1. Fresh
    BY <1>16 DEF StunRestart, MaxAttempts
  <2>2. m_last_cache_time' \in Clock
    BY <1>16, StunBounds DEF StunRestart, Clock
  <2>3. replies' \subseteq Replies
    BY <1>16 DEF StunRestart, Reachable
  <2>4. SocketsAccounted' /\ openFds' \in Nat /\ noAddress' \in Nat
    BY <1>16 DEF StunRestart
  <2>5. StunTypeOK'
    BY <1>16, <2>1, <2>2, <2>3, <2>4 DEF StunRestart
  <2> QED BY <1>16, <2>4, <2>5 DEF StunRestart
<1>17. CASE UNCHANGED stunVars
  BY <1>17 DEF stunVars
<1> QED BY <1>1, <1>2, <1>3, <1>4, <1>5, <1>6, <1>7, <1>8, <1>9, <1>10, <1>11, <1>12, <1>13,
           <1>14, <1>15, <1>16, <1>17 DEF StunNext, ClientStep, Network

-----------------------------------------------------------------------------
(* test_connectivity *)

\* What test_connectivity relies on: handles exist only while it polls them, and by then it
\* has at least two endpoints.
ConnInv ==
    /\ ConnTypeOK
    /\ connPc # "perform" => pending = {} /\ connected = {}
    /\ connPc \in {"populate", "init", "perform"} => Len(endpoints) >= 2

ConnNext ==
    \/ \E list \in EndpointLists : SetEndpoints(list)
    \/ EndpointsSet \/ TestBegin \/ TestStep \/ ConnRestart

\* A device without a list of endpoints.
LEMMA ConnInitInv == ConnInit => ConnInv
<1> SUFFICES ASSUME ConnInit PROVE ConnInv
  OBVIOUS
<1>1. file \in Seq(Endpoints) /\ writing \in Seq(Endpoints) /\ endpoints \in Seq(Endpoints)
  BY DEF ConnInit
<1>2. connPc \in ConnPcs /\ verdict \in BOOLEAN
  BY DEF ConnInit, ConnPcs
<1> QED BY <1>1, <1>2 DEF ConnInit, ConnInv, ConnTypeOK

\* The list a test uses: at least two of the file's, or the defaults behind what it has.
LEMMA ReadEndpointsInv == ConnInv /\ ReadEndpoints => ConnInv'
<1> SUFFICES ASSUME ConnInv, ReadEndpoints PROVE ConnInv'
  OBVIOUS
<1>0. file \in Seq(Endpoints) /\ writing \in Seq(Endpoints)
  BY DEF ConnInv, ConnTypeOK
<1> DEFINE n == IF Len(file) < MaxEndpoints THEN Len(file) ELSE MaxEndpoints
           list == SubSeq(file, 1, n)
<1>1. n \in 0..Len(file)
  BY <1>0, LenProperties DEF MaxEndpoints
<1>2. list \in Seq(Endpoints)
  BY <1>0, <1>1, SubSeqProperties
<1>3. IF Enough(list)
      THEN endpoints' = list /\ connPc' = "init" /\ UNCHANGED fileVars
      ELSE /\ endpoints' = list \o Defaults
           /\ OpenFile(list \o Defaults, "populate") \/ (connPc' = "init" /\ UNCHANGED fileVars)
  BY DEF ReadEndpoints
<1> HIDE DEF list
<1>4. list \o Defaults \in Seq(Endpoints) /\ Len(list \o Defaults) >= 2
  <2>1. Len(list) \in Nat
    BY <1>2, LenProperties
  <2>2. Defaults \in Seq(Endpoints) /\ Len(Defaults) = 3
    BY ConnAssumption
  <2>3. list \o Defaults \in Seq(Endpoints) /\ Len(list \o Defaults) = Len(list) + Len(Defaults)
    BY <1>2, <2>2, ConcatProperties
  <2> QED BY <2>1, <2>2, <2>3
<1>5. /\ endpoints' \in Seq(Endpoints) /\ Len(endpoints') >= 2
      /\ connPc' \in {"init", "populate"}
      /\ file' \in Seq(Endpoints) /\ writing' \in Seq(Endpoints)
  <2>1. CASE Enough(list)
    BY <1>0, <1>2, <1>3, <2>1 DEF Enough, fileVars
  <2>2. CASE ~Enough(list)
    <3> DEFINE whole == list \o Defaults
    <3>1. endpoints' = whole /\ (OpenFile(whole, "populate") \/ (connPc' = "init" /\ UNCHANGED fileVars))
      BY <1>3, <2>2
    <3>2. whole \in Seq(Endpoints) /\ Len(whole) >= 2
      BY <1>4
    <3> HIDE DEF whole
    <3>3. CASE OpenFile(whole, "populate")
      <4>1. file' = <<>> /\ writing' = whole /\ connPc' = "populate"
        BY <3>3 DEF OpenFile
      <4> QED BY <3>1, <3>2, <4>1, EmptySeq
    <3>4. CASE connPc' = "init" /\ UNCHANGED fileVars
      BY <1>0, <3>1, <3>2, <3>4 DEF fileVars
    <3> QED BY <3>1, <3>3, <3>4
  <2> QED BY <2>1, <2>2
<1> QED BY <1>5 DEF ReadEndpoints, ConnInv, ConnTypeOK, ConnPcs

\* Opening the file with a list, and closing it, leave lists in the file and in the buffer.
LEMMA WriteFileType ==
    ASSUME file \in Seq(Endpoints), writing \in Seq(Endpoints), NEW pc, WriteFile(pc)
    PROVE  file' \in Seq(Endpoints) /\ writing' \in Seq(Endpoints) /\ connPc' = pc
<1>1. file' = writing \/ file' = <<>>
  BY DEF WriteFile
<1>2. writing' = <<>> /\ connPc' = pc
  BY DEF WriteFile
<1> QED BY <1>1, <1>2, EmptySeq

LEMMA SetEndpointsInv ==
    ASSUME NEW list \in EndpointLists, ConnInv, SetEndpoints(list) PROVE ConnInv'
<1>1. list \in Seq(Endpoints)
  BY ConnAssumption
<1>2. file \in Seq(Endpoints) /\ writing \in Seq(Endpoints)
  BY DEF ConnInv, ConnTypeOK
<1>3. file' \in Seq(Endpoints) /\ writing' \in Seq(Endpoints) /\ connPc' \in {"idle", "set"}
  <2>1. CASE OpenFile(list, "set")
    <3>1. file' = <<>> /\ writing' = list /\ connPc' = "set"
      BY <2>1 DEF OpenFile
    <3> QED BY <1>1, <3>1, EmptySeq
  <2>2. CASE UNCHANGED <<fileVars, connPc>>
    BY <1>2, <2>2 DEF SetEndpoints, fileVars
  <2> QED BY <2>1, <2>2 DEF SetEndpoints
<1> QED BY <1>3 DEF ConnInv, ConnTypeOK, ConnPcs, SetEndpoints, testVars

\* When the test is over its locals are empty again.
LEMMA TestReturnsInv ==
    ASSUME ConnInv, NEW v \in BOOLEAN, TestReturns(v), UNCHANGED fileVars PROVE ConnInv'
<1>1. endpoints' = <<>> /\ endpoints' \in Seq(Endpoints)
  BY EmptySeq DEF TestReturns
<1>2. pending' = {} /\ connected' = {} /\ connPc' = "idle" /\ verdict' \in BOOLEAN
  BY DEF TestReturns
<1> QED BY <1>1, <1>2 DEF ConnInv, ConnTypeOK, ConnPcs, fileVars

\* Every step of the two calls of connectivity.cpp, and a restart.
LEMMA ConnStepInv == ConnInv /\ [ConnNext]_connVars => ConnInv'
<1> SUFFICES ASSUME ConnInv, [ConnNext]_connVars PROVE ConnInv'
  OBVIOUS
<1>0. file \in Seq(Endpoints) /\ writing \in Seq(Endpoints)
  BY DEF ConnInv, ConnTypeOK
<1>1. ASSUME NEW list \in EndpointLists, SetEndpoints(list) PROVE ConnInv'
  BY <1>1, SetEndpointsInv
<1>2. CASE EndpointsSet
  <2>1. file' \in Seq(Endpoints) /\ writing' \in Seq(Endpoints) /\ connPc' = "idle"
    BY <1>0, <1>2, WriteFileType DEF EndpointsSet
  <2> QED BY <1>2, <2>1 DEF EndpointsSet, ConnInv, ConnTypeOK, ConnPcs, testVars
<1>3. CASE TestBegin
  BY <1>3 DEF TestBegin, ConnInv, ConnTypeOK, ConnPcs, fileVars
<1>4. CASE ReadEndpoints
  BY <1>4, ReadEndpointsInv
<1>5. CASE EndpointsPopulated
  <2>1. file' \in Seq(Endpoints) /\ writing' \in Seq(Endpoints) /\ connPc' = "init"
    BY <1>0, <1>5, WriteFileType DEF EndpointsPopulated
  <2> QED BY <1>5, <2>1 DEF EndpointsPopulated, ConnInv, ConnTypeOK, ConnPcs, testVars
<1>6. CASE CurlInit
  <2>1. CASE TestReturns(TRUE)
    BY <1>6, <2>1, TestReturnsInv DEF CurlInit
  <2>2. CASE /\ pending' \in SUBSET DOMAIN endpoints
             /\ connPc' = "perform" /\ UNCHANGED <<endpoints, connected, verdict>>
    BY <1>6, <2>2 DEF CurlInit, ConnInv, ConnTypeOK, ConnPcs, fileVars
  <2> QED BY <1>6, <2>1, <2>2 DEF CurlInit
<1>7. ASSUME NEW h \in pending, HandleDone(h) PROVE ConnInv'
  BY <1>7 DEF HandleDone, ConnInv, ConnTypeOK, ConnPcs, fileVars
<1>8. CASE TestEnd
  <2>1. Verdict \in BOOLEAN
    BY DEF Verdict
  <2> QED BY <1>8, <2>1, TestReturnsInv DEF TestEnd
<1>9. CASE ConnRestart
  <2>1. writing' \in Seq(Endpoints) /\ endpoints' \in Seq(Endpoints)
    BY <1>9, EmptySeq DEF ConnRestart
  <2> QED BY <1>9, <2>1 DEF ConnRestart, ConnInv, ConnTypeOK, ConnPcs
<1>10. CASE UNCHANGED connVars
  BY <1>10 DEF connVars, fileVars, testVars, ConnInv, ConnTypeOK
<1> QED BY <1>1, <1>2, <1>3, <1>4, <1>5, <1>6, <1>7, <1>8, <1>9, <1>10 DEF ConnNext, TestStep

\* All but one of at least two: the arithmetic of the verdict.
LEMMA VerdictCounts ==
    ConnInv /\ connPc = "perform" /\ Verdict
        => connected # {} /\ Cardinality(DOMAIN endpoints \ connected) <= 1
<1> SUFFICES ASSUME ConnInv, connPc = "perform", Verdict
             PROVE  connected # {} /\ Cardinality(DOMAIN endpoints \ connected) <= 1
  OBVIOUS
<1>1. endpoints \in Seq(Endpoints) /\ connected \subseteq DOMAIN endpoints /\ Len(endpoints) >= 2
  BY DEF ConnInv, ConnTypeOK
<1>2. DOMAIN endpoints = 1..Len(endpoints) /\ Len(endpoints) \in Nat
  BY <1>1, LenProperties
<1>3. IsFiniteSet(DOMAIN endpoints) /\ Cardinality(DOMAIN endpoints) = Len(endpoints)
  <2> DEFINE n == Len(endpoints)
  <2>1. n \in Int /\ n >= 1 /\ DOMAIN endpoints = 1..n
    BY <1>1, <1>2
  <2> HIDE DEF n
  <2>2. IsFiniteSet(1..n) /\ Cardinality(1..n) = IF 1 > n THEN 0 ELSE n - 1 + 1
    BY <2>1, FS_Interval
  <2> QED BY <2>1, <2>2 DEF n
<1>4. /\ IsFiniteSet(connected) /\ Cardinality(connected) \in Nat
      /\ DOMAIN endpoints \cap connected = connected
  BY <1>1, <1>3, FS_Subset, FS_CardinalityType
<1>5. Cardinality(DOMAIN endpoints \ connected) = Len(endpoints) - Cardinality(connected)
  BY <1>3, <1>4, FS_Difference
<1>6. Cardinality(connected) >= Len(endpoints) - 1
  BY DEF Verdict
<1>7. connected # {}
  BY <1>1, <1>2, <1>4, <1>6, FS_EmptySet
<1> QED BY <1>2, <1>4, <1>5, <1>6, <1>7

-----------------------------------------------------------------------------
(* The bus calls *)

\* A call of getPublicIP has its parameters as long as it is under way.
BusInv ==
    /\ param \in Params \cup {Nothing}
    /\ phase \in {"none", "test", "bind"}
    /\ (phase = "none") <=> (param = Nothing)
    /\ publicIp \in PublicIps \cup {Nothing}
    /\ calls \in 0..MaxCalls

\* The invariants of the two parts hold between the calls and during them.
IInv == StunInv /\ ConnInv /\ BusInv

LEMMA InitInv == Init => IInv
<1>1. MaxCalls \in Nat
  BY ParamAssumption
<1> QED BY <1>1, StunInitInv, ConnInitInv DEF Init, IInv, BusInv

\* A step of the bus thread is a step of the STUN client or leaves it alone, and likewise for
\* the connectivity check.
LEMMA PartsStep == IInv /\ [Next]_vars => [StunNext]_stunVars /\ [ConnNext]_connVars
<1> SUFFICES ASSUME IInv, [Next]_vars PROVE [StunNext]_stunVars /\ [ConnNext]_connVars
  OBVIOUS
<1>1. ASSUME NEW list \in EndpointLists, setConnectivityTestEndpoints(list)
      PROVE  SetEndpoints(list) /\ UNCHANGED stunVars
  BY <1>1 DEF setConnectivityTestEndpoints
<1>2. CASE isConnectedToInternet
  BY <1>2 DEF isConnectedToInternet, ConnNext
<1>3. ASSUME NEW p \in Params, getPublicIP(p) PROVE TestBegin /\ UNCHANGED stunVars
  BY <1>3 DEF getPublicIP
<1>4. CASE PublicIpRefused
  BY <1>4 DEF PublicIpRefused
<1>5. CASE PublicIpBinds
  <2>1. param \in Params
    BY <1>5 DEF PublicIpBinds, IInv, BusInv
  <2>2. Argument(param) \in Requests
    BY <1>5, <2>1, ParamAssumption DEF PublicIpBinds
  <2> QED BY <1>5, <2>2 DEF PublicIpBinds, StunNext
<1>6. CASE PublicIpReturns
  BY <1>6 DEF PublicIpReturns
<1>7. CASE Stun
  BY <1>7 DEF Stun, StunNext
<1>8. CASE Conn
  BY <1>8 DEF Conn, ConnNext
<1>9. CASE World
  BY <1>9 DEF World, StunNext
<1>10. CASE Restart
  BY <1>10 DEF Restart, StunNext, ConnNext
<1>11. CASE UNCHANGED vars
  BY <1>11 DEF vars
<1> QED BY <1>1, <1>2, <1>3, <1>4, <1>5, <1>6, <1>7, <1>8, <1>9, <1>10, <1>11
        DEF Next, BusStep, ConnNext

LEMMA StepInv == IInv /\ [Next]_vars => IInv'
<1> SUFFICES ASSUME IInv, [Next]_vars PROVE IInv'
  OBVIOUS
<1>0. StunInv' /\ ConnInv'
  BY PartsStep, StunStepInv, ConnStepInv DEF IInv
<1> SUFFICES BusInv'
  BY <1>0 DEF IInv
<1>a. BusInv
  BY DEF IInv
<1>m. MaxCalls \in Nat /\ Nothing \notin Params
  BY ParamAssumption
<1>b. Call => calls' \in 0..MaxCalls
  BY <1>a, <1>m DEF BusInv, Call
<1>c. result \in PublicIps \cup {Nothing}
  BY DEF IInv, StunInv, StunTypeOK
<1>1. ASSUME NEW list \in EndpointLists, setConnectivityTestEndpoints(list) PROVE BusInv'
  BY <1>a, <1>b, <1>1 DEF BusInv, setConnectivityTestEndpoints
<1>2. CASE isConnectedToInternet
  BY <1>a, <1>b, <1>2 DEF BusInv, isConnectedToInternet
<1>3. ASSUME NEW p \in Params, getPublicIP(p) PROVE BusInv'
  BY <1>a, <1>b, <1>m, <1>3 DEF BusInv, getPublicIP
<1>4. CASE PublicIpRefused
  BY <1>a, <1>4 DEF BusInv, PublicIpRefused, Reply
<1>5. CASE PublicIpBinds
  BY <1>a, <1>5 DEF BusInv, PublicIpBinds
<1>6. CASE PublicIpReturns
  BY <1>a, <1>c, <1>6 DEF BusInv, PublicIpReturns, Reply
<1>7. CASE UNCHANGED busVars
  BY <1>a, <1>7 DEF BusInv, busVars
<1>8. CASE Restart
  BY <1>a, <1>8 DEF BusInv, Restart, Reply
<1> QED BY <1>1, <1>2, <1>3, <1>4, <1>5, <1>6, <1>7, <1>8
        DEF Next, BusStep, Stun, Conn, World, vars

THEOREM Invariance == Spec => []IInv
<1>1. Init => IInv
  BY InitInv
<1>2. IInv /\ [Next]_vars => IInv'
  BY StepInv
<1> QED BY <1>1, <1>2, PTL DEF Spec

\* Type correctness of the calls, the STUN client and the connectivity check.
THEOREM TypeCorrect == Spec => []TypeOK
<1>1. IInv => TypeOK
  BY DEF IInv, StunInv, ConnInv, BusInv, TypeOK
<1> QED BY <1>1, Invariance, PTL

\* However bind leaves its loops, the only sockets left open are the ones create_udp_socket
\* gave up for want of an address.
THEOREM SocketsAccountedHolds == Spec => []SocketsAccounted
<1>1. IInv => SocketsAccounted
  BY DEF IInv, StunInv
<1> QED BY <1>1, Invariance, PTL

\* An address received in the first attempt survives the attempts after it.
THEOREM FirstAnswerKeptHolds == Spec => []FirstAnswerKept
<1>1. IInv => FirstAnswerKept
  BY DEF IInv, StunInv, FirstAnswerKept
<1> QED BY <1>1, Invariance, PTL

\* A test says "connected" only with all but at most one endpoint connected, and at least one,
\* for every list of endpoints that was set and wherever a restart cut the writing short.
THEOREM VerdictSoundHolds == Spec => VerdictSound
<1> DEFINE Sound == verdict' /\ ~verdict =>
              \/ connPc = "init"
              \/ connected # {} /\ Cardinality(DOMAIN endpoints \ connected) <= 1
<1>1. IInv /\ [Next]_vars => [Sound]_connVars
  <2> SUFFICES ASSUME IInv, [ConnNext]_connVars, verdict', ~verdict
               PROVE  \/ connPc = "init"
                      \/ connected # {} /\ Cardinality(DOMAIN endpoints \ connected) <= 1
    BY PartsStep
  <2>1. CurlInit => connPc = "init"
    BY DEF CurlInit
  <2>2. TestEnd => connPc = "perform" /\ Verdict
    BY DEF TestEnd, TestReturns
  <2>3. TestEnd \/ CurlInit
    BY DEF ConnNext, TestStep, SetEndpoints, EndpointsSet, TestBegin, ReadEndpoints,
           EndpointsPopulated, HandleDone, ConnRestart, testVars, connVars
  <2> QED BY <2>1, <2>2, <2>3, VerdictCounts DEF IInv
<1> QED BY <1>1, Invariance, PTL DEF Spec, VerdictSound

-----------------------------------------------------------------------------
(* The STUN client implements PublicAddress *)

\* The initial states agree.
LEMMA PromiseInit == StunInit => Promise!Init
BY DEF StunInit, Promise!Init

\* Every step of the client is a step of the promise or invisible to it: entering bind asks,
\* an address taken is learnt, the two ways to return answer, a restart forgets.
LEMMA PromiseStep == StunInv /\ [StunNext]_stunVars => [Promise!Next]_(Promise!vars)
<1> SUFFICES ASSUME StunInv, [StunNext]_stunVars PROVE [Promise!Next]_(Promise!vars)
  OBVIOUS
<1> USE DEF clientVars, localVars, netVars, fdVars
<1>1. ASSUME NEW r \in Requests, BindEnter(r) PROVE Promise!Ask(r)
  BY <1>1 DEF BindEnter, Promise!Ask, StunInv, StunTypeOK
<1>2. CASE BindCached
  <2>1. Promise!MayServe
    BY <1>2 DEF BindCached, CacheUsable, Promise!MayServe, StunInv, StunTypeOK
  <2>2. Promise!Answer
    BY <1>2, <2>1 DEF BindCached, Return, Promise!Answer, StunInv, StunTypeOK
  <2> QED BY <2>2 DEF Promise!Next
<1>3. CASE BindReturn
  <2>1. ret_ok => Promise!MayServe
    BY <1>3 DEF BindReturn, Promise!MayServe, StunInv, StunTypeOK
  <2>2. Promise!Answer
    BY <1>3, <2>1 DEF BindReturn, Return, Promise!Answer, StunInv, StunTypeOK
  <2> QED BY <2>2 DEF Promise!Next
<1>4. CASE TakeAddress
  <2>1. m_last_result' \in PublicIps
    BY <1>4 DEF TakeAddress, Got, Replies, PublicIps, StunInv, StunTypeOK
  <2>2. Promise!Learn(m_last_result')
    BY <1>4 DEF TakeAddress, Promise!Learn, StunInv, StunTypeOK
  <2> QED BY <2>1, <2>2 DEF Promise!Next
<1>5. CASE StunRestart
  BY <1>5 DEF StunRestart, Promise!Forget, Promise!Next
<1>6. CASE Tick
  BY <1>6 DEF Tick, Promise!Tick, Promise!Next
<1>7. CASE \/ BindUncached \/ NextAttempt \/ CreateUdpSocket \/ NoAddressLeft \/ SendMessage
           \/ SelectTimeout \/ Receive \/ LoopBreaks \/ NoAddressTaken \/ Lose
  <2>1. UNCHANGED <<request, m_last_result, m_last_cache_time, ret_ok, result, clock>>
    BY <1>7 DEF BindUncached, NextAttempt, CreateUdpSocket, SocketMade, SocketForgotten,
       SocketRefused, NoAddressLeft, SendMessage, SelectTimeout, Receive, LoopBreaks,
       NoAddressTaken, Lose, Throw, NextAddress
  <2> QED BY <2>1 DEF Promise!vars
<1>8. CASE UNCHANGED stunVars
  BY <1>8 DEF stunVars, Promise!vars
<1> QED BY <1>1, <1>2, <1>3, <1>4, <1>5, <1>6, <1>7, <1>8
        DEF StunNext, ClientStep, Network, Promise!Next

\* The safety part of PromiseKept: a caller gets no address that is neither of its own call
\* nor young enough, for any servers, timeouts, losses and restarts.
THEOREM PromiseSafe == Spec => Promise!Init /\ [][Promise!Next]_(Promise!vars)
<1>1. Init => Promise!Init
  BY PromiseInit DEF Init
<1>2. IInv /\ [Next]_vars => [Promise!Next]_(Promise!vars)
  BY PartsStep, PromiseStep DEF IInv
<1> QED BY <1>1, <1>2, Invariance, PTL DEF Spec
=============================================================================
