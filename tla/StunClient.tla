----------------------------- MODULE StunClient -----------------------------
(***************************************************************************)
(* stun::client of StunClient.cpp: bind with its cache, its loop of        *)
(* attempts over the addresses of a server, its sockets and its            *)
(* exceptions, against a network that loses and delays answers.            *)
(*                                                                         *)
(* A public IP is represented by where it comes from: the server that      *)
(* reported it, the interface it was asked through and the second it was   *)
(* received in.  A throw is a jump to the end of bind (Throw).  Waits take *)
(* as long as the environment's Tick makes them take.                      *)
(***************************************************************************)
EXTENDS Integers, FiniteSets

CONSTANTS Requests,     \* [server, iface, bindTimeout, cacheTimeout]: arguments of bind;
                        \* a server is a host name, a port and a protocol
          Resolutions,  \* Resolutions[server]: how many addresses getaddrinfo may give
          LocalPort,    \* LocalPort[server]: port and family of a socket bound for server
          NoIface,      \* the empty interface name
          Nothing,      \* an empty result, no socket, no response
          MaxInFlight,  \* bound: answers on their way
          MaxClock      \* bound: seconds in a behaviour

\* The timeouts are 16 bits wide in the code; their sums are not, and do not overflow.
ASSUME RequestAssumption ==
    /\ \A r \in Requests : /\ DOMAIN r = {"server", "iface", "bindTimeout", "cacheTimeout"}
                           /\ r.bindTimeout \in Nat /\ r.cacheTimeout \in Nat
                           /\ r.server \in DOMAIN Resolutions
    /\ \A s \in DOMAIN Resolutions : Resolutions[s] \subseteq Nat
    /\ DOMAIN LocalPort = DOMAIN Resolutions

ASSUME StunBounds == MaxInFlight \in Nat /\ MaxClock \in Nat

Servers == DOMAIN Resolutions
Ifaces == {r.iface : r \in Requests}
Clock == 0..MaxClock
PublicIps == [server : Servers, iface : Ifaces, at : Clock]

\* STUN_DEFAULT_WAIT_INTERVAL and STUN_DEFAULT_MAX_ATTEMPTS
WaitInterval == 2000
MaxAttempts == 30

\* What a datagram is to decode_message and mapped_address: a binding response with a
\* mapped address, with one of an unknown family, with none, or another message.
Kinds == {"mapped", "badFamily", "noAddress", "otherType"}

\* A socket bound to an interface has the server's port, so that answers find the next
\* socket of that interface too; any other has a port of its own.
Sockets == {"bound", "own"}
Replies == [server : Servers, iface : Ifaces, kind : Kinds]

\* Nothing is none of the things it stands in for.
ASSUME NothingAssumption == Nothing \notin Requests \cup PublicIps \cup Sockets \cup Replies

VARIABLES
    request,                    \* the arguments of the bind under way, or Nothing
    m_params,                   \* m_server, m_protocol, m_interface, m_bind_timeout, m_cache_timeout
    m_last_result, m_last_cache_time, m_fd,
    result, ret_ok,             \* bind's out-parameter and return value
    dirty, attempt, total_time, sleep_time, addrs, response,    \* locals of bind;
                                \* addrs counts the addresses not tried yet
    stunPc,
    replies,                    \* external: answers on their way
    clock,                      \* external: steady_clock, in seconds
    openFds,                    \* external: sockets the process has open
    noAddress,                  \* history: sockets made while the interface had no address
    firstAnswer                 \* history: the first attempt of this bind gave an address

clientVars == <<m_params, m_last_result, m_last_cache_time, m_fd>>
localVars == <<dirty, attempt, total_time, sleep_time, addrs, response>>
netVars == <<replies, clock>>
fdVars == <<openFds, noAddress>>
stunVars == <<request, clientVars, result, ret_ok, localVars, stunPc, netVars, fdVars, firstAnswer>>

StunPcs == {"idle", "enter", "loop", "socket", "send", "select", "attempted", "close"}

StunTypeOK ==
    /\ request \in Requests \cup {Nothing}
    /\ m_params \in Requests \cup {Nothing}
    /\ m_last_result \in PublicIps \cup {Nothing} /\ result \in PublicIps \cup {Nothing}
    /\ m_last_cache_time \in Clock /\ clock \in Clock
    /\ m_fd \in Sockets \cup {Nothing}
    /\ ret_ok \in BOOLEAN /\ dirty \in BOOLEAN /\ firstAnswer \in BOOLEAN
    /\ addrs \in Nat /\ attempt \in 0..MaxAttempts /\ total_time \in Nat /\ sleep_time \in Int
    /\ response \in Replies \cup {Nothing}
    /\ stunPc \in StunPcs
    /\ replies \subseteq Replies
    /\ openFds \in Nat /\ noAddress \in Nat
    /\ (stunPc = "idle") <=> (request = Nothing)

\* client::client, before any call.  Its empty server name differs from every request.
StunInit ==
    /\ request = Nothing /\ m_params = Nothing
    /\ m_last_result = Nothing /\ m_last_cache_time = 0 /\ m_fd = Nothing
    /\ result = Nothing /\ ret_ok = FALSE
    /\ dirty = FALSE /\ attempt = 0 /\ total_time = 0 /\ sleep_time = 1
    /\ addrs = 0 /\ response = Nothing
    /\ stunPc = "idle"
    /\ replies = {} /\ clock = 0
    /\ openFds = 0 /\ noAddress = 0 /\ firstAnswer = FALSE

-----------------------------------------------------------------------------
(* bind: the parameters and the cache *)

BindEnter(r) ==
    /\ stunPc = "idle"
    /\ request' = r
    /\ m_params' = r /\ dirty' = (m_params # r)
    /\ ret_ok' = FALSE /\ result' = Nothing /\ firstAnswer' = FALSE
    /\ stunPc' = "enter"
    /\ UNCHANGED <<m_last_result, m_last_cache_time, m_fd, attempt, total_time, sleep_time,
                   addrs, response, netVars, fdVars>>

\* The call is over: the locals go, and the caller has the result and the return value.
Return ==
    /\ request' = Nothing /\ stunPc' = "idle"
    /\ dirty' = FALSE /\ attempt' = 0 /\ total_time' = 0 /\ sleep_time' = 1
    /\ addrs' = 0 /\ response' = Nothing

CacheUsableMutant ==
    /\ m_params.cacheTimeout > 0 /\ ~dirty /\ m_last_result # Nothing
    /\ clock - m_last_cache_time <= m_params.cacheTimeout

CacheUsable ==
    /\ m_params.cacheTimeout > 0
    /\ ~dirty
    /\ m_last_result # Nothing
    /\ clock - m_last_cache_time < m_params.cacheTimeout

BindCached ==
    /\ stunPc = "enter" /\ CacheUsable
    /\ result' = m_last_result /\ ret_ok' = TRUE
    /\ Return
    /\ UNCHANGED <<clientVars, netVars, fdVars, firstAnswer>>

BindUncached ==
    /\ stunPc = "enter" /\ ~CacheUsable
    /\ stunPc' = "loop"
    /\ UNCHANGED <<request, clientVars, result, ret_ok, localVars, netVars, fdVars, firstAnswer>>

-----------------------------------------------------------------------------
(* bind: the attempts *)

Throw == stunPc' = "close" /\ UNCHANGED <<ret_ok, result>>

\* The loop's condition, and send_binding_request up to its loop over the addresses.
NextAttempt ==
    /\ stunPc = "loop"
    /\ IF attempt < MaxAttempts /\ total_time < m_params.bindTimeout
       THEN \/ \E n \in Resolutions[m_params.server] :
                    addrs' = n /\ response' = Nothing /\ stunPc' = "socket"
                    /\ UNCHANGED <<ret_ok, result>>
            \/ Throw /\ UNCHANGED <<addrs, response>>          \* getaddrinfo fails
       ELSE stunPc' = "close" /\ UNCHANGED <<ret_ok, result, addrs, response>>
    /\ UNCHANGED <<request, clientVars, dirty, attempt, total_time, sleep_time, netVars,
                   fdVars, firstAnswer>>

\* When a socket with a port of its own is closed the answers to it have no receiver left.
Reachable == {r \in replies : r.iface # NoIface}

\* create_udp_socket replaces the socket only once the new one is bound, and binding fails
\* while the old one, or a foreign process, has the same address and port.
SocketMade(fd) ==
    /\ m_fd' = fd
    /\ openFds' = IF m_fd = Nothing THEN openFds + 1 ELSE openFds
    /\ replies' = Reachable
    /\ stunPc' = "send"
    /\ UNCHANGED <<noAddress, ret_ok, result>>

\* The interface has no address: the new socket is neither used nor closed.
SocketForgotten ==
    /\ openFds' = openFds + 1 /\ noAddress' = noAddress + 1
    /\ stunPc' = "send"
    /\ UNCHANGED <<m_fd, replies, ret_ok, result>>

SocketRefusedMutant == openFds' = openFds + 1 /\ Throw /\ UNCHANGED <<m_fd, noAddress, replies>>

SocketRefused == Throw /\ UNCHANGED <<m_fd, openFds, noAddress, replies>>

CreateUdpSocket ==
    /\ stunPc = "socket" /\ addrs > 0
    /\ \/ m_params.iface = NoIface /\ SocketMade("own")
       \/ m_params.iface # NoIface /\ m_fd # "bound" /\ SocketMade("bound")
       \/ m_params.iface # NoIface /\ SocketForgotten
       \/ SocketRefused
    /\ UNCHANGED <<request, m_params, m_last_result, m_last_cache_time, localVars, clock,
                   firstAnswer>>

\* send_binding_request has tried the last address.
NoAddressLeft ==
    /\ stunPc = "socket" /\ addrs = 0
    /\ stunPc' = "attempted"
    /\ UNCHANGED <<request, clientVars, result, ret_ok, localVars, netVars, fdVars, firstAnswer>>

NextAddress == addrs' = addrs - 1 /\ stunPc' = "socket" /\ UNCHANGED <<ret_ok, result>>

\* The server may answer, with any kind of message, or the request or its answer is lost.
SendMessage ==
    /\ stunPc = "send"
    /\ \/ m_fd = Nothing /\ NextAddress /\ UNCHANGED replies
       \/ m_fd # Nothing /\ Throw /\ UNCHANGED <<addrs, replies>>   \* sendto fails
       \/ /\ m_fd # Nothing
          /\ stunPc' = "select"
          /\ \/ replies' = replies
             \/ /\ Cardinality(replies) < MaxInFlight
                /\ \E kind \in Kinds :
                     replies' = replies \cup {[server |-> m_params.server,
                                               iface |-> m_params.iface, kind |-> kind]}
          /\ UNCHANGED <<addrs, ret_ok, result>>
    /\ UNCHANGED <<request, clientVars, dirty, attempt, total_time, sleep_time, response,
                   clock, fdVars, firstAnswer>>

\* select times out.
SelectTimeout ==
    /\ stunPc = "select"
    /\ NextAddress
    /\ UNCHANGED <<request, clientVars, dirty, attempt, total_time, sleep_time, response,
                   netVars, fdVars, firstAnswer>>

\* recvfrom and decode_message.  No field of the answer is compared with the request's: any
\* answer that reaches the socket's address and port will do, a late one to an earlier
\* request included.
Receive ==
    /\ stunPc = "select"
    /\ \/ Throw /\ UNCHANGED <<addrs, replies, response>>           \* recvfrom fails
       \/ \E r \in replies :
            /\ r.iface = m_params.iface /\ LocalPort[r.server] = LocalPort[m_params.server]
            /\ replies' = replies \ {r}
            /\ IF r.kind = "otherType"
               THEN NextAddress /\ UNCHANGED response
               ELSE stunPc' = "attempted" /\ response' = r /\ UNCHANGED <<addrs, ret_ok, result>>
    /\ UNCHANGED <<request, clientVars, dirty, attempt, total_time, sleep_time, clock,
                   fdVars, firstAnswer>>

\* The pause after every attempt but the first.  SleepTime below zero ends the loop, and the
\* answer of that attempt is not looked at.
Spent == total_time + WaitInterval
SleepTime == IF Spent + sleep_time > m_params.bindTimeout THEN m_params.bindTimeout - Spent
                                                          ELSE sleep_time

AfterPause ==
    /\ attempt' = attempt + 1
    /\ IF attempt = 0
       THEN total_time' = Spent /\ UNCHANGED sleep_time
       ELSE /\ total_time' = Spent + SleepTime
            /\ sleep_time' = IF SleepTime < 32 THEN 2 * SleepTime ELSE SleepTime

LoopBreaks ==
    /\ stunPc = "attempted" /\ attempt > 0 /\ SleepTime < 0
    /\ stunPc' = "close"
    /\ UNCHANGED <<request, clientVars, result, ret_ok, localVars, netVars, fdVars, firstAnswer>>

Got(kind) == response # Nothing /\ response.kind = kind

TakeAddress ==
    /\ stunPc = "attempted" /\ ~(attempt > 0 /\ SleepTime < 0)
    /\ Got("mapped")
    /\ m_last_result' = [server |-> response.server, iface |-> response.iface, at |-> clock]
    /\ m_last_cache_time' = clock
    /\ result' = m_last_result' /\ ret_ok' = TRUE
    /\ firstAnswer' = (firstAnswer \/ attempt = 0)
    /\ AfterPause
    /\ stunPc' = "loop"
    /\ UNCHANGED <<request, m_params, m_fd, dirty, addrs, response, netVars, fdVars>>

\* No answer, no mapped address in it, or one whose family attributes::address refuses.
NoAddressTaken ==
    /\ stunPc = "attempted" /\ ~(attempt > 0 /\ SleepTime < 0)
    /\ ~Got("mapped")
    /\ AfterPause
    /\ IF Got("badFamily")
       THEN Throw
       ELSE stunPc' = "loop" /\ UNCHANGED <<ret_ok, result>>
    /\ UNCHANGED <<request, clientVars, dirty, addrs, response, netVars, fdVars, firstAnswer>>

BindReturnMutant ==
    /\ stunPc = "close"
    /\ m_fd' = Nothing /\ replies' = Reachable
    /\ openFds' = IF m_fd = Nothing THEN openFds ELSE openFds - 1
    /\ ret_ok' = (ret_ok /\ Got("mapped"))
    /\ result' = IF ret_ok' THEN result ELSE Nothing
    /\ Return
    /\ UNCHANGED <<m_params, m_last_result, m_last_cache_time, clock, noAddress, firstAnswer>>

BindReturn ==
    /\ stunPc = "close"
    /\ m_fd' = Nothing
    /\ openFds' = IF m_fd = Nothing THEN openFds ELSE openFds - 1
    /\ replies' = Reachable
    /\ result' = IF ret_ok THEN result ELSE Nothing
    /\ Return
    /\ UNCHANGED <<m_params, m_last_result, m_last_cache_time, ret_ok, clock, noAddress,
                   firstAnswer>>

-----------------------------------------------------------------------------
(* The environment *)

\* An answer arrives where no socket waits for it, or is lost on the way.
Lose ==
    /\ \E r \in replies : replies' = replies \ {r}
    /\ UNCHANGED <<request, clientVars, result, ret_ok, localVars, stunPc, clock, fdVars, firstAnswer>>

Tick ==
    /\ clock < MaxClock
    /\ clock' = clock + 1
    /\ UNCHANGED <<request, clientVars, result, ret_ok, localVars, stunPc, replies, fdVars,
                   firstAnswer>>

\* The daemon dies and is started again; the kernel closes its sockets.
StunRestart ==
    /\ request' = Nothing /\ m_params' = Nothing
    /\ m_last_result' = Nothing /\ m_last_cache_time' = 0 /\ m_fd' = Nothing
    /\ result' = Nothing /\ ret_ok' = FALSE
    /\ dirty' = FALSE /\ attempt' = 0 /\ total_time' = 0 /\ sleep_time' = 1
    /\ addrs' = 0 /\ response' = Nothing
    /\ stunPc' = "idle"
    /\ replies' = Reachable
    /\ openFds' = 0 /\ noAddress' = 0 /\ firstAnswer' = FALSE
    /\ UNCHANGED clock

ClientStep ==
    \/ BindCached \/ BindUncached \/ NextAttempt \/ CreateUdpSocket \/ NoAddressLeft
    \/ SendMessage \/ SelectTimeout \/ Receive \/ LoopBreaks \/ TakeAddress \/ NoAddressTaken
    \/ BindReturn

Network == Lose \/ Tick

StunNext == (\E r \in Requests : BindEnter(r)) \/ ClientStep \/ Network \/ StunRestart

StunSpec == StunInit /\ [][StunNext]_stunVars /\ WF_stunVars(ClientStep)

-----------------------------------------------------------------------------
(* Properties *)

\* What bind promises (module PublicAddress): every call returns, refused or with the
\* address received last, which is of this call or younger than the cache time allows.
\* Attempts, exceptions, closed sockets and late answers in between change nothing of it.
Promise == INSTANCE PublicAddress WITH
    Addresses <- PublicIps,
    asked <- request, known <- m_last_result, learntAt <- m_last_cache_time,
    learnt <- request # Nothing /\ ret_ok,
    answer <- IF request = Nothing THEN result ELSE Nothing,
    now <- clock

PromiseKept == Promise!Spec

\* Whichever way bind leaves its loops - an exception out of the second attempt, a break, a
\* cached answer - the sockets it leaves open are exactly those create_udp_socket gave up
\* because the interface had no address (a leak of one descriptor each).
SocketsAccounted ==
    /\ openFds = noAddress + (IF m_fd = Nothing THEN 0 ELSE 1)
    /\ stunPc = "idle" => m_fd = Nothing

\* An address received in the first attempt is reported, whatever goes wrong in the attempts
\* that follow it (bind does not stop at the first answer).
FirstAnswerKept == stunPc = "idle" /\ firstAnswer => ret_ok /\ result # Nothing

\* StunClient.cpp:314: "if params change then we force a bind request now instead of using
\* any cached value": an address given to a caller comes from the server and the interface
\* the caller named.
AnswerOfTheseParams ==
    [][request # Nothing /\ request' = Nothing /\ result' # Nothing
         => result'.server = request.server /\ result'.iface = request.iface]_stunVars
=============================================================================
