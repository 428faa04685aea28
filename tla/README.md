# rdk-netsrvmgr: TLA+ models, checks and proofs

netsrvmgr is the network service daemon of RDK set-top boxes. It talks to other
processes over the IARM bus, drives Wi-Fi through a HAL, sets default routes
from UPnP data, and switches interfaces. Almost everything that can go wrong in
it is a matter of threads: POSIX threads with hand-made flags, mutexes and
conditions, HAL callbacks, bus handlers and shell scripts that run for seconds.
The models are about those.

Paths below are relative to `src/src/`. Abbreviations: WHU =
`services/wifi/src/wifiHalUtiles.cpp`, WSM = `services/wifi/src/wifiSrvMgr.cpp`,
ROUTE = `services/route/src/routeSrvMgr.cpp`, MAIN = `main/src/netSrvMgrMain.cpp`,
STUN = `main/src/StunClient.cpp`, CONN = `main/src/connectivity.cpp`.

## 1. Inventory

| Component | State it keeps | Operations | Hard behaviour |
|---|---|---|---|
| Lost and found (LNF) engine, WHU 1180-1480, 2130-3240, WSM 498-660 | `gWifiAdopterStatus`, `gWifiLNFStatus`, the start signal (`startLAF` under `mutexLAF`), `bStopLNFWhileDisconnected`, `bIsStopLNFWhileDisconnected`, `bLnfActivationLoop`, `mutexTriggerLAF`, the saved SSID | threads `lafConnThread`, `lafConnPrivThread`, `startLAFIfNecessary`; `triggerLostFound` with the laf library's callbacks; HAL callback `wifi_status_action`; IARM events and calls | two threads and a HAL callback share flags, most of them without a lock; the status is published seconds before the flags follow |
| Wi-Fi life cycle, WSM 377-495, WHU 1130-1180, 1960-2060, 3950-4028 | `bWiFiEnabled`, `bShutdownWifi`, thread handles, `mutexGo`/`condGo`, `mutexAPDetails`/`condAPDetails` | `setWifiEnabled`, `Start`, `Stop`/`shutdownWifi`, monitor thread, access-point threads | cancel and join of threads that hold or wait for what is then initialised anew |
| Progressive scanning, WSM 660-800 | `bStopProgressiveScanning`, the radio's frequency list | start, stop, scan thread | overlapping scans share flag and radio |
| Route manager, ROUTE | `gwList`, `gwRouteInfo`, `signalUpnpDataReady`, `messageLength`, `upnpGwyLost`, `gwSelected` | UPnP event, update thread | list edited while walked; commands that fail; updates during updates; the Wi-Fi manager clears routes behind it |
| Wi-Fi credentials, WHU 1195-1345, 1873-1923, 2039-2072, 3243-3368, WSM 130-262 | four copies of one network: `savedWiFiConnList`, `wpa_supplicant.conf`, the MFR library, NetApp.db | store on connect, read back, reconnect at boot, migrate, clear | copies drift apart on partial failure and crashes; the RAM copy has no lock |
| WPS pairing, WHU 743-935, WSM 989-1013, 1293-1340 | adopter status, `wpsConnLock` | push, PIN, cancel, IR key | polls a status that a callback writes, under a lock that `Stop` initialises anew |
| Main: interface control, IP settings, default interface (MAIN) with `src/pni_controller.sh` | marker files under `/tmp` and `/opt/persistent` | bus calls | script and calls share files without a lock |
| STUN client, STUN | socket, parameters and address of the last success | `bind` | cache, addresses and attempts in turn, late answers, exceptions |
| Connectivity check, CONN | the endpoints file | set endpoints, test | crash while the file is rewritten, deadline |
| MoCA manager | switch and interval of a logging thread | enable, disable, events | - |
| Utilities, test client | none | probes, I/O | - |

Interactions: the HAL callback writes the adopter status that the LNF threads,
WPS and the bus calls poll; a failed or lost connection and several bus events
set the start signal of `lafConnPrivThread`; `triggerLostFound` drives the HAL
through the same `connect_withSSID` as the bus calls; enabling Wi-Fi creates the
threads and disabling it ends them; the route manager reacts to UPnP events only, and
a connect to another network clears IPv6 routes it has set;
the connect callback also stores the credentials that boot and `clearSSID` read and
erase; `getPublicIP` runs the connectivity check and then the STUN client on the bus
thread.

What makes each part correct: one thread at a time drives the radio for LNF; a
stop stops; a signal is not lost; the LNF network never replaces the household's;
the status tells the truth; shutting down leaves nothing that a restart trips
over; credentials once stored are found again and once cleared stay away; a public
address is as fresh as the caller asked; tracked routes are those of the kernel and of
the current gateways; the radio is given back after scans. `PROJECT.json` lists the hazards line by line.

## 2. Modules

Build modelled: `ENABLE_IARM`, `ENABLE_LOST_FOUND`, `ENABLE_NLMONITOR`,
`USE_RDK_WIFI_HAL`, none of the XCAM/XHB1/XHC3 variants. `map` in `PROJECT.json`
gives the lines of every definition.

**LostFound** - the first `Start` of the process and everything after it, with
`confProp.wifiProps.bEnableLostFound` set.
- *State*: the flags above under the code's names (`adopter`, `lnf` for the two
  statuses, `saved` for `savedWiFiConnList`, `startLAF`), a program counter per
  thread (`pcPriv`, `pcAct`, `pcStart`, `lafPc` for the laf library on the
  calling thread, `callback` for the HAL's thread), and externally the link, the
  connection asked for, the supplicant's stored network `conf` and the queue of
  HAL reports.
- *Actions*: a thread step reaches from one lock, sleep, poll or library call to
  the next. `wifi_status_action` on a connect is two steps (`CbConnect`,
  `CbConnectDone`): the status is published before the DHCP scripts run and the
  LNF flags follow after them. Codes equal to the previous one are ignored as in
  the code. The event handlers and the calls `connect`, `saveSSID`, `clearSSID`,
  `disconnectSSID` are one step each; the HAL may refuse any request.
- *External*: the HAL (may connect or report any code of `Codes`; a code that
  `wifi_status_action` does not know, UNKNOWN here, may or may not end the
  association: `silentLoss` is the history of one that did), the laf library and its
  server (may answer with credentials or fail).
- *Left out*: allocation failure in `triggerLostFound` (it returns `ENOMEM` from
  a `bool` function), the MFR credentials at `Start`, the restart after a `Stop`
  (WifiLifecycle has it), telemetry. Timeouts of polls are a free choice.

**WifiLifecycle** - two callers of `setWifiEnabled` (bus thread, event thread), which
may be inside it at once, the steps of `Start` and of `shutdownWifi` in their order,
the monitor (`wifiConnStatusThread`), the connect callback, the access-point threads.
- *Steps*: the callback's loop on `mutexGo` is test, trylock with the signal, and
  unlock, so that it may hold `mutexGo` while `shutdownWifi` initialises it anew. The
  signal to the access-point threads and the cancel are separate, and the cancel is
  deferred to where the thread blocks (`ApDies`). `wifi_init` may fail.
- *Conditions* have the semantics of POSIX: a signal nobody waits for is lost, and
  waking needs the mutex. Initialising a mutex or condition strands who waits on it,
  and may strand who waits for it (`ShutdownUninit`).
- *History*: `overlapped`, that two calls were once under way together.
- *Left out*: a second caller that waits for `mutexGo` or `mutexAPDetails` in the very
  instant the first initialises it goes on as if the mutex had been free.

**LnfLifecycle** extends WifiLifecycle with the life of `lafConnPrivThread`: created by
`Start`, cancelled by `shutdownWifi` wherever it blocks, with or without
`mutexTriggerLAF`. What the thread does is in LostFound.

**RouteManager** (instantiated by **MCRouteManager**) - the UPnP service changes
its list (`UpnpChanges`), `_evtHandler` sets flag and length,
`getGatewayRouteDataThrd` takes the update, fetches (an answer cut off at the
announced length is no JSON), parses the reply entry by entry into `gwFullData` and
`gwList`, validates the routes one entry per step, sets the routes one gateway per
step, falls back: `setRoute` and the fallback sweep the IPv6 routes of the interfaces
when they turn autoconfiguration off and on, and the fallback renews DHCP (`renewals`
counts). `WifiClears` is `wifi_status_action` clearing the IPv6 routes of its interface
at any moment. Each shell command and bus call may fail (`Failures`); the sweeps use
netlink and are assumed to work.
History: `seen` is the last answer and `missed` that the last bus call failed; `twins`
are IPv6 addresses that one list had with two prefixes, `swept` the tracked addresses
whose route the Wi-Fi manager cleared.
Addresses are of two disjoint families. The interface of the route (one of the swept
ones), the check of the address text and the device files are left out;
`getCurrentRoute`'s search of the routing table is "some route of that family".

**ProgressiveScan** - the bus call, the stop, and the thread with its five
program points. The HAL may refuse any restriction of the radio, and to lift it, which
the code does not notice (`refused`); `told` is history: the scans that were under way
when a stop was asked for.

**InterfaceControl** - MAIN's calls `setInterfaceEnabled`, `setDefaultInterface`,
`setIPSettings`, its handler of the Wi-Fi event and its start, against the whole
of `pni_controller.sh` and the boot.
- *State*: the marker files under `/tmp` and `/opt/persistent`, the IP settings
  files, `/tmp/ani_wifi`, `wifiEnabled`, the queue of events, and externally the
  links, their addresses, the cable and where the Internet is. A bus call and the
  script are each the list of commands they have left (`call`, `run`): a shell
  command or system call is a step, and `systemctl restart` replaces the list. A
  settings file is empty from `fopen` to `fclose`, which the script's `-s` test takes
  for DHCP, and a crash in between leaves it so.
- *Actions*: one to begin each call, one per kind of command, the script's choice
  (`PniChoose`) and its connectivity test (`PniTest`), the event handler, start,
  crash, reboot, settings loader, cable.
- *Fixed*: the environment of `pni_controller.service` (PNI on, connectivity test
  on, PNI may disable Wi-Fi), the RFC for manual IP settings on. IPv6 is
  configured with IPv4. `setWifiEnabled` is one step, its two
  callers included (WifiLifecycle has the steps and the race).
- *Left out*: virtual interfaces and their link-local services, DNS files,
  dibbler, the text of addresses (invalid settings are refused and change nothing).
- *Assumed*: systemd restarts a netsrvmgr that died and runs the settings loader
  before it. The run has one caller of the bus; the theorems hold for any number.

**PublicAddress**, **StunClient**, **Connectivity**, **PublicIp** (instantiated by
**MCPublicIp**) - the public address of the device.
- *PublicAddress* is the abstract specification of `stun::client`: a request is
  answered once, refused or with the address learnt last, which was learnt for this
  request or is younger than the cache time it allows; every request is answered.
- *StunClient* is `bind`: parameters and cache, the loop of attempts with its
  arithmetic on seconds and milliseconds, resolution, one socket per address, send,
  select, receive, and a `Throw` wherever the code throws. A public IP stands for
  where it came from (server, interface, second). A socket bound to an interface has
  the server's port, so that late answers to an earlier socket reach the next one.
  `Promise == INSTANCE PublicAddress WITH ...` maps `request`, `m_last_result`,
  `m_last_cache_time` and `clock`; `PromiseKept` is the refinement, liveness included.
- *Connectivity* is CONN: the endpoints file between `fopen` and `fclose`, the
  defaults, one handle per endpoint, the verdict.
- *PublicIp* composes them on the bus thread, which serves one call at a time, and
  adds the restart of the daemon. *External*: libcurl, DNS, the network, the clock.
- *Left out*: message bytes (a datagram is one of four kinds), TCP, verbose output,
  `discover_network_access_type`, which nothing calls; an error of `select`, which
  the code ignores and only a signal handler could cause.

**WifiCredentials** (instantiated by **MCWifiCredentials**) - the four copies of the
credentials, WPS and the boot.
- *State*: `conf`/`confFile`, `db`, `mfr`, `saved`; the status; program counters of
  the boot, of the callers, of the IR thread and of `wifi_status_action`; externally
  the networks on the air, the association, what the supplicant tries, the reports.
- *Actions*: `wifi_status_action` with `storeMfrWifiCredentials` in its five steps
  (the copy of `savedWiFiConnList` is field by field, without a lock); `connect`,
  `saveSSID`, `disconnectSSID`, `clearSSID` in its four steps, the WPS calls with
  lock, wait and push; `Init` (migration from NetApp.db) and `Start`; Wi-Fi switched off
  (`Stop`, which initialises `wpsConnLock` anew whoever holds or wants it, and
  `shutdownWifi`) and on again; loss of the link, a changed access point, restart with
  or without loss of the files. Every call of the HAL, `wifi_init` included, and of the
  MFR library may fail (`Fault`); with the HAL down its calls fail and it makes no
  callback, and one under way when it goes down still runs to its end.
- *The lock*: a caller that slept for `wpsConnLock` when it was initialised finds it free
  or sleeps on, "asleep": the former holder's unlock does not wake it, later calls that
  meet at the lock may (`WpsWoken`). Others lock it though the former holder is not
  through.
- *Data*: a network is an SSID, a passphrase and a security; `SecurityMode` is the
  conversion `lastConnectedSSID` makes. `untouched`, `storing`, `cleared` are history.
  `cleared` counts a `clearSSID` that met no callback, association or request for a
  private network under way (`Nothing`), and not one with a NetApp.db that the boot
  could neither read nor remove while there was no `wpa_supplicant.conf` either: the
  next boot converts that file (WSM 135-140, 260), and the network is back.
- *Left out*: the LNF flags and threads (LostFound has them; here lost-and-found only
  connects to its network), the files of the non-secured partition. It is assumed
  that `wifi_lastConnected_Endpoint` fails exactly when the supplicant has no network.

**LostFoundProofs**, **WifiLifecycleProofs**, **RouteManagerProofs**,
**ProgressiveScanProofs**, **InterfaceControlProofs**, **PublicIpProofs**,
**WifiCredentialsProofs** - theorems (section 4).

## 3. Runs

Passing:

| Run | Shows | Bounds and why they suffice |
|---|---|---|
| `lnf_safety` | `TriggerExclusion`, `LfSsidNeverStored`, `KnownLossNoticed`, types | Activated or not, two reports, of one code of each of the six kinds `wifi_status_action` treats alike: one code, a connection, the same code again is the shortest sequence in which the memory of the last code matters. No bus events here: `lnf_liveness` has them, and the theorems hold with any number of both. One private SSID: only "private, LNF or none" is told apart. One queued report: the HAL calls back serially. |
| `lnf_liveness` | `ActivationLoopHasThread`, `StopLeavesLnf`, `StartSignalServed` | Two events or calls, each at any moment: a stop, and one before or after it that could undo it or give a signal. |
| `wifi_cycle` | `ReinitSafe` (up to the first overlap), `CallbackReturns`, `UpdateServed`, types | Enable, disable, enable by two threads, one after the other with two connects (two access-point threads of which one handle is forgotten, and a callback that meets the monitor in its timed wait), or overlapping with fewer: `MaxInputs` counts an overlap as two. |
| `route_update` | `TrackedRoutesInstalled`, `NoStaleRoute`, `LossCleanedUp`, `LastUpdateFetched`, types | Three changes: routes set, some removed, set again. Replies have up to three gateways, both families, a changed prefix, one address with two prefixes in one list, a device that is no gateway, no list and no JSON. |
| `iface_control` | `DisallowedIsDown`, `OneInterfaceActive`, `SettingsApplied`, `ControllerRests`, types | Two calls and one fault (crash, reboot, cable) at any step: a call against the run an earlier call started, with the script or the daemon killed anywhere. With and without the RFC; the Internet behind either interface. Two events: the one being late and the one that corrects it. |
| `public_ip` | `PromiseKept` (the refinement), `SocketsAccounted`, `FirstAnswerKept`, `VerdictSound`, `BusServed`, types | Two calls: one that fills the cache or leaves a late answer, one that meets it. A server with two addresses and one with none or one; with an interface, without, and an unknown one; timeouts of one attempt and of three of which the last is cut short; ages below, at and above the cache time. Lists of no, one and two endpoints. |
| `wifi_pairing` | `StoredWhenNew`, `ClearedStaysCleared`, `Reconnects`, `WpsReturns`, types | Three inputs, at most two of them calls and at most two failures, losses or restarts: enough for connect, clear, restart, and for a migration that crashes and a boot after it, or for a switch-off in the middle of a pairing. One SSID with two passphrases and securities: copies differ by passphrase and mode, and an SSID that is not saved is the state after every restart. A bus thread and the IR thread contend for the WPS lock. |

Violations, each a sentence of the repository's own comments or messages that the
code does not keep (quoted under `findings`):

| Run | What happens |
|---|---|
| `wifi_join` | `wifiConnStatusThread` waits on `condGo` without a predicate; if `shutdownWifi` signals first, its join never ends. |
| `wifi_lock_left` (LnfLifecycle) | The LNF thread is cancelled with `mutexTriggerLAF` held; it is the one mutex not initialised anew, so LNF never runs again after the next `Start`. |
| `route_leak` | `delRouteList` passes over every second entry: the route stays in the kernel and is forgotten. |
| `stun_cache` | `bind` with new parameters fails; the same call again finds them unchanged and answers with the address of the old server or interface. |
| `scan_stop` | A scan is told to stop; another scan begins and clears the flag they share; the first goes on with its next band. |

`CHECK_DEADLOCK FALSE` is in every configuration: with the bounds used up and
every thread asleep the daemon may rest.

Seen while modelling, without a property of their own: `lafConnThread`'s exit at
WHU 2946-2951 obeys a stop without reporting it; `gWifiLNFStatus` can read
CONNECTED_PRIVATE on the lost-and-found network in the window of
`wifi_status_action` (WHU 2611); access-point and `startLAFIfNecessary` threads
survive `shutdownWifi`; a HAL code that `wifi_status_action` does not know is logged as
DISCONNECTED and leaves the status CONNECTED (WHU 1597), which is why
`KnownLossNoticed` speaks of known codes; a cancelled access-point thread dies with
`mutexAPDetails` locked, if its cancel takes effect after `shutdownWifi` initialised the
mutex for good (WHU 3985), and the next one's updates wait for it;
`isStopLNFWhileDisconnected` can answer true while the other LNF thread is in `triggerLostFound`, since both write one flag about
themselves (WHU 2860); the route event is empty when the routes left are not of
the family set last (ROUTE 1146); overlapping scans restrict the radio for each
other, and a refusal to lift the restriction goes unnoticed (WSM 771);
`startLAFIfNecessary` sets `bPrivConnectionLost` after the signal it belongs to; `laf_wifi_disconnect` returns `EPERM` when the HAL disconnects; enabling Ethernet
can leave its link down, when the daemon dies between marker and link (MAIN
1276-1277) or an older run of the script takes the link down after the call
brought it up, because the script takes a link that is down for one without a
cable and only `try_ethernet` brings it up; preferring Wi-Fi is refused while PNI
itself has turned the Wi-Fi link off (MAIN 1187); the script may move the default
route to Wi-Fi after `validate_interface_can_be_disabled` looked (MAIN 1299).

Also, where a comment says otherwise: `setWifiEnabled` tests and sets its flag
without a lock, so that a shutdown can initialise `mutexGo` under the monitor of a
Start that overlaps it, and when an older Stop ends after a newer Start the flag says
enabled with the HAL down (WSM 389-407; `wifiSrvMgrIarmIf.h:64` "Enable wifi adapter on the
box"); an update that removes one route and brings a new gateway sets no route for it
(ROUTE 1062; `routeSrvMgr.h:126`); a stop of progressive scanning is also lost on a
scan whose thread is created and has not run yet (WSM 695).

Routes: an IPv6 address that one list has with two prefixes is tracked twice for its
one route of the kernel; a removal by address deletes that route and perhaps the entry
that is still good, and with an entry left the update counts as "existing route are
fine" (ROUTE 1064) and sets none. When the Wi-Fi manager clears IPv6 routes on a move to
another network (WHU 1225), the route manager does not learn of it until an update sets
them again. After a bus call that failed the list is not fetched again until the next
event.

IP settings: between `fopen` and `fclose` of the settings file the script reads DHCP;
the call's restart of the script puts it right. If the daemon dies in between, old and
new settings are lost and the interface comes back with DHCP, as its file says.

STUN and connectivity: a timeout below 2000 allows one attempt, since a wait counts
as 2000 and a sleep as its seconds; with an interface given, the second address of a
server cannot be tried (its socket needs the port the first one has); answers are
matched neither by transaction nor by sender; the active interface that
`getPublicIP` looks up is not used; a socket is lost whenever the interface has no
address (STUN 485); a failing `curl_multi_init` reports the device connected.

Credentials: the MFR library is updated only when the callback's SSID is not the
saved one, so that a new passphrase of the same SSID, a `saveSSID` before the
connect, or a failed SET leaves it behind until a restart; data without a mode counts
as the same though the access point moved to WPA3; a callback racing `clearSSID` may
put the network back, or store one network's SSID with another's passphrase;
`clearSSID` on the lost-and-found network keeps the RAM and MFR copies, and ignores
that erasing failed; `saveSSID` writes RAM only, where WSM 1030 and 1234 speak of
future sessions and of pairing; NetApp.db is removed though its conversion failed,
and a crash between `fopen` and `fclose` of the new file loses its network; one that
could neither be read nor removed is converted after a `clearSSID`; a WPS
call's wait also ends when another caller's `connect` changes the status; `Stop`
initialises `wpsConnLock` while a WPS call may hold it for its wait of three seconds
(WSM 501): a call that slept for it may sleep for ever, and another may push the button
beside the holder; `shutdownWifi` empties the RAM copy a callback may be storing, and
the MFR library then gets a part of it.

**Fairness.** Weak fairness of each thread: a created thread runs, sleeps and
timed waits end, the laf library returns (it has timeouts), the bus delivers,
shell commands end, systemd starts the services it should, `select` and libcurl have
timeouts, and the supplicant comes to an end with what it tries.
Strong fairness only of taking a mutex that others keep releasing
(`mutexTriggerLAF`, `mutexAPDetails`, and `mutexGo` in the callback's trylock loop,
whose polls are a second apart while others hold it for a few instructions): the
holders release it for sleeps of seconds. Nothing is assumed of the network,
the HAL's reports or users.

## 4. Proofs

Every invariant and every action property of the passing runs is also a theorem, for
every value of the constants: any number of networks, gateways, servers, callers,
calls, faults and restarts. The runs found out that the formulas hold; the theorems
say that the bounds of section 3 hide nothing.

**Assumptions.** The provers use the modules' named assumptions and nothing else, and
TLC evaluates each of them in a run.

| Assumption | Says |
|---|---|
| `BoundAssumption`, `StunBounds`, `ConnAssumption` | bounds are naturals, sets of choices have the right elements, callers are finitely many, there are three default endpoints |
| `SsidAssumption` | the LNF SSID is no private one, `NoSsid` is neither |
| `RouteAssumption` | IPv4 and IPv6 addresses differ; replies are lists of gateways, no list or no JSON |
| `ReplyAssumption` | the UPnP service may have no list, as before its first answer |
| `InterfaceAssumption` | a static setting is neither "dhcp" nor "none" |
| `RequestAssumption`, `ParamAssumption`, `NothingAssumption` | timeouts are naturals, a request names a server the resolver knows of, `Nothing` is no value |
| `CredentialAssumption` | networks have an SSID that is not empty and not LNF's, and a passphrase |

**Theorems and their arguments.** No invariant below is inductive alone, except where
said.

*LostFoundProofs*
- `TypeCorrect`: one lemma per group of actions.
- `TriggerExclusionHolds`: inductive together with `TypeOK`. The two conjuncts on the
  mutex give that a thread at "lock" finds it free only if the other is outside; the
  third, that `lafPc` is idle whenever a thread calls the library.
- `ActivationLoopHolds`: each return of `lafConnThread` goes through the reset.
- `LfSsidNeverStoredHolds`: inductive only as a conjunction. `saved` is re-read from
  `conf`, `conf` is written only by a connect that saves (lemma `ConnectStores`), which
  for the LF SSID the laf callbacks never ask, and a manual connect stores `saved`.
- `KnownLossNoticedHolds`: `RealInv`. Without an association, unless an unknown code ended
  it (`silentLoss`), either a code of a loss is queued behind every connect, or the status
  is not CONNECTED and no connect is queued (`LossAnnounced`); and while the status is
  CONNECTED the remembered code is none of a loss (`PrevHarmless`), so that
  `wifi_status_action` cannot take the announcement for a repetition. This is where the
  reset of `connCode_prev_state` on a connect is needed.

*WifiLifecycleProofs*
- `TypeCorrect`.
- `ReinitIsSafe`, for any number of callers, up to the first time two of them overlap:
  until then at most one is inside `setWifiEnabled` (`Alone`), only the monitor created
  last can be alive (`LastOnly`), and a caller between join and `uninit`, or one that finds
  Wi-Fi off, finds none alive (`CallerInv`, `OffInv`). The limit is the code's:
  `setWifiEnabled` tests and sets its flag without a lock (WSM 389), and TLC shows a
  `Start` creating its monitor after the `Stop` that overlaps it has joined.

*RouteManagerProofs*
- `Invariance` of `IInv == TypeOK /\ RoutesInv /\ GatewaysInv /\ LoopInv /\ SweepInv`;
  `TypeCorrect`, `RoutesInstalled`, `RoutesFresh`, `LossIsCleanedUp` follow, whatever
  lists were sent. `LoopInv` is the invariant of the loop that removes from the list it
  walks: all entries before the current one are valid in the current list, or of an
  address excepted (`twins`). That removal by address takes the entry meant rests on one
  entry per address (`Tracked`); that routes set after the validation are valid rests on
  `GatewaysInv` (an address with two prefixes in the list is excepted). `SweepInv` says why
  neither sweep takes a tracked route away: unless a preferred gateway is selected, there
  are IPv6 routes and tracked routes only while `gwSelected`; and why the fallback sweeps
  and renews once: the loss is noted together with the renewal. The lemmas `FirstRoute` and
  `Removal` say what the search and the erasure do to a list.

*ProgressiveScanProofs*
- `TypeCorrect`; `RadioRestoredHolds`: the last scan to leave lifts the restriction, if the
  HAL obeys.

*InterfaceControlProofs*
- `Invariance` of `IInv`: at every moment a restart of the script is certain to come
  (`Pending`: the daemon is down and will be started, or a call has `launch` as its last
  command), or the script has just been restarted, or the rest of the script is `Good`:
  for every forbidden interface the commands left and the effects had take it down, and
  some allowed interface is made the active one, with nothing left that would undo it
  (`Reaches`). "Effects had" counts events still on the bus (`WifiWillBe`). The proof
  goes command by command: a command of the script moves from "to do" to "done" and
  undoes no other (`Carried`); a call's command, a late event or a killed script are
  harmless because a restart is then pending. A call that will not restart the script
  has changed nothing but the settings file (`CallInv`); while a settings file is being
  written the script's reading of it need not last (`Writing`).
- `DisallowedStaysDown`, `OneIsActive`, `SettingsAreApplied`: with nothing left to do
  `Good` is the property. `TypeCorrect` needs none of this.
- TLC checked `IInv` with two callers, two calls and a fault before the proof.

*PublicIpProofs*
- `Invariance` of `StunInv /\ ConnInv /\ BusInv`, each preserved by the steps of its
  part and untouched by the others (`PartsStep`); `TypeCorrect`,
  `SocketsAccountedHolds`, `FirstAnswerKeptHolds` follow. `StunInv` ties the return
  value to the result and to the address learnt last, the parameters kept to those of
  the call, and the loop counters to the program points.
- `VerdictSoundHolds`: while handles are polled there are at least two endpoints
  (`ConnInv`), so "all but one" is at least one; the lemma `VerdictCounts` is about
  cardinalities.
- `PromiseSafe`: the initial states of StunClient are PublicAddress's, and under `StunInv`
  each step is a step of it or a stutter (`PromiseStep`, one case per action). This is
  `PromiseKept` without the liveness of PublicAddress.

*WifiCredentialsProofs*
- `TypeCorrect`, with `FileOpen`: a boot that writes the new file has opened it.
- `NewIsStored`: `StoreInv` says for each program point of `storeMfrWifiCredentials` what an
  undisturbed callback has established there.
- `ClearedIsFinal`: `ClearInv`. After a complete `clearSSID` nothing in the device can bring
  a network back (`Bare`): every copy is empty, NetApp.db is gone or will not be
  converted, and no request, WPS session, association, queued report or callback for a
  private network is under way, and this survives restarts and switching Wi-Fi off and
  on. Looking for `Bare` showed the case of NetApp.db above, which the run's bounds had
  not reached.

**Only model-checked.** Liveness under fairness is beyond the prover: `StopLeavesLnf`,
`StartSignalServed`, `CallbackReturns`, `UpdateServed`, `LastUpdateFetched`,
`ControllerRests`, `BusServed`, `Reconnects`, `WpsReturns` and the liveness half of
`PromiseKept`. The five violations are counterexamples of TLC.

## 5. Not modelled, and the plan

Order of what comes next:
1. Proofs of the safety facts on which the liveness properties rest, for any bounds:
   a UPnP change the route thread has not seen is announced or being fetched
   (`LastUpdateFetched`); a start signal is set whenever the LNF thread should be awake.
2. The route manager against an abstract specification, "the set of routes follows the
   set of gateways, except after a partial removal", with the refinement proved.
3. The default interface told to the bus (MAIN 272-340, `detectDefaultInterfaceChange`)
   inside InterfaceControl, once its state space allows it: one remembered name, and
   the question whether the last event names the interface in use.
4. `valid_ipv4_netmask` (MAIN 1439) as an operator against a reference definition.

New questions replace runs whose answer a theorem has made redundant or the list in
section 3 already tells.

Left out: plain scans and the list of networks (one HAL call and its formatting, no
state kept; a plain scan during a progressive one sees its frequency list), the MoCA
manager (a switch and an interval of a logging thread), `netSrvCurl.cpp`, utilities
(I/O whose outcomes are choices of the actions that call them).

Left out for good: logging, telemetry and the getters that copy HAL values into
bus structures; the test client (a menu over the bus calls); build files.
