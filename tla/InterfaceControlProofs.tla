------------------------ MODULE InterfaceControlProofs ------------------------
(***************************************************************************)
(* Theorems about InterfaceControl: whatever calls, runs of the script,    *)
(* crashes and boots are interleaved, for any number of bus threads, calls *)
(* and failures, the box that has come to rest is in a consistent state.   *)
(*                                                                         *)
(* The argument.  A call that has changed a marker, a link or an address   *)
(* still has the restart of the script before it (Pending), and so has a   *)
(* daemon that is down.  Otherwise the script has just been restarted, or  *)
(* what it has left to do leads to a consistent state (Good): every        *)
(* command the state needs is still to come or has had its effect, and no  *)
(* command that would spoil it is to come.                                 *)
(***************************************************************************)
EXTENDS InterfaceControl, SequenceTheorems, TLAPS

\* The commands a list still has.
Todo(list) == {list[k] : k \in DOMAIN list}

\* No a comes after a b.
Before(list, a, b) == \A j, k \in DOMAIN list : list[j] = b /\ list[k] = a => k < j

LinkCmd(i, value) == Cmd("link", i, value)
EventCmd(value) == Cmd("event", "WIFI", value)
AniCmd(value) == Cmd("ani", "WIFI", value)
ConfCmd(i) == Cmd("conf", i, TRUE)
DeconfCmd(i) == Cmd("deconf", i, TRUE)
TestCmd(i) == Cmd("test", i, TRUE)

\* What a script may have left once it has chosen.
ScriptCommands ==
    {cmd \in Commands :
        \/ \E i \in Ifaces, v \in BOOLEAN : cmd = LinkCmd(i, v)
        \/ \E v \in BOOLEAN : cmd = EventCmd(v) \/ cmd = AniCmd(v)
        \/ \E i \in Ifaces : cmd = ConfCmd(i) \/ cmd = DeconfCmd(i) \/ cmd = TestCmd(i)
        \/ cmd = Cmd("saved", "pni_wifi", FALSE) \/ cmd = Cmd("marker", "pni_wifi", FALSE)}

\* What wifiEnabled is after the events on the bus.
WifiWillBe(value) == IF events = <<>> THEN wifiEnabled = value ELSE events[Len(events)] = value

\* A call is about to write the settings of interface i, which it will do or else empty the
\* file, or it has done so and not yet looked at the default route.
Writing(c, i) ==
    /\ call[c] # <<>>
    /\ \/ Head(call[c]) = Cmd("default", i, TRUE)
       \/ Head(call[c]).op = "settings" /\ Head(call[c]).arg = i /\ Head(call[c]).ip # "dhcp"

\* Interface i has the settings of its file, or will be configured anew.
Configured(i) == cfgd[i] # "none" /\ (cfgd[i] = file[i] \/ \E c \in Callers : Writing(c, i))

\* A command of the script has had its effect, and nothing has undone it.
Done(cmd) ==
    /\ cmd.op = "ani" => ani = cmd.value
    /\ cmd.op = "link" => IF cmd.value THEN cmd.arg \in up ELSE cmd.arg \notin up
    /\ cmd.op = "event" => WifiWillBe(cmd.value)
    /\ cmd.op = "deconf" => cfgd[cmd.arg] = "none"
    /\ cmd.op = "conf" => Configured(cmd.arg)

\* What it takes to make interface i the active one, and what would spoil it.
Needs(i) ==
    IF i = "WIFI"
    THEN {AniCmd(TRUE), LinkCmd("WIFI", TRUE), EventCmd(TRUE), DeconfCmd("ETHERNET"), ConfCmd("WIFI")}
    ELSE {AniCmd(FALSE), LinkCmd("ETHERNET", TRUE), DeconfCmd("WIFI"), ConfCmd("ETHERNET")}
Spoils(i) ==
    IF i = "WIFI"
    THEN {AniCmd(FALSE), LinkCmd("WIFI", FALSE), EventCmd(FALSE), ConfCmd("ETHERNET"), DeconfCmd("WIFI")}
    ELSE {AniCmd(TRUE), LinkCmd("ETHERNET", FALSE), ConfCmd("WIFI"), DeconfCmd("ETHERNET")}

\* What takes interface i down (value FALSE), or would bring it up (TRUE).
Switch(i, value) ==
    IF i = "WIFI" THEN {LinkCmd("WIFI", value), EventCmd(value)} ELSE {LinkCmd("ETHERNET", value)}

Reaches(needs, spoils) ==
    /\ spoils \cap Todo(run) = {}
    /\ \A cmd \in needs : cmd \in Todo(run) \/ Done(cmd)

\* The script leaves interface i down; it leaves interface i as the active one.
Off(i) == Reaches(Switch(i, FALSE), Switch(i, TRUE))
On(i) == /\ Reaches(Needs(i), Spoils(i))
         /\ Before(run, LinkCmd(i, TRUE), ConfCmd(i))
         /\ LinkCmd(i, TRUE) \in Todo(run) => ConfCmd(i) \in Todo(run)

Forbidden(i) == Disallowed(i) \in tmp

Good ==
    /\ Todo(run) \subseteq ScriptCommands
    /\ \A i \in Ifaces : Forbidden(i) => Off(i)
    /\ ~AllDisallowed => \E i \in Ifaces : ~Forbidden(i) /\ On(i)
    /\ \A i, j \in Ifaces : TestCmd(i) \in Todo(run) => ~Forbidden(j)

\* A call that will certainly restart the script.
Committed(list) ==
    /\ list # <<>> /\ list[Len(list)].op = "launch"
    /\ \A k \in DOMAIN list : /\ list[k].op \notin {"settings", "default"}
                              /\ list[k].op = "launch" => k = Len(list)

Launch == Cmd("launch", "", TRUE)
Rewrite(i, s) == <<Write(i, s), Cmd("default", i, TRUE), DeconfCmd(i), Launch>>
Reconfigure(i) == <<Cmd("default", i, TRUE), DeconfCmd(i), Launch>>

\* Any other call has changed nothing, or only the settings file.
CallInv(c) ==
    \/ call[c] = <<>> \/ Committed(call[c])
    \/ \E i \in Ifaces : \/ call[c] = Reconfigure(i)
                         \/ \E s \in Settings \cup {"dhcp"} : call[c] = Rewrite(i, s)

Pending == ~alive \/ \E c \in Callers : Committed(call[c])

Settling == Pending \/ run = Restarted \/ Good

-----------------------------------------------------------------------------
(* Lists of commands. *)

LEMMA CmdFields ==
    \A op, arg, value : LET cmd == Cmd(op, arg, value)
                        IN cmd.op = op /\ cmd.arg = arg /\ cmd.value = value /\ cmd.ip = "dhcp"
BY DEF Cmd

LEMMA TodoTail ==
    ASSUME NEW S, NEW list \in Seq(S), list # <<>>
    PROVE  /\ Todo(list) = {Head(list)} \cup Todo(Tail(list))
           /\ Todo(list) \subseteq S /\ Tail(list) \in Seq(S) /\ Head(list) \in S
<1>1. \A k \in DOMAIN list : list[k] = Head(list) \/ list[k] \in Todo(Tail(list))
  <2> TAKE k \in DOMAIN list
  <2>1. CASE k = 1
    BY <2>1
  <2>2. CASE k # 1
    <3>1. k - 1 \in DOMAIN Tail(list) /\ Tail(list)[k - 1] = list[k]
      BY <2>2
    <3> QED BY <3>1 DEF Todo
  <2> QED BY <2>1, <2>2
<1>2. \A k \in DOMAIN Tail(list) : k + 1 \in DOMAIN list /\ Tail(list)[k] = list[k + 1]
  OBVIOUS
<1>3. 1 \in DOMAIN list /\ Head(list) = list[1]
  OBVIOUS
<1>4. Todo(list) \subseteq S /\ Tail(list) \in Seq(S) /\ Head(list) \in S
  BY DEF Todo
<1>5. Todo(list) \subseteq {Head(list)} \cup Todo(Tail(list))
  BY <1>1 DEF Todo
<1>6. Todo(Tail(list)) \subseteq Todo(list)
  BY <1>2 DEF Todo
<1>7. Head(list) \in Todo(list)
  BY <1>3 DEF Todo
<1> QED BY <1>4, <1>5, <1>6, <1>7

LEMMA TodoConcat ==
    ASSUME NEW S, NEW s \in Seq(S), NEW t \in Seq(S)
    PROVE  s \o t \in Seq(S) /\ Todo(s \o t) = Todo(s) \cup Todo(t)
<1>1. s \o t \in Seq(S) /\ Len(s \o t) = Len(s) + Len(t)
  OBVIOUS
<1>2. \A k \in DOMAIN s : k \in DOMAIN (s \o t) /\ (s \o t)[k] = s[k]
  OBVIOUS
<1>3. \A k \in DOMAIN t : k + Len(s) \in DOMAIN (s \o t) /\ (s \o t)[k + Len(s)] = t[k]
  OBVIOUS
<1>4. \A k \in DOMAIN (s \o t) : \/ k \in DOMAIN s /\ (s \o t)[k] = s[k]
                                 \/ k - Len(s) \in DOMAIN t /\ (s \o t)[k] = t[k - Len(s)]
  OBVIOUS
<1>5. Todo(s) \subseteq Todo(s \o t)
  BY <1>2 DEF Todo
<1>6. Todo(t) \subseteq Todo(s \o t)
  BY <1>3 DEF Todo
<1>7. Todo(s \o t) \subseteq Todo(s) \cup Todo(t)
  BY <1>4 DEF Todo
<1> QED BY <1>1, <1>5, <1>6, <1>7

LEMMA TodoTuples ==
    /\ Todo(<<>>) = {}
    /\ \A a : Todo(<<a>>) = {a}
    /\ \A a, b : Todo(<<a, b>>) = {a, b}
<1>1. Todo(<<>>) = {}
  BY DEF Todo
<1>2. \A a : Todo(<<a>>) = {a}
  BY DEF Todo
<1>3. \A a, b : Todo(<<a, b>>) = {a, b}
  BY DEF Todo
<1> QED BY <1>1, <1>2, <1>3

LEMMA TypedTuples ==
    ASSUME NEW S
    PROVE  /\ <<>> \in Seq(S)
           /\ \A a \in S : <<a>> \in Seq(S)
           /\ \A a, b \in S : <<a, b>> \in Seq(S)
           /\ \A a, b, c \in S : <<a, b, c>> \in Seq(S)
           /\ \A a, b, c, d \in S : <<a, b, c, d>> \in Seq(S)
<1>1. <<>> \in Seq(S)
  OBVIOUS
<1>2. \A a \in S : <<a>> \in Seq(S)
  OBVIOUS
<1>3. \A a, b \in S : <<a, b>> \in Seq(S)
  OBVIOUS
<1>4. \A a, b, c \in S : <<a, b, c>> \in Seq(S)
  OBVIOUS
<1>5. \A a, b, c, d \in S : <<a, b, c, d>> \in Seq(S)
  OBVIOUS
<1> QED BY <1>1, <1>2, <1>3, <1>4, <1>5

LEMMA TailOfFour == ASSUME NEW a, NEW b, NEW c, NEW d PROVE Tail(<<a, b, c, d>>) = <<b, c, d>>
OBVIOUS

LEMMA BeforeAbsent ==
    ASSUME NEW list, NEW a, NEW b, a \notin Todo(list) \/ b \notin Todo(list)
    PROVE  Before(list, a, b)
BY DEF Before, Todo

LEMMA BeforeConcat ==
    ASSUME NEW S, NEW s \in Seq(S), NEW t \in Seq(S), NEW a, NEW b,
           Before(s, a, b), Before(t, a, b), b \notin Todo(s) \/ a \notin Todo(t)
    PROVE  Before(s \o t, a, b)
<1> SUFFICES ASSUME NEW j \in DOMAIN (s \o t), NEW k \in DOMAIN (s \o t), (s \o t)[j] = b, (s \o t)[k] = a
             PROVE  k < j
  BY DEF Before
<1>1. /\ \/ j \in DOMAIN s /\ s[j] = b
         \/ j - Len(s) \in DOMAIN t /\ t[j - Len(s)] = b
      /\ \/ k \in DOMAIN s /\ s[k] = a
         \/ k - Len(s) \in DOMAIN t /\ t[k - Len(s)] = a
  OBVIOUS
<1>2. CASE j \in DOMAIN s /\ s[j] = b /\ k \in DOMAIN s /\ s[k] = a
  BY <1>2 DEF Before
<1>3. CASE j - Len(s) \in DOMAIN t /\ t[j - Len(s)] = b /\ k - Len(s) \in DOMAIN t /\ t[k - Len(s)] = a
  <2>1. k - Len(s) < j - Len(s)
    BY <1>3 DEF Before
  <2> QED BY <2>1
<1>4. CASE j - Len(s) \in DOMAIN t /\ k \in DOMAIN s
  BY <1>4
<1>5. CASE j \in DOMAIN s /\ s[j] = b /\ k - Len(s) \in DOMAIN t /\ t[k - Len(s)] = a
  BY <1>5 DEF Todo
<1> QED BY <1>1, <1>2, <1>3, <1>4, <1>5

LEMMA BeforeTail ==
    ASSUME NEW S, NEW list \in Seq(S), list # <<>>, NEW a, NEW b, Before(list, a, b)
    PROVE  /\ Before(Tail(list), a, b)
           /\ Head(list) = b => a \notin Todo(Tail(list)) 
<1>1. \A k \in DOMAIN Tail(list) : k + 1 \in DOMAIN list /\ Tail(list)[k] = list[k + 1]
  OBVIOUS
<1>2. Before(Tail(list), a, b)
  <2> SUFFICES ASSUME NEW j \in DOMAIN Tail(list), NEW k \in DOMAIN Tail(list),
                      Tail(list)[j] = b, Tail(list)[k] = a
               PROVE  k < j
    BY DEF Before
  <2>1. k + 1 < j + 1
    BY <1>1 DEF Before
  <2> QED BY <2>1
<1>3. ASSUME Head(list) = b, NEW k \in DOMAIN Tail(list), Tail(list)[k] = a PROVE FALSE
  <2>1. 1 \in DOMAIN list /\ list[1] = b /\ k + 1 \in DOMAIN list /\ list[k + 1] = a /\ k \in Nat /\ k >= 1
    BY <1>1, <1>3
  <2>2. k + 1 < 1
    BY <2>1 DEF Before
  <2> QED BY <2>1, <2>2
<1> QED BY <1>2, <1>3 DEF Todo
-----------------------------------------------------------------------------
(* What the script's parts have to do. *)

\* A script that has all before it to make interface i the active one.
Activates(list, i) ==
    /\ list \in Seq(ScriptCommands)
    /\ Needs(i) \subseteq Todo(list) /\ Spoils(i) \cap Todo(list) = {}
    /\ Before(list, LinkCmd(i, TRUE), ConfCmd(i))

\* And one that has all before it to take interface i down.
Deactivates(list, i) == Switch(i, FALSE) \subseteq Todo(list) /\ Switch(i, TRUE) \cap Todo(list) = {}

LEMMA ScriptTypes ==
    /\ \A i \in Ifaces, v \in BOOLEAN : LinkCmd(i, v) \in ScriptCommands
    /\ \A v \in BOOLEAN : EventCmd(v) \in ScriptCommands
    /\ \A v \in BOOLEAN : AniCmd(v) \in ScriptCommands
    /\ \A i \in Ifaces : ConfCmd(i) \in ScriptCommands
    /\ \A i \in Ifaces : DeconfCmd(i) \in ScriptCommands
    /\ \A i \in Ifaces : TestCmd(i) \in ScriptCommands
    /\ Cmd("saved", "pni_wifi", FALSE) \in ScriptCommands
    /\ Cmd("marker", "pni_wifi", FALSE) \in ScriptCommands
    /\ ScriptCommands \subseteq Commands
<1> DEFINE Ops == {"link", "event", "ani", "conf", "deconf", "test", "saved", "marker"}
<1>1. \A op \in Ops, arg \in Ifaces \cup Markers, value \in BOOLEAN : Cmd(op, arg, value) \in Commands
  BY DEF Cmd, Commands
<1>2. /\ \A i \in Ifaces, v \in BOOLEAN : LinkCmd(i, v) \in Commands
      /\ \A v \in BOOLEAN : EventCmd(v) \in Commands /\ AniCmd(v) \in Commands
      /\ \A i \in Ifaces : ConfCmd(i) \in Commands /\ DeconfCmd(i) \in Commands /\ TestCmd(i) \in Commands
      /\ Cmd("saved", "pni_wifi", FALSE) \in Commands /\ Cmd("marker", "pni_wifi", FALSE) \in Commands
  BY <1>1 DEF LinkCmd, EventCmd, AniCmd, ConfCmd, DeconfCmd, TestCmd, Ifaces, Markers
<1>3. \A i \in Ifaces, v \in BOOLEAN : LinkCmd(i, v) \in ScriptCommands
  BY <1>2 DEF ScriptCommands
<1>4. /\ \A v \in BOOLEAN : EventCmd(v) \in ScriptCommands
      /\ \A v \in BOOLEAN : AniCmd(v) \in ScriptCommands
  BY <1>2 DEF ScriptCommands
<1>5. /\ \A i \in Ifaces : ConfCmd(i) \in ScriptCommands
      /\ \A i \in Ifaces : DeconfCmd(i) \in ScriptCommands
      /\ \A i \in Ifaces : TestCmd(i) \in ScriptCommands
  BY <1>2 DEF ScriptCommands
<1>6. Cmd("saved", "pni_wifi", FALSE) \in ScriptCommands /\ Cmd("marker", "pni_wifi", FALSE) \in ScriptCommands
  BY <1>2 DEF ScriptCommands
<1>7. ScriptCommands \subseteq Commands
  BY DEF ScriptCommands
<1> QED BY <1>3, <1>4, <1>5, <1>6, <1>7

LEMMA ScriptConcat ==
    \A s, t \in Seq(ScriptCommands) :
        s \o t \in Seq(ScriptCommands) /\ Todo(s \o t) = Todo(s) \cup Todo(t)
BY TodoConcat

\* A part without command b before a part, or a part without a after one, keeps the order.
LEMMA ScriptBefore ==
    \A s, t \in Seq(ScriptCommands), a, b \in ScriptCommands :
        /\ b \notin Todo(s) /\ Before(t, a, b) => Before(s \o t, a, b)
        /\ a \notin Todo(t) /\ Before(s, a, b) => Before(s \o t, a, b)
<1> TAKE s, t \in Seq(ScriptCommands), a, b \in ScriptCommands
<1>1. ASSUME b \notin Todo(s), Before(t, a, b) PROVE Before(s \o t, a, b)
  <2>1. Before(s, a, b)
    BY <1>1, BeforeAbsent
  <2> QED BY <1>1, <2>1, BeforeConcat
<1>2. ASSUME a \notin Todo(t), Before(s, a, b) PROVE Before(s \o t, a, b)
  <2>1. Before(t, a, b)
    BY <1>2, BeforeAbsent
  <2> QED BY <1>2, <2>1, BeforeConcat
<1> QED BY <1>1, <1>2

LEMMA WifiStateScript ==
    ASSUME NEW v \in BOOLEAN
    PROVE  /\ set_wifi_state(v) \in Seq(ScriptCommands)
           /\ Todo(set_wifi_state(v)) = {LinkCmd("WIFI", v), EventCmd(v)}
<1>1. LinkCmd("WIFI", v) \in ScriptCommands /\ EventCmd(v) \in ScriptCommands
  BY ScriptTypes DEF Ifaces
<1>2. set_wifi_state(v) = <<LinkCmd("WIFI", v), EventCmd(v)>>
  BY DEF set_wifi_state, LinkCmd, EventCmd
<1>3. set_wifi_state(v) \in Seq(ScriptCommands)
  BY <1>1, <1>2, TypedTuples
<1> QED BY <1>2, <1>3, TodoTuples

LEMMA TryWifiScript ==
    ASSUME NEW p \in BOOLEAN
    PROVE  /\ try_wifi(p) \in Seq(ScriptCommands)
           /\ Todo(try_wifi(p)) = {AniCmd(TRUE), LinkCmd("WIFI", TRUE), EventCmd(TRUE),
                                   DeconfCmd("ETHERNET"), ConfCmd("WIFI")}
                                  \cup (IF p THEN {TestCmd("WIFI")} ELSE {})
           /\ Before(try_wifi(p), LinkCmd("WIFI", TRUE), ConfCmd("WIFI"))
<1> DEFINE first == <<AniCmd(TRUE)>>
           second == set_wifi_state(TRUE)
           third == <<DeconfCmd("ETHERNET"), ConfCmd("WIFI")>>
           fourth == IF p THEN <<TestCmd("WIFI")>> ELSE <<>>
<1>1. try_wifi(p) = ((first \o second) \o third) \o fourth
  BY DEF try_wifi, AniCmd, DeconfCmd, ConfCmd, TestCmd
<1>2. /\ AniCmd(TRUE) \in ScriptCommands /\ DeconfCmd("ETHERNET") \in ScriptCommands
      /\ ConfCmd("WIFI") \in ScriptCommands /\ TestCmd("WIFI") \in ScriptCommands
      /\ LinkCmd("WIFI", TRUE) \in ScriptCommands
  BY ScriptTypes DEF Ifaces
<1>3. /\ first \in Seq(ScriptCommands) /\ second \in Seq(ScriptCommands)
      /\ third \in Seq(ScriptCommands) /\ fourth \in Seq(ScriptCommands)
  BY <1>2, TypedTuples, WifiStateScript
<1>4. /\ Todo(first) = {AniCmd(TRUE)}
      /\ Todo(second) = {LinkCmd("WIFI", TRUE), EventCmd(TRUE)}
      /\ Todo(third) = {DeconfCmd("ETHERNET"), ConfCmd("WIFI")}
      /\ Todo(fourth) = IF p THEN {TestCmd("WIFI")} ELSE {}
  BY TodoTuples, WifiStateScript
<1> HIDE DEF first, second, third, fourth
<1>5. first \o second \in Seq(ScriptCommands) /\ Todo(first \o second) = Todo(first) \cup Todo(second)
  BY <1>3, ScriptConcat
<1>6. /\ (first \o second) \o third \in Seq(ScriptCommands)
      /\ Todo((first \o second) \o third) = Todo(first \o second) \cup Todo(third)
  BY <1>3, <1>5, ScriptConcat
<1>7. /\ try_wifi(p) \in Seq(ScriptCommands)
      /\ Todo(try_wifi(p)) = Todo((first \o second) \o third) \cup Todo(fourth)
  BY <1>1, <1>3, <1>6, ScriptConcat
<1>8. Todo(try_wifi(p)) = {AniCmd(TRUE), LinkCmd("WIFI", TRUE), EventCmd(TRUE),
                           DeconfCmd("ETHERNET"), ConfCmd("WIFI")}
                          \cup (IF p THEN {TestCmd("WIFI")} ELSE {})
  BY <1>4, <1>5, <1>6, <1>7
<1>9. Before(try_wifi(p), LinkCmd("WIFI", TRUE), ConfCmd("WIFI"))
  <2>1. ConfCmd("WIFI") \notin Todo(first \o second)
    BY <1>4, <1>5 DEF ConfCmd, AniCmd, LinkCmd, EventCmd, Cmd
  <2>2. LinkCmd("WIFI", TRUE) \notin Todo(third) /\ LinkCmd("WIFI", TRUE) \notin Todo(fourth)
    BY <1>4 DEF ConfCmd, DeconfCmd, LinkCmd, TestCmd, Cmd
  <2>3. Before(third, LinkCmd("WIFI", TRUE), ConfCmd("WIFI"))
    BY <2>2, BeforeAbsent
  <2>4. Before((first \o second) \o third, LinkCmd("WIFI", TRUE), ConfCmd("WIFI"))
    BY <1>2, <1>3, <1>5, <2>1, <2>3, ScriptBefore
  <2> QED BY <1>1, <1>2, <1>3, <1>6, <2>2, <2>4, ScriptBefore
<1> QED BY <1>7, <1>8, <1>9

LEMMA TryEthernetScript ==
    ASSUME NEW p \in BOOLEAN
    PROVE  /\ try_ethernet(p) \in Seq(ScriptCommands)
           /\ Todo(try_ethernet(p)) = {AniCmd(FALSE), LinkCmd("ETHERNET", TRUE), DeconfCmd("WIFI"),
                                       ConfCmd("ETHERNET")}
                  \cup (IF p THEN {TestCmd("ETHERNET"), LinkCmd("WIFI", FALSE), EventCmd(FALSE)} ELSE {})
           /\ Before(try_ethernet(p), LinkCmd("ETHERNET", TRUE), ConfCmd("ETHERNET"))
<1> DEFINE first == <<AniCmd(FALSE), LinkCmd("ETHERNET", TRUE), DeconfCmd("WIFI"), ConfCmd("ETHERNET")>>
           test == <<TestCmd("ETHERNET")>>
           tested == test \o set_wifi_state(FALSE)
           second == IF p THEN tested ELSE <<>>
<1>1. try_ethernet(p) = first \o second
  BY DEF try_ethernet, AniCmd, LinkCmd, DeconfCmd, ConfCmd, TestCmd
<1>2. /\ AniCmd(FALSE) \in ScriptCommands /\ LinkCmd("ETHERNET", TRUE) \in ScriptCommands
      /\ DeconfCmd("WIFI") \in ScriptCommands /\ ConfCmd("ETHERNET") \in ScriptCommands
      /\ TestCmd("ETHERNET") \in ScriptCommands
  BY ScriptTypes DEF Ifaces
<1>3. first \in Seq(ScriptCommands) /\ test \in Seq(ScriptCommands) /\ <<>> \in Seq(ScriptCommands)
  BY <1>2, TypedTuples
<1>4. /\ Todo(first) = {AniCmd(FALSE), LinkCmd("ETHERNET", TRUE), DeconfCmd("WIFI"), ConfCmd("ETHERNET")}
      /\ Todo(test) = {TestCmd("ETHERNET")} /\ Todo(<<>>) = {}
  <2>1. Todo(first) = {AniCmd(FALSE), LinkCmd("ETHERNET", TRUE), DeconfCmd("WIFI"), ConfCmd("ETHERNET")}
    <3>1. PICK a, b, c, d : /\ a = AniCmd(FALSE) /\ b = LinkCmd("ETHERNET", TRUE)
                            /\ c = DeconfCmd("WIFI") /\ d = ConfCmd("ETHERNET")
      BY Zenon
    <3>2. Todo(<<a, b, c, d>>) = {a, b, c, d}
      BY DEF Todo
    <3> QED BY <3>1, <3>2, Zenon
  <2>2. Todo(test) = {TestCmd("ETHERNET")}
    BY TodoTuples, Zenon
  <2> QED BY <2>1, <2>2, TodoTuples
<1>5. Before(first, LinkCmd("ETHERNET", TRUE), ConfCmd("ETHERNET"))
  BY DEF Before, AniCmd, LinkCmd, DeconfCmd, ConfCmd, Cmd
<1> HIDE DEF first, test
<1>6. tested \in Seq(ScriptCommands) /\ Todo(tested) = Todo(test) \cup Todo(set_wifi_state(FALSE))
  BY <1>3, WifiStateScript, ScriptConcat
<1>7. Todo(set_wifi_state(FALSE)) = {LinkCmd("WIFI", FALSE), EventCmd(FALSE)}
  BY WifiStateScript
<1> HIDE DEF tested
<1>8. /\ second \in Seq(ScriptCommands)
      /\ Todo(second) = IF p THEN {TestCmd("ETHERNET"), LinkCmd("WIFI", FALSE), EventCmd(FALSE)} ELSE {}
  BY <1>3, <1>4, <1>6, <1>7
<1> HIDE DEF second
<1>9. /\ try_ethernet(p) \in Seq(ScriptCommands)
      /\ Todo(try_ethernet(p)) = Todo(first) \cup Todo(second)
  BY <1>1, <1>3, <1>8, ScriptConcat
<1>10. LinkCmd("ETHERNET", TRUE) \notin Todo(second)
  BY <1>8 DEF LinkCmd, TestCmd, EventCmd, Cmd
<1>11. Before(try_ethernet(p), LinkCmd("ETHERNET", TRUE), ConfCmd("ETHERNET"))
  BY <1>1, <1>2, <1>3, <1>5, <1>8, <1>10, ScriptBefore
<1> QED BY <1>4, <1>8, <1>9, <1>11
LEMMA TryInterface ==
    ASSUME NEW i \in Ifaces, NEW p \in BOOLEAN
    PROVE  /\ Activates(try_interface(i, p), i)
           /\ ~p => \A j \in Ifaces : TestCmd(j) \notin Todo(try_interface(i, p))
           /\ ~p /\ i = "ETHERNET" => Switch("WIFI", TRUE) \cap Todo(try_interface(i, p)) = {}
           /\ i = "WIFI" => Switch("ETHERNET", TRUE) \cap Todo(try_interface(i, p)) = {}
<1>1. CASE i = "WIFI"
  <2>1. try_interface(i, p) = try_wifi(p)
    BY <1>1 DEF try_interface
  <2>2. Needs(i) \subseteq Todo(try_wifi(p))
    BY <1>1, TryWifiScript DEF Needs
  <2>3. Spoils(i) \cap Todo(try_wifi(p)) = {}
    BY <1>1, TryWifiScript DEF Spoils, AniCmd, LinkCmd, EventCmd, DeconfCmd, ConfCmd, TestCmd, Cmd
  <2>4. Activates(try_wifi(p), i)
    BY <1>1, <2>2, <2>3, TryWifiScript DEF Activates
  <2>5. /\ ~p => \A j \in Ifaces : TestCmd(j) \notin Todo(try_wifi(p))
        /\ Switch("ETHERNET", TRUE) \cap Todo(try_wifi(p)) = {}
    BY TryWifiScript DEF Switch, AniCmd, LinkCmd, EventCmd, DeconfCmd, ConfCmd, TestCmd, Cmd
  <2> QED BY <1>1, <2>1, <2>4, <2>5
<1>2. CASE i = "ETHERNET"
  <2>1. try_interface(i, p) = try_ethernet(p)
    BY <1>2 DEF try_interface
  <2>2. Needs(i) \subseteq Todo(try_ethernet(p))
    BY <1>2, TryEthernetScript DEF Needs
  <2>3. Spoils(i) \cap Todo(try_ethernet(p)) = {}
    BY <1>2, TryEthernetScript DEF Spoils, AniCmd, LinkCmd, EventCmd, DeconfCmd, ConfCmd, TestCmd, Cmd
  <2>4. Activates(try_ethernet(p), i)
    BY <1>2, <2>2, <2>3, TryEthernetScript DEF Activates
  <2>5. ~p => /\ \A j \in Ifaces : TestCmd(j) \notin Todo(try_ethernet(p))
              /\ Switch("WIFI", TRUE) \cap Todo(try_ethernet(p)) = {}
    BY TryEthernetScript DEF Switch, AniCmd, LinkCmd, EventCmd, DeconfCmd, ConfCmd, TestCmd, Cmd
  <2> QED BY <1>2, <2>1, <2>4, <2>5
<1> QED BY <1>1, <1>2 DEF Ifaces

\* What the script does first does not matter as long as it spoils nothing.
LEMMA Prefixed ==
    ASSUME NEW i \in Ifaces, NEW s \in Seq(ScriptCommands), NEW t, Activates(t, i),
           (Spoils(i) \cup {ConfCmd(i)}) \cap Todo(s) = {}
    PROVE  Activates(s \o t, i)
<1>1. s \o t \in Seq(ScriptCommands) /\ Todo(s \o t) = Todo(s) \cup Todo(t)
  BY ScriptConcat DEF Activates
<1>2. Before(s \o t, LinkCmd(i, TRUE), ConfCmd(i))
  <2>1. LinkCmd(i, TRUE) \in ScriptCommands /\ ConfCmd(i) \in ScriptCommands
    BY ScriptTypes
  <2> QED BY <2>1, ScriptBefore DEF Activates
<1> QED BY <1>1, <1>2 DEF Activates
LEMMA ChoiceScript ==
    /\ Choice \in Seq(ScriptCommands)
    /\ \A i \in Ifaces : Forbidden(i) => Deactivates(Choice, i)
    /\ ~AllDisallowed => \E i \in Ifaces : ~Forbidden(i) /\ Activates(Choice, i)
    /\ \A i, j \in Ifaces : TestCmd(i) \in Todo(Choice) => ~Forbidden(j)
<1> DEFINE down == <<LinkCmd("ETHERNET", FALSE)>>
           off == set_wifi_state(FALSE)
           on == set_wifi_state(TRUE)
           unmark == <<Cmd("saved", "pni_wifi", FALSE), Cmd("marker", "pni_wifi", FALSE)>>
           eth == try_interface("ETHERNET", FALSE)
           wifi == try_interface("WIFI", FALSE)
<1>a. /\ Forbidden("WIFI") <=> "wifi_disallowed" \in tmp
      /\ Forbidden("ETHERNET") <=> "ethernet_disallowed" \in tmp
      /\ AllDisallowed <=> Forbidden("WIFI") /\ Forbidden("ETHERNET")
  BY DEF Forbidden, Disallowed, AllDisallowed, Ifaces
<1>b. /\ down \in Seq(ScriptCommands) /\ Todo(down) = {LinkCmd("ETHERNET", FALSE)}
      /\ unmark \in Seq(ScriptCommands)
      /\ Todo(unmark) = {Cmd("saved", "pni_wifi", FALSE), Cmd("marker", "pni_wifi", FALSE)}
  <2>1. LinkCmd("ETHERNET", FALSE) \in ScriptCommands
    BY ScriptTypes DEF Ifaces
  <2> QED BY <2>1, ScriptTypes, TypedTuples, TodoTuples
<1>c. /\ off \in Seq(ScriptCommands) /\ Todo(off) = {LinkCmd("WIFI", FALSE), EventCmd(FALSE)}
      /\ on \in Seq(ScriptCommands) /\ Todo(on) = {LinkCmd("WIFI", TRUE), EventCmd(TRUE)}
  BY WifiStateScript
<1>d. /\ Activates(eth, "ETHERNET") /\ Activates(wifi, "WIFI")
      /\ \A j \in Ifaces : TestCmd(j) \notin Todo(eth) /\ TestCmd(j) \notin Todo(wifi)
      /\ Switch("WIFI", TRUE) \cap Todo(eth) = {} /\ Switch("ETHERNET", TRUE) \cap Todo(wifi) = {}
  BY TryInterface DEF Ifaces
<1>e. "WIFI" \in Ifaces /\ "ETHERNET" \in Ifaces
  BY DEF Ifaces
<1>f. eth \in Seq(ScriptCommands) /\ wifi \in Seq(ScriptCommands)
  BY <1>d DEF Activates
<1> HIDE DEF off, on, eth, wifi, unmark, down
<1>1. CASE Forbidden("WIFI") /\ Forbidden("ETHERNET")
  <2>1. Choice = down \o off
    BY <1>1, <1>a DEF Choice, down, off, LinkCmd
  <2>2. Choice \in Seq(ScriptCommands) /\ Todo(Choice) = Todo(down) \cup Todo(off)
    BY <1>b, <1>c, <2>1, ScriptConcat
  <2>3. Deactivates(Choice, "WIFI") /\ Deactivates(Choice, "ETHERNET")
    BY <1>b, <1>c, <2>2 DEF Deactivates, Switch, LinkCmd, EventCmd, Cmd
  <2>4. \A i \in Ifaces : TestCmd(i) \notin Todo(Choice)
    BY <1>b, <1>c, <2>2 DEF TestCmd, LinkCmd, EventCmd, Cmd
  <2> QED BY <1>1, <1>a, <2>2, <2>3, <2>4 DEF Ifaces
<1>2. CASE Forbidden("WIFI") /\ ~Forbidden("ETHERNET")
  <2>1. Choice = off \o eth
    BY <1>2, <1>a DEF Choice, off, eth
  <2>2. Choice \in Seq(ScriptCommands) /\ Todo(Choice) = Todo(off) \cup Todo(eth)
    BY <1>c, <1>f, <2>1, ScriptConcat
  <2>3. Deactivates(Choice, "WIFI")
    <3>1. Switch("WIFI", TRUE) \cap Todo(off) = {}
      BY <1>c DEF Switch, LinkCmd, EventCmd, Cmd
    <3>2. Switch("WIFI", FALSE) \subseteq Todo(off)
      BY <1>c DEF Switch
    <3> QED BY <1>d, <2>2, <3>1, <3>2 DEF Deactivates
  <2>4. \A i \in Ifaces : TestCmd(i) \notin Todo(Choice)
    <3>1. \A i \in Ifaces : TestCmd(i) \notin Todo(off)
      BY <1>c DEF TestCmd, LinkCmd, EventCmd, Cmd
    <3> QED BY <1>d, <2>2, <3>1
  <2>5. Activates(Choice, "ETHERNET")
    <3>1. (Spoils("ETHERNET") \cup {ConfCmd("ETHERNET")}) \cap Todo(off) = {}
      BY <1>c DEF Spoils, AniCmd, LinkCmd, EventCmd, DeconfCmd, ConfCmd, Cmd
    <3> QED BY <1>c, <1>d, <1>e, <2>1, <3>1, Prefixed
  <2> QED BY <1>2, <1>a, <2>2, <2>3, <2>4, <2>5 DEF Ifaces
<1>3. CASE ~Forbidden("WIFI") /\ Forbidden("ETHERNET")
  <2>1. Choice = down \o wifi
    BY <1>3, <1>a DEF Choice, down, wifi, LinkCmd
  <2>2. Choice \in Seq(ScriptCommands) /\ Todo(Choice) = Todo(down) \cup Todo(wifi)
    BY <1>b, <1>f, <2>1, ScriptConcat
  <2>3. Deactivates(Choice, "ETHERNET")
    <3>1. Switch("ETHERNET", TRUE) \cap Todo(down) = {}
      BY <1>b DEF Switch, LinkCmd, Cmd
    <3>2. Switch("ETHERNET", FALSE) \subseteq Todo(down)
      BY <1>b DEF Switch
    <3> QED BY <1>d, <2>2, <3>1, <3>2 DEF Deactivates
  <2>4. \A i \in Ifaces : TestCmd(i) \notin Todo(Choice)
    <3>1. \A i \in Ifaces : TestCmd(i) \notin Todo(down)
      BY <1>b DEF TestCmd, LinkCmd, Cmd
    <3> QED BY <1>d, <2>2, <3>1
  <2>5. Activates(Choice, "WIFI")
    <3>1. (Spoils("WIFI") \cup {ConfCmd("WIFI")}) \cap Todo(down) = {}
      BY <1>b DEF Spoils, AniCmd, LinkCmd, EventCmd, DeconfCmd, ConfCmd, Cmd
    <3> QED BY <1>b, <1>d, <1>e, <2>1, <3>1, Prefixed
  <2> QED BY <1>3, <1>a, <2>2, <2>3, <2>4, <2>5 DEF Ifaces
<1>4. CASE ~Forbidden("WIFI") /\ ~Forbidden("ETHERNET")
  <2>1. \E i \in Ifaces : Activates(Choice, i)
    <3>1. CASE ~carrier \/ "ETHERNET" \notin up
      <4>1. Choice = wifi
        BY <1>4, <1>a, <3>1 DEF Choice, wifi
      <4> QED BY <1>d, <1>e, <4>1
    <3>2. CASE carrier /\ "ETHERNET" \in up /\ ~pniRfc
      <4>1. Choice = (unmark \o on) \o eth
        BY <1>4, <1>a, <3>2 DEF Choice, unmark, on, eth
      <4>2. unmark \o on \in Seq(ScriptCommands) /\ Todo(unmark \o on) = Todo(unmark) \cup Todo(on)
        BY <1>b, <1>c, ScriptConcat
      <4>3. (Spoils("ETHERNET") \cup {ConfCmd("ETHERNET")}) \cap Todo(unmark \o on) = {}
        BY <1>b, <1>c, <4>2 DEF Spoils, AniCmd, LinkCmd, EventCmd, DeconfCmd, ConfCmd, Cmd
      <4> QED BY <1>d, <1>e, <4>1, <4>2, <4>3, Prefixed
    <3>3. CASE carrier /\ "ETHERNET" \in up /\ pniRfc
      <4>1. \E i \in Ifaces : Choice = try_interface(i, TRUE)
        BY <1>4, <1>a, <1>e, <3>3 DEF Choice
      <4> QED BY <4>1, TryInterface
    <3> QED BY <3>1, <3>2, <3>3
  <2> QED BY <1>4, <2>1 DEF Ifaces, Activates
<1> QED BY <1>1, <1>2, <1>3, <1>4
-----------------------------------------------------------------------------
(* What the calls have to do. *)

\* Commands with an argument that fits: the type of the lists that is inductive.
Proper ==
    {cmd \in Commands :
        /\ cmd.op \in {"link", "wifi", "settings", "default", "deconf", "conf", "test"} => cmd.arg \in Ifaces
        /\ cmd.op \in {"marker", "saved"} => cmd.arg \in Markers}

LEMMA ScriptProper == ScriptCommands \subseteq Proper
<1> SUFFICES ASSUME NEW cmd \in ScriptCommands PROVE cmd \in Proper
  OBVIOUS
<1>1. cmd \in Commands
  BY DEF ScriptCommands
<1>2. /\ cmd.op \in {"link", "wifi", "settings", "default", "deconf", "conf", "test"} => cmd.arg \in Ifaces
      /\ cmd.op \in {"marker", "saved"} => cmd.arg \in Markers
  BY DEF ScriptCommands, LinkCmd, EventCmd, AniCmd, ConfCmd, DeconfCmd, TestCmd, Cmd, Markers
<1> QED BY <1>1, <1>2 DEF Proper

\* Commands of a call that neither end it early nor restart the script.
Plain == {cmd \in Proper : cmd.op \notin {"settings", "default", "launch"}}

LEMMA CommandTypes ==
    /\ \A op \in {"marker", "saved"}, m \in Markers, v \in BOOLEAN : Cmd(op, m, v) \in Plain
    /\ \A op \in {"link", "wifi"}, i \in Ifaces, v \in BOOLEAN : Cmd(op, i, v) \in Plain
    /\ \A i \in Ifaces : /\ DeconfCmd(i) \in Plain /\ Cmd("default", i, TRUE) \in Proper
                         /\ \A s \in Settings \cup {"dhcp"} : Write(i, s) \in Proper
    /\ Launch \in Proper /\ Cmd("start", "", TRUE) \in Proper
    /\ \A i \in Ifaces : Disallowed(i) \in Markers
<1>1. /\ \A op \in {"marker", "saved"}, m \in Markers, v \in BOOLEAN : Cmd(op, m, v) \in Plain
      /\ \A op \in {"link", "wifi"}, i \in Ifaces, v \in BOOLEAN : Cmd(op, i, v) \in Plain
  BY DEF Plain, Proper, Commands, Cmd
<1>2. \A i \in Ifaces : DeconfCmd(i) \in Plain /\ Cmd("default", i, TRUE) \in Proper
  BY DEF Plain, Proper, Commands, Cmd, DeconfCmd
<1>3. \A i \in Ifaces, s \in Settings \cup {"dhcp"} : Write(i, s) \in Proper
  BY DEF Proper, Commands, Cmd, Write
<1>4. Launch \in Proper /\ Cmd("start", "", TRUE) \in Proper
  BY DEF Proper, Commands, Cmd, Launch
<1>5. \A i \in Ifaces : Disallowed(i) \in Markers
  BY DEF Disallowed, Markers, Ifaces
<1> QED BY <1>1, <1>2, <1>3, <1>4, <1>5

LEMMA PlainLaunch ==
    ASSUME NEW s \in Seq(Plain)
    PROVE  s \o <<Launch>> \in Seq(Proper) /\ Committed(s \o <<Launch>>)
<1>1. s \in Seq(Proper) /\ <<Launch>> \in Seq(Proper)
  <2>1. \A k \in 1..Len(s) : s[k] \in Proper
    BY DEF Plain
  <2>2. s \in Seq(Proper)
    BY <2>1
  <2>3. <<Launch>> \in Seq(Proper)
    BY CommandTypes, TypedTuples
  <2> QED BY <2>2, <2>3
<1>2. s \o <<Launch>> \in Seq(Proper) /\ Len(s \o <<Launch>>) = Len(s) + 1
  BY <1>1
<1>3. (s \o <<Launch>>)[Len(s) + 1] = Launch
  BY <1>1
<1>4. \A k \in 1..Len(s) : (s \o <<Launch>>)[k] = s[k] /\ s[k].op \notin {"settings", "default", "launch"}
  BY <1>1 DEF Plain
<1>5. Launch.op = "launch"
  BY DEF Launch, Cmd
<1>6. DOMAIN (s \o <<Launch>>) = 1..(Len(s) + 1) /\ Len(s) \in Nat
  BY <1>2
<1>7. \A k \in DOMAIN (s \o <<Launch>>) : k \in 1..Len(s) \/ k = Len(s) + 1
  BY <1>6
<1> QED BY <1>2, <1>3, <1>4, <1>5, <1>6, <1>7 DEF Committed

LEMMA MarkCommands ==
    ASSUME NEW m \in Markers, NEW v \in BOOLEAN, NEW persist \in BOOLEAN
    PROVE  Mark(m, v, persist) \in Seq(Plain)
<1>1. Cmd("marker", m, v) \in Plain /\ Cmd("saved", m, v) \in Plain
  BY CommandTypes
<1>2. <<Cmd("marker", m, v)>> \in Seq(Plain) /\ <<Cmd("saved", m, v)>> \in Seq(Plain) /\ <<>> \in Seq(Plain)
  BY <1>1, TypedTuples
<1>3. (IF persist THEN <<Cmd("saved", m, v)>> ELSE <<>>) \in Seq(Plain)
  BY <1>2
<1> QED BY <1>2, <1>3, TodoConcat DEF Mark

\* setInterfaceEnabled and setDefaultInterface restart the script at their end, whatever
\* happens before.
LEMMA CommittedCalls ==
    ASSUME NEW i \in Ifaces, NEW v \in BOOLEAN, NEW persist \in BOOLEAN
    PROVE  LET enable == EnableCommands(i, v, persist)
               prefer == Mark("pni_wifi", v, persist) \o <<Launch>>
           IN  /\ enable \in Seq(Proper) /\ Committed(enable)
               /\ prefer \in Seq(Proper) /\ Committed(prefer)
<1> DEFINE mark == Mark(Disallowed(i), ~v, persist)
           link == <<Cmd("link", i, v)>>
           wifi == IF i = "WIFI" THEN <<Cmd("wifi", i, v)>> ELSE <<>>
<1>1. mark \in Seq(Plain) /\ Mark("pni_wifi", v, persist) \in Seq(Plain)
  BY MarkCommands, CommandTypes DEF Markers
<1>2. link \in Seq(Plain) /\ wifi \in Seq(Plain)
  BY CommandTypes, TypedTuples
<1>3. EnableCommands(i, v, persist) = ((mark \o link) \o wifi) \o <<Launch>>
  BY DEF EnableCommands, Launch
<1> HIDE DEF mark, link, wifi
<1>4. mark \o link \in Seq(Plain)
  BY <1>1, <1>2, TodoConcat
<1>5. (mark \o link) \o wifi \in Seq(Plain)
  BY <1>2, <1>4, TodoConcat
<1> QED BY <1>1, <1>3, <1>5, PlainLaunch

LEMMA ReconfigureCommands ==
    ASSUME NEW i \in Ifaces, NEW s \in Settings \cup {"dhcp"}
    PROVE  /\ Rewrite(i, s) \in Seq(Proper) /\ Rewrite(i, s) # <<>>
           /\ Head(Rewrite(i, s)) = Write(i, s) /\ Tail(Rewrite(i, s)) = Reconfigure(i)
           /\ Reconfigure(i) \in Seq(Proper) /\ Reconfigure(i) # <<>>
           /\ Head(Reconfigure(i)) = Cmd("default", i, TRUE)
           /\ Tail(Reconfigure(i)) = <<DeconfCmd(i), Launch>>
           /\ Committed(<<DeconfCmd(i), Launch>>)
<1>1. /\ Write(i, s) \in Proper /\ Cmd("default", i, TRUE) \in Proper /\ DeconfCmd(i) \in Proper
      /\ Launch \in Proper
  BY CommandTypes DEF Plain
<1>3. DeconfCmd(i).op = "deconf" /\ Launch.op = "launch"
  BY DEF DeconfCmd, Launch, Cmd
<1>4. Committed(<<DeconfCmd(i), Launch>>)
  BY <1>3 DEF Committed
<1>5. Rewrite(i, s) \in Seq(Proper) /\ Reconfigure(i) \in Seq(Proper)
  BY <1>1, TypedTuples DEF Rewrite, Reconfigure
<1>6. /\ Rewrite(i, s) # <<>> /\ Reconfigure(i) # <<>>
      /\ Head(Rewrite(i, s)) = Write(i, s) /\ Head(Reconfigure(i)) = Cmd("default", i, TRUE)
  BY DEF Rewrite, Reconfigure
<1>7. Tail(Rewrite(i, s)) = Reconfigure(i)
  BY TailOfFour DEF Rewrite, Reconfigure
<1>8. Tail(Reconfigure(i)) = <<DeconfCmd(i), Launch>>
  BY <1>1 DEF Reconfigure
<1> QED BY <1>4, <1>5, <1>6, <1>7, <1>8
-----------------------------------------------------------------------------
(* Types. *)

SetsOK == tmp \subseteq Markers /\ persistent \subseteq Markers /\ up \subseteq Ifaces /\ internet \subseteq Ifaces
IpOK == file \in [Ifaces -> Settings \cup {"dhcp"}] /\ cfgd \in [Ifaces -> Settings \cup {"dhcp", "none"}]
FlagsOK == /\ ani \in BOOLEAN /\ carrier \in BOOLEAN /\ pniRfc \in BOOLEAN
           /\ alive \in BOOLEAN /\ loaded \in BOOLEAN /\ wifiEnabled \in BOOLEAN
ListsOK == run \in Seq(Proper) /\ call \in [Callers -> Seq(Proper)]
EventsOK == events \in Seq(BOOLEAN) /\ Len(events) <= MaxEvents
CountsOK == calls \in 0..MaxCalls /\ faults \in 0..MaxFaults

TypeInv == SetsOK /\ IpOK /\ FlagsOK /\ ListsOK /\ EventsOK /\ CountsOK

LEMMA Bounds == MaxCalls \in Nat /\ MaxFaults \in Nat /\ MaxEvents \in Nat
BY InterfaceAssumption

LEMMA TypeInvType == TypeInv => TypeOK
<1> SUFFICES ASSUME TypeInv PROVE TypeOK
  OBVIOUS
<1>1. run \in Seq(Commands) /\ call \in [Callers -> Seq(Commands)]
  <2>1. \A s \in Seq(Proper) : s \in Seq(Commands)
    <3> TAKE s \in Seq(Proper)
    <3>1. \A k \in 1..Len(s) : s[k] \in Commands
      BY DEF Proper
    <3> QED BY <3>1
  <2> QED BY <2>1 DEF TypeInv, ListsOK
<1> QED BY <1>1 DEF TypeInv, SetsOK, IpOK, FlagsOK, EventsOK, CountsOK, TypeOK

LEMMA InitTypeInv == Init => TypeInv
<1> SUFFICES ASSUME Init PROVE TypeInv
  OBVIOUS
<1>1. SetsOK
  BY InterfaceAssumption DEF Init, SetsOK
<1>2. IpOK
  BY DEF Init, IpOK
<1>3. FlagsOK
  BY InterfaceAssumption DEF Init, FlagsOK
<1>4. ListsOK
  <2>1. Restarted \in Seq(Proper) /\ <<>> \in Seq(Proper)
    BY CommandTypes, TypedTuples DEF Restarted
  <2> QED BY <2>1 DEF Init, ListsOK
<1>5. EventsOK
  BY Bounds DEF Init, EventsOK
<1>6. CountsOK
  <2>1. calls = 0 /\ faults = 0
    BY DEF Init
  <2> QED BY <2>1, Bounds DEF CountsOK
<1> QED BY <1>1, <1>2, <1>3, <1>4, <1>5, <1>6 DEF TypeInv

\* The scripts are lists of proper commands.
LEMMA ScriptLists ==
    /\ Restarted \in Seq(Proper) /\ Choice \in Seq(Proper)
    /\ \A i \in Ifaces : try_interface(i, TRUE) \in Seq(Proper)
<1>1. \A s \in Seq(ScriptCommands) : s \in Seq(Proper)
  <2> TAKE s \in Seq(ScriptCommands)
  <2>1. \A k \in 1..Len(s) : s[k] \in Proper
    BY ScriptProper
  <2> QED BY <2>1
<1>2. Restarted \in Seq(Proper)
  BY CommandTypes, TypedTuples DEF Restarted
<1>3. Choice \in Seq(Proper)
  BY <1>1, ChoiceScript
<1>4. ASSUME NEW i \in Ifaces PROVE try_interface(i, TRUE) \in Seq(Proper)
  BY <1>1, TryInterface DEF Activates
<1> QED BY <1>2, <1>3, <1>4

\* What a command of a list is about.
LEMMA HeadArg ==
    ASSUME NEW list \in Seq(Proper), list # <<>>
    PROVE  /\ Tail(list) \in Seq(Proper)
           /\ Head(list).op \in {"link", "wifi", "settings", "default", "deconf", "conf", "test"}
                => Head(list).arg \in Ifaces
           /\ Head(list).op \in {"marker", "saved"} => Head(list).arg \in Markers
           /\ Head(list).value \in BOOLEAN /\ Head(list).ip \in Settings \cup {"dhcp"}
<1>1. Head(list) \in Proper /\ Tail(list) \in Seq(Proper)
  OBVIOUS
<1> QED BY <1>1 DEF Proper, Commands

LEMMA CallType == ASSUME TypeInv, NEW c \in Callers, CallStep(c) PROVE TypeInv'
<1>0. SetsOK /\ IpOK /\ FlagsOK /\ ListsOK /\ EventsOK /\ CountsOK
  BY DEF TypeInv
<1>1. call[c] \in Seq(Proper) /\ call[c] # <<>>
  BY <1>0 DEF ListsOK, CallStep, CallMarker, CallLink, CallWifi, CallSettings, CallDefault,
              CallDeconfigure, CallLaunch, AtCall
<1> DEFINE h == Head(call[c])
<1>2. /\ Tail(call[c]) \in Seq(Proper)
      /\ h.op \in {"link", "wifi", "settings", "default", "deconf", "conf", "test"} => h.arg \in Ifaces
      /\ h.op \in {"marker", "saved"} => h.arg \in Markers
      /\ h.value \in BOOLEAN /\ h.ip \in Settings \cup {"dhcp"}
  BY <1>1, HeadArg
<1>3. CountsOK' /\ EventsOK'
  BY <1>0 DEF CallStep, CallMarker, CallLink, CallWifi, CallSettings, CallDefault, CallDeconfigure, CallLaunch,
              procVars, counters, CountsOK, EventsOK
<1>4. FlagsOK'
  <2>1. UNCHANGED <<ani, carrier, pniRfc, alive, loaded>> /\ wifiEnabled' \in {wifiEnabled, h.value}
    BY DEF CallStep, CallMarker, CallLink, CallWifi, CallSettings, CallDefault, CallDeconfigure, CallLaunch,
           procVars, envVars
  <2> QED BY <1>0, <1>2, <2>1 DEF FlagsOK
<1>5. ListsOK'
  <2>1. run' \in {run, Restarted}
    BY DEF CallStep, CallMarker, CallLink, CallWifi, CallSettings, CallDefault, CallDeconfigure, CallLaunch
  <2>2. call' = [call EXCEPT ![c] = Tail(call[c])] \/ call' = [call EXCEPT ![c] = <<>>] \/ call' = call
    BY <1>0 DEF CallStep, CallMarker, CallLink, CallWifi, CallSettings, CallDefault, CallDeconfigure, CallLaunch,
                CallDone, ListsOK
  <2>3. <<>> \in Seq(Proper)
    OBVIOUS
  <2> QED BY <1>0, <1>2, <2>1, <2>2, <2>3, ScriptLists DEF ListsOK
<1>6. SetsOK'
  <2>1. CASE CallMarker(c)
    BY <1>0, <1>2, <2>1 DEF CallMarker, AtCall, Put, SetsOK, envVars, linkVars
  <2>2. CASE CallLink(c)
    BY <1>0, <1>2, <2>2 DEF CallLink, AtCall, Put, SetsOK, envVars, markerVars
  <2>3. CASE UNCHANGED <<markerVars, up, internet>>
    BY <1>0, <2>3 DEF SetsOK, markerVars
  <2> QED BY <2>1, <2>2, <2>3
          DEF CallStep, CallWifi, CallSettings, CallDefault, CallDeconfigure, CallLaunch, linkVars, envVars
<1>7. IpOK'
  <2>1. CASE CallSettings(c)
    <3>1. cfgd' = cfgd
      BY <2>1 DEF CallSettings, linkVars
    <3>2. file' \in {file, [file EXCEPT ![h.arg] = h.ip], [file EXCEPT ![h.arg] = "dhcp"]} /\ h.arg \in Ifaces
      BY <1>2, <2>1 DEF CallSettings, AtCall
    <3> QED BY <1>0, <1>2, <3>1, <3>2 DEF IpOK
  <2>2. CASE CallDeconfigure(c)
    BY <1>0, <1>2, <2>2 DEF CallDeconfigure, AtCall, IpOK
  <2>3. CASE UNCHANGED <<file, cfgd>>
    BY <1>0, <2>3 DEF IpOK
  <2> QED BY <2>1, <2>2, <2>3
          DEF CallStep, CallMarker, CallLink, CallWifi, CallDefault, CallLaunch, linkVars
<1> QED BY <1>3, <1>4, <1>5, <1>6, <1>7 DEF TypeInv
LEMMA ScriptType == ASSUME TypeInv, pni_controller PROVE TypeInv'
<1>0. SetsOK /\ IpOK /\ FlagsOK /\ ListsOK /\ EventsOK /\ CountsOK
  BY DEF TypeInv
<1>1. run \in Seq(Proper) /\ run # <<>>
  BY <1>0 DEF ListsOK, pni_controller, PniChoose, PniLink, PniEvent, PniAni, PniMarker, PniDeconfigure,
              PniConfigure, PniTest, AtRun
<1> DEFINE h == Head(run)
<1>2. /\ Tail(run) \in Seq(Proper)
      /\ h.op \in {"link", "wifi", "settings", "default", "deconf", "conf", "test"} => h.arg \in Ifaces
      /\ h.op \in {"marker", "saved"} => h.arg \in Markers
      /\ h.value \in BOOLEAN
  BY <1>1, HeadArg
<1>3. RunUnchanged
  BY DEF pni_controller, PniChoose, PniLink, PniEvent, PniAni, PniMarker, PniDeconfigure, PniConfigure, PniTest
<1>4. CountsOK'
  BY <1>0, <1>3 DEF RunUnchanged, counters, CountsOK
<1>5. FlagsOK'
  <2>1. ani' \in {ani, h.value}
    BY DEF pni_controller, PniChoose, PniLink, PniEvent, PniAni, PniMarker, PniDeconfigure, PniConfigure, PniTest
  <2> QED BY <1>0, <1>2, <1>3, <2>1 DEF RunUnchanged, envVars, FlagsOK
<1>6. ListsOK'
  <2>1. CASE PniTest
    <3>1. h.arg \in Ifaces /\ Other(h.arg) \in Ifaces
      BY <1>2, <2>1 DEF PniTest, AtRun, Other, Ifaces
    <3>2. run' \in {Tail(run), try_interface(Other(h.arg), TRUE)}
      BY <2>1 DEF PniTest
    <3> QED BY <1>0, <1>2, <1>3, <3>1, <3>2, ScriptLists DEF RunUnchanged, ListsOK
  <2>2. CASE run' \in {Tail(run), Choice}
    BY <1>0, <1>2, <1>3, <2>2, ScriptLists DEF RunUnchanged, ListsOK
  <2> QED BY <2>1, <2>2 DEF pni_controller, PniChoose, PniLink, PniEvent, PniAni, PniMarker, PniDeconfigure,
                            PniConfigure
<1>7. EventsOK'
  <2>1. CASE PniEvent
    <3>1. events' \in {events, Append(events, h.value)} /\ Len(events) < MaxEvents
      BY <2>1 DEF PniEvent
    <3> QED BY <1>0, <1>2, <3>1, Bounds DEF EventsOK
  <2>2. CASE events' = events
    BY <1>0, <2>2 DEF EventsOK
  <2> QED BY <2>1, <2>2 DEF pni_controller, PniChoose, PniLink, PniAni, PniMarker, PniDeconfigure,
                            PniConfigure, PniTest
<1>8. SetsOK'
  <2>0. internet' = internet
    BY <1>3 DEF RunUnchanged, envVars
  <2>1. CASE PniLink
    BY <1>0, <1>2, <2>0, <2>1 DEF PniLink, AtRun, SetsOK, markerVars
  <2>2. CASE PniMarker
    BY <1>0, <2>0, <2>2 DEF PniMarker, SetsOK, linkVars
  <2>3. CASE UNCHANGED <<markerVars, up>>
    BY <1>0, <2>0, <2>3 DEF SetsOK, markerVars
  <2> QED BY <2>1, <2>2, <2>3 DEF pni_controller, PniChoose, PniEvent, PniAni, PniDeconfigure,
                                  PniConfigure, PniTest, linkVars
<1>9. IpOK'
  <2>1. CASE PniDeconfigure
    BY <1>0, <1>2, <2>1 DEF PniDeconfigure, AtRun, IpOK
  <2>2. CASE PniConfigure
    <3>1. h.arg \in Ifaces /\ file[h.arg] \in Settings \cup {"dhcp", "none"}
      BY <1>0, <1>2, <2>2 DEF PniConfigure, AtRun, IpOK
    <3> QED BY <1>0, <2>2, <3>1 DEF PniConfigure, IpOK
  <2>3. CASE UNCHANGED <<file, cfgd>>
    BY <1>0, <2>3 DEF IpOK
  <2> QED BY <2>1, <2>2, <2>3 DEF pni_controller, PniChoose, PniLink, PniEvent, PniAni, PniMarker, PniTest, linkVars
<1> QED BY <1>4, <1>5, <1>6, <1>7, <1>8, <1>9 DEF TypeInv

\* A bus call begins with one of three lists.
LEMMA BeginList ==
    ASSUME NEW c \in Callers, NEW i \in Ifaces,
           \/ \E persist \in BOOLEAN : \/ \E enabled \in BOOLEAN : setInterfaceEnabled(c, i, enabled, persist)
                                       \/ setDefaultInterface(c, i, persist)
           \/ \E s \in Settings \cup {"dhcp"} : setIPSettings(c, i, s)
    PROVE  \E list \in Seq(Proper) :
              /\ Begins(c, list)
              /\ Committed(list) \/ \E s \in Settings \cup {"dhcp"} : list = Rewrite(i, s)
<1>1. ASSUME NEW persist \in BOOLEAN, NEW enabled \in BOOLEAN, setInterfaceEnabled(c, i, enabled, persist)
      PROVE  \E list \in Seq(Proper) : Begins(c, list) /\ Committed(list)
  BY <1>1, CommittedCalls DEF setInterfaceEnabled
<1>2. ASSUME NEW persist \in BOOLEAN, setDefaultInterface(c, i, persist)
      PROVE  \E list \in Seq(Proper) : Begins(c, list) /\ Committed(list)
  <2>1. (i = "WIFI") \in BOOLEAN
    OBVIOUS
  <2>2. Begins(c, Mark("pni_wifi", i = "WIFI", persist) \o <<Launch>>)
    BY <1>2 DEF setDefaultInterface, Launch
  <2> QED BY <2>1, <2>2, CommittedCalls
<1>3. ASSUME NEW s \in Settings \cup {"dhcp"}, setIPSettings(c, i, s)
      PROVE  Rewrite(i, s) \in Seq(Proper) /\ Begins(c, Rewrite(i, s))
  BY <1>3, ReconfigureCommands DEF setIPSettings, Rewrite, DeconfCmd, Launch
<1> QED BY <1>1, <1>2, <1>3

LEMMA BeginType == ASSUME TypeInv, NEW c \in Callers, NEW list \in Seq(Proper), Begins(c, list) PROVE TypeInv'
<1>1. UNCHANGED <<tmp, persistent, file, ani, up, cfgd, carrier, internet, pniRfc, run, alive, loaded,
                  wifiEnabled, events, faults>>
  BY DEF Begins, markerVars, linkVars, envVars, procVars
<1>2. ListsOK'
  BY <1>1 DEF Begins, TypeInv, ListsOK
<1>3. CountsOK'
  BY <1>1, Bounds DEF Begins, TypeInv, CountsOK
<1> QED BY <1>1, <1>2, <1>3 DEF TypeInv, SetsOK, IpOK, FlagsOK, EventsOK

LEMMA OtherType ==
    ASSUME TypeInv, _eventHandler \/ netSrvMgr_start \/ LoadSettings \/ Crash \/ Reboot \/ CarrierChanges
    PROVE  TypeInv'
<1>0. SetsOK /\ IpOK /\ FlagsOK /\ ListsOK /\ EventsOK /\ CountsOK
  BY DEF TypeInv
<1>a. <<>> \in Seq(Proper) /\ <<>> \in Seq(BOOLEAN) /\ Len(<<>>) = 0
  OBVIOUS
<1>1. CASE _eventHandler
  <2>1. EventsOK' /\ wifiEnabled' \in BOOLEAN
    <3>1. events # <<>> /\ events \in Seq(BOOLEAN) /\ events' = Tail(events) /\ wifiEnabled' = Head(events)
      BY <1>0, <1>1 DEF _eventHandler, EventsOK
    <3>2. Tail(events) \in Seq(BOOLEAN) /\ Len(Tail(events)) = Len(events) - 1 /\ Head(events) \in BOOLEAN
      BY <3>1
    <3> QED BY <1>0, <3>1, <3>2, Bounds DEF EventsOK
  <2>2. SetsOK' /\ IpOK' /\ ListsOK' /\ CountsOK'
    BY <1>0, <1>1 DEF _eventHandler, SetsOK, IpOK, ListsOK, CountsOK, markerVars, linkVars, envVars, counters
  <2>3. FlagsOK'
    BY <1>0, <1>1, <2>1 DEF _eventHandler, FlagsOK, envVars
  <2> QED BY <2>1, <2>2, <2>3 DEF TypeInv
<1>2. CASE netSrvMgr_start
  <2>1. SetsOK' /\ IpOK' /\ CountsOK' /\ EventsOK'
    BY <1>0, <1>2 DEF netSrvMgr_start, SetsOK, IpOK, CountsOK, EventsOK, markerVars, linkVars, envVars, counters
  <2>2. FlagsOK'
    BY <1>0, <1>2 DEF netSrvMgr_start, FlagsOK, envVars
  <2>3. ListsOK'
    BY <1>0, <1>2, ScriptLists DEF netSrvMgr_start, ListsOK
  <2> QED BY <2>1, <2>2, <2>3 DEF TypeInv
<1>3. CASE LoadSettings
  <2>1. SetsOK'
    BY <1>0, <1>3 DEF LoadSettings, SetsOK, linkVars, envVars
  <2>2. IpOK' /\ CountsOK' /\ EventsOK' /\ ListsOK'
    BY <1>0, <1>3 DEF LoadSettings, IpOK, CountsOK, EventsOK, ListsOK, linkVars, envVars, counters
  <2>3. FlagsOK'
    BY <1>0, <1>3 DEF LoadSettings, FlagsOK, envVars
  <2> QED BY <2>1, <2>2, <2>3 DEF TypeInv
<1>4. CASE Crash
  <2>1. SetsOK' /\ IpOK'
    BY <1>0, <1>4 DEF Crash, SetsOK, IpOK, markerVars, linkVars, envVars
  <2>2. CountsOK'
    BY <1>0, <1>4, Bounds DEF Crash, CountsOK
  <2>3. EventsOK'
    BY <1>4, <1>a, Bounds DEF Crash, EventsOK
  <2>4. ListsOK'
    BY <1>0, <1>4, <1>a DEF Crash, ListsOK
  <2>5. FlagsOK'
    BY <1>0, <1>4 DEF Crash, FlagsOK, envVars
  <2> QED BY <2>1, <2>2, <2>3, <2>4, <2>5 DEF TypeInv
<1>5. CASE Reboot
  <2>1. SetsOK'
    BY <1>0, <1>5 DEF Reboot, SetsOK, envVars
  <2>2. CountsOK'
    BY <1>0, <1>5, Bounds DEF Reboot, CountsOK
  <2>3. EventsOK'
    BY <1>5, <1>a, Bounds DEF Reboot, EventsOK
  <2>4. ListsOK'
    BY <1>0, <1>5, <1>a, ScriptLists DEF Reboot, ListsOK
  <2>5. FlagsOK'
    BY <1>0, <1>5 DEF Reboot, FlagsOK, envVars
  <2>6. IpOK'
    BY <1>0, <1>5 DEF Reboot, IpOK
  <2> QED BY <2>1, <2>2, <2>3, <2>4, <2>5, <2>6 DEF TypeInv
<1>6. CASE CarrierChanges
  <2>1. SetsOK' /\ IpOK' /\ EventsOK'
    BY <1>0, <1>6 DEF CarrierChanges, SetsOK, IpOK, EventsOK, markerVars, linkVars, procVars
  <2>2. CountsOK'
    BY <1>0, <1>6, Bounds DEF CarrierChanges, CountsOK
  <2>3. ListsOK'
    BY <1>0, <1>6, ScriptLists DEF CarrierChanges, ListsOK
  <2>4. FlagsOK'
    BY <1>0, <1>6 DEF CarrierChanges, FlagsOK, procVars
  <2> QED BY <2>1, <2>2, <2>3, <2>4 DEF TypeInv
<1> QED BY <1>1, <1>2, <1>3, <1>4, <1>5, <1>6

LEMMA StepType == TypeInv /\ [Next]_vars => TypeInv'
<1> SUFFICES ASSUME TypeInv, [Next]_vars PROVE TypeInv'
  OBVIOUS
<1>1. CASE UNCHANGED vars
  BY <1>1 DEF TypeInv, SetsOK, IpOK, FlagsOK, ListsOK, EventsOK, CountsOK, vars, markerVars, linkVars, envVars,
              procVars, counters
<1>2. ASSUME NEW c \in Callers, CallStep(c) PROVE TypeInv'
  BY <1>2, CallType
<1>3. ASSUME NEW c \in Callers, NEW i \in Ifaces,
             \/ \E persist \in BOOLEAN : \/ \E enabled \in BOOLEAN : setInterfaceEnabled(c, i, enabled, persist)
                                         \/ setDefaultInterface(c, i, persist)
             \/ \E s \in Settings \cup {"dhcp"} : setIPSettings(c, i, s)
      PROVE  TypeInv'
  <2>1. PICK list \in Seq(Proper) : Begins(c, list)
    BY <1>3, BeginList
  <2> QED BY <2>1, BeginType
<1> QED BY <1>1, <1>2, <1>3, ScriptType, OtherType DEF Next

\* The types of InterfaceControl hold for any number of bus threads, settings and bounds:
\* whatever is left of calls and scripts is about interfaces and markers that exist.
THEOREM TypeCorrect == Spec => []TypeOK
BY InitTypeInv, StepType, TypeInvType, PTL DEF Spec
-----------------------------------------------------------------------------
(* The lists of the calls. *)

LEMMA CommittedTail ==
    ASSUME NEW list \in Seq(Proper), Committed(list)
    PROVE  /\ list # <<>> /\ Head(list).op \notin {"settings", "default"}
           /\ IF Head(list).op = "launch" THEN Tail(list) = <<>> ELSE Committed(Tail(list))
<1>1. list # <<>> /\ Len(list) \in Nat /\ Len(list) >= 1 /\ Head(list) = list[1] /\ 1 \in DOMAIN list
  BY DEF Committed
<1>2. Head(list).op \notin {"settings", "default"} /\ (Head(list).op = "launch" => Len(list) = 1)
  BY <1>1 DEF Committed
<1>3. CASE Head(list).op = "launch"
  <2>1. Len(list) = 1
    BY <1>2, <1>3
  <2>2. Tail(list) = <<>>
    <3>1. Tail(list) \in Seq(Proper) /\ Len(Tail(list)) = 0
      BY <1>1, <2>1, HeadTailProperties
    <3> QED BY <3>1, EmptySeq
  <2> QED BY <1>1, <1>2, <1>3, <2>2
<1>4. CASE Head(list).op # "launch"
  <2>1. Len(list) # 1
    BY <1>1, <1>4 DEF Committed
  <2>2. Tail(list) \in Seq(Proper) /\ Len(Tail(list)) = Len(list) - 1
    BY <1>1, HeadTailProperties
  <2>a. \A k \in 1..Len(Tail(list)) : Tail(list)[k] = list[k + 1]
    BY <1>1, HeadTailProperties
  <2>b. DOMAIN Tail(list) = 1..Len(Tail(list)) /\ DOMAIN list = 1..Len(list)
    BY <2>2
  <2>c. Tail(list) # <<>> /\ Len(Tail(list)) \in 1..Len(Tail(list))
    BY <1>1, <2>1, <2>2
  <2>3. Tail(list)[Len(Tail(list))].op = "launch"
    <3>1. Tail(list)[Len(Tail(list))] = list[Len(list)]
      BY <1>1, <2>2, <2>a, <2>c
    <3> QED BY <3>1 DEF Committed
  <2>4. ASSUME NEW k \in DOMAIN Tail(list)
        PROVE  /\ Tail(list)[k].op \notin {"settings", "default"}
               /\ Tail(list)[k].op = "launch" => k = Len(Tail(list))
    <3>1. k \in Nat /\ k + 1 \in DOMAIN list /\ Tail(list)[k] = list[k + 1]
      BY <1>1, <2>2, <2>a, <2>b
    <3>2. list[k + 1].op \notin {"settings", "default"} /\ (list[k + 1].op = "launch" => k + 1 = Len(list))
      BY <3>1 DEF Committed
    <3>3. \A m, n \in Nat : m + 1 = n => m = n - 1
      OBVIOUS
    <3>4. k + 1 = Len(list) => k = Len(Tail(list))
      BY <1>1, <2>2, <3>1, <3>3, Zenon
    <3> QED BY <3>1, <3>2, <3>4
  <2>5. Committed(Tail(list))
    BY <2>c, <2>3, <2>4 DEF Committed
  <2> QED BY <1>1, <1>2, <1>4, <2>5
<1> QED BY <1>3, <1>4

\* A step of a call takes the first command off its list; only "settings" and "default" may
\* end the call early, and "launch" restarts the script.
LEMMA CallStepShape ==
    ASSUME TypeInv, NEW c \in Callers, CallStep(c)
    PROVE  /\ alive /\ alive' = alive /\ loaded' = loaded
           /\ call[c] \in Seq(Proper) /\ call[c] # <<>>
           /\ \A d \in Callers : d # c => call'[d] = call[d]
           /\ \/ call'[c] = Tail(call[c])
              \/ call'[c] = <<>> /\ Head(call[c]).op \in {"settings", "default"}
              \/ call'[c] = call[c] /\ Head(call[c]).op = "settings"
           /\ Head(call[c]).op = "launch" => run' = Restarted
<1>1. call \in [Callers -> Seq(Proper)]
  BY DEF TypeInv, ListsOK
<1>2. alive /\ alive' = alive /\ loaded' = loaded /\ call[c] # <<>>
  BY DEF CallStep, CallMarker, CallLink, CallWifi, CallSettings, CallDefault, CallDeconfigure, CallLaunch,
         AtCall, procVars
<1>3. \/ call' = [call EXCEPT ![c] = Tail(@)]
      \/ call' = [call EXCEPT ![c] = <<>>] /\ Head(call[c]).op \in {"settings", "default"}
      \/ call' = call /\ Head(call[c]).op = "settings"
  BY DEF CallStep, CallMarker, CallLink, CallWifi, CallSettings, CallDefault, CallDeconfigure, CallLaunch,
         AtCall, CallDone
<1>4. Head(call[c]).op = "launch" => run' = Restarted
  BY DEF CallStep, CallMarker, CallLink, CallWifi, CallSettings, CallDefault, CallDeconfigure, CallLaunch, AtCall
<1> QED BY <1>1, <1>2, <1>3, <1>4

LEMMA CallListStep ==
    ASSUME TypeInv, NEW c \in Callers, CallStep(c), \A d \in Callers : CallInv(d)
    PROVE  \A d \in Callers : CallInv(d)'
<1>1. ASSUME NEW d \in Callers, d # c PROVE CallInv(d)'
  <2>1. call'[d] = call[d]
    BY <1>1, CallStepShape
  <2> QED BY <2>1 DEF CallInv
<1>2. CallInv(c)'
  <2>1. CASE call'[c] = <<>>
    BY <2>1 DEF CallInv
  <2>2. CASE call'[c] = Tail(call[c])
    <3>1. CASE Committed(call[c])
      BY <2>2, <3>1, CommittedTail, CallStepShape DEF CallInv
    <3>2. ASSUME NEW i \in Ifaces, call[c] = Reconfigure(i) PROVE CallInv(c)'
      <4>1. "dhcp" \in Settings \cup {"dhcp"}
        OBVIOUS
      <4>2. Committed(call'[c])
        BY <2>2, <3>2, <4>1, ReconfigureCommands
      <4> QED BY <4>2 DEF CallInv
    <3>3. ASSUME NEW i \in Ifaces, NEW s \in Settings \cup {"dhcp"}, call[c] = Rewrite(i, s) PROVE CallInv(c)'
      <4>1. call'[c] = Reconfigure(i)
        BY <2>2, <3>3, ReconfigureCommands
      <4> QED BY <4>1 DEF CallInv
    <3> QED BY <3>1, <3>2, <3>3, CallStepShape DEF CallInv
  <2>3. CASE call'[c] = call[c]
    BY <2>3 DEF CallInv
  <2> QED BY <2>1, <2>2, <2>3, CallStepShape
<1> QED BY <1>1, <1>2

LEMMA BeginListStep ==
    ASSUME TypeInv, NEW c \in Callers, NEW i \in Ifaces, NEW list \in Seq(Proper), Begins(c, list),
           Committed(list) \/ \E s \in Settings \cup {"dhcp"} : list = Rewrite(i, s),
           \A d \in Callers : CallInv(d)
    PROVE  \A d \in Callers : CallInv(d)'
<1>1. call'[c] = list /\ \A d \in Callers : d # c => call'[d] = call[d]
  BY DEF Begins, TypeInv, ListsOK
<1>2. CallInv(c)'
  BY <1>1 DEF CallInv
<1>3. ASSUME NEW d \in Callers, d # c PROVE CallInv(d)'
  BY <1>1, <1>3 DEF CallInv
<1> QED BY <1>2, <1>3

LEMMA ListStep ==
    TypeInv /\ (\A c \in Callers : CallInv(c)) /\ [Next]_vars => \A c \in Callers : CallInv(c)'
<1> SUFFICES ASSUME TypeInv, \A c \in Callers : CallInv(c), [Next]_vars PROVE \A c \in Callers : CallInv(c)'
  OBVIOUS
<1>1. ASSUME NEW c \in Callers, CallStep(c) PROVE \A d \in Callers : CallInv(d)'
  BY <1>1, CallListStep
<1>2. ASSUME NEW c \in Callers, NEW i \in Ifaces,
             \/ \E persist \in BOOLEAN : \/ \E enabled \in BOOLEAN : setInterfaceEnabled(c, i, enabled, persist)
                                         \/ setDefaultInterface(c, i, persist)
             \/ \E s \in Settings \cup {"dhcp"} : setIPSettings(c, i, s)
      PROVE  \A d \in Callers : CallInv(d)'
  <2>1. PICK list \in Seq(Proper) :
             Begins(c, list) /\ (Committed(list) \/ \E s \in Settings \cup {"dhcp"} : list = Rewrite(i, s))
    BY <1>2, BeginList
  <2> QED BY <2>1, BeginListStep
<1>3. CASE call' = call
  BY <1>3 DEF CallInv
<1>4. CASE call' = [c \in Callers |-> <<>>]
  BY <1>4 DEF CallInv
<1>5. pni_controller => call' = call
  BY DEF pni_controller, PniChoose, PniLink, PniEvent, PniAni, PniMarker, PniDeconfigure, PniConfigure, PniTest,
         RunUnchanged
<1>6. _eventHandler \/ netSrvMgr_start \/ LoadSettings \/ CarrierChanges => call' = call
  BY DEF _eventHandler, netSrvMgr_start, LoadSettings, CarrierChanges
<1>7. Crash \/ Reboot => call' = [c \in Callers |-> <<>>]
  BY DEF Crash, Reboot
<1>8. UNCHANGED vars => call' = call
  BY DEF vars
<1> QED BY <1>1, <1>2, <1>3, <1>4, <1>5, <1>6, <1>7, <1>8 DEF Next

\* netsrvmgr starts after the settings loader.
LEMMA LoadedStep == TypeInv /\ (alive => loaded) /\ [Next]_vars => (alive' => loaded')
<1> SUFFICES ASSUME TypeInv, alive => loaded, [Next]_vars PROVE alive' => loaded'
  OBVIOUS
<1>1. \/ UNCHANGED <<alive, loaded>>
      \/ alive' = FALSE
      \/ loaded /\ loaded' = loaded
      \/ loaded'
  <2>1. ASSUME NEW c \in Callers, CallStep(c) PROVE UNCHANGED <<alive, loaded>>
    BY <2>1, CallStepShape
  <2>2. ASSUME NEW c \in Callers, NEW i \in Ifaces,
               \/ \E persist \in BOOLEAN : \/ \E enabled \in BOOLEAN : setInterfaceEnabled(c, i, enabled, persist)
                                           \/ setDefaultInterface(c, i, persist)
               \/ \E s \in Settings \cup {"dhcp"} : setIPSettings(c, i, s)
        PROVE  UNCHANGED <<alive, loaded>>
    BY <2>2, BeginList DEF Begins, procVars
  <2>3. pni_controller => UNCHANGED <<alive, loaded>>
    BY DEF pni_controller, PniChoose, PniLink, PniEvent, PniAni, PniMarker, PniDeconfigure, PniConfigure, PniTest,
           RunUnchanged
  <2>4. _eventHandler \/ CarrierChanges => UNCHANGED <<alive, loaded>>
    BY DEF _eventHandler, CarrierChanges, procVars
  <2>5. netSrvMgr_start => loaded /\ loaded' = loaded
    BY DEF netSrvMgr_start
  <2>6. LoadSettings => loaded'
    BY DEF LoadSettings
  <2>7. Crash \/ Reboot => alive' = FALSE
    BY DEF Crash, Reboot
  <2>8. UNCHANGED vars => UNCHANGED <<alive, loaded>>
    BY DEF vars, procVars
  <2> QED BY <2>1, <2>2, <2>3, <2>4, <2>5, <2>6, <2>7, <2>8 DEF Next
<1> QED BY <1>1

\* A call or a start that is going to restart the script is not forgotten.
LEMMA PendingStep ==
    TypeInv /\ Pending /\ [Next]_vars => Pending' \/ run' = Restarted
<1> SUFFICES ASSUME TypeInv, Pending, [Next]_vars PROVE Pending' \/ run' = Restarted
  OBVIOUS
<1>0. \A c \in Callers : call[c] \in Seq(Proper)
  BY DEF TypeInv, ListsOK
<1>1. ASSUME NEW c \in Callers, CallStep(c) PROVE Pending' \/ run' = Restarted
  <2>1. PICK d \in Callers : Committed(call[d])
    BY <1>1, CallStepShape DEF Pending
  <2>2. CASE d # c
    <3>1. call'[d] = call[d]
      BY <1>1, <2>2, CallStepShape
    <3> QED BY <2>1, <3>1 DEF Pending
  <2>3. CASE d = c
    <3>1. call'[c] = Tail(call[c]) /\ (Head(call[c]).op = "launch" => run' = Restarted)
      BY <1>0, <1>1, <2>1, <2>3, CallStepShape, CommittedTail
    <3>2. Head(call[c]).op = "launch" \/ Committed(Tail(call[c]))
      BY <1>0, <2>1, <2>3, CommittedTail
    <3> QED BY <3>1, <3>2 DEF Pending
  <2> QED BY <2>2, <2>3
<1>2. ASSUME NEW c \in Callers, NEW i \in Ifaces,
             \/ \E persist \in BOOLEAN : \/ \E enabled \in BOOLEAN : setInterfaceEnabled(c, i, enabled, persist)
                                         \/ setDefaultInterface(c, i, persist)
             \/ \E s \in Settings \cup {"dhcp"} : setIPSettings(c, i, s)
      PROVE  Pending' \/ run' = Restarted
  <2>1. PICK list \in Seq(Proper) : Begins(c, list)
    BY <1>2, BeginList
  <2>2. alive /\ call[c] = <<>> /\ \A d \in Callers : d # c => call'[d] = call[d]
    BY <2>1 DEF Begins, TypeInv, ListsOK
  <2>3. PICK d \in Callers : Committed(call[d])
    BY <2>2 DEF Pending
  <2> QED BY <2>2, <2>3 DEF Pending, Committed
<1>3. CASE UNCHANGED <<alive, call>>
  BY <1>3 DEF Pending
<1>4. pni_controller => UNCHANGED <<alive, call>>
  BY DEF pni_controller, PniChoose, PniLink, PniEvent, PniAni, PniMarker, PniDeconfigure, PniConfigure, PniTest,
         RunUnchanged
<1>5. _eventHandler \/ LoadSettings \/ CarrierChanges => UNCHANGED <<alive, call>>
  BY DEF _eventHandler, LoadSettings, CarrierChanges, procVars
<1>6. Crash \/ Reboot => Pending'
  BY DEF Crash, Reboot, Pending
<1>7. netSrvMgr_start => run' = Restarted
  BY DEF netSrvMgr_start
<1>8. UNCHANGED vars => UNCHANGED <<alive, call>>
  BY DEF vars, procVars
<1> QED BY <1>1, <1>2, <1>3, <1>4, <1>5, <1>6, <1>7, <1>8 DEF Next

-----------------------------------------------------------------------------
(* What the script's commands do. *)

\* Command h undoes command cmd.
Opposite(h, cmd) ==
    /\ h.arg = cmd.arg
    /\ \/ h.op = cmd.op /\ h.value # cmd.value
       \/ h.op = "conf" /\ cmd.op = "deconf"
       \/ h.op = "deconf" /\ cmd.op = "conf"

LEMMA NeedsTypes ==
    \A i \in Ifaces : Needs(i) \subseteq ScriptCommands /\ Switch(i, FALSE) \subseteq ScriptCommands
<1>1. /\ \A i \in Ifaces, v \in BOOLEAN : LinkCmd(i, v) \in ScriptCommands
      /\ \A v \in BOOLEAN : EventCmd(v) \in ScriptCommands /\ AniCmd(v) \in ScriptCommands
      /\ \A i \in Ifaces : ConfCmd(i) \in ScriptCommands /\ DeconfCmd(i) \in ScriptCommands
  BY ScriptTypes
<1>2. Needs("WIFI") \subseteq ScriptCommands /\ Needs("ETHERNET") \subseteq ScriptCommands
  BY <1>1 DEF Needs, Ifaces
<1>3. Switch("WIFI", FALSE) \subseteq ScriptCommands /\ Switch("ETHERNET", FALSE) \subseteq ScriptCommands
  BY <1>1 DEF Switch, Ifaces
<1> QED BY <1>2, <1>3 DEF Ifaces

LEMMA ScriptFields ==
    ASSUME NEW h \in ScriptCommands
    PROVE  /\ h = Cmd(h.op, h.arg, h.value) /\ h.value \in BOOLEAN
           /\ h.op \in {"conf", "deconf"} => h.value = TRUE
<1>1. \/ \E j \in Ifaces, v \in BOOLEAN : h = LinkCmd(j, v)
      \/ \E v \in BOOLEAN : h = EventCmd(v) \/ h = AniCmd(v)
      \/ \E j \in Ifaces : h = ConfCmd(j) \/ h = DeconfCmd(j) \/ h = TestCmd(j)
      \/ h = Cmd("saved", "pni_wifi", FALSE) \/ h = Cmd("marker", "pni_wifi", FALSE)
  BY DEF ScriptCommands
<1>2. \A op, arg, value : h = Cmd(op, arg, value) => h = Cmd(h.op, h.arg, h.value)
  BY DEF Cmd
<1>3. \/ \E arg : \E value \in BOOLEAN : h = Cmd("link", arg, value) \/ h = Cmd("event", arg, value)
                                         \/ h = Cmd("ani", arg, value)
      \/ \E arg : h = Cmd("conf", arg, TRUE) \/ h = Cmd("deconf", arg, TRUE) \/ h = Cmd("test", arg, TRUE)
      \/ h = Cmd("saved", "pni_wifi", FALSE) \/ h = Cmd("marker", "pni_wifi", FALSE)
  BY <1>1, Zenon DEF LinkCmd, EventCmd, AniCmd, ConfCmd, DeconfCmd, TestCmd
<1>4. h = Cmd(h.op, h.arg, h.value)
  <2>1. PICK op, arg, value : h = Cmd(op, arg, value)
    BY <1>3, Zenon
  <2> QED BY <1>2, <2>1
<1>5. h.value \in BOOLEAN
  <2>1. \E op, arg : \E value \in BOOLEAN : h = Cmd(op, arg, value)
    BY <1>3, Zenon
  <2> QED BY <2>1 DEF Cmd
<1>6. h.op \in {"conf", "deconf"} => h.value = TRUE
  <2>1. ASSUME NEW op \in {"link", "event", "ani"}, NEW arg, NEW value \in BOOLEAN, h = Cmd(op, arg, value)
        PROVE  h.op \notin {"conf", "deconf"}
    BY <2>1 DEF Cmd
  <2>2. ASSUME NEW op, NEW arg, h = Cmd(op, arg, TRUE) PROVE h.value = TRUE
    BY <2>2 DEF Cmd
  <2>3. ASSUME NEW op \in {"saved", "marker"}, h = Cmd(op, "pni_wifi", FALSE) PROVE h.op \notin {"conf", "deconf"}
    BY <2>3 DEF Cmd
  <2> QED BY <1>3, <2>1, <2>2, <2>3
<1> QED BY <1>4, <1>5, <1>6

LEMMA OppositeOf ==
    ASSUME NEW h \in ScriptCommands
    PROVE  /\ \A i \in Ifaces, v \in BOOLEAN : Opposite(h, LinkCmd(i, v)) => h = LinkCmd(i, ~v)
           /\ \A v \in BOOLEAN : Opposite(h, EventCmd(v)) => h = EventCmd(~v)
           /\ \A v \in BOOLEAN : Opposite(h, AniCmd(v)) => h = AniCmd(~v)
           /\ \A i \in Ifaces : Opposite(h, ConfCmd(i)) => h = DeconfCmd(i)
           /\ \A i \in Ifaces : Opposite(h, DeconfCmd(i)) => h = ConfCmd(i)
<1>0. /\ h = Cmd(h.op, h.arg, h.value) /\ h.value \in BOOLEAN
      /\ h.op \in {"conf", "deconf"} => h.value = TRUE
  BY ScriptFields
<1>1. ASSUME NEW op \in {"link", "event", "ani"}, NEW arg, NEW v \in BOOLEAN, Opposite(h, Cmd(op, arg, v))
      PROVE  h = Cmd(op, arg, ~v)
  <2>1. h.arg = arg /\ h.op = op /\ h.value # v
    BY <1>1 DEF Opposite, Cmd
  <2>2. h.value = ~v
    BY <1>0, <2>1
  <2> QED BY <1>0, <2>1, <2>2
<1>2. ASSUME NEW arg, Opposite(h, Cmd("conf", arg, TRUE)) PROVE h = Cmd("deconf", arg, TRUE)
  <2>1. h.arg = arg /\ h.op = "deconf"
    BY <1>0, <1>2 DEF Opposite, Cmd
  <2> QED BY <1>0, <2>1
<1>3. ASSUME NEW arg, Opposite(h, Cmd("deconf", arg, TRUE)) PROVE h = Cmd("conf", arg, TRUE)
  <2>1. h.arg = arg /\ h.op = "conf"
    BY <1>0, <1>3 DEF Opposite, Cmd
  <2> QED BY <1>0, <2>1
<1> QED BY <1>1, <1>2, <1>3 DEF LinkCmd, EventCmd, AniCmd, ConfCmd, DeconfCmd

\* What undoes a command that is needed spoils the result.
LEMMA OppositeSpoils ==
    ASSUME NEW i \in Ifaces, NEW h \in ScriptCommands
    PROVE  /\ \A cmd \in Needs(i) : Opposite(h, cmd) => h \in Spoils(i)
           /\ \A cmd \in Switch(i, FALSE) : Opposite(h, cmd) => h \in Switch(i, TRUE)
<1>1. ~TRUE = FALSE /\ ~FALSE = TRUE /\ TRUE \in BOOLEAN /\ FALSE \in BOOLEAN
  OBVIOUS
<1>2. "WIFI" \in Ifaces /\ "ETHERNET" \in Ifaces
  BY DEF Ifaces
<1>3. /\ Opposite(h, AniCmd(TRUE)) => h = AniCmd(FALSE)
      /\ Opposite(h, AniCmd(FALSE)) => h = AniCmd(TRUE)
      /\ Opposite(h, EventCmd(TRUE)) => h = EventCmd(FALSE)
      /\ Opposite(h, EventCmd(FALSE)) => h = EventCmd(TRUE)
  BY <1>1, OppositeOf
<1>4. \A j \in Ifaces : /\ Opposite(h, LinkCmd(j, TRUE)) => h = LinkCmd(j, FALSE)
                        /\ Opposite(h, LinkCmd(j, FALSE)) => h = LinkCmd(j, TRUE)
                        /\ Opposite(h, ConfCmd(j)) => h = DeconfCmd(j)
                        /\ Opposite(h, DeconfCmd(j)) => h = ConfCmd(j)
  BY <1>1, OppositeOf
<1>5. \A cmd \in Needs("WIFI") : Opposite(h, cmd) => h \in Spoils("WIFI")
  BY <1>2, <1>3, <1>4 DEF Needs, Spoils
<1>6. \A cmd \in Needs("ETHERNET") : Opposite(h, cmd) => h \in Spoils("ETHERNET")
  BY <1>2, <1>3, <1>4 DEF Needs, Spoils
<1>7. \A cmd \in Switch(i, FALSE) : Opposite(h, cmd) => h \in Switch(i, TRUE)
  BY <1>2, <1>3, <1>4 DEF Switch
<1> QED BY <1>5, <1>6, <1>7 DEF Ifaces

\* A list of which every command is the script's.
LEMMA ScriptList ==
    ASSUME NEW list \in Seq(Proper), Todo(list) \subseteq ScriptCommands
    PROVE  list \in Seq(ScriptCommands)
<1>1. \A k \in 1..Len(list) : list[k] \in ScriptCommands
  BY DEF Todo
<1> QED BY <1>1

\* A new script that has everything before it leads to a consistent state.
LEMMA FreshGood ==
    ASSUME NEW list \in Seq(ScriptCommands), run' = list, tmp' = tmp,
           \A i \in Ifaces : Forbidden(i) => Deactivates(list, i),
           ~AllDisallowed => \E i \in Ifaces : ~Forbidden(i) /\ Activates(list, i),
           \A i, j \in Ifaces : TestCmd(i) \in Todo(list) => ~Forbidden(j)
    PROVE  Good'
<1>1. /\ \A i \in Ifaces : Forbidden(i)' <=> Forbidden(i)
      /\ AllDisallowed' <=> AllDisallowed
  BY DEF Forbidden, AllDisallowed
<1>2. Todo(list) \subseteq ScriptCommands
  BY DEF Todo
<1>3. ASSUME NEW i \in Ifaces, Deactivates(list, i) PROVE Off(i)'
  BY <1>3 DEF Off, Reaches, Deactivates
<1>4. ASSUME NEW i \in Ifaces, Activates(list, i) PROVE On(i)'
  <2>1. ConfCmd(i) \in Needs(i)
    BY DEF Needs, Ifaces
  <2>2. Reaches(Needs(i), Spoils(i))'
    BY <1>4 DEF Reaches, Activates
  <2> QED BY <1>4, <2>1, <2>2 DEF On, Activates
<1> QED BY <1>1, <1>2, <1>3, <1>4 DEF Good

\* The script carries out the first command of its list: what had its effect keeps it, unless
\* the command is the opposite, and the command itself has its effect.
Carried(h) == \A cmd \in ScriptCommands : ~Opposite(h, cmd) /\ (cmd = h \/ Done(cmd)) => Done(cmd)'

LEMMA ReachesTail ==
    ASSUME run \in Seq(ScriptCommands), run # <<>>, run' = Tail(run), Carried(Head(run)),
           NEW needs \in SUBSET ScriptCommands, NEW spoils,
           \A cmd \in needs, h \in ScriptCommands : Opposite(h, cmd) => h \in spoils,
           Reaches(needs, spoils)
    PROVE  Reaches(needs, spoils)'
<1>1. Todo(run) = {Head(run)} \cup Todo(Tail(run)) /\ Head(run) \in ScriptCommands
  BY TodoTail
<1>2. Head(run) \notin spoils /\ spoils \cap Todo(Tail(run)) = {}
  BY <1>1 DEF Reaches
<1>3. ~Opposite(Head(run), Head(run))
  BY DEF Opposite
<1>4. ASSUME NEW cmd \in needs PROVE cmd \in Todo(Tail(run)) \/ Done(cmd)'
  <2>1. cmd \in ScriptCommands /\ ~Opposite(Head(run), cmd)
    BY <1>1, <1>2
  <2>2. cmd = Head(run) \/ cmd \in Todo(Tail(run)) \/ Done(cmd)
    BY <1>1 DEF Reaches
  <2> QED BY <2>1, <2>2 DEF Carried
<1> QED BY <1>2, <1>4 DEF Reaches

LEMMA GoodTail ==
    ASSUME TypeInv, Good, run # <<>>, run' = Tail(run), Carried(Head(run)),
           \A i \in Ifaces : Forbidden(i)' <=> Forbidden(i)
    PROVE  Good'
<1>0. run \in Seq(ScriptCommands)
  BY ScriptList DEF TypeInv, ListsOK, Good
<1>1. Todo(run) = {Head(run)} \cup Todo(Tail(run)) /\ Todo(run)' \subseteq Todo(run)
  BY <1>0, TodoTail
<1>2. ASSUME NEW i \in Ifaces, Off(i) PROVE Off(i)'
  <2>1. Switch(i, FALSE) \in SUBSET ScriptCommands
    BY NeedsTypes
  <2>2. \A cmd \in Switch(i, FALSE), h \in ScriptCommands : Opposite(h, cmd) => h \in Switch(i, TRUE)
    BY OppositeSpoils
  <2>3. Reaches(Switch(i, FALSE), Switch(i, TRUE))
    BY <1>2 DEF Off
  <2> QED BY <1>0, <2>1, <2>2, <2>3, ReachesTail DEF Off
<1>3. ASSUME NEW i \in Ifaces, On(i) PROVE On(i)'
  <2>1. Needs(i) \in SUBSET ScriptCommands
    BY NeedsTypes
  <2>2. \A cmd \in Needs(i), h \in ScriptCommands : Opposite(h, cmd) => h \in Spoils(i)
    BY OppositeSpoils
  <2>3. Reaches(Needs(i), Spoils(i))
    BY <1>3 DEF On
  <2>4. Reaches(Needs(i), Spoils(i))'
    BY <1>0, <2>1, <2>2, <2>3, ReachesTail
  <2>5. /\ Before(Tail(run), LinkCmd(i, TRUE), ConfCmd(i))
        /\ Head(run) = ConfCmd(i) => LinkCmd(i, TRUE) \notin Todo(Tail(run))
    BY <1>0, <1>3, BeforeTail DEF On
  <2>6. LinkCmd(i, TRUE) \in Todo(Tail(run)) => ConfCmd(i) \in Todo(Tail(run))
    BY <1>1, <1>3, <2>5 DEF On
  <2> QED BY <2>4, <2>5, <2>6 DEF On
<1>4. AllDisallowed' <=> AllDisallowed
  BY DEF AllDisallowed, Forbidden
<1> QED BY <1>1, <1>2, <1>3, <1>4 DEF Good

\* Every command but "start" and a test that fails is carried out like that.
LEMMA ScriptCarries ==
    ASSUME TypeInv, Good, alive, pni_controller, run # <<>>, run' = Tail(run)
    PROVE  Carried(Head(run))
<1>0. Head(run) \in ScriptCommands
  BY TodoTail DEF TypeInv, ListsOK, Good
<1> DEFINE h == Head(run)
<1>1. h = Cmd(h.op, h.arg, h.value) /\ h.value \in BOOLEAN
  BY <1>0, ScriptFields
<1>2. h.op \in {"link", "conf", "deconf"} => h.arg \in Ifaces
  BY HeadArg DEF TypeInv, ListsOK
<1>3. UNCHANGED <<call, alive, wifiEnabled>>
  BY DEF pni_controller, PniChoose, PniLink, PniEvent, PniAni, PniMarker, PniDeconfigure, PniConfigure, PniTest,
         RunUnchanged
<1>4. file' = file
  BY DEF pni_controller, PniChoose, PniLink, PniEvent, PniAni, PniMarker, PniDeconfigure, PniConfigure, PniTest
<1>5. \A c, i : Writing(c, i)' <=> Writing(c, i)
  BY <1>3 DEF Writing
<1>w. events' = events => \A v : WifiWillBe(v)' <=> WifiWillBe(v)
  BY <1>3 DEF WifiWillBe
<1>c. cfgd' = cfgd => \A i : Configured(i)' <=> Configured(i)
  BY <1>4, <1>5 DEF Configured
<1> SUFFICES ASSUME NEW cmd \in ScriptCommands, ~Opposite(h, cmd), cmd = h \/ Done(cmd) PROVE Done(cmd)'
  BY DEF Carried
<1>6. CASE PniLink
  <2>1. UNCHANGED <<ani, cfgd, events>> /\ h.op = "link"
        /\ up' = IF h.value THEN up \cup {h.arg} ELSE up \ {h.arg}
    BY <1>6 DEF PniLink, AtRun
  <2>2. cmd.op = "link" => IF cmd.value THEN cmd.arg \in up' ELSE cmd.arg \notin up'
    <3>1. CASE cmd.op = "link" /\ cmd.arg = h.arg
      <4>1. cmd.value = h.value
        BY <2>1, <3>1 DEF Opposite
      <4> QED BY <2>1, <3>1, <4>1
    <3>2. CASE cmd.op = "link" /\ cmd.arg # h.arg
      BY <2>1, <3>2 DEF Done
    <3> QED BY <3>1, <3>2
  <2>3. cmd.op # "link" => Done(cmd)
    BY <2>1
  <2> QED BY <1>w, <1>c, <2>1, <2>2, <2>3 DEF Done
<1>7. CASE PniEvent
  <2>1. UNCHANGED <<ani, up, cfgd>> /\ h.op = "event" /\ events' = Append(events, h.value)
    BY <1>7 DEF PniEvent, AtRun, linkVars
  <2>2. cmd.op = "event" => cmd.value = h.value
    <3>1. ASSUME NEW x \in ScriptCommands, x.op = "event" PROVE x.arg = "WIFI"
      BY <3>1 DEF ScriptCommands, LinkCmd, EventCmd, AniCmd, ConfCmd, DeconfCmd, TestCmd, Cmd
    <3> QED BY <1>0, <2>1, <3>1 DEF Opposite
  <2>3. \A v : v = h.value => WifiWillBe(v)'
    <3>1. events \in Seq(BOOLEAN)
      BY DEF TypeInv, EventsOK
    <3>2. events' # <<>> /\ events'[Len(events')] = h.value
      BY <1>1, <2>1, <3>1
    <3> QED BY <3>2 DEF WifiWillBe
  <2>4. cmd.op # "event" => Done(cmd)
    BY <2>1
  <2> QED BY <1>c, <2>1, <2>2, <2>3, <2>4 DEF Done
<1>8. CASE PniAni
  <2>1. UNCHANGED <<up, cfgd, events>> /\ h.op = "ani" /\ ani' = h.value
    BY <1>8 DEF PniAni, AtRun, linkVars
  <2>2. cmd.op = "ani" => cmd.value = h.value
    <3>1. ASSUME NEW x \in ScriptCommands, x.op = "ani" PROVE x.arg = "WIFI"
      BY <3>1 DEF ScriptCommands, LinkCmd, EventCmd, AniCmd, ConfCmd, DeconfCmd, TestCmd, Cmd
    <3> QED BY <1>0, <2>1, <3>1 DEF Opposite
  <2>3. cmd.op # "ani" => Done(cmd)
    BY <2>1
  <2> QED BY <1>w, <1>c, <2>1, <2>2, <2>3 DEF Done
<1>9. CASE PniDeconfigure
  <2>1. UNCHANGED <<ani, up, events>> /\ h.op = "deconf" /\ cfgd' = [cfgd EXCEPT ![h.arg] = "none"]
    BY <1>9 DEF PniDeconfigure, AtRun
  <2>2. cfgd'[h.arg] = "none" /\ \A i \in Ifaces : i # h.arg => cfgd'[i] = cfgd[i]
    BY <1>2, <2>1 DEF TypeInv, IpOK
  <2>3. cmd.op \in {"conf", "deconf"} => cmd.arg \in Ifaces
    BY DEF ScriptCommands, LinkCmd, EventCmd, AniCmd, ConfCmd, DeconfCmd, TestCmd, Cmd
  <2>4. cmd.op = "deconf" => cfgd'[cmd.arg] = "none"
    BY <2>1, <2>2, <2>3 DEF Done
  <2>5. cmd.op = "conf" => Configured(cmd.arg)'
    <3>1. cmd.op = "conf" => cmd.arg # h.arg /\ Configured(cmd.arg)
      BY <2>1 DEF Done, Opposite
    <3> QED BY <1>4, <1>5, <2>2, <2>3, <3>1 DEF Configured
  <2>6. cmd.op # "deconf" => Done(cmd)
    BY <2>1
  <2> QED BY <1>w, <2>1, <2>4, <2>5, <2>6 DEF Done
<1>10. CASE PniConfigure
  <2>1. UNCHANGED <<ani, up, events>> /\ h.op = "conf" /\ cfgd' = [cfgd EXCEPT ![h.arg] = file[h.arg]]
    BY <1>10 DEF PniConfigure, AtRun
  <2>2. /\ cfgd'[h.arg] = file[h.arg] /\ file[h.arg] # "none"
        /\ \A i \in Ifaces : i # h.arg => cfgd'[i] = cfgd[i]
    <3>1. file[h.arg] \in Settings \cup {"dhcp"} /\ h.arg \in Ifaces
      BY <1>2, <2>1 DEF TypeInv, IpOK
    <3>2. file[h.arg] # "none"
      BY <3>1, InterfaceAssumption
    <3> QED BY <2>1, <3>1, <3>2 DEF TypeInv, IpOK
  <2>3. cmd.op \in {"conf", "deconf"} => cmd.arg \in Ifaces
    BY DEF ScriptCommands, LinkCmd, EventCmd, AniCmd, ConfCmd, DeconfCmd, TestCmd, Cmd
  <2>4. cmd.op = "deconf" => cfgd'[cmd.arg] = "none"
    <3>1. cmd.op = "deconf" => cmd.arg # h.arg /\ cfgd[cmd.arg] = "none"
      BY <2>1 DEF Done, Opposite
    <3> QED BY <2>2, <2>3, <3>1
  <2>5. cmd.op = "conf" => Configured(cmd.arg)'
    <3>1. CASE cmd.op = "conf" /\ cmd.arg = h.arg
      BY <1>4, <2>2, <3>1 DEF Configured
    <3>2. CASE cmd.op = "conf" /\ cmd.arg # h.arg
      <4>1. Configured(cmd.arg) /\ cfgd'[cmd.arg] = cfgd[cmd.arg]
        BY <2>2, <2>3, <3>2 DEF Done
      <4> QED BY <1>4, <1>5, <4>1 DEF Configured
    <3> QED BY <3>1, <3>2
  <2>6. cmd.op # "conf" => Done(cmd)
    BY <2>1
  <2> QED BY <1>w, <2>1, <2>4, <2>5, <2>6 DEF Done
<1>11. CASE PniMarker \/ PniTest
  <2>1. UNCHANGED <<ani, up, cfgd, events>> /\ h.op \in {"saved", "marker", "test"}
    BY <1>11 DEF PniMarker, PniTest, AtRun, linkVars
  <2>2. Done(cmd)
    BY <2>1 DEF Done
  <2> QED BY <1>w, <1>c, <2>1, <2>2 DEF Done
<1>12. ~PniChoose
  <2>1. h.op # "start"
    BY <1>0 DEF ScriptCommands, LinkCmd, EventCmd, AniCmd, ConfCmd, DeconfCmd, TestCmd, Cmd
  <2> QED BY <2>1 DEF PniChoose, AtRun
<1> QED BY <1>6, <1>7, <1>8, <1>9, <1>10, <1>11, <1>12 DEF pni_controller

\* The script stays on its way, and the loop over the two interfaces tries the other one only
\* when both are allowed.
LEMMA GoodScript ==
    ASSUME TypeInv, Good, alive, pni_controller
    PROVE  Good'
<1>0. run \in Seq(Proper) /\ Todo(run) \subseteq ScriptCommands
  BY DEF TypeInv, ListsOK, Good
<1>1. run # <<>>
  BY DEF pni_controller, PniChoose, PniLink, PniEvent, PniAni, PniMarker, PniDeconfigure, PniConfigure, PniTest,
         AtRun
<1>2. Head(run) \in ScriptCommands /\ Head(run) \in Todo(run)
  BY <1>0, <1>1, TodoTail
<1>3. \A i \in Ifaces : Forbidden(i)' <=> Forbidden(i)
  <2>1. CASE PniMarker
    <3>1. Head(run).op \in {"saved", "marker"} => Head(run).arg = "pni_wifi"
      BY <1>2 DEF ScriptCommands, LinkCmd, EventCmd, AniCmd, ConfCmd, DeconfCmd, TestCmd, Cmd
    <3>2. tmp' = tmp \/ tmp' = tmp \ {"pni_wifi"}
      BY <2>1, <3>1 DEF PniMarker, AtRun
    <3> QED BY <3>2 DEF Forbidden, Disallowed
  <2>2. CASE tmp' = tmp
    BY <2>2 DEF Forbidden
  <2> QED BY <2>1, <2>2 DEF pni_controller, PniChoose, PniLink, PniEvent, PniAni, PniDeconfigure, PniConfigure,
                            PniTest, markerVars
<1>4. CASE run' = Tail(run)
  BY <1>1, <1>3, <1>4, ScriptCarries, GoodTail
<1>5. CASE PniTest
  <2>1. CASE run' # Tail(run)
    <3>1. PICK i \in Ifaces : Head(run) = TestCmd(i)
      BY <1>2, <1>5 DEF PniTest, AtRun, ScriptCommands, LinkCmd, EventCmd, AniCmd, ConfCmd, DeconfCmd, TestCmd, Cmd
    <3>2. \A j \in Ifaces : ~Forbidden(j)
      BY <1>2, <3>1 DEF Good
    <3>3. Head(run).arg = i /\ Other(i) \in Ifaces
      BY <3>1 DEF TestCmd, Cmd, Other, Ifaces
    <3>4. run' = try_interface(Other(i), TRUE) /\ tmp' = tmp
      BY <1>5, <2>1, <3>3 DEF PniTest, markerVars
    <3>5. Activates(try_interface(Other(i), TRUE), Other(i))
      BY <3>3, TryInterface
    <3>6. try_interface(Other(i), TRUE) \in Seq(ScriptCommands)
      BY <3>5 DEF Activates
    <3> QED BY <3>2, <3>3, <3>4, <3>5, <3>6, FreshGood
  <2> QED BY <1>4, <2>1
<1>6. ~PniChoose
  <2>1. Head(run).op # "start"
    BY <1>2 DEF ScriptCommands, LinkCmd, EventCmd, AniCmd, ConfCmd, DeconfCmd, TestCmd, Cmd
  <2> QED BY <2>1 DEF PniChoose, AtRun
<1> QED BY <1>4, <1>5, <1>6 DEF pni_controller, PniLink, PniEvent, PniAni, PniMarker, PniDeconfigure, PniConfigure

\* A step that leaves the script and the markers alone may lose the settings of an interface
\* only if no route goes through it: such an interface is not the one the script ends with, or
\* is still to be configured.
LEMMA GoodFrame ==
    ASSUME Good, run' = run, tmp' = tmp,
           \A cmd \in ScriptCommands : Done(cmd) /\ (cmd.op = "conf" => cmd.arg \in Routes) => Done(cmd)'
    PROVE  Good'
<1>1. /\ \A i \in Ifaces : Forbidden(i)' <=> Forbidden(i)
      /\ AllDisallowed' <=> AllDisallowed
  BY DEF Forbidden, AllDisallowed
<1>2. ASSUME NEW i \in Ifaces, Off(i) PROVE Off(i)'
  <2>1. \A cmd \in Switch(i, FALSE) : cmd \in ScriptCommands /\ cmd.op # "conf"
    <3>1. Switch(i, FALSE) \subseteq ScriptCommands
      BY NeedsTypes
    <3> QED BY <3>1 DEF Switch, LinkCmd, EventCmd, Cmd
  <2> QED BY <1>2, <2>1 DEF Off, Reaches
<1>3. ASSUME NEW i \in Ifaces, On(i) PROVE On(i)'
  <2>1. \A cmd \in Needs(i) : cmd \in ScriptCommands /\ (cmd.op = "conf" => cmd = ConfCmd(i))
    <3>1. Needs(i) \subseteq ScriptCommands
      BY NeedsTypes
    <3> QED BY <3>1 DEF Needs, LinkCmd, EventCmd, AniCmd, ConfCmd, DeconfCmd, Cmd, Ifaces
  <2>2. ConfCmd(i) \in Needs(i) /\ LinkCmd(i, TRUE) \in Needs(i) /\ ConfCmd(i).op = "conf" /\ ConfCmd(i).arg = i
    BY DEF Needs, ConfCmd, Cmd, Ifaces
  <2>3. ConfCmd(i) \in Todo(run) \/ Done(ConfCmd(i))'
    <3>1. CASE ConfCmd(i) \notin Todo(run)
      <4>1. Done(ConfCmd(i)) /\ Done(LinkCmd(i, TRUE))
        BY <1>3, <2>2, <3>1 DEF On, Reaches
      <4>2. i \in up /\ cfgd[i] # "none"
        BY <4>1 DEF Done, Configured, ConfCmd, LinkCmd, Cmd
      <4> QED BY <2>1, <2>2, <4>1, <4>2 DEF Routes
    <3> QED BY <3>1
  <2>4. \A cmd \in Needs(i) : cmd \in Todo(run) \/ Done(cmd)'
    BY <1>3, <2>1, <2>3 DEF On, Reaches
  <2>5. Reaches(Needs(i), Spoils(i))'
    BY <1>3, <2>4 DEF On, Reaches
  <2> QED BY <1>3, <2>5 DEF On
<1> QED BY <1>1, <1>2, <1>3 DEF Good

LEMMA DoneFrame ==
    ASSUME UNCHANGED <<ani, up, cfgd>>, \A v : WifiWillBe(v) => WifiWillBe(v)',
           \A i \in Ifaces : Configured(i) /\ i \in Routes => Configured(i)'
    PROVE  \A cmd \in ScriptCommands : Done(cmd) /\ (cmd.op = "conf" => cmd.arg \in Routes) => Done(cmd)'
<1> TAKE cmd \in ScriptCommands
<1> HAVE Done(cmd) /\ (cmd.op = "conf" => cmd.arg \in Routes)
<1>1. cmd.op = "conf" => cmd.arg \in Ifaces
  BY DEF ScriptCommands, LinkCmd, EventCmd, AniCmd, ConfCmd, DeconfCmd, TestCmd, Cmd
<1> QED BY <1>1 DEF Done

-----------------------------------------------------------------------------
(* What the others do meanwhile. *)

LEMMA CallFields ==
    ASSUME NEW i, NEW s
    PROVE  /\ Write(i, s).op = "settings" /\ Write(i, s).arg = i
           /\ Cmd("default", i, TRUE).op = "default" /\ Cmd("default", i, TRUE).arg = i
<1>1. Write(i, s).op = "settings" /\ Write(i, s).arg = i
  BY DEF Write, Cmd
<1>2. Cmd("default", i, TRUE).op = "default" /\ Cmd("default", i, TRUE).arg = i
  BY DEF Cmd
<1> QED BY <1>1, <1>2

\* The handler of events brings wifiEnabled nearer to what the last event asks for.
LEMMA GoodEvents == ASSUME TypeInv, Good, _eventHandler PROVE Good'
<1>1. run' = run /\ tmp' = tmp /\ UNCHANGED <<ani, up, cfgd, file, call>>
  BY DEF _eventHandler, markerVars, linkVars
<1>2. \A v : WifiWillBe(v) => WifiWillBe(v)'
  <2>1. events \in Seq(BOOLEAN) /\ events # <<>> /\ events' = Tail(events) /\ wifiEnabled' = Head(events)
    BY DEF _eventHandler, TypeInv, EventsOK
  <2>2. Len(events) \in Nat /\ Len(events) >= 1 /\ Len(events') = Len(events) - 1 /\ events' \in Seq(BOOLEAN)
    BY <2>1
  <2>3. CASE Len(events) = 1
    <3>1. events' = <<>>
      BY <2>2, <2>3, EmptySeq
    <3>2. wifiEnabled' = events[Len(events)]
      BY <2>1, <2>3
    <3> QED BY <2>1, <3>1, <3>2 DEF WifiWillBe
  <2>4. CASE Len(events) # 1
    <3>1. events' # <<>> /\ events'[Len(events')] = events[Len(events)]
      <4>1. \A k \in 1..Len(events') : events'[k] = events[k + 1]
        BY <2>1, HeadTailProperties
      <4>2. Len(events') \in 1..Len(events') /\ Len(events') + 1 = Len(events)
        BY <2>2, <2>4
      <4> QED BY <2>2, <4>1, <4>2
    <3> QED BY <2>1, <3>1 DEF WifiWillBe
  <2> QED BY <2>3, <2>4
<1>3. \A i \in Ifaces : Configured(i) => Configured(i)'
  BY <1>1 DEF Configured, Writing
<1>4. \A cmd \in ScriptCommands : Done(cmd) /\ (cmd.op = "conf" => cmd.arg \in Routes) => Done(cmd)'
  BY <1>1, <1>2, <1>3, DoneFrame
<1> QED BY <1>1, <1>4, GoodFrame

\* What a call does that only reads or begins.
LEMMA GoodIdle ==
    ASSUME Good, run' = run, UNCHANGED <<tmp, ani, up, cfgd, file, events, wifiEnabled>>,
           \A i \in Ifaces, c \in Callers : Writing(c, i) => Writing(c, i)'
    PROVE  Good'
<1>1. \A v : WifiWillBe(v) => WifiWillBe(v)'
  BY DEF WifiWillBe
<1>2. \A i \in Ifaces : Configured(i) => Configured(i)'
  BY DEF Configured
<1>3. \A cmd \in ScriptCommands : Done(cmd) /\ (cmd.op = "conf" => cmd.arg \in Routes) => Done(cmd)'
  BY <1>1, <1>2, DoneFrame
<1> QED BY <1>3, GoodFrame

\* setIPSettings changes the file under a script that may just have read the old one: it will
\* restart the script, unless no route goes through the interface.
LEMMA GoodSettings ==
    ASSUME TypeInv, NEW c \in Callers, CallInv(c), Good, CallSettings(c)
    PROVE  Good'
<1>1. run' = run /\ UNCHANGED <<tmp, ani, up, cfgd, events, wifiEnabled>>
  BY DEF CallSettings, markerVars, linkVars, procVars
<1>2. call \in [Callers -> Seq(Proper)] /\ file \in [Ifaces -> Settings \cup {"dhcp"}]
  BY DEF TypeInv, ListsOK, IpOK
<1>3. call[c] # <<>> /\ Head(call[c]).op = "settings"
  BY DEF CallSettings, AtCall
<1>4. PICK i \in Ifaces, s \in Settings \cup {"dhcp"} : call[c] = Rewrite(i, s)
  <2>1. ~Committed(call[c])
    BY <1>2, <1>3, CommittedTail
  <2>2. ASSUME NEW i \in Ifaces PROVE call[c] # Reconfigure(i)
    <3>1. "dhcp" \in Settings \cup {"dhcp"}
      OBVIOUS
    <3>2. Head(Reconfigure(i)) = Cmd("default", i, TRUE)
      BY <3>1, ReconfigureCommands
    <3> QED BY <1>3, <3>2 DEF Cmd
  <2> QED BY <1>3, <2>1, <2>2 DEF CallInv
<1>5. Head(call[c]) = Write(i, s) /\ Tail(call[c]) = Reconfigure(i) /\ Reconfigure(i) # <<>>
      /\ Head(Reconfigure(i)) = Cmd("default", i, TRUE)
  BY <1>4, ReconfigureCommands
<1>6. Head(call[c]).arg = i /\ Head(call[c]).ip = s
  BY <1>5 DEF Write, Cmd
<1>a. CallDone(c) => Writing(c, i)'
  <2>1. CallDone(c) => call'[c] = Reconfigure(i)
    BY <1>2, <1>5 DEF CallDone
  <2> QED BY <1>5, <2>1 DEF Writing
<1>b. s # "dhcp" => Writing(c, i)'
  <2>1. s # "dhcp" => CallDone(c) \/ call' = call
    BY <1>6 DEF CallSettings
  <2>2. s # "dhcp" => Writing(c, i)
    BY <1>3, <1>6 DEF Writing
  <2>3. call' = call => (Writing(c, i)' <=> Writing(c, i))
    BY DEF Writing
  <2> QED BY <1>a, <2>1, <2>2, <2>3
<1>7. \A d \in Callers, j \in Ifaces : Writing(d, j) => Writing(d, j)'
  <2>1. \A d \in Callers : d # c => call'[d] = call[d]
    BY <1>2 DEF CallSettings, CallDone
  <2>2. \A d \in Callers, j \in Ifaces : d # c /\ Writing(d, j) => Writing(d, j)'
    BY <2>1 DEF Writing
  <2>3. \A j \in Ifaces : Cmd("default", j, TRUE).op = "default"
    BY CallFields
  <2>4. \A j \in Ifaces : Writing(c, j) => j = i /\ s # "dhcp"
    BY <1>3, <1>6, <2>3 DEF Writing
  <2> QED BY <1>b, <2>2, <2>4
<1>8. \/ file' = file
      \/ Writing(c, i)' /\ \A j \in Ifaces : j # i => file'[j] = file[j]
  <2>1. file' = file \/ CallDone(c) \/ s # "dhcp"
    BY <1>6 DEF CallSettings
  <2>2. \A j \in Ifaces : j # i => file'[j] = file[j]
    BY <1>2, <1>6 DEF CallSettings
  <2> QED BY <1>a, <1>b, <2>1, <2>2
<1>9. \A j \in Ifaces : Configured(j) => Configured(j)'
  BY <1>1, <1>7, <1>8 DEF Configured
<1>10. \A v : WifiWillBe(v) => WifiWillBe(v)'
  BY <1>1 DEF WifiWillBe
<1>11. \A cmd \in ScriptCommands : Done(cmd) /\ (cmd.op = "conf" => cmd.arg \in Routes) => Done(cmd)'
  BY <1>1, <1>9, <1>10, DoneFrame
<1> QED BY <1>1, <1>11, GoodFrame

\* ipv4_reconfigure_interface goes on to restart the script, or ends where the default route
\* is another interface's.
LEMMA GoodDefault ==
    ASSUME TypeInv, NEW c \in Callers, CallInv(c), Good, CallDefault(c)
    PROVE  Pending' \/ Good'
<1>1. run' = run /\ UNCHANGED <<tmp, ani, up, cfgd, file, events, wifiEnabled>>
  BY DEF CallDefault, markerVars, linkVars, procVars
<1>2. call \in [Callers -> Seq(Proper)]
  BY DEF TypeInv, ListsOK
<1>3. call[c] # <<>> /\ Head(call[c]).op = "default"
  BY DEF CallDefault, AtCall
<1>4. PICK i \in Ifaces : call[c] = Reconfigure(i)
  <2>1. ~Committed(call[c])
    BY <1>2, <1>3, CommittedTail
  <2>2. ASSUME NEW i \in Ifaces, NEW s \in Settings \cup {"dhcp"} PROVE call[c] # Rewrite(i, s)
    <3>1. Head(Rewrite(i, s)) = Write(i, s)
      BY ReconfigureCommands
    <3> QED BY <1>3, <3>1 DEF Write, Cmd
  <2> QED BY <1>3, <2>1, <2>2 DEF CallInv
<1>5. /\ Head(call[c]) = Cmd("default", i, TRUE) /\ Tail(call[c]) = <<DeconfCmd(i), Launch>>
      /\ Committed(<<DeconfCmd(i), Launch>>)
  <2>1. "dhcp" \in Settings \cup {"dhcp"}
    OBVIOUS
  <2> QED BY <1>4, <2>1, ReconfigureCommands
<1>6. CASE CallDone(c)
  <2>1. Committed(call[c])'
    BY <1>2, <1>5, <1>6 DEF CallDone
  <2> QED BY <2>1 DEF Pending
<1>7. CASE ~CallDone(c)
  <2>1. Head(call[c]).arg = i
    BY <1>5 DEF Cmd
  <2>2. Routes = {Other(i)} /\ call' = [call EXCEPT ![c] = <<>>]
    BY <1>7, <2>1 DEF CallDefault
  <2>3. i \notin Routes
    BY <2>2 DEF Other, Ifaces
  <2>4. \A d \in Callers : d # c => call'[d] = call[d]
    BY <1>2, <2>2
  <2>5. \A d \in Callers, j \in Ifaces : j # i /\ Writing(d, j) => Writing(d, j)'
    BY <1>5, <2>4 DEF Writing, Cmd
  <2>6. \A j \in Ifaces : Configured(j) /\ j \in Routes => Configured(j)'
    BY <1>1, <2>3, <2>5 DEF Configured
  <2>7. \A v : WifiWillBe(v) => WifiWillBe(v)'
    BY <1>1 DEF WifiWillBe
  <2>8. \A cmd \in ScriptCommands : Done(cmd) /\ (cmd.op = "conf" => cmd.arg \in Routes) => Done(cmd)'
    BY <1>1, <2>6, <2>7, DoneFrame
  <2> QED BY <1>1, <2>8, GoodFrame
<1> QED BY <1>6, <1>7

\* Any other command belongs to a call that will restart the script.
LEMMA GoodCall ==
    ASSUME TypeInv, NEW c \in Callers, CallInv(c), Good, ~Pending, CallStep(c)
    PROVE  Pending' \/ Good'
<1>1. call[c] # <<>> /\ ~Committed(call[c])
  BY CallStepShape DEF Pending
<1>2. Head(call[c]).op \in {"settings", "default"}
  <2>1. ASSUME NEW i \in Ifaces, NEW s \in Settings \cup {"dhcp"}
        PROVE  /\ Head(Rewrite(i, s)).op = "settings"
               /\ Head(Reconfigure(i)).op = "default"
    <3>1. Head(Rewrite(i, s)) = Write(i, s) /\ Head(Reconfigure(i)) = Cmd("default", i, TRUE)
      BY ReconfigureCommands
    <3>2. Write(i, s).op = "settings" /\ Cmd("default", i, TRUE).op = "default"
      BY CallFields
    <3> QED BY <3>1, <3>2
  <2>2. "dhcp" \in Settings \cup {"dhcp"}
    OBVIOUS
  <2> QED BY <1>1, <2>1, <2>2 DEF CallInv
<1>3. CallSettings(c) \/ CallDefault(c)
  BY <1>2 DEF CallStep, CallMarker, CallLink, CallWifi, CallDeconfigure, CallLaunch, AtCall
<1> QED BY <1>3, GoodSettings, GoodDefault

LEMMA GoodBegin ==
    ASSUME TypeInv, NEW c \in Callers, NEW list, Begins(c, list), Good
    PROVE  Good'
<1>1. run' = run /\ UNCHANGED <<tmp, ani, up, cfgd, file, events, wifiEnabled>>
  BY DEF Begins, markerVars, linkVars, procVars
<1>2. call[c] = <<>> /\ \A d \in Callers : d # c => call'[d] = call[d]
  BY DEF Begins, TypeInv, ListsOK
<1>3. \A i \in Ifaces, d \in Callers : Writing(d, i) => Writing(d, i)'
  BY <1>2 DEF Writing
<1> QED BY <1>1, <1>3, GoodIdle
-----------------------------------------------------------------------------
(* The theorems. *)

IInv == TypeInv /\ (alive => loaded) /\ (\A c \in Callers : CallInv(c)) /\ Settling

LEMMA InitInv == Init => IInv
<1> SUFFICES ASSUME Init PROVE IInv
  OBVIOUS
<1>1. \A c \in Callers : CallInv(c)
  BY DEF Init, CallInv
<1>2. Settling
  BY DEF Init, Settling, Pending
<1> QED BY <1>1, <1>2, InitTypeInv DEF IInv, Init

\* A script that has just been restarted chooses from the markers as they are now.
LEMMA RestartedStep ==
    ASSUME TypeInv, run = Restarted, [Next]_vars
    PROVE  run' = Restarted \/ Good'
<1>0. Head(run).op = "start"
  <2>1. PICK x : x = Cmd("start", "", TRUE)
    OBVIOUS
  <2>2. run = <<x>> /\ x.op = "start"
    BY <2>1 DEF Restarted, Cmd
  <2> QED BY <2>2
<1>1. CASE pni_controller
  <2>1. PniChoose
    BY <1>0, <1>1 DEF pni_controller, PniLink, PniEvent, PniAni, PniMarker, PniDeconfigure, PniConfigure, PniTest,
                      AtRun
  <2>2. run' = Choice /\ tmp' = tmp
    BY <2>1 DEF PniChoose, markerVars
  <2> QED BY <2>2, ChoiceScript, FreshGood
<1>2. ASSUME NEW c \in Callers, CallStep(c) PROVE run' \in {run, Restarted}
  BY <1>2 DEF CallStep, CallMarker, CallLink, CallWifi, CallSettings, CallDefault, CallDeconfigure, CallLaunch
<1>3. ASSUME NEW c \in Callers, NEW i \in Ifaces,
             \/ \E persist \in BOOLEAN : \/ \E enabled \in BOOLEAN : setInterfaceEnabled(c, i, enabled, persist)
                                         \/ setDefaultInterface(c, i, persist)
             \/ \E s \in Settings \cup {"dhcp"} : setIPSettings(c, i, s)
      PROVE  run' = run
  BY <1>3, BeginList DEF Begins
<1>4. _eventHandler \/ netSrvMgr_start \/ LoadSettings \/ Crash \/ Reboot \/ CarrierChanges
        => run' \in {run, Restarted}
  BY DEF _eventHandler, netSrvMgr_start, LoadSettings, Crash, Reboot, CarrierChanges
<1>5. UNCHANGED vars => run' = run
  BY DEF vars
<1> QED BY <1>1, <1>2, <1>3, <1>4, <1>5 DEF Next

LEMMA GoodStep ==
    ASSUME TypeInv, alive => loaded, \A c \in Callers : CallInv(c), Good, ~Pending, [Next]_vars
    PROVE  Settling'
<1>0. alive /\ loaded
  BY DEF Pending
<1>1. CASE pni_controller
  BY <1>0, <1>1, GoodScript DEF Settling
<1>2. ASSUME NEW c \in Callers, CallStep(c) PROVE Settling'
  BY <1>2, GoodCall DEF Settling
<1>3. ASSUME NEW c \in Callers, NEW i \in Ifaces,
             \/ \E persist \in BOOLEAN : \/ \E enabled \in BOOLEAN : setInterfaceEnabled(c, i, enabled, persist)
                                         \/ setDefaultInterface(c, i, persist)
             \/ \E s \in Settings \cup {"dhcp"} : setIPSettings(c, i, s)
      PROVE  Settling'
  <2>1. PICK list \in Seq(Proper) : Begins(c, list)
    BY <1>3, BeginList
  <2> QED BY <2>1, GoodBegin DEF Settling
<1>4. CASE _eventHandler
  BY <1>4, GoodEvents DEF Settling
<1>5. ~netSrvMgr_start /\ ~LoadSettings
  BY <1>0 DEF netSrvMgr_start, LoadSettings
<1>6. CASE Crash \/ Reboot
  BY <1>6 DEF Crash, Reboot, Settling, Pending
<1>7. CASE CarrierChanges
  <2>1. UNCHANGED <<tmp, ani, up, cfgd, file, events, wifiEnabled, call>> /\ run' \in {run, Restarted}
    BY <1>7 DEF CarrierChanges, markerVars, linkVars, procVars
  <2>2. \A i \in Ifaces, c \in Callers : Writing(c, i) => Writing(c, i)'
    BY <2>1 DEF Writing
  <2> QED BY <2>1, <2>2, GoodIdle DEF Settling
<1>8. CASE UNCHANGED vars
  <2>1. UNCHANGED <<tmp, ani, up, cfgd, file, events, wifiEnabled, call>> /\ run' = run
    BY <1>8 DEF vars, markerVars, linkVars, procVars
  <2>2. \A i \in Ifaces, c \in Callers : Writing(c, i) => Writing(c, i)'
    BY <2>1 DEF Writing
  <2> QED BY <2>1, <2>2, GoodIdle DEF Settling
<1> QED BY <1>1, <1>2, <1>3, <1>4, <1>5, <1>6, <1>7, <1>8 DEF Next

LEMMA InvStep == IInv /\ [Next]_vars => IInv'
<1> SUFFICES ASSUME IInv, [Next]_vars PROVE IInv'
  OBVIOUS
<1>0. TypeInv /\ (alive => loaded) /\ (\A c \in Callers : CallInv(c)) /\ Settling
  BY DEF IInv
<1>1. Settling'
  BY <1>0, PendingStep, RestartedStep, GoodStep DEF Settling
<1> QED BY <1>0, <1>1, StepType, LoadedStep, ListStep DEF IInv

\* At any time a restart of the script is certain to come, or it has just come, or what the
\* script has left to do leads to a consistent state.
THEOREM Invariance == Spec => []IInv
BY InitInv, InvStep, PTL DEF Spec

\* When all is quiet the script has led the box to a state that has all its commands' effects.
LEMMA RestIsGood ==
    ASSUME IInv, AtRest
    PROVE  /\ \A i \in Ifaces : Forbidden(i) => \A cmd \in Switch(i, FALSE) : Done(cmd)
           /\ ~AllDisallowed => \E i \in Ifaces : ~Forbidden(i) /\ \A cmd \in Needs(i) : Done(cmd)
<1>1. ~Pending
  BY DEF AtRest, Pending, Committed
<1>2. run = <<>> /\ run # Restarted
  BY DEF AtRest, Restarted
<1>3. Good /\ Todo(run) = {}
  BY <1>1, <1>2, TodoTuples DEF IInv, Settling
<1> QED BY <1>3 DEF Good, Off, On, Reaches

\* At rest only the effects that matter are left: no event and no writer is under way.
LEMMA DoneAtRest ==
    ASSUME AtRest
    PROVE  /\ \A v : Done(EventCmd(v)) <=> wifiEnabled = v
           /\ \A v : Done(AniCmd(v)) <=> ani = v
           /\ \A i : Done(LinkCmd(i, TRUE)) <=> i \in up
           /\ \A i : Done(LinkCmd(i, FALSE)) <=> i \notin up
           /\ \A i : Done(DeconfCmd(i)) <=> cfgd[i] = "none"
           /\ \A i : Done(ConfCmd(i)) <=> cfgd[i] # "none" /\ cfgd[i] = file[i]
<1>1. events = <<>> /\ \A c \in Callers : \A i : ~Writing(c, i)
  BY DEF AtRest, Writing
<1>2. \A v : Done(EventCmd(v)) <=> wifiEnabled = v
  BY <1>1 DEF Done, EventCmd, Cmd, WifiWillBe
<1>3. \A v : Done(AniCmd(v)) <=> ani = v
  BY DEF Done, AniCmd, Cmd
<1>4. \A i : Done(LinkCmd(i, TRUE)) <=> i \in up
  BY DEF Done, LinkCmd, Cmd
<1>5. \A i : Done(LinkCmd(i, FALSE)) <=> i \notin up
  BY DEF Done, LinkCmd, Cmd
<1>6. \A i : Done(DeconfCmd(i)) <=> cfgd[i] = "none"
  BY DEF Done, DeconfCmd, Cmd
<1>7. \A i : Done(ConfCmd(i)) <=> cfgd[i] # "none" /\ cfgd[i] = file[i]
  BY <1>1 DEF Done, ConfCmd, Cmd, Configured
<1> QED BY <1>2, <1>3, <1>4, <1>5, <1>6, <1>7

\* At rest one interface is the active one, allowed and configured from its file.
LEMMA ActiveAtRest ==
    ASSUME IInv, AtRest, ~AllDisallowed
    PROVE  /\ {i \in Ifaces : cfgd[i] # "none"} = {Active}
           /\ Active \in up /\ Disallowed(Active) \notin tmp
           /\ Active = "WIFI" => wifiEnabled
           /\ cfgd[Active] = file[Active]
<1>1. PICK i \in Ifaces : ~Forbidden(i) /\ \A cmd \in Needs(i) : Done(cmd)
  BY RestIsGood
<1>2. CASE i = "WIFI"
  <2>1. ani = TRUE /\ "WIFI" \in up /\ wifiEnabled = TRUE
    BY <1>1, <1>2, DoneAtRest DEF Needs
  <2>2. cfgd["ETHERNET"] = "none" /\ cfgd["WIFI"] # "none" /\ cfgd["WIFI"] = file["WIFI"]
    BY <1>1, <1>2, DoneAtRest DEF Needs
  <2>3. Active = "WIFI"
    BY <2>1 DEF Active
  <2>4. {j \in Ifaces : cfgd[j] # "none"} = {"WIFI"}
    BY <2>2 DEF Ifaces
  <2> QED BY <1>1, <1>2, <2>1, <2>2, <2>3, <2>4 DEF Forbidden
<1>3. CASE i = "ETHERNET"
  <2>1. ani = FALSE /\ "ETHERNET" \in up
    BY <1>1, <1>3, DoneAtRest DEF Needs
  <2>2. cfgd["WIFI"] = "none" /\ cfgd["ETHERNET"] # "none" /\ cfgd["ETHERNET"] = file["ETHERNET"]
    BY <1>1, <1>3, DoneAtRest DEF Needs
  <2>3. Active = "ETHERNET"
    BY <2>1 DEF Active
  <2>4. {j \in Ifaces : cfgd[j] # "none"} = {"ETHERNET"}
    BY <2>2 DEF Ifaces
  <2> QED BY <1>1, <1>3, <2>1, <2>2, <2>3, <2>4 DEF Forbidden
<1> QED BY <1>2, <1>3 DEF Ifaces

\* For any number of bus threads, calls, crashes and boots: when setInterfaceEnabled, the
\* script and the events have come to rest, a disallowed interface is down and Wi-Fi disabled.
THEOREM DisallowedStaysDown == Spec => []DisallowedIsDown
<1>1. IInv => DisallowedIsDown
  <2> SUFFICES ASSUME IInv, AtRest, NEW i \in Ifaces, Disallowed(i) \in tmp
               PROVE  i \notin up /\ (i = "WIFI" => ~wifiEnabled)
    BY DEF DisallowedIsDown
  <2>1. \A cmd \in Switch(i, FALSE) : Done(cmd)
    BY RestIsGood DEF Forbidden
  <2>2. CASE i = "WIFI"
    <3>1. "WIFI" \notin up /\ wifiEnabled = FALSE
      BY <2>1, <2>2, DoneAtRest DEF Switch
    <3> QED BY <2>2, <3>1
  <2>3. CASE i = "ETHERNET"
    <3>1. "ETHERNET" \notin up
      BY <2>1, <2>3, DoneAtRest DEF Switch
    <3> QED BY <2>3, <3>1
  <2> QED BY <2>2, <2>3 DEF Ifaces
<1> QED BY <1>1, Invariance, PTL

\* For any number of bus threads, calls, crashes and boots: at rest exactly the interface that
\* /tmp/ani_wifi names has addresses, and it is up, allowed and served.
THEOREM OneIsActive == Spec => []OneInterfaceActive
<1>1. IInv => OneInterfaceActive
  BY ActiveAtRest DEF OneInterfaceActive
<1> QED BY <1>1, Invariance, PTL

\* For any settings and any overlap of setIPSettings with the script and other calls: at rest
\* the active interface has the settings of its file.
THEOREM SettingsAreApplied == Spec => []SettingsApplied
<1>1. IInv => SettingsApplied
  BY ActiveAtRest DEF SettingsApplied
<1> QED BY <1>1, Invariance, PTL

====
