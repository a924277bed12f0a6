---------------------------- MODULE SystemSettings ----------------------------
(***************************************************************************)
(* The proxy settings of the machine, and the commands that read and       *)
(* change them: hamsy-api/src/sysproxy.rs.                                 *)
(*                                                                         *)
(* The settings of a platform are named values: those of each network      *)
(* service on macOS (networksetup), of a registry key on Windows (reg), of *)
(* org.gnome.system.proxy on Linux (gsettings).  A command changes one of  *)
(* them; a function of sysproxy.rs runs its commands in order and returns  *)
(* at the first that fails, unless it ignores it.  Text formats are left   *)
(* out, except where what is read back is not what was there.              *)
(***************************************************************************)
EXTENDS Integers, Sequences

CONSTANTS Services,  \* macOS: the active network services, in networksetup's order
          Bypass,    \* system_proxy_bypass of hamsy-proxy's own settings
          None       \* a value that a snapshot does not have

\* A proxy of a network service: its server, remembered while it is off.
Proxies == [server : STRING, on : BOOLEAN]

\* enable is of use where there is a network service.
ASSUME ServicesAssumption == Services \in Seq(STRING) /\ Services # <<>>
ASSUME ValuesAssumption   == Bypass \in STRING /\ None \notin STRING \union Proxies

Absent   == "absent"      \* Windows: there is no such value
Loopback == "127.0.0.1"

\* The words of the commands are strings, which the provers do not know.
ASSUME WordsAssumption ==
  {"", "0x0", "0x1", "REG_SZ", "manual", "none", Absent, Loopback} \subseteq STRING

\* A server is named by its port when it is an instance of hamsy-proxy.
Settings(platform, values) == [platform |-> platform, values |-> values]

\* A command writes a value, or turns a proxy on or off.
Assign(key, value) == [key |-> key, value |-> value]
Switch(key, on)    == [key |-> key, on |-> on]

Written(value, command) ==
  IF "on" \in DOMAIN command THEN [value EXCEPT !.on = command.on] ELSE command.value
Perform(values, command) ==
  [values EXCEPT ![command.key] = Written(@, command)]

\* The values after each number of commands.
After(values, commands) ==
  LET after[n \in 0..Len(commands)] ==
        IF n = 0 THEN values ELSE Perform(after[n - 1], commands[n])
  IN after

\* Restoring on Windows ignores a delete that fails: the value stays.
Deletes(o, commands) ==
  {n \in DOMAIN commands : o.platform = "windows" /\ commands[n] = Assign(commands[n].key, Absent)}
Ignoring(o, commands, ignored) ==
  [n \in DOMAIN commands |-> LET key == commands[n].key
                             IN IF n \in ignored THEN Assign(key, o.values[key]) ELSE commands[n]]

\* What is left when all commands ran, or when some of them failed, which may
\* have had their effect.
Done(o, commands) == Settings(o.platform, After(o.values, commands)[Len(commands)])
Outcomes(o, commands, failed) ==
  IF ~failed THEN {Done(o, commands)}
  ELSE {Settings(o.platform, After(o.values, Ignoring(o, commands, ignored))[n]) :
          ignored \in SUBSET Deletes(o, commands), n \in 0..Len(commands)}

\* The commands for each element of a list, one after the other.
Each(list, commands) ==
  LET first[n \in 0..Len(list)] ==
        IF n = 0 THEN <<>> ELSE first[n - 1] \o commands[list[n]]
  IN first[Len(list)]

-----------------------------------------------------------------------------
\* macOS: "-setwebproxy" and "-setsecurewebproxy" turn the proxy on as well.
AllServices == {Services[n] : n \in 1..Len(Services)}
MacKeys     == AllServices \X {"web", "secure", "bypass"}

Point(s, kind, server) == Assign(<<s, kind>>, [server |-> server, on |-> TRUE])
State(s, kind, on)     == Switch(<<s, kind>>, on)
Exempt(s, list)        == Assign(<<s, "bypass">>, list)

MacEnable(server) ==
  Each(Services, [s \in AllServices |->
    <<Point(s, "web", server), Point(s, "secure", server), Exempt(s, Bypass),
      State(s, "web", TRUE), State(s, "secure", TRUE)>>])

MacDisable ==
  Each(Services, [s \in AllServices |-> <<State(s, "web", FALSE), State(s, "secure", FALSE)>>])

\* A proxy that was off, or had no server, is turned off; its server stays
\* what enable made it.
MacRestoreKind(s, kind, was) ==
  IF was.on /\ was.server # ""
  THEN <<Point(s, kind, was.server), State(s, kind, TRUE)>>
  ELSE <<State(s, kind, FALSE)>>

MacRestore(was) ==
  Each(Services, [s \in AllServices |->
    <<Exempt(s, was[<<s, "bypass">>])>>
      \o MacRestoreKind(s, "web", was[<<s, "web">>])
      \o MacRestoreKind(s, "secure", was[<<s, "secure">>])])

MacStatusFor(v, server) ==
  LET web == v[<<Services[1], "web">>] IN web.on /\ web.server = server

-----------------------------------------------------------------------------
\* Windows.
Reg(name) == <<"reg", name>>
WinKeys   == {Reg("ProxyEnable"), Reg("ProxyServer"), Reg("ProxyOverride")}

WinEnable(server) ==
  <<Assign(Reg("ProxyEnable"), "0x1"), Assign(Reg("ProxyServer"), server),
    Assign(Reg("ProxyOverride"), Bypass)>>

WinDisable == <<Assign(Reg("ProxyEnable"), "0x0")>>

\* parse_reg_value takes the last word of the line: the type, if the value is
\* empty.  Values of several words are left out.
WinRead(value) == CASE value = Absent -> None [] value = "" -> "REG_SZ" [] OTHER -> value

\* A value that was not there is deleted.  Mutant: it is written.
WrittenBack(name, value) == Assign(Reg(name), value)
PutBack(name, value)     == Assign(Reg(name), IF value = None THEN Absent ELSE value)

WinRestore(was) ==
  <<PutBack("ProxyEnable", was[Reg("ProxyEnable")]),
    PutBack("ProxyServer", was[Reg("ProxyServer")]),
    PutBack("ProxyOverride", was[Reg("ProxyOverride")])>>

WinStatusFor(v, server) ==
  v[Reg("ProxyEnable")] = "0x1" /\ v[Reg("ProxyServer")] = server

-----------------------------------------------------------------------------
\* Linux: the host and the port of a server are set one after the other.
Mode       == <<"proxy", "mode">>
Ignored    == <<"proxy", "ignore-hosts">>
LinuxOrder == <<Mode, <<"http", "host">>, <<"http", "port">>,
                <<"https", "host">>, <<"https", "port">>, Ignored>>
LinuxKeys  == {LinuxOrder[n] : n \in 1..6}

LinuxEnable(server) ==
  <<Assign(Mode, "manual"),
    Assign(<<"http", "host">>, Loopback), Assign(<<"http", "port">>, server),
    Assign(<<"https", "host">>, Loopback), Assign(<<"https", "port">>, server),
    Assign(Ignored, Bypass)>>

LinuxDisable == <<Assign(Mode, "none")>>

\* What was not captured is not restored.
LinuxRestore(was) ==
  Each(LinuxOrder, [k \in LinuxKeys |-> IF was[k] = None THEN <<>> ELSE <<Assign(k, was[k])>>])

LinuxStatusFor(v, server) ==
  /\ v[Mode] = "manual"
  /\ v[<<"http", "host">>] = Loopback /\ v[<<"http", "port">>] = server

-----------------------------------------------------------------------------
\* What the values of a platform may be.
Keys(platform) ==
  CASE platform = "macos" -> MacKeys
    [] platform = "windows" -> WinKeys
    [] platform = "linux" -> LinuxKeys

Values(platform, k) ==
  IF platform = "macos" /\ k[2] # "bypass" THEN Proxies ELSE STRING

IsSettings(o) ==
  /\ o.platform \in {"macos", "windows", "linux"}
  /\ o = Settings(o.platform, [k \in Keys(o.platform) |-> o.values[k]])
  /\ \A k \in Keys(o.platform) : o.values[k] \in Values(o.platform, k)

\* enable, disable
EnableCommands(o, server) ==
  CASE o.platform = "macos" -> MacEnable(server)
    [] o.platform = "windows" -> WinEnable(server)
    [] o.platform = "linux" -> LinuxEnable(server)

DisableCommands(o) ==
  CASE o.platform = "macos" -> MacDisable
    [] o.platform = "windows" -> WinDisable
    [] o.platform = "linux" -> LinuxDisable

\* snapshot, and what it is when a command fails: Snapshot::Unknown; but a
\* value of the registry is then taken for absent, unless reg cannot be run,
\* and one of gsettings is left out.
Read(o, value) == IF o.platform = "windows" THEN WinRead(value) ELSE value
SnapshotOf(o)  == Settings(o.platform, [k \in Keys(o.platform) |-> Read(o, o.values[k])])
Without(s, k)  == Settings(s.platform, [s.values EXCEPT ![k] = None])

FailedSnapshots(o) ==
  (IF o.platform = "linux" THEN {} ELSE {Settings("unknown", <<>>)})
    \union (IF o.platform = "macos" THEN {}
            ELSE {Without(SnapshotOf(o), k) : k \in Keys(o.platform)})

\* A snapshot of settings of o's platform.
IsSnapshot(s, o) ==
  \/ s = Settings("unknown", <<>>)
  \/ /\ s = Settings(o.platform, [k \in Keys(o.platform) |-> s.values[k]])
     /\ \A k \in Keys(o.platform) :
          \/ s.values[k] \in Values(o.platform, k)
          \/ o.platform # "macos" /\ s.values[k] = None

\* restore: an unknown snapshot can only be turned off.
RestoreCommands(o, snapshot) ==
  CASE snapshot.platform = "unknown" -> DisableCommands(o)
    [] snapshot.platform = "macos" -> MacRestore(snapshot.values)
    [] snapshot.platform = "windows" -> WinRestore(snapshot.values)
    [] snapshot.platform = "linux" -> LinuxRestore(snapshot.values)

\* status_for: an instance asks whether the machine is pointed at it.
StatusFor(o, server) ==
  CASE o.platform = "macos" -> MacStatusFor(o.values, server)
    [] o.platform = "windows" -> WinStatusFor(o.values, server)
    [] o.platform = "linux" -> LinuxStatusFor(o.values, server)

-----------------------------------------------------------------------------
\* The settings as far as they have an effect: on macOS a proxy has none that
\* is off or without a server, nor has on Windows the word that is read for an
\* empty value.
Effective(platform, k, value) ==
  CASE platform = "macos" /\ k[2] # "bypass" ->
         IF value.on /\ value.server # "" THEN value ELSE [server |-> "", on |-> FALSE]
    [] platform = "windows" -> IF value = "REG_SZ" THEN "" ELSE value
    [] OTHER -> value

Effect(o) ==
  Settings(o.platform,
           [k \in Keys(o.platform) |-> Effective(o.platform, k, o.values[k])])
=============================================================================
