---------------------------- MODULE ServiceStart ----------------------------
(***************************************************************************)
(* Starting, adopting and stopping the two services of an archive          *)
(* (kvpark/hermes_service.py: Service.ensure, supervise; runtime.py:       *)
(* launch; network.py; proxy.py: main; removal.py: stop; hermes.py,        *)
(* cli.py and setup.py: who calls ensure(), with which settings).          *)
(*                                                                         *)
(* Hermes processes, `kvpark start` with and without --supervise, and      *)
(* setups ("agents") ensure that a llama-server and a proxy run.  They do  *)
(* so one at a time, under .hermes-start.lock, but what they start is      *)
(* detached: it lives on when its agent goes away in the middle, and it    *)
(* dies on its own.  Nothing but two files says what runs: runtime.json    *)
(* names the llama-server and proxy.json the proxy.  A record counts while *)
(* its process lives.                                                      *)
(*                                                                         *)
(* An archive may be shared: settings are those of a Hermes profile, or    *)
(* "standalone" (setup.json), and an uninstall is of one of them.  Only a  *)
(* Hermes process reads its settings each time.                            *)
(*                                                                         *)
(* This is the managed llama.cpp backend.  A process keeps its identity    *)
(* (pid and creation time) for as long as anything refers to it.           *)
(***************************************************************************)
EXTENDS Naturals, FiniteSets

CONSTANTS
  Agents,     \* whoever starts the services
  Kind,       \* each agent: "hermes", "start", "supervisor" or "setup"
  Profile,    \* whose settings it has: a Hermes profile's, or "standalone"
  Wanted,     \* the model, server and arguments each agent is configured with
  Backends,   \* launchers (`kvpark backend`), each with its llama-server
  Proxies,    \* proxy processes (`kvpark serve`)
  Ports,      \* for the llama-servers
  Attempts,   \* launch() tries this many ports: 5
  Budget,     \* bound: faults and stops in a behaviour
  Faults      \* what may happen

FaultKinds == {"die", "kill", "early-kill", "stuck", "port", "slow", "deaf", "exit", "save",
               "manifest", "stop", "uninstall"}

Kinds == {"hermes", "start", "supervisor", "setup"}
Profiles == {Profile[a] : a \in Agents}

ASSUME StartAssumption ==
  /\ DOMAIN Wanted = Agents /\ DOMAIN Profile = Agents
  /\ Kind \in [Agents -> Kinds]
  /\ \A a \in Agents :
       /\ Kind[a] = "hermes" => Profile[a] # "standalone"
       /\ Kind[a] = "setup" => Profile[a] = "standalone"
  /\ "none" \notin Profiles
  /\ Attempts \in Nat \ {0} /\ Budget \in Nat
  /\ Faults \subseteq FaultKinds
  /\ "nobody" \notin Agents /\ "stop" \notin Agents
  /\ "none" \notin Backends \cup Proxies \cup Ports

VARIABLES
  uninstalled,  \* the profiles with that setting, and "standalone" without a setup.json
  outdated,     \* the setups that saw other settings than are saved now
  holder,       \* of .hermes-start.lock
  at,           \* where each agent is in ensure(), or after it; "asleep": between two passes
  seen,         \* the live proxy.json it has read, or "none"
  port,         \* its upstream_port
  child,        \* the processes it has started
  launcher,     \* each launcher: "none", "starting", "locked", "spawned", "watching", "stopping"
  tries,        \* ... and the ports it has tried
  server,       \* its llama-server: "none", "loading" or "ready"
  loaded,       \* ... what it runs
  listens,      \* ... and where
  manifest,     \* runtime.json
  proxy,        \* each proxy: "none", "starting", "listening" or "serving"
  upstream,     \* the port it forwards to
  record,       \* proxy.json
  stop,         \* a `kvpark stop` or uninstall
  budget        \* faults left

settings == <<uninstalled, outdated>>
agents == <<at, seen, port, child>>
backends == <<launcher, tries, server, loaded, listens, manifest>>
proxies == <<proxy, upstream, record>>
vars == <<settings, holder, agents, backends, proxies, stop, budget>>

NoChild == [backend |-> "none", proxy |-> "none"]

Init ==
  /\ uninstalled = {}
  /\ outdated = {}
  /\ holder = "nobody"
  /\ at = [a \in Agents |-> "idle"]
  /\ seen = [a \in Agents |-> "none"]
  /\ port = [a \in Agents |-> "none"]
  /\ child = [a \in Agents |-> NoChild]
  /\ launcher = [b \in Backends |-> "none"]
  /\ tries = [b \in Backends |-> 0]
  /\ server = [b \in Backends |-> "none"]
  /\ loaded = [b \in Backends |-> "none"]
  /\ listens = [b \in Backends |-> "none"]
  /\ manifest = "none"
  /\ proxy = [p \in Proxies |-> "none"]
  /\ upstream = [p \in Proxies |-> "none"]
  /\ record = "none"
  /\ stop = [at |-> "idle", profile |-> "none", proxy |-> "none", backend |-> "none"]
  /\ budget = Budget

Fault(kind) ==
  /\ kind \in Faults /\ budget > 0
  /\ budget' = budget - 1

-----------------------------------------------------------------------------
(* What the records say: process_matches(), managed_port(), _owned_backend() *)

\* Mutant: a record counts for as long as the file is there.
RecordStands == {record} \cap Proxies

RecordedBackend == {b \in {manifest} \cap Backends : server[b] # "none"}
RecordedProxy == {p \in {record} \cap Proxies : proxy[p] # "none"}

\* Mutant: any llama-server of the archive will do.
SomeBackend(a) == \E b \in RecordedBackend : listens[b] = port[a]

Owned(a) ==
  \E b \in RecordedBackend : loaded[b] = Wanted[a] /\ listens[b] = port[a]

\* A process that is not there and that nothing refers to.
FreshBackend(b) ==
  /\ launcher[b] = "none" /\ server[b] = "none"
  /\ b # manifest /\ b # stop.backend
  /\ \A a \in Agents : b # child[a].backend

FreshProxy(p) ==
  /\ proxy[p] = "none"
  /\ p # record /\ p # stop.proxy
  /\ \A a \in Agents : p # child[a].proxy /\ p # seen[a]

\* What the agent has started and still runs.
OwnProxy(a) == {p \in Proxies \cap {child[a].proxy} : proxy[p] # "none"}
OwnLauncher(a) == {b \in Backends \cap {child[a].backend} : launcher[b] # "none"}

-----------------------------------------------------------------------------
(* ensure() *)

\* A supervisor goes on to its next pass; other agents read their settings anew.
Rest == {"idle", "asleep"}
Home(a) == IF Kind[a] = "supervisor" THEN "asleep" ELSE "idle"

\* Leaving ensure(), with the lock.
Returns(a) ==
  /\ at' = [at EXCEPT ![a] = Home(a)]
  /\ seen' = [seen EXCEPT ![a] = "none"]
  /\ port' = [port EXCEPT ![a] = "none"]
  /\ child' = [child EXCEPT ![a] = NoChild]
  /\ holder' = "nobody"

\* An error: what was started is stopped before the lock is released.
Fails(a) ==
  /\ at' = [at EXCEPT ![a] = "cleaning"]
  /\ UNCHANGED <<holder, seen, port, child>>

\* The services run.  Hermes stores what was resolved, with the lock; a setup saves its
\* settings without.
Succeeds(a) ==
  \/ Kind[a] # "setup" /\ Returns(a) /\ UNCHANGED budget
  \/ Kind[a] = "hermes" /\ Fault("save") /\ Fails(a)
  \/ /\ Kind[a] = "setup"
     /\ at' = [at EXCEPT ![a] = "saving"]
     /\ holder' = "nobody"
     /\ UNCHANGED <<seen, port, child, budget>>

\* `kvpark start` reads the settings when it begins, and so does a supervisor, which has
\* them for all its passes; a setup has its own.
Begin(a) ==
  /\ \/ at[a] = "asleep"
     \/ at[a] = "idle" /\ (Kind[a] = "setup" \/ Profile[a] \notin uninstalled)
  /\ at' = [at EXCEPT ![a] = "waiting"]
  /\ outdated' = outdated \ {a}
  /\ UNCHANGED <<uninstalled, holder, seen, port, child, backends, proxies, stop, budget>>

\* settings()["uninstalled"], for who reads it again
Disabled(a) == Kind[a] = "hermes" /\ Profile[a] \in uninstalled

\* Mutant: the setting is not read again under the lock.
LocksOnly(a) ==
  /\ at[a] = "waiting" /\ holder = "nobody"
  /\ holder' = a
  /\ at' = [at EXCEPT ![a] = "reading"]
  /\ UNCHANGED <<settings, seen, port, child, backends, proxies, stop, budget>>

\* Mutant: who finds startup disabled asks again and again.
WaitsForSetup(a) ==
  /\ at[a] = "waiting" /\ holder = "nobody"
  /\ \/ Disabled(a) /\ UNCHANGED <<holder, at>>
     \/ ~Disabled(a) /\ holder' = a /\ at' = [at EXCEPT ![a] = "reading"]
  /\ UNCHANGED <<settings, seen, port, child, backends, proxies, stop, budget>>

\* "startup was disabled while waiting for the archive"
Locks(a) ==
  /\ at[a] = "waiting" /\ holder = "nobody"
  /\ \/ Disabled(a) /\ Returns(a)
     \/ /\ ~Disabled(a)
        /\ holder' = a
        /\ at' = [at EXCEPT ![a] = "reading"]
        /\ UNCHANGED <<seen, port, child>>
  /\ UNCHANGED <<settings, backends, proxies, stop, budget>>

\* proxy.json, or the port in runtime.json, or the one in the settings.
Reads(a) ==
  /\ at[a] = "reading"
  /\ at' = [at EXCEPT ![a] = "asking"]
  /\ \/ \E p \in RecordedProxy :
          /\ seen' = [seen EXCEPT ![a] = p]
          /\ port' = [port EXCEPT ![a] = upstream[p]]
     \/ /\ RecordedProxy = {}
        /\ UNCHANGED seen
        /\ \/ \E b \in RecordedBackend : port' = [port EXCEPT ![a] = listens[b]]
           \/ RecordedBackend = {} /\ \E q \in Ports : port' = [port EXCEPT ![a] = q]
  /\ UNCHANGED <<settings, holder, child, backends, proxies, stop, budget>>

\* The proxy that may answer _existing(): the recorded one, or one that now listens at
\* the configured address.
Answers(a, p) ==
  /\ proxy[p] = "serving"
  /\ seen[a] \in {p, "none"}
  /\ upstream[p] = port[a]

\* A compatible proxy runs.  Its backend must be the configured one.
Adopts(a) ==
  /\ at[a] = "asking"
  /\ \E p \in Proxies : Answers(a, p)
  /\ IF Owned(a) THEN Succeeds(a) ELSE Fails(a) /\ UNCHANGED budget
  /\ UNCHANGED <<settings, backends, proxies, stop>>

\* No answer.  A recorded proxy "is running but unavailable"; otherwise go on.
NoAnswer(a) ==
  /\ at[a] = "asking"
  /\ \/ UNCHANGED budget /\ \A p \in Proxies \cap {seen[a]} : ~Answers(a, p)
     \/ Fault("deaf")
  /\ \/ seen[a] # "none" /\ Fails(a)
     \/ /\ seen[a] = "none"
        /\ at' = [at EXCEPT ![a] = "backend"]
        /\ UNCHANGED <<holder, seen, port, child>>
  /\ UNCHANGED <<settings, backends, proxies, stop>>

\* A llama-server is recorded: it must be the configured one, but need not be ready.
FindsBackend(a) ==
  /\ at[a] = "backend"
  /\ \E b \in RecordedBackend :
       IF loaded[b] = Wanted[a]
       THEN /\ port' = [port EXCEPT ![a] = listens[b]]
            /\ at' = [at EXCEPT ![a] = "proxy"]
            /\ UNCHANGED <<holder, seen, child>>
       ELSE Fails(a)
  /\ UNCHANGED <<settings, backends, proxies, stop, budget>>

LaunchesBackend(a) ==
  /\ at[a] = "backend" /\ RecordedBackend = {}
  /\ \E b \in Backends :
       /\ FreshBackend(b)
       /\ launcher' = [launcher EXCEPT ![b] = "starting"]
       /\ loaded' = [loaded EXCEPT ![b] = Wanted[a]]
       /\ tries' = [tries EXCEPT ![b] = 0]
       /\ child' = [child EXCEPT ![a].backend = b]
  /\ at' = [at EXCEPT ![a] = "launching"]
  /\ UNCHANGED <<settings, holder, seen, port, server, listens, manifest, proxies, stop, budget>>

\* _wait(): the launcher runs, and the recorded llama-server is healthy.
BackendReady(a) ==
  /\ at[a] = "launching" /\ OwnLauncher(a) # {}
  /\ \E b \in RecordedBackend :
       /\ server[b] = "ready"
       /\ port' = [port EXCEPT ![a] = listens[b]]
  /\ at' = [at EXCEPT ![a] = "proxy"]
  /\ UNCHANGED <<settings, holder, seen, child, backends, proxies, stop, budget>>

LaunchesProxy(a) ==
  /\ at[a] = "proxy"
  /\ \E p \in Proxies :
       /\ FreshProxy(p)
       /\ proxy' = [proxy EXCEPT ![p] = "starting"]
       /\ upstream' = [upstream EXCEPT ![p] = port[a]]
       /\ child' = [child EXCEPT ![a].proxy = p]
  /\ at' = [at EXCEPT ![a] = "joining"]
  /\ UNCHANGED <<settings, holder, seen, port, backends, record, stop, budget>>

\* _wait(): the proxy runs, and the recorded one answers.
ProxyReady(a) ==
  /\ at[a] = "joining" /\ OwnProxy(a) # {}
  /\ \E p \in RecordedProxy : proxy[p] = "serving" /\ upstream[p] = port[a]
  /\ Succeeds(a)
  /\ UNCHANGED <<settings, backends, proxies, stop>>

\* "service exited", or it took 300 s, or the adapter was unloaded.
WaitFails(a) ==
  /\ at[a] \in {"launching", "joining"}
  /\ \/ /\ IF at[a] = "launching" THEN OwnLauncher(a) = {} ELSE OwnProxy(a) = {}
        /\ UNCHANGED budget
     \/ Fault("slow")
  /\ Fails(a)
  /\ UNCHANGED <<settings, backends, proxies, stop>>

\* A setup saves setup.json; when that changed meanwhile, or cannot be written, what the
\* setup has started is stopped again.  Another setup may have saved the same settings.
Saves(a) ==
  /\ at[a] = "saving"
  /\ \/ /\ a \notin outdated
        /\ uninstalled' = uninstalled \ {Profile[a]}
        /\ outdated' \in {outdated, outdated \cup {s \in Agents \ {a} : Kind[s] = "setup"}}
        /\ at' = [at EXCEPT ![a] = "idle"]
        /\ seen' = [seen EXCEPT ![a] = "none"]
        /\ port' = [port EXCEPT ![a] = "none"]
        /\ child' = [child EXCEPT ![a] = NoChild]
        /\ UNCHANGED budget
     \/ /\ (a \in outdated /\ UNCHANGED budget) \/ Fault("save")
        /\ at' = [at EXCEPT ![a] = "undoing"]
        /\ UNCHANGED <<settings, seen, port, child>>
  /\ UNCHANGED <<holder, backends, proxies, stop>>

\* The proxy first; then the launcher, which takes its llama-server with it.
StopsChild(a) ==
  /\ at[a] \in {"cleaning", "undoing"}
  /\ \/ \E p \in OwnProxy(a) :
          /\ proxy' = [proxy EXCEPT ![p] = "none"]
          /\ UNCHANGED launcher
     \/ \E b \in OwnLauncher(a) :
          /\ OwnProxy(a) = {} /\ launcher[b] # "stopping"
          /\ launcher' = [launcher EXCEPT ![b] = IF @ = "starting" THEN "none" ELSE "stopping"]
          /\ UNCHANGED proxy
  /\ UNCHANGED <<settings, holder, agents, tries, server, loaded, listens, manifest,
                 upstream, record, stop, budget>>

\* The launcher needs more than the 10 s it is given, and is killed: before or after its
\* llama-server is on record.
KillsChild(a) ==
  /\ at[a] \in {"cleaning", "undoing"}
  /\ \E b \in OwnLauncher(a) :
       /\ launcher[b] = "stopping" /\ launcher' = [launcher EXCEPT ![b] = "none"]
       /\ Fault(IF server[b] # "none" /\ b # manifest THEN "early-kill" ELSE "stuck")
  /\ UNCHANGED <<settings, holder, agents, tries, server, loaded, listens, manifest, proxies, stop>>

Cleaned(a) ==
  /\ at[a] \in {"cleaning", "undoing"}
  /\ OwnProxy(a) = {} /\ OwnLauncher(a) = {}
  /\ at' = [at EXCEPT ![a] = Home(a)]
  /\ seen' = [seen EXCEPT ![a] = "none"]
  /\ port' = [port EXCEPT ![a] = "none"]
  /\ child' = [child EXCEPT ![a] = NoChild]
  /\ holder' = IF holder = a THEN "nobody" ELSE holder
  /\ UNCHANGED <<settings, backends, proxies, stop, budget>>

\* The agent's process ends: its lock is free, its children stay.
Exits(a) ==
  /\ at[a] # "idle" /\ Fault("exit")
  /\ at' = [at EXCEPT ![a] = "idle"]
  /\ seen' = [seen EXCEPT ![a] = "none"]
  /\ port' = [port EXCEPT ![a] = "none"]
  /\ child' = [child EXCEPT ![a] = NoChild]
  /\ holder' = IF holder = a THEN "nobody" ELSE holder
  /\ UNCHANGED <<settings, backends, proxies, stop>>

-----------------------------------------------------------------------------
(* The launcher and its llama-server: launch() *)

HasBackendLock(b) == launcher[b] \in {"locked", "spawned", "watching", "stopping"}

\* .backend.lock: a second launcher gives up.
LauncherLocks(b) ==
  /\ launcher[b] = "starting"
  /\ launcher' = [launcher EXCEPT ![b] = IF \E c \in Backends : HasBackendLock(c) THEN "none" ELSE "locked"]
  /\ UNCHANGED <<settings, holder, agents, tries, server, loaded, listens, manifest, proxies, stop, budget>>

\* On a port that is free; another program may have the preferred one.
Spawns(b) ==
  /\ launcher[b] = "locked"
  /\ \E q \in Ports \ {listens[c] : c \in {d \in Backends : server[d] # "none"}} :
       listens' = [listens EXCEPT ![b] = q]
  /\ launcher' = [launcher EXCEPT ![b] = "spawned"]
  /\ tries' = [tries EXCEPT ![b] = @ + 1]
  /\ server' = [server EXCEPT ![b] = "loading"]
  /\ UNCHANGED <<settings, holder, agents, loaded, manifest, proxies, stop, budget>>

WritesManifest(b) ==
  /\ launcher[b] = "spawned"
  /\ \/ /\ manifest' = b
        /\ launcher' = [launcher EXCEPT ![b] = "watching"]
        /\ UNCHANGED budget
     \/ /\ Fault("manifest")
        /\ launcher' = [launcher EXCEPT ![b] = "stopping"]
        /\ UNCHANGED manifest
  /\ UNCHANGED <<settings, holder, agents, tries, server, loaded, listens, proxies, stop>>

ModelLoaded(b) ==
  /\ server[b] = "loading"
  /\ server' = [server EXCEPT ![b] = "ready"]
  /\ UNCHANGED <<settings, holder, agents, launcher, tries, loaded, listens, manifest, proxies, stop, budget>>

\* The llama-server crashes.
ServerDies(b) ==
  /\ server[b] # "none" /\ Fault("die")
  /\ server' = [server EXCEPT ![b] = "none"]
  /\ UNCHANGED <<settings, holder, agents, launcher, tries, loaded, listens, manifest, proxies, stop>>

\* Another program took its port before it listened: the launcher tries a new one.  The
\* record names the process that is gone.
LosesPort(b) ==
  /\ launcher[b] = "watching" /\ server[b] = "loading" /\ tries[b] < Attempts /\ Fault("port")
  /\ server' = [server EXCEPT ![b] = "none"]
  /\ launcher' = [launcher EXCEPT ![b] = "locked"]
  /\ manifest' = IF manifest = b THEN "none" ELSE manifest
  /\ UNCHANGED <<settings, holder, agents, tries, loaded, listens, proxies, stop>>

\* process.wait() returned for another reason.
LauncherExits(b) ==
  /\ launcher[b] = "watching" /\ server[b] = "none"
  /\ launcher' = [launcher EXCEPT ![b] = "none"]
  /\ UNCHANGED <<settings, holder, agents, tries, server, loaded, listens, manifest, proxies, stop, budget>>

\* Mutant: the launcher exits without waiting for its llama-server.
LauncherAbandons(b) ==
  /\ launcher[b] = "stopping"
  /\ launcher' = [launcher EXCEPT ![b] = "none"]
  /\ UNCHANGED <<settings, holder, agents, server, tries, loaded, listens, manifest, proxies, stop, budget>>

\* Terminated: it stops its llama-server and exits.
LauncherStops(b) ==
  /\ launcher[b] = "stopping"
  /\ server' = [server EXCEPT ![b] = "none"]
  /\ launcher' = [launcher EXCEPT ![b] = "none"]
  /\ UNCHANGED <<settings, holder, agents, tries, loaded, listens, manifest, proxies, stop, budget>>

\* Killed: the llama-server stays, and the lock is free.
LauncherKilled(b) ==
  /\ \/ launcher[b] = "watching" /\ Fault("kill")
     \/ launcher[b] = "spawned" /\ Fault("early-kill")
  /\ launcher' = [launcher EXCEPT ![b] = "none"]
  /\ UNCHANGED <<settings, holder, agents, tries, server, loaded, listens, manifest, proxies, stop>>

-----------------------------------------------------------------------------
(* The proxy: main() *)

HasProxyLock(p) == proxy[p] \in {"listening", "serving"}

\* .proxy.lock, then a port of its own.
ProxyLocks(p) ==
  /\ proxy[p] = "starting"
  /\ proxy' = [proxy EXCEPT ![p] = IF \E q \in Proxies : HasProxyLock(q) THEN "none" ELSE "listening"]
  /\ UNCHANGED <<settings, holder, agents, backends, upstream, record, stop, budget>>

\* proxy.json is written when the address is known.
Serves(p) ==
  /\ proxy[p] = "listening"
  /\ proxy' = [proxy EXCEPT ![p] = "serving"]
  /\ record' = p
  /\ UNCHANGED <<settings, holder, agents, backends, upstream, stop, budget>>

ProxyDies(p) ==
  /\ proxy[p] # "none" /\ Fault("die")
  /\ proxy' = [proxy EXCEPT ![p] = "none"]
  /\ UNCHANGED <<settings, holder, agents, backends, upstream, record, stop>>

-----------------------------------------------------------------------------
(* removal.stop(), for `kvpark stop` and for uninstall *)

\* The lock is not waited for.  The plan is what the records say now.
StopBegins ==
  /\ stop.at \in {"idle", "done"} /\ holder = "nobody"
  /\ \E profile \in Profiles \cup {"none"} :
     \E p \in IF RecordedProxy = {} THEN {"none"} ELSE RecordedProxy :
     \E b \in IF RecordedBackend = {} THEN {"none"} ELSE RecordedBackend :
       /\ Fault(IF profile = "none" THEN "stop" ELSE "uninstall")
       /\ stop' = [at |-> "planned", profile |-> profile, proxy |-> p, backend |-> b]
  /\ holder' = "stop"
  /\ UNCHANGED <<settings, agents, backends, proxies>>

\* The proxy has drained (UpdateGate), or there is none; then disconnect(), which a Hermes
\* profile's uninstall has.
Disconnects ==
  /\ stop.at = "planned"
  /\ uninstalled' = uninstalled \cup ({stop.profile} \ {"none", "standalone"})
  /\ stop' = [stop EXCEPT !.at = "proxy"]
  /\ UNCHANGED <<outdated, holder, agents, backends, proxies, budget>>

\* Nothing recorded, the planned process, or "Service identity changed".
StopsProxy ==
  /\ stop.at = "proxy"
  /\ stop.proxy \in RecordedProxy \/ stop.proxy = "none" \/ RecordedProxy = {}
  /\ proxy' = [p \in Proxies |-> IF p \in RecordedProxy \cap {stop.proxy} THEN "none" ELSE proxy[p]]
  /\ stop' = [stop EXCEPT !.at = "backend"]
  /\ UNCHANGED <<settings, holder, agents, backends, upstream, record, budget>>

StopsBackend ==
  /\ stop.at = "backend"
  /\ stop.backend \in RecordedBackend \/ stop.backend = "none" \/ RecordedBackend = {}
  /\ server' = [b \in Backends |-> IF b \in RecordedBackend \cap {stop.backend} THEN "none" ELSE server[b]]
  /\ stop' = [stop EXCEPT !.at = "done", !.proxy = "none", !.backend = "none"]
  /\ holder' = "nobody"
  /\ UNCHANGED <<settings, agents, launcher, tries, loaded, listens, manifest, proxies, budget>>

\* It cannot drain, restore the route, or stop a process; or the identity changed.
StopFails ==
  /\ stop.at \in {"planned", "refused", "proxy", "backend"}
  /\ stop' = [at |-> "idle", profile |-> "none", proxy |-> "none", backend |-> "none"]
  /\ holder' = "nobody"
  /\ UNCHANGED <<settings, agents, backends, proxies, budget>>

\* clear_settings(), of a standalone uninstall: the lock is free by then.
ClearsSettings ==
  /\ stop.at = "done" /\ stop.profile = "standalone"
  /\ uninstalled' = uninstalled \cup {"standalone"}
  /\ outdated' = IF "standalone" \in uninstalled THEN outdated
                 ELSE {a \in Agents : Kind[a] = "setup" /\ at[a] # "idle"}
  /\ stop' = [stop EXCEPT !.at = "idle", !.profile = "none"]
  /\ UNCHANGED <<holder, agents, backends, proxies, budget>>

\* `/kvpark setup` in a Hermes whose profile is uninstalled; ensure() follows.  An uninstall
\* that has not disconnected yet finds the configuration changed.
Setup(a) ==
  /\ Kind[a] = "hermes" /\ at[a] = "idle" /\ Profile[a] \in uninstalled
  /\ uninstalled' = uninstalled \ {Profile[a]}
  /\ stop' = IF stop.at = "planned" /\ stop.profile = Profile[a]
             THEN [stop EXCEPT !.at = "refused"] ELSE stop
  /\ UNCHANGED <<outdated, holder, agents, backends, proxies, budget>>

-----------------------------------------------------------------------------
AgentStep(a) ==
  \/ Locks(a) \/ Reads(a) \/ Adopts(a) \/ NoAnswer(a) \/ FindsBackend(a) \/ LaunchesBackend(a)
  \/ BackendReady(a) \/ LaunchesProxy(a) \/ ProxyReady(a) \/ WaitFails(a)
  \/ Saves(a) \/ StopsChild(a) \/ KillsChild(a) \/ Cleaned(a)

LauncherStep(b) ==
  \/ LauncherLocks(b) \/ Spawns(b) \/ WritesManifest(b) \/ LauncherExits(b) \/ LauncherStops(b)

ProxyStep(p) == ProxyLocks(p) \/ Serves(p)

StopStep == Disconnects \/ StopsProxy \/ StopsBackend \/ StopFails \/ ClearsSettings

Next ==
  \/ \E a \in Agents : Begin(a) \/ AgentStep(a) \/ Setup(a) \/ Exits(a)
  \/ \E b \in Backends : LauncherStep(b) \/ ModelLoaded(b) \/ ServerDies(b) \/ LosesPort(b) \/ LauncherKilled(b)
  \/ \E p \in Proxies : ProxyStep(p) \/ ProxyDies(p)
  \/ StopBegins \/ StopStep

Spec == Init /\ [][Next]_vars

\* The agents that keep asking: supervise() every 60 s (a service manager restarts it), the
\* middleware on every request.
Askers == {a \in Agents : Kind[a] \in {"hermes", "supervisor"}}

\* Processes run, models load, a lock is granted in the end to whom waits for it, and
\* agents keep asking.
FairSpec ==
  /\ Spec
  /\ \A a \in Askers : WF_vars(Begin(a))
  /\ \A a \in Agents : WF_vars(AgentStep(a)) /\ SF_vars(Locks(a))
  /\ \A b \in Backends : WF_vars(LauncherStep(b)) /\ WF_vars(ModelLoaded(b))
  /\ \A p \in Proxies : WF_vars(ProxyStep(p))
  /\ WF_vars(StopStep)

-----------------------------------------------------------------------------
(* Properties. *)

\* The shape of the state: the agents, the processes, the records.
TypeOK ==
  /\ uninstalled \subseteq Profiles /\ outdated \subseteq Agents
  /\ holder \in Agents \cup {"nobody", "stop"}
  /\ at \in [Agents -> Rest \cup {"waiting", "reading", "asking", "backend", "launching", "proxy",
                                "joining", "cleaning", "saving", "undoing"}]
  /\ seen \in [Agents -> Proxies \cup {"none"}]
  /\ port \in [Agents -> Ports \cup {"none"}]
  /\ child \in [Agents -> [backend: Backends \cup {"none"}, proxy: Proxies \cup {"none"}]]
  /\ launcher \in [Backends -> {"none", "starting", "locked", "spawned", "watching", "stopping"}]
  /\ tries \in [Backends -> 0..Attempts]
  /\ server \in [Backends -> {"none", "loading", "ready"}]
  /\ loaded \in [Backends -> {Wanted[a] : a \in Agents} \cup {"none"}]
  /\ listens \in [Backends -> Ports \cup {"none"}]
  /\ manifest \in Backends \cup {"none"}
  /\ proxy \in [Proxies -> {"none", "starting", "listening", "serving"}]
  /\ upstream \in [Proxies -> Ports \cup {"none"}]
  /\ record \in Proxies \cup {"none"}
  /\ stop \in [at: {"idle", "planned", "refused", "proxy", "backend", "done"},
               profile: Profiles \cup {"none"},
               proxy: Proxies \cup {"none"}, backend: Backends \cup {"none"}]
  /\ budget \in 0..Budget

\* However many agents start at once, and whatever dies or is killed under them, the
\* archive's slot directory has one llama-server and one proxy ("Reopening Hermes does
\* not launch another model copy").
OneOfEach ==
  /\ \A b, c \in Backends : server[b] # "none" /\ server[c] # "none" => b = c
  /\ \A p, q \in Proxies : HasProxyLock(p) /\ HasProxyLock(q) => p = q

\* An agent is never told "ready" with a proxy in front of another agent's model: when
\* ensure() succeeds, the proxy that serves does not forward to a llama-server that
\* runs anything but what the agent has configured.
ReadyIsRight ==
  [][\A a \in Agents :
       at[a] \in {"asking", "joining"} /\ at'[a] \in Rest \cup {"saving"} /\ budget' = budget =>
         \E p \in Proxies :
           /\ proxy[p] = "serving"
           /\ \A b \in Backends :
                server[b] # "none" /\ listens[b] = upstream[p] => loaded[b] = Wanted[a]]_vars

\* A start that failed has stopped the processes it started before it lets the next one
\* begin; a llama-server that outlives its launcher is at least on record.
NothingLeft ==
  [][\A a \in Agents : at[a] = "cleaning" /\ at'[a] \in Rest /\ budget' = budget =>
       /\ \A p \in Proxies \cap {child[a].proxy} : proxy[p] = "none"
       /\ \A b \in Backends \cap {child[a].backend} :
            launcher[b] = "none" /\ server[b] # "none" => b = manifest]_vars

\* When a stop or an uninstall reports success, nothing of the archive runs; and once its
\* profile is uninstalled, a Hermes that was already waiting for the lock starts nothing
\* any more, until the user sets that profile up again.
StopIsFinal ==
  [][/\ stop.at # "done" /\ stop'.at = "done" =>
          /\ \A b \in Backends : server'[b] = "none"
          /\ \A p \in Proxies : proxy'[p] = "none"
     /\ \A a \in Agents :
          Kind[a] = "hermes" /\ child'[a] \notin {child[a], NoChild} => Profile[a] \notin uninstalled]_vars

\* Every start ends, with the services or with an error: the wait for the lock, for a
\* model that loads, for settings to be saved and for children that stop.
StartsEnd == \A a \in Agents : at[a] \notin Rest ~> at[a] \in Rest

\* The agents that will ask: a supervisor that runs does, whatever was uninstalled.
Asking == {a \in Askers : at[a] = "asleep" \/ at[a] \notin Rest \/ Profile[a] \notin uninstalled}

\* A proxy that is gone is back in the end, or everybody who would ask for one was
\* uninstalled.
ProxyReturns ==
  (\A p \in Proxies : proxy[p] = "none") ~> Asking = {} \/ \E p \in Proxies : proxy[p] = "serving"

=============================================================================
