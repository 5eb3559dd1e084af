------------------------- MODULE ServiceStartProofs -------------------------
(***************************************************************************)
(* For any number of agents, processes and faults: as long as no agent     *)
(* goes away in the middle of a start, and no launcher is killed before    *)
(* its record is written, there is one llama-server and one proxy, a       *)
(* start that succeeds has found its own model, one that failed has left   *)
(* nothing, a stop has stopped everything, and a Hermes whose profile is   *)
(* uninstalled starts nothing.                                             *)
(*                                                                         *)
(* The argument is one of ownership.  A process that no record names       *)
(* belongs to an agent that holds .hermes-start.lock (Behind), so whoever  *)
(* else gets the lock knows from the two records all that runs; and an     *)
(* agent that starts a process has seen that none runs, and is the only    *)
(* one that can.                                                           *)
(***************************************************************************)
EXTENDS ServiceStart, TLAPS

\* No agent dies in the middle, no launcher between its two writes.
Orderly == Faults \cap {"exit", "early-kill"} = {}

-----------------------------------------------------------------------------
(* The invariant *)

\* In ensure(), under the lock.
Inside(a) ==
  at[a] \in {"reading", "asking", "backend", "launching", "proxy", "joining", "cleaning"}

Live(b) == server[b] # "none"
Runs(p) == proxy[p] # "none"

\* The launcher or the proxy belongs to the agent that holds the lock.
BehindLaunch(b) ==
  \E a \in Agents : holder = a /\ at[a] \in {"launching", "cleaning"} /\ child[a].backend = b

BehindProxy(p) ==
  \E a \in Agents : holder = a /\ at[a] \in {"joining", "cleaning"} /\ child[a].proxy = p

OneInside == \A a \in Agents : Inside(a) => holder = a

Children ==
  \A a \in Agents :
    /\ at[a] \in {"idle", "asleep", "waiting", "reading", "asking", "backend"} => child[a] = NoChild
    /\ at[a] = "launching" => child[a].backend \in Backends
    /\ at[a] \in {"launching", "proxy"} => child[a].proxy = "none"
    /\ at[a] = "joining" => child[a].proxy \in Proxies

\* .backend.lock, and what a launcher that has it does.
Launchers ==
  /\ \A b, c \in Backends : HasBackendLock(b) /\ HasBackendLock(c) => b = c
  /\ \A b \in Backends :
       /\ launcher[b] \in {"starting", "locked"} => tries[b] < Attempts
       /\ launcher[b] \in {"starting", "locked", "spawned"} => BehindLaunch(b) /\ manifest # b
       /\ launcher[b] = "watching" => manifest = b
       /\ launcher[b] = "watching" /\ server[b] = "loading" => BehindLaunch(b)

\* One llama-server; if no record names it, an agent inside has started it.
Servers ==
  /\ \A b, c \in Backends : Live(b) /\ Live(c) => b = c
  /\ \A b \in Backends :
       Live(b) /\ b # manifest => BehindLaunch(b) /\ launcher[b] \in {"spawned", "stopping"}
  /\ \A b, c \in Backends :
       launcher[b] \in {"starting", "locked", "spawned"} /\ Live(c) => c = b

\* What an agent that launches, or has found, a llama-server knows of it.
Models ==
  \A a \in Agents :
    /\ at[a] = "launching" =>
         /\ loaded[child[a].backend] = Wanted[a]
         /\ \A b \in Backends : Live(b) => b = child[a].backend
    /\ at[a] \in {"proxy", "joining"} => \A b \in Backends : Live(b) => loaded[b] = Wanted[a]

\* The same of the proxies.
ProxiesKnown ==
  /\ \A p \in Proxies : proxy[p] \in {"starting", "listening"} => BehindProxy(p)
  /\ \A p \in Proxies : proxy[p] = "serving" => record = p
  /\ \A a \in Agents :
       /\ (at[a] = "asking" /\ seen[a] = "none") \/ at[a] \in {"backend", "launching", "proxy"} =>
            \A p \in Proxies : ~Runs(p)
       /\ at[a] \in {"joining", "cleaning"} /\ child[a].proxy # "none" =>
            \A p \in Proxies : Runs(p) => p = child[a].proxy

\* A stop knows all that runs, and stops it.
Stops ==
  /\ stop.at \in {"planned", "refused", "proxy", "backend"} =>
       holder = "stop" /\ RecordedBackend \subseteq {stop.backend}
  /\ stop.at \in {"planned", "refused", "proxy"} => RecordedProxy \subseteq {stop.proxy}
  /\ stop.at = "backend" => RecordedProxy = {}

\* A Hermes inside still has its profile: what uninstalls it holds the lock.
Connected ==
  \A a \in Agents : Kind[a] = "hermes" /\ Inside(a) => Profile[a] \notin uninstalled

Known == OneInside /\ Children /\ Launchers /\ Servers /\ Models /\ ProxiesKnown /\ Stops /\ Connected

-----------------------------------------------------------------------------
(* The invariant holds at first, and every action keeps it. *)

LEMMA NoChildTyped == NoChild \in [backend: Backends \cup {"none"}, proxy: Proxies \cup {"none"}]
BY DEF NoChild

\* What leaving ensure() changes.
AgentsTyped ==
  /\ holder \in Agents \cup {"nobody", "stop"}
  /\ at \in [Agents -> Rest \cup {"waiting", "reading", "asking", "backend", "launching", "proxy",
                                "joining", "cleaning", "saving", "undoing"}]
  /\ seen \in [Agents -> Proxies \cup {"none"}]
  /\ port \in [Agents -> Ports \cup {"none"}]
  /\ child \in [Agents -> [backend: Backends \cup {"none"}, proxy: Proxies \cup {"none"}]]

LEMMA ReturnsTyped ==
  ASSUME TypeOK, NEW a \in Agents, Returns(a)
  PROVE  AgentsTyped'
BY NoChildTyped DEF TypeOK, AgentsTyped, Returns, Rest, Home

LEMMA FailsTyped ==
  ASSUME TypeOK, NEW a \in Agents, Fails(a)
  PROVE  AgentsTyped'
BY DEF TypeOK, AgentsTyped, Fails, Rest

LEMMA SucceedsTyped ==
  ASSUME TypeOK, NEW a \in Agents, Succeeds(a)
  PROVE  AgentsTyped' /\ budget' \in 0..Budget
<1>1. CASE Returns(a) /\ UNCHANGED budget
  BY <1>1, ReturnsTyped DEF TypeOK
<1>2. CASE Fault("save") /\ Fails(a)
  BY StartAssumption, <1>2, FailsTyped DEF TypeOK, Fault
<1>3. CASE ~(Returns(a) /\ UNCHANGED budget) /\ ~(Fault("save") /\ Fails(a))
  BY StartAssumption, <1>3 DEF TypeOK, AgentsTyped, Succeeds, Rest
<1> QED BY <1>1, <1>2, <1>3

LEMMA InitKnown ==
  ASSUME Init
  PROVE  TypeOK /\ Known
<1>1. TypeOK
  <2>1. Budget \in 0..Budget /\ 0 \in 0..Attempts
    BY StartAssumption
  <2>2. tries \in [Backends -> 0..Attempts] /\ budget \in 0..Budget
    BY <2>1 DEF Init
  <2>3. AgentsTyped
    BY NoChildTyped DEF Init, AgentsTyped, Rest
  <2> QED BY <2>2, <2>3 DEF Init, TypeOK, AgentsTyped
<1>2. Known
  BY StartAssumption DEF Init, Known, OneInside, Inside, Children, Launchers, HasBackendLock, Servers,
     Live, Models, ProxiesKnown, Runs, Stops, Connected
<1> QED BY <1>1, <1>2

LEMMA BeginKeeps ==
  ASSUME Orderly, TypeOK, Known, NEW a \in Agents, Begin(a)
  PROVE  TypeOK' /\ Known'
<1> USE DEF Known, Rest, Home
<1>1. TypeOK'
  BY StartAssumption DEF Begin, Disabled, settings, agents, backends, proxies, TypeOK, Launchers
<1>2. OneInside'
  BY StartAssumption DEF Begin, Disabled, settings, agents, backends, proxies, TypeOK, OneInside, Inside
<1>3. Children'
  BY StartAssumption DEF Begin, Disabled, settings, agents, backends, proxies, TypeOK, Children, NoChild
<1>4. Launchers'
  BY StartAssumption DEF Begin, Disabled, settings, agents, backends, proxies, TypeOK, OneInside, Inside,
     Children, Launchers, BehindLaunch, HasBackendLock, Servers, Live, Models
<1>5. Servers'
  BY StartAssumption DEF Begin, Disabled, settings, agents, backends, proxies, TypeOK, OneInside, Inside,
     Children, Launchers, BehindLaunch, HasBackendLock, Servers, Live, Models
<1>6. Models'
  BY StartAssumption DEF Begin, Disabled, settings, agents, backends, proxies, TypeOK, OneInside, Inside,
     Children, Launchers, BehindLaunch, Servers, Live, Models
<1>7. ProxiesKnown'
  BY StartAssumption DEF Begin, Disabled, settings, agents, backends, proxies, TypeOK, OneInside, Inside,
     Children, ProxiesKnown, BehindProxy, Runs
<1>8. Stops'
  BY StartAssumption DEF Begin, Disabled, settings, agents, backends, proxies, TypeOK, OneInside, Inside,
     Launchers, BehindLaunch, Servers, Live, ProxiesKnown, BehindProxy, Runs, Stops,
     RecordedBackend, RecordedProxy
<1>9. Connected'
  BY StartAssumption DEF Begin, Disabled, settings, agents, TypeOK, OneInside, Inside, Stops,
     Connected
<1> QED BY <1>1, <1>2, <1>3, <1>4, <1>5, <1>6, <1>7, <1>8, <1>9

LEMMA LocksKeeps ==
  ASSUME Orderly, TypeOK, Known, NEW a \in Agents, Locks(a)
  PROVE  TypeOK' /\ Known'
<1> USE DEF Known, Rest, Home
<1>1. TypeOK'
  <2>1. CASE Disabled(a) /\ Returns(a)
    BY StartAssumption, <2>1, ReturnsTyped DEF Locks, settings, backends, proxies, TypeOK, AgentsTyped
  <2>2. CASE ~(Disabled(a) /\ Returns(a))
    BY StartAssumption, <2>2 DEF Locks, settings, backends, proxies, TypeOK
  <2> QED BY <2>1, <2>2
<1>2. OneInside'
  BY StartAssumption DEF Orderly, Locks, Disabled, Returns, NoChild, settings, agents, backends, proxies,
     TypeOK, OneInside, Inside
<1>3. Children'
  BY StartAssumption DEF Orderly, Locks, Disabled, Returns, NoChild, settings, agents, backends, proxies,
     TypeOK, Children
<1>4. Launchers'
  BY StartAssumption DEF Orderly, Locks, Disabled, Returns, NoChild, settings, agents, backends, proxies,
     TypeOK, OneInside, Inside, Children, Launchers, BehindLaunch, HasBackendLock, Servers,
     Live, Models
<1>5. Servers'
  BY StartAssumption DEF Orderly, Locks, Disabled, Returns, NoChild, settings, agents, backends, proxies,
     TypeOK, OneInside, Inside, Children, Launchers, BehindLaunch, HasBackendLock, Servers,
     Live, Models
<1>6. Models'
  BY StartAssumption DEF Orderly, Locks, Disabled, Returns, NoChild, settings, agents, backends, proxies,
     TypeOK, OneInside, Inside, Children, Launchers, BehindLaunch, Servers, Live, Models
<1>7. ProxiesKnown'
  BY StartAssumption DEF Orderly, Locks, Disabled, Returns, NoChild, settings, agents, backends, proxies,
     TypeOK, OneInside, Inside, Children, ProxiesKnown, BehindProxy, Runs
<1>8. Stops'
  BY StartAssumption DEF Orderly, Locks, Disabled, Returns, NoChild, settings, agents, backends, proxies,
     TypeOK, OneInside, Inside, Launchers, BehindLaunch, Servers, Live, ProxiesKnown,
     BehindProxy, Runs, Stops, RecordedBackend, RecordedProxy
<1>9. Connected'
  <2>1. \A i \in Agents : Inside(i)' => i = a /\ ~Disabled(a)
    BY StartAssumption DEF Locks, Returns, TypeOK, OneInside, Inside
  <2> QED BY <2>1 DEF Locks, settings, Disabled, Connected
<1> QED BY <1>1, <1>2, <1>3, <1>4, <1>5, <1>6, <1>7, <1>8, <1>9

LEMMA ReadsKeeps ==
  ASSUME Orderly, TypeOK, Known, NEW a \in Agents, Reads(a)
  PROVE  TypeOK' /\ Known'
<1> USE DEF Known, Rest, Home
<1>1. TypeOK'
  <2>1. seen' \in [Agents -> Proxies \cup {"none"}]
    BY DEF Reads, RecordedProxy, TypeOK
  <2>2. port' \in [Agents -> Ports \cup {"none"}]
    BY DEF Reads, RecordedProxy, RecordedBackend, TypeOK
  <2>3. at' \in [Agents -> Rest \cup {"waiting", "reading", "asking", "backend", "launching",
                                    "proxy", "joining", "cleaning", "saving", "undoing"}]
    BY DEF Reads, TypeOK
  <2> QED BY <2>1, <2>2, <2>3 DEF Reads, settings, backends, proxies, TypeOK
<1>2. OneInside'
  BY StartAssumption DEF Reads, RecordedProxy, RecordedBackend, settings, agents, backends, proxies,
     TypeOK, OneInside, Inside
<1>3. Children'
  BY StartAssumption DEF Reads, RecordedProxy, RecordedBackend, settings, agents, backends, proxies,
     TypeOK, Children, NoChild
<1>4. Launchers'
  BY StartAssumption DEF Reads, RecordedProxy, RecordedBackend, settings, agents, backends, proxies,
     TypeOK, OneInside, Inside, Children, Launchers, BehindLaunch, HasBackendLock, Servers,
     Live, Models
<1>5. Servers'
  BY StartAssumption DEF Reads, RecordedProxy, RecordedBackend, settings, agents, backends, proxies,
     TypeOK, OneInside, Inside, Children, Launchers, BehindLaunch, HasBackendLock, Servers,
     Live, Models
<1>6. Models'
  BY StartAssumption DEF Reads, RecordedProxy, RecordedBackend, settings, agents, backends, proxies,
     TypeOK, OneInside, Inside, Children, Launchers, BehindLaunch, Servers, Live, Models
<1>7. ProxiesKnown'
  BY StartAssumption DEF Reads, RecordedProxy, RecordedBackend, settings, agents, backends, proxies,
     TypeOK, OneInside, Inside, Children, ProxiesKnown, BehindProxy, Runs
<1>8. Stops'
  BY StartAssumption DEF Reads, RecordedProxy, RecordedBackend, settings, agents, backends, proxies,
     TypeOK, OneInside, Inside, Launchers, BehindLaunch, Servers, Live, ProxiesKnown,
     BehindProxy, Runs, Stops
<1>9. Connected'
  BY StartAssumption DEF Reads, RecordedProxy, RecordedBackend, settings, agents, TypeOK,
     OneInside, Inside, Stops, Connected
<1> QED BY <1>1, <1>2, <1>3, <1>4, <1>5, <1>6, <1>7, <1>8, <1>9

LEMMA AdoptsKeeps ==
  ASSUME Orderly, TypeOK, Known, NEW a \in Agents, Adopts(a)
  PROVE  TypeOK' /\ Known'
<1> USE DEF Known, Rest, Home
<1>1. TypeOK'
  <2>1. AgentsTyped' /\ budget' \in 0..Budget
    BY SucceedsTyped, FailsTyped DEF Adopts, TypeOK
  <2> QED BY <2>1 DEF Adopts, settings, backends, proxies, TypeOK, AgentsTyped
<1>2. OneInside'
  BY StartAssumption DEF Adopts, Answers, Owned, RecordedBackend, Succeeds, Returns, Fails,
     NoChild, Fault, settings, agents, backends, proxies, TypeOK, OneInside, Inside
<1>3. Children'
  BY StartAssumption DEF Adopts, Answers, Owned, RecordedBackend, Succeeds, Returns, Fails,
     NoChild, Fault, settings, agents, backends, proxies, TypeOK, Children
<1>4. Launchers'
  BY StartAssumption DEF Adopts, Answers, Owned, RecordedBackend, Succeeds, Returns, Fails,
     NoChild, Fault, settings, agents, backends, proxies, TypeOK, OneInside, Inside, Children, Launchers,
     BehindLaunch, HasBackendLock, Servers, Live, Models
<1>5. Servers'
  BY StartAssumption DEF Adopts, Answers, Owned, RecordedBackend, Succeeds, Returns, Fails,
     NoChild, Fault, settings, agents, backends, proxies, TypeOK, OneInside, Inside, Children, Launchers,
     BehindLaunch, HasBackendLock, Servers, Live, Models
<1>6. Models'
  BY StartAssumption DEF Adopts, Answers, Owned, RecordedBackend, Succeeds, Returns, Fails,
     NoChild, Fault, settings, agents, backends, proxies, TypeOK, OneInside, Inside, Children, Launchers,
     BehindLaunch, Servers, Live, Models
<1>7. ProxiesKnown'
  BY StartAssumption DEF Adopts, Answers, Owned, RecordedBackend, Succeeds, Returns, Fails,
     NoChild, Fault, settings, agents, backends, proxies, TypeOK, OneInside, Inside, Children,
     ProxiesKnown, BehindProxy, Runs
<1>8. Stops'
  BY StartAssumption DEF Adopts, Answers, Owned, RecordedBackend, Succeeds, Returns, Fails,
     NoChild, Fault, settings, agents, backends, proxies, TypeOK, OneInside, Inside, Launchers,
     BehindLaunch, Servers, Live, ProxiesKnown, BehindProxy, Runs, Stops, RecordedProxy
<1>9. Connected'
  BY StartAssumption DEF Adopts, Answers, Owned, RecordedBackend, Succeeds, Returns, Fails,
     NoChild, Fault, settings, agents, TypeOK, OneInside, Inside, Stops, Connected
<1> QED BY <1>1, <1>2, <1>3, <1>4, <1>5, <1>6, <1>7, <1>8, <1>9

LEMMA NoAnswerKeeps ==
  ASSUME Orderly, TypeOK, Known, NEW a \in Agents, NoAnswer(a)
  PROVE  TypeOK' /\ Known'
<1> USE DEF Known, Rest, Home
<1>1. TypeOK'
  BY StartAssumption DEF NoAnswer, Answers, Fails, Fault, settings, agents, backends, proxies, TypeOK,
     Launchers
<1>2. OneInside'
  BY StartAssumption DEF NoAnswer, Answers, Fails, Fault, settings, agents, backends, proxies, TypeOK,
     OneInside, Inside
<1>3. Children'
  BY StartAssumption DEF NoAnswer, Answers, Fails, Fault, settings, agents, backends, proxies, TypeOK,
     Children, NoChild
<1>4. Launchers'
  BY StartAssumption DEF NoAnswer, Answers, Fails, Fault, settings, agents, backends, proxies, TypeOK,
     OneInside, Inside, Children, Launchers, BehindLaunch, HasBackendLock, Servers, Live, Models
<1>5. Servers'
  BY StartAssumption DEF NoAnswer, Answers, Fails, Fault, settings, agents, backends, proxies, TypeOK,
     OneInside, Inside, Children, Launchers, BehindLaunch, HasBackendLock, Servers, Live, Models
<1>6. Models'
  BY StartAssumption DEF NoAnswer, Answers, Fails, Fault, settings, agents, backends, proxies, TypeOK,
     OneInside, Inside, Children, Launchers, BehindLaunch, Servers, Live, Models
<1>7. ProxiesKnown'
  <2>1. CASE seen[a] # "none" /\ Fails(a)
    BY StartAssumption, <2>1
       DEF NoAnswer, Fails, proxies, TypeOK, Children, NoChild, ProxiesKnown, BehindProxy, Runs,
           OneInside, Inside
  <2>2. CASE seen[a] = "none" /\ at' = [at EXCEPT ![a] = "backend"] /\ UNCHANGED <<holder, seen, child>>
    BY StartAssumption, <2>2
       DEF NoAnswer, proxies, TypeOK, ProxiesKnown, BehindProxy, Runs, OneInside, Inside
  <2> QED BY <2>1, <2>2 DEF NoAnswer
<1>8. Stops'
  BY StartAssumption DEF NoAnswer, Answers, Fails, Fault, settings, agents, backends, proxies, TypeOK,
     OneInside, Inside, Launchers, BehindLaunch, Servers, Live, ProxiesKnown, BehindProxy, Runs,
     Stops, RecordedBackend, RecordedProxy
<1>9. Connected'
  BY StartAssumption DEF NoAnswer, Answers, Fails, Fault, settings, agents, TypeOK, OneInside,
     Inside, Stops, Connected
<1> QED BY <1>1, <1>2, <1>3, <1>4, <1>5, <1>6, <1>7, <1>8, <1>9

LEMMA FindsBackendKeeps ==
  ASSUME Orderly, TypeOK, Known, NEW a \in Agents, FindsBackend(a)
  PROVE  TypeOK' /\ Known'
<1> USE DEF Known, Rest, Home
<1>1. TypeOK'
  <2>1. AgentsTyped'
    <3>1. CASE Fails(a)
      BY <3>1, FailsTyped
    <3>2. PICK b \in Backends :
            \/ Fails(a)
            \/ /\ port' = [port EXCEPT ![a] = listens[b]]
               /\ at' = [at EXCEPT ![a] = "proxy"]
               /\ UNCHANGED <<holder, seen, child>>
      BY DEF FindsBackend, RecordedBackend
    <3>3. CASE ~Fails(a)
      BY <3>2, <3>3 DEF TypeOK, AgentsTyped
    <3> QED BY <3>1, <3>3
  <2> QED BY <2>1 DEF FindsBackend, settings, backends, proxies, TypeOK, AgentsTyped
<1>2. OneInside'
  BY StartAssumption DEF FindsBackend, RecordedBackend, Fails, settings, agents, backends, proxies,
     TypeOK, OneInside, Inside
<1>3. Children'
  BY StartAssumption DEF FindsBackend, RecordedBackend, Fails, settings, agents, backends, proxies,
     TypeOK, Children, NoChild
<1>4. Launchers'
  BY StartAssumption DEF FindsBackend, RecordedBackend, Fails, settings, agents, backends, proxies,
     TypeOK, OneInside, Inside, Children, Launchers, BehindLaunch, HasBackendLock, Servers,
     Live, Models
<1>5. Servers'
  BY StartAssumption DEF FindsBackend, RecordedBackend, Fails, settings, agents, backends, proxies,
     TypeOK, OneInside, Inside, Children, Launchers, BehindLaunch, HasBackendLock, Servers,
     Live, Models
<1>6. Models'
  BY StartAssumption DEF FindsBackend, RecordedBackend, Fails, settings, agents, backends, proxies,
     TypeOK, OneInside, Inside, Children, Launchers, BehindLaunch, Servers, Live, Models
<1>7. ProxiesKnown'
  BY StartAssumption DEF FindsBackend, RecordedBackend, Fails, settings, agents, backends, proxies,
     TypeOK, OneInside, Inside, Children, ProxiesKnown, BehindProxy, Runs
<1>8. Stops'
  BY StartAssumption DEF FindsBackend, RecordedBackend, Fails, settings, agents, backends, proxies,
     TypeOK, OneInside, Inside, Launchers, BehindLaunch, Servers, Live, ProxiesKnown,
     BehindProxy, Runs, Stops, RecordedProxy
<1>9. Connected'
  BY StartAssumption DEF FindsBackend, RecordedBackend, Fails, settings, agents, TypeOK,
     OneInside, Inside, Stops, Connected
<1> QED BY <1>1, <1>2, <1>3, <1>4, <1>5, <1>6, <1>7, <1>8, <1>9

LEMMA LaunchesBackendKeeps ==
  ASSUME Orderly, TypeOK, Known, NEW a \in Agents, LaunchesBackend(a)
  PROVE  TypeOK' /\ Known'
<1> USE DEF Known, Rest, Home
<1>1. TypeOK'
  BY SMTT(30), StartAssumption DEF LaunchesBackend, RecordedBackend, FreshBackend, settings, agents, backends,
     proxies, TypeOK, Launchers
<1>2. OneInside'
  BY StartAssumption DEF LaunchesBackend, RecordedBackend, FreshBackend, settings, agents, backends,
     proxies, TypeOK, OneInside, Inside
<1>3. Children'
  BY StartAssumption DEF LaunchesBackend, RecordedBackend, FreshBackend, settings, agents, backends,
     proxies, TypeOK, Children, NoChild
<1>4. Launchers'
  BY StartAssumption DEF LaunchesBackend, RecordedBackend, FreshBackend, settings, agents, backends,
     proxies, TypeOK, OneInside, Inside, Children, Launchers, BehindLaunch, HasBackendLock,
     Servers, Live, Models
<1>5. Servers'
  BY StartAssumption DEF LaunchesBackend, RecordedBackend, FreshBackend, settings, agents, backends,
     proxies, TypeOK, OneInside, Inside, Children, Launchers, BehindLaunch, HasBackendLock,
     Servers, Live, Models
<1>6. Models'
  BY StartAssumption DEF LaunchesBackend, RecordedBackend, FreshBackend, settings, agents, backends,
     proxies, TypeOK, OneInside, Inside, Children, Launchers, BehindLaunch, Servers, Live,
     Models
<1>7. ProxiesKnown'
  BY StartAssumption DEF LaunchesBackend, RecordedBackend, FreshBackend, settings, agents, backends,
     proxies, TypeOK, OneInside, Inside, Children, ProxiesKnown, BehindProxy, Runs
<1>8. Stops'
  BY StartAssumption DEF LaunchesBackend, RecordedBackend, FreshBackend, settings, agents, backends,
     proxies, TypeOK, OneInside, Inside, Launchers, BehindLaunch, Servers, Live, ProxiesKnown,
     BehindProxy, Runs, Stops, RecordedProxy
<1>9. Connected'
  BY StartAssumption DEF LaunchesBackend, RecordedBackend, FreshBackend, settings, agents, TypeOK,
     OneInside, Inside, Stops, Connected
<1> QED BY <1>1, <1>2, <1>3, <1>4, <1>5, <1>6, <1>7, <1>8, <1>9

LEMMA BackendReadyKeeps ==
  ASSUME Orderly, TypeOK, Known, NEW a \in Agents, BackendReady(a)
  PROVE  TypeOK' /\ Known'
<1> USE DEF Known, Rest, Home
<1>1. TypeOK'
  BY StartAssumption DEF BackendReady, OwnLauncher, RecordedBackend, settings, agents, backends, proxies,
     TypeOK, Launchers
<1>2. OneInside'
  BY StartAssumption DEF BackendReady, OwnLauncher, RecordedBackend, settings, agents, backends, proxies,
     TypeOK, OneInside, Inside
<1>3. Children'
  BY StartAssumption DEF BackendReady, OwnLauncher, RecordedBackend, settings, agents, backends, proxies,
     TypeOK, Children, NoChild
<1>4. Launchers'
  BY StartAssumption DEF BackendReady, OwnLauncher, RecordedBackend, settings, agents, backends, proxies,
     TypeOK, OneInside, Inside, Children, Launchers, BehindLaunch, HasBackendLock, Servers,
     Live, Models
<1>5. Servers'
  BY StartAssumption DEF BackendReady, OwnLauncher, RecordedBackend, settings, agents, backends, proxies,
     TypeOK, OneInside, Inside, Children, Launchers, BehindLaunch, HasBackendLock, Servers,
     Live, Models
<1>6. Models'
  BY StartAssumption DEF BackendReady, OwnLauncher, RecordedBackend, settings, agents, backends, proxies,
     TypeOK, OneInside, Inside, Children, Launchers, BehindLaunch, Servers, Live, Models
<1>7. ProxiesKnown'
  BY StartAssumption DEF BackendReady, OwnLauncher, RecordedBackend, settings, agents, backends, proxies,
     TypeOK, OneInside, Inside, Children, ProxiesKnown, BehindProxy, Runs
<1>8. Stops'
  BY StartAssumption DEF BackendReady, OwnLauncher, RecordedBackend, settings, agents, backends, proxies,
     TypeOK, OneInside, Inside, Launchers, BehindLaunch, Servers, Live, ProxiesKnown,
     BehindProxy, Runs, Stops, RecordedProxy
<1>9. Connected'
  BY StartAssumption DEF BackendReady, OwnLauncher, RecordedBackend, settings, agents, TypeOK,
     OneInside, Inside, Stops, Connected
<1> QED BY <1>1, <1>2, <1>3, <1>4, <1>5, <1>6, <1>7, <1>8, <1>9

LEMMA LaunchesProxyKeeps ==
  ASSUME Orderly, TypeOK, Known, NEW a \in Agents, LaunchesProxy(a)
  PROVE  TypeOK' /\ Known'
<1> USE DEF Known, Rest, Home
<1>1. TypeOK'
  BY StartAssumption DEF LaunchesProxy, FreshProxy, settings, agents, backends, proxies, TypeOK, Launchers
<1>2. OneInside'
  BY StartAssumption DEF LaunchesProxy, FreshProxy, settings, agents, backends, proxies, TypeOK,
     OneInside, Inside
<1>3. Children'
  BY StartAssumption DEF LaunchesProxy, FreshProxy, settings, agents, backends, proxies, TypeOK, Children,
     NoChild
<1>4. Launchers'
  BY StartAssumption DEF LaunchesProxy, FreshProxy, settings, agents, backends, proxies, TypeOK,
     OneInside, Inside, Children, Launchers, BehindLaunch, HasBackendLock, Servers, Live, Models
<1>5. Servers'
  BY StartAssumption DEF LaunchesProxy, FreshProxy, settings, agents, backends, proxies, TypeOK,
     OneInside, Inside, Children, Launchers, BehindLaunch, HasBackendLock, Servers, Live, Models
<1>6. Models'
  BY StartAssumption DEF LaunchesProxy, FreshProxy, settings, agents, backends, proxies, TypeOK,
     OneInside, Inside, Children, Launchers, BehindLaunch, Servers, Live, Models
<1>7. ProxiesKnown'
  BY StartAssumption DEF LaunchesProxy, FreshProxy, settings, agents, backends, proxies, TypeOK,
     OneInside, Inside, Children, ProxiesKnown, BehindProxy, Runs
<1>8. Stops'
  BY StartAssumption DEF LaunchesProxy, FreshProxy, settings, agents, backends, proxies, TypeOK,
     OneInside, Inside, Launchers, BehindLaunch, Servers, Live, ProxiesKnown, BehindProxy, Runs,
     Stops, RecordedBackend, RecordedProxy
<1>9. Connected'
  BY StartAssumption DEF LaunchesProxy, FreshProxy, settings, agents, TypeOK, OneInside, Inside,
     Stops, Connected
<1> QED BY <1>1, <1>2, <1>3, <1>4, <1>5, <1>6, <1>7, <1>8, <1>9

LEMMA ProxyReadyKeeps ==
  ASSUME Orderly, TypeOK, Known, NEW a \in Agents, ProxyReady(a)
  PROVE  TypeOK' /\ Known'
<1> USE DEF Known, Rest, Home
<1>1. TypeOK'
  <2>1. AgentsTyped' /\ budget' \in 0..Budget
    BY SucceedsTyped DEF ProxyReady
  <2> QED BY <2>1 DEF ProxyReady, settings, backends, proxies, TypeOK, AgentsTyped
<1>2. OneInside'
  BY StartAssumption DEF ProxyReady, OwnProxy, RecordedProxy, Succeeds, Fails, Returns, NoChild, Fault,
     settings, agents, backends, proxies, TypeOK, OneInside, Inside
<1>3. Children'
  <2>1. \A i \in Agents \ {a} : at'[i] = at[i] /\ child'[i] = child[i]
    BY DEF ProxyReady, Succeeds, Fails, Returns, TypeOK
  <2>2. (at'[a] = Home(a) /\ child'[a] = NoChild) \/ at'[a] \in {"saving", "cleaning"}
    BY DEF ProxyReady, Succeeds, Fails, Returns, TypeOK
  <2> QED BY <2>1, <2>2 DEF Children
<1>4. Launchers'
  BY StartAssumption DEF ProxyReady, OwnProxy, RecordedProxy, Succeeds, Fails, Returns, NoChild, Fault,
     settings, agents, backends, proxies, TypeOK, OneInside, Inside, Children, Launchers, BehindLaunch,
     HasBackendLock, Servers, Live, Models
<1>5. Servers'
  BY StartAssumption DEF ProxyReady, OwnProxy, RecordedProxy, Succeeds, Fails, Returns, NoChild, Fault,
     settings, agents, backends, proxies, TypeOK, OneInside, Inside, Children, Launchers, BehindLaunch,
     HasBackendLock, Servers, Live, Models
<1>6. Models'
  BY StartAssumption DEF ProxyReady, OwnProxy, RecordedProxy, Succeeds, Fails, Returns, NoChild, Fault,
     settings, agents, backends, proxies, TypeOK, OneInside, Inside, Children, Launchers, BehindLaunch,
     Servers, Live, Models
<1>7. ProxiesKnown'
  <2>1. \A p \in Proxies : Runs(p) => proxy[p] = "serving"
    BY StartAssumption
       DEF ProxyReady, OwnProxy, RecordedProxy, ProxiesKnown, BehindProxy, OneInside, Inside, Runs,
           Children, TypeOK
  <2>2. \A i \in Agents \ {a} : at'[i] = at[i] /\ ~Inside(i)
    BY StartAssumption DEF ProxyReady, Succeeds, Fails, Returns, OneInside, Inside, TypeOK
  <2>3. UNCHANGED proxies
    BY DEF ProxyReady
  <2>4. CASE Fails(a)
    <3>0. child[a].proxy # "none"
      BY StartAssumption DEF ProxyReady, Children
    <3>5. \A p \in Proxies : Runs(p) => p = child[a].proxy
      BY <3>0 DEF ProxyReady, ProxiesKnown
    <3>1. at'[a] = "cleaning" /\ child' = child /\ \A p \in Proxies : Runs(p) => p = child[a].proxy
      BY <2>4, <3>5 DEF Fails, TypeOK
    <3>2. \A i \in Agents : Inside(i)' => i = a
      BY <2>2 DEF Inside
    <3>3. proxy' = proxy /\ record' = record /\ \A p \in Proxies : proxy[p] # "none" => proxy[p] = "serving"
      BY <2>1, <2>3 DEF proxies, Runs
    <3> QED BY <3>1, <3>2, <3>3 DEF ProxiesKnown, Runs, Inside
  <2>5. CASE ~Fails(a)
    <3>1. at'[a] \in Rest \cup {"saving"}
      BY <2>5 DEF ProxyReady, Succeeds, Returns, TypeOK
    <3>2. \A i \in Agents : ~Inside(i)'
      BY <2>2, <3>1 DEF Inside
    <3> QED BY <2>1, <2>3, <3>2 DEF proxies, ProxiesKnown, Runs, Inside
  <2> QED BY <2>4, <2>5
<1>8. Stops'
  BY StartAssumption DEF ProxyReady, OwnProxy, RecordedProxy, Succeeds, Fails, Returns, NoChild, Fault,
     settings, agents, backends, proxies, TypeOK, OneInside, Inside, Launchers, BehindLaunch, Servers,
     Live, ProxiesKnown, BehindProxy, Runs, Stops, RecordedBackend
<1>9. Connected'
  BY StartAssumption DEF ProxyReady, OwnProxy, RecordedProxy, Succeeds, Fails, Returns, NoChild, Fault,
     settings, agents, TypeOK, OneInside, Inside, Stops, Connected
<1> QED BY <1>1, <1>2, <1>3, <1>4, <1>5, <1>6, <1>7, <1>8, <1>9

LEMMA WaitFailsKeeps ==
  ASSUME Orderly, TypeOK, Known, NEW a \in Agents, WaitFails(a)
  PROVE  TypeOK' /\ Known'
<1> USE DEF Known, Rest, Home
<1>1. TypeOK'
  BY StartAssumption DEF WaitFails, OwnLauncher, OwnProxy, Fails, Fault, settings, agents, backends,
     proxies, TypeOK, Launchers
<1>2. OneInside'
  BY StartAssumption DEF WaitFails, OwnLauncher, OwnProxy, Fails, Fault, settings, agents, backends,
     proxies, TypeOK, OneInside, Inside
<1>3. Children'
  BY StartAssumption DEF WaitFails, OwnLauncher, OwnProxy, Fails, Fault, settings, agents, backends,
     proxies, TypeOK, Children, NoChild
<1>4. Launchers'
  BY StartAssumption DEF WaitFails, OwnLauncher, OwnProxy, Fails, Fault, settings, agents, backends,
     proxies, TypeOK, OneInside, Inside, Children, Launchers, BehindLaunch, HasBackendLock,
     Servers, Live, Models
<1>5. Servers'
  BY StartAssumption DEF WaitFails, OwnLauncher, OwnProxy, Fails, Fault, settings, agents, backends,
     proxies, TypeOK, OneInside, Inside, Children, Launchers, BehindLaunch, HasBackendLock,
     Servers, Live, Models
<1>6. Models'
  BY StartAssumption DEF WaitFails, OwnLauncher, OwnProxy, Fails, Fault, settings, agents, backends,
     proxies, TypeOK, OneInside, Inside, Children, Launchers, BehindLaunch, Servers, Live,
     Models
<1>7. ProxiesKnown'
  BY StartAssumption DEF WaitFails, OwnLauncher, OwnProxy, Fails, Fault, settings, agents, backends,
     proxies, TypeOK, OneInside, Inside, Children, ProxiesKnown, BehindProxy, Runs
<1>8. Stops'
  BY StartAssumption DEF WaitFails, OwnLauncher, OwnProxy, Fails, Fault, settings, agents, backends,
     proxies, TypeOK, OneInside, Inside, Launchers, BehindLaunch, Servers, Live, ProxiesKnown,
     BehindProxy, Runs, Stops, RecordedBackend, RecordedProxy
<1>9. Connected'
  BY StartAssumption DEF WaitFails, OwnLauncher, OwnProxy, Fails, Fault, settings, agents, TypeOK,
     OneInside, Inside, Stops, Connected
<1> QED BY <1>1, <1>2, <1>3, <1>4, <1>5, <1>6, <1>7, <1>8, <1>9

LEMMA StopsChildKeeps ==
  ASSUME Orderly, TypeOK, Known, NEW a \in Agents, StopsChild(a)
  PROVE  TypeOK' /\ Known'
<1> USE DEF Known, Rest, Home
<1>1. TypeOK'
  BY SMTT(30), StartAssumption DEF StopsChild, OwnLauncher, OwnProxy, settings, agents, backends,
     proxies, TypeOK,
     Launchers
<1>2. OneInside'
  BY StartAssumption DEF StopsChild, OwnLauncher, OwnProxy, settings, agents, backends, proxies, TypeOK,
     OneInside, Inside
<1>3. Children'
  BY StartAssumption DEF StopsChild, OwnLauncher, OwnProxy, settings, agents, backends, proxies, TypeOK,
     Children, NoChild
<1>4. Launchers'
  BY StartAssumption DEF StopsChild, OwnLauncher, OwnProxy, settings, agents, backends, proxies, TypeOK,
     OneInside, Inside, Children, Launchers, BehindLaunch, HasBackendLock, Servers, Live, Models
<1>5. Servers'
  BY StartAssumption DEF StopsChild, OwnLauncher, OwnProxy, settings, agents, backends, proxies, TypeOK,
     OneInside, Inside, Children, Launchers, BehindLaunch, HasBackendLock, Servers, Live, Models
<1>6. Models'
  BY StartAssumption DEF StopsChild, OwnLauncher, OwnProxy, settings, agents, backends, proxies, TypeOK,
     OneInside, Inside, Children, Launchers, BehindLaunch, Servers, Live, Models
<1>7. ProxiesKnown'
  BY StartAssumption DEF StopsChild, OwnLauncher, OwnProxy, settings, agents, backends, proxies, TypeOK,
     OneInside, Inside, Children, ProxiesKnown, BehindProxy, Runs
<1>8. Stops'
  BY StartAssumption DEF StopsChild, OwnLauncher, OwnProxy, settings, agents, backends, proxies, TypeOK,
     OneInside, Inside, Launchers, BehindLaunch, Servers, Live, ProxiesKnown, BehindProxy, Runs,
     Stops, RecordedBackend, RecordedProxy
<1>9. Connected'
  BY StartAssumption DEF StopsChild, OwnLauncher, OwnProxy, settings, agents, TypeOK, OneInside,
     Inside, Stops, Connected
<1> QED BY <1>1, <1>2, <1>3, <1>4, <1>5, <1>6, <1>7, <1>8, <1>9

LEMMA KillsChildKeeps ==
  ASSUME Orderly, TypeOK, Known, NEW a \in Agents, KillsChild(a)
  PROVE  TypeOK' /\ Known'
<1> USE DEF Known, Rest, Home
<1>0. \A b \in OwnLauncher(a) : launcher'[b] = "none" => server[b] = "none" \/ b = manifest
  BY DEF Orderly, KillsChild, OwnLauncher, Fault, TypeOK
<1>1. TypeOK'
  BY StartAssumption, <1>0 DEF KillsChild, OwnLauncher, Fault, settings, agents, backends, proxies, TypeOK,
     Launchers
<1>2. OneInside'
  BY StartAssumption, <1>0 DEF KillsChild, OwnLauncher, Fault, settings, agents, backends, proxies, TypeOK,
     OneInside, Inside
<1>3. Children'
  BY StartAssumption, <1>0 DEF KillsChild, OwnLauncher, Fault, settings, agents, backends, proxies, TypeOK,
     Children, NoChild
<1>4. Launchers'
  BY StartAssumption, <1>0 DEF KillsChild, OwnLauncher, Fault, settings, agents, backends, proxies, TypeOK,
     OneInside, Inside, Children, Launchers, BehindLaunch, HasBackendLock, Servers, Live,
     Models
<1>5. Servers'
  BY StartAssumption, <1>0 DEF KillsChild, OwnLauncher, Fault, settings, agents, backends, proxies, TypeOK,
     OneInside, Inside, Children, Launchers, BehindLaunch, HasBackendLock, Servers, Live,
     Models
<1>6. Models'
  BY StartAssumption, <1>0 DEF KillsChild, OwnLauncher, Fault, settings, agents, backends, proxies, TypeOK,
     OneInside, Inside, Children, Launchers, BehindLaunch, Servers, Live, Models
<1>7. ProxiesKnown'
  BY StartAssumption, <1>0 DEF KillsChild, OwnLauncher, Fault, settings, agents, backends, proxies, TypeOK,
     OneInside, Inside, Children, ProxiesKnown, BehindProxy, Runs
<1>8. Stops'
  BY StartAssumption, <1>0 DEF KillsChild, OwnLauncher, Fault, settings, agents, backends, proxies, TypeOK,
     OneInside, Inside, Launchers, BehindLaunch, Servers, Live, ProxiesKnown, BehindProxy,
     Runs, Stops, RecordedBackend, RecordedProxy
<1>9. Connected'
  BY StartAssumption, <1>0 DEF KillsChild, OwnLauncher, Fault, settings, agents, TypeOK,
     OneInside, Inside, Stops, Connected
<1> QED BY <1>1, <1>2, <1>3, <1>4, <1>5, <1>6, <1>7, <1>8, <1>9

LEMMA CleanedKeeps ==
  ASSUME Orderly, TypeOK, Known, NEW a \in Agents, Cleaned(a)
  PROVE  TypeOK' /\ Known'
<1> USE DEF Known, Rest, Home
<1>1. TypeOK'
  BY StartAssumption DEF Cleaned, OwnLauncher, OwnProxy, NoChild, settings, agents, backends, proxies,
     TypeOK, Launchers
<1>2. OneInside'
  BY StartAssumption DEF Cleaned, OwnLauncher, OwnProxy, NoChild, settings, agents, backends, proxies,
     TypeOK, OneInside, Inside
<1>3. Children'
  BY StartAssumption DEF Cleaned, OwnLauncher, OwnProxy, NoChild, settings, agents, backends, proxies,
     TypeOK, Children
<1>4. Launchers'
  BY StartAssumption DEF Cleaned, OwnLauncher, OwnProxy, NoChild, settings, agents, backends, proxies,
     TypeOK, OneInside, Inside, Children, Launchers, BehindLaunch, HasBackendLock, Servers,
     Live, Models
<1>5. Servers'
  BY StartAssumption DEF Cleaned, OwnLauncher, OwnProxy, NoChild, settings, agents, backends, proxies,
     TypeOK, OneInside, Inside, Children, Launchers, BehindLaunch, HasBackendLock, Servers,
     Live, Models
<1>6. Models'
  BY StartAssumption DEF Cleaned, OwnLauncher, OwnProxy, NoChild, settings, agents, backends, proxies,
     TypeOK, OneInside, Inside, Children, Launchers, BehindLaunch, Servers, Live, Models
<1>7. ProxiesKnown'
  BY StartAssumption DEF Cleaned, OwnLauncher, OwnProxy, NoChild, settings, agents, backends, proxies,
     TypeOK, OneInside, Inside, Children, ProxiesKnown, BehindProxy, Runs
<1>8. Stops'
  BY StartAssumption DEF Cleaned, OwnLauncher, OwnProxy, NoChild, settings, agents, backends, proxies,
     TypeOK, OneInside, Inside, Launchers, BehindLaunch, Servers, Live, ProxiesKnown,
     BehindProxy, Runs, Stops, RecordedBackend, RecordedProxy
<1>9. Connected'
  BY StartAssumption DEF Cleaned, OwnLauncher, OwnProxy, NoChild, settings, agents, TypeOK,
     OneInside, Inside, Stops, Connected
<1> QED BY <1>1, <1>2, <1>3, <1>4, <1>5, <1>6, <1>7, <1>8, <1>9

LEMMA SavesKeeps ==
  ASSUME Orderly, TypeOK, Known, NEW a \in Agents, Saves(a)
  PROVE  TypeOK' /\ Known'
<1> USE DEF Known, Rest, Home
<1>1. TypeOK'
  <2>1. at' \in [Agents -> Rest \cup {"waiting", "reading", "asking", "backend", "launching", "proxy",
                                   "joining", "cleaning", "saving", "undoing"}]
    BY DEF Saves, TypeOK
  <2>2. child' \in [Agents -> [backend: Backends \cup {"none"}, proxy: Proxies \cup {"none"}]]
    BY NoChildTyped DEF Saves, TypeOK
  <2>3. seen' \in [Agents -> Proxies \cup {"none"}] /\ port' \in [Agents -> Ports \cup {"none"}]
    <3>1. seen' = [seen EXCEPT ![a] = "none"] \/ seen' = seen
      BY DEF Saves
    <3>2. port' = [port EXCEPT ![a] = "none"] \/ port' = port
      BY DEF Saves
    <3>3. seen' \in [Agents -> Proxies \cup {"none"}]
      BY <3>1 DEF TypeOK
    <3>4. port' \in [Agents -> Ports \cup {"none"}]
      BY <3>2 DEF TypeOK
    <3> QED BY <3>3, <3>4
  <2>4. uninstalled' \subseteq Profiles /\ outdated' \subseteq Agents
    <3>1. CASE /\ uninstalled' = uninstalled \ {Profile[a]}
               /\ outdated' \in {outdated, outdated \cup {s \in Agents \ {a} : Kind[s] = "setup"}}
      <4>1. uninstalled \subseteq Profiles /\ outdated \subseteq Agents
        BY DEF TypeOK
      <4>2. {s \in Agents \ {a} : Kind[s] = "setup"} \subseteq Agents
        OBVIOUS
      <4> QED BY <3>1, <4>1, <4>2
    <3>2. CASE UNCHANGED settings
      BY <3>2 DEF settings, TypeOK
    <3> QED BY <3>1, <3>2 DEF Saves
  <2>5. budget' \in 0..Budget
    <3>1. CASE UNCHANGED budget
      BY <3>1 DEF TypeOK
    <3>2. CASE Fault("save")
      BY <3>2, StartAssumption DEF Fault, TypeOK
    <3> QED BY <3>1, <3>2 DEF Saves
  <2> QED BY <2>1, <2>2, <2>3, <2>4, <2>5 DEF Saves, backends, proxies, TypeOK
<1>2. OneInside'
  BY StartAssumption DEF Saves, NoChild, Fault, settings, agents, backends, proxies,
     TypeOK, OneInside, Inside
<1>3. Children'
  BY StartAssumption DEF Saves, NoChild, Fault, settings, agents, backends, proxies,
     TypeOK, Children
<1>4. Launchers'
  BY StartAssumption DEF Saves, NoChild, Fault, settings, agents, backends, proxies,
     TypeOK, OneInside, Inside, Children, Launchers, BehindLaunch, HasBackendLock, Servers,
     Live, Models
<1>5. Servers'
  BY StartAssumption DEF Saves, NoChild, Fault, settings, agents, backends, proxies,
     TypeOK, OneInside, Inside, Children, Launchers, BehindLaunch, HasBackendLock, Servers,
     Live, Models
<1>6. Models'
  BY StartAssumption DEF Saves, NoChild, Fault, settings, agents, backends, proxies,
     TypeOK, OneInside, Inside, Children, Launchers, BehindLaunch, Servers, Live, Models
<1>7. ProxiesKnown'
  BY StartAssumption DEF Saves, NoChild, Fault, settings, agents, backends, proxies,
     TypeOK, OneInside, Inside, Children, ProxiesKnown, BehindProxy, Runs
<1>8. Stops'
  BY StartAssumption DEF Saves, NoChild, Fault, settings, agents, backends, proxies,
     TypeOK, OneInside, Inside, Launchers, BehindLaunch, Servers, Live, ProxiesKnown,
     BehindProxy, Runs, Stops, RecordedBackend, RecordedProxy
<1>9. Connected'
  BY StartAssumption DEF Saves, NoChild, Fault, settings, agents, TypeOK,
     OneInside, Inside, Stops, Connected
<1> QED BY <1>1, <1>2, <1>3, <1>4, <1>5, <1>6, <1>7, <1>8, <1>9

LEMMA LauncherLocksKeeps ==
  ASSUME Orderly, TypeOK, Known, NEW b \in Backends, LauncherLocks(b)
  PROVE  TypeOK' /\ Known'
<1> USE DEF Known, Rest, Home
<1>1. TypeOK'
  BY StartAssumption DEF LauncherLocks, HasBackendLock, settings, agents, backends, proxies, TypeOK,
     Launchers
<1>2. OneInside'
  BY StartAssumption DEF LauncherLocks, HasBackendLock, settings, agents, backends, proxies, TypeOK,
     OneInside, Inside
<1>3. Children'
  BY StartAssumption DEF LauncherLocks, HasBackendLock, settings, agents, backends, proxies, TypeOK,
     Children, NoChild
<1>4. Launchers'
  BY StartAssumption DEF LauncherLocks, HasBackendLock, settings, agents, backends, proxies, TypeOK,
     OneInside, Inside, Children, Launchers, BehindLaunch, Servers, Live, Models
<1>5. Servers'
  BY StartAssumption DEF LauncherLocks, HasBackendLock, settings, agents, backends, proxies, TypeOK,
     OneInside, Inside, Children, Launchers, BehindLaunch, Servers, Live, Models
<1>6. Models'
  BY StartAssumption DEF LauncherLocks, HasBackendLock, settings, agents, backends, proxies, TypeOK,
     OneInside, Inside, Children, Launchers, BehindLaunch, Servers, Live, Models
<1>7. ProxiesKnown'
  BY StartAssumption DEF LauncherLocks, HasBackendLock, settings, agents, backends, proxies, TypeOK,
     OneInside, Inside, Children, ProxiesKnown, BehindProxy, Runs
<1>8. Stops'
  BY StartAssumption DEF LauncherLocks, HasBackendLock, settings, agents, backends, proxies, TypeOK,
     OneInside, Inside, Launchers, BehindLaunch, Servers, Live, ProxiesKnown, BehindProxy, Runs,
     Stops, RecordedBackend, RecordedProxy
<1>9. Connected'
  BY StartAssumption DEF LauncherLocks, HasBackendLock, settings, agents, TypeOK, OneInside,
     Inside, Stops, Connected
<1> QED BY <1>1, <1>2, <1>3, <1>4, <1>5, <1>6, <1>7, <1>8, <1>9

LEMMA SpawnsKeeps ==
  ASSUME Orderly, TypeOK, Known, NEW b \in Backends, Spawns(b)
  PROVE  TypeOK' /\ Known'
<1> USE DEF Known, Rest, Home
<1>1. TypeOK'
  BY StartAssumption DEF Spawns, settings, agents, backends, proxies, TypeOK, Launchers
<1>2. OneInside'
  BY StartAssumption DEF Spawns, settings, agents, backends, proxies, TypeOK, OneInside, Inside
<1>3. Children'
  BY StartAssumption DEF Spawns, settings, agents, backends, proxies, TypeOK, Children, NoChild
<1>4. Launchers'
  BY StartAssumption DEF Spawns, settings, agents, backends, proxies, TypeOK, OneInside, Inside, Children,
     Launchers, BehindLaunch, HasBackendLock, Servers, Live, Models
<1>5. Servers'
  BY StartAssumption DEF Spawns, settings, agents, backends, proxies, TypeOK, OneInside, Inside, Children,
     Launchers, BehindLaunch, HasBackendLock, Servers, Live, Models
<1>6. Models'
  BY StartAssumption DEF Spawns, settings, agents, backends, proxies, TypeOK, OneInside, Inside, Children,
     Launchers, BehindLaunch, Servers, Live, Models
<1>7. ProxiesKnown'
  BY StartAssumption DEF Spawns, settings, agents, backends, proxies, TypeOK, OneInside, Inside, Children,
     ProxiesKnown, BehindProxy, Runs
<1>8. Stops'
  BY StartAssumption DEF Spawns, settings, agents, backends, proxies, TypeOK, OneInside, Inside,
     Launchers, BehindLaunch, Servers, Live, ProxiesKnown, BehindProxy, Runs, Stops,
     RecordedBackend, RecordedProxy
<1>9. Connected'
  BY StartAssumption DEF Spawns, settings, agents, TypeOK, OneInside, Inside, Stops, Connected
<1> QED BY <1>1, <1>2, <1>3, <1>4, <1>5, <1>6, <1>7, <1>8, <1>9

LEMMA WritesManifestKeeps ==
  ASSUME Orderly, TypeOK, Known, NEW b \in Backends, WritesManifest(b)
  PROVE  TypeOK' /\ Known'
<1> USE DEF Known, Rest, Home
<1>1. TypeOK'
  BY StartAssumption DEF WritesManifest, Fault, settings, agents, backends, proxies, TypeOK, Launchers
<1>2. OneInside'
  BY StartAssumption DEF WritesManifest, Fault, settings, agents, backends, proxies, TypeOK, OneInside,
     Inside
<1>3. Children'
  BY StartAssumption DEF WritesManifest, Fault, settings, agents, backends, proxies, TypeOK, Children,
     NoChild
<1>4. Launchers'
  <2>1. \A c \in Backends \ {b} : launcher[c] \notin {"starting", "locked", "spawned", "watching"}
    BY DEF WritesManifest, Launchers, HasBackendLock, BehindLaunch
  <2>2. \A c \in Backends \ {b} : launcher'[c] = launcher[c] /\ server'[c] = server[c]
    BY DEF WritesManifest, TypeOK
  <2>3. (launcher'[b] = "watching" /\ manifest' = b) \/ launcher'[b] = "stopping"
    BY DEF WritesManifest, TypeOK
  <2>4. HasBackendLock(b) /\ BehindLaunch(b) /\ BehindLaunch(b)'
    BY DEF WritesManifest, agents, Launchers, HasBackendLock, BehindLaunch
  <2> QED BY <2>1, <2>2, <2>3, <2>4 DEF Launchers, HasBackendLock
<1>5. Servers'
  BY StartAssumption DEF WritesManifest, Fault, settings, agents, backends, proxies, TypeOK, OneInside,
     Inside, Children, Launchers, BehindLaunch, HasBackendLock, Servers, Live, Models
<1>6. Models'
  BY StartAssumption DEF WritesManifest, Fault, settings, agents, backends, proxies, TypeOK, OneInside,
     Inside, Children, Launchers, BehindLaunch, Servers, Live, Models
<1>7. ProxiesKnown'
  BY StartAssumption DEF WritesManifest, Fault, settings, agents, backends, proxies, TypeOK, OneInside,
     Inside, Children, ProxiesKnown, BehindProxy, Runs
<1>8. Stops'
  BY StartAssumption DEF WritesManifest, Fault, settings, agents, backends, proxies, TypeOK, OneInside,
     Inside, Launchers, BehindLaunch, Servers, Live, ProxiesKnown, BehindProxy, Runs, Stops,
     RecordedBackend, RecordedProxy
<1>9. Connected'
  BY StartAssumption DEF WritesManifest, Fault, settings, agents, TypeOK, OneInside, Inside,
     Stops, Connected
<1> QED BY <1>1, <1>2, <1>3, <1>4, <1>5, <1>6, <1>7, <1>8, <1>9

LEMMA LauncherExitsKeeps ==
  ASSUME Orderly, TypeOK, Known, NEW b \in Backends, LauncherExits(b)
  PROVE  TypeOK' /\ Known'
<1> USE DEF Known, Rest, Home
<1>1. TypeOK'
  BY StartAssumption DEF LauncherExits, settings, agents, backends, proxies, TypeOK, Launchers
<1>2. OneInside'
  BY StartAssumption DEF LauncherExits, settings, agents, backends, proxies, TypeOK, OneInside, Inside
<1>3. Children'
  BY StartAssumption DEF LauncherExits, settings, agents, backends, proxies, TypeOK, Children, NoChild
<1>4. Launchers'
  BY StartAssumption DEF LauncherExits, settings, agents, backends, proxies, TypeOK, OneInside, Inside,
     Children, Launchers, BehindLaunch, HasBackendLock, Servers, Live, Models
<1>5. Servers'
  BY StartAssumption DEF LauncherExits, settings, agents, backends, proxies, TypeOK, OneInside, Inside,
     Children, Launchers, BehindLaunch, HasBackendLock, Servers, Live, Models
<1>6. Models'
  BY StartAssumption DEF LauncherExits, settings, agents, backends, proxies, TypeOK, OneInside, Inside,
     Children, Launchers, BehindLaunch, Servers, Live, Models
<1>7. ProxiesKnown'
  BY StartAssumption DEF LauncherExits, settings, agents, backends, proxies, TypeOK, OneInside, Inside,
     Children, ProxiesKnown, BehindProxy, Runs
<1>8. Stops'
  BY StartAssumption DEF LauncherExits, settings, agents, backends, proxies, TypeOK, OneInside, Inside,
     Launchers, BehindLaunch, Servers, Live, ProxiesKnown, BehindProxy, Runs, Stops,
     RecordedBackend, RecordedProxy
<1>9. Connected'
  BY StartAssumption DEF LauncherExits, settings, agents, TypeOK, OneInside, Inside, Stops,
     Connected
<1> QED BY <1>1, <1>2, <1>3, <1>4, <1>5, <1>6, <1>7, <1>8, <1>9

LEMMA LauncherStopsKeeps ==
  ASSUME Orderly, TypeOK, Known, NEW b \in Backends, LauncherStops(b)
  PROVE  TypeOK' /\ Known'
<1> USE DEF Known, Rest, Home
<1>1. TypeOK'
  BY StartAssumption DEF LauncherStops, settings, agents, backends, proxies, TypeOK, Launchers
<1>2. OneInside'
  BY StartAssumption DEF LauncherStops, settings, agents, backends, proxies, TypeOK, OneInside, Inside
<1>3. Children'
  BY StartAssumption DEF LauncherStops, settings, agents, backends, proxies, TypeOK, Children, NoChild
<1>4. Launchers'
  BY StartAssumption DEF LauncherStops, settings, agents, backends, proxies, TypeOK, OneInside, Inside,
     Children, Launchers, BehindLaunch, HasBackendLock, Servers, Live, Models
<1>5. Servers'
  BY StartAssumption DEF LauncherStops, settings, agents, backends, proxies, TypeOK, OneInside, Inside,
     Children, Launchers, BehindLaunch, HasBackendLock, Servers, Live, Models
<1>6. Models'
  BY StartAssumption DEF LauncherStops, settings, agents, backends, proxies, TypeOK, OneInside, Inside,
     Children, Launchers, BehindLaunch, Servers, Live, Models
<1>7. ProxiesKnown'
  BY StartAssumption DEF LauncherStops, settings, agents, backends, proxies, TypeOK, OneInside, Inside,
     Children, ProxiesKnown, BehindProxy, Runs
<1>8. Stops'
  BY StartAssumption DEF LauncherStops, settings, agents, backends, proxies, TypeOK, OneInside, Inside,
     Launchers, BehindLaunch, Servers, Live, ProxiesKnown, BehindProxy, Runs, Stops,
     RecordedBackend, RecordedProxy
<1>9. Connected'
  BY StartAssumption DEF LauncherStops, settings, agents, TypeOK, OneInside, Inside, Stops,
     Connected
<1> QED BY <1>1, <1>2, <1>3, <1>4, <1>5, <1>6, <1>7, <1>8, <1>9

LEMMA ModelLoadedKeeps ==
  ASSUME Orderly, TypeOK, Known, NEW b \in Backends, ModelLoaded(b)
  PROVE  TypeOK' /\ Known'
<1> USE DEF Known, Rest, Home
<1>1. TypeOK'
  BY StartAssumption DEF ModelLoaded, settings, agents, backends, proxies, TypeOK, Launchers
<1>2. OneInside'
  BY StartAssumption DEF ModelLoaded, settings, agents, backends, proxies, TypeOK, OneInside, Inside
<1>3. Children'
  BY StartAssumption DEF ModelLoaded, settings, agents, backends, proxies, TypeOK, Children, NoChild
<1>4. Launchers'
  BY StartAssumption DEF ModelLoaded, settings, agents, backends, proxies, TypeOK, OneInside, Inside,
     Children, Launchers, BehindLaunch, HasBackendLock, Servers, Live, Models
<1>5. Servers'
  BY StartAssumption DEF ModelLoaded, settings, agents, backends, proxies, TypeOK, OneInside, Inside,
     Children, Launchers, BehindLaunch, HasBackendLock, Servers, Live, Models
<1>6. Models'
  BY StartAssumption DEF ModelLoaded, settings, agents, backends, proxies, TypeOK, OneInside, Inside,
     Children, Launchers, BehindLaunch, Servers, Live, Models
<1>7. ProxiesKnown'
  BY StartAssumption DEF ModelLoaded, settings, agents, backends, proxies, TypeOK, OneInside, Inside,
     Children, ProxiesKnown, BehindProxy, Runs
<1>8. Stops'
  BY StartAssumption DEF ModelLoaded, settings, agents, backends, proxies, TypeOK, OneInside, Inside,
     Launchers, BehindLaunch, Servers, Live, ProxiesKnown, BehindProxy, Runs, Stops,
     RecordedBackend, RecordedProxy
<1>9. Connected'
  BY StartAssumption DEF ModelLoaded, settings, agents, TypeOK, OneInside, Inside, Stops,
     Connected
<1> QED BY <1>1, <1>2, <1>3, <1>4, <1>5, <1>6, <1>7, <1>8, <1>9

LEMMA ServerDiesKeeps ==
  ASSUME Orderly, TypeOK, Known, NEW b \in Backends, ServerDies(b)
  PROVE  TypeOK' /\ Known'
<1> USE DEF Known, Rest, Home
<1>1. TypeOK'
  BY StartAssumption DEF ServerDies, Fault, settings, agents, backends, proxies, TypeOK, Launchers
<1>2. OneInside'
  BY StartAssumption DEF ServerDies, Fault, settings, agents, backends, proxies, TypeOK, OneInside, Inside
<1>3. Children'
  BY StartAssumption DEF ServerDies, Fault, settings, agents, backends, proxies, TypeOK, Children, NoChild
<1>4. Launchers'
  BY StartAssumption DEF ServerDies, Fault, settings, agents, backends, proxies, TypeOK, OneInside,
     Inside, Children, Launchers, BehindLaunch, HasBackendLock, Servers, Live, Models
<1>5. Servers'
  BY StartAssumption DEF ServerDies, Fault, settings, agents, backends, proxies, TypeOK, OneInside,
     Inside, Children, Launchers, BehindLaunch, HasBackendLock, Servers, Live, Models
<1>6. Models'
  BY StartAssumption DEF ServerDies, Fault, settings, agents, backends, proxies, TypeOK, OneInside,
     Inside, Children, Launchers, BehindLaunch, Servers, Live, Models
<1>7. ProxiesKnown'
  BY StartAssumption DEF ServerDies, Fault, settings, agents, backends, proxies, TypeOK, OneInside,
     Inside, Children, ProxiesKnown, BehindProxy, Runs
<1>8. Stops'
  BY StartAssumption DEF ServerDies, Fault, settings, agents, backends, proxies, TypeOK, OneInside,
     Inside, Launchers, BehindLaunch, Servers, Live, ProxiesKnown, BehindProxy, Runs, Stops,
     RecordedBackend, RecordedProxy
<1>9. Connected'
  BY StartAssumption DEF ServerDies, Fault, settings, agents, TypeOK, OneInside, Inside, Stops,
     Connected
<1> QED BY <1>1, <1>2, <1>3, <1>4, <1>5, <1>6, <1>7, <1>8, <1>9

LEMMA LosesPortKeeps ==
  ASSUME Orderly, TypeOK, Known, NEW b \in Backends, LosesPort(b)
  PROVE  TypeOK' /\ Known'
<1> USE DEF Known, Rest, Home
<1>1. TypeOK'
  BY StartAssumption DEF LosesPort, Fault, settings, agents, backends, proxies, TypeOK, Launchers
<1>2. OneInside'
  BY StartAssumption DEF LosesPort, Fault, settings, agents, backends, proxies, TypeOK, OneInside, Inside
<1>3. Children'
  BY StartAssumption DEF LosesPort, Fault, settings, agents, backends, proxies, TypeOK, Children, NoChild
<1>4. Launchers'
  BY StartAssumption DEF LosesPort, Fault, settings, agents, backends, proxies, TypeOK, OneInside, Inside,
     Children, Launchers, BehindLaunch, HasBackendLock, Servers, Live, Models
<1>5. Servers'
  BY StartAssumption DEF LosesPort, Fault, settings, agents, backends, proxies, TypeOK, OneInside, Inside,
     Children, Launchers, BehindLaunch, HasBackendLock, Servers, Live, Models
<1>6. Models'
  BY StartAssumption DEF LosesPort, Fault, settings, agents, backends, proxies, TypeOK, OneInside, Inside,
     Children, Launchers, BehindLaunch, Servers, Live, Models
<1>7. ProxiesKnown'
  BY StartAssumption DEF LosesPort, Fault, settings, agents, backends, proxies, TypeOK, OneInside, Inside,
     Children, ProxiesKnown, BehindProxy, Runs
<1>8. Stops'
  BY StartAssumption DEF LosesPort, Fault, settings, agents, backends, proxies, TypeOK, OneInside, Inside,
     Launchers, BehindLaunch, Servers, Live, ProxiesKnown, BehindProxy, Runs, Stops,
     RecordedBackend, RecordedProxy
<1>9. Connected'
  BY StartAssumption DEF LosesPort, Fault, settings, agents, TypeOK, OneInside, Inside, Stops,
     Connected
<1> QED BY <1>1, <1>2, <1>3, <1>4, <1>5, <1>6, <1>7, <1>8, <1>9

LEMMA LauncherKilledKeeps ==
  ASSUME Orderly, TypeOK, Known, NEW b \in Backends, LauncherKilled(b)
  PROVE  TypeOK' /\ Known'
<1> USE DEF Known, Rest, Home
<1>1. TypeOK'
  BY StartAssumption DEF Orderly, LauncherKilled, Fault, settings, agents, backends, proxies, TypeOK,
     Launchers
<1>2. OneInside'
  BY StartAssumption DEF Orderly, LauncherKilled, Fault, settings, agents, backends, proxies, TypeOK,
     OneInside, Inside
<1>3. Children'
  BY StartAssumption DEF Orderly, LauncherKilled, Fault, settings, agents, backends, proxies, TypeOK,
     Children, NoChild
<1>4. Launchers'
  BY StartAssumption DEF Orderly, LauncherKilled, Fault, settings, agents, backends, proxies, TypeOK,
     OneInside, Inside, Children, Launchers, BehindLaunch, HasBackendLock, Servers, Live, Models
<1>5. Servers'
  BY StartAssumption DEF Orderly, LauncherKilled, Fault, settings, agents, backends, proxies, TypeOK,
     OneInside, Inside, Children, Launchers, BehindLaunch, HasBackendLock, Servers, Live, Models
<1>6. Models'
  BY StartAssumption DEF Orderly, LauncherKilled, Fault, settings, agents, backends, proxies, TypeOK,
     OneInside, Inside, Children, Launchers, BehindLaunch, Servers, Live, Models
<1>7. ProxiesKnown'
  BY StartAssumption DEF Orderly, LauncherKilled, Fault, settings, agents, backends, proxies, TypeOK,
     OneInside, Inside, Children, ProxiesKnown, BehindProxy, Runs
<1>8. Stops'
  BY StartAssumption DEF Orderly, LauncherKilled, Fault, settings, agents, backends, proxies, TypeOK,
     OneInside, Inside, Launchers, BehindLaunch, Servers, Live, ProxiesKnown, BehindProxy, Runs,
     Stops, RecordedBackend, RecordedProxy
<1>9. Connected'
  BY StartAssumption DEF Orderly, LauncherKilled, Fault, settings, agents, TypeOK, OneInside,
     Inside, Stops, Connected
<1> QED BY <1>1, <1>2, <1>3, <1>4, <1>5, <1>6, <1>7, <1>8, <1>9

LEMMA ProxyLocksKeeps ==
  ASSUME Orderly, TypeOK, Known, NEW p \in Proxies, ProxyLocks(p)
  PROVE  TypeOK' /\ Known'
<1> USE DEF Known, Rest, Home
<1>1. TypeOK'
  BY StartAssumption DEF ProxyLocks, HasProxyLock, settings, agents, backends, proxies, TypeOK, Launchers
<1>2. OneInside'
  BY StartAssumption DEF ProxyLocks, HasProxyLock, settings, agents, backends, proxies, TypeOK, OneInside,
     Inside
<1>3. Children'
  BY StartAssumption DEF ProxyLocks, HasProxyLock, settings, agents, backends, proxies, TypeOK, Children,
     NoChild
<1>4. Launchers'
  BY StartAssumption DEF ProxyLocks, HasProxyLock, settings, agents, backends, proxies, TypeOK, OneInside,
     Inside, Children, Launchers, BehindLaunch, HasBackendLock, Servers, Live, Models
<1>5. Servers'
  BY StartAssumption DEF ProxyLocks, HasProxyLock, settings, agents, backends, proxies, TypeOK, OneInside,
     Inside, Children, Launchers, BehindLaunch, HasBackendLock, Servers, Live, Models
<1>6. Models'
  BY StartAssumption DEF ProxyLocks, HasProxyLock, settings, agents, backends, proxies, TypeOK, OneInside,
     Inside, Children, Launchers, BehindLaunch, Servers, Live, Models
<1>7. ProxiesKnown'
  BY StartAssumption DEF ProxyLocks, HasProxyLock, settings, agents, backends, proxies, TypeOK, OneInside,
     Inside, Children, ProxiesKnown, BehindProxy, Runs
<1>8. Stops'
  BY StartAssumption DEF ProxyLocks, HasProxyLock, settings, agents, backends, proxies, TypeOK, OneInside,
     Inside, Launchers, BehindLaunch, Servers, Live, ProxiesKnown, BehindProxy, Runs, Stops,
     RecordedBackend, RecordedProxy
<1>9. Connected'
  BY StartAssumption DEF ProxyLocks, HasProxyLock, settings, agents, TypeOK, OneInside, Inside,
     Stops, Connected
<1> QED BY <1>1, <1>2, <1>3, <1>4, <1>5, <1>6, <1>7, <1>8, <1>9

LEMMA ServesKeeps ==
  ASSUME Orderly, TypeOK, Known, NEW p \in Proxies, Serves(p)
  PROVE  TypeOK' /\ Known'
<1> USE DEF Known, Rest, Home
<1>1. TypeOK'
  BY StartAssumption DEF Serves, settings, agents, backends, proxies, TypeOK, Launchers
<1>2. OneInside'
  BY StartAssumption DEF Serves, settings, agents, backends, proxies, TypeOK, OneInside, Inside
<1>3. Children'
  BY StartAssumption DEF Serves, settings, agents, backends, proxies, TypeOK, Children, NoChild
<1>4. Launchers'
  BY StartAssumption DEF Serves, settings, agents, backends, proxies, TypeOK, OneInside, Inside, Children,
     Launchers, BehindLaunch, HasBackendLock, Servers, Live, Models
<1>5. Servers'
  BY StartAssumption DEF Serves, settings, agents, backends, proxies, TypeOK, OneInside, Inside, Children,
     Launchers, BehindLaunch, HasBackendLock, Servers, Live, Models
<1>6. Models'
  BY StartAssumption DEF Serves, settings, agents, backends, proxies, TypeOK, OneInside, Inside, Children,
     Launchers, BehindLaunch, Servers, Live, Models
<1>7. ProxiesKnown'
  BY StartAssumption DEF Serves, settings, agents, backends, proxies, TypeOK, OneInside, Inside, Children,
     ProxiesKnown, BehindProxy, Runs
<1>8. Stops'
  BY StartAssumption DEF Serves, settings, agents, backends, proxies, TypeOK, OneInside, Inside,
     Launchers, BehindLaunch, Servers, Live, ProxiesKnown, BehindProxy, Runs, Stops,
     RecordedBackend, RecordedProxy
<1>9. Connected'
  BY StartAssumption DEF Serves, settings, agents, TypeOK, OneInside, Inside, Stops, Connected
<1> QED BY <1>1, <1>2, <1>3, <1>4, <1>5, <1>6, <1>7, <1>8, <1>9

LEMMA ProxyDiesKeeps ==
  ASSUME Orderly, TypeOK, Known, NEW p \in Proxies, ProxyDies(p)
  PROVE  TypeOK' /\ Known'
<1> USE DEF Known, Rest, Home
<1>1. TypeOK'
  BY StartAssumption DEF ProxyDies, Fault, settings, agents, backends, proxies, TypeOK, Launchers
<1>2. OneInside'
  BY StartAssumption DEF ProxyDies, Fault, settings, agents, backends, proxies, TypeOK, OneInside, Inside
<1>3. Children'
  BY StartAssumption DEF ProxyDies, Fault, settings, agents, backends, proxies, TypeOK, Children, NoChild
<1>4. Launchers'
  BY StartAssumption DEF ProxyDies, Fault, settings, agents, backends, proxies, TypeOK, OneInside, Inside,
     Children, Launchers, BehindLaunch, HasBackendLock, Servers, Live, Models
<1>5. Servers'
  BY StartAssumption DEF ProxyDies, Fault, settings, agents, backends, proxies, TypeOK, OneInside, Inside,
     Children, Launchers, BehindLaunch, HasBackendLock, Servers, Live, Models
<1>6. Models'
  BY StartAssumption DEF ProxyDies, Fault, settings, agents, backends, proxies, TypeOK, OneInside, Inside,
     Children, Launchers, BehindLaunch, Servers, Live, Models
<1>7. ProxiesKnown'
  BY StartAssumption DEF ProxyDies, Fault, settings, agents, backends, proxies, TypeOK, OneInside, Inside,
     Children, ProxiesKnown, BehindProxy, Runs
<1>8. Stops'
  BY StartAssumption DEF ProxyDies, Fault, settings, agents, backends, proxies, TypeOK, OneInside, Inside,
     Launchers, BehindLaunch, Servers, Live, ProxiesKnown, BehindProxy, Runs, Stops,
     RecordedBackend, RecordedProxy
<1>9. Connected'
  BY StartAssumption DEF ProxyDies, Fault, settings, agents, TypeOK, OneInside, Inside, Stops,
     Connected
<1> QED BY <1>1, <1>2, <1>3, <1>4, <1>5, <1>6, <1>7, <1>8, <1>9

LEMMA StopBeginsKeeps ==
  ASSUME Orderly, TypeOK, Known, StopBegins
  PROVE  TypeOK' /\ Known'
<1> USE DEF Known, Rest, Home
<1>1. TypeOK'
  BY StartAssumption DEF StopBegins, RecordedProxy, RecordedBackend, Fault, settings, agents, backends,
     proxies, TypeOK, Launchers
<1>2. OneInside'
  BY StartAssumption DEF StopBegins, RecordedProxy, RecordedBackend, Fault, settings, agents, backends,
     proxies, TypeOK, OneInside, Inside
<1>3. Children'
  BY StartAssumption DEF StopBegins, RecordedProxy, RecordedBackend, Fault, settings, agents, backends,
     proxies, TypeOK, Children, NoChild
<1>4. Launchers'
  BY StartAssumption DEF StopBegins, RecordedProxy, RecordedBackend, Fault, settings, agents, backends,
     proxies, TypeOK, OneInside, Inside, Children, Launchers, BehindLaunch, HasBackendLock,
     Servers, Live, Models
<1>5. Servers'
  BY StartAssumption DEF StopBegins, RecordedProxy, RecordedBackend, Fault, settings, agents, backends,
     proxies, TypeOK, OneInside, Inside, Children, Launchers, BehindLaunch, HasBackendLock,
     Servers, Live, Models
<1>6. Models'
  BY StartAssumption DEF StopBegins, RecordedProxy, RecordedBackend, Fault, settings, agents, backends,
     proxies, TypeOK, OneInside, Inside, Children, Launchers, BehindLaunch, Servers, Live,
     Models
<1>7. ProxiesKnown'
  BY StartAssumption DEF StopBegins, RecordedProxy, RecordedBackend, Fault, settings, agents, backends,
     proxies, TypeOK, OneInside, Inside, Children, ProxiesKnown, BehindProxy, Runs
<1>8. Stops'
  BY StartAssumption DEF StopBegins, RecordedProxy, RecordedBackend, Fault, settings, agents, backends,
     proxies, TypeOK, OneInside, Inside, Launchers, BehindLaunch, Servers, Live, ProxiesKnown,
     BehindProxy, Runs, Stops
<1>9. Connected'
  BY StartAssumption DEF StopBegins, RecordedProxy, RecordedBackend, Fault, settings, agents,
     TypeOK, OneInside, Inside, Stops, Connected
<1> QED BY <1>1, <1>2, <1>3, <1>4, <1>5, <1>6, <1>7, <1>8, <1>9

LEMMA DisconnectsKeeps ==
  ASSUME Orderly, TypeOK, Known, Disconnects
  PROVE  TypeOK' /\ Known'
<1> USE DEF Known, Rest, Home
<1>1. TypeOK'
  <2>1. uninstalled' \subseteq Profiles /\ outdated' \subseteq Agents
    BY DEF Disconnects, TypeOK
  <2>2. stop' \in [at: {"idle", "planned", "refused", "proxy", "backend", "done"},
                   profile: Profiles \cup {"none"},
                   proxy: Proxies \cup {"none"}, backend: Backends \cup {"none"}]
    BY DEF Disconnects, TypeOK
  <2> QED BY <2>1, <2>2 DEF Disconnects, agents, backends, proxies, TypeOK
<1>2. OneInside'
  BY StartAssumption DEF Disconnects, settings, agents, backends, proxies, TypeOK, OneInside, Inside
<1>3. Children'
  BY StartAssumption DEF Disconnects, settings, agents, backends, proxies, TypeOK, Children, NoChild
<1>4. Launchers'
  BY StartAssumption DEF Disconnects, settings, agents, backends, proxies, TypeOK, OneInside, Inside,
     Children, Launchers, BehindLaunch, HasBackendLock, Servers, Live, Models
<1>5. Servers'
  BY StartAssumption DEF Disconnects, settings, agents, backends, proxies, TypeOK, OneInside, Inside,
     Children, Launchers, BehindLaunch, HasBackendLock, Servers, Live, Models
<1>6. Models'
  BY StartAssumption DEF Disconnects, settings, agents, backends, proxies, TypeOK, OneInside, Inside,
     Children, Launchers, BehindLaunch, Servers, Live, Models
<1>7. ProxiesKnown'
  BY StartAssumption DEF Disconnects, settings, agents, backends, proxies, TypeOK, OneInside, Inside,
     Children, ProxiesKnown, BehindProxy, Runs
<1>8. Stops'
  BY StartAssumption DEF Disconnects, settings, agents, backends, proxies, TypeOK, OneInside, Inside,
     Launchers, BehindLaunch, Servers, Live, ProxiesKnown, BehindProxy, Runs, Stops,
     RecordedBackend, RecordedProxy
<1>9. Connected'
  BY StartAssumption DEF Disconnects, settings, agents, TypeOK, OneInside, Inside, Stops,
     Connected
<1> QED BY <1>1, <1>2, <1>3, <1>4, <1>5, <1>6, <1>7, <1>8, <1>9

LEMMA StopsProxyKeeps ==
  ASSUME Orderly, TypeOK, Known, StopsProxy
  PROVE  TypeOK' /\ Known'
<1> USE DEF Known, Rest, Home
<1>1. TypeOK'
  BY StartAssumption DEF StopsProxy, RecordedProxy, settings, agents, backends, proxies, TypeOK, Launchers
<1>2. OneInside'
  BY StartAssumption DEF StopsProxy, RecordedProxy, settings, agents, backends, proxies, TypeOK,
     OneInside, Inside
<1>3. Children'
  BY StartAssumption DEF StopsProxy, RecordedProxy, settings, agents, backends, proxies, TypeOK, Children,
     NoChild
<1>4. Launchers'
  BY StartAssumption DEF StopsProxy, RecordedProxy, settings, agents, backends, proxies, TypeOK,
     OneInside, Inside, Children, Launchers, BehindLaunch, HasBackendLock, Servers, Live, Models
<1>5. Servers'
  BY StartAssumption DEF StopsProxy, RecordedProxy, settings, agents, backends, proxies, TypeOK,
     OneInside, Inside, Children, Launchers, BehindLaunch, HasBackendLock, Servers, Live, Models
<1>6. Models'
  BY StartAssumption DEF StopsProxy, RecordedProxy, settings, agents, backends, proxies, TypeOK,
     OneInside, Inside, Children, Launchers, BehindLaunch, Servers, Live, Models
<1>7. ProxiesKnown'
  BY StartAssumption DEF StopsProxy, RecordedProxy, settings, agents, backends, proxies, TypeOK,
     OneInside, Inside, Children, ProxiesKnown, BehindProxy, Runs
<1>8. Stops'
  BY StartAssumption DEF StopsProxy, RecordedProxy, settings, agents, backends, proxies, TypeOK,
     OneInside, Inside, Launchers, BehindLaunch, Servers, Live, ProxiesKnown, BehindProxy, Runs,
     Stops, RecordedBackend
<1>9. Connected'
  BY StartAssumption DEF StopsProxy, RecordedProxy, settings, agents, TypeOK, OneInside, Inside,
     Stops, Connected
<1> QED BY <1>1, <1>2, <1>3, <1>4, <1>5, <1>6, <1>7, <1>8, <1>9

LEMMA StopsBackendKeeps ==
  ASSUME Orderly, TypeOK, Known, StopsBackend
  PROVE  TypeOK' /\ Known'
<1> USE DEF Known, Rest, Home
<1>0. \A a \in Agents : ~Inside(a)
  BY StartAssumption DEF StopsBackend, OneInside, Stops
<1>1. TypeOK'
  BY StartAssumption DEF StopsBackend, RecordedBackend, settings, agents, backends, proxies, TypeOK,
     Launchers
<1>2. OneInside'
  BY StartAssumption, <1>0 DEF StopsBackend, RecordedBackend, settings, agents, backends, proxies,
     TypeOK, OneInside, Inside
<1>3. Children'
  BY StartAssumption DEF StopsBackend, RecordedBackend, settings, agents, backends, proxies, TypeOK,
     Children, NoChild
<1>4. Launchers'
  BY StartAssumption, <1>0 DEF StopsBackend, RecordedBackend, settings, agents, backends, proxies,
     TypeOK, OneInside, Inside, Children, Launchers, BehindLaunch, HasBackendLock, Servers, Live,
     Models
<1>5. Servers'
  BY StartAssumption, <1>0 DEF StopsBackend, RecordedBackend, settings, agents, backends, proxies,
     TypeOK, OneInside, Inside, Children, Launchers, BehindLaunch, HasBackendLock, Servers, Live,
     Models
<1>6. Models'
  BY StartAssumption DEF StopsBackend, RecordedBackend, settings, agents, backends, proxies, TypeOK,
     OneInside, Inside, Children, Launchers, BehindLaunch, Servers, Live, Models
<1>7. ProxiesKnown'
  BY StartAssumption, <1>0 DEF StopsBackend, RecordedBackend, settings, agents, backends, proxies,
     TypeOK, OneInside, Inside, Children, ProxiesKnown, BehindProxy, Runs
<1>8. Stops'
  BY StartAssumption DEF StopsBackend, RecordedBackend, settings, agents, backends, proxies, TypeOK,
     OneInside, Inside, Launchers, BehindLaunch, Servers, Live, ProxiesKnown, BehindProxy, Runs,
     Stops, RecordedProxy
<1>9. Connected'
  BY StartAssumption, <1>0 DEF StopsBackend, RecordedBackend, settings, agents, TypeOK, OneInside,
     Inside, Stops, Connected
<1> QED BY <1>1, <1>2, <1>3, <1>4, <1>5, <1>6, <1>7, <1>8, <1>9

LEMMA StopFailsKeeps ==
  ASSUME Orderly, TypeOK, Known, StopFails
  PROVE  TypeOK' /\ Known'
<1> USE DEF Known, Rest, Home
<1>0. \A a \in Agents : ~Inside(a)
  BY StartAssumption DEF StopFails, OneInside, Stops
<1>1. TypeOK'
  BY StartAssumption DEF StopFails, settings, agents, backends, proxies, TypeOK, Launchers
<1>2. OneInside'
  BY StartAssumption, <1>0 DEF StopFails, settings, agents, backends, proxies, TypeOK, OneInside, Inside
<1>3. Children'
  BY StartAssumption DEF StopFails, settings, agents, backends, proxies, TypeOK, Children, NoChild
<1>4. Launchers'
  BY StartAssumption, <1>0 DEF StopFails, settings, agents, backends, proxies, TypeOK, OneInside, Inside,
     Children, Launchers, BehindLaunch, HasBackendLock, Servers, Live, Models
<1>5. Servers'
  BY StartAssumption, <1>0 DEF StopFails, settings, agents, backends, proxies, TypeOK, OneInside, Inside,
     Children, Launchers, BehindLaunch, HasBackendLock, Servers, Live, Models
<1>6. Models'
  BY StartAssumption DEF StopFails, settings, agents, backends, proxies, TypeOK, OneInside, Inside,
     Children, Launchers, BehindLaunch, Servers, Live, Models
<1>7. ProxiesKnown'
  BY StartAssumption, <1>0 DEF StopFails, settings, agents, backends, proxies, TypeOK, OneInside, Inside,
     Children, ProxiesKnown, BehindProxy, Runs
<1>8. Stops'
  BY StartAssumption DEF StopFails, settings, agents, backends, proxies, TypeOK, OneInside, Inside,
     Launchers, BehindLaunch, Servers, Live, ProxiesKnown, BehindProxy, Runs, Stops,
     RecordedBackend, RecordedProxy
<1>9. Connected'
  BY StartAssumption, <1>0 DEF StopFails, settings, agents, TypeOK, OneInside, Inside, Stops,
     Connected
<1> QED BY <1>1, <1>2, <1>3, <1>4, <1>5, <1>6, <1>7, <1>8, <1>9

LEMMA ClearsSettingsKeeps ==
  ASSUME Orderly, TypeOK, Known, ClearsSettings
  PROVE  TypeOK' /\ Known'
<1> USE DEF Known, Rest, Home
<1>1. TypeOK'
  <2>1. uninstalled' \subseteq Profiles /\ outdated' \subseteq Agents
    BY DEF ClearsSettings, TypeOK
  <2>2. stop' \in [at: {"idle", "planned", "refused", "proxy", "backend", "done"},
                   profile: Profiles \cup {"none"},
                   proxy: Proxies \cup {"none"}, backend: Backends \cup {"none"}]
    BY DEF ClearsSettings, TypeOK
  <2> QED BY <2>1, <2>2 DEF ClearsSettings, agents, backends, proxies, TypeOK
<1>2. OneInside'
  BY StartAssumption DEF ClearsSettings, settings, agents, backends, proxies, TypeOK, OneInside, Inside
<1>3. Children'
  BY StartAssumption DEF ClearsSettings, settings, agents, backends, proxies, TypeOK, Children, NoChild
<1>4. Launchers'
  BY StartAssumption
     DEF ClearsSettings, settings, agents, backends, proxies, TypeOK, OneInside, Inside, Children,
     Launchers, BehindLaunch, HasBackendLock, Servers, Live, Models
<1>5. Servers'
  BY StartAssumption
     DEF ClearsSettings, settings, agents, backends, proxies, TypeOK, OneInside, Inside, Children,
     Launchers, BehindLaunch, HasBackendLock, Servers, Live, Models
<1>6. Models'
  BY StartAssumption
     DEF ClearsSettings, settings, agents, backends, proxies, TypeOK, OneInside, Inside, Children,
     Launchers, BehindLaunch, Servers, Live, Models
<1>7. ProxiesKnown'
  BY StartAssumption
     DEF ClearsSettings, settings, agents, backends, proxies, TypeOK, OneInside, Inside, Children,
     ProxiesKnown, BehindProxy, Runs
<1>8. Stops'
  BY StartAssumption
     DEF ClearsSettings, settings, agents, backends, proxies, TypeOK, OneInside, Inside, Launchers,
     BehindLaunch, Servers, Live, ProxiesKnown, BehindProxy, Runs, Stops, RecordedBackend,
     RecordedProxy
<1>9. Connected'
  BY StartAssumption DEF ClearsSettings, settings, agents, TypeOK, OneInside, Inside, Stops, Connected
<1> QED BY <1>1, <1>2, <1>3, <1>4, <1>5, <1>6, <1>7, <1>8, <1>9

LEMMA SetupKeeps ==
  ASSUME Orderly, TypeOK, Known, NEW a \in Agents, Setup(a)
  PROVE  TypeOK' /\ Known'
<1> USE DEF Known, Rest, Home
<1>1. TypeOK'
  BY StartAssumption DEF Setup, settings, agents, backends, proxies, TypeOK, Launchers
<1>2. OneInside'
  BY StartAssumption DEF Setup, settings, agents, backends, proxies, TypeOK, OneInside, Inside
<1>3. Children'
  BY StartAssumption DEF Setup, settings, agents, backends, proxies, TypeOK, Children, NoChild
<1>4. Launchers'
  BY StartAssumption DEF Setup, settings, agents, backends, proxies, TypeOK, OneInside, Inside, Children,
     Launchers, BehindLaunch, HasBackendLock, Servers, Live, Models
<1>5. Servers'
  BY StartAssumption DEF Setup, settings, agents, backends, proxies, TypeOK, OneInside, Inside, Children,
     Launchers, BehindLaunch, HasBackendLock, Servers, Live, Models
<1>6. Models'
  BY StartAssumption DEF Setup, settings, agents, backends, proxies, TypeOK, OneInside, Inside, Children,
     Launchers, BehindLaunch, Servers, Live, Models
<1>7. ProxiesKnown'
  BY StartAssumption DEF Setup, settings, agents, backends, proxies, TypeOK, OneInside, Inside, Children,
     ProxiesKnown, BehindProxy, Runs
<1>8. Stops'
  BY StartAssumption DEF Setup, settings, agents, backends, proxies, TypeOK, OneInside, Inside, Launchers,
     BehindLaunch, Servers, Live, ProxiesKnown, BehindProxy, Runs, Stops, RecordedBackend,
     RecordedProxy
<1>9. Connected'
  BY StartAssumption DEF Setup, settings, agents, TypeOK, OneInside, Inside, Stops, Connected
<1> QED BY <1>1, <1>2, <1>3, <1>4, <1>5, <1>6, <1>7, <1>8, <1>9

LEMMA NextKnown ==
  ASSUME Orderly, TypeOK, Known, [Next]_vars
  PROVE  TypeOK' /\ Known'
<1>1. CASE UNCHANGED vars
  BY <1>1
     DEF vars, settings, agents, backends, proxies, TypeOK, Known, OneInside, Inside, Children, Launchers,
         HasBackendLock, BehindLaunch, Servers, Live, Models, ProxiesKnown, BehindProxy, Runs, Stops,
         RecordedBackend, RecordedProxy, Connected
<1>2. ASSUME NEW a \in Agents, Begin(a) \/ AgentStep(a) \/ Setup(a)
      PROVE  TypeOK' /\ Known'
  BY <1>2, BeginKeeps, LocksKeeps, ReadsKeeps, AdoptsKeeps, NoAnswerKeeps, FindsBackendKeeps,
     LaunchesBackendKeeps, BackendReadyKeeps, LaunchesProxyKeeps, ProxyReadyKeeps, WaitFailsKeeps,
     SavesKeeps, StopsChildKeeps, KillsChildKeeps, CleanedKeeps, SetupKeeps
     DEF AgentStep
<1>3. \A a \in Agents : ~Exits(a)
  BY DEF Orderly, Exits, Fault
<1>4. ASSUME NEW b \in Backends,
             LauncherStep(b) \/ ModelLoaded(b) \/ ServerDies(b) \/ LosesPort(b) \/ LauncherKilled(b)
      PROVE  TypeOK' /\ Known'
  BY <1>4, LauncherLocksKeeps, SpawnsKeeps, WritesManifestKeeps, LauncherExitsKeeps, LauncherStopsKeeps,
     ModelLoadedKeeps, ServerDiesKeeps, LosesPortKeeps, LauncherKilledKeeps
     DEF LauncherStep
<1>5. ASSUME NEW p \in Proxies, ProxyStep(p) \/ ProxyDies(p)
      PROVE  TypeOK' /\ Known'
  BY <1>5, ProxyLocksKeeps, ServesKeeps, ProxyDiesKeeps DEF ProxyStep
<1>6. CASE StopBegins \/ StopStep
  BY <1>6, StopBeginsKeeps, DisconnectsKeeps, StopsProxyKeeps, StopsBackendKeeps, StopFailsKeeps,
     ClearsSettingsKeeps
     DEF StopStep
<1> QED BY <1>1, <1>2, <1>3, <1>4, <1>5, <1>6 DEF Next

-----------------------------------------------------------------------------
(* What follows *)

\* The state has its shape.
THEOREM TypeCorrect ==
  ASSUME Orderly
  PROVE  Spec => []TypeOK
<1>1. Init => TypeOK /\ Known
  BY InitKnown
<1>2. TypeOK /\ Known /\ [Next]_vars => (TypeOK /\ Known)'
  BY NextKnown
<1> QED BY <1>1, <1>2, PTL DEF Spec

\* One llama-server and one proxy work on the archive, however many agents start them.
THEOREM OneService ==
  ASSUME Orderly
  PROVE  Spec => []OneOfEach
<1>1. Init => TypeOK /\ Known
  BY InitKnown
<1>2. TypeOK /\ Known /\ [Next]_vars => (TypeOK /\ Known)'
  BY NextKnown
<1>3. TypeOK /\ Known => OneOfEach
  BY StartAssumption DEF TypeOK, Known, Servers, Live, ProxiesKnown, BehindProxy, Runs,
     HasProxyLock, OneOfEach
<1> QED BY <1>1, <1>2, <1>3, PTL DEF Spec

\* Only these actions end a stop, ...
LEMMA StopEnds ==
  ASSUME TypeOK, [Next]_vars, stop.at # "done", stop'.at = "done"
  PROVE  StopsBackend
BY DEF TypeOK, Next, vars, AgentStep, Begin, Locks, Reads, Adopts, NoAnswer, FindsBackend, LaunchesBackend,
       BackendReady, LaunchesProxy, ProxyReady, WaitFails, Saves, StopsChild, KillsChild, Cleaned, Exits,
       Setup, LauncherStep, LauncherLocks, Spawns, WritesManifest, LauncherExits, LauncherStops,
       ModelLoaded, ServerDies, LosesPort, LauncherKilled, ProxyStep, ProxyLocks, Serves, ProxyDies,
       StopBegins, StopStep, Disconnects, StopsProxy, StopFails, ClearsSettings

\* ... and start a process.
LEMMA Launches ==
  ASSUME TypeOK, [Next]_vars, NEW a \in Agents, child'[a] \notin {child[a], NoChild}
  PROVE  LaunchesBackend(a) \/ LaunchesProxy(a)
<1>1. child' # child
  OBVIOUS
<1>2. PICK i \in Agents : AgentStep(i) \/ Exits(i)
  BY <1>1
     DEF Next, vars, agents, Begin, Setup, LauncherStep, LauncherLocks, Spawns, WritesManifest,
         LauncherExits, LauncherStops, ModelLoaded, ServerDies, LosesPort, LauncherKilled, ProxyStep,
         ProxyLocks, Serves, ProxyDies, StopBegins, StopStep, Disconnects, StopsProxy, StopsBackend,
         StopFails, ClearsSettings
<1>3. \/ child' = child \/ child' = [child EXCEPT ![i] = NoChild]
      \/ LaunchesBackend(i) \/ LaunchesProxy(i)
  BY <1>2
     DEF agents, AgentStep, Exits, Locks, Returns, Reads, Adopts, Succeeds, Fails, NoAnswer,
         FindsBackend, BackendReady, ProxyReady, WaitFails, Saves, StopsChild, KillsChild, Cleaned
<1>4. LaunchesBackend(i) \/ LaunchesProxy(i)
  BY <1>1, <1>3 DEF TypeOK
<1>5. i = a
  BY <1>4 DEF TypeOK, LaunchesBackend, LaunchesProxy
<1> QED BY <1>4, <1>5

\* A stop that reports success has stopped all that ran; a Hermes whose profile is
\* uninstalled starts nothing.
THEOREM UninstallIsFinal ==
  ASSUME Orderly
  PROVE  Spec => StopIsFinal
<1>1. Init => TypeOK /\ Known
  BY InitKnown
<1>2. TypeOK /\ Known /\ [Next]_vars => (TypeOK /\ Known)'
  BY NextKnown
<1> DEFINE Stopped ==
      /\ stop.at # "done" /\ stop'.at = "done" =>
           /\ \A b \in Backends : server'[b] = "none"
           /\ \A p \in Proxies : proxy'[p] = "none"
      /\ \A a \in Agents :
           Kind[a] = "hermes" /\ child'[a] \notin {child[a], NoChild} => Profile[a] \notin uninstalled
<1>3. ASSUME TypeOK, Known, [Next]_vars, stop.at # "done", stop'.at = "done"
      PROVE  /\ \A b \in Backends : server'[b] = "none"
             /\ \A p \in Proxies : proxy'[p] = "none"
  <2>1. StopsBackend
    BY <1>3, StopEnds
  <2>2. \A a \in Agents : ~Inside(a)
    BY <1>3, <2>1, StartAssumption DEF StopsBackend, Known, OneInside, Stops
  <2>3. \A b \in Backends : Live(b) => b \in RecordedBackend
    BY <1>3, <2>2 DEF Known, Servers, BehindLaunch, Inside, RecordedBackend, Live
  <2>4. \A p \in Proxies : Runs(p) => p \in RecordedProxy
    BY <1>3, <2>2 DEF Known, ProxiesKnown, BehindProxy, Inside, RecordedProxy, Runs, TypeOK
  <2>5. RecordedBackend \subseteq {stop.backend} /\ RecordedProxy = {}
    BY <1>3, <2>1 DEF StopsBackend, Known, Stops
  <2> QED BY <2>1, <2>3, <2>4, <2>5 DEF StopsBackend, Live, Runs, proxies
<1>4. ASSUME TypeOK, Known, [Next]_vars, NEW a \in Agents,
             Kind[a] = "hermes", child'[a] \notin {child[a], NoChild}
      PROVE  Profile[a] \notin uninstalled
  <2>1. Inside(a)
    BY <1>4, Launches DEF LaunchesBackend, LaunchesProxy, Inside
  <2> QED BY <1>4, <2>1 DEF Known, Connected
<1>5. TypeOK /\ Known /\ [Next]_vars => [Stopped]_vars
  BY <1>3, <1>4
<1>6. Spec => [][Stopped]_vars
  BY <1>1, <1>2, <1>5, PTL DEF Spec
<1> QED BY <1>6 DEF StopIsFinal

\* An agent moves by its own steps, unless it dies.
LEMMA MovesItself ==
  ASSUME TypeOK, [Next]_vars, NEW a \in Agents,
         at[a] \notin Rest \cup {"saving"}, at'[a] \in Rest \cup {"saving"}, budget' = budget
  PROVE  AgentStep(a)
<1>1. at' # at /\ budget \in Nat
  BY StartAssumption DEF TypeOK
<1>2. PICK i \in Agents : Begin(i) \/ AgentStep(i) \/ Exits(i)
  BY <1>1
     DEF Next, vars, agents, Setup, LauncherStep, LauncherLocks, Spawns, WritesManifest, LauncherExits,
         LauncherStops, ModelLoaded, ServerDies, LosesPort, LauncherKilled, ProxyStep, ProxyLocks,
         Serves, ProxyDies, StopBegins, StopStep, Disconnects, StopsProxy, StopsBackend, StopFails,
         ClearsSettings
<1>3. i = a
  BY <1>2
     DEF TypeOK, agents, Begin, AgentStep, Exits, Locks, Returns, Reads, Adopts, Succeeds, Fails,
         NoAnswer, FindsBackend, LaunchesBackend, BackendReady, LaunchesProxy, ProxyReady, WaitFails,
         Saves, StopsChild, KillsChild, Cleaned
<1>4. ~Exits(a) /\ ~Begin(a)
  BY <1>1 DEF Exits, Begin, Fault, Rest
<1> QED BY <1>2, <1>3, <1>4

\* It leaves ensure() by a success from the places where it can have one ...
LEMMA LeavesBySuccess ==
  ASSUME TypeOK, NEW a \in Agents, AgentStep(a), at[a] \in {"asking", "joining"},
         at'[a] \in Rest \cup {"saving"}
  PROVE  Adopts(a) \/ ProxyReady(a)
BY DEF TypeOK, agents, AgentStep, Locks, Reads, Fails, NoAnswer, FindsBackend, LaunchesBackend,
       BackendReady, LaunchesProxy, WaitFails, Saves, StopsChild, KillsChild, Cleaned, Rest

\* ... and otherwise when its children are gone.
LEMMA LeavesClean ==
  ASSUME TypeOK, NEW a \in Agents, AgentStep(a), at[a] = "cleaning", at'[a] \in Rest
  PROVE  Cleaned(a)
BY DEF TypeOK, agents, AgentStep, Locks, Reads, Adopts, NoAnswer, FindsBackend, LaunchesBackend,
       BackendReady, LaunchesProxy, ProxyReady, WaitFails, Saves, StopsChild, KillsChild, Cleaned, Rest

\* An agent whose start succeeds has a proxy in front of the model it is configured with.
THEOREM OwnModelIsReady ==
  ASSUME Orderly
  PROVE  Spec => ReadyIsRight
<1>1. Init => TypeOK /\ Known
  BY InitKnown
<1>2. TypeOK /\ Known /\ [Next]_vars => (TypeOK /\ Known)'
  BY NextKnown
<1> DEFINE Right ==
      \A a \in Agents :
        at[a] \in {"asking", "joining"} /\ at'[a] \in Rest \cup {"saving"} /\ budget' = budget =>
          \E p \in Proxies :
            /\ proxy[p] = "serving"
            /\ \A b \in Backends :
                 server[b] # "none" /\ listens[b] = upstream[p] => loaded[b] = Wanted[a]
<1>3. TypeOK /\ Known /\ [Next]_vars => [Right]_vars
  <2>1. SUFFICES ASSUME TypeOK, Known, [Next]_vars, NEW a \in Agents,
                        at[a] \in {"asking", "joining"}, at'[a] \in Rest \cup {"saving"}, budget' = budget
                 PROVE  \E p \in Proxies :
                          /\ proxy[p] = "serving"
                          /\ \A b \in Backends : server[b] # "none" => loaded[b] = Wanted[a]
    OBVIOUS
  <2>2. CASE Adopts(a)
    <3>1. Owned(a)
      BY <2>1, <2>2 DEF Adopts, Fails, TypeOK, Rest
    <3> QED BY <2>1, <2>2, <3>1 DEF Adopts, Answers, Owned, RecordedBackend, Known, Servers, Live
  <2>3. CASE ProxyReady(a)
    BY <2>1, <2>3 DEF ProxyReady, RecordedProxy, Known, Models, Live
  <2>4. AgentStep(a)
    BY <2>1, MovesItself DEF Rest
  <2> QED BY <2>1, <2>2, <2>3, <2>4, LeavesBySuccess
<1>4. Spec => [][Right]_vars
  BY <1>1, <1>2, <1>3, PTL DEF Spec
<1> QED BY <1>4 DEF ReadyIsRight

\* A start that fails leaves no process behind, except on record.
THEOREM FailureLeavesNothing ==
  ASSUME Orderly
  PROVE  Spec => NothingLeft
<1>1. Init => TypeOK /\ Known
  BY InitKnown
<1>2. TypeOK /\ Known /\ [Next]_vars => (TypeOK /\ Known)'
  BY NextKnown
<1> DEFINE Clean ==
      \A a \in Agents : at[a] = "cleaning" /\ at'[a] \in Rest /\ budget' = budget =>
        /\ \A p \in Proxies \cap {child[a].proxy} : proxy[p] = "none"
        /\ \A b \in Backends \cap {child[a].backend} :
             launcher[b] = "none" /\ server[b] # "none" => b = manifest
<1>3. TypeOK /\ Known /\ [Next]_vars => [Clean]_vars
  <2>1. SUFFICES ASSUME TypeOK, Known, [Next]_vars, NEW a \in Agents,
                        at[a] = "cleaning", at'[a] \in Rest, budget' = budget
                 PROVE  /\ \A p \in Proxies \cap {child[a].proxy} : proxy[p] = "none"
                        /\ \A b \in Backends \cap {child[a].backend} :
                             launcher[b] = "none" /\ server[b] # "none" => b = manifest
    OBVIOUS
  <2>2. Cleaned(a)
    BY <2>1, MovesItself, LeavesClean DEF Rest
  <2> QED BY <2>1, <2>2 DEF Cleaned, OwnProxy, OwnLauncher, Known, Servers, Live
<1>4. Spec => [][Clean]_vars
  BY <1>1, <1>2, <1>3, PTL DEF Spec
<1> QED BY <1>4 DEF NothingLeft
=============================================================================
