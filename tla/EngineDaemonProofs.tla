------------------------- MODULE EngineDaemonProofs -------------------------
(***************************************************************************)
(* For every set of clients, every number of daemon processes and every    *)
(* combination of faults: one daemon serves, and only it runs jobs beside  *)
(* one that has closed and whose job outlasts it; and, when no client is   *)
(* slower between its ping and its request than a daemon takes to start,   *)
(* what a switch reports is what its output file holds.                    *)
(*                                                                         *)
(* The argument for the output: whoever may still write it is the worker   *)
(* that has the job or will take it from its queue, which has not replied, *)
(* and the client still waits for it or is about to kill it.               *)
(***************************************************************************)
EXTENDS EngineDaemon, TLAPS

ClientStates == {"ensure", "pinged", "waiting", "kill", "clean", "oneshot", "returned", "failed"}
ConnStates == {None, "answered", "unread", "closed", "backlog"} \cup Taken
Items == Clients \cup {"end"}
Nobodies == Daemons \cup {Nobody}

InQueue(d, c) == \E i \in DOMAIN queue[d] : queue[d][i] = c

\* A daemon that is not alive works on nothing.
DaemonInv ==
  \A d \in Daemons :
    /\ Listens(d) => flock = d
    /\ phase[d] = "closed" => worker[d] = "ended" \/ "long" \in Faults
    /\ ~Alive(d) => worker[d] \notin Clients /\ queue[d] = <<>>
    /\ phase[d] = "serving" => socket = d

\* A job is with one worker, once, and its client's connection is open.
JobInv ==
  \A d \in Daemons : \A c \in Clients :
    /\ worker[d] = c => peer[c] = d /\ conn[c] = "queued" /\ reply[c] = None /\ ~InQueue(d, c)
    /\ InQueue(d, c) => /\ peer[c] = d /\ conn[c] \in {"queued", "answered"}
                        /\ worker[d] # "ended" => conn[c] = "queued" /\ reply[c] = None
    /\ \A i, k \in DOMAIN queue[d] : queue[d][i] = c /\ queue[d][k] = c => i = k

Open(c) == conn[c] = "backlog" \/ conn[c] \in Taken

\* A connection that is open leads to a daemon that is alive.
ConnInv ==
  \A c \in Clients :
    Open(c) => peer[c] \in Daemons /\ Alive(peer[c]) /\ (conn[c] # "queued" => reply[c] = None)

\* A client before, during and after its request.
ClientInv ==
  \A c \in Clients :
    /\ pc[c] \in {"ensure", "pinged"} => conn[c] = None /\ reply[c] = None /\ out[c] = None
    /\ pc[c] \in {"ensure", "pinged", "waiting"} => why[c] = None
    /\ pc[c] \in {"kill", "clean", "oneshot"} => why[c] # None
    /\ pc[c] \in {"pinged", "waiting", "kill"} => pid[c] \in Daemons

\* The daemon that has the request is the one that answered the ping.
PidInv ==
  \A c \in Clients :
    /\ pc[c] = "pinged" => socket \in {pid[c], Nobody}
    /\ pc[c] \in {"waiting", "kill"} => pid[c] = peer[c]
    /\ c \in Switches /\ pc[c] \in {"clean", "oneshot", "returned", "failed"} => ~Open(c)

\* What a waiting client is about to hear, and what it has told its caller.
OutInv ==
  \A c \in Switches :
    /\ pc[c] = "waiting" /\ reply[c] = "ok" => out[c] = "daemon"
    /\ pc[c] = "waiting" /\ reply[c] = "final" => out[c] \in {None, "left"}
    /\ pc[c] = "oneshot" => out[c] = None /\ why[c] = "unavailable"
    /\ pc[c] = "returned" => out[c] = IF why[c] = None THEN "daemon" ELSE "oneshot"
    /\ pc[c] = "failed" => out[c] = None \/ (out[c] = "left" /\ why[c] \in {None, "unavailable"})

Inductive == TypeOK /\ DaemonInv /\ JobInv /\ ConnInv /\ ClientInv

Faithful == Inductive /\ PidInv /\ OutInv

-----------------------------------------------------------------------------
\* A client is none of the marks that stand where a client could.
LEMMA Names ==
  ASSUME NEW c \in Clients
  PROVE  c \notin {None, "end", "idle", "ended"}
BY EngineAssumption

\* What taking the first element leaves of a queue.
LEMMA QueueTail ==
  ASSUME NEW q \in Seq(Items), q # <<>>
  PROVE  /\ Head(q) \in Items
         /\ Tail(q) \in Seq(Items)
         /\ \A x : (\E i \in DOMAIN Tail(q) : Tail(q)[i] = x) => \E i \in DOMAIN q : i # 1 /\ q[i] = x
         /\ \A x : (\A i, k \in DOMAIN q : q[i] = x /\ q[k] = x => i = k) =>
                   \A i, k \in DOMAIN Tail(q) : Tail(q)[i] = x /\ Tail(q)[k] = x => i = k
         /\ 1 \in DOMAIN q /\ Head(q) = q[1]
<1>1. Len(q) \in Nat /\ Len(q) # 0 /\ DOMAIN q = 1..Len(q) /\ DOMAIN Tail(q) = 1..(Len(q) - 1)
  OBVIOUS
<1>2. \A i \in DOMAIN Tail(q) : i + 1 \in DOMAIN q /\ i + 1 # 1 /\ Tail(q)[i] = q[i + 1]
  BY <1>1
<1> QED BY <1>1, <1>2

\* What putting an element at the end makes of a queue.
LEMMA QueueAppend ==
  ASSUME NEW q \in Seq(Items), NEW x \in Items
  PROVE  /\ Append(q, x) \in Seq(Items)
         /\ \A y : (\E i \in DOMAIN Append(q, x) : Append(q, x)[i] = y) <=> (y = x \/ \E i \in DOMAIN q : q[i] = y)
         /\ \A y : (\A i, k \in DOMAIN q : q[i] = y /\ q[k] = y => i = k)
                   /\ (y = x => ~\E i \in DOMAIN q : q[i] = y) =>
                   \A i, k \in DOMAIN Append(q, x) : Append(q, x)[i] = y /\ Append(q, x)[k] = y => i = k
<1>1. /\ Len(q) \in Nat /\ DOMAIN q = 1..Len(q) /\ DOMAIN Append(q, x) = 1..(Len(q) + 1)
      /\ Append(q, x)[Len(q) + 1] = x
      /\ \A i \in DOMAIN q : Append(q, x)[i] = q[i]
  OBVIOUS
<1>2. \A i \in DOMAIN Append(q, x) : i = Len(q) + 1 \/ i \in DOMAIN q
  BY <1>1
<1> QED BY <1>1, <1>2

\* At the start nothing runs and nobody was told anything.
LEMMA InitHolds ==
  ASSUME Init
  PROVE  Faithful
<1> USE DEF Init, None, Taken
<1>1. TypeOK
  BY DEF TypeOK
<1>2. DaemonInv /\ JobInv
  BY Names DEF DaemonInv, JobInv, InQueue, Alive, Listens
<1>3. ConnInv /\ ClientInv /\ PidInv /\ OutInv
  BY DEF ConnInv, ClientInv, PidInv, OutInv, Open, Clients
<1> QED BY <1>1, <1>2, <1>3 DEF Faithful, Inductive

\* Bind keeps the invariant.
LEMMA BindKeeps ==
  ASSUME Inductive, NEW d \in Daemons, Bind(d)
  PROVE  Inductive'
<1> USE DEF Inductive, Bind, daemonVars, clientVars
<1>1. TypeOK'
  <2>1. phase' \in [Daemons -> {"unborn", "starting", "serving", "draining", "closed", "gone", "refused"}]
    <3>1. \E to \in {"serving", "refused"} : phase' = [phase EXCEPT ![d] = to]
      OBVIOUS
    <3> QED BY <3>1 DEF TypeOK
  <2>2. {socket', flock'} \subseteq Daemons \cup {Nobody}
    BY DEF TypeOK
  <2> QED BY <2>1, <2>2 DEF TypeOK
<1>2. DaemonInv'
  BY EngineAssumption DEF TypeOK, DaemonInv, Alive, Listens
<1>3. JobInv'
  BY DEF TypeOK, JobInv, InQueue
<1>4. ConnInv'
  <2>1. \A e \in Daemons : Alive(e) => phase'[e] = phase[e]
    BY DEF TypeOK, Alive, Listens
  <2> QED BY <2>1 DEF ConnInv, Open, Alive, Listens
<1>5. ClientInv'
  BY DEF TypeOK, ClientInv
<1> QED BY <1>1, <1>2, <1>3, <1>4, <1>5

\* StopAsked keeps the invariant.
LEMMA StopAskedKeeps ==
  ASSUME Inductive, NEW d \in Daemons, StopAsked(d)
  PROVE  Inductive'
<1> USE DEF Inductive, StopAsked, daemonVars, clientVars
<1>1. TypeOK'
  BY DEF TypeOK
<1>2. DaemonInv'
  BY DEF TypeOK, DaemonInv, Alive, Listens
<1>3. JobInv'
  BY DEF TypeOK, JobInv, InQueue
<1>4. ConnInv'
  BY DEF TypeOK, ConnInv, Open, Alive, Listens
<1>5. ClientInv'
  BY DEF TypeOK, ClientInv
<1> QED BY <1>1, <1>2, <1>3, <1>4, <1>5

\* IdleExit keeps the invariant.
LEMMA IdleExitKeeps ==
  ASSUME Inductive, NEW d \in Daemons, IdleExit(d)
  PROVE  Inductive'
<1> USE DEF Inductive, IdleExit, daemonVars, clientVars
<1>1. TypeOK'
  BY DEF TypeOK
<1>2. DaemonInv'
  BY DEF TypeOK, DaemonInv, Alive, Listens
<1>3. JobInv'
  BY DEF TypeOK, JobInv, InQueue
<1>4. ConnInv'
  BY DEF TypeOK, ConnInv, Open, Alive, Listens
<1>5. ClientInv'
  BY DEF TypeOK, ClientInv
<1> QED BY <1>1, <1>2, <1>3, <1>4, <1>5

\* LeaveLoop keeps the invariant.
LEMMA LeaveLoopKeeps ==
  ASSUME Inductive, NEW d \in Daemons, LeaveLoop(d)
  PROVE  Inductive'
<1> USE DEF Inductive, LeaveLoop, daemonVars, clientVars
<1>1. TypeOK'
  BY DEF TypeOK
<1>2. DaemonInv'
  BY DEF TypeOK, DaemonInv, Alive, Listens
<1>3. JobInv'
  BY EngineAssumption DEF TypeOK, JobInv, InQueue
<1>4. ConnInv'
  BY DEF TypeOK, ConnInv, Open, Alive, Listens
<1>5. ClientInv'
  BY DEF TypeOK, ClientInv
<1> QED BY <1>1, <1>2, <1>3, <1>4, <1>5

\* Exit keeps the invariant.
LEMMA ExitKeeps ==
  ASSUME Inductive, NEW d \in Daemons, Exit(d)
  PROVE  Inductive'
<1> USE DEF Inductive, Exit, daemonVars, clientVars
<1>1. TypeOK'
  BY DEF TypeOK
<1>2. DaemonInv'
  BY EngineAssumption DEF TypeOK, DaemonInv, Alive, Listens
<1>3. JobInv'
  BY EngineAssumption DEF TypeOK, JobInv, InQueue
<1>4. ConnInv'
  BY DEF TypeOK, ConnInv, Open, Alive, Listens, Taken
<1>5. ClientInv'
  BY DEF TypeOK, ClientInv, Taken, None
<1> QED BY <1>1, <1>2, <1>3, <1>4, <1>5

\* Returns keeps the invariant.
LEMMA ReturnsKeeps ==
  ASSUME Inductive, NEW d \in Daemons, Returns(d)
  PROVE  Inductive'
<1> USE DEF Inductive, Returns, Ends, daemonVars, clientVars
<1>1. TypeOK'
  BY DEF TypeOK
<1>2. DaemonInv'
  BY EngineAssumption DEF TypeOK, DaemonInv, Alive, Listens
<1>3. JobInv'
  BY EngineAssumption DEF TypeOK, JobInv, InQueue
<1>4. ConnInv'
  BY DEF TypeOK, ConnInv, Open, Alive, Listens, Taken
<1>5. ClientInv'
  BY DEF TypeOK, ClientInv, Taken, None
<1> QED BY <1>1, <1>2, <1>3, <1>4, <1>5

\* Killed keeps the invariant.
LEMMA KilledKeeps ==
  ASSUME Inductive, NEW d \in Daemons, Killed(d)
  PROVE  Inductive'
<1> USE DEF Inductive, Killed, Ends, daemonVars, clientVars
<1>1. TypeOK'
  BY DEF TypeOK
<1>2. DaemonInv'
  BY EngineAssumption DEF TypeOK, DaemonInv, Alive, Listens
<1>3. JobInv'
  BY EngineAssumption DEF TypeOK, JobInv, InQueue
<1>4. ConnInv'
  BY DEF TypeOK, ConnInv, Open, Alive, Listens, Taken
<1>5. ClientInv'
  BY DEF TypeOK, ClientInv, Taken, None
<1> QED BY <1>1, <1>2, <1>3, <1>4, <1>5

\* WorkerTakes keeps the invariant.
LEMMA WorkerTakesKeeps ==
  ASSUME Inductive, NEW d \in Daemons, WorkerTakes(d)
  PROVE  Inductive'
<1> USE DEF Inductive, WorkerTakes, daemonVars, clientVars
<1>1. TypeOK'
  <2>1. queue' \in [Daemons -> Seq(Items)] /\ Head(queue[d]) \in Items
    BY DEF TypeOK, Items
  <2>2. worker' \in [Daemons -> Clients \cup {"idle", "ended"}]
    <3>1. CASE Head(queue[d]) = "end"
      BY ZenonT(60), <3>1, Names DEF TypeOK
    <3>2. CASE Head(queue[d]) \in Clients
      <4>1. worker' = worker \/ worker' = [worker EXCEPT ![d] = Head(queue[d])]
        BY <3>2, Names
      <4> HIDE DEF WorkerTakes
      <4> QED BY <3>2, <4>1 DEF TypeOK
    <3> QED BY <2>1, <3>1, <3>2
  <2>3. reply' \in [Clients -> {None, "ok", "final", "retry"}]
    BY DEF TypeOK, None
  <2>4. out' \in [Clients -> {None, "partial", "daemon", "oneshot", "left"}]
    BY DEF TypeOK, None
  <2> QED BY <2>1, <2>2, <2>3, <2>4 DEF TypeOK
<1>2. DaemonInv'
  BY DEF TypeOK, DaemonInv, Alive, Listens
<1>3. JobInv'
  BY EngineAssumption DEF TypeOK, JobInv, InQueue
<1>4. ConnInv'
  <2>1. \A c \in Clients : reply'[c] # reply[c] => conn[c] = "queued"
    <3>1. Head(queue[d]) \in Clients => InQueue(d, Head(queue[d]))
      BY DEF TypeOK, InQueue
    <3> QED BY <3>1 DEF TypeOK, JobInv
  <2> QED BY <2>1 DEF ConnInv, Open, Alive, Listens
<1>5. ClientInv'
  <2>1. \A c \in Clients : (reply'[c] # reply[c] \/ out'[c] # out[c]) => conn[c] = "queued"
    <3>1. Head(queue[d]) \in Clients => InQueue(d, Head(queue[d]))
      BY DEF TypeOK, InQueue
    <3> QED BY <3>1 DEF TypeOK, JobInv
  <2> QED BY <2>1 DEF ClientInv, None
<1> QED BY <1>1, <1>2, <1>3, <1>4, <1>5

\* JobSucceeds keeps the invariant.
LEMMA JobSucceedsKeeps ==
  ASSUME Inductive, NEW d \in Daemons, NEW c \in Clients, JobSucceeds(d, c)
  PROVE  Inductive'
<1> USE DEF Inductive, JobSucceeds, daemonVars, clientVars
<1>1. TypeOK'
  BY DEF TypeOK
<1>2. DaemonInv'
  BY Names DEF TypeOK, DaemonInv, Alive, Listens
<1>3. JobInv'
  BY EngineAssumption DEF TypeOK, JobInv, InQueue
<1>4. ConnInv'
  BY DEF TypeOK, JobInv, ConnInv, Open, Alive, Listens
<1>5. ClientInv'
  BY DEF TypeOK, JobInv, ClientInv, None
<1> QED BY <1>1, <1>2, <1>3, <1>4, <1>5

\* JobFails keeps the invariant.
LEMMA JobFailsKeeps ==
  ASSUME Inductive, NEW d \in Daemons, NEW c \in Clients, JobFails(d, c)
  PROVE  Inductive'
<1> USE DEF Inductive, JobFails, daemonVars, clientVars
<1>1. TypeOK'
  <2>1. reply' \in [Clients -> {None, "ok", "final", "retry"}]
    BY DEF TypeOK
  <2>2. \E rest \in {None, "left"} :
          out' = [out EXCEPT ![c] = None] \/ out' = [out EXCEPT ![c] = IF c \in Switches THEN rest ELSE @]
    OBVIOUS
  <2>3. out' \in [Clients -> {None, "partial", "daemon", "oneshot", "left"}]
    BY <2>2 DEF TypeOK
  <2> QED BY <2>1, <2>3 DEF TypeOK
<1>2. DaemonInv'
  BY Names DEF TypeOK, DaemonInv, Alive, Listens
<1>3. JobInv'
  BY EngineAssumption DEF TypeOK, JobInv, InQueue
<1>4. ConnInv'
  BY DEF TypeOK, JobInv, ConnInv, Open, Alive, Listens
<1>5. ClientInv'
  BY DEF TypeOK, JobInv, ClientInv, None
<1> QED BY <1>1, <1>2, <1>3, <1>4, <1>5

\* WorkerDies keeps the invariant.
LEMMA WorkerDiesKeeps ==
  ASSUME Inductive, NEW d \in Daemons, NEW c \in Clients, WorkerDies(d, c)
  PROVE  Inductive'
<1> USE DEF Inductive, WorkerDies, daemonVars, clientVars
<1>1. TypeOK'
  BY DEF TypeOK
<1>2. DaemonInv'
  BY Names DEF TypeOK, DaemonInv, Alive, Listens
<1>3. JobInv'
  BY EngineAssumption DEF TypeOK, JobInv, InQueue
<1>4. ConnInv'
  BY DEF TypeOK, JobInv, ConnInv, Open, Alive, Listens
<1>5. ClientInv'
  BY DEF TypeOK, JobInv, ClientInv, None
<1> QED BY <1>1, <1>2, <1>3, <1>4, <1>5

\* Accept keeps the invariant.
LEMMA AcceptKeeps ==
  ASSUME Inductive, NEW c \in Clients, Accept(c)
  PROVE  Inductive'
<1> USE DEF Inductive, Accept, Moves, daemonVars, clientVars
<1>1. TypeOK'
  BY DEF TypeOK, Taken
<1>2. DaemonInv'
  BY DEF TypeOK, DaemonInv, Alive, Listens
<1>3. JobInv'
  BY DEF TypeOK, JobInv, InQueue
<1>4. ConnInv'
  BY DEF TypeOK, ConnInv, Open, Alive, Listens
<1>5. ClientInv'
  BY DEF TypeOK, ClientInv, None
<1> QED BY <1>1, <1>2, <1>3, <1>4, <1>5

\* Check keeps the invariant.
LEMMA CheckKeeps ==
  ASSUME Inductive, NEW c \in Clients, Check(c)
  PROVE  Inductive'
<1> USE DEF Inductive, Check, Moves, daemonVars, clientVars
<1>1. TypeOK'
  BY DEF TypeOK, Taken, ConnInv, Open
<1>2. DaemonInv'
  BY DEF TypeOK, DaemonInv, Alive, Listens
<1>3. JobInv'
  BY DEF TypeOK, JobInv, InQueue
<1>4. ConnInv'
  BY DEF TypeOK, ConnInv, Open, Alive, Listens, Taken
<1>5. ClientInv'
  BY DEF TypeOK, ClientInv, None
<1> QED BY <1>1, <1>2, <1>3, <1>4, <1>5

\* Enqueue keeps the invariant.
LEMMA EnqueueKeeps ==
  ASSUME Inductive, NEW c \in Clients, Enqueue(c)
  PROVE  Inductive'
<1> USE DEF Inductive, Enqueue, Moves, daemonVars, clientVars
<1>1. TypeOK'
  BY QueueTail, QueueAppend, Names, EngineAssumption
     DEF TypeOK, Taken, Items, Alive, Listens, None, Clients, ClientInv, ConnInv, Open
<1>2. DaemonInv'
  BY DEF TypeOK, DaemonInv, Alive, Listens, ConnInv, Open, Taken
<1>3. JobInv'
  <2>1. peer[c] \in Daemons /\ Alive(peer[c]) /\ conn[c] = "checked" /\ reply[c] = None
    BY DEF ConnInv, Open, Taken
  <2> QED BY <2>1 DEF TypeOK, JobInv, InQueue
<1>4. ConnInv'
  BY DEF TypeOK, ConnInv, Open, Alive, Listens, Taken
<1>5. ClientInv'
  BY DEF TypeOK, ClientInv, None
<1> QED BY <1>1, <1>2, <1>3, <1>4, <1>5

\* Answer keeps the invariant.
LEMMA AnswerKeeps ==
  ASSUME Inductive, NEW c \in Clients, Answer(c)
  PROVE  Inductive'
<1> USE DEF Inductive, Answer, Moves, daemonVars, clientVars
<1>1. TypeOK'
  BY DEF TypeOK
<1>2. DaemonInv'
  BY DEF TypeOK, DaemonInv, Alive, Listens
<1>3. JobInv'
  BY DEF TypeOK, JobInv, InQueue
<1>4. ConnInv'
  BY DEF TypeOK, ConnInv, Open, Alive, Listens, Taken
<1>5. ClientInv'
  BY DEF TypeOK, ClientInv
<1> QED BY <1>1, <1>2, <1>3, <1>4, <1>5

\* WorkerGone keeps the invariant.
LEMMA WorkerGoneKeeps ==
  ASSUME Inductive, NEW c \in Clients, WorkerGone(c)
  PROVE  Inductive'
<1> USE DEF Inductive, WorkerGone, Moves, daemonVars, clientVars
<1>1. TypeOK'
  BY DEF TypeOK, Taken, ConnInv, Open
<1>2. DaemonInv'
  BY DEF TypeOK, DaemonInv, Alive, Listens
<1>3. JobInv'
  BY EngineAssumption DEF TypeOK, JobInv, InQueue
<1>4. ConnInv'
  BY DEF TypeOK, ConnInv, Open, Alive, Listens, Taken
<1>5. ClientInv'
  BY DEF TypeOK, ClientInv, None
<1> QED BY <1>1, <1>2, <1>3, <1>4, <1>5

\* Ping keeps the invariant.
LEMMA PingKeeps ==
  ASSUME Inductive, NEW c \in Clients, Ping(c)
  PROVE  Inductive'
<1> USE DEF Inductive, Ping, ClientGoes, Answers, daemonVars, clientVars
<1>1. TypeOK'
  BY DEF TypeOK
<1>2. DaemonInv'
  BY DEF TypeOK, DaemonInv, Alive, Listens
<1>3. JobInv'
  BY DEF TypeOK, JobInv, InQueue
<1>4. ConnInv'
  BY DEF TypeOK, ConnInv, Open, Alive, Listens
<1>5. ClientInv'
  BY DEF TypeOK, ClientInv
<1> QED BY <1>1, <1>2, <1>3, <1>4, <1>5

\* PingFails keeps the invariant.
LEMMA PingFailsKeeps ==
  ASSUME Inductive, NEW c \in Clients, PingFails(c)
  PROVE  Inductive'
<1> USE DEF Inductive, PingFails, daemonVars, clientVars
<1>1. TypeOK'
  BY DEF TypeOK
<1>2. DaemonInv'
  BY DEF TypeOK, DaemonInv, Alive, Listens
<1>3. JobInv'
  BY DEF TypeOK, JobInv, InQueue
<1>4. ConnInv'
  BY DEF TypeOK, ConnInv, Open, Alive, Listens
<1>5. ClientInv'
  BY DEF TypeOK, ClientInv
<1> QED BY <1>1, <1>2, <1>3, <1>4, <1>5

\* StartDaemon keeps the invariant.
LEMMA StartDaemonKeeps ==
  ASSUME Inductive, NEW c \in Clients, StartDaemon(c)
  PROVE  Inductive'
<1> USE DEF Inductive, StartDaemon, daemonVars, clientVars
<1>1. TypeOK'
  BY DEF TypeOK
<1>2. DaemonInv'
  <2>1. PICK d \in Daemons : phase[d] = "unborn" /\ phase' = [phase EXCEPT ![d] = "starting"]
    OBVIOUS
  <2> QED BY <2>1 DEF TypeOK, DaemonInv, Alive, Listens
<1>3. JobInv'
  BY DEF JobInv, InQueue
<1>4. ConnInv'
  BY DEF TypeOK, ConnInv, Open, Alive, Listens
<1>5. ClientInv'
  BY DEF TypeOK, ClientInv
<1> QED BY <1>1, <1>2, <1>3, <1>4, <1>5

\* NoDaemon keeps the invariant.
LEMMA NoDaemonKeeps ==
  ASSUME Inductive, NEW c \in Clients, NoDaemon(c)
  PROVE  Inductive'
<1> USE DEF Inductive, NoDaemon, ClientGoes, Excuse, daemonVars, clientVars
<1>1. TypeOK'
  BY DEF TypeOK
<1>2. DaemonInv'
  BY DEF TypeOK, DaemonInv, Alive, Listens
<1>3. JobInv'
  BY DEF TypeOK, JobInv, InQueue
<1>4. ConnInv'
  BY DEF TypeOK, ConnInv, Open, Alive, Listens
<1>5. ClientInv'
  BY DEF TypeOK, ClientInv, None
<1> QED BY <1>1, <1>2, <1>3, <1>4, <1>5

\* Send keeps the invariant.
LEMMA SendKeeps ==
  ASSUME Inductive, NEW c \in Clients, Send(c)
  PROVE  Inductive'
<1> USE DEF Inductive, Send, ClientGoes, Moves, daemonVars, clientVars
<1>1. TypeOK'
  BY DEF TypeOK
<1>2. DaemonInv'
  BY DEF TypeOK, DaemonInv, Alive, Listens
<1>3. JobInv'
  BY DEF TypeOK, JobInv, ClientInv, InQueue, None
<1>4. ConnInv'
  BY DEF TypeOK, ConnInv, ClientInv, Open, Alive, Listens
<1>5. ClientInv'
  BY DEF TypeOK, ClientInv
<1> QED BY <1>1, <1>2, <1>3, <1>4, <1>5

\* SendFails keeps the invariant.
LEMMA SendFailsKeeps ==
  ASSUME Inductive, NEW c \in Clients, SendFails(c)
  PROVE  Inductive'
<1> USE DEF Inductive, SendFails, ClientGoes, Excuse, daemonVars, clientVars
<1>1. TypeOK'
  BY DEF TypeOK
<1>2. DaemonInv'
  BY DEF TypeOK, DaemonInv, Alive, Listens
<1>3. JobInv'
  BY DEF TypeOK, JobInv, InQueue
<1>4. ConnInv'
  BY DEF TypeOK, ConnInv, Open, Alive, Listens
<1>5. ClientInv'
  BY DEF TypeOK, ClientInv, None
<1> QED BY <1>1, <1>2, <1>3, <1>4, <1>5

\* Receive keeps the invariant.
LEMMA ReceiveKeeps ==
  ASSUME Inductive, NEW c \in Clients, Receive(c)
  PROVE  Inductive'
<1> USE DEF Inductive, Receive, ClientGoes, Excuse, daemonVars, clientVars
<1>1. TypeOK'
  <2>1. pc' \in [Clients -> ClientStates]
    <3>1. pc \in [Clients -> ClientStates]
      BY DEF TypeOK, ClientStates
    <3>2. \E to \in ClientStates : pc' = [pc EXCEPT ![c] = to]
      BY DEF ClientStates
    <3> QED BY ONLY <3>1, <3>2
  <2>2. why' \in [Clients -> {None, "unavailable", "lost", "overran"}]
    BY DEF TypeOK
  <2> QED BY <2>1, <2>2 DEF TypeOK, ClientStates
<1>2. DaemonInv'
  BY DEF TypeOK, DaemonInv, Alive, Listens
<1>3. JobInv'
  BY DEF TypeOK, JobInv, InQueue
<1>4. ConnInv'
  BY DEF TypeOK, ConnInv, Open, Alive, Listens
<1>5. ClientInv'
  BY DEF TypeOK, ClientInv, None
<1> QED BY <1>1, <1>2, <1>3, <1>4, <1>5

\* Lose keeps the invariant.
LEMMA LoseKeeps ==
  ASSUME Inductive, NEW c \in Clients, Lose(c)
  PROVE  Inductive'
<1> USE DEF Inductive, Lose, ClientGoes, Excuse, daemonVars, clientVars
<1>1. TypeOK'
  BY DEF TypeOK
<1>2. DaemonInv'
  BY DEF TypeOK, DaemonInv, Alive, Listens
<1>3. JobInv'
  BY DEF TypeOK, JobInv, InQueue
<1>4. ConnInv'
  BY DEF TypeOK, ConnInv, Open, Alive, Listens
<1>5. ClientInv'
  BY DEF TypeOK, ClientInv, None
<1> QED BY <1>1, <1>2, <1>3, <1>4, <1>5

\* Overrun keeps the invariant.
LEMMA OverrunKeeps ==
  ASSUME Inductive, NEW c \in Clients, Overrun(c)
  PROVE  Inductive'
<1> USE DEF Inductive, Overrun, ClientGoes, Excuse, daemonVars, clientVars
<1>1. TypeOK'
  <2>1. pc' \in [Clients -> ClientStates]
    <3>1. pc \in [Clients -> ClientStates]
      BY DEF TypeOK, ClientStates
    <3>2. \E to \in ClientStates : pc' = [pc EXCEPT ![c] = to]
      BY DEF ClientStates
    <3> QED BY ONLY <3>1, <3>2
  <2>2. why' \in [Clients -> {None, "unavailable", "lost", "overran"}]
    BY DEF TypeOK
  <2>3. stopping' \in [Daemons -> BOOLEAN]
    BY DEF TypeOK
  <2> QED BY <2>1, <2>2, <2>3 DEF TypeOK, ClientStates
<1>2. DaemonInv'
  BY DEF TypeOK, DaemonInv, Alive, Listens
<1>3. JobInv'
  BY DEF TypeOK, JobInv, InQueue
<1>4. ConnInv'
  BY DEF TypeOK, ConnInv, Open, Alive, Listens
<1>5. ClientInv'
  BY DEF TypeOK, ClientInv, None
<1> QED BY <1>1, <1>2, <1>3, <1>4, <1>5

\* A client that ends, or goes to work alone, has the shape of one.
LEMMA EndsTyped ==
  ASSUME TypeOK, NEW d \in Daemons, Ends(d)
  PROVE  /\ phase' \in [Daemons -> {"unborn", "starting", "serving", "draining", "closed", "gone", "refused"}]
         /\ stopping' \in [Daemons -> BOOLEAN]
         /\ queue' \in [Daemons -> Seq(Items)]
         /\ worker' \in [Daemons -> Clients \cup {"idle", "ended"}]
         /\ flock' \in Nobodies
         /\ conn' \in [Clients -> ConnStates]
BY DEF Ends, TypeOK, Items, Nobodies, ConnStates

\* Kill keeps the invariant.
LEMMA KillKeeps ==
  ASSUME Inductive, NEW c \in Clients, Kill(c)
  PROVE  Inductive'
<1> DEFINE d == pid[c]
<1>1. pc' = [pc EXCEPT ![c] = "clean"] /\ pc[c] = "kill"
      /\ UNCHANGED <<socket, pid, child, why, peer, reply, out>>
  BY DEF Kill, ClientGoes
<1>2. CASE ~Alive(d)
  <2>1. UNCHANGED <<daemonVars, flock, conn>>
    BY <1>2 DEF Kill
  <2> QED BY <1>1, <2>1
             DEF Inductive, TypeOK, DaemonInv, JobInv, ConnInv, ClientInv, InQueue,
                 Open, Alive, Listens, daemonVars
<1>3. CASE Alive(d)
  <2>1. d \in Daemons /\ Ends(d)
    BY <1>1, <1>3 DEF Kill, Inductive, ClientInv
  <2> HIDE DEF d
  <2>2. TypeOK'
    BY <1>1, <2>1, EndsTyped DEF Inductive, TypeOK, Items, Nobodies, ConnStates
  <2>3. DaemonInv'
    BY <1>1, <1>3, <2>1, Names DEF Inductive, TypeOK, DaemonInv, Ends, Alive, Listens
  <2>4. JobInv'
    BY <1>1, <1>3, <2>1, Names DEF Inductive, TypeOK, JobInv, Ends, InQueue
  <2>5. ConnInv'
    BY <1>1, <1>3, <2>1 DEF Inductive, TypeOK, ConnInv, Ends, Open, Alive, Listens, Taken
  <2>6. ClientInv'
    <3>1. \A i \in Clients : conn[i] = None => conn'[i] = None
      BY <2>1 DEF Ends, TypeOK, None, Taken
    <3> QED BY <1>1, <3>1 DEF Inductive, TypeOK, ClientInv
  <2> QED BY <2>2, <2>3, <2>4, <2>5, <2>6 DEF Inductive
<1> QED BY <1>2, <1>3

\* Clean keeps the invariant.
LEMMA CleanKeeps ==
  ASSUME Inductive, NEW c \in Clients, Clean(c)
  PROVE  Inductive'
<1> USE DEF Inductive, Clean, ClientGoes, daemonVars, clientVars
<1>1. TypeOK'
  BY DEF TypeOK
<1>2. DaemonInv'
  BY DEF TypeOK, DaemonInv, Alive, Listens
<1>3. JobInv'
  BY DEF TypeOK, JobInv, InQueue
<1>4. ConnInv'
  BY DEF TypeOK, ConnInv, Open, Alive, Listens
<1>5. ClientInv'
  BY DEF TypeOK, ClientInv
<1> QED BY <1>1, <1>2, <1>3, <1>4, <1>5

\* OneShot keeps the invariant.
LEMMA OneShotKeeps ==
  ASSUME Inductive, NEW c \in Clients, OneShot(c)
  PROVE  Inductive'
<1> USE DEF Inductive, OneShot, ClientGoes, daemonVars, clientVars
<1>1. TypeOK'
  <2>1. pc' \in [Clients -> ClientStates]
    <3>1. pc \in [Clients -> ClientStates]
      BY DEF TypeOK, ClientStates
    <3>2. \E to \in ClientStates : pc' = [pc EXCEPT ![c] = to]
      BY DEF ClientStates
    <3> QED BY ONLY <3>1, <3>2
  <2>2. out' \in [Clients -> {None, "partial", "daemon", "oneshot", "left"}]
    BY DEF TypeOK
  <2> QED BY <2>1, <2>2 DEF TypeOK, ClientStates
<1>2. DaemonInv'
  BY DEF TypeOK, DaemonInv, Alive, Listens
<1>3. JobInv'
  BY DEF TypeOK, JobInv, InQueue
<1>4. ConnInv'
  BY DEF TypeOK, ConnInv, Open, Alive, Listens
<1>5. ClientInv'
  BY DEF TypeOK, ClientInv
<1> QED BY <1>1, <1>2, <1>3, <1>4, <1>5

\* After Bind, what a client was told, and is about to hear, is still true.
LEMMA BindTells ==
  ASSUME Faithful, "slow_client" \notin Faults, NEW d \in Daemons, Bind(d)
  PROVE  PidInv' /\ OutInv'
<1> USE DEF Faithful, Inductive, Bind, daemonVars, clientVars
<1>1. PidInv'
  BY DEF TypeOK, PidInv, Open
<1>2. OutInv'
  BY DEF TypeOK, OutInv
<1> QED BY <1>1, <1>2

\* After StopAsked, what a client was told, and is about to hear, is still true.
LEMMA StopAskedTells ==
  ASSUME Faithful, "slow_client" \notin Faults, NEW d \in Daemons, StopAsked(d)
  PROVE  PidInv' /\ OutInv'
<1> USE DEF Faithful, Inductive, StopAsked, daemonVars, clientVars
<1>1. PidInv'
  BY DEF TypeOK, PidInv, Open
<1>2. OutInv'
  BY DEF TypeOK, OutInv
<1> QED BY <1>1, <1>2

\* After IdleExit, what a client was told, and is about to hear, is still true.
LEMMA IdleExitTells ==
  ASSUME Faithful, "slow_client" \notin Faults, NEW d \in Daemons, IdleExit(d)
  PROVE  PidInv' /\ OutInv'
<1> USE DEF Faithful, Inductive, IdleExit, daemonVars, clientVars
<1>1. PidInv'
  BY DEF TypeOK, PidInv, Open
<1>2. OutInv'
  BY DEF TypeOK, OutInv
<1> QED BY <1>1, <1>2

\* After LeaveLoop, what a client was told, and is about to hear, is still true.
LEMMA LeaveLoopTells ==
  ASSUME Faithful, "slow_client" \notin Faults, NEW d \in Daemons, LeaveLoop(d)
  PROVE  PidInv' /\ OutInv'
<1> USE DEF Faithful, Inductive, LeaveLoop, daemonVars, clientVars
<1>1. PidInv'
  BY DEF TypeOK, PidInv, Open
<1>2. OutInv'
  BY DEF TypeOK, OutInv
<1> QED BY <1>1, <1>2

\* After Exit, what a client was told, and is about to hear, is still true.
LEMMA ExitTells ==
  ASSUME Faithful, "slow_client" \notin Faults, NEW d \in Daemons, Exit(d)
  PROVE  PidInv' /\ OutInv'
<1> USE DEF Faithful, Inductive, Exit, daemonVars, clientVars
<1>1. PidInv'
  BY DEF TypeOK, PidInv, Open
<1>2. OutInv'
  BY DEF TypeOK, OutInv
<1> QED BY <1>1, <1>2

\* After Returns, what a client was told, and is about to hear, is still true.
LEMMA ReturnsTells ==
  ASSUME Faithful, "slow_client" \notin Faults, NEW d \in Daemons, Returns(d)
  PROVE  PidInv' /\ OutInv'
<1> USE DEF Faithful, Inductive, Returns, Ends, daemonVars, clientVars
<1>1. PidInv'
  BY DEF TypeOK, PidInv, Open
<1>2. OutInv'
  BY DEF TypeOK, OutInv
<1> QED BY <1>1, <1>2

\* After Killed, what a client was told, and is about to hear, is still true.
LEMMA KilledTells ==
  ASSUME Faithful, "slow_client" \notin Faults, NEW d \in Daemons, Killed(d)
  PROVE  PidInv' /\ OutInv'
<1> USE DEF Faithful, Inductive, Killed, Ends, daemonVars, clientVars
<1>1. PidInv'
  BY DEF TypeOK, PidInv, Open
<1>2. OutInv'
  BY DEF TypeOK, OutInv
<1> QED BY <1>1, <1>2

\* After WorkerTakes, what a client was told, and is about to hear, is still true.
LEMMA WorkerTakesTells ==
  ASSUME Faithful, "slow_client" \notin Faults, NEW d \in Daemons, WorkerTakes(d)
  PROVE  PidInv' /\ OutInv'
<1> USE DEF Faithful, Inductive, WorkerTakes, daemonVars, clientVars
<1>1. PidInv'
  BY DEF TypeOK, PidInv, Open
<1>2. OutInv'
  <2>1. Head(queue[d]) \in Clients => InQueue(d, Head(queue[d])) /\ worker[d] # "ended"
    BY DEF TypeOK, InQueue
  <2>2. \A c \in Clients : (reply'[c] # reply[c] \/ out'[c] # out[c]) => conn[c] = "queued" /\ reply[c] = None
    BY <2>1 DEF TypeOK, JobInv
  <2>3. \A c \in Clients : reply'[c] # reply[c] => reply'[c] = "retry"
    BY DEF TypeOK
  <2> QED BY <2>2, <2>3 DEF OutInv, PidInv, Open, Taken, Clients, None
<1> QED BY <1>1, <1>2

\* After JobSucceeds, what a client was told, and is about to hear, is still true.
LEMMA JobSucceedsTells ==
  ASSUME Faithful, "slow_client" \notin Faults, NEW d \in Daemons, NEW c \in Clients, JobSucceeds(d, c)
  PROVE  PidInv' /\ OutInv'
<1> USE DEF Faithful, Inductive, JobSucceeds, daemonVars, clientVars
<1>1. PidInv'
  BY DEF TypeOK, PidInv, Open
<1>2. OutInv'
  BY DEF TypeOK, PidInv, JobInv, OutInv, Open, Taken
<1> QED BY <1>1, <1>2

\* After JobFails, what a client was told, and is about to hear, is still true.
LEMMA JobFailsTells ==
  ASSUME Faithful, "slow_client" \notin Faults, NEW d \in Daemons, NEW c \in Clients, JobFails(d, c)
  PROVE  PidInv' /\ OutInv'
<1> USE DEF Faithful, Inductive, JobFails, daemonVars, clientVars
<1>1. PidInv'
  BY DEF TypeOK, PidInv, Open
<1>2. OutInv'
  <2>0. \E rest \in {None, "left"} :
          out' = [out EXCEPT ![c] = None] \/ out' = [out EXCEPT ![c] = IF c \in Switches THEN rest ELSE @]
    OBVIOUS
  <2>1. \A x \in Switches \ {c} : out'[x] = out[x] /\ reply'[x] = reply[x]
    <3>1. \A x \in Switches \ {c} : out'[x] = out[x]
      BY <2>0 DEF TypeOK, Clients
    <3>2. \A x \in Switches \ {c} : reply'[x] = reply[x]
      BY DEF TypeOK, Clients
    <3> QED BY <3>1, <3>2
  <2>2. reply'[c] # "ok" /\ conn[c] = "queued" /\ (c \in Switches => out'[c] \in {None, "left"})
    <3>1. reply'[c] # "ok" /\ conn[c] = "queued"
      BY DEF TypeOK, JobInv, None
    <3>2. c \in Switches => out'[c] \in {None, "left"}
      BY <2>0 DEF TypeOK
    <3> QED BY <3>1, <3>2
  <2>3. c \in Switches => pc[c] \notin {"clean", "oneshot", "returned", "failed"}
    BY <2>2 DEF PidInv, Open, Taken
  <2> QED BY <2>1, <2>2, <2>3 DEF OutInv
<1> QED BY <1>1, <1>2

\* After WorkerDies, what a client was told, and is about to hear, is still true.
LEMMA WorkerDiesTells ==
  ASSUME Faithful, "slow_client" \notin Faults, NEW d \in Daemons, NEW c \in Clients, WorkerDies(d, c)
  PROVE  PidInv' /\ OutInv'
<1> USE DEF Faithful, Inductive, WorkerDies, daemonVars, clientVars
<1>1. PidInv'
  BY DEF TypeOK, PidInv, Open
<1>2. OutInv'
  BY DEF TypeOK, PidInv, JobInv, OutInv, Open, Taken
<1> QED BY <1>1, <1>2

\* After Accept, what a client was told, and is about to hear, is still true.
LEMMA AcceptTells ==
  ASSUME Faithful, "slow_client" \notin Faults, NEW c \in Clients, Accept(c)
  PROVE  PidInv' /\ OutInv'
<1> USE DEF Faithful, Inductive, Accept, Moves, daemonVars, clientVars
<1>1. PidInv'
  BY DEF TypeOK, PidInv, Open
<1>2. OutInv'
  BY DEF TypeOK, OutInv
<1> QED BY <1>1, <1>2

\* After Check, what a client was told, and is about to hear, is still true.
LEMMA CheckTells ==
  ASSUME Faithful, "slow_client" \notin Faults, NEW c \in Clients, Check(c)
  PROVE  PidInv' /\ OutInv'
<1> USE DEF Faithful, Inductive, Check, Moves, daemonVars, clientVars
<1>1. PidInv'
  BY DEF TypeOK, PidInv, Open, Taken
<1>2. OutInv'
  BY DEF TypeOK, OutInv
<1> QED BY <1>1, <1>2

\* After Enqueue, what a client was told, and is about to hear, is still true.
LEMMA EnqueueTells ==
  ASSUME Faithful, "slow_client" \notin Faults, NEW c \in Clients, Enqueue(c)
  PROVE  PidInv' /\ OutInv'
<1> USE DEF Faithful, Inductive, Enqueue, Moves, daemonVars, clientVars
<1>1. PidInv'
  BY DEF TypeOK, PidInv, Open, Taken
<1>2. OutInv'
  BY DEF TypeOK, OutInv
<1> QED BY <1>1, <1>2

\* After Answer, what a client was told, and is about to hear, is still true.
LEMMA AnswerTells ==
  ASSUME Faithful, "slow_client" \notin Faults, NEW c \in Clients, Answer(c)
  PROVE  PidInv' /\ OutInv'
<1> USE DEF Faithful, Inductive, Answer, Moves, daemonVars, clientVars
<1>1. PidInv'
  BY DEF TypeOK, PidInv, Open, Taken
<1>2. OutInv'
  BY DEF TypeOK, OutInv
<1> QED BY <1>1, <1>2

\* After WorkerGone, what a client was told, and is about to hear, is still true.
LEMMA WorkerGoneTells ==
  ASSUME Faithful, "slow_client" \notin Faults, NEW c \in Clients, WorkerGone(c)
  PROVE  PidInv' /\ OutInv'
<1> USE DEF Faithful, Inductive, WorkerGone, Moves, daemonVars, clientVars
<1>1. PidInv'
  BY DEF TypeOK, PidInv, Open, Taken
<1>2. OutInv'
  BY DEF TypeOK, OutInv
<1> QED BY <1>1, <1>2

\* After Ping, what a client was told, and is about to hear, is still true.
LEMMA PingTells ==
  ASSUME Faithful, "slow_client" \notin Faults, NEW c \in Clients, Ping(c)
  PROVE  PidInv' /\ OutInv'
<1> USE DEF Faithful, Inductive, Ping, ClientGoes, Answers, daemonVars, clientVars
<1>1. PidInv'
  BY DEF TypeOK, PidInv, Open
<1>2. OutInv'
  BY DEF TypeOK, OutInv
<1> QED BY <1>1, <1>2

\* After PingFails, what a client was told, and is about to hear, is still true.
LEMMA PingFailsTells ==
  ASSUME Faithful, "slow_client" \notin Faults, NEW c \in Clients, PingFails(c)
  PROVE  PidInv' /\ OutInv'
<1> USE DEF Faithful, Inductive, PingFails, daemonVars, clientVars
<1>1. PidInv'
  BY DEF TypeOK, PidInv, Open
<1>2. OutInv'
  BY DEF TypeOK, OutInv
<1> QED BY <1>1, <1>2

\* After StartDaemon, what a client was told, and is about to hear, is still true.
LEMMA StartDaemonTells ==
  ASSUME Faithful, "slow_client" \notin Faults, NEW c \in Clients, StartDaemon(c)
  PROVE  PidInv' /\ OutInv'
<1> USE DEF Faithful, Inductive, StartDaemon, daemonVars, clientVars
<1>1. PidInv'
  BY DEF TypeOK, PidInv, Open
<1>2. OutInv'
  BY DEF TypeOK, OutInv
<1> QED BY <1>1, <1>2

\* After NoDaemon, what a client was told, and is about to hear, is still true.
LEMMA NoDaemonTells ==
  ASSUME Faithful, "slow_client" \notin Faults, NEW c \in Clients, NoDaemon(c)
  PROVE  PidInv' /\ OutInv'
<1> USE DEF Faithful, Inductive, NoDaemon, ClientGoes, Excuse, daemonVars, clientVars
<1>1. PidInv'
  BY DEF TypeOK, PidInv, ClientInv, Open, Taken, None
<1>2. OutInv'
  BY DEF TypeOK, OutInv
<1> QED BY <1>1, <1>2

\* After Send, what a client was told, and is about to hear, is still true.
LEMMA SendTells ==
  ASSUME Faithful, "slow_client" \notin Faults, NEW c \in Clients, Send(c)
  PROVE  PidInv' /\ OutInv'
<1> USE DEF Faithful, Inductive, Send, ClientGoes, Moves, daemonVars, clientVars
<1>1. PidInv'
  BY EngineAssumption DEF TypeOK, PidInv, Open
<1>2. OutInv'
  BY DEF TypeOK, ClientInv, OutInv, None
<1> QED BY <1>1, <1>2

\* After SendFails, what a client was told, and is about to hear, is still true.
LEMMA SendFailsTells ==
  ASSUME Faithful, "slow_client" \notin Faults, NEW c \in Clients, SendFails(c)
  PROVE  PidInv' /\ OutInv'
<1> USE DEF Faithful, Inductive, SendFails, ClientGoes, Excuse, daemonVars, clientVars
<1>1. PidInv'
  BY DEF TypeOK, PidInv, ClientInv, Open, Taken, None
<1>2. OutInv'
  BY DEF TypeOK, OutInv
<1> QED BY <1>1, <1>2

\* After Receive, what a client was told, and is about to hear, is still true.
LEMMA ReceiveTells ==
  ASSUME Faithful, "slow_client" \notin Faults, NEW c \in Clients, Receive(c)
  PROVE  PidInv' /\ OutInv'
<1> USE DEF Faithful, Inductive, Receive, ClientGoes, Excuse, daemonVars, clientVars
<1>1. PidInv'
  BY DEF TypeOK, PidInv, Open, Taken
<1>2. OutInv'
  BY DEF TypeOK, ClientInv, OutInv, Clients
<1> QED BY <1>1, <1>2

\* After Lose, what a client was told, and is about to hear, is still true.
LEMMA LoseTells ==
  ASSUME Faithful, "slow_client" \notin Faults, NEW c \in Clients, Lose(c)
  PROVE  PidInv' /\ OutInv'
<1> USE DEF Faithful, Inductive, Lose, ClientGoes, Excuse, daemonVars, clientVars
<1>1. PidInv'
  BY DEF TypeOK, PidInv, Open, Taken
<1>2. OutInv'
  BY DEF TypeOK, OutInv
<1> QED BY <1>1, <1>2

\* After Overrun, what a client was told, and is about to hear, is still true.
LEMMA OverrunTells ==
  ASSUME Faithful, "slow_client" \notin Faults, NEW c \in Clients, Overrun(c)
  PROVE  PidInv' /\ OutInv'
<1> USE DEF Faithful, Inductive, Overrun, ClientGoes, Excuse, daemonVars, clientVars
<1>1. PidInv'
  BY DEF TypeOK, PidInv, Open
<1>2. OutInv'
  BY DEF TypeOK, OutInv, Clients
<1> QED BY <1>1, <1>2

\* After Kill, what a client was told, and is about to hear, is still true.
LEMMA KillTells ==
  ASSUME Faithful, "slow_client" \notin Faults, NEW c \in Clients, Kill(c)
  PROVE  PidInv' /\ OutInv'
<1> USE DEF Faithful, Inductive, Kill, Ends, ClientGoes, daemonVars, clientVars
<1>1. PidInv'
  BY EngineAssumption DEF TypeOK, ConnInv, PidInv, Open, Taken
<1>2. OutInv'
  BY DEF TypeOK, OutInv
<1> QED BY <1>1, <1>2

\* After Clean, what a client was told, and is about to hear, is still true.
LEMMA CleanTells ==
  ASSUME Faithful, "slow_client" \notin Faults, NEW c \in Clients, Clean(c)
  PROVE  PidInv' /\ OutInv'
<1> USE DEF Faithful, Inductive, Clean, ClientGoes, daemonVars, clientVars
<1>1. PidInv'
  BY DEF TypeOK, PidInv, Open
<1>2. OutInv'
  BY DEF TypeOK, OutInv
<1> QED BY <1>1, <1>2

\* After OneShot, what a client was told, and is about to hear, is still true.
LEMMA OneShotTells ==
  ASSUME Faithful, "slow_client" \notin Faults, NEW c \in Clients, OneShot(c)
  PROVE  PidInv' /\ OutInv'
<1> USE DEF Faithful, Inductive, OneShot, ClientGoes, daemonVars, clientVars
<1>1. PidInv'
  BY DEF TypeOK, PidInv, Open
<1>2. OutInv'
  <2>1. \A b \in Switches : b \in Clients /\ (b # c => pc'[b] = pc[b] /\ out'[b] = out[b])
    BY DEF TypeOK, Clients
  <2>2. c \in Switches =>
          /\ why[c] = "unavailable" /\ pc'[c] \in {"returned", "failed"}
          /\ pc'[c] = "returned" => out'[c] = "oneshot"
          /\ pc'[c] = "failed" => out'[c] \in {None, "left"}
    BY DEF TypeOK, OutInv, None
  <2> QED BY <2>1, <2>2 DEF OutInv, None
<1> QED BY <1>1, <1>2

-----------------------------------------------------------------------------
\* Nothing happens.
LEMMA StutterKeeps ==
  ASSUME Faithful, UNCHANGED vars
  PROVE  Faithful'
BY
   DEF Faithful, Inductive, TypeOK, DaemonInv, JobInv, ConnInv, ClientInv, PidInv, OutInv, InQueue,
       Open, Alive, Listens, vars, daemonVars, clientVars

\* The invariant survives every step.
LEMMA NextKeeps ==
  ASSUME Inductive, [Next]_vars
  PROVE  Inductive'
<1>1. CASE UNCHANGED vars
  BY <1>1
     DEF Inductive, TypeOK, DaemonInv, JobInv, ConnInv, ClientInv, InQueue, Open, Alive, Listens, vars,
         daemonVars, clientVars
<1>2. CASE \E d \in Daemons : DaemonStep(d) \/ StopAsked(d) \/ IdleExit(d) \/ Killed(d)
  BY <1>2, BindKeeps, StopAskedKeeps, IdleExitKeeps, LeaveLoopKeeps, ExitKeeps, ReturnsKeeps, KilledKeeps,
     WorkerTakesKeeps, JobSucceedsKeeps, JobFailsKeeps, WorkerDiesKeeps
     DEF DaemonStep
<1>3. CASE \E c \in Clients : HandlerStep(c)
  BY <1>3, AcceptKeeps, CheckKeeps, EnqueueKeeps, AnswerKeeps, WorkerGoneKeeps DEF HandlerStep
<1>4. CASE \E c \in Clients : ClientStep(c) \/ Overrun(c)
  BY <1>4, PingKeeps, PingFailsKeeps, StartDaemonKeeps, NoDaemonKeeps, SendKeeps, SendFailsKeeps,
     ReceiveKeeps, LoseKeeps, OverrunKeeps, KillKeeps, CleanKeeps, OneShotKeeps
     DEF ClientStep
<1> QED BY <1>1, <1>2, <1>3, <1>4 DEF Next

\* What a client was told stays true over every step.
LEMMA NextTells ==
  ASSUME Faithful, "slow_client" \notin Faults, [Next]_vars
  PROVE  Faithful'
<1>1. Inductive'
  BY NextKeeps DEF Faithful
<1>2. CASE UNCHANGED vars
  BY <1>2, StutterKeeps
<1>3. CASE \E d \in Daemons : DaemonStep(d) \/ StopAsked(d) \/ IdleExit(d) \/ Killed(d)
  BY <1>1, <1>3, BindTells, StopAskedTells, IdleExitTells, LeaveLoopTells, ExitTells, ReturnsTells, KilledTells,
     WorkerTakesTells, JobSucceedsTells, JobFailsTells, WorkerDiesTells
     DEF DaemonStep, Faithful
<1>4. CASE \E c \in Clients : HandlerStep(c)
  BY <1>1, <1>4, AcceptTells, CheckTells, EnqueueTells, AnswerTells, WorkerGoneTells
     DEF HandlerStep, Faithful
<1>5. CASE \E c \in Clients : ClientStep(c) \/ Overrun(c)
  BY <1>1, <1>5, PingTells, PingFailsTells, StartDaemonTells, NoDaemonTells, SendTells,
     SendFailsTells, ReceiveTells, LoseTells, OverrunTells, KillTells, CleanTells, OneShotTells
     DEF ClientStep, Faithful
<1> QED BY <1>2, <1>3, <1>4, <1>5 DEF Next

\* The invariant of the first three theorems below, with every fault.
THEOREM InductiveInvariance == Spec => []Inductive
<1>1. Init => Inductive
  BY InitHolds DEF Faithful
<1>2. Inductive /\ [Next]_vars => Inductive'
  BY NextKeeps
<1> QED BY <1>1, <1>2, PTL DEF Spec

\* The shape of the state, for every number of clients and daemons.
THEOREM TypeCorrect == Spec => []TypeOK
<1>1. Inductive => TypeOK
  BY DEF Inductive
<1> QED BY <1>1, InductiveInvariance, PTL

\* Two daemons never run jobs at the same time (Daemon.bind's lock, serve's join and close),
\* unless one outlasted its 60 s; without that, the daemon that closed has no job.
THEOREM Exclusion == Spec => []JobsExclusive
<1>1. Inductive => JobsExclusive
  BY Names DEF Inductive, DaemonInv, JobsExclusive, Alive, Listens
<1> QED BY <1>1, InductiveInvariance, PTL

\* A serving daemon is the one the socket's path names (Daemon.bind, close).
THEOREM Reachability == Spec => []ServingIsReachable
<1>1. Inductive => ServingIsReachable
  BY DEF Inductive, DaemonInv, ServingIsReachable, Alive, Listens
<1> QED BY <1>1, InductiveInvariance, PTL

\* What run_job() reports is what its output file holds, provided that no daemon starts
\* between a client's ping and its request.
THEOREM Truthfulness ==
  ASSUME "slow_client" \notin Faults
  PROVE  Spec => []OutputMatchesOutcome
<1>1. Init => Faithful
  BY InitHolds
<1>2. Faithful /\ [Next]_vars => Faithful'
  BY NextTells
<1>3. Faithful => OutputMatchesOutcome
  BY DEF Faithful, OutInv, OutputMatchesOutcome
<1> QED BY <1>1, <1>2, <1>3, PTL DEF Spec
=============================================================================
