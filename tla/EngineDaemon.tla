---------------------------- MODULE EngineDaemon ----------------------------
(***************************************************************************)
(* The translation engine's daemon and its clients                         *)
(* (experiments/universal_kv/engine_daemon.py: Daemon;                     *)
(* kvpark/bridge/engine_client.py: run_job, prewarm).  One daemon at a     *)
(* time serves a bridge directory: it holds engine.lock, listens on        *)
(* engine.sock, and runs the jobs of its queue on one worker thread.  A    *)
(* client pings it, starts one when nobody answers, sends its job and      *)
(* waits; when the daemon is unavailable it translates with a process of   *)
(* its own, and when the daemon had the job and did not answer, it fails.  *)
(*                                                                         *)
(* A member of Daemons is one process, from its start to its end.  A       *)
(* client is one call of run_job() or prewarm().  Time limits may strike   *)
(* whenever the awaited event has not happened; the fault "long" is a job  *)
(* that outlasts the 60 s a stopping daemon waits for its worker.  What a  *)
(* job computes, the memory guard's arithmetic and the choice of a device  *)
(* are abstracted to how a job ends.                                       *)
(***************************************************************************)
EXTENDS Naturals, Sequences, FiniteSets

CONSTANTS
  Switches,   \* calls of run_job()
  Prewarms,   \* calls of prewarm()
  Daemons,    \* bound: daemon processes that can be started
  Faults      \* what may go wrong

Clients == Switches \cup Prewarms
None == "none"
Nobody == 0      \* in place of a daemon
FaultKinds == {"oom", "worker", "stop", "long", "slow_client"}

ASSUME EngineAssumption ==
  /\ Switches \cap Prewarms = {}
  /\ Faults \subseteq FaultKinds
  /\ Daemons \subseteq Nat \ {Nobody}
  /\ {None, "end", "idle", "ended"} \cap Clients = {}

VARIABLES
  phase,     \* of each daemon: "unborn", "starting", "serving", "draining", "closed" (close()
             \* is done, the process still there), "gone", or "refused", which is gone with
             \* the exit code ALREADY_RUNNING
  stopping,  \* each daemon's event of that name
  queue,     \* each daemon's queue: clients, and the worker's "end"
  worker,    \* what each worker does: "idle", a client's job, or "ended"
  socket,    \* the daemon whose socket the path names
  flock,     \* the daemon that holds engine.lock
  pc,        \* where each client is
  pid,       \* the daemon that answered its ping
  child,     \* the daemon it started last
  why,       \* why it has no report: "unavailable", "lost" or "overran"
  peer,      \* the daemon its request went to
  conn,      \* how far its request came
  reply,     \* the worker's reply to it: "ok", "final" or "retry"
  out        \* its output file: "none", "partial", "daemon", "oneshot" or, of a one-shot
             \* engine that failed, "left"

daemonVars == <<phase, stopping, queue, worker>>
clientVars == <<pc, pid, child, why>>
vars == <<daemonVars, socket, flock, clientVars, peer, conn, reply, out>>

Listens(d) == phase[d] \in {"serving", "draining"}
Alive(d) == Listens(d) \/ phase[d] = "closed"
Taken == {"reading", "checked", "queued"}

Init ==
  /\ phase = [d \in Daemons |-> "unborn"]
  /\ stopping = [d \in Daemons |-> FALSE]
  /\ queue = [d \in Daemons |-> <<>>]
  /\ worker = [d \in Daemons |-> "idle"]
  /\ socket = Nobody
  /\ flock = Nobody
  /\ pc = [c \in Clients |-> "ensure"]
  /\ pid = [c \in Clients |-> Nobody]
  /\ child = [c \in Clients |-> Nobody]
  /\ why = [c \in Clients |-> None]
  /\ peer = [c \in Clients |-> Nobody]
  /\ conn = [c \in Clients |-> None]
  /\ reply = [c \in Clients |-> None]
  /\ out = [c \in Clients |-> None]

-----------------------------------------------------------------------------
(* The daemon's life *)

\* A process ends: its lock is free, its threads stop, its connections close.
Ends(d) ==
  /\ phase' = [phase EXCEPT ![d] = "gone"]
  /\ stopping' = [stopping EXCEPT ![d] = TRUE]
  /\ queue' = [queue EXCEPT ![d] = <<>>]
  /\ worker' = [worker EXCEPT ![d] = "ended"]
  /\ flock' = IF flock = d THEN Nobody ELSE flock
  /\ conn' = [c \in Clients |->
                IF peer[c] = d /\ conn[c] = "backlog" THEN "unread"
                ELSE IF peer[c] = d /\ conn[c] \in Taken THEN "closed" ELSE conn[c]]

\* Mutant: the stale socket is removed before the lock is taken.
BindUnlinksFirst(d) ==
  /\ phase[d] = "starting"
  /\ IF flock = Nobody
     THEN /\ flock' = d
          /\ socket' = d
          /\ phase' = [phase EXCEPT ![d] = "serving"]
     ELSE /\ phase' = [phase EXCEPT ![d] = "refused"]
          /\ socket' = Nobody
          /\ UNCHANGED flock
  /\ UNCHANGED <<stopping, queue, worker, clientVars, peer, conn, reply, out>>

\* With the lock, bind() replaces the socket; without it main() returns 3.  A new
\* process takes longer to get here than a client from its ping to its request.
Bind(d) ==
  /\ phase[d] = "starting"
  /\ "slow_client" \in Faults \/ \A c \in Clients : pc[c] # "pinged"
  /\ IF flock = Nobody
     THEN /\ flock' = d
          /\ socket' = d
          /\ phase' = [phase EXCEPT ![d] = "serving"]
     ELSE /\ phase' = [phase EXCEPT ![d] = "refused"]
          /\ UNCHANGED <<flock, socket>>
  /\ UNCHANGED <<stopping, queue, worker, clientVars, peer, conn, reply, out>>

\* A "shutdown" request or SIGTERM.
StopAsked(d) ==
  /\ "stop" \in Faults
  /\ phase[d] = "serving" /\ ~stopping[d]
  /\ stopping' = [stopping EXCEPT ![d] = TRUE]
  /\ UNCHANGED <<phase, queue, worker, socket, flock, clientVars, peer, conn, reply, out>>

\* _idle(), after idle_exit.
IdleExit(d) ==
  /\ phase[d] = "serving" /\ ~stopping[d]
  /\ worker[d] \in {"idle", "ended"} /\ queue[d] = <<>>
  /\ stopping' = [stopping EXCEPT ![d] = TRUE]
  /\ UNCHANGED <<phase, queue, worker, socket, flock, clientVars, peer, conn, reply, out>>

\* Mutant: close() comes before the worker's end, not after.
LeaveLoopCloses(d) ==
  /\ phase[d] = "serving" /\ stopping[d]
  /\ phase' = [phase EXCEPT ![d] = "draining"]
  /\ queue' = [queue EXCEPT ![d] = Append(@, "end")]
  /\ flock' = Nobody
  /\ UNCHANGED <<stopping, worker, socket, clientVars, peer, conn, reply, out>>

\* serve() leaves its loop and tells the worker to end.
LeaveLoop(d) ==
  /\ phase[d] = "serving" /\ stopping[d]
  /\ phase' = [phase EXCEPT ![d] = "draining"]
  /\ queue' = [queue EXCEPT ![d] = Append(@, "end")]
  /\ UNCHANGED <<stopping, worker, socket, flock, clientVars, peer, conn, reply, out>>

\* The worker ended, or join() gave up after 60 s; then close(): the socket and the
\* lock are free, while a job that takes longer goes on.
Exit(d) ==
  /\ phase[d] = "draining"
  /\ worker[d] = "ended" \/ "long" \in Faults
  /\ phase' = [phase EXCEPT ![d] = "closed"]
  /\ socket' = IF socket = d THEN Nobody ELSE socket
  /\ flock' = Nobody
  /\ conn' = [c \in Clients |->
                IF peer[c] = d /\ conn[c] = "backlog" THEN "unread" ELSE conn[c]]
  /\ UNCHANGED <<stopping, queue, worker, clientVars, peer, reply, out>>

\* main() returns; the daemon's threads end with the process.
Returns(d) ==
  /\ phase[d] = "closed"
  /\ Ends(d)
  /\ UNCHANGED <<socket, clientVars, peer, reply, out>>

\* The kernel kills it for memory: the socket's file stays.
Killed(d) ==
  /\ "oom" \in Faults
  /\ Alive(d)
  /\ Ends(d)
  /\ UNCHANGED <<socket, clientVars, peer, reply, out>>

-----------------------------------------------------------------------------
(* A connection's thread in the daemon *)

Moves(c, to) == conn' = [conn EXCEPT ![c] = to]

\* A daemon that stops meanwhile reads no request any more, and hangs up.
Accept(c) ==
  /\ conn[c] = "backlog" /\ phase[peer[c]] = "serving"
  /\ Moves(c, IF stopping[peer[c]] THEN "unread" ELSE "reading")
  /\ UNCHANGED <<daemonVars, socket, flock, clientVars, peer, reply, out>>

\* handle() asks _problem().
Check(c) ==
  /\ conn[c] = "reading"
  /\ LET d == peer[c]
         problem == stopping[d] \/ worker[d] = "ended"
     IN /\ Moves(c, IF problem THEN "answered" ELSE "checked")
        /\ reply' = [reply EXCEPT ![c] = IF problem THEN "retry" ELSE @]
        /\ stopping' = [stopping EXCEPT ![d] = @ \/ worker[d] = "ended"]
  /\ UNCHANGED <<phase, queue, worker, socket, flock, clientVars, peer, out>>

\* The daemon may have begun to stop since, and its worker may have ended.
Enqueue(c) ==
  /\ conn[c] = "checked"
  /\ Moves(c, "queued")
  /\ queue' = [queue EXCEPT ![peer[c]] = Append(@, c)]
  /\ UNCHANGED <<phase, stopping, worker, socket, flock, clientVars, peer, reply, out>>

Answer(c) ==
  /\ conn[c] = "queued" /\ reply[c] # None
  /\ Moves(c, "answered")
  /\ UNCHANGED <<daemonVars, socket, flock, clientVars, peer, reply, out>>

\* Mutant: the wait for the worker has no limit.
WorkerGoneNever(c) == FALSE /\ UNCHANGED vars

\* A wait of 1 s was in vain, and the worker is not alive.  It may have replied
\* between the two.
WorkerGone(c) ==
  /\ conn[c] = "queued" /\ worker[peer[c]] = "ended"
  /\ Moves(c, "answered")
  /\ reply' = [reply EXCEPT ![c] = "retry"]
  /\ stopping' = [stopping EXCEPT ![peer[c]] = TRUE]
  /\ UNCHANGED <<phase, queue, worker, socket, flock, clientVars, peer, out>>

-----------------------------------------------------------------------------
(* The worker *)

\* _work() takes an item; _run() refuses a client's when the daemon stops.
WorkerTakes(d) ==
  /\ Alive(d) /\ worker[d] = "idle" /\ queue[d] # <<>>
  /\ queue' = [queue EXCEPT ![d] = Tail(@)]
  /\ LET item == Head(queue[d]) IN
       \/ /\ item = "end"
          /\ worker' = [worker EXCEPT ![d] = "ended"]
          /\ UNCHANGED <<reply, out>>
       \/ /\ item \in Clients /\ stopping[d]
          /\ reply' = [reply EXCEPT ![item] = "retry"]
          /\ UNCHANGED <<worker, out>>
       \/ /\ item \in Clients /\ ~stopping[d]
          /\ worker' = [worker EXCEPT ![d] = item]
          /\ out' = [out EXCEPT ![item] = IF item \in Switches THEN "partial" ELSE @]
          /\ UNCHANGED reply
  /\ UNCHANGED <<phase, stopping, socket, flock, clientVars, peer, conn>>

\* op_translate() or op_load() returns: the target's state is in place.
JobSucceeds(d, c) ==
  /\ worker[d] = c
  /\ worker' = [worker EXCEPT ![d] = "idle"]
  /\ reply' = [reply EXCEPT ![c] = "ok"]
  /\ out' = [out EXCEPT ![c] = IF c \in Switches THEN "daemon" ELSE @]
  /\ UNCHANGED <<phase, stopping, queue, socket, flock, clientVars, peer, conn>>

\* It raises: error_kind() says whether a one-shot engine may try again.  A file that was
\* linked already stays; before another engine runs it is removed.
JobFails(d, c) ==
  /\ worker[d] = c
  /\ worker' = [worker EXCEPT ![d] = "idle"]
  /\ \/ /\ reply' = [reply EXCEPT ![c] = "retry"]
        /\ out' = [out EXCEPT ![c] = None]
     \/ /\ reply' = [reply EXCEPT ![c] = "final"]
        /\ \E rest \in {None, "left"} : out' = [out EXCEPT ![c] = IF c \in Switches THEN rest ELSE @]
  /\ UNCHANGED <<phase, stopping, queue, socket, flock, clientVars, peer, conn>>

\* Something that is no Exception ends the thread; its finally clause replies.
WorkerDies(d, c) ==
  /\ "worker" \in Faults
  /\ worker[d] = c
  /\ worker' = [worker EXCEPT ![d] = "ended"]
  /\ reply' = [reply EXCEPT ![c] = "retry"]
  /\ out' = [out EXCEPT ![c] = None]
  /\ UNCHANGED <<phase, stopping, queue, socket, flock, clientVars, peer, conn>>

-----------------------------------------------------------------------------
(* A client *)

ClientGoes(c, to) == pc' = [pc EXCEPT ![c] = to]
Excuse(c, reason) == why' = [why EXCEPT ![c] = reason]

Answers(d) == d \in Daemons /\ phase[d] = "serving" /\ ~stopping[d] /\ worker[d] # "ended"

Ping(c) ==
  /\ pc[c] = "ensure"
  /\ Answers(socket)
  /\ ClientGoes(c, "pinged")
  /\ pid' = [pid EXCEPT ![c] = socket]
  /\ child' = [child EXCEPT ![c] = Nobody]
  /\ UNCHANGED <<daemonVars, socket, flock, why, peer, conn, reply, out>>

\* A ping finds the worker dead and makes the daemon stop.
PingFails(c) ==
  /\ pc[c] = "ensure"
  /\ socket \in Daemons /\ phase[socket] = "serving"
  /\ worker[socket] = "ended" /\ ~stopping[socket]
  /\ stopping' = [stopping EXCEPT ![socket] = TRUE]
  /\ UNCHANGED <<phase, queue, worker, socket, flock, clientVars, peer, conn, reply, out>>

\* Nobody answered, and the process this client started, if any, found the directory
\* held.
StartDaemon(c) ==
  /\ pc[c] = "ensure"
  /\ ~Answers(socket)
  /\ child[c] \in {Nobody} \cup {d \in Daemons : phase[d] = "refused"}
  /\ \E d \in Daemons :
       /\ phase[d] = "unborn"
       /\ \A e \in Daemons : phase[e] = "unborn" => e >= d
       /\ phase' = [phase EXCEPT ![d] = "starting"]
       /\ child' = [child EXCEPT ![c] = d]
  /\ UNCHANGED <<stopping, queue, worker, socket, flock, pc, pid, why, peer, conn, reply, out>>

\* START_TIMEOUT, or the process started ended in another way.
NoDaemon(c) ==
  /\ pc[c] = "ensure"
  /\ ClientGoes(c, "clean")
  /\ Excuse(c, "unavailable")
  /\ child' = [child EXCEPT ![c] = Nobody]
  /\ UNCHANGED <<daemonVars, socket, flock, pid, peer, conn, reply, out>>

\* _request(): a daemon that still listens queues the connection.
Send(c) ==
  /\ pc[c] = "pinged"
  /\ socket \in Daemons /\ Listens(socket)
  /\ ClientGoes(c, "waiting")
  /\ peer' = [peer EXCEPT ![c] = socket]
  /\ Moves(c, "backlog")
  /\ UNCHANGED <<daemonVars, socket, flock, pid, child, why, reply, out>>

SendFails(c) ==
  /\ pc[c] = "pinged"
  /\ ~(socket \in Daemons /\ Listens(socket))
  /\ ClientGoes(c, "clean")
  /\ Excuse(c, "unavailable")
  /\ UNCHANGED <<daemonVars, socket, flock, pid, child, peer, conn, reply, out>>

\* The reply: a report, an error no retry would help, or one that asks for another
\* engine.  prewarm() takes any error for an answer.
Receive(c) ==
  /\ pc[c] = "waiting" /\ conn[c] = "answered"
  /\ \/ /\ reply[c] = "ok"
        /\ ClientGoes(c, "returned")
        /\ UNCHANGED why
     \/ /\ reply[c] = "final"
        /\ ClientGoes(c, "failed")
        /\ UNCHANGED why
     \/ /\ reply[c] = "retry"
        /\ ClientGoes(c, "clean")
        /\ Excuse(c, "unavailable")
  /\ UNCHANGED <<daemonVars, socket, flock, pid, child, peer, conn, reply, out>>

\* DaemonLost
Lose(c) ==
  /\ pc[c] = "waiting" /\ conn[c] \in {"unread", "closed"}
  /\ ClientGoes(c, "clean")
  /\ Excuse(c, "lost")
  /\ UNCHANGED <<daemonVars, socket, flock, pid, child, peer, conn, reply, out>>

\* DaemonOverran; run_job() sends SIGTERM.
Overrun(c) ==
  /\ pc[c] = "waiting" /\ conn[c] \in {"backlog"} \cup Taken
  /\ Excuse(c, "overran")
  /\ IF c \in Switches
     THEN /\ ClientGoes(c, "kill")
          /\ stopping' = [stopping EXCEPT ![pid[c]] = TRUE]
     ELSE /\ ClientGoes(c, "failed")
          /\ UNCHANGED stopping
  /\ UNCHANGED <<phase, queue, worker, socket, flock, pid, child, peer, conn, reply, out>>

\* _kill(): it is gone within 2 s, or SIGKILL ends it.
Kill(c) ==
  /\ pc[c] = "kill"
  /\ ClientGoes(c, "clean")
  /\ IF Alive(pid[c]) THEN Ends(pid[c]) ELSE UNCHANGED <<daemonVars, flock, conn>>
  /\ UNCHANGED <<socket, pid, child, why, peer, reply, out>>

\* Mutant: what the daemon left stays.
CleanNothing(c) ==
  /\ pc[c] = "clean"
  /\ ClientGoes(c, IF c \in Prewarms \/ why[c] # "unavailable" THEN "failed" ELSE "oneshot")
  /\ UNCHANGED <<daemonVars, socket, flock, pid, child, why, peer, conn, reply, out>>

\* _remove_output(); a job the daemon had is not run again.
Clean(c) ==
  /\ pc[c] = "clean"
  /\ out' = [out EXCEPT ![c] = None]
  /\ pid' = [pid EXCEPT ![c] = Nobody]
  /\ ClientGoes(c, IF c \in Prewarms \/ why[c] # "unavailable" THEN "failed" ELSE "oneshot")
  /\ UNCHANGED <<daemonVars, socket, flock, child, why, peer, conn, reply>>

\* _one_shot(): its engine fails, or is killed when the time is over, before or after
\* it wrote something, which stays.
OneShot(c) ==
  /\ pc[c] = "oneshot"
  /\ \/ /\ ClientGoes(c, "returned")
        /\ out' = [out EXCEPT ![c] = "oneshot"]
     \/ /\ ClientGoes(c, "failed")
        /\ \E rest \in {None, "left"} : out' = [out EXCEPT ![c] = rest]
  /\ UNCHANGED <<daemonVars, socket, flock, pid, child, why, peer, conn, reply>>

-----------------------------------------------------------------------------
DaemonStep(d) ==
  \/ Bind(d) \/ LeaveLoop(d) \/ Exit(d) \/ Returns(d) \/ WorkerTakes(d)
  \/ \E c \in Clients : JobSucceeds(d, c) \/ JobFails(d, c) \/ WorkerDies(d, c)

HandlerStep(c) ==
  Accept(c) \/ Check(c) \/ Enqueue(c) \/ Answer(c) \/ WorkerGone(c)

ClientStep(c) ==
  \/ Ping(c) \/ PingFails(c) \/ StartDaemon(c) \/ NoDaemon(c)
  \/ Send(c) \/ SendFails(c) \/ Receive(c) \/ Lose(c)
  \/ Kill(c) \/ Clean(c) \/ OneShot(c)

Next ==
  \/ \E d \in Daemons :
       DaemonStep(d) \/ StopAsked(d) \/ IdleExit(d) \/ Killed(d)
  \/ \E c \in Clients : HandlerStep(c) \/ ClientStep(c) \/ Overrun(c)

Spec == Init /\ [][Next]_vars

\* Processes and threads run, jobs end, and ensure_daemon() has a deadline.  No
\* client has to run into the time limit of its job.
FairSpec ==
  /\ Spec
  /\ \A d \in Daemons : WF_vars(DaemonStep(d))
  /\ \A c \in Clients : WF_vars(HandlerStep(c) \/ ClientStep(c))

-----------------------------------------------------------------------------
(* Properties. *)

\* The shape of the state: daemons, connections and clients.
TypeOK ==
  /\ phase \in [Daemons -> {"unborn", "starting", "serving", "draining", "closed", "gone", "refused"}]
  /\ stopping \in [Daemons -> BOOLEAN]
  /\ queue \in [Daemons -> Seq(Clients \cup {"end"})]
  /\ worker \in [Daemons -> Clients \cup {"idle", "ended"}]
  /\ {socket, flock} \subseteq Daemons \cup {Nobody}
  /\ pc \in [Clients -> {"ensure", "pinged", "waiting", "kill", "clean", "oneshot",
                         "returned", "failed"}]
  /\ {pid, child, peer} \subseteq [Clients -> Daemons \cup {Nobody}]
  /\ why \in [Clients -> {None, "unavailable", "lost", "overran"}]
  /\ conn \in [Clients -> {None, "answered", "unread", "closed", "backlog"} \cup Taken]
  /\ reply \in [Clients -> {None, "ok", "final", "retry"}]
  /\ out \in [Clients -> {None, "partial", "daemon", "oneshot", "left"}]

\* What a call of run_job() tells its caller is what the output file holds, then and
\* ever after: a report, the whole state written by the engine the report names; that a
\* daemon was lost or overran, nothing; an error of the engine, nothing but what that
\* engine left.  No daemon writes late, whoever it also served, was stopped or was
\* killed by.
OutputMatchesOutcome ==
  \A c \in Switches :
    /\ pc[c] = "returned" => out[c] = IF why[c] = None THEN "daemon" ELSE "oneshot"
    /\ pc[c] = "failed" => out[c] = None \/ (out[c] = "left" /\ why[c] \in {None, "unavailable"})

\* Two daemons never run jobs at the same time, however the one before was stopped:
\* switches do not compete for the GPU.  The exception is a daemon that has closed
\* after waiting 60 s for a longer job, until its process ends.
JobsExclusive ==
  \A d, e \in Daemons :
    worker[d] \in Clients /\ worker[e] \in Clients =>
      d = e \/ ("long" \in Faults /\ "closed" \in {phase[d], phase[e]})

\* A daemon that serves can be reached, and is the only one, whatever processes were
\* started, refused or killed meanwhile.
ServingIsReachable ==
  \A d \in Daemons : phase[d] = "serving" => socket = d /\ flock = d

\* Every call comes to an end without running into its time limit: no request is
\* left in the queue of a worker that takes nothing more.
CallsEnd == <>(\A c \in Clients : pc[c] \in {"returned", "failed"})
=============================================================================
