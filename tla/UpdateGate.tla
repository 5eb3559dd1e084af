----------------------------- MODULE UpdateGate -----------------------------
(***************************************************************************)
(* Replacing or removing a running proxy (kvpark/updates.py: _apply,       *)
(* removal.py: stop, proxy.py: Archive.prepare_update).  A client asks the *)
(* proxy to close its gate and park the resident conversation, stops it,   *)
(* and in an update starts a replacement that keeps its gate closed until  *)
(* the client has committed.  The gate is a lease: if the client dies,     *)
(* inference reopens by itself.                                            *)
(*                                                                         *)
(* The thread that serves prepare-update outlives a client that gives up   *)
(* on the reply.  Time passes in ticks; a timer counts the ticks that a    *)
(* thread or client spent where it is, and a tick waits for everything     *)
(* that has used up its limit.                                             *)
(*                                                                         *)
(* An update also changes the installed package, which it puts back if the *)
(* new one does not work, and records what it does in update.json.  A      *)
(* client that is killed leaves its pip running.                           *)
(***************************************************************************)
EXTENDS Naturals, FiniteSets

CONSTANTS
  Clients,      \* runs of `kvpark update` and of uninstall
  Lease,        \* maintenance_until, from now: 300 s
  WaitLimit,    \* prepare_update() waits for the inference lock: 60 s
  ReplyLimit,   \* the client waits for the reply: 90 s
  ParkLimit,    \* bound: how long park() may take; its save may take 600 s
  WorkLimit,    \* bound: how long a client takes for a step of its own
  Latest,       \* the newest release; releases are numbered from 1
  Faults        \* what may go wrong

FaultKinds == {"park", "killed", "stop", "verify", "pip"}

ASSUME GateAssumption ==
  /\ {Lease, WaitLimit, ReplyLimit, ParkLimit, WorkLimit, Latest} \subseteq Nat \ {0}
  /\ "generation" \notin Clients
  /\ Faults \subseteq FaultKinds

VARIABLES
  alive,     \* the proxy process runs
  lease,     \* ticks until maintenance_until; 0: the gate is open
  lock,      \* holder of the inference lock: {}, {"generation"} or {a client}
  resident,  \* the resident conversation: "none", "unsaved" or "saved"
  thread,    \* the proxy's thread for each client's prepare-update
  waited,    \* ... and its timer
  client,    \* where each client is
  spent,     \* ... and its timer
  job,       \* the last client's: an update or not, and whether it found a proxy
  record,    \* update.json
  package,   \* the release installed; 0: none that works
  running,   \* the release the proxy loaded
  pip        \* what a pip that has lost its client is installing; 0: there is none

proxy == <<alive, lease, lock, resident>>
threads == <<thread, waited>>
clients == <<client, spent>>
installation == <<package, running, pip>>
update == <<job, record, installation>>
vars == <<proxy, threads, clients, update>>

Init ==
  /\ alive = TRUE
  /\ lease = 0
  /\ lock = {}
  /\ resident = "none"
  /\ thread = [c \in Clients |-> "none"]
  /\ waited = [c \in Clients |-> 0]
  /\ client = [c \in Clients |-> "idle"]
  /\ spent = [c \in Clients |-> 0]
  /\ job = [update |-> FALSE, proxy |-> FALSE]
  /\ record = [state |-> "none", previous |-> 0, version |-> 0]
  /\ package \in 1..Latest
  /\ running \in 1..package
  /\ pip = 0

ThreadGoes(c, to) ==
  /\ thread' = [thread EXCEPT ![c] = to]
  /\ waited' = [waited EXCEPT ![c] = 0]

ClientGoes(c, to) ==
  /\ client' = [client EXCEPT ![c] = to]
  /\ spent' = [spent EXCEPT ![c] = 0]

\* A process is gone, with its threads and its memory.
NoThreads ==
  /\ thread' = [c \in Clients |-> "none"]
  /\ waited' = [c \in Clients |-> 0]
  /\ lock' = {}
  /\ resident' = "none"

-----------------------------------------------------------------------------
(* Inference *)

\* Mutant: the gate is not looked at under the lock.
GenerationUnchecked ==
  /\ alive /\ lock = {}
  /\ lock' = {"generation"}
  /\ UNCHANGED <<alive, lease, resident, threads, clients, update>>

\* relay(): with the lock, and the gate open; otherwise the answer is 503.
GenerationStarts ==
  /\ alive /\ lock = {}
  /\ lease = 0
  /\ lock' = {"generation"}
  /\ UNCHANGED <<alive, lease, resident, threads, clients, update>>

\* A reply was completed, or not and the slot has no owner.
GenerationEnds ==
  /\ lock = {"generation"}
  /\ lock' = {}
  /\ resident' \in {"none", "unsaved"}
  /\ UNCHANGED <<alive, lease, threads, clients, update>>

-----------------------------------------------------------------------------
(* prepare_update(), run by a thread of the proxy *)

\* How a client leaves; an update says so in update.json.
Ends(c, outcome) ==
  /\ ClientGoes(c, "idle")
  /\ record' = IF job.update THEN [record EXCEPT !.state = outcome] ELSE record

\* The thread answers c, if c still waits.
Reply(c, ready) ==
  IF client[c] # "asked" THEN UNCHANGED <<clients, record>>
  ELSE IF ready THEN ClientGoes(c, "prepared") /\ UNCHANGED record
  ELSE Ends(c, "failed")

\* "an update is already preparing this proxy"
Refused(c) ==
  /\ thread[c] = "asked" /\ lease > 0
  /\ ThreadGoes(c, "none")
  /\ Reply(c, FALSE)
  /\ UNCHANGED <<proxy, job, installation>>

GateFree(c) ==
  /\ thread[c] = "asked" /\ lease = 0
  /\ ThreadGoes(c, "closing")
  /\ UNCHANGED <<proxy, clients, update>>

GateCloses(c) ==
  /\ thread[c] = "closing"
  /\ lease' = Lease
  /\ ThreadGoes(c, "waiting")
  /\ UNCHANGED <<alive, lock, resident, clients, update>>

Locks(c) ==
  /\ thread[c] = "waiting" /\ lock = {}
  /\ lock' = {c}
  /\ ThreadGoes(c, "parking")
  /\ UNCHANGED <<alive, lease, resident, clients, update>>

\* "inference is still active"
LockTimesOut(c) ==
  /\ thread[c] = "waiting" /\ lock # {} /\ waited[c] = WaitLimit
  /\ lease' = 0
  /\ ThreadGoes(c, "none")
  /\ Reply(c, FALSE)
  /\ UNCHANGED <<alive, lock, resident, job, installation>>

Parked(c) ==
  /\ thread[c] = "parking"
  /\ resident' = IF resident = "none" THEN "none" ELSE "saved"
  /\ lock' = {}
  /\ ThreadGoes(c, "none")
  /\ Reply(c, TRUE)
  /\ UNCHANGED <<alive, lease, job, installation>>

ParkFails(c) ==
  /\ thread[c] = "parking" /\ resident # "none" /\ "park" \in Faults
  /\ lock' = {}
  /\ lease' = 0
  /\ ThreadGoes(c, "none")
  /\ Reply(c, FALSE)
  /\ UNCHANGED <<alive, resident, job, installation>>

-----------------------------------------------------------------------------
(* The clients; .hermes-start.lock lets only one at a time past "idle". *)

\* Unless "pip" is in Faults, a pip that lost its client is over before the next
\* client or proxy starts.
PipIsOver == pip = 0 \/ "pip" \in Faults

Begin(c) ==
  /\ \A d \in Clients : client[d] = "idle"
  /\ thread[c] = "none" /\ PipIsOver
  /\ UNCHANGED <<proxy, threads, installation>>

\* There is a newer release, or the proxy runs an older one than is installed.
BeginUpdate(c) ==
  /\ Begin(c)
  /\ package # 0 /\ (package < Latest \/ (alive /\ running # package))
  /\ job' = [update |-> TRUE, proxy |-> alive]
  /\ record' = [state |-> IF alive THEN "preparing" ELSE "installing",
                previous |-> package, version |-> Latest]
  /\ ClientGoes(c, IF alive THEN "begun" ELSE "stopped")

BeginUninstall(c) ==
  /\ Begin(c)
  /\ alive
  /\ job' = [update |-> FALSE, proxy |-> TRUE]
  /\ ClientGoes(c, "begun")
  /\ UNCHANGED record

\* The proxy is not one that the client may stop.
Declines(c) ==
  /\ client[c] = "begun" /\ "verify" \in Faults
  /\ Ends(c, "failed")
  /\ UNCHANGED <<proxy, threads, job, installation>>

\* By now the client has looked up releases and the proxy's status.  That takes longer
\* than a thread needs from testing the gate to closing it.
Ask(c) ==
  /\ client[c] = "begun"
  /\ \A d \in Clients : thread[d] \notin {"asked", "closing"}
  /\ ThreadGoes(c, "asked")
  /\ ClientGoes(c, "asked")
  /\ UNCHANGED <<proxy, update>>

\* The reply did not come in time.  No cancel-update follows.
GivesUp(c) ==
  /\ client[c] = "asked" /\ spent[c] = ReplyLimit
  /\ Ends(c, "failed")
  /\ UNCHANGED <<proxy, threads, job, installation>>

\* stop_proxy(); an uninstall is then done, an update goes on.
Stop(c) ==
  /\ client[c] = "prepared"
  /\ alive' = FALSE
  /\ lease' = 0
  /\ NoThreads
  /\ ClientGoes(c, IF job.update THEN "stopped" ELSE "idle")
  /\ record' = IF job.update THEN [record EXCEPT !.state = "installing"] ELSE record
  /\ UNCHANGED <<job, installation>>

\* The route could not be restored, or the process did not stop.
StopFails(c) ==
  /\ client[c] = "prepared" /\ "stop" \in Faults
  /\ ClientGoes(c, "cancel")
  /\ UNCHANGED <<proxy, threads, update>>

\* There is a wheel to install, and one to go back to.
Changing == record.previous # record.version

\* The package, if it changes, is installed and its version is the right one.
Install(c) ==
  /\ client[c] = "stopped"
  /\ package' = record.version
  /\ ClientGoes(c, "installed")
  /\ UNCHANGED <<proxy, threads, job, record, running, pip>>

\* Mutant: changed is set when pip has returned.
InstallFailsUnchanged(c) ==
  /\ client[c] = "stopped" /\ "verify" \in Faults
  /\ package' \in {record.previous, record.version} \cup (IF Changing THEN {0} ELSE {})
  /\ IF package' = record.version THEN ClientGoes(c, "rollback") ELSE ClientGoes(c, "restoring")
  /\ UNCHANGED <<proxy, threads, job, record, running, pip>>

\* pip fails, possibly after removing files, or the version is wrong.
InstallFails(c) ==
  /\ client[c] = "stopped" /\ "verify" \in Faults
  /\ package' \in {record.previous, record.version} \cup (IF Changing THEN {0} ELSE {})
  /\ ClientGoes(c, "rollback")
  /\ UNCHANGED <<proxy, threads, job, record, running, pip>>

\* The installed release starts, with the gate closed (KVPARK_UPDATE_START).
Starts ==
  /\ alive' = TRUE
  /\ lease' = Lease
  /\ running' = package
  /\ UNCHANGED <<lock, resident, threads, job, record, package, pip>>

\* start_proxy()
Replace(c) ==
  /\ client[c] = "installed" /\ job.proxy
  /\ Starts
  /\ ClientGoes(c, "replaced")

\* The replacement exits, or is not ready in time and stops when told to.
ReplaceFails(c) ==
  /\ client[c] = "installed" /\ job.proxy /\ "verify" \in Faults
  /\ ClientGoes(c, "rollback")
  /\ UNCHANGED <<proxy, threads, update>>

\* Mutant: the gate is reopened before the replacement is verified.
CommitFirst(c) ==
  /\ client[c] = "replaced"
  /\ lease' = 0
  /\ \/ Ends(c, "complete")
     \/ ClientGoes(c, "replaced") /\ UNCHANGED record
  /\ UNCHANGED <<alive, lock, resident, threads, job, installation>>

\* Version, address and health are right, and the outcome is on record.
Commit(c) ==
  /\ \/ /\ client[c] = "replaced"
        /\ ClientGoes(c, "cancel")
        /\ record' = [record EXCEPT !.state = "complete"]
     \/ /\ client[c] = "installed" /\ ~job.proxy
        /\ Ends(c, "complete")
  /\ UNCHANGED <<proxy, threads, job, installation>>

\* They are not: the replacement is stopped and the old package comes back.
RollBack(c) ==
  /\ client[c] = "replaced" /\ "verify" \in Faults
  /\ alive' = FALSE
  /\ lease' = 0
  /\ NoThreads
  /\ ClientGoes(c, "rollback")
  /\ UNCHANGED update

\* The replacement does not stop; its package is left alone.
Survives(c) ==
  /\ client[c] = "replaced" /\ "verify" \in Faults
  /\ Ends(c, "recovery_required")
  /\ UNCHANGED <<proxy, threads, job, installation>>

Undone == IF Changing THEN "rolled_back" ELSE "failed"

Reinstall(c) ==
  /\ client[c] = "rollback"
  /\ package' = record.previous
  /\ IF job.proxy THEN ClientGoes(c, "restoring") /\ UNCHANGED record ELSE Ends(c, Undone)
  /\ UNCHANGED <<proxy, threads, job, running, pip>>

Restore(c) ==
  /\ client[c] = "restoring"
  /\ Starts
  /\ ClientGoes(c, "cancel")

\* The old package or proxy does not come back.
RecoveryFails(c) ==
  /\ "verify" \in Faults
  /\ \/ client[c] = "rollback" /\ package' \in {package} \cup (IF Changing THEN {0} ELSE {})
     \/ client[c] = "restoring" /\ UNCHANGED package
  /\ Ends(c, "recovery_required")
  /\ UNCHANGED <<proxy, threads, job, running, pip>>

\* cancel-update: reopen the gate.  If the request or its answer is lost, it is reopened
\* now or when the lease runs out.
Cancel(c) ==
  /\ client[c] = "cancel"
  /\ LET committed == record.state = "complete"
         done == IF committed THEN "complete" ELSE IF record.state = "installing" THEN Undone ELSE "failed"
         lost == IF committed THEN "maintenance_pending" ELSE "recovery_required"
     IN  \/ lease' = 0 /\ Ends(c, done)
         \/ lease' \in {0, lease} /\ Ends(c, lost)
  /\ UNCHANGED <<alive, lock, resident, threads, job, installation>>

\* The client dies; its file locks go with it, the pip it may have started does not.
Killed(c) ==
  /\ "killed" \in Faults
  /\ client[c] # "idle"
  /\ ClientGoes(c, "idle")
  /\ \/ UNCHANGED installation
     \/ /\ client[c] \in {"stopped", "rollback"} /\ Changing /\ pip = 0
        /\ pip' = IF client[c] = "stopped" THEN record.version ELSE record.previous
        /\ package' \in {package, 0}
        /\ UNCHANGED running
  /\ UNCHANGED <<proxy, threads, job, record>>

\* A pip that has lost its client gets done, or fails.
PipEnds ==
  /\ pip # 0
  /\ package' \in {pip, 0}
  /\ pip' = 0
  /\ UNCHANGED <<proxy, threads, clients, job, record, running>>

\* Somebody starts the proxy again.
Serve ==
  /\ ~alive /\ package # 0 /\ PipIsOver
  /\ \A c \in Clients : client[c] = "idle"
  /\ alive' = TRUE
  /\ lease' = 0
  /\ running' = package
  /\ UNCHANGED <<lock, resident, threads, clients, job, record, package, pip>>

-----------------------------------------------------------------------------
(* Time *)

ThreadLimit(c) ==
  IF thread[c] = "waiting" THEN WaitLimit ELSE IF thread[c] = "parking" THEN ParkLimit ELSE 0

ClientLimit(c) == IF client[c] = "asked" THEN ReplyLimit ELSE WorkLimit

\* Mutant: the gate is a flag, not a lease.
TickNoExpiry ==
  /\ \A c \in Clients : thread[c] # "none" => waited[c] < ThreadLimit(c)
  /\ \A c \in Clients : client[c] # "idle" => spent[c] < ClientLimit(c)
  /\ waited' = [c \in Clients |-> IF thread[c] = "none" THEN 0 ELSE waited[c] + 1]
  /\ spent' = [c \in Clients |-> IF client[c] = "idle" THEN 0 ELSE spent[c] + 1]
  /\ UNCHANGED <<proxy, thread, client, update>>

Tick ==
  /\ \A c \in Clients : thread[c] # "none" => waited[c] < ThreadLimit(c)
  /\ \A c \in Clients : client[c] # "idle" => spent[c] < ClientLimit(c)
  /\ lease' = IF lease > 0 THEN lease - 1 ELSE 0
  /\ waited' = [c \in Clients |-> IF thread[c] = "none" THEN 0 ELSE waited[c] + 1]
  /\ spent' = [c \in Clients |-> IF client[c] = "idle" THEN 0 ELSE spent[c] + 1]
  /\ UNCHANGED <<alive, lock, resident, thread, client, update>>

-----------------------------------------------------------------------------
Next ==
  \/ GenerationStarts \/ GenerationEnds
  \/ \E c \in Clients :
       \/ Refused(c) \/ GateFree(c) \/ GateCloses(c)
       \/ Locks(c) \/ LockTimesOut(c) \/ Parked(c) \/ ParkFails(c)
       \/ BeginUpdate(c) \/ BeginUninstall(c) \/ Declines(c) \/ Ask(c) \/ GivesUp(c)
       \/ Stop(c) \/ StopFails(c) \/ Install(c) \/ InstallFails(c)
       \/ Replace(c) \/ ReplaceFails(c) \/ Commit(c) \/ RollBack(c) \/ Survives(c)
       \/ Reinstall(c) \/ Restore(c) \/ RecoveryFails(c) \/ Cancel(c) \/ Killed(c)
  \/ PipEnds \/ Serve
  \/ Tick

Spec == Init /\ [][Next]_vars

\* The proxy's threads and the clients run, and time does not stand still.
ThreadStep(c) ==
  \/ Refused(c) \/ GateFree(c) \/ GateCloses(c) \/ Locks(c) \/ LockTimesOut(c)
  \/ Parked(c) \/ ParkFails(c)

ClientStep(c) ==
  \/ Declines(c) \/ Ask(c) \/ GivesUp(c) \/ Stop(c) \/ StopFails(c) \/ Install(c)
  \/ InstallFails(c) \/ Replace(c) \/ ReplaceFails(c) \/ Commit(c) \/ RollBack(c)
  \/ Survives(c) \/ Reinstall(c) \/ Restore(c) \/ RecoveryFails(c) \/ Cancel(c)

FairSpec ==
  /\ Spec
  /\ SF_vars(Tick)
  /\ \A c \in Clients : WF_vars(ThreadStep(c)) /\ WF_vars(ClientStep(c))

-----------------------------------------------------------------------------
(* Properties. *)

\* The shape of the state: the proxy, its threads, the clients.
TypeOK ==
  /\ alive \in BOOLEAN
  /\ lease \in 0..Lease
  /\ lock = {} \/ lock = {"generation"} \/ \E c \in Clients : lock = {c}
  /\ resident \in {"none", "unsaved", "saved"}
  /\ thread \in [Clients -> {"none", "asked", "closing", "waiting", "parking"}]
  /\ waited \in [Clients -> 0..(WaitLimit + ParkLimit)]
  /\ client \in [Clients -> {"idle", "begun", "asked", "prepared", "stopped", "installed",
                             "replaced", "rollback", "restoring", "cancel"}]
  /\ spent \in [Clients -> 0..(ReplyLimit + WorkLimit)]
  /\ job \in [update: BOOLEAN, proxy: BOOLEAN]
  /\ record \in [state: {"none", "preparing", "installing", "complete", "rolled_back", "failed",
                        "maintenance_pending", "recovery_required"},
                 previous: 0..Latest, version: 0..Latest]
  /\ {package, running, pip} \subseteq 0..Latest

\* A coordinated stop cuts no reply off, and costs no conversation the turns
\* since its last save: the gate holds from the reply to prepare-update until
\* the proxy is stopped, whatever earlier callers' threads still do.
StopsAreClean ==
  [][alive /\ ~alive' => lock # {"generation"} /\ resident # "unsaved"]_vars

\* update.json says what is installed and running ("rolled_back only when recovery
\* succeeds"), and an update that reports no need of recovery leaves a proxy where it
\* found one, over kills, failures and later updates.
OutcomeIsTrue ==
  /\ record.state \in {"complete", "maintenance_pending"} => package = record.version
  /\ record.state \in {"rolled_back", "failed"} => package = record.previous
  /\ record.state \in {"complete", "maintenance_pending", "rolled_back"} /\ alive => running = package
  /\ /\ record.state \in {"complete", "maintenance_pending", "rolled_back", "failed"}
     /\ job.update /\ job.proxy
     => alive

\* However an update ends, and if its client dies anywhere, a proxy that is
\* running takes new requests again, or is stopped.
GateReopens == alive /\ lease > 0 ~> ~alive \/ lease = 0
=============================================================================
