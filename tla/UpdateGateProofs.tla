-------------------------- MODULE UpdateGateProofs --------------------------
(***************************************************************************)
(* For every number of clients, every lease and every combination of       *)
(* faults: a stop is clean when a client is answered and done, and a       *)
(* conversation parked, before the lease runs out; and update.json is true *)
(* unless a pip outlives its client.                                       *)
(*                                                                         *)
(* The argument for the stops adds up times.  A thread that has closed the *)
(* gate has not been there for longer than a lease, so the gate is still   *)
(* its own and no other thread closes or opens it; its client's timer says *)
(* how much of the lease the client has left.  The argument for            *)
(* update.json is that one client works at a time, so what it last wrote   *)
(* and what it has done since are known at each of its steps.              *)
(***************************************************************************)
EXTENDS UpdateGate, TLAPS

-----------------------------------------------------------------------------
(* The shape of the state, in parts *)

LockStates == {{}, {"generation"}} \cup {{c} : c \in Clients}

ProxyTyped ==
  /\ alive \in BOOLEAN
  /\ lease \in 0..Lease
  /\ lock \in LockStates
  /\ resident \in {"none", "unsaved", "saved"}

ThreadStates == {"none", "asked", "closing", "waiting", "parking"}

ThreadsTyped ==
  /\ thread \in [Clients -> ThreadStates]
  /\ waited \in [Clients -> 0..(WaitLimit + ParkLimit)]

ClientStates == {"idle", "begun", "asked", "prepared", "stopped", "installed",
                 "replaced", "rollback", "restoring", "cancel"}

ClientsTyped ==
  /\ client \in [Clients -> ClientStates]
  /\ spent \in [Clients -> 0..(ReplyLimit + WorkLimit)]

RecordStates == {"none", "preparing", "installing", "complete", "rolled_back", "failed",
                 "maintenance_pending", "recovery_required"}

UpdateTyped ==
  /\ job \in [update: BOOLEAN, proxy: BOOLEAN]
  /\ record \in [state: RecordStates, previous: 0..Latest, version: 0..Latest]
  /\ package \in 0..Latest
  /\ running \in 0..Latest
  /\ pip \in 0..Latest

\* TypeOK and its parts say the same, of a state ...
LEMMA Parts == TypeOK <=> ProxyTyped /\ ThreadsTyped /\ ClientsTyped /\ UpdateTyped
BY
   DEF TypeOK, ProxyTyped, LockStates, ThreadsTyped, ThreadStates, ClientsTyped, ClientStates,
       UpdateTyped, RecordStates

\* ... and of the one after a step.
LEMMA PartsAfter == TypeOK' <=> ProxyTyped' /\ ThreadsTyped' /\ ClientsTyped' /\ UpdateTyped'
BY
   DEF TypeOK, ProxyTyped, LockStates, ThreadsTyped, ThreadStates, ClientsTyped, ClientStates,
       UpdateTyped, RecordStates

USE DEF proxy, threads, clients, installation, update

\* The limits are numbers.
LEMMA Limits ==
  {Lease, WaitLimit, ReplyLimit, ParkLimit, WorkLimit, Latest} \subseteq Nat \ {0}
BY GateAssumption

\* A lease that begins, or ends, has a proper length.
LEMMA Leases == 0 \in 0..Lease /\ Lease \in 0..Lease
BY Limits

\* A thread that moves has a proper place.
LEMMA ThreadMoves ==
  ASSUME ThreadsTyped, NEW c \in Clients, NEW to \in ThreadStates, ThreadGoes(c, to)
  PROVE  ThreadsTyped'
BY Limits DEF ThreadsTyped, ThreadGoes

\* A client that moves has a proper place.
LEMMA ClientMoves ==
  ASSUME ClientsTyped, NEW c \in Clients, NEW to \in ClientStates, ClientGoes(c, to)
  PROVE  ClientsTyped'
BY Limits DEF ClientsTyped, ClientGoes

\* update.json keeps its shape when its state is set.
LEMMA Written ==
  ASSUME UpdateTyped, NEW s \in RecordStates
  PROVE  [record EXCEPT !.state = s] \in
           [state: RecordStates, previous: 0..Latest, version: 0..Latest]
BY DEF UpdateTyped

\* So do client and update.json when a client ends.
LEMMA ClientEnds ==
  ASSUME ClientsTyped, UpdateTyped, NEW c \in Clients, NEW s \in RecordStates, Ends(c, s)
  PROVE  /\ ClientsTyped'
         /\ record' \in [state: RecordStates, previous: 0..Latest, version: 0..Latest]
<1>1. ClientsTyped'
  BY ClientMoves DEF Ends, ClientStates
<1>2. QED
  BY <1>1 DEF Ends, UpdateTyped

\* So do they when a client gets its answer.
LEMMA Replies ==
  ASSUME ClientsTyped, UpdateTyped, NEW c \in Clients, NEW ready \in BOOLEAN, Reply(c, ready),
         UNCHANGED <<job, installation>>
  PROVE  ClientsTyped' /\ UpdateTyped'
<1>1. CASE client[c] # "asked"
  BY <1>1 DEF Reply, ClientsTyped, UpdateTyped
<1>2. CASE client[c] = "asked" /\ ready
  BY <1>2, ClientMoves DEF Reply, ClientStates, UpdateTyped
<1>3. CASE client[c] = "asked" /\ ~ready
  BY <1>3, ClientEnds DEF Reply, RecordStates, UpdateTyped
<1>4. QED
  BY <1>1, <1>2, <1>3

\* Nothing is left of the threads of a process that is gone.
LEMMA Empty ==
  ASSUME NoThreads
  PROVE  ThreadsTyped' /\ lock' = {} /\ resident' = "none"
BY Limits DEF NoThreads, ThreadsTyped, ThreadStates

\* At the start everything has its shape.
LEMMA InitTyped == Init => TypeOK
<1>1. ASSUME Init PROVE ProxyTyped /\ ThreadsTyped /\ ClientsTyped
  BY <1>1, Limits
     DEF Init, ProxyTyped, LockStates, ThreadsTyped, ThreadStates, ClientsTyped, ClientStates
<1>2. ASSUME Init PROVE UpdateTyped
  BY <1>2, Limits DEF Init, UpdateTyped, RecordStates
<1>3. QED
  BY <1>1, <1>2, Parts

\* Generations, a new proxy and a pip alone keep the shape.
LEMMA ProxyStepTyped ==
  ASSUME TypeOK, GenerationStarts \/ GenerationEnds \/ PipEnds \/ Serve \/ UNCHANGED vars
  PROVE  TypeOK'
<1>1. ProxyTyped /\ ThreadsTyped /\ ClientsTyped /\ UpdateTyped
  BY Parts
<1>2. ThreadsTyped' /\ ClientsTyped'
  BY <1>1 DEF ThreadsTyped, ClientsTyped, GenerationStarts, GenerationEnds, PipEnds, Serve, vars
<1>3. CASE GenerationStarts \/ GenerationEnds \/ UNCHANGED vars
  <2>1. UpdateTyped'
    BY <1>1, <1>3 DEF UpdateTyped, GenerationStarts, GenerationEnds, vars
  <2>2. CASE GenerationStarts \/ GenerationEnds
    BY <1>1, <1>2, <2>1, <2>2, PartsAfter
       DEF ProxyTyped, LockStates, GenerationStarts, GenerationEnds
  <2>3. CASE UNCHANGED vars
    <3>1. UNCHANGED <<alive, lease, lock, resident>>
      BY <2>3 DEF vars
    <3>2. QED
      BY <1>1, <1>2, <2>1, <3>1, PartsAfter DEF ProxyTyped
  <2>4. QED
    BY <1>3, <2>2, <2>3
<1>4. CASE PipEnds \/ Serve
  <2>1. ProxyTyped'
    <3>1. CASE PipEnds
      BY <1>1, <3>1 DEF ProxyTyped, PipEnds
    <3>2. CASE Serve
      BY <1>1, <3>2, Limits DEF ProxyTyped, Serve
    <3>3. QED
      BY <1>4, <3>1, <3>2
  <2>2. UpdateTyped'
    BY <1>1, <1>4, Limits DEF UpdateTyped, PipEnds, Serve
  <2>3. QED
    BY <1>2, <2>1, <2>2, PartsAfter
<1>5. QED
  BY <1>3, <1>4

\* Time keeps the shape: it waits for what is at its limit.
LEMMA TickTyped ==
  ASSUME TypeOK, Tick
  PROVE  TypeOK'
<1>1. ProxyTyped /\ ThreadsTyped /\ ClientsTyped /\ UpdateTyped
  BY Parts
<1>2. ThreadsTyped'
  BY <1>1, Limits DEF ThreadsTyped, Tick, ThreadLimit
<1>3. ClientsTyped'
  BY <1>1, Limits DEF ClientsTyped, Tick, ClientLimit
<1>4. ProxyTyped'
  <2>1. lease' \in 0..Lease
    BY <1>1, Limits DEF ProxyTyped, Tick
  <2>2. QED
    BY <1>1, <2>1 DEF ProxyTyped, Tick
<1>5. UpdateTyped'
  BY <1>1 DEF UpdateTyped, Tick
<1>6. QED
  BY <1>2, <1>3, <1>4, <1>5, PartsAfter

\* The proxy's threads keep the shape.
LEMMA ThreadStepTyped ==
  ASSUME TypeOK, NEW c \in Clients, ThreadStep(c)
  PROVE  TypeOK'
<1>1. ProxyTyped /\ ThreadsTyped /\ ClientsTyped /\ UpdateTyped
  BY Parts
<1>2. ThreadsTyped'
  BY <1>1, ThreadMoves
     DEF ThreadStep, Refused, GateFree, GateCloses, Locks, LockTimesOut, Parked, ParkFails,
         ThreadStates
<1>3. ProxyTyped'
  <2>1. alive' \in BOOLEAN /\ resident' \in {"none", "unsaved", "saved"}
    BY <1>1
       DEF ThreadStep, Refused, GateFree, GateCloses, Locks, LockTimesOut, Parked, ParkFails,
           ProxyTyped
  <2>2. lease' \in 0..Lease
    BY <1>1, Leases
       DEF ThreadStep, Refused, GateFree, GateCloses, Locks, LockTimesOut, Parked, ParkFails,
           ProxyTyped
  <2>3. lock' \in {lock, {}, {c}}
    <3>1. CASE Refused(c) \/ GateFree(c) \/ GateCloses(c) \/ LockTimesOut(c)
      BY <3>1 DEF Refused, GateFree, GateCloses, LockTimesOut
    <3>2. CASE Locks(c) \/ Parked(c) \/ ParkFails(c)
      BY <3>2 DEF Locks, Parked, ParkFails
    <3>3. QED
      BY <3>1, <3>2 DEF ThreadStep
  <2>4. QED
    BY <1>1, <2>1, <2>2, <2>3 DEF ProxyTyped, LockStates
<1>4. CASE GateFree(c) \/ GateCloses(c) \/ Locks(c)
  BY <1>1, <1>2, <1>3, <1>4, PartsAfter DEF GateFree, GateCloses, Locks, ClientsTyped, UpdateTyped
<1>5. CASE Refused(c) \/ LockTimesOut(c) \/ Parked(c) \/ ParkFails(c)
  BY <1>1, <1>2, <1>3, <1>5, Replies, PartsAfter DEF Refused, LockTimesOut, Parked, ParkFails
<1>6. QED
  BY <1>4, <1>5 DEF ThreadStep
\* Clients keep the shape.
LEMMA ClientStepTyped ==
  ASSUME TypeOK, NEW c \in Clients,
         ClientStep(c) \/ BeginUpdate(c) \/ BeginUninstall(c) \/ Killed(c)
  PROVE  TypeOK'
<1>1. ProxyTyped /\ ThreadsTyped /\ ClientsTyped /\ UpdateTyped
  BY Parts
<1>2. CASE BeginUpdate(c)
  <2>1. ProxyTyped' /\ ThreadsTyped' /\ ClientsTyped'
    BY <1>1, <1>2, ClientMoves DEF BeginUpdate, Begin, ProxyTyped, ThreadsTyped, ClientStates
  <2>2. UpdateTyped'
    BY <1>1, <1>2, Limits DEF BeginUpdate, Begin, UpdateTyped, ProxyTyped, RecordStates
  <2>3. QED
    BY <2>1, <2>2, PartsAfter
<1>3. CASE BeginUninstall(c)
  <2>1. ProxyTyped' /\ ThreadsTyped' /\ ClientsTyped'
    BY <1>1, <1>3, ClientMoves DEF BeginUninstall, Begin, ProxyTyped, ThreadsTyped, ClientStates
  <2>2. UpdateTyped'
    BY <1>1, <1>3 DEF BeginUninstall, Begin, UpdateTyped
  <2>3. QED
    BY <2>1, <2>2, PartsAfter
<1>4. CASE Declines(c) \/ GivesUp(c) \/ Survives(c)
  <2>1. ProxyTyped' /\ ThreadsTyped'
    BY <1>1, <1>4 DEF Declines, GivesUp, Survives, ProxyTyped, ThreadsTyped
  <2>2. ClientsTyped' /\ UpdateTyped'
    BY <1>1, <1>4, ClientEnds DEF Declines, GivesUp, Survives, UpdateTyped, RecordStates
  <2>3. QED
    BY <2>1, <2>2, PartsAfter
<1>5. CASE Ask(c)
  <2>1. ProxyTyped' /\ UpdateTyped'
    BY <1>1, <1>5 DEF Ask, ProxyTyped, UpdateTyped
  <2>2. ThreadsTyped' /\ ClientsTyped'
    BY <1>1, <1>5, ThreadMoves, ClientMoves DEF Ask, ThreadStates, ClientStates
  <2>3. QED
    BY <2>1, <2>2, PartsAfter
<1>6. CASE Stop(c)
  <2>1. ProxyTyped' /\ ThreadsTyped' /\ ClientsTyped'
    <3>1. /\ alive' = FALSE /\ lease' = 0 /\ lock' = {} /\ resident' = "none"
          /\ ThreadsTyped'
      BY <1>6, Empty DEF Stop
    <3>2. ClientsTyped'
      BY <1>1, <1>6, ClientMoves DEF Stop, ClientStates
    <3>3. QED
      BY <3>1, <3>2, Leases DEF ProxyTyped, LockStates
  <2>2. UpdateTyped'
    BY <1>1, <1>6 DEF Stop, UpdateTyped, RecordStates
  <2>3. QED
    BY <2>1, <2>2, PartsAfter
<1>7. CASE RollBack(c)
  <2>1. ProxyTyped' /\ ThreadsTyped' /\ ClientsTyped'
    <3>1. /\ alive' = FALSE /\ lease' = 0 /\ lock' = {} /\ resident' = "none"
          /\ ThreadsTyped'
      BY <1>7, Empty DEF RollBack
    <3>2. ClientsTyped'
      BY <1>1, <1>7, ClientMoves DEF RollBack, ClientStates
    <3>3. QED
      BY <3>1, <3>2, Leases DEF ProxyTyped, LockStates
  <2>2. UpdateTyped'
    BY <1>1, <1>7 DEF RollBack, UpdateTyped
  <2>3. QED
    BY <2>1, <2>2, PartsAfter
<1>8. CASE StopFails(c) \/ ReplaceFails(c)
  <2>1. ProxyTyped' /\ ThreadsTyped' /\ UpdateTyped'
    BY <1>1, <1>8 DEF StopFails, ReplaceFails, ProxyTyped, ThreadsTyped, UpdateTyped
  <2>2. ClientsTyped'
    BY <1>1, <1>8, ClientMoves DEF StopFails, ReplaceFails, ClientStates
  <2>3. QED
    BY <2>1, <2>2, PartsAfter
<1>9. CASE Install(c) \/ InstallFails(c)
  <2>1. ProxyTyped' /\ ThreadsTyped'
    BY <1>1, <1>9 DEF Install, InstallFails, ProxyTyped, ThreadsTyped
  <2>2. ClientsTyped'
    BY <1>1, <1>9, ClientMoves DEF Install, InstallFails, ClientStates
  <2>3. UpdateTyped'
    BY <1>1, <1>9, Limits DEF Install, InstallFails, UpdateTyped
  <2>4. QED
    BY <2>1, <2>2, <2>3, PartsAfter
<1>10. CASE Replace(c) \/ Restore(c)
  <2>1. ProxyTyped' /\ ThreadsTyped' /\ UpdateTyped'
    <3>1. Starts
      BY <1>10 DEF Replace, Restore
    <3>2. ThreadsTyped' /\ UpdateTyped'
      BY <1>1, <3>1 DEF Starts, ThreadsTyped, UpdateTyped
    <3>3. QED
      BY <1>1, <3>1, <3>2, Limits DEF Starts, ProxyTyped
  <2>2. ClientsTyped'
    BY <1>1, <1>10, ClientMoves DEF Replace, Restore, ClientStates
  <2>3. QED
    BY <2>1, <2>2, PartsAfter
<1>11. CASE Commit(c)
  <2>1. ProxyTyped' /\ ThreadsTyped'
    BY <1>1, <1>11 DEF Commit, ProxyTyped, ThreadsTyped
  <2>2. ClientsTyped'
    BY <1>1, <1>11, ClientMoves, ClientEnds DEF Commit, ClientStates, RecordStates
  <2>3. UpdateTyped'
    BY <1>1, <1>11 DEF Commit, Ends, UpdateTyped, RecordStates
  <2>4. QED
    BY <2>1, <2>2, <2>3, PartsAfter
<1>12. CASE Reinstall(c)
  <2>1. ProxyTyped' /\ ThreadsTyped'
    BY <1>1, <1>12 DEF Reinstall, ProxyTyped, ThreadsTyped
  <2>2. ClientsTyped'
    BY <1>1, <1>12, ClientMoves DEF Reinstall, Ends, ClientStates
  <2>3. UpdateTyped'
    BY <1>1, <1>12 DEF Reinstall, Ends, Undone, UpdateTyped, RecordStates
  <2>4. QED
    BY <2>1, <2>2, <2>3, PartsAfter
<1>13. CASE RecoveryFails(c)
  <2>1. ProxyTyped' /\ ThreadsTyped'
    BY <1>1, <1>13 DEF RecoveryFails, ProxyTyped, ThreadsTyped
  <2>2. ClientsTyped'
    BY <1>1, <1>13, ClientMoves DEF RecoveryFails, Ends, ClientStates
  <2>3. UpdateTyped'
    BY <1>1, <1>13, Limits DEF RecoveryFails, Ends, UpdateTyped, RecordStates
  <2>4. QED
    BY <2>1, <2>2, <2>3, PartsAfter
<1>14. CASE Cancel(c)
  <2>1. ProxyTyped' /\ ThreadsTyped'
    BY <1>1, <1>14, Limits DEF Cancel, ProxyTyped, ThreadsTyped
  <2>2. ClientsTyped'
    BY <1>1, <1>14, ClientMoves DEF Cancel, Ends, ClientStates
  <2>3. UpdateTyped'
    BY <1>1, <1>14 DEF Cancel, Ends, Undone, UpdateTyped, RecordStates
  <2>4. QED
    BY <2>1, <2>2, <2>3, PartsAfter
<1>15. CASE Killed(c)
  <2>1. ProxyTyped' /\ ThreadsTyped'
    BY <1>1, <1>15 DEF Killed, ProxyTyped, ThreadsTyped
  <2>2. ClientsTyped'
    BY <1>1, <1>15, ClientMoves DEF Killed, ClientStates
  <2>3. UpdateTyped'
    BY <1>1, <1>15 DEF Killed, UpdateTyped
  <2>4. QED
    BY <2>1, <2>2, <2>3, PartsAfter
<1>16. QED
  BY <1>2, <1>3, <1>4, <1>5, <1>6, <1>7, <1>8, <1>9, <1>10, <1>11, <1>12, <1>13, <1>14, <1>15
     DEF ClientStep

\* Whose step a step can be.
LEMMA NextSteps ==
  ASSUME [Next]_vars
  PROVE  \/ GenerationStarts \/ GenerationEnds \/ PipEnds \/ Serve \/ UNCHANGED vars
         \/ Tick
         \/ \E c \in Clients : ThreadStep(c)
         \/ \E c \in Clients : ClientStep(c) \/ BeginUpdate(c) \/ BeginUninstall(c) \/ Killed(c)
BY DEF Next, ThreadStep, ClientStep

\* The shape of the state, for every number of clients and every limit.
THEOREM TypeCorrect == Spec => []TypeOK
<1>1. ASSUME TypeOK, [Next]_vars PROVE TypeOK'
  BY <1>1, NextSteps, ProxyStepTyped, TickTyped, ThreadStepTyped, ClientStepTyped
<1>2. QED
  BY InitTyped, <1>1, PTL DEF Spec

-----------------------------------------------------------------------------
(* update.json *)

\* The start lock lets one client work at a time.
OneAtWork == \A c, d \in Clients : client[c] # "idle" /\ client[d] # "idle" => c = d

\* What update.json, the package and the proxy are while a client works.
Consistent(c) ==
  /\ client[c] \in {"begun", "asked", "prepared"} =>
       alive /\ job.proxy /\ (job.update => record.state = "preparing" /\ package = record.previous)
  /\ client[c] \in {"stopped", "installed", "replaced", "rollback", "restoring"} =>
       job.update /\ record.state = "installing" /\ (alive <=> client[c] = "replaced")
  /\ client[c] \in {"stopped", "restoring"} => package = record.previous
  /\ client[c] \in {"installed", "replaced"} => package = record.version
  /\ client[c] \in {"replaced", "restoring"} => job.proxy
  /\ client[c] = "replaced" => running = package
  /\ client[c] = "cancel" =>
       /\ alive /\ job.proxy
       /\ job.update => \/ record.state = "preparing" /\ package = record.previous
                        \/ record.state = "installing" /\ package = record.previous /\ running = package
                        \/ record.state = "complete" /\ package = record.version /\ running = package

\* A pip that has lost its client left an update half-way.
PipAlone == pip # 0 => record.state = "installing" /\ \A c \in Clients : client[c] = "idle"

\* The inductive invariant of update.json.
RecordInv ==
  /\ OneAtWork
  /\ \A c \in Clients : Consistent(c)
  /\ PipAlone
  /\ OutcomeIsTrue

\* As one client works at a time, its step needs to be looked at for itself alone.
LEMMA Others ==
  ASSUME OneAtWork, NEW c \in Clients,
         client[c] # "idle" \/ \A d \in Clients : client[d] = "idle",
         \A d \in Clients : d # c => client'[d] = client[d],
         Consistent(c)', PipAlone', OutcomeIsTrue'
  PROVE  RecordInv'
<1>1. \A d \in Clients : d # c => client'[d] = "idle"
  BY DEF OneAtWork
<1>2. OneAtWork'
  BY <1>1 DEF OneAtWork
<1>3. \A d \in Clients : Consistent(d)'
  BY <1>1 DEF Consistent
<1>4. QED
  BY <1>2, <1>3 DEF RecordInv

\* Setting the state of update.json leaves its versions alone.
LEMMA Settled ==
  ASSUME UpdateTyped, NEW s
  PROVE  /\ [record EXCEPT !.state = s].state = s
         /\ [record EXCEPT !.state = s].previous = record.previous
         /\ [record EXCEPT !.state = s].version = record.version
BY DEF UpdateTyped

\* Where clients are after one has moved.
LEMMA ClientAt ==
  ASSUME ClientsTyped, NEW c \in Clients, NEW to, ClientGoes(c, to)
  PROVE  client'[c] = to /\ \A d \in Clients : d # c => client'[d] = client[d]
BY DEF ClientsTyped, ClientGoes

\* What update.json says, and where clients are, after one has ended.
LEMMA EndsAt ==
  ASSUME ClientsTyped, UpdateTyped, NEW c \in Clients, NEW s, Ends(c, s)
  PROVE  /\ client'[c] = "idle" /\ \A d \in Clients : d # c => client'[d] = client[d]
         /\ ~job.update => record' = record
         /\ job.update => record'.state = s
         /\ record'.previous = record.previous /\ record'.version = record.version
BY ClientAt DEF Ends

\* At the start update.json says nothing.
LEMMA RecordInit == Init => RecordInv
BY DEF Init, RecordInv, OneAtWork, Consistent, PipAlone, OutcomeIsTrue

\* Only a surviving pip changes the package alone, and it leaves nothing said.
LEMMA RecordProxySteps ==
  ASSUME "pip" \notin Faults, TypeOK, RecordInv,
         GenerationStarts \/ GenerationEnds \/ PipEnds \/ Serve \/ UNCHANGED vars \/ Tick
  PROVE  RecordInv'
<1>1. CASE GenerationStarts \/ GenerationEnds \/ UNCHANGED vars \/ Tick
  <2>1. UNCHANGED <<alive, client, job, record, package, running, pip>>
    BY <1>1 DEF GenerationStarts, GenerationEnds, vars, Tick
  <2>2. QED
    BY <2>1 DEF RecordInv, OneAtWork, Consistent, PipAlone, OutcomeIsTrue
<1>2. CASE PipEnds
  BY <1>2 DEF PipEnds, RecordInv, OneAtWork, Consistent, PipAlone, OutcomeIsTrue
<1>3. CASE Serve
  BY <1>3 DEF Serve, RecordInv, OneAtWork, Consistent, PipAlone, OutcomeIsTrue
<1>4. QED
  BY <1>1, <1>2, <1>3

\* An answer moves its client on, or ends it before it has done anything.
LEMMA RecordThreadSteps ==
  ASSUME TypeOK, RecordInv, NEW c \in Clients, ThreadStep(c)
  PROVE  RecordInv'
<1>1. ClientsTyped /\ UpdateTyped
  BY Parts
<1>2. UNCHANGED <<alive, job, package, running, pip>>
  BY DEF ThreadStep, Refused, GateFree, GateCloses, Locks, LockTimesOut, Parked, ParkFails
<1>3. CASE UNCHANGED <<client, record>>
  BY <1>2, <1>3 DEF RecordInv, OneAtWork, Consistent, PipAlone, OutcomeIsTrue
<1>4. CASE client[c] = "asked" /\ client'[c] = "prepared" /\ UNCHANGED record
           /\ \A d \in Clients : d # c => client'[d] = client[d]
  <2>1. Consistent(c)' /\ PipAlone' /\ OutcomeIsTrue'
    BY <1>2, <1>4 DEF RecordInv, Consistent, PipAlone, OutcomeIsTrue
  <2>2. QED
    BY <1>4, <2>1, Others DEF RecordInv
<1>5. CASE client[c] = "asked" /\ Ends(c, "failed")
  <2>1. client'[c] = "idle" /\ \A d \in Clients : d # c => client'[d] = client[d]
    BY <1>1, <1>5, EndsAt
  <2>2. Consistent(c)' /\ PipAlone' /\ OutcomeIsTrue'
    BY <1>1, <1>2, <1>5, EndsAt DEF RecordInv, Consistent, PipAlone, OutcomeIsTrue
  <2>3. QED
    BY <1>5, <2>1, <2>2, Others DEF RecordInv
<1>6. QED
  BY <1>1, <1>3, <1>4, <1>5, ClientAt
     DEF ThreadStep, Refused, GateFree, GateCloses, Locks, LockTimesOut, Parked, ParkFails,
         Reply

\* What a client writes is what it has done.
LEMMA RecordClientSteps ==
  ASSUME "pip" \notin Faults, TypeOK, RecordInv, NEW c \in Clients,
         ClientStep(c) \/ BeginUpdate(c) \/ BeginUninstall(c) \/ Killed(c)
  PROVE  RecordInv'
<1> USE DEF RecordInv, Consistent, PipAlone, OutcomeIsTrue
<1>1. ClientsTyped /\ UpdateTyped
  BY Parts
<1>2. CASE BeginUpdate(c)
  BY <1>1, <1>2, ClientAt, Others DEF BeginUpdate, Begin, PipIsOver
<1>3. CASE BeginUninstall(c)
  BY <1>1, <1>3, ClientAt, Others DEF BeginUninstall, Begin, PipIsOver
<1>4. CASE Declines(c) \/ GivesUp(c) \/ Survives(c)
  BY <1>1, <1>4, EndsAt, Others DEF Declines, GivesUp, Survives
<1>5. CASE Ask(c)
  BY <1>1, <1>5, ClientAt, Others DEF Ask
<1>6. CASE Stop(c)
  BY <1>1, <1>6, ClientAt, Others DEF Stop
<1>7. CASE RollBack(c)
  BY <1>1, <1>7, ClientAt, Others DEF RollBack
<1>8. CASE StopFails(c) \/ ReplaceFails(c)
  BY <1>1, <1>8, ClientAt, Others DEF StopFails, ReplaceFails
<1>9. CASE Install(c) \/ InstallFails(c)
  BY <1>1, <1>9, ClientAt, Others DEF Install, InstallFails
<1>10. CASE Replace(c) \/ Restore(c)
  BY <1>1, <1>10, ClientAt, Others DEF Replace, Restore, Starts
<1>11. CASE Commit(c)
  <2>1. CASE client[c] = "replaced"
    <3>1. ClientGoes(c, "cancel") /\ record' = [record EXCEPT !.state = "complete"]
      BY <1>11, <2>1 DEF Commit
    <3>2. client'[c] = "cancel" /\ \A d \in Clients : d # c => client'[d] = client[d]
      BY <1>1, <3>1, ClientAt
    <3>3. record'.state = "complete" /\ record'.version = record.version
          /\ record'.previous = record.previous
      BY <1>1, <3>1
    <3>4. QED
      BY <1>11, <2>1, <3>2, <3>3, Others DEF Commit
  <2>2. CASE client[c] = "installed"
    BY <1>1, <1>11, <2>2, EndsAt, Others DEF Commit
  <2>3. QED
    BY <1>11, <2>1, <2>2 DEF Commit
<1>12. CASE Reinstall(c)
  BY <1>1, <1>12, ClientAt, EndsAt, Others DEF Reinstall, Undone
<1>13. CASE RecoveryFails(c)
  BY <1>1, <1>13, EndsAt, Others DEF RecoveryFails
<1>14. CASE Cancel(c)
  BY <1>1, <1>14, EndsAt, Others DEF Cancel, Undone
<1>15. CASE Killed(c)
  <2>1. client'[c] = "idle" /\ \A d \in Clients : d # c => client'[d] = client[d]
    BY <1>1, <1>15, ClientAt DEF Killed
  <2>2. client[c] # "idle" /\ UNCHANGED <<alive, job, record, running>>
    BY <1>15 DEF Killed
  <2>3. UNCHANGED <<package, pip>>
        \/ client[c] \in {"stopped", "rollback"}
    BY <1>15 DEF Killed
  <2>4. PipAlone' /\ OutcomeIsTrue'
    BY <2>1, <2>2, <2>3, <1>15 DEF Killed, OneAtWork
  <2>5. QED
    BY <2>1, <2>2, <2>4, Others
<1>16. QED
  BY <1>2, <1>3, <1>4, <1>5, <1>6, <1>7, <1>8, <1>9, <1>10, <1>11, <1>12, <1>13, <1>14, <1>15
     DEF ClientStep

\* Unless a pip outlives its client, what update.json says of the package and the
\* proxy is so, whatever fails and whoever is killed (updates.py: _apply).
THEOREM Outcome == ASSUME "pip" \notin Faults PROVE Spec => []OutcomeIsTrue
<1>1. ASSUME TypeOK, RecordInv, [Next]_vars PROVE RecordInv'
  BY <1>1, NextSteps, RecordProxySteps, RecordThreadSteps, RecordClientSteps
<1>2. RecordInv => OutcomeIsTrue
  BY DEF RecordInv
<1>3. QED
  BY RecordInit, TypeCorrect, <1>1, <1>2, PTL DEF Spec

-----------------------------------------------------------------------------
(* The gate *)

\* Where a thread has found the gate open.
Late == {"closing", "waiting", "parking"}

\* A thread that has closed the gate ends before its lease does, so that no other
\* thread has closed it since.
ThreadInv(c) ==
  /\ thread[c] \in {"asked", "closing"} => waited[c] = 0
  /\ thread[c] = "closing" => lease = 0
  /\ thread[c] = "waiting" => waited[c] <= WaitLimit /\ lease + waited[c] >= Lease
  /\ thread[c] = "parking" => waited[c] <= ParkLimit /\ lease + WaitLimit + waited[c] >= Lease
  /\ thread[c] = "parking" <=> lock = {c}
  /\ thread[c] # "none" => alive

\* The gate is closed for a client that relies on it, until it is through.
ClientInv(c) ==
  /\ client[c] # "idle" => spent[c] <= ClientLimit(c)
  /\ client[c] = "begun" => alive /\ thread[c] = "none"
  /\ client[c] = "asked" => thread[c] # "none"
  /\ client[c] = "asked" /\ thread[c] \in {"waiting", "parking"} =>
       lease + spent[c] >= Lease /\ \A d \in Clients : d # c => thread[d] = "none"
  /\ client[c] = "prepared" => lease + ReplyLimit + spent[c] >= Lease
  /\ client[c] = "replaced" => lease + spent[c] >= Lease
  /\ client[c] \in {"prepared", "replaced"} => lock = {} /\ resident # "unsaved"
  /\ client[c] \in {"stopped", "installed", "rollback", "restoring"} => ~alive
  /\ client[c] \notin {"idle", "begun", "asked"} => \A d \in Clients : thread[d] = "none"

\* One thread at a time tests the gate, and one at a time has it closed.
Apart ==
  \A c, d \in Clients :
    \/ thread[c] \in {"asked", "closing"} /\ thread[d] \in {"asked", "closing"}
    \/ thread[c] \in Late /\ thread[d] \in Late
    => c = d

\* The inductive invariant of the gate.
GateInv ==
  /\ OneAtWork
  /\ Apart
  /\ \A c \in Clients : ThreadInv(c) /\ ClientInv(c)
  /\ ~alive => lock = {} /\ resident = "none"

\* Who relies on the gate is through before its lease runs out.
InTime == ReplyLimit + WorkLimit < Lease /\ WaitLimit + ParkLimit < Lease

\* At the start nobody has closed the gate.
LEMMA GateInit == Init => GateInv
BY DEF Init, GateInv, OneAtWork, Apart, ThreadInv, ClientInv, Late

\* The lease of whoever relies on it has not run out.
LEMMA Leased ==
  ASSUME InTime, TypeOK, GateInv, NEW c \in Clients
  PROVE  /\ thread[c] \in {"waiting", "parking"} => lease > 0
         /\ client[c] \in {"prepared", "replaced"} => lease > 0
<1>1. ProxyTyped /\ ThreadsTyped /\ ClientsTyped
  BY Parts
<1>2. QED
  BY <1>1, Limits
     DEF InTime, GateInv, ThreadInv, ClientInv, ClientLimit, ProxyTyped, ThreadsTyped,
         ClientsTyped

\* Time takes from a lease what it adds to the timers.
LEMMA GateTick ==
  ASSUME InTime, TypeOK, GateInv, Tick
  PROVE  GateInv'
<1>1. ProxyTyped /\ ThreadsTyped /\ ClientsTyped
  BY Parts
<1>2. OneAtWork' /\ Apart' /\ (~alive' => lock' = {} /\ resident' = "none")
  BY DEF Tick, GateInv, OneAtWork, Apart
<1>3. ASSUME NEW c \in Clients PROVE ThreadInv(c)'
  BY <1>1, <1>3, Limits DEF Tick, GateInv, ThreadInv, ThreadLimit, ProxyTyped, ThreadsTyped
<1>4. ASSUME NEW c \in Clients PROVE ClientInv(c)'
  BY <1>1, <1>4, Limits DEF Tick, GateInv, ClientInv, ClientLimit, ProxyTyped, ClientsTyped
<1>5. QED
  BY <1>2, <1>3, <1>4 DEF GateInv

\* No generation starts while the gate is closed.
LEMMA GateProxySteps ==
  ASSUME InTime, TypeOK, GateInv,
         GenerationStarts \/ GenerationEnds \/ PipEnds \/ Serve \/ UNCHANGED vars
  PROVE  GateInv'
<1>1. ProxyTyped /\ ThreadsTyped /\ ClientsTyped
  BY Parts
<1>2. UNCHANGED <<thread, waited, client, spent>>
  BY DEF GenerationStarts, GenerationEnds, PipEnds, Serve, vars
<1>3. OneAtWork' /\ Apart'
  BY <1>2 DEF GateInv, OneAtWork, Apart
<1>4. CASE GenerationStarts \/ GenerationEnds
  BY <1>1, <1>2, <1>3, <1>4, Leased, GateAssumption
     DEF GenerationStarts, GenerationEnds, GateInv, ThreadInv, ClientInv, ClientLimit
<1>5. CASE Serve
  BY <1>1, <1>2, <1>3, <1>5 DEF Serve, GateInv, ThreadInv, ClientInv, ClientLimit
<1>6. CASE PipEnds \/ UNCHANGED vars
  <2>1. UNCHANGED <<alive, lease, lock, resident>>
    BY <1>6 DEF PipEnds, vars
  <2>2. QED
    BY <1>2, <1>3, <2>1 DEF GateInv, ThreadInv, ClientInv, ClientLimit
<1>7. QED
  BY <1>4, <1>5, <1>6

\* Where threads are after one has moved.
LEMMA ThreadAt ==
  ASSUME ThreadsTyped, NEW c \in Clients, NEW to, ThreadGoes(c, to)
  PROVE  /\ thread'[c] = to /\ waited'[c] = 0
         /\ \A d \in Clients : d # c => thread'[d] = thread[d] /\ waited'[d] = waited[d]
BY DEF ThreadsTyped, ThreadGoes

\* Where clients are, and for how long, after one has moved.
LEMMA SpentAt ==
  ASSUME ClientsTyped, NEW c \in Clients, NEW to, ClientGoes(c, to)
  PROVE  /\ client'[c] = to /\ spent'[c] = 0
         /\ \A d \in Clients : d # c => client'[d] = client[d] /\ spent'[d] = spent[d]
BY DEF ClientsTyped, ClientGoes

\* Where clients are after a thread has answered.
LEMMA ReplyAt ==
  ASSUME ClientsTyped, NEW c \in Clients, NEW ready \in BOOLEAN, Reply(c, ready)
  PROVE  /\ \A d \in Clients : d # c => client'[d] = client[d] /\ spent'[d] = spent[d]
         /\ client[c] # "asked" => client'[c] = client[c] /\ spent'[c] = spent[c]
         /\ client[c] = "asked" =>
              client'[c] = (IF ready THEN "prepared" ELSE "idle") /\ spent'[c] = 0
BY SpentAt DEF Reply, Ends

\* A thread closes and opens the gate only when it is the only one to do so.
LEMMA GateThreadSteps ==
  ASSUME InTime, TypeOK, GateInv, NEW c \in Clients, ThreadStep(c)
  PROVE  GateInv'
<1> USE DEF GateInv, OneAtWork, Apart, Late, ThreadInv, ClientInv, ClientLimit
<1>1. ProxyTyped /\ ThreadsTyped /\ ClientsTyped
  BY Parts
<1>2. CASE Refused(c)
  <2>1. /\ thread'[c] = "none" /\ waited'[c] = 0
        /\ \A d \in Clients : d # c => thread'[d] = thread[d] /\ waited'[d] = waited[d]
    BY <1>1, <1>2, ThreadAt DEF Refused
  <2>2. /\ \A d \in Clients : d # c => client'[d] = client[d] /\ spent'[d] = spent[d]
        /\ IF client[c] = "asked" THEN client'[c] = "idle" /\ spent'[c] = 0
           ELSE client'[c] = client[c] /\ spent'[c] = spent[c]
    BY <1>1, <1>2, ReplyAt DEF Refused
  <2>3. OneAtWork' /\ Apart' /\ (~alive' => lock' = {} /\ resident' = "none")
    BY <1>1, <1>2, <2>1, <2>2 DEF Refused
  <2>4. ASSUME NEW d \in Clients PROVE ThreadInv(d)'
    BY <1>1, <1>2, <2>1, <2>4 DEF Refused
  <2>5. ASSUME NEW d \in Clients PROVE ClientInv(d)'
    BY <1>1, <1>2, <2>1, <2>2, <2>5 DEF Refused
  <2>6. QED
    BY <2>3, <2>4, <2>5
<1>3. CASE GateFree(c)
  BY <1>1, <1>3, ThreadAt, Leased DEF GateFree
<1>4. CASE GateCloses(c)
  <2>1. /\ thread'[c] = "waiting" /\ waited'[c] = 0
        /\ \A d \in Clients : d # c => thread'[d] = thread[d] /\ waited'[d] = waited[d]
    BY <1>1, <1>4, ThreadAt DEF GateCloses
  <2>2. UNCHANGED <<client, spent>>
    BY <1>4 DEF GateCloses
  <2>3. OneAtWork' /\ Apart' /\ (~alive' => lock' = {} /\ resident' = "none")
    BY <1>1, <1>4, <2>1, <2>2 DEF GateCloses
  <2>4. ASSUME NEW d \in Clients PROVE ThreadInv(d)'
    BY <1>1, <1>4, <2>1, <2>4, Limits DEF GateCloses
  <2>5. ASSUME NEW d \in Clients PROVE ClientInv(d)'
    <3>1. \A e \in Clients : e # c => thread'[e] = "none"
      BY <1>1, <1>4, <2>1 DEF GateCloses, ThreadsTyped, ThreadStates
    <3>2. client[d] \in {"idle", "begun", "asked"}
      BY <1>1, <1>4 DEF GateCloses
    <3>3. lease' = Lease /\ spent[d] \in Nat /\ UNCHANGED <<alive, lock, resident>>
      BY <1>1, <1>4 DEF GateCloses, ClientsTyped
    <3>4. QED
      BY <1>4, <2>1, <2>2, <3>1, <3>2, <3>3, Limits DEF GateCloses
  <2>6. QED
    BY <2>3, <2>4, <2>5
<1>5. CASE Locks(c)
  <2>1. /\ thread'[c] = "parking" /\ waited'[c] = 0
        /\ \A d \in Clients : d # c => thread'[d] = thread[d] /\ waited'[d] = waited[d]
    BY <1>1, <1>5, ThreadAt DEF Locks
  <2>2. UNCHANGED <<client, spent>>
    BY <1>5 DEF Locks
  <2>3. OneAtWork' /\ Apart' /\ (~alive' => lock' = {} /\ resident' = "none")
    BY <1>1, <1>5, <2>1, <2>2 DEF Locks
  <2>4. ASSUME NEW d \in Clients PROVE ThreadInv(d)'
    BY <1>1, <1>5, <2>1, <2>4, Limits DEF Locks, ProxyTyped, ThreadsTyped
  <2>5. ASSUME NEW d \in Clients PROVE ClientInv(d)'
    BY <1>1, <1>5, <2>1, <2>2, <2>5 DEF Locks
  <2>6. QED
    BY <2>3, <2>4, <2>5
<1>6. CASE LockTimesOut(c)
  <2>1. /\ thread'[c] = "none" /\ waited'[c] = 0
        /\ \A d \in Clients : d # c => thread'[d] = thread[d] /\ waited'[d] = waited[d]
    BY <1>1, <1>6, ThreadAt DEF LockTimesOut
  <2>2. /\ \A d \in Clients : d # c => client'[d] = client[d] /\ spent'[d] = spent[d]
        /\ IF client[c] = "asked" THEN client'[c] = "idle" /\ spent'[c] = 0
           ELSE client'[c] = client[c] /\ spent'[c] = spent[c]
    BY <1>1, <1>6, ReplyAt DEF LockTimesOut
  <2>3. OneAtWork' /\ Apart' /\ (~alive' => lock' = {} /\ resident' = "none")
    BY <1>1, <1>6, <2>1, <2>2 DEF LockTimesOut
  <2>4. ASSUME NEW d \in Clients PROVE ThreadInv(d)'
    BY <1>1, <1>6, <2>1, <2>4 DEF LockTimesOut
  <2>5. ASSUME NEW d \in Clients PROVE ClientInv(d)'
    BY <1>1, <1>6, <2>1, <2>2, <2>5 DEF LockTimesOut
  <2>6. QED
    BY <2>3, <2>4, <2>5
<1>7. CASE Parked(c)
  <2>1. /\ thread'[c] = "none" /\ waited'[c] = 0
        /\ \A d \in Clients : d # c => thread'[d] = thread[d] /\ waited'[d] = waited[d]
    BY <1>1, <1>7, ThreadAt DEF Parked
  <2>2. /\ \A d \in Clients : d # c => client'[d] = client[d] /\ spent'[d] = spent[d]
        /\ IF client[c] = "asked" THEN client'[c] = "prepared" /\ spent'[c] = 0
           ELSE client'[c] = client[c] /\ spent'[c] = spent[c]
    BY <1>1, <1>7, ReplyAt DEF Parked
  <2>3. OneAtWork' /\ Apart' /\ (~alive' => lock' = {} /\ resident' = "none")
    BY <1>1, <1>7, <2>1, <2>2 DEF Parked
  <2>4. ASSUME NEW d \in Clients PROVE ThreadInv(d)'
    BY <1>1, <1>7, <2>1, <2>4 DEF Parked
  <2>5. ASSUME NEW d \in Clients PROVE ClientInv(d)'
    BY <1>1, <1>7, <2>1, <2>2, <2>5, Limits DEF Parked, ProxyTyped, ClientsTyped
  <2>6. QED
    BY <2>3, <2>4, <2>5
<1>8. CASE ParkFails(c)
  <2>1. /\ thread'[c] = "none" /\ waited'[c] = 0
        /\ \A d \in Clients : d # c => thread'[d] = thread[d] /\ waited'[d] = waited[d]
    BY <1>1, <1>8, ThreadAt DEF ParkFails
  <2>2. /\ \A d \in Clients : d # c => client'[d] = client[d] /\ spent'[d] = spent[d]
        /\ IF client[c] = "asked" THEN client'[c] = "idle" /\ spent'[c] = 0
           ELSE client'[c] = client[c] /\ spent'[c] = spent[c]
    BY <1>1, <1>8, ReplyAt DEF ParkFails
  <2>3. OneAtWork' /\ Apart' /\ (~alive' => lock' = {} /\ resident' = "none")
    BY <1>1, <1>8, <2>1, <2>2 DEF ParkFails
  <2>4. ASSUME NEW d \in Clients PROVE ThreadInv(d)'
    BY <1>1, <1>8, <2>1, <2>4 DEF ParkFails
  <2>5. ASSUME NEW d \in Clients PROVE ClientInv(d)'
    BY <1>1, <1>8, <2>1, <2>2, <2>5 DEF ParkFails
  <2>6. QED
    BY <2>3, <2>4, <2>5
<1>9. QED
  BY <1>2, <1>3, <1>4, <1>5, <1>6, <1>7, <1>8 DEF ThreadStep

\* A client stops a proxy only while it may rely on the gate.
LEMMA GateClientSteps ==
  ASSUME InTime, TypeOK, GateInv, NEW c \in Clients,
         ClientStep(c) \/ BeginUpdate(c) \/ BeginUninstall(c) \/ Killed(c)
  PROVE  GateInv'
<1> USE DEF GateInv, OneAtWork, Apart, Late, ThreadInv, ClientInv, ClientLimit
<1>1. ProxyTyped /\ ThreadsTyped /\ ClientsTyped
  BY Parts
<1>2. CASE BeginUpdate(c) \/ BeginUninstall(c)
  BY <1>1, <1>2, SpentAt, Limits DEF BeginUpdate, BeginUninstall, Begin
<1>3. CASE Declines(c) \/ GivesUp(c) \/ Survives(c)
  BY <1>1, <1>3, SpentAt DEF Declines, GivesUp, Survives, Ends
<1>4. CASE Ask(c)
  BY <1>1, <1>4, ThreadAt, SpentAt, Limits DEF Ask
<1>5. CASE Stop(c)
  BY <1>1, <1>5, SpentAt, Limits DEF Stop, NoThreads
<1>6. CASE RollBack(c)
  BY <1>1, <1>6, SpentAt, Limits DEF RollBack, NoThreads
<1>7. CASE StopFails(c) \/ ReplaceFails(c)
  BY <1>1, <1>7, SpentAt, Limits DEF StopFails, ReplaceFails
<1>8. CASE Install(c) \/ InstallFails(c)
  BY <1>1, <1>8, SpentAt, Limits DEF Install, InstallFails
<1>9. CASE Replace(c) \/ Restore(c)
  BY <1>1, <1>9, SpentAt, Limits DEF Replace, Restore, Starts
<1>10. CASE Commit(c) \/ Reinstall(c) \/ RecoveryFails(c)
  BY <1>1, <1>10, SpentAt, Limits DEF Commit, Reinstall, RecoveryFails, Ends
<1>11. CASE Cancel(c)
  BY <1>1, <1>11, SpentAt DEF Cancel, Ends
<1>12. CASE Killed(c)
  BY <1>1, <1>12, SpentAt DEF Killed
<1>13. QED
  BY <1>2, <1>3, <1>4, <1>5, <1>6, <1>7, <1>8, <1>9, <1>10, <1>11, <1>12 DEF ClientStep

\* If replies, parks and the client's steps fit in the lease, no stop cuts a reply off
\* or loses turns, whatever fails, whoever is killed and whatever threads of earlier
\* callers still do (prepare_update, stop_proxy).
THEOREM CleanStops == ASSUME InTime PROVE Spec => StopsAreClean
<1>1. ASSUME TypeOK, GateInv, [Next]_vars PROVE GateInv'
  BY <1>1, NextSteps, GateProxySteps, GateTick, GateThreadSteps, GateClientSteps
<1>2. ASSUME GateInv, [Next]_vars, alive, ~alive' PROVE lock # {"generation"} /\ resident # "unsaved"
  <2>1. PICK c \in Clients : Stop(c) \/ RollBack(c)
    BY <1>2
       DEF Next, vars, GenerationStarts, GenerationEnds, Refused, GateFree, GateCloses,
           Locks, LockTimesOut, Parked, ParkFails, BeginUpdate, BeginUninstall, Begin,
           Declines, Ask, GivesUp, StopFails, Install, InstallFails, Replace, ReplaceFails,
           Starts, Commit, Survives, Reinstall, Restore, RecoveryFails, Cancel, Killed,
           PipEnds, Serve, Tick
  <2>2. QED
    BY <1>2, <2>1 DEF GateInv, ClientInv, Stop, RollBack
<1>3. QED
  BY GateInit, TypeCorrect, <1>1, <1>2, PTL DEF Spec, StopsAreClean
=============================================================================
