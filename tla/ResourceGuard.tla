--------------------------- MODULE ResourceGuard ---------------------------
(***************************************************************************)
(* The guard every heavy experiment runs under                             *)
(* (experiments/universal_kv/resource_guard.py; campaign.py: run_child,    *)
(* guarded_locks; fit_hub.py).  Jobs queue for two flocks, the GPU/memory  *)
(* lock and the CPU lock, wait until the package is cool, and run a        *)
(* command in a process group of its own under a Watch, which stops the    *)
(* group while it is hot, continues it, and ends it when that is not       *)
(* enough.  A fit run by hand has no Watch: a Guard in its own process     *)
(* sleeps between chunks, and a background thread ends the process.        *)
(*                                                                         *)
(* A flock belongs to an open file, which the command inherits, so a lock  *)
(* is free when neither the job's own process nor its command has it open. *)
(* What a sensor reads is one of Readings; memory short and memory         *)
(* recovered count as "hot" and "cool".  Sensors lost for sensor_loss_s,   *)
(* a pause of max_pause_s and the time limit of a command may strike       *)
(* whenever the condition they wait for lasts.                             *)
(***************************************************************************)
EXTENDS Naturals, Sequences

CONSTANTS
  Jobs,
  Kind,    \* of each job, one of Kinds
  Faults   \* what may go wrong

(***************************************************************************)
(* "campaign"  a command of campaign.py: a GPU fit                         *)
(* "run"       resource_guard.py run --cpu-lock -- COMMAND                 *)
(* "fit"       fit_hub.py by hand, on the GPU                              *)
(* "script"    a program that takes cpu_lock() and then gpu_lock()         *)
(***************************************************************************)
Kinds == {"campaign", "run", "fit", "script"}
LockNames == {"gpu", "cpu"}
FaultKinds == {"kill", "term", "leftover"}
Readings == {"cool", "warm", "hot", "critical", "lost"}

ASSUME GuardAssumption ==
  /\ Kind \in [Jobs -> Kinds]
  /\ Faults \subseteq FaultKinds

VARIABLES
  pc,        \* of the job's own process: "locks", "cool", "watch", "stop", "leave", "ended",
             \* "cut", short by a signal while it stopped the rest of its group, or "killed"
  own,       \* how many of its locks that process has taken, in order
  group,     \* its command: "none", "runs", "stopped" or "gone"; of a job without a command,
             \* whether its process computes or sleeps in check()
  entered,   \* how many of its locks the command has asked for, in order
  left,      \* what outlives the command in its group: "none", "runs" or "stopped"
  watch      \* what its Watch or Guard remembers

vars == <<pc, own, group, entered, left, watch>>

\* critical: the critical readings in a row; beside: those of the background thread; lost:
\* whether the last reading failed; hot: whether one was hot since the last cool one, which
\* only StaysStopped looks at.
Fresh == [critical |-> 0, beside |-> 0, lost |-> FALSE, hot |-> FALSE]

InProcess(j) == Kind[j] \in {"fit", "script"}

\* The locks a job's own process takes: guarded_locks(), run(cpu), or its program's.
Outer(j) ==
  IF Kind[j] = "run" THEN <<"cpu">>
  ELSE IF Kind[j] = "script" THEN <<"cpu", "gpu">> ELSE <<"gpu", "cpu">>

\* Those a command asks for again: fit_hub.py's.
Inner(j) == IF Kind[j] = "campaign" THEN <<"gpu", "cpu">> ELSE <<>>

\* The first n locks of a list, and all of them.
Firsts(list, n) == {list[i] : i \in 1..n}
Members(list) == Firsts(list, Len(list))
Lives(state) == state \in {"runs", "stopped"}
OwnerLives(j) == pc[j] \notin {"ended", "cut", "killed"}

\* Mutant: the descriptors close when the command starts.
PassedNone(j) == {}

\* The descriptors the command inherits (pass_fds).
Passed(j) == Members(Outer(j))

\* Jobs that have the lock's locked file open.
Holders(l) ==
  {j \in Jobs :
     \/ OwnerLives(j) /\ l \in Firsts(Outer(j), own[j])
     \/ ~InProcess(j) /\ Lives(group[j]) /\ l \in Passed(j) \cup Firsts(Inner(j), entered[j])
     \/ Lives(left[j]) /\ l \in Passed(j)}

Init ==
  /\ pc = [j \in Jobs |-> "locks"]
  /\ own = [j \in Jobs |-> 0]
  /\ group = [j \in Jobs |-> "none"]
  /\ entered = [j \in Jobs |-> 0]
  /\ left = [j \in Jobs |-> "none"]
  /\ watch = [j \in Jobs |-> Fresh]

Goes(j, to) == pc' = [pc EXCEPT ![j] = to]

\* The job's process ends, or is killed: its memory and its descriptors are gone.
Ends(j, how) ==
  /\ Goes(j, how)
  /\ own' = [own EXCEPT ![j] = 0]
  /\ watch' = [watch EXCEPT ![j] = Fresh]

\* The command's process ends.
GroupEnds(j) ==
  /\ group' = [group EXCEPT ![j] = "gone"]
  /\ entered' = [entered EXCEPT ![j] = 0]

-----------------------------------------------------------------------------
(* Locks *)

\* Mutant: no check_lock_order().
OutOfOrderNever(l, held) == FALSE

\* check_lock_order(): the GPU lock is not taken by a process that has the CPU lock.
OutOfOrder(l, held) == l = "gpu" /\ "cpu" \in held

\* The next lock of the job's own process; gpu_lock() of a campaign also waits for memory,
\* which it does without the lock.
TakeLock(j) ==
  /\ pc[j] = "locks" /\ own[j] < Len(Outer(j))
  /\ LET l == Outer(j)[own[j] + 1]
         out == OutOfOrder(l, Firsts(Outer(j), own[j]))
     IN
       \/ out /\ Ends(j, "ended")
       \/ /\ ~out
          /\ Holders(l) = {}
          /\ own' = [own EXCEPT ![j] = @ + 1]
          /\ UNCHANGED <<pc, watch>>
  /\ UNCHANGED <<group, entered, left>>

LocksTaken(j) ==
  /\ pc[j] = "locks" /\ own[j] = Len(Outer(j))
  /\ Goes(j, "cool")
  /\ UNCHANGED <<own, group, entered, left, watch>>

\* wait_cool() with the locks held; then the command starts.
Cools(j) ==
  /\ pc[j] = "cool"
  /\ Goes(j, "watch")
  /\ group' = [group EXCEPT ![j] = "runs"]
  /\ watch' = [watch EXCEPT ![j] = Fresh]
  /\ UNCHANGED <<own, entered, left>>

\* Another reading in wait_cool(); GuardError when sensors stay lost.
WaitsToCool(j) ==
  /\ pc[j] = "cool"
  /\ \/ /\ watch' = [watch EXCEPT ![j].lost = ~@]
        /\ UNCHANGED <<pc, own>>
     \/ watch[j].lost /\ Ends(j, "ended")
  /\ UNCHANGED <<group, entered, left>>

\* The command asks for a lock: one it inherited is its own already.
Enter(j) ==
  /\ ~InProcess(j) /\ group[j] = "runs"
  /\ entered[j] < Len(Inner(j))
  /\ LET l == Inner(j)[entered[j] + 1] IN
       /\ ~OutOfOrder(l, Firsts(Inner(j), entered[j]))
       /\ Holders(l) = {} \/ l \in Passed(j)
       /\ entered' = [entered EXCEPT ![j] = @ + 1]
  /\ UNCHANGED <<pc, own, group, left, watch>>

\* It ends, well or not; what it started may go on in its group.
CommandEnds(j) ==
  /\ ~InProcess(j) /\ group[j] = "runs"
  /\ entered[j] = Len(Inner(j))
  /\ GroupEnds(j)
  /\ \/ UNCHANGED left
     \/ /\ "leftover" \in Faults
        /\ left' = [left EXCEPT ![j] = "runs"]
  /\ UNCHANGED <<pc, own, watch>>

-----------------------------------------------------------------------------
(* Readings *)

Paused(j) == "stopped" \in {group[j], left[j]}

\* Mutant: the first critical reading only counts.
AssessCounts(j, t) ==
  CASE t = "lost" -> "lost"
    [] t = "critical" -> IF watch[j].critical = 0 THEN "go on" ELSE "abort"
    [] ~Paused(j) /\ t = "hot" -> "pause"
    [] Paused(j) /\ t = "cool" -> "resume"
    [] OTHER -> "go on"

\* What a reading asks for: assess(), and abort_samples readings in a row at abort_c.
Assess(j, t) ==
  CASE t = "lost" -> "lost"
    [] t = "critical" -> IF watch[j].critical = 0 THEN "pause" ELSE "abort"
    [] ~Paused(j) /\ t = "hot" -> "pause"
    [] Paused(j) /\ t = "cool" -> "resume"
    [] OTHER -> "go on"

Watching(j) == pc[j] = "watch"

\* SIGSTOP and SIGCONT go to the whole group, whether its leader lives or not.
Signal(j, from, to) ==
  /\ group' = [group EXCEPT ![j] = IF @ = from THEN to ELSE @]
  /\ left' = [left EXCEPT ![j] = IF @ = from THEN to ELSE @]

\* GuardAbort: run() and run_child() go on to stop_group(); a program ends.
Abort(j) ==
  \/ InProcess(j) /\ Ends(j, "ended") /\ GroupEnds(j) /\ UNCHANGED left
  \/ /\ ~InProcess(j)
     /\ Goes(j, "stop")
     /\ watch' = [watch EXCEPT ![j] = Fresh]
     /\ Signal(j, "stopped", "runs")
     /\ UNCHANGED <<own, entered>>

\* Watch.step(), or Guard.check() between two chunks and while it sleeps.  The group's
\* leader may have exited since it was last asked.
Sample(j, t) ==
  /\ Watching(j)
  /\ LET action == Assess(j, t) IN
       \/ action = "abort" /\ Abort(j)
       \/ action = "lost" /\ watch[j].lost /\ Abort(j)
       \/ /\ action # "abort"
          /\ \/ action = "pause" /\ Signal(j, "runs", "stopped")
             \/ action = "resume" /\ Signal(j, "stopped", "runs")
             \/ action \in {"go on", "lost"} /\ UNCHANGED <<group, left>>
          /\ watch' = [watch EXCEPT
               ![j].critical = IF t = "critical" THEN @ + 1 ELSE IF t = "lost" THEN @ ELSE 0,
               ![j].lost = (t = "lost"),
               ![j].hot = t \in {"hot", "critical"} \/ (@ /\ t # "cool")]
          /\ UNCHANGED <<pc, own, entered>>

\* max_pause_s, a GPU hang in the kernel log, or the time limit of the command.
Overdue(j) == Watching(j) /\ Abort(j)

\* The Guard's background thread, while no check() runs.
Background(j, t) ==
  /\ InProcess(j) /\ Watching(j) /\ t # "lost"
  /\ LET alarming == group[j] = "runs" /\ t = "critical" IN
       \/ alarming /\ watch[j].beside = 1 /\ Abort(j)
       \/ /\ ~alarming \/ watch[j].beside = 0
          /\ watch' = [watch EXCEPT ![j].beside = IF alarming THEN 1 ELSE 0]
          /\ UNCHANGED <<pc, own, group, entered, left>>

\* A program without a command is done.
Done(j) ==
  /\ InProcess(j) /\ Watching(j) /\ group[j] = "runs"
  /\ Ends(j, "ended")
  /\ GroupEnds(j)
  /\ UNCHANGED left

-----------------------------------------------------------------------------
(* The end of a command *)

\* stop_group(): the rest of the group is killed after the grace.
KillGroup(j) ==
  /\ pc[j] = "stop"
  /\ Ends(j, "ended")
  /\ GroupEnds(j)
  /\ left' = [left EXCEPT ![j] = "none"]

\* The watching loop finds that the command has exited.
Reap(j) ==
  /\ Watching(j) /\ group[j] = "gone"
  /\ \/ /\ Kind[j] = "campaign"
        /\ Goes(j, "leave")
        /\ UNCHANGED <<own, watch>>
     \/ Kind[j] # "campaign" /\ Ends(j, "ended")
  /\ UNCHANGED <<group, entered, left>>

\* Mutant: a campaign leaves what its command started.
LeaveAll(j) ==
  /\ pc[j] = "leave"
  /\ Ends(j, "ended")
  /\ UNCHANGED <<group, entered, left>>

\* stop_leftovers(), before the locks are released.
Leave(j) ==
  /\ pc[j] = "leave"
  /\ Ends(j, "ended")
  /\ left' = [left EXCEPT ![j] = "none"]
  /\ UNCHANGED <<group, entered>>

\* SIGTERM, SIGHUP or Ctrl-C to the job's process.  In stop_group()'s grace or in
\* stop_leftovers() nothing catches it (after a time-out, the second one): what was not
\* killed yet goes on.
Terminate(j) ==
  /\ "term" \in Faults
  /\ \/ pc[j] \in {"locks", "cool"} /\ Ends(j, "ended") /\ UNCHANGED <<group, entered, left>>
     \/ Watching(j) /\ Abort(j)
     \/ /\ pc[j] \in {"stop", "leave"}
        /\ Ends(j, "cut")
        /\ UNCHANGED <<group, entered, left>>

\* SIGKILL: the command goes on as it is.
Killed(j) ==
  /\ "kill" \in Faults
  /\ OwnerLives(j)
  /\ Ends(j, "killed")
  /\ \/ InProcess(j) /\ GroupEnds(j)
     \/ ~InProcess(j) /\ UNCHANGED <<group, entered>>
  /\ UNCHANGED left

-----------------------------------------------------------------------------
\* What brings a job nearer to its end.
Advance(j) ==
  \/ TakeLock(j) \/ LocksTaken(j) \/ Cools(j) \/ Enter(j) \/ CommandEnds(j) \/ Done(j)
  \/ KillGroup(j) \/ Reap(j) \/ Leave(j)

Next ==
  \E j \in Jobs :
    \/ Advance(j) \/ WaitsToCool(j) \/ Overdue(j) \/ Terminate(j) \/ Killed(j)
    \/ \E t \in Readings : Sample(j, t) \/ Background(j, t)

Spec == Init /\ [][Next]_vars

\* flock() serves waiters in turn, a package that idles cools, a command that gets to run
\* again and again ends, and a pause does not outlast max_pause_s.
FairSpec ==
  /\ Spec
  /\ \A j \in Jobs : SF_vars(Advance(j) \/ (group[j] = "stopped" /\ Overdue(j)))

-----------------------------------------------------------------------------
(* Properties *)

Uses(j, l) == Lives(group[j]) /\ l \in Members(Outer(j)) \cup Firsts(Inner(j), entered[j])
Abandoned(j) == ~OwnerLives(j) /\ (group[j] = "stopped" \/ Lives(left[j]))

\* The shape of the state: a job's process, its locks, its command and its Watch.
TypeOK ==
  /\ pc \in [Jobs -> {"locks", "cool", "watch", "stop", "leave", "ended", "cut", "killed"}]
  /\ own \in [Jobs -> 0..2] /\ \A j \in Jobs : own[j] <= Len(Outer(j))
  /\ group \in [Jobs -> {"none", "runs", "stopped", "gone"}]
  /\ entered \in [Jobs -> 0..2] /\ \A j \in Jobs : entered[j] <= Len(Inner(j))
  /\ left \in [Jobs -> {"none", "runs", "stopped"}]
  /\ watch \in [Jobs -> [critical : 0..1, beside : 0..1, lost : BOOLEAN, hot : BOOLEAN]]

\* Two commands never work under the same lock at the same time, also after the process
\* that took the lock was killed and its command went on alone.
WorkExclusive ==
  \A i, j \in Jobs : \A l \in LockNames : Uses(i, l) /\ Uses(j, l) => i = j

\* Once a reading was hot nothing of a job runs until one is cool, whatever was read, or
\* could not be read, in between.
StaysStopped ==
  \A j \in Jobs : Watching(j) /\ watch[j].hot => group[j] # "runs" /\ left[j] # "runs"

\* When a job is over nothing of it is left (campaign.py: "would hold GPU memory after the
\* locks are released"), however it was ended, unless its process was killed, or signalled
\* again while it stopped its group, or resource_guard.py run let a command leave something.
NothingLeft ==
  \A j \in Jobs : pc[j] = "ended" =>
    ~Lives(group[j]) /\ (Lives(left[j]) => Kind[j] = "run")

\* Every job comes to its end: no job waits for a lock whose holder waits for its own,
\* and no command is left stopped.  Only a process that was killed abandons a command it
\* had stopped, and it, one cut short, or `run` what a command left behind, with the locks.
JobsEnd ==
  \A j \in Jobs : pc[j] = "locks" ~> (~OwnerLives(j) \/ \E i \in Jobs : Abandoned(i))
=============================================================================
