------------------------ MODULE ResourceGuardProofs ------------------------
(***************************************************************************)
(* For every set of jobs and every combination of faults: a lock has one   *)
(* holder, so two commands never work under the same lock; nothing runs    *)
(* between a hot reading and a cool one; a job that is over, and was       *)
(* neither killed nor cut short, has left nothing behind.                  *)
(*                                                                         *)
(* The argument for the locks: what works under a lock has it open, either *)
(* through the job's process or through descriptors the command inherited, *)
(* and a lock is only ever taken when nobody has it open.  The invariant   *)
(* therefore says of each job how its process, its command and what the    *)
(* command left behind can stand to each other.                            *)
(***************************************************************************)
EXTENDS ResourceGuard, TLAPS

Processes == {"locks", "cool", "watch", "stop", "leave", "ended", "cut", "killed"}

Watches == [critical : 0..1, beside : 0..1, lost : BOOLEAN, hot : BOOLEAN]

\* A job before, during and after its command.
JobConsistent(j) ==
  /\ pc[j] \in {"locks", "cool"} => group[j] = "none" /\ entered[j] = 0
  /\ pc[j] \in {"cool", "watch", "stop", "leave"} => own[j] = Len(Outer(j))
  /\ pc[j] = "leave" => group[j] = "gone"
  /\ InProcess(j) => left[j] = "none" /\ pc[j] \notin {"stop", "leave"}
  /\ InProcess(j) /\ Lives(group[j]) => pc[j] = "watch"
  /\ left[j] # "none" => group[j] = "gone"
  /\ entered[j] # 0 => Lives(group[j])

\* A flock has one holder.
OneHolder ==
  \A l \in LockNames : \A i, j \in Jobs : i \in Holders(l) /\ j \in Holders(l) => i = j

\* The inductive invariant.
Inductive ==
  /\ TypeOK
  /\ \A j \in Jobs : JobConsistent(j)
  /\ OneHolder
  /\ StaysStopped
  /\ NothingLeft

-----------------------------------------------------------------------------
(* Locks *)

\* The locks a process takes for its command: one or two.
LEMMA OuterLocks ==
  ASSUME NEW j \in Jobs
  PROVE  /\ Len(Outer(j)) \in 1..2
         /\ \A i \in 1..Len(Outer(j)) : Outer(j)[i] \in LockNames
BY DEF Outer, LockNames

\* The locks a command takes itself, which a job in its own process does not.
LEMMA InnerLocks ==
  ASSUME NEW j \in Jobs
  PROVE  /\ Len(Inner(j)) \in {0, 2}
         /\ \A i \in 1..Len(Inner(j)) : Inner(j)[i] \in LockNames
         /\ InProcess(j) => Len(Inner(j)) = 0
BY DEF Inner, LockNames, InProcess

\* What works under a lock holds it.
LEMMA UsersHold ==
  ASSUME TypeOK, \A i \in Jobs : JobConsistent(i), NEW j \in Jobs, NEW l \in LockNames, Uses(j, l)
  PROVE  j \in Holders(l)
<1>1. Lives(group[j])
  BY DEF Uses
<1>2. CASE InProcess(j)
  <2>1. pc[j] = "watch" /\ own[j] = Len(Outer(j)) /\ Len(Inner(j)) = 0
    BY <1>1, <1>2, InnerLocks DEF JobConsistent
  <2>2. entered[j] = 0
    BY <2>1, InnerLocks DEF TypeOK
  <2>3. l \in Firsts(Outer(j), own[j])
    BY <2>1, <2>2 DEF Uses, Members, Firsts
  <2> QED BY <2>1, <2>3 DEF Holders, OwnerLives
<1>3. CASE ~InProcess(j)
  BY <1>1, <1>3 DEF Holders, Uses, Passed
<1> QED BY <1>2, <1>3

\* A step that takes no lock keeps the holders apart.
LEMMA NoLockTaken ==
  ASSUME OneHolder, \A l \in LockNames : Holders(l)' \subseteq Holders(l)
  PROVE  OneHolder'
BY DEF OneHolder

\* So does one that takes a lock nobody has.
LEMMA FreeLockTaken ==
  ASSUME OneHolder, NEW j \in Jobs, NEW m \in LockNames, Holders(m) \subseteq {j},
         \A l \in LockNames : Holders(l)' \subseteq Holders(l) \cup (IF l = m THEN {j} ELSE {})
  PROVE  OneHolder'
BY DEF OneHolder

-----------------------------------------------------------------------------
(* The types of what actions assign. *)

\* A count below its bound may go up.
LEMMA Counts ==
  ASSUME NEW n \in 0..2, NEW bound \in 0..2, n < bound
  PROVE  n + 1 \in 0..2 /\ n + 1 <= bound /\ n \in 0..1
OBVIOUS

\* The locks a process has count up to those it takes, and back to none.
LEMMA OwnTyped ==
  ASSUME TypeOK, NEW j \in Jobs,
         \/ own' = own
         \/ own' = [own EXCEPT ![j] = 0]
         \/ own[j] < Len(Outer(j)) /\ own' = [own EXCEPT ![j] = own[j] + 1]
  PROVE  own' \in [Jobs -> 0..2] /\ \A i \in Jobs : own'[i] <= Len(Outer(i))
<1>1. own \in [Jobs -> 0..2] /\ \A i \in Jobs : own[i] <= Len(Outer(i)) /\ Len(Outer(i)) \in 1..2
  BY OuterLocks DEF TypeOK
<1>2. CASE own' = own
  BY <1>1, <1>2
<1>3. CASE own' = [own EXCEPT ![j] = 0]
  BY <1>1, <1>3
<1>4. CASE own[j] < Len(Outer(j)) /\ own' = [own EXCEPT ![j] = own[j] + 1]
  <2> DEFINE bound == Len(Outer(j))
  <2>1. own[j] \in 0..2 /\ bound \in 0..2 /\ own[j] < bound
    BY <1>1, <1>4
  <2> HIDE DEF bound
  <2>2. own[j] + 1 \in 0..2 /\ own[j] + 1 <= bound
    BY <2>1, Counts
  <2> QED BY <1>1, <1>4, <2>2 DEF bound
<1> QED BY <1>2, <1>3, <1>4

\* So do those a command has.
LEMMA EnteredTyped ==
  ASSUME TypeOK, NEW j \in Jobs,
         \/ entered' = entered
         \/ entered' = [entered EXCEPT ![j] = 0]
         \/ entered[j] < Len(Inner(j)) /\ entered' = [entered EXCEPT ![j] = entered[j] + 1]
  PROVE  entered' \in [Jobs -> 0..2] /\ \A i \in Jobs : entered'[i] <= Len(Inner(i))
<1>1. entered \in [Jobs -> 0..2] /\ \A i \in Jobs : entered[i] <= Len(Inner(i)) /\ Len(Inner(i)) \in {0, 2}
  BY InnerLocks DEF TypeOK
<1>2. CASE entered' = entered
  BY <1>1, <1>2
<1>3. CASE entered' = [entered EXCEPT ![j] = 0]
  BY <1>1, <1>3
<1>4. CASE entered[j] < Len(Inner(j)) /\ entered' = [entered EXCEPT ![j] = entered[j] + 1]
  <2> DEFINE bound == Len(Inner(j))
  <2>1. entered[j] \in 0..2 /\ bound \in 0..2 /\ entered[j] < bound
    BY <1>1, <1>4
  <2> HIDE DEF bound
  <2>2. entered[j] + 1 \in 0..2 /\ entered[j] + 1 <= bound
    BY <2>1, Counts
  <2> QED BY <1>1, <1>4, <2>2 DEF bound
<1> QED BY <1>2, <1>3, <1>4

\* The watch of one job changes at a time.
LEMMA WatchTyped ==
  ASSUME TypeOK, NEW j \in Jobs,
         watch' = watch \/ \E w \in Watches : watch' = [watch EXCEPT ![j] = w]
  PROVE  watch' \in [Jobs -> Watches]
BY DEF TypeOK, Watches

\* What a reading makes of a watch.
LEMMA FieldsTyped ==
  ASSUME NEW w \in Watches, NEW n \in 0..1, NEW b \in BOOLEAN, NEW h \in BOOLEAN
  PROVE  /\ [w EXCEPT !.lost = b] \in Watches
         /\ [w EXCEPT !.beside = n] \in Watches
         /\ [w EXCEPT !.critical = n, !.lost = b, !.hot = h] \in Watches
         /\ w.lost \in BOOLEAN /\ w.hot \in BOOLEAN /\ w.critical \in 0..1
BY DEF Watches

\* Every job has a watch.
LEMMA WatchesTyped ==
  ASSUME TypeOK, NEW j \in Jobs
  PROVE  watch[j] \in Watches
BY DEF TypeOK, Watches

\* A new watch has seen nothing.
LEMMA FreshTyped == Fresh \in Watches
BY DEF Fresh, Watches

-----------------------------------------------------------------------------
(* The invariant holds at first, and every action keeps it. *)

\* At the start no job has begun.
LEMMA InitInductive ==
  ASSUME Init
  PROVE  Inductive
BY
   DEF Init, Inductive, TypeOK, JobConsistent, OneHolder, Holders, StaysStopped, NothingLeft,
       Fresh, Lives, Firsts, LockNames

\* TakeLock keeps the invariant.
LEMMA TakeLockKeeps ==
  ASSUME Inductive, NEW j \in Jobs, TakeLock(j)
  PROVE  Inductive'
<1> USE DEF Inductive
<1>1. TypeOK'
  <2> USE DEF TypeOK, TakeLock, Ends, Goes
  <2>1. pc' \in [Jobs -> Processes]
    BY DEF Processes
  <2>2. own' \in [Jobs -> 0..2] /\ \A i \in Jobs : own'[i] <= Len(Outer(i))
    BY OwnTyped
  <2>3. group' \in [Jobs -> {"none", "runs", "stopped", "gone"}]
    OBVIOUS
  <2>4. entered' \in [Jobs -> 0..2] /\ \A i \in Jobs : entered'[i] <= Len(Inner(i))
    BY EnteredTyped
  <2>5. left' \in [Jobs -> {"none", "runs", "stopped"}]
    OBVIOUS
  <2>6. watch' \in [Jobs -> Watches]
    BY WatchTyped, FreshTyped
  <2> QED BY <2>1, <2>2, <2>3, <2>4, <2>5, <2>6 DEF Processes, Watches
<1>2. \A i \in Jobs : JobConsistent(i)'
  BY DEF TypeOK, JobConsistent, Outer, Inner, TakeLock, Ends, Goes
<1>3. OneHolder'
  <2> DEFINE m == Outer(j)[own[j] + 1]
  <2>1. CASE Ends(j, "ended")
    <3>1. \A l \in LockNames : Holders(l)' \subseteq Holders(l)
      BY <2>1 DEF TypeOK, Holders, OwnerLives, TakeLock, Ends, Goes
    <3> QED BY <3>1, NoLockTaken
  <2>2. CASE Holders(m) = {} /\ own' = [own EXCEPT ![j] = own[j] + 1] /\ UNCHANGED pc
    <3>1. own[j] \in 0..1 /\ m \in LockNames
      <4> DEFINE bound == Len(Outer(j))
      <4>1. own[j] \in 0..2 /\ bound \in 1..2 /\ own[j] < bound
        BY OuterLocks DEF TakeLock, TypeOK
      <4> HIDE DEF bound
      <4>2. own[j] \in 0..1 /\ own[j] + 1 \in 1..bound
        BY <4>1
      <4> QED BY <4>2, OuterLocks DEF bound
    <3>2. \A i \in Jobs : Firsts(Outer(i), own'[i]) =
             Firsts(Outer(i), own[i]) \cup (IF i = j THEN {m} ELSE {})
      <4> TAKE i \in Jobs
      <4>1. CASE i = j
        <5>1. own'[i] = own[i] + 1 /\ 1..(own[i] + 1) = (1..own[i]) \cup {own[i] + 1}
          BY <2>2, <3>1, <4>1 DEF TypeOK
        <5> QED BY <5>1, <4>1 DEF Firsts
      <4>2. CASE i # j
        BY <2>2, <4>2 DEF TypeOK
      <4> QED BY <4>1, <4>2
    <3>3. \A l \in LockNames : Holders(l)' \subseteq Holders(l) \cup (IF l = m THEN {j} ELSE {})
      <4> TAKE l \in LockNames
      <4> QED BY <2>2, <3>2 DEF Holders, OwnerLives, TakeLock
    <3> HIDE DEF m
    <3> QED BY <2>2, <3>1, <3>3, FreeLockTaken
  <2> QED BY <2>1, <2>2 DEF TakeLock
<1>4. StaysStopped'
  BY DEF TypeOK, StaysStopped, Watching, TakeLock, Ends, Goes
<1>5. NothingLeft'
  BY DEF TypeOK, JobConsistent, NothingLeft, Lives, TakeLock, Ends, Goes
<1> QED BY <1>1, <1>2, <1>3, <1>4, <1>5

\* LocksTaken keeps the invariant.
LEMMA LocksTakenKeeps ==
  ASSUME Inductive, NEW j \in Jobs, LocksTaken(j)
  PROVE  Inductive'
<1> USE DEF Inductive
<1>1. TypeOK'
  BY DEF TypeOK, LocksTaken, Goes
<1>2. \A i \in Jobs : JobConsistent(i)'
  BY DEF TypeOK, JobConsistent, Outer, Inner, LocksTaken, Goes
<1>3. OneHolder'
  BY NoLockTaken DEF TypeOK, Holders, OwnerLives, Outer, Inner, LocksTaken, Goes
<1>4. StaysStopped'
  BY DEF TypeOK, StaysStopped, Watching, LocksTaken, Goes
<1>5. NothingLeft'
  BY DEF TypeOK, NothingLeft, LocksTaken, Goes
<1> QED BY <1>1, <1>2, <1>3, <1>4, <1>5

\* Cools keeps the invariant.
LEMMA CoolsKeeps ==
  ASSUME Inductive, NEW j \in Jobs, Cools(j)
  PROVE  Inductive'
<1> USE DEF Inductive
<1>1. TypeOK'
  BY DEF TypeOK, Fresh, Cools, Goes
<1>2. \A i \in Jobs : JobConsistent(i)'
  BY DEF TypeOK, JobConsistent, Outer, Inner, Cools, Goes
<1>3. OneHolder'
  <2>1. own[j] = Len(Outer(j)) /\ entered[j] = 0
    BY DEF JobConsistent, Cools
  <2>2. Passed(j) = Firsts(Outer(j), own[j]) /\ Firsts(Inner(j), entered[j]) = {}
    BY <2>1 DEF Passed, Members, Firsts
  <2>3. \A l \in LockNames : Holders(l)' \subseteq Holders(l)
    BY <2>2 DEF TypeOK, Holders, OwnerLives, Cools, Goes
  <2> QED BY <2>3, NoLockTaken
<1>4. StaysStopped'
  BY DEF TypeOK, StaysStopped, Watching, Fresh, Cools, Goes
<1>5. NothingLeft'
  BY DEF TypeOK, NothingLeft, Cools, Goes
<1> QED BY <1>1, <1>2, <1>3, <1>4, <1>5

\* WaitsToCool keeps the invariant.
LEMMA WaitsToCoolKeeps ==
  ASSUME Inductive, NEW j \in Jobs, WaitsToCool(j)
  PROVE  Inductive'
<1> USE DEF Inductive
<1>1. TypeOK'
  <2> USE DEF TypeOK, WaitsToCool, Ends, Goes
  <2>1. pc' \in [Jobs -> Processes]
    BY DEF Processes
  <2>2. own' \in [Jobs -> 0..2] /\ \A i \in Jobs : own'[i] <= Len(Outer(i))
    BY OwnTyped
  <2>3. group' \in [Jobs -> {"none", "runs", "stopped", "gone"}]
    OBVIOUS
  <2>4. entered' \in [Jobs -> 0..2] /\ \A i \in Jobs : entered'[i] <= Len(Inner(i))
    BY EnteredTyped
  <2>5. left' \in [Jobs -> {"none", "runs", "stopped"}]
    OBVIOUS
  <2>6. watch' \in [Jobs -> Watches]
    <3>1. [watch[j] EXCEPT !.lost = ~@] \in Watches
      BY ZenonT(60), WatchesTyped, FieldsTyped
    <3>2. watch' = [watch EXCEPT ![j] = [watch[j] EXCEPT !.lost = ~@]] \/ watch' = [watch EXCEPT ![j] = Fresh]
      OBVIOUS
    <3> QED BY <3>1, <3>2, WatchTyped, FreshTyped
  <2> QED BY <2>1, <2>2, <2>3, <2>4, <2>5, <2>6 DEF Processes, Watches
<1>2. \A i \in Jobs : JobConsistent(i)'
  BY DEF TypeOK, JobConsistent, Outer, Inner, WaitsToCool, Ends, Goes
<1>3. OneHolder'
  BY NoLockTaken DEF TypeOK, Holders, OwnerLives, Lives, Outer, Inner, WaitsToCool, Ends, Goes
<1>4. StaysStopped'
  BY DEF TypeOK, JobConsistent, StaysStopped, Watching, Fresh, WaitsToCool, Ends, Goes
<1>5. NothingLeft'
  BY DEF TypeOK, JobConsistent, NothingLeft, Lives, WaitsToCool, Ends, Goes
<1> QED BY <1>1, <1>2, <1>3, <1>4, <1>5

\* Enter keeps the invariant.
LEMMA EnterKeeps ==
  ASSUME Inductive, NEW j \in Jobs, Enter(j)
  PROVE  Inductive'
<1> USE DEF Inductive
<1>1. TypeOK'
  <2> USE DEF TypeOK, Enter
  <2>1. pc' \in [Jobs -> Processes]
    BY DEF Processes
  <2>2. own' \in [Jobs -> 0..2] /\ \A i \in Jobs : own'[i] <= Len(Outer(i))
    BY OwnTyped
  <2>3. group' \in [Jobs -> {"none", "runs", "stopped", "gone"}]
    OBVIOUS
  <2>4. entered' \in [Jobs -> 0..2] /\ \A i \in Jobs : entered'[i] <= Len(Inner(i))
    BY EnteredTyped
  <2>5. left' \in [Jobs -> {"none", "runs", "stopped"}]
    OBVIOUS
  <2>6. watch' \in [Jobs -> Watches]
    BY WatchTyped
  <2> QED BY <2>1, <2>2, <2>3, <2>4, <2>5, <2>6
<1>2. \A i \in Jobs : JobConsistent(i)'
  BY DEF TypeOK, JobConsistent, Outer, Inner, Lives, Enter
<1>3. OneHolder'
  <2> DEFINE m == Inner(j)[entered[j] + 1]
  <2>1. entered[j] \in 0..1 /\ m \in LockNames
    BY InnerLocks DEF Enter, TypeOK
  <2>2. \A i \in Jobs : Firsts(Inner(i), entered'[i]) =
           Firsts(Inner(i), entered[i]) \cup (IF i = j THEN {m} ELSE {})
    <3> TAKE i \in Jobs
    <3>1. CASE i = j
      <4>1. entered'[i] = entered[i] + 1 /\ 1..(entered[i] + 1) = (1..entered[i]) \cup {entered[i] + 1}
        BY <2>1, <3>1 DEF TypeOK, Enter
      <4> QED BY <4>1, <3>1 DEF Firsts
    <3>2. CASE i # j
      BY <3>2 DEF TypeOK, Enter
    <3> QED BY <3>1, <3>2
  <2>3. \A l \in LockNames : Holders(l)' \subseteq Holders(l) \cup (IF l = m THEN {j} ELSE {})
    <3> TAKE l \in LockNames
    <3> QED BY <2>2 DEF Holders, OwnerLives, Enter
  <2>4. CASE Holders(m) = {}
    <3> HIDE DEF m
    <3> QED BY <2>1, <2>3, <2>4, FreeLockTaken
  <2>5. CASE m \in Passed(j)
    <3>1. j \in Holders(m)
      BY <2>5 DEF Holders, Enter, Lives
    <3> HIDE DEF m
    <3>2. \A l \in LockNames : Holders(l)' \subseteq Holders(l)
      BY <2>3, <3>1
    <3> QED BY <3>2, NoLockTaken
  <2> QED BY <2>4, <2>5 DEF Enter
<1>4. StaysStopped'
  BY DEF TypeOK, StaysStopped, Watching, Enter
<1>5. NothingLeft'
  BY DEF TypeOK, NothingLeft, Enter
<1> QED BY <1>1, <1>2, <1>3, <1>4, <1>5

\* CommandEnds keeps the invariant.
LEMMA CommandEndsKeeps ==
  ASSUME Inductive, NEW j \in Jobs, CommandEnds(j)
  PROVE  Inductive'
<1> USE DEF Inductive
<1>1. TypeOK'
  <2> USE DEF TypeOK, CommandEnds, GroupEnds
  <2>1. pc' \in [Jobs -> Processes]
    BY DEF Processes
  <2>2. own' \in [Jobs -> 0..2] /\ \A i \in Jobs : own'[i] <= Len(Outer(i))
    BY OwnTyped
  <2>3. group' \in [Jobs -> {"none", "runs", "stopped", "gone"}]
    OBVIOUS
  <2>4. entered' \in [Jobs -> 0..2] /\ \A i \in Jobs : entered'[i] <= Len(Inner(i))
    BY EnteredTyped
  <2>5. left' \in [Jobs -> {"none", "runs", "stopped"}]
    OBVIOUS
  <2>6. watch' \in [Jobs -> Watches]
    BY WatchTyped, FreshTyped
  <2> QED BY <2>1, <2>2, <2>3, <2>4, <2>5, <2>6
<1>2. \A i \in Jobs : JobConsistent(i)'
  BY DEF TypeOK, JobConsistent, Outer, Inner, CommandEnds, GroupEnds
<1>3. OneHolder'
  BY NoLockTaken DEF TypeOK, Holders, OwnerLives, Lives, Outer, Inner, CommandEnds, GroupEnds
<1>4. StaysStopped'
  BY DEF TypeOK, StaysStopped, Watching, CommandEnds, GroupEnds
<1>5. NothingLeft'
  BY DEF TypeOK, NothingLeft, Lives, CommandEnds, GroupEnds
<1> QED BY <1>1, <1>2, <1>3, <1>4, <1>5

\* Sample keeps the invariant.
LEMMA SampleKeeps ==
  ASSUME Inductive, NEW j \in Jobs, NEW t \in Readings, Sample(j, t)
  PROVE  Inductive'
<1> USE DEF Inductive
<1>1. TypeOK'
  <2> USE DEF TypeOK, Sample, Abort, Assess, Signal, Paused, Watching, Ends, GroupEnds, Goes, Readings
  <2>1. pc' \in [Jobs -> Processes]
    BY ZenonT(60) DEF Processes
  <2>2. own' \in [Jobs -> 0..2] /\ \A i \in Jobs : own'[i] <= Len(Outer(i))
    BY OwnTyped
  <2>3. group' \in [Jobs -> {"none", "runs", "stopped", "gone"}]
    OBVIOUS
  <2>4. entered' \in [Jobs -> 0..2] /\ \A i \in Jobs : entered'[i] <= Len(Inner(i))
    BY EnteredTyped
  <2>5. left' \in [Jobs -> {"none", "runs", "stopped"}]
    OBVIOUS
  <2>6. watch' \in [Jobs -> Watches]
    <3> DEFINE w == [watch[j] EXCEPT
                       !.critical = IF t = "critical" THEN @ + 1 ELSE IF t = "lost" THEN @ ELSE 0,
                       !.lost = (t = "lost"),
                       !.hot = t \in {"hot", "critical"} \/ (@ /\ t # "cool")]
    <3>1. CASE Abort(j)
      BY <3>1, WatchTyped, FreshTyped
    <3>2. CASE ~Abort(j)
      <4>1. watch[j] \in Watches /\ (t = "critical" => watch[j].critical = 0)
        BY <3>2 DEF Watches
      <4>2. w \in Watches
        <5>1. (IF t = "critical" THEN watch[j].critical + 1
               ELSE IF t = "lost" THEN watch[j].critical ELSE 0) \in 0..1
          <6>1. watch[j].critical \in 0..1
            BY <4>1
          <6> QED BY <4>1, <6>1
        <5>2. (t = "lost") \in BOOLEAN
          OBVIOUS
        <5>3. (t \in {"hot", "critical"} \/ (watch[j].hot /\ t # "cool")) \in BOOLEAN
          OBVIOUS
        <5> QED BY <4>1, <5>1, <5>2, <5>3, FieldsTyped
      <4>3. watch' = [watch EXCEPT ![j] = w]
        BY <3>2
      <4> HIDE DEF w
      <4> QED BY <4>2, <4>3, WatchTyped
    <3> QED BY <3>1, <3>2
  <2> QED BY <2>1, <2>2, <2>3, <2>4, <2>5, <2>6 DEF Processes, Watches
<1>2. \A i \in Jobs : JobConsistent(i)'
  BY
     DEF TypeOK, JobConsistent, Outer, Inner, Lives, Sample, Abort, Assess, Signal, Watching, Ends,
         GroupEnds, Goes
<1>3. OneHolder'
  BY NoLockTaken
     DEF TypeOK, Holders, OwnerLives, Lives, Outer, Inner, Sample, Abort, Assess, Signal, Watching,
         Ends, GroupEnds, Goes
<1>4. StaysStopped'
  <2>1. CASE Abort(j)
    <3>1. pc'[j] # "watch" /\ \A i \in Jobs \ {j} : pc'[i] = pc[i] /\ watch'[i] = watch[i]
                                      /\ group'[i] = group[i] /\ left'[i] = left[i]
      BY <2>1 DEF TypeOK, Abort, Ends, GroupEnds, Goes, Signal
    <3> QED BY <3>1 DEF StaysStopped, Watching
  <2>2. CASE ~Abort(j)
    <3>1. \A i \in Jobs \ {j} : pc'[i] = pc[i] /\ watch'[i] = watch[i]
                         /\ group'[i] = group[i] /\ left'[i] = left[i]
      BY <2>2 DEF TypeOK, Sample, Signal
    <3>2. pc[j] = "watch" /\ (watch[j].hot => group[j] # "runs" /\ left[j] # "runs")
      BY DEF StaysStopped, Sample, Watching
    <3>3. watch'[j].hot => t \in {"hot", "critical"} \/ (watch[j].hot /\ t # "cool")
      <4>1. watch[j] \in Watches /\ watch' = [watch EXCEPT ![j] =
              [watch[j] EXCEPT
                 !.critical = IF t = "critical" THEN @ + 1 ELSE IF t = "lost" THEN @ ELSE 0,
                 !.lost = (t = "lost"),
                 !.hot = t \in {"hot", "critical"} \/ (@ /\ t # "cool")]]
        BY <2>2, WatchesTyped DEF Sample
      <4>2. watch'[j].hot = (t \in {"hot", "critical"} \/ (watch[j].hot /\ t # "cool"))
        BY <4>1 DEF TypeOK
      <4> QED BY <4>2
    <3>4. watch'[j].hot => group'[j] # "runs" /\ left'[j] # "runs"
      <4>1. CASE t \in {"hot", "critical"}
        BY <2>2, <4>1 DEF TypeOK, JobConsistent, Sample, Assess, Signal, Paused
      <4>2. CASE t \in {"cool", "warm", "lost"}
        BY <2>2, <3>2, <3>3, <4>2 DEF TypeOK, Sample, Assess
      <4> QED BY <4>1, <4>2 DEF Readings
    <3> QED BY <3>1, <3>4 DEF StaysStopped, Watching
  <2> QED BY <2>1, <2>2
<1>5. NothingLeft'
  BY
     DEF TypeOK, JobConsistent, NothingLeft, Lives, Sample, Abort, Assess, Signal, Ends, GroupEnds,
         Goes
<1> QED BY <1>1, <1>2, <1>3, <1>4, <1>5

\* Overdue keeps the invariant.
LEMMA OverdueKeeps ==
  ASSUME Inductive, NEW j \in Jobs, Overdue(j)
  PROVE  Inductive'
<1> USE DEF Inductive
<1>1. TypeOK'
  <2> USE DEF TypeOK, Overdue, Abort, Signal, Watching, Ends, GroupEnds, Goes
  <2>1. pc' \in [Jobs -> Processes]
    BY DEF Processes
  <2>2. own' \in [Jobs -> 0..2] /\ \A i \in Jobs : own'[i] <= Len(Outer(i))
    BY OwnTyped
  <2>3. group' \in [Jobs -> {"none", "runs", "stopped", "gone"}]
    OBVIOUS
  <2>4. entered' \in [Jobs -> 0..2] /\ \A i \in Jobs : entered'[i] <= Len(Inner(i))
    BY EnteredTyped
  <2>5. left' \in [Jobs -> {"none", "runs", "stopped"}]
    OBVIOUS
  <2>6. watch' \in [Jobs -> Watches]
    BY WatchTyped, FreshTyped
  <2> QED BY <2>1, <2>2, <2>3, <2>4, <2>5, <2>6 DEF Processes, Watches
<1>2. \A i \in Jobs : JobConsistent(i)'
  BY
     DEF TypeOK, JobConsistent, Outer, Inner, Lives, Overdue, Abort, Signal, Watching, Ends,
         GroupEnds, Goes
<1>3. OneHolder'
  BY NoLockTaken
     DEF TypeOK, Holders, OwnerLives, Lives, Outer, Inner, Overdue, Abort, Signal, Watching, Ends,
         GroupEnds, Goes
<1>4. StaysStopped'
  <2>1. ~Watching(j)'
    BY DEF TypeOK, Watching, Overdue, Abort, Ends, Goes
  <2>2. \A i \in Jobs \ {j} :
          /\ pc'[i] = pc[i] /\ watch'[i] = watch[i]
          /\ group'[i] = group[i] /\ left'[i] = left[i]
    BY DEF TypeOK, Overdue, Abort, Signal, Ends, GroupEnds, Goes
  <2> QED BY <2>1, <2>2 DEF StaysStopped, Watching
<1>5. NothingLeft'
  BY DEF TypeOK, JobConsistent, NothingLeft, Lives, Overdue, Abort, Signal, Ends, GroupEnds, Goes
<1> QED BY <1>1, <1>2, <1>3, <1>4, <1>5

\* Background keeps the invariant.
LEMMA BackgroundKeeps ==
  ASSUME Inductive, NEW j \in Jobs, NEW t \in Readings, Background(j, t)
  PROVE  Inductive'
<1> USE DEF Inductive
<1>1. TypeOK'
  <2> USE DEF TypeOK, Background, Abort, Watching, Ends, GroupEnds, Goes
  <2>1. pc' \in [Jobs -> Processes]
    BY DEF Processes
  <2>2. own' \in [Jobs -> 0..2] /\ \A i \in Jobs : own'[i] <= Len(Outer(i))
    BY OwnTyped
  <2>3. group' \in [Jobs -> {"none", "runs", "stopped", "gone"}]
    OBVIOUS
  <2>4. entered' \in [Jobs -> 0..2] /\ \A i \in Jobs : entered'[i] <= Len(Inner(i))
    BY EnteredTyped
  <2>5. left' \in [Jobs -> {"none", "runs", "stopped"}]
    OBVIOUS
  <2>6. watch' \in [Jobs -> Watches]
    <3>1. \A n \in 0..1 : [watch[j] EXCEPT !.beside = n] \in Watches
      BY WatchesTyped, FieldsTyped
    <3>2. \/ \E n \in 0..1 : watch' = [watch EXCEPT ![j] = [watch[j] EXCEPT !.beside = n]]
          \/ watch' = [watch EXCEPT ![j] = Fresh]
      OBVIOUS
    <3> QED BY <3>1, <3>2, WatchTyped, FreshTyped
  <2> QED BY <2>1, <2>2, <2>3, <2>4, <2>5, <2>6 DEF Processes, Watches
<1>2. \A i \in Jobs : JobConsistent(i)'
  BY DEF TypeOK, JobConsistent, Outer, Inner, Lives, Background, Abort, Ends, GroupEnds, Goes
<1>3. OneHolder'
  BY NoLockTaken
     DEF TypeOK, Holders, OwnerLives, Outer, Inner, Background, Abort, Watching, Ends, GroupEnds,
         Goes
<1>4. StaysStopped'
  <2>1. CASE Abort(j)
    <3>1. pc'[j] # "watch" /\ \A i \in Jobs \ {j} : pc'[i] = pc[i] /\ watch'[i] = watch[i]
                                      /\ group'[i] = group[i] /\ left'[i] = left[i]
      BY <2>1 DEF TypeOK, Abort, Ends, GroupEnds, Goes, Signal
    <3> QED BY <3>1 DEF StaysStopped, Watching
  <2>2. CASE ~Abort(j)
    <3>1. PICK n \in 0..1 : watch' = [watch EXCEPT ![j] = [watch[j] EXCEPT !.beside = n]]
      BY <2>2 DEF Background
    <3>2. \A i \in Jobs : watch[i] \in Watches
      BY WatchesTyped
    <3>3. \A i \in Jobs : watch'[i].hot = watch[i].hot
      BY <3>1, <3>2 DEF TypeOK
    <3>4. UNCHANGED <<pc, group, left>>
      BY <2>2 DEF Background
    <3> QED BY <3>3, <3>4 DEF StaysStopped, Watching
  <2> QED BY <2>1, <2>2
<1>5. NothingLeft'
  BY DEF TypeOK, JobConsistent, NothingLeft, Lives, Background, Abort, Ends, GroupEnds, Goes
<1> QED BY <1>1, <1>2, <1>3, <1>4, <1>5

\* Done keeps the invariant.
LEMMA DoneKeeps ==
  ASSUME Inductive, NEW j \in Jobs, Done(j)
  PROVE  Inductive'
<1> USE DEF Inductive
<1>1. TypeOK'
  BY DEF TypeOK, Fresh, Done, Ends, GroupEnds, Goes
<1>2. \A i \in Jobs : JobConsistent(i)'
  BY DEF TypeOK, JobConsistent, Outer, Inner, Lives, Done, Ends, GroupEnds, Goes
<1>3. OneHolder'
  BY NoLockTaken DEF TypeOK, Holders, OwnerLives, Outer, Inner, Done, Ends, GroupEnds, Goes
<1>4. StaysStopped'
  BY DEF TypeOK, StaysStopped, Watching, Done, Watching, Ends, GroupEnds, Goes
<1>5. NothingLeft'
  BY DEF TypeOK, JobConsistent, NothingLeft, Lives, Done, Ends, GroupEnds, Goes
<1> QED BY <1>1, <1>2, <1>3, <1>4, <1>5

\* KillGroup keeps the invariant.
LEMMA KillGroupKeeps ==
  ASSUME Inductive, NEW j \in Jobs, KillGroup(j)
  PROVE  Inductive'
<1> USE DEF Inductive
<1>1. TypeOK'
  BY DEF TypeOK, Fresh, KillGroup, Ends, GroupEnds, Goes
<1>2. \A i \in Jobs : JobConsistent(i)'
  BY DEF TypeOK, JobConsistent, Outer, Inner, KillGroup, Ends, GroupEnds, Goes
<1>3. OneHolder'
  BY NoLockTaken
     DEF TypeOK, Holders, OwnerLives, Lives, Outer, Inner, KillGroup, Ends, GroupEnds, Goes
<1>4. StaysStopped'
  BY DEF TypeOK, StaysStopped, Watching, KillGroup, Ends, GroupEnds, Goes
<1>5. NothingLeft'
  BY DEF TypeOK, NothingLeft, Lives, KillGroup, Ends, GroupEnds, Goes
<1> QED BY <1>1, <1>2, <1>3, <1>4, <1>5

\* Reap keeps the invariant.
LEMMA ReapKeeps ==
  ASSUME Inductive, NEW j \in Jobs, Reap(j)
  PROVE  Inductive'
<1> USE DEF Inductive
<1>1. TypeOK'
  <2> USE DEF TypeOK, Reap, Watching, Ends, Goes
  <2>1. pc' \in [Jobs -> Processes]
    BY DEF Processes
  <2>2. own' \in [Jobs -> 0..2] /\ \A i \in Jobs : own'[i] <= Len(Outer(i))
    BY OwnTyped
  <2>3. group' \in [Jobs -> {"none", "runs", "stopped", "gone"}]
    OBVIOUS
  <2>4. entered' \in [Jobs -> 0..2] /\ \A i \in Jobs : entered'[i] <= Len(Inner(i))
    BY EnteredTyped
  <2>5. left' \in [Jobs -> {"none", "runs", "stopped"}]
    OBVIOUS
  <2>6. watch' \in [Jobs -> Watches]
    BY WatchTyped, FreshTyped
  <2> QED BY <2>1, <2>2, <2>3, <2>4, <2>5, <2>6 DEF Processes, Watches
<1>2. \A i \in Jobs : JobConsistent(i)'
  BY DEF TypeOK, JobConsistent, InProcess, Outer, Inner, Lives, Reap, Watching, Ends, Goes
<1>3. OneHolder'
  BY SMTT(30), NoLockTaken
     DEF TypeOK, JobConsistent, Holders, OwnerLives, Passed, Members, Lives, InProcess, Outer,
         Inner, Reap, Watching, Ends, Goes
<1>4. StaysStopped'
  BY DEF TypeOK, StaysStopped, Watching, Reap, Watching, Ends, Goes
<1>5. NothingLeft'
  BY GuardAssumption
     DEF TypeOK, JobConsistent, NothingLeft, Lives, InProcess, Kinds, Reap, Watching, Ends, Goes
<1> QED BY <1>1, <1>2, <1>3, <1>4, <1>5

\* Leave keeps the invariant.
LEMMA LeaveKeeps ==
  ASSUME Inductive, NEW j \in Jobs, Leave(j)
  PROVE  Inductive'
<1> USE DEF Inductive
<1>1. TypeOK'
  BY DEF TypeOK, Fresh, Leave, Ends, Goes
<1>2. \A i \in Jobs : JobConsistent(i)'
  BY DEF TypeOK, JobConsistent, Outer, Inner, Leave, Ends, Goes
<1>3. OneHolder'
  BY NoLockTaken DEF TypeOK, Holders, OwnerLives, Lives, Outer, Inner, Leave, Ends, Goes
<1>4. StaysStopped'
  BY DEF TypeOK, StaysStopped, Watching, Leave, Ends, Goes
<1>5. NothingLeft'
  BY DEF TypeOK, JobConsistent, NothingLeft, Lives, Leave, Ends, Goes
<1> QED BY <1>1, <1>2, <1>3, <1>4, <1>5

\* Terminate keeps the invariant.
LEMMA TerminateKeeps ==
  ASSUME Inductive, NEW j \in Jobs, Terminate(j)
  PROVE  Inductive'
<1> USE DEF Inductive
<1>1. TypeOK'
  <2> USE DEF TypeOK, Terminate, Abort, Signal, Watching, Ends, GroupEnds, Goes
  <2>1. pc' \in [Jobs -> Processes]
    BY DEF Processes
  <2>2. own' \in [Jobs -> 0..2] /\ \A i \in Jobs : own'[i] <= Len(Outer(i))
    BY OwnTyped
  <2>3. group' \in [Jobs -> {"none", "runs", "stopped", "gone"}]
    OBVIOUS
  <2>4. entered' \in [Jobs -> 0..2] /\ \A i \in Jobs : entered'[i] <= Len(Inner(i))
    BY EnteredTyped
  <2>5. left' \in [Jobs -> {"none", "runs", "stopped"}]
    OBVIOUS
  <2>6. watch' \in [Jobs -> Watches]
    BY WatchTyped, FreshTyped
  <2> QED BY <2>1, <2>2, <2>3, <2>4, <2>5, <2>6 DEF Processes, Watches
<1>2. \A i \in Jobs : JobConsistent(i)'
  BY
     DEF TypeOK, JobConsistent, Outer, Inner, Lives, Terminate, Abort, Signal, Watching, Ends,
         GroupEnds, Goes
<1>3. OneHolder'
  BY NoLockTaken
     DEF TypeOK, Holders, OwnerLives, Lives, Outer, Inner, Terminate, Abort, Signal, Watching,
         Ends, GroupEnds, Goes
<1>4. StaysStopped'
  BY ZenonT(60)
     DEF TypeOK, JobConsistent, StaysStopped, Watching, Fresh, Terminate, Abort, Signal, Watching,
         Ends, GroupEnds, Goes
<1>5. NothingLeft'
  BY DEF TypeOK, JobConsistent, NothingLeft, Lives, Terminate, Abort, Signal, Ends, GroupEnds, Goes
<1> QED BY <1>1, <1>2, <1>3, <1>4, <1>5

\* Killed keeps the invariant.
LEMMA KilledKeeps ==
  ASSUME Inductive, NEW j \in Jobs, Killed(j)
  PROVE  Inductive'
<1> USE DEF Inductive
<1>1. TypeOK'
  <2> USE DEF TypeOK, Killed, OwnerLives, Ends, GroupEnds, Goes
  <2>1. pc' \in [Jobs -> Processes]
    BY DEF Processes
  <2>2. own' \in [Jobs -> 0..2] /\ \A i \in Jobs : own'[i] <= Len(Outer(i))
    BY OwnTyped
  <2>3. group' \in [Jobs -> {"none", "runs", "stopped", "gone"}]
    OBVIOUS
  <2>4. entered' \in [Jobs -> 0..2] /\ \A i \in Jobs : entered'[i] <= Len(Inner(i))
    BY EnteredTyped
  <2>5. left' \in [Jobs -> {"none", "runs", "stopped"}]
    OBVIOUS
  <2>6. watch' \in [Jobs -> Watches]
    BY WatchTyped, FreshTyped
  <2> QED BY <2>1, <2>2, <2>3, <2>4, <2>5, <2>6 DEF Watches
<1>2. \A i \in Jobs : JobConsistent(i)'
  BY DEF TypeOK, JobConsistent, Outer, Inner, Lives, Killed, Ends, GroupEnds, Goes
<1>3. OneHolder'
  BY NoLockTaken
     DEF TypeOK, Holders, OwnerLives, Outer, Inner, Killed, OwnerLives, Ends, GroupEnds, Goes
<1>4. StaysStopped'
  BY DEF TypeOK, StaysStopped, Watching, Killed, Ends, GroupEnds, Goes
<1>5. NothingLeft'
  BY DEF TypeOK, NothingLeft, Killed, Ends, GroupEnds, Goes
<1> QED BY <1>1, <1>2, <1>3, <1>4, <1>5

-----------------------------------------------------------------------------
\* The invariant survives every step.
LEMMA NextKeeps ==
  ASSUME Inductive, [Next]_vars
  PROVE  Inductive'
<1>1. CASE UNCHANGED vars
  BY <1>1
     DEF vars, Inductive, TypeOK, JobConsistent, OneHolder, Holders, OwnerLives, StaysStopped,
         Watching, NothingLeft
<1>2. CASE Next
  <2>1. PICK j \in Jobs :
          \/ Advance(j) \/ WaitsToCool(j) \/ Overdue(j) \/ Terminate(j) \/ Killed(j)
          \/ \E t \in Readings : Sample(j, t) \/ Background(j, t)
    BY <1>2 DEF Next
  <2>2. CASE Advance(j)
    BY <2>2, TakeLockKeeps, LocksTakenKeeps, CoolsKeeps, EnterKeeps, CommandEndsKeeps, DoneKeeps,
       KillGroupKeeps, ReapKeeps, LeaveKeeps
       DEF Advance
  <2>3. CASE WaitsToCool(j) \/ Overdue(j) \/ Terminate(j) \/ Killed(j)
    BY <2>3, WaitsToCoolKeeps, OverdueKeeps, TerminateKeeps, KilledKeeps
  <2>4. CASE \E t \in Readings : Sample(j, t) \/ Background(j, t)
    BY <2>4, SampleKeeps, BackgroundKeeps
  <2> QED BY <2>1, <2>2, <2>3, <2>4
<1> QED BY <1>1, <1>2

\* The invariant the theorems below follow from.
THEOREM InductiveInvariance == Spec => []Inductive
<1>1. Init => Inductive
  BY InitInductive
<1>2. Inductive /\ [Next]_vars => Inductive'
  BY NextKeeps
<1> QED BY <1>1, <1>2, PTL DEF Spec

\* The shape of the state, for every set of jobs and faults: no lock is counted twice, and
\* a Watch that has seen two critical readings in a row does not go on (Watch.step).
THEOREM TypeCorrect == Spec => []TypeOK
<1>1. Inductive => TypeOK
  BY DEF Inductive
<1> QED BY <1>1, InductiveInvariance, PTL

\* Two commands never work under the same lock (gpu_lock, cpu_lock and the descriptors a
\* command inherits), whoever was killed.
THEOREM Exclusion == Spec => []WorkExclusive
<1>1. Inductive => WorkExclusive
  <2> SUFFICES ASSUME Inductive, NEW i \in Jobs, NEW j \in Jobs, NEW l \in LockNames,
                      Uses(i, l), Uses(j, l)
               PROVE  i = j
    BY DEF WorkExclusive
  <2>1. i \in Holders(l) /\ j \in Holders(l)
    BY UsersHold DEF Inductive
  <2> QED BY <2>1 DEF Inductive, OneHolder
<1> QED BY <1>1, InductiveInvariance, PTL

\* Nothing of a job runs between a hot reading and the next cool one (Watch.step,
\* Guard.check).
THEOREM Cooling == Spec => []StaysStopped
<1>1. Inductive => StaysStopped
  BY DEF Inductive
<1> QED BY <1>1, InductiveInvariance, PTL

\* A job that ended and was neither killed nor cut short has left nothing behind
\* (stop_group, stop_leftovers).
THEOREM Tidiness == Spec => []NothingLeft
<1>1. Inductive => NothingLeft
  BY DEF Inductive
<1> QED BY <1>1, InductiveInvariance, PTL
=============================================================================
