--------------------------- MODULE CampaignProofs ---------------------------
(***************************************************************************)
(* For every set of requests, every combination of faults and any number   *)
(* of processes started: a campaign's finished stages form a pipeline.     *)
(*                                                                         *)
(* The argument: plan_run() lets a stage in only when what it reads is     *)
(* done or comes before it in the same run, and the run begins with a      *)
(* stage none of the others comes before; --redo withdraws a stage with    *)
(* everything downstream, which is closed because a chain of requirements  *)
(* has at most five links.                                                 *)
(*                                                                         *)
(* And a hub assembled from files that are no longer the onboarded ones is *)
(* flagged, unless a process dies inside a re-encoding's swap: while the   *)
(* onboarding is done, the fit it recorded is the fit the hub holds,       *)
(* because a fit begins only when no command of an earlier one is left.    *)
(*                                                                         *)
(* Under the same proviso, what is done is current and a command's inputs  *)
(* are.  Three facts carry it.  LockInv: a work that recomputes all it has *)
(* goes on from its first command only when no locked command is left over *)
(* from a killed process.  KeepInv: a stage that keeps finished parts has  *)
(* none that is old, unless --redo came upon it unfinished (spared) or     *)
(* marked it stale, so that it will be cleaned.  LateInv: a direction that *)
(* is left over reads stages that, once done, nobody replaces before it    *)
(* ends.  CurrentInv is then inductive: a command writes outside its own   *)
(* stage only where something it needs is not done (UpstreamDone).         *)
(***************************************************************************)
EXTENDS Campaign, TLAPS

\* How long a chain of requirements leads to a stage.
Depth(s) ==
  IF s = "capture" THEN 1 ELSE IF s = "onboard" THEN 2 ELSE IF s = "tables" THEN 3
  ELSE IF s = "evaluate" THEN 4 ELSE IF s = "report" THEN 5 ELSE 0

\* The stage at work has its inputs; those to come have theirs or get them before.
RunInv ==
  /\ status \in [Stages -> Statuses]
  /\ todo \subseteq Stages
  /\ work \in Works \cup {"none"}
  /\ pc = "next" => work = "none"
  /\ pc = "idle" => work = "none" /\ todo = {}
  /\ pc \in {"aside", "swapped"} => work = "reencode"
  /\ \A s \in StagesDone : Reads[s] \subseteq StagesDone
  /\ work \in Stages => status[work] = "running" /\ Reads[work] \subseteq StagesDone /\ work \notin todo
  /\ \A s \in todo : status[s] # "done" /\ Reads[s] \subseteq StagesDone \cup todo \cup {work}

-----------------------------------------------------------------------------
(* The stages *)

\* The stages (STAGES), as a set.
LEMMA StageSet ==
  Stages = {"render", "capture", "onboard", "tables", "recurrent", "evaluate", "report"}
BY DEF Stages, STAGES

\* What a stage requires comes before it in STAGES, by a shorter chain (REQUIRES).
LEMMA RequiredFirst ==
  ASSUME NEW s \in Stages, NEW r \in REQUIRES[s]
  PROVE  r \in Stages /\ Earlier(r, s) /\ Depth(r) < Depth(s)
<1>1. r \in Stages /\ Depth(r) < Depth(s)
  BY StageSet DEF REQUIRES, Depth
<1>2. Earlier(r, s)
  BY StageSet DEF REQUIRES, Earlier, STAGES
<1> QED BY <1>1, <1>2

\* S holds all that reads R, and what it has beyond R is at depth n or below.
Grown(n, R, S) ==
  /\ S \in SUBSET Stages /\ R \subseteq S
  /\ \A s \in S \ R : Depth(s) >= n
  /\ \A r \in R : \A s \in Stages : r \in REQUIRES[s] => s \in S

\* Each round of Above adds stages that are deeper than all before.
LEMMA Deeper ==
  ASSUME NEW n \in Nat, NEW R, NEW S, Grown(n, R, S)
  PROVE  Grown(n + 1, S, Above(S))
<1>1. Above(S) \in SUBSET Stages /\ S \subseteq Above(S)
  BY DEF Above, Grown
<1>2. ASSUME NEW s \in Above(S) \ S
      PROVE  Depth(s) >= n + 1
  <2>1. PICK r \in S : s \in Stages /\ r \in REQUIRES[s]
    BY <1>2 DEF Above
  <2>2. Depth(r) >= n
    BY <1>2, <2>1 DEF Grown
  <2>3. Depth(r) < Depth(s) /\ Depth(r) \in Nat /\ Depth(s) \in Nat
    BY <2>1, RequiredFirst DEF Depth
  <2> QED BY <2>2, <2>3
<1>3. ASSUME NEW r \in S, NEW s \in Stages, r \in REQUIRES[s]
      PROVE  s \in Above(S)
  BY <1>3 DEF Above
<1> QED BY <1>1, <1>2, <1>3 DEF Grown

\* What reads a stage downstream of m, or m itself, is downstream of m (downstream()).
LEMMA DownstreamClosed ==
  ASSUME NEW m \in Stages, NEW q \in {m} \cup Downstream[m], NEW s \in Stages, q \in REQUIRES[s]
  PROVE  s \in {m} \cup Downstream[m]
<1> DEFINE A0 == {m}
           A1 == Above(A0)
           A2 == Above(A1)
           A3 == Above(A2)
           A4 == Above(A3)
           A5 == Above(A4)
<1>0. Grown(0, {}, A0)
  BY DEF Grown, Depth
<1>1. Grown(1, A0, A1) /\ Grown(2, A1, A2) /\ Grown(3, A2, A3)
  <2>1. Grown(0 + 1, A0, A1)
    BY <1>0, Deeper
  <2>2. Grown(1 + 1, A1, A2)
    BY <2>1, Deeper
  <2>3. Grown(2 + 1, A2, A3)
    BY <2>2, Deeper
  <2> QED BY <2>1, <2>2, <2>3
<1>2. Grown(4, A3, A4)
  <2>1. Grown(3 + 1, A3, A4)
    BY <1>1, Deeper
  <2> QED BY <2>1
<1>3. Grown(5, A4, A5)
  <2>1. Grown(4 + 1, A4, A5)
    BY <1>2, Deeper
  <2> QED BY <2>1
<1>4. {m} \cup Downstream[m] = A5
  <2>1. Downstream[m] = A5 \ {m}
    BY DEF Downstream
  <2>2. m \in A5
    <3> HIDE DEF A1, A2, A3, A4, A5
    <3> QED BY <1>1, <1>2, <1>3 DEF Grown
  <2> HIDE DEF A5
  <2> QED BY <2>1, <2>2
<1>5. Depth(q) < 5
  <2>1. Depth(q) < Depth(s) /\ Depth(s) <= 5 /\ Depth(q) \in Nat /\ Depth(s) \in Nat
    BY RequiredFirst DEF Depth
  <2> QED BY <2>1
<1>6. q \in A4
  <2> HIDE DEF A4, A5
  <2>1. Depth(q) \in Nat
    BY DEF Depth
  <2> QED BY <1>3, <1>4, <1>5, <2>1 DEF Grown
<1> HIDE DEF A4, A5
<1> QED BY <1>3, <1>4, <1>6 DEF Grown

-----------------------------------------------------------------------------
(* Steps *)

\* A campaign nobody has run has finished nothing.
LEMMA InitRun == Init => RunInv /\ P!Init
<1> SUFFICES ASSUME Init
             PROVE  RunInv /\ P!Init
  OBVIOUS
<1>1. StagesDone = {}
  BY DEF Init, StagesDone
<1>2. "none" \notin Stages
  BY StageSet
<1> QED BY <1>1, <1>2 DEF Init, RunInv, P!Init, Statuses

\* A process ends and no stage becomes or ceases to be done.
LEMMA LeaveKeeps ==
  ASSUME RunInv, Leave, status' \in [Stages -> Statuses], StagesDone' = StagesDone
  PROVE  RunInv'
<1>1. work' = "none" /\ todo' = {} /\ pc' = "idle"
  BY DEF Leave
<1>2. "none" \notin Stages
  BY StageSet
<1>3. \A s \in StagesDone' : Reads[s] \subseteq StagesDone'
  BY DEF RunInv
<1> QED BY <1>1, <1>2, <1>3 DEF RunInv

\* Steps within a stage, a re-encoding or an assembly.
LEMMA WithinKeeps ==
  ASSUME RunInv, UNCHANGED <<status, todo, work>>,
         pc' \in {"part", "locks", "command", "aside", "swapped", "merged"},
         pc' \in {"aside", "swapped"} => work = "reencode"
  PROVE  RunInv' /\ UNCHANGED StagesDone
BY DEF RunInv, StagesDone

\* Fail: the stage at work was not done.
LEMMA FailKeeps ==
  ASSUME RunInv, Fail
  PROVE  RunInv' /\ UNCHANGED StagesDone
<1>1. status' \in [Stages -> Statuses] /\ StagesDone' = StagesDone
  <2>1. CASE work \in Stages
    <3>1. status[work] = "running" /\ status' = [status EXCEPT ![work] = "failed"]
      BY <2>1 DEF RunInv, Fail
    <3> QED BY <2>1, <3>1 DEF RunInv, StagesDone, Statuses
  <2>2. CASE work \notin Stages
    BY <2>2 DEF RunInv, Fail, StagesDone
  <2> QED BY <2>1, <2>2
<1>2. Leave
  BY DEF Fail
<1> QED BY <1>1, <1>2, LeaveKeeps

\* What reads a stage that --redo marks is marked (stale_stages()).
LEMMA MarkedClosed ==
  ASSUME NEW S \in SUBSET Stages, NEW s \in Stages, NEW q \in Reads[s], q \in Marked(S)
  PROVE  s \in Marked(S)
<1>1. PICK m \in S : q \in {m} \cup Downstream[m]
  BY DEF Marked
<1>2. m \in Stages /\ q \in REQUIRES[s]
  BY <1>1 DEF Reads
<1>3. s \in {m} \cup Downstream[m]
  BY <1>1, <1>2, DownstreamClosed
<1> QED BY <1>1, <1>3 DEF Marked

\* Run: --redo takes back whatever read what it takes back.
LEMMA RunWithdraws ==
  ASSUME RunInv, NEW r \in Requests, Run(r)
  PROVE  RunInv' /\ P!Withdraw
<1>1. r.redo \subseteq Stages
  BY CampaignAssumption
<1>2. StagesDone' = {s \in StagesDone : applicable(s) /\ s \notin Marked(r.redo)}
  BY DEF Run, Restarted, StagesDone
<1>3. status' \in [Stages -> Statuses]
  BY DEF Run, Restarted, RunInv, Statuses
<1>4. \A s \in Stages : \A q \in Reads[s] : q \in Marked(r.redo) => s \in Marked(r.redo)
  BY <1>1, MarkedClosed
<1>5. ASSUME NEW s \in StagesDone'
      PROVE  Reads[s] \subseteq StagesDone'
  <2> SUFFICES ASSUME NEW q \in Reads[s]
               PROVE  q \in StagesDone'
    OBVIOUS
  <2>1. s \in StagesDone /\ s \in Stages /\ s \notin Marked(r.redo)
    BY <1>2 DEF StagesDone
  <2>2. q \in StagesDone /\ applicable(q) /\ q \notin Marked(r.redo)
    BY <1>4, <2>1 DEF RunInv, Reads
  <2> QED BY <1>2, <2>2
<1>6. todo' = Planned(r.only, r.redo) /\ pc' = "next" /\ work' = "none" /\ work = "none"
  BY DEF Run, RunInv
<1>7. ASSUME NEW s \in todo'
      PROVE  s \in Stages /\ status'[s] # "done" /\ Reads[s] \subseteq StagesDone' \cup todo' \cup {work'}
  <2>1. s \in Stages /\ applicable(s) /\ (status[s] # "done" \/ s \in Marked(r.redo))
    BY <1>6, <1>7 DEF Planned
  <2>2. status'[s] # "done"
    BY <2>1 DEF Run, Restarted
  <2>3. ASSUME NEW q \in Reads[s], q \notin todo'
        PROVE  q \in StagesDone'
    <3>1. q \in REQUIRES[s] /\ applicable(q) /\ q \in Stages
      BY <2>1, RequiredFirst DEF Reads
    <3>2. ~(status[q] # "done" \/ q \in Marked(r.redo))
      BY <1>6, <1>7, <2>3, <3>1 DEF Run, Missing
    <3> QED BY <1>2, <3>1, <3>2 DEF StagesDone
  <2> QED BY <2>1, <2>2, <2>3
<1>8. RunInv'
  <2>1. "none" \notin Stages
    BY StageSet
  <2> QED BY <1>3, <1>5, <1>6, <1>7, <2>1 DEF RunInv
<1>9. StagesDone' \in SUBSET StagesDone
  BY <1>2
<1> QED BY <1>5, <1>8, <1>9 DEF P!Withdraw

\* Begin: the first of the stages to come has its inputs.
LEMMA BeginKeeps ==
  ASSUME RunInv, NEW s \in Stages, Begin(s)
  PROVE  RunInv' /\ UNCHANGED StagesDone
<1>1. /\ s \in todo /\ work = "none" /\ pc' = "part" /\ work' = s
      /\ todo' = todo \ {s} /\ status' = [status EXCEPT ![s] = "running"]
  BY DEF Begin, RunInv
<1>2. StagesDone' = StagesDone
  BY <1>1 DEF RunInv, StagesDone
<1>3. Reads[s] \subseteq StagesDone
  <2> SUFFICES ASSUME NEW q \in Reads[s], q \notin StagesDone
               PROVE  FALSE
    OBVIOUS
  <2>1. q \in REQUIRES[s] /\ q \in Stages /\ Earlier(q, s)
    BY RequiredFirst DEF Reads
  <2>2. q \in todo
    BY <1>1, <2>1, StageSet DEF RunInv
  <2> QED BY <2>1, <2>2 DEF Begin
<1>4. ASSUME NEW t \in todo'
      PROVE  status'[t] # "done" /\ Reads[t] \subseteq StagesDone' \cup todo' \cup {work'}
  <2>1. t \in todo /\ t # s /\ t \in Stages /\ s \in Stages
    BY <1>1 DEF RunInv
  <2>2. Reads[t] \subseteq Stages
    BY <2>1, RequiredFirst DEF Reads
  <2>3. "none" \notin Stages
    BY StageSet
  <2>4. status'[t] # "done"
    BY <1>1, <2>1 DEF RunInv
  <2> QED BY <1>1, <1>2, <2>1, <2>2, <2>3, <2>4 DEF RunInv
<1> QED BY <1>1, <1>2, <1>3, <1>4 DEF RunInv, Statuses, Works

\* StageDone: a stage is finished, and what it needs is.
LEMMA StageDoneFinishes ==
  ASSUME RunInv, StageDone
  PROVE  RunInv' /\ \E s \in Stages : P!Finish(s)
<1>1. /\ work \in Stages /\ pc' = "next" /\ work' = "none"
      /\ todo' = todo /\ status' = [status EXCEPT ![work] = "done"]
  BY DEF StageDone
<1>2. StagesDone' = StagesDone \cup {work}
  BY <1>1 DEF RunInv, StagesDone, Statuses
<1>3. Reads[work] \subseteq StagesDone /\ work \notin todo
  BY <1>1 DEF RunInv
<1>4. RunInv'
  <2>1. "none" \notin Stages
    BY StageSet
  <2>2. \A t \in StagesDone' : Reads[t] \subseteq StagesDone'
    BY <1>2, <1>3 DEF RunInv
  <2>3. \A t \in todo' : status'[t] # "done" /\ Reads[t] \subseteq StagesDone' \cup todo' \cup {work'}
    BY <1>1, <1>2, <1>3 DEF RunInv
  <2> QED BY <1>1, <2>1, <2>2, <2>3 DEF RunInv, Statuses
<1> QED BY <1>1, <1>2, <1>3, <1>4 DEF P!Finish

\* Reencoded: of the stages it takes back, one is read by the other only.
LEMMA ReencodedWithdraws ==
  ASSUME RunInv, Reencoded
  PROVE  RunInv' /\ P!Withdraw
<1>1. StagesDone' = StagesDone \ OutdatedByReencode
  BY DEF Reencoded, StagesDone, RunInv
<1>2. \A s \in StagesDone' : Reads[s] \subseteq StagesDone'
  <2> SUFFICES ASSUME NEW s \in StagesDone', NEW q \in Reads[s]
               PROVE  q \in StagesDone'
    OBVIOUS
  <2>1. q \in StagesDone /\ q \in REQUIRES[s] /\ s \in Stages
    BY <1>1 DEF RunInv, Reads, StagesDone
  <2>2. q \notin OutdatedByReencode
    <3>1. s \notin {"evaluate", "report"}
      BY <1>1 DEF OutdatedByReencode
    <3> QED BY <2>1, <3>1, StageSet DEF REQUIRES, OutdatedByReencode
  <2> QED BY <1>1, <2>1, <2>2
<1>3. status' \in [Stages -> Statuses]
  BY DEF Reencoded, RunInv, Statuses
<1>4. RunInv'
  <2>1. work' = "none" /\ todo' = {} /\ pc' = "idle"
    BY DEF Reencoded, Leave
  <2>2. "none" \notin Stages
    BY StageSet
  <2> QED BY <1>2, <1>3, <2>1, <2>2 DEF RunInv
<1>5. StagesDone' \in SUBSET StagesDone
  BY <1>1
<1> QED BY <1>2, <1>4, <1>5 DEF P!Withdraw

-----------------------------------------------------------------------------
\* Every step of a campaign is a step of the pipeline or none.
LEMMA NextSimulates ==
  ASSUME RunInv, [Next]_vars
  PROVE  RunInv' /\ [P!Next]_StagesDone
<1>1. CASE UNCHANGED vars
  BY <1>1 DEF vars, RunInv, StagesDone
<1>2. ASSUME NEW r \in Requests, Run(r)
      PROVE  RunInv' /\ [P!Next]_StagesDone
  BY <1>2, RunWithdraws DEF P!Next
<1>3. ASSUME NEW r \in Requests, Reencode(r) \/ Assemble(r)
      PROVE  RunInv' /\ UNCHANGED StagesDone
  <2>1. status' = status /\ todo' = todo /\ todo = {}
    BY <1>3 DEF Reencode, Assemble, RunInv, stateFile, idle
  <2>2. pc' \in {"part", "merged"} /\ work' \in {"reencode", "none"}
    BY <1>3 DEF Reencode, Assemble, RunInv, idle
  <2>3. "none" \notin Stages /\ "reencode" \notin Stages
    BY StageSet
  <2>4. work' \in Works \cup {"none"}
    BY <2>2 DEF Works
  <2> QED BY <2>1, <2>2, <2>3, <2>4 DEF RunInv, StagesDone
<1>4. CASE Keep \/ Prepare \/ Start \/ Ends \/ TimesOut \/ MoveAside \/ SwapIn
  BY <1>4, WithinKeeps
     DEF Keep, Prepare, Start, Ends, TimesOut, MoveAside, SwapIn, stateFile, RunInv
<1>5. CASE Fail
  BY <1>5, FailKeeps
<1>6. CASE \E s \in Stages : Begin(s)
  BY <1>6, BeginKeeps
<1>7. CASE StageDone
  BY <1>7, StageDoneFinishes DEF P!Next
<1>8. CASE RunDone \/ RecordAssembly \/ Killed
  <2>1. Leave /\ status' = status
    BY <1>8 DEF RunDone, RecordAssembly, Killed, stateFile
  <2> QED BY <2>1, LeaveKeeps DEF StagesDone, RunInv
<1>9. CASE Reencoded
  BY <1>9, ReencodedWithdraws DEF P!Next
<1>10. ASSUME NEW o \in orphans, OrphanEnds(o)
       PROVE  RunInv' /\ UNCHANGED StagesDone
  BY <1>10 DEF OrphanEnds, stateFile, RunInv, StagesDone
<1> QED BY <1>1, <1>2, <1>3, <1>4, <1>5, <1>6, <1>7, <1>8, <1>9, <1>10 DEF Next, Step

\* The stages recorded as done form a pipeline (plan_run, stale_stages, run_stages,
\* reencode): none is done while one it needs is not, whatever fails or is killed.
THEOREM Implementation == Spec => ImplementsPipeline
<1>1. Init => RunInv /\ P!Init
  BY InitRun
<1>2. RunInv /\ [Next]_vars => RunInv' /\ [P!Next]_StagesDone
  BY NextSimulates
<1> QED BY <1>1, <1>2, PTL DEF Spec, ImplementsPipeline, P!Spec

-----------------------------------------------------------------------------
(* Types *)

\* A process at a command or before it is at a part of its work.
TypeInv ==
  /\ TypeOK
  /\ fits \in Nat /\ index \in Nat /\ command \in BOOLEAN
  /\ pc \in {"part", "locks", "command"} => work \in Works
  /\ pc \in {"locks", "command"} => index \in 1..Len(PartsOf[work])

\* A work has one or two parts, and only onboard's first is the hub.
LEMMA PartsTyped ==
  ASSUME NEW s \in Works
  PROVE  /\ Len(PartsOf[s]) \in {1, 2}
         /\ \A i \in 1..Len(PartsOf[s]) : PartsOf[s][i] \in Parts
         /\ \A i \in 1..Len(PartsOf[s]) : PartsOf[s][i] = "hub" => s = "onboard" /\ i = 1
<1>1. /\ Len(PartsOf[s]) \in {1, 2}
      /\ \A i \in 1..Len(PartsOf[s]) : PartsOf[s][i] = "hub" => s = "onboard" /\ i = 1
  <2>1. s \in {"render", "tables", "recurrent", "report"} \/ s \in {"capture", "onboard"}
          \/ s \in {"evaluate", "reencode"}
    BY StageSet DEF Works
  <2>2. CASE s \in {"render", "tables", "recurrent", "report"}
    <3>1. PartsOf[s] = <<s>>
      BY <2>2 DEF PartsOf
    <3> QED BY <2>2, <3>1
  <2>3. CASE s = "capture" \/ s = "onboard"
    <3>1. PartsOf[s] = IF s = "capture" THEN <<"held", "train">> ELSE <<"hub", "hub-v2">>
      BY <2>3 DEF PartsOf
    <3> QED BY <2>3, <3>1
  <2>4. CASE s = "evaluate" \/ s = "reencode"
    <3>1. PartsOf[s] = IF s = "evaluate" THEN <<"into", "out">>
                       ELSE <<"hub.reencode", "hub-v2.reencode">>
      BY <2>4 DEF PartsOf
    <3> QED BY <2>4, <3>1
  <2> QED BY <2>1, <2>2, <2>3, <2>4
<1>2. DOMAIN PartsOf[s] = 1..Len(PartsOf[s])
  BY StageSet DEF Works, PartsOf
<1>3. ASSUME NEW i \in 1..Len(PartsOf[s])
      PROVE  PartsOf[s][i] \in Parts
  <2>1. PartsOf[s][i] \in PartSet[s]
    BY <1>2 DEF PartSet
  <2> QED BY <2>1 DEF Parts
<1> QED BY <1>1, <1>3

\* The parts that are named one by one.
LEMMA HubParts == {"hub", "hub-v2", "out", "hub.reencode", "hub-v2.reencode"} \subseteq Parts
<1>1. /\ PartsOf["onboard"][1] = "hub" /\ PartsOf["onboard"][2] = "hub-v2"
      /\ PartsOf["evaluate"][2] = "out" /\ PartsOf["reencode"][1] = "hub.reencode"
      /\ PartsOf["reencode"][2] = "hub-v2.reencode"
      /\ \A s \in {"onboard", "evaluate", "reencode"} : s \in Works /\ Len(PartsOf[s]) = 2
  BY StageSet DEF Works, PartsOf
<1> QED BY <1>1, PartsTyped

Orphans == [part: Parts, old: BOOLEAN]

\* Write, Replaced and Cleared give every part a content.
LEMMA ContentTyped ==
  ASSUME NEW c \in [Parts -> Contents], NEW s
  PROVE  Replaced(c, s) \in [Parts -> Contents] /\ Cleared(c) \in [Parts -> Contents]
BY DEF Replaced, Cleared, Contents

\* A command's output is a content.
LEMMA WriteTyped ==
  ASSUME content \in [Parts -> Contents], NEW p \in Parts, NEW late, Write(p, late)
  PROVE  content' \in [Parts -> Contents]
<1> DEFINE made == IF late \/ ~InputsCurrent(StageOf[p]) THEN "old" ELSE "current"
           written == [content EXCEPT ![p] = made]
<1>1. made \in Contents
  BY DEF Contents
<1>2. written \in [Parts -> Contents]
  <2> HIDE DEF made
  <2> QED BY <1>1
<1>3. content' = written \/ content' = Replaced(written, StageOf[p])
  BY DEF Write
<1> HIDE DEF written
<1> QED BY <1>2, <1>3, ContentTyped

\* The numbers of fits only grow.
LEMMA FittedTyped ==
  ASSUME fits \in Nat, hub \in 0..fits, NEW p, Fitted(p)
  PROVE  fits' \in Nat /\ fits <= fits' /\ hub' \in 0..fits'
BY DEF Fitted

\* Commands left running stay what they are when their inputs are withdrawn.
LEMMA LateTyped ==
  ASSUME NEW S \in SUBSET Orphans, NEW s
  PROVE  LateOrphans(S, s) \subseteq Orphans
<1> SUFFICES ASSUME NEW o \in S
             PROVE  [o EXCEPT !.old = @ \/ Outdated(o.part, s)] \in Orphans
  BY DEF LateOrphans
<1>1. o \in Orphans
  OBVIOUS
<1> DEFINE late == o.old \/ Outdated(o.part, s)
<1>2. late \in BOOLEAN
  OBVIOUS
<1> HIDE DEF late
<1>3. [o EXCEPT !.old = late] \in Orphans
  BY <1>1, <1>2 DEF Orphans
<1> QED BY <1>3 DEF late

\* The part a command is for is one.
LEMMA AtTyped ==
  ASSUME TypeInv, pc \in {"locks", "command"}
  PROVE  At \in Parts
BY PartsTyped DEF TypeInv, At

\* What --redo names and what is downstream of it are stages.
LEMMA MarkedTyped ==
  ASSUME NEW S \in SUBSET Stages
  PROVE  Marked(S) \subseteq Stages
<1>1. ASSUME NEW X \in SUBSET Stages
      PROVE  Above(X) \in SUBSET Stages
  BY DEF Above
<1>2. ASSUME NEW m \in S
      PROVE  Downstream[m] \subseteq Stages
  <2>1. {m} \in SUBSET Stages
    OBVIOUS
  <2>2. Above(Above(Above(Above(Above({m}))))) \in SUBSET Stages
    BY <1>1, <2>1
  <2> QED BY <2>2 DEF Downstream
<1> QED BY <1>2 DEF Marked

\* A process that leaves is at no part.
LEMMA LeaveTyped ==
  ASSUME TypeInv, Leave, status' \in [Stages -> Statuses], UNCHANGED launches
  PROVE  /\ pc' = "idle" /\ work' \in Works \cup {"none"} /\ redo' \subseteq Stages
         /\ todo' \subseteq Stages /\ index' \in Nat /\ command' \in BOOLEAN
BY DEF Leave

-----------------------------------------------------------------------------
\* Every step keeps the shape of the state.
LEMMA NextTyped ==
  ASSUME TypeInv, [Next]_vars
  PROVE  TypeInv'
<1> USE DEF Orphans
<1>1. CASE UNCHANGED vars
  BY <1>1 DEF vars, TypeInv, TypeOK
<1>2. CASE Keep
  BY <1>2, PartsTyped DEF Keep, TypeInv, TypeOK, stateFile, outputs, assembly
<1>3. CASE Prepare
  <2>1. content' \in [Parts -> Contents]
    BY <1>3, ContentTyped DEF Prepare, TypeInv, TypeOK
  <2> QED BY <1>3, <2>1, PartsTyped DEF Prepare, TypeInv, TypeOK, stateFile, assembly
<1>4. CASE Start
  <2>1. content' \in [Parts -> Contents]
    BY <1>4 DEF Start, TypeInv, TypeOK, Contents
  <2> QED BY <1>4, <2>1 DEF Start, TypeInv, TypeOK, stateFile, assembly
<1>5. CASE Ends
  <2>1. At \in Parts
    BY <1>5, AtTyped DEF Ends
  <2>2. content' \in [Parts -> Contents]
    BY <1>5, <2>1, WriteTyped DEF Ends, TypeInv, TypeOK
  <2>3. fits' \in Nat /\ fits <= fits' /\ hub' \in 0..fits'
    BY <1>5, FittedTyped DEF Ends, TypeInv, TypeOK
  <2>4. orphans' \subseteq Orphans
    BY <1>5, LateTyped DEF Ends, TypeInv, TypeOK
  <2>5. {recorded, hub, merged}' \subseteq 0..fits'
    BY <1>5, <2>3 DEF Ends, TypeInv, TypeOK, stateFile, assembly
  <2>6. pc' = "part" /\ work' = work /\ index' \in 1..Len(PartsOf[work]) + 1 /\ index' \in Nat
    BY <1>5, PartsTyped DEF Ends, TypeInv
  <2> QED BY <1>5, <2>2, <2>3, <2>4, <2>5, <2>6 DEF Ends, TypeInv, TypeOK, stateFile, assembly
<1>6. CASE TimesOut
  <2>1. content' \in [Parts -> Contents]
    BY <1>6, ContentTyped DEF TimesOut, TypeInv, TypeOK
  <2>2. pc' = "part" /\ work' = work /\ index' \in 1..Len(PartsOf[work]) + 1 /\ index' \in Nat
    BY <1>6, PartsTyped DEF TimesOut, TypeInv
  <2> QED BY <1>6, <2>1, <2>2 DEF TimesOut, TypeInv, TypeOK, stateFile, assembly
<1>7. CASE Fail
  <2>1. status' \in [Stages -> Statuses]
    BY <1>7 DEF Fail, TypeInv, TypeOK, Statuses
  <2>2. Leave /\ UNCHANGED <<recorded, outputs, assembly, orphans, spared, launches>>
    BY <1>7 DEF Fail
  <2> QED BY <2>1, <2>2, LeaveTyped DEF TypeInv, TypeOK, outputs, assembly
<1>8. ASSUME NEW s \in Stages, Begin(s)
      PROVE  TypeInv'
  <2>1. content' \in [Parts -> Contents]
    BY <1>8 DEF Begin, TypeInv, TypeOK, Contents
  <2>2. status' \in [Stages -> Statuses]
    BY <1>8 DEF Begin, TypeInv, TypeOK, Statuses
  <2>3. {recorded, hub, merged}' \subseteq 0..fits'
    BY <1>8 DEF Begin, TypeInv, TypeOK, assembly
  <2>4. work' \in Works /\ index' = 1 /\ pc' = "part" /\ todo' \subseteq Stages
    BY <1>8 DEF Begin, TypeInv, TypeOK, Works
  <2>5. spared' \subseteq Stages
    BY <1>8 DEF Begin, TypeInv, TypeOK
  <2> QED BY <1>8, <2>1, <2>2, <2>3, <2>4, <2>5, PartsTyped DEF Begin, TypeInv, TypeOK, assembly
<1>9. CASE StageDone
  <2>1. status' \in [Stages -> Statuses]
    BY <1>9 DEF StageDone, TypeInv, TypeOK, Statuses
  <2> QED BY <1>9, <2>1 DEF StageDone, TypeInv, TypeOK, outputs, assembly
<1>10. CASE RunDone \/ Killed
  <2>1. Leave /\ UNCHANGED <<stateFile, outputs, assembly, spared, launches>>
    BY <1>10 DEF RunDone, Killed
  <2>2. orphans' \subseteq Orphans
    BY <1>10, AtTyped DEF RunDone, Killed, TypeInv, TypeOK
  <2> QED BY <2>1, <2>2, LeaveTyped DEF TypeInv, TypeOK, stateFile, outputs, assembly
<1>11. CASE MoveAside
  <2>1. content' \in [Parts -> Contents]
    BY <1>11 DEF MoveAside, TypeInv, TypeOK, Contents
  <2> QED BY <1>11, <2>1 DEF MoveAside, TypeInv, TypeOK, stateFile, assembly
<1>12. CASE SwapIn
  <2> DEFINE swapped == [content EXCEPT
               !["hub"] = content["hub.reencode"], !["hub.reencode"] = "none",
               !["hub-v2"] = content["hub-v2.reencode"], !["hub-v2.reencode"] = "none"]
  <2>1. swapped \in [Parts -> Contents]
    BY HubParts DEF TypeInv, TypeOK, Contents
  <2>2. content' = Replaced(swapped, "reencode")
    BY <1>12 DEF SwapIn
  <2>3. content' \in [Parts -> Contents]
    <3> HIDE DEF swapped
    <3> QED BY <2>1, <2>2, ContentTyped
  <2>4. {recorded, hub, merged}' \subseteq 0..fits' /\ fits' \in Nat
    BY <1>12 DEF SwapIn, TypeInv, TypeOK, stateFile, assembly
  <2>5. orphans' \subseteq Orphans
    BY <1>12, LateTyped DEF SwapIn, TypeInv, TypeOK
  <2> HIDE DEF swapped
  <2> QED BY <1>12, <2>3, <2>4, <2>5 DEF SwapIn, TypeInv, TypeOK, stateFile, assembly
<1>13. CASE Reencoded
  <2>1. status' \in [Stages -> Statuses]
    BY <1>13 DEF Reencoded, TypeInv, TypeOK, Statuses
  <2>2. Leave /\ recorded' = hub /\ UNCHANGED <<outputs, assembly, orphans, spared, launches>>
    BY <1>13 DEF Reencoded
  <2> QED BY <2>1, <2>2, LeaveTyped DEF TypeInv, TypeOK, outputs, assembly
<1>14. CASE RecordAssembly
  <2>1. Leave /\ listed' = TRUE /\ UNCHANGED <<stateFile, outputs, merged, orphans, spared, launches>>
    BY <1>14 DEF RecordAssembly
  <2> QED BY <2>1, LeaveTyped DEF TypeInv, TypeOK, stateFile, outputs
<1>15. ASSUME NEW r \in Requests, Run(r)
       PROVE  TypeInv'
  <2>1. r.redo \subseteq Stages
    BY CampaignAssumption
  <2>2. status' \in [Stages -> Statuses]
    BY <1>15 DEF Run, Restarted, TypeInv, TypeOK, Statuses
  <2>3. todo' \subseteq Stages
    BY <1>15 DEF Run, Planned
  <2>4. spared' \subseteq Stages
    BY <1>15, <2>1, MarkedTyped DEF Run, TypeInv, TypeOK
  <2>5. launches' \in 0..MaxLaunches
    BY <1>15, CampaignAssumption DEF Run, TypeInv, TypeOK
  <2> QED BY <1>15, <2>1, <2>2, <2>3, <2>4, <2>5 DEF Run, TypeInv, TypeOK, outputs, assembly
<1>16. ASSUME NEW r \in Requests, Reencode(r)
       PROVE  TypeInv'
  <2>1. content' \in [Parts -> Contents]
    BY <1>16 DEF Reencode, TypeInv, TypeOK, Contents
  <2>2. launches' \in 0..MaxLaunches
    BY <1>16, CampaignAssumption DEF Reencode, TypeInv, TypeOK
  <2>3. work' \in Works /\ index' = 1 /\ pc' = "part"
    BY <1>16 DEF Reencode, Works
  <2> QED BY <1>16, <2>1, <2>2, <2>3, PartsTyped DEF Reencode, TypeInv, TypeOK, stateFile, assembly
<1>17. ASSUME NEW r \in Requests, Assemble(r)
       PROVE  TypeInv'
  <2>1. launches' \in 0..MaxLaunches
    BY <1>17, CampaignAssumption DEF Assemble, TypeInv, TypeOK
  <2> QED BY <1>17, <2>1 DEF Assemble, TypeInv, TypeOK, stateFile, outputs, idle
<1>18. ASSUME NEW o \in orphans, OrphanEnds(o)
       PROVE  TypeInv'
  <2>1. o.part \in Parts /\ orphans \ {o} \in SUBSET Orphans
    BY <1>18 DEF TypeInv, TypeOK
  <2>2. orphans' \subseteq Orphans /\ command' \in BOOLEAN
    BY <1>18, <2>1, LateTyped DEF OrphanEnds, TypeInv
  <2>3. content' \in [Parts -> Contents]
    BY <1>18, <2>1, WriteTyped DEF OrphanEnds, outputs, TypeInv, TypeOK
  <2>4. fits' \in Nat /\ fits <= fits' /\ hub' \in 0..fits'
    BY <1>18, FittedTyped DEF OrphanEnds, outputs, TypeInv, TypeOK
  <2>5. {recorded, hub, merged}' \subseteq 0..fits'
    BY <1>18, <2>4 DEF OrphanEnds, TypeInv, TypeOK, stateFile, assembly
  <2> QED BY <1>18, <2>2, <2>3, <2>4, <2>5 DEF OrphanEnds, TypeInv, TypeOK, stateFile, assembly
<1> QED BY <1>1, <1>2, <1>3, <1>4, <1>5, <1>6, <1>7, <1>8, <1>9, <1>10, <1>11, <1>12, <1>13, <1>14,
           <1>15, <1>16, <1>17, <1>18 DEF Next, Step

\* The shape at the start.
LEMMA InitTyped == Init => TypeInv
<1> SUFFICES ASSUME Init
             PROVE  TypeInv
  OBVIOUS
<1>1. status \in [Stages -> Statuses] /\ content \in [Parts -> Contents]
  BY DEF Init, Statuses, Contents
<1>2. launches \in 0..MaxLaunches
  BY CampaignAssumption DEF Init
<1>3. {recorded, hub, merged} \subseteq 0..fits /\ fits \in Nat /\ index \in Nat
  BY DEF Init
<1>4. /\ pc = "idle" /\ work \in Works \cup {"none"}
      /\ redo \subseteq Stages /\ todo \subseteq Stages /\ spared \subseteq Stages
  BY DEF Init
<1>5. orphans \subseteq [part: Parts, old: BOOLEAN]
  BY DEF Init
<1>6. listed \in BOOLEAN /\ command \in BOOLEAN
  BY DEF Init
<1> QED BY <1>1, <1>2, <1>3, <1>4, <1>5, <1>6 DEF TypeInv, TypeOK

\* The shape of the state, for every set of requests (state.json, the outputs, a process).
THEOREM TypeCorrect == Spec => []TypeOK
<1>1. Init => TypeInv
  BY InitTyped
<1>2. TypeInv /\ [Next]_vars => TypeInv'
  BY NextTyped
<1>3. TypeInv => TypeOK
  BY DEF TypeInv
<1> QED BY <1>1, <1>2, <1>3, PTL DEF Spec

-----------------------------------------------------------------------------
(* Parts *)

\* What each work writes (PartsOf), as sets.
LEMMA PartSets ==
  /\ \A s \in {"render", "tables", "recurrent", "report"} : PartSet[s] = {s}
  /\ PartSet["capture"] = {"held", "train"}
  /\ PartSet["onboard"] = {"hub", "hub-v2"}
  /\ PartSet["evaluate"] = {"into", "out"}
  /\ PartSet["reencode"] = {"hub.reencode", "hub-v2.reencode"}
<1>1. Stages \cup {"reencode"} = Works
  BY DEF Works
<1>2. ASSUME NEW s \in {"render", "tables", "recurrent", "report"}
      PROVE  PartSet[s] = {s}
  <2>1. PartsOf[s] = <<s>>
    BY DEF PartsOf
  <2> QED BY <1>1, <2>1, StageSet DEF PartSet
<1>3. PartSet["capture"] = {"held", "train"}
  <2>1. PartsOf["capture"] = <<"held", "train">>
    BY DEF PartsOf
  <2> QED BY <1>1, <2>1, StageSet DEF PartSet
<1>4. PartSet["onboard"] = {"hub", "hub-v2"}
  <2>1. PartsOf["onboard"] = <<"hub", "hub-v2">>
    BY DEF PartsOf
  <2> QED BY <1>1, <2>1, StageSet DEF PartSet
<1>5. PartSet["evaluate"] = {"into", "out"}
  <2>1. PartsOf["evaluate"] = <<"into", "out">>
    BY DEF PartsOf
  <2> QED BY <1>1, <2>1, StageSet DEF PartSet
<1>6. PartSet["reencode"] = {"hub.reencode", "hub-v2.reencode"}
  <2>1. PartsOf["reencode"] = <<"hub.reencode", "hub-v2.reencode">>
    BY DEF PartsOf
  <2> QED BY <1>1, <2>1, StageSet DEF PartSet
<1> QED BY <1>2, <1>3, <1>4, <1>5, <1>6

\* A part is written by one work.
LEMMA PartOfOne ==
  ASSUME NEW s \in Works, NEW p \in PartSet[s]
  PROVE  p \in Parts /\ StageOf[p] = s
<1>1. ASSUME NEW t \in Works, p \in PartSet[t]
      PROVE  t = s
  BY <1>1, PartSets, StageSet DEF Works
<1>2. p \in Parts
  BY DEF Parts
<1>3. StageOf[p] = CHOOSE t \in Works : p \in PartSet[t]
  BY <1>2 DEF StageOf
<1> QED BY <1>1, <1>2, <1>3

\* Every part belongs to its work.
LEMMA PartOfWork ==
  ASSUME NEW p \in Parts
  PROVE  StageOf[p] \in Works /\ p \in PartSet[StageOf[p]]
<1>1. PICK s \in Works : p \in PartSet[s]
  BY DEF Parts
<1> QED BY <1>1, PartOfOne

\* The part a process is at belongs to its work.
LEMMA PartAt ==
  ASSUME TypeInv, pc \in {"part", "locks", "command"}, index <= Len(PartsOf[work])
  PROVE  At \in PartSet[work] /\ At \in Parts /\ StageOf[At] = work /\ work \in Works
<1>1. work \in Works /\ index \in 1..Len(PartsOf[work])
  BY DEF TypeInv, TypeOK
<1>2. At \in PartSet[work]
  <2>1. DOMAIN PartsOf[work] = 1..Len(PartsOf[work])
    BY <1>1, StageSet DEF Works, PartsOf
  <2> QED BY <1>1, <2>1 DEF PartSet, At
<1> QED BY <1>1, <1>2, PartOfOne

\* And a process at a command is at a part.
LEMMA CommandAt ==
  ASSUME TypeInv, pc \in {"locks", "command"}
  PROVE  At \in PartSet[work] /\ At \in Parts /\ StageOf[At] = work /\ work \in Works
<1>1. index <= Len(PartsOf[work])
  BY PartsTyped DEF TypeInv
<1> QED BY <1>1, PartAt

\* A work that starts with a locked command keeps nothing.
LEMMA LockedParts ==
  ASSUME NEW s \in LockedWorks
  PROVE  /\ s \in Works /\ s \notin Keepers
         /\ Locked(PartsOf[s][1])
         /\ \A p \in PartSet[s] : ~Chunk(p) /\ ~Direction(p)
<1>1. s \in Works /\ s \notin Keepers
  BY StageSet DEF LockedWorks, Works, Keepers
<1>2. PartsOf[s][1] \in {"hub", "tables", "recurrent", "hub.reencode"}
  <2>1. /\ PartsOf["onboard"] = <<"hub", "hub-v2">> /\ PartsOf["tables"] = <<"tables">>
        /\ PartsOf["recurrent"] = <<"recurrent">>
        /\ PartsOf["reencode"] = <<"hub.reencode", "hub-v2.reencode">>
    BY DEF PartsOf
  <2> QED BY <2>1 DEF LockedWorks
<1>3. Locked(PartsOf[s][1])
  BY <1>2 DEF Locked, InProcess
<1>4. \A p \in PartSet[s] : ~Chunk(p) /\ ~Direction(p)
  BY PartSets DEF Chunk, Direction, LockedWorks
<1> QED BY <1>1, <1>3, <1>4

-----------------------------------------------------------------------------
(* Commands that outlive their process *)

\* A command left running keeps its part.
LEMMA LatePart ==
  ASSUME TypeInv, NEW S \in SUBSET orphans, NEW s, NEW o \in LateOrphans(S, s)
  PROVE  \E q \in S : o.part = q.part
<1>1. PICK q \in S : o = [q EXCEPT !.old = @ \/ Outdated(q.part, s)]
  BY DEF LateOrphans
<1>2. q \in [part: Parts, old: BOOLEAN]
  BY DEF TypeInv, TypeOK
<1> QED BY <1>1, <1>2

\* Steps that leave no new command behind, finish no stage and start no first command.
LEMMA LockKeeps ==
  ASSUME LockInv,
         \A o \in orphans' : \E q \in orphans : o.part = q.part,
         todo' \cup {work'} \subseteq todo \cup {work, "none", "reencode"},
         StagesDone' \subseteq StagesDone,
         work' \in LockedWorks /\ (pc' \in {"command", "aside", "swapped"} \/ index' >= 2)
           => work' = work /\ (pc \in {"command", "aside", "swapped"} \/ index >= 2)
  PROVE  LockInv'
<1>1. \A s \in (todo \cup {work} \cup {StageOf[o.part] : o \in orphans})' : applicable(s)
  BY DEF LockInv, applicable
<1>2. \A o \in orphans' : ~InProcess(o.part)
  BY DEF LockInv
<1>3. work' \in LockedWorks /\ (pc' \in {"command", "aside", "swapped"} \/ index' >= 2)
        => \A o \in orphans' : ~Locked(o.part)
  BY DEF LockInv
<1>4. \A s \in LockedWorks \cap StagesDone' : \A o \in orphans' : Locked(o.part) => StageOf[o.part] # s
  BY DEF LockInv
<1> QED BY <1>1, <1>2, <1>3, <1>4 DEF LockInv

\* No step lets a locked command run beside one that a killed process left.
LEMMA LockStep ==
  ASSUME TypeInv, RunInv, LockInv, [Next]_vars
  PROVE  LockInv'
<1> USE DEF RunInv
<1>1. CASE UNCHANGED vars
  BY <1>1, LockKeeps DEF vars, StagesDone
<1>2. CASE Keep
  <2>1. work \notin LockedWorks
    BY <1>2, PartAt, LockedParts DEF Keep, Keepable
  <2> QED BY <1>2, <2>1, LockKeeps DEF Keep, stateFile, StagesDone
<1>3. CASE Prepare
  BY <1>3, LockKeeps DEF Prepare, stateFile, StagesDone
<1>4. CASE Start
  <2>1. ASSUME work \in LockedWorks
        PROVE  \A o \in orphans : ~Locked(o.part)
    <3>1. CASE index >= 2
      BY <2>1, <3>1 DEF LockInv
    <3>2. CASE index < 2
      <4>1. At = PartsOf[work][1]
        BY <1>4, <3>2 DEF Start, TypeInv, At
      <4> QED BY <1>4, <2>1, <4>1, LockedParts DEF Start, LocksFree
    <3> QED BY <3>1, <3>2 DEF TypeInv
  <2> QED BY <1>4, <2>1 DEF Start, LockInv, stateFile, StagesDone
<1>5. CASE Ends
  <2>1. \A o \in orphans' : \E q \in orphans : o.part = q.part
    BY <1>5, LatePart DEF Ends
  <2> QED BY <1>5, <2>1, LockKeeps DEF Ends, stateFile, StagesDone
<1>6. CASE TimesOut
  BY <1>6, LockKeeps DEF TimesOut, stateFile, StagesDone
<1>7. CASE Fail \/ RunDone \/ RecordAssembly \/ Reencoded
  <2>1. Leave /\ UNCHANGED orphans
    BY <1>7 DEF Fail, RunDone, RecordAssembly, Reencoded
  <2>2. StagesDone' \subseteq StagesDone
    BY <1>7 DEF Fail, RunDone, RecordAssembly, Reencoded, StagesDone, stateFile
  <2>3. "none" \notin LockedWorks
    BY DEF LockedWorks
  <2> QED BY <2>1, <2>2, <2>3, LockKeeps DEF Leave
<1>8. ASSUME NEW s \in Stages, Begin(s)
      PROVE  LockInv'
  <2>1. /\ pc' = "part" /\ index' = 1 /\ work' = s /\ s \in todo /\ todo' \subseteq todo
        /\ UNCHANGED orphans
    BY <1>8 DEF Begin
  <2>2. StagesDone' \subseteq StagesDone
    BY <1>8 DEF Begin, StagesDone
  <2> QED BY <2>1, <2>2 DEF LockInv
<1>9. CASE StageDone
  <2>1. /\ work' = "none" /\ todo' = todo /\ work \in Stages /\ UNCHANGED orphans
        /\ StagesDone' \subseteq StagesDone \cup {work}
    BY <1>9 DEF StageDone, StagesDone
  <2>2. work \in LockedWorks => \A o \in orphans : ~Locked(o.part)
    <3>1. index >= 2
      BY <1>9, <2>1, PartsTyped DEF StageDone, TypeInv, Works
    <3> QED BY <3>1 DEF LockInv
  <2>3. "none" \notin LockedWorks /\ applicable("none")
    BY DEF LockedWorks, applicable
  <2> QED BY <2>1, <2>2, <2>3 DEF LockInv
<1>10. CASE Killed
  <2>1. Leave /\ UNCHANGED status
    BY <1>10 DEF Killed, stateFile
  <2>2. ASSUME NEW o \in orphans', o \notin orphans
        PROVE  ~InProcess(o.part) /\ StageOf[o.part] = work /\ (work \in Stages => work \notin StagesDone)
    <3>1. o = [part |-> At, old |-> command] /\ pc = "command" /\ ~InProcess(At)
      BY <1>10, <2>2 DEF Killed
    <3>2. StageOf[At] = work
      BY <3>1, CommandAt
    <3> QED BY <3>1, <3>2 DEF StagesDone
  <2>3. "none" \notin LockedWorks /\ applicable("none") /\ StagesDone' = StagesDone
    BY <2>1 DEF LockedWorks, applicable, StagesDone
  <2>4. StagesDone \subseteq Stages
    BY DEF StagesDone
  <2> QED BY <2>1, <2>2, <2>3, <2>4 DEF LockInv, Leave
<1>11. CASE MoveAside \/ SwapIn
  <2>1. \A o \in orphans' : \E q \in orphans : o.part = q.part
    BY <1>11, LatePart DEF MoveAside, SwapIn
  <2>2. pc \in {"command", "aside", "swapped"} \/ index >= 2
    <3>1. CASE MoveAside
      BY <3>1, PartsTyped DEF MoveAside, TypeInv, Works
    <3>2. CASE SwapIn
      BY <3>2 DEF SwapIn
    <3> QED BY <1>11, <3>1, <3>2
  <2> QED BY <1>11, <2>1, <2>2, LockKeeps DEF MoveAside, SwapIn, stateFile, StagesDone
<1>12. ASSUME NEW r \in Requests, Run(r)
       PROVE  LockInv'
  <2>1. /\ work' = "none" /\ UNCHANGED orphans
        /\ \A s \in todo' : applicable(s)
    BY <1>12 DEF Run, Planned
  <2>2. StagesDone' \subseteq StagesDone
    BY <1>12 DEF Run, Restarted, StagesDone
  <2>3. "none" \notin LockedWorks /\ applicable("none")
    BY DEF LockedWorks, applicable
  <2> QED BY <2>1, <2>2, <2>3 DEF LockInv
<1>13. ASSUME NEW r \in Requests, Reencode(r) \/ Assemble(r)
       PROVE  LockInv'
  <2>1. "none" \notin LockedWorks
    BY DEF LockedWorks
  <2> QED BY <1>13, <2>1, LockKeeps DEF Reencode, Assemble, stateFile, StagesDone, idle
<1>14. ASSUME NEW o \in orphans, OrphanEnds(o)
       PROVE  LockInv'
  <2>1. \A q \in orphans' : \E x \in orphans : q.part = x.part
    BY <1>14, LatePart DEF OrphanEnds
  <2> QED BY <1>14, <2>1, LockKeeps DEF OrphanEnds, stateFile, StagesDone
<1> QED BY <1>1, <1>2, <1>3, <1>4, <1>5, <1>6, <1>7, <1>8, <1>9, <1>10, <1>11, <1>12, <1>13, <1>14
        DEF Next, Step

-----------------------------------------------------------------------------
(* Assembled hubs *)

\* The fit that a finished onboarding recorded is the one the hub holds.
HubInv == pc \notin {"aside", "swapped"} /\ status["onboard"] = "done" => recorded = hub

\* Only an onboarding fits the hub.
LEMMA HubFit ==
  ASSUME NEW p, Fitted(p), p = "hub" => status["onboard"] # "done"
  PROVE  status["onboard"] = "done" => hub' = hub
BY DEF Fitted

\* No step leaves an onboarding done whose hub another fit has replaced.
LEMMA HubStep ==
  ASSUME TypeInv, RunInv, LockInv, HubInv, "swap" \notin Faults, [Next]_vars
  PROVE  HubInv'
<1>0. /\ "onboard" \in Stages \cap LockedWorks /\ StageOf["hub"] = "onboard" /\ Locked("hub")
      /\ status \in [Stages -> Statuses]
      /\ work = "onboard" => status["onboard"] = "running"
  BY StageSet, PartSets, PartOfOne DEF RunInv, LockedWorks, Works, Locked, InProcess
<1>1. CASE UNCHANGED vars
  BY <1>1 DEF vars, HubInv
<1>2. CASE Keep \/ Prepare \/ Start \/ TimesOut
  BY <1>2 DEF Keep, Prepare, Start, TimesOut, HubInv, stateFile, outputs
<1>3. CASE Ends
  <2>1. At = "hub" => status["onboard"] # "done"
    BY <1>0, <1>3, CommandAt DEF Ends
  <2> QED BY <1>3, <2>1, HubFit DEF Ends, HubInv, stateFile
<1>4. CASE Fail \/ RunDone \/ RecordAssembly \/ Killed
  <2>1. /\ UNCHANGED <<recorded, hub>> /\ pc \notin {"aside", "swapped"}
        /\ status'["onboard"] = "done" => status["onboard"] = "done"
    BY <1>0, <1>4 DEF Fail, RunDone, RecordAssembly, Killed, stateFile, outputs
  <2> QED BY <2>1 DEF HubInv
<1>5. ASSUME NEW s \in Stages, Begin(s)
      PROVE  HubInv'
  BY <1>0, <1>5 DEF Begin, HubInv
<1>6. CASE StageDone
  BY <1>0, <1>6 DEF StageDone, HubInv, outputs
<1>7. CASE MoveAside \/ SwapIn
  BY <1>7 DEF MoveAside, SwapIn, HubInv
<1>8. CASE Reencoded
  BY <1>8 DEF Reencoded, HubInv, outputs
<1>9. ASSUME NEW r \in Requests, Run(r) \/ Reencode(r) \/ Assemble(r)
      PROVE  HubInv'
  <2>1. /\ UNCHANGED <<recorded, hub>> /\ pc \notin {"aside", "swapped"}
        /\ status'["onboard"] = "done" => status["onboard"] = "done"
    BY <1>0, <1>9 DEF Run, Restarted, Reencode, Assemble, stateFile, outputs
  <2> QED BY <2>1 DEF HubInv
<1>10. ASSUME NEW o \in orphans, OrphanEnds(o)
       PROVE  HubInv'
  <2>1. status["onboard"] = "done" => o.part # "hub"
    BY <1>0, <1>10 DEF LockInv, StagesDone
  <2>2. status["onboard"] = "done" => hub' = hub
    BY <1>10, <2>1, HubFit DEF OrphanEnds, outputs
  <2> QED BY <1>10, <2>2 DEF OrphanEnds, HubInv, stateFile
<1> QED BY <1>1, <1>2, <1>3, <1>4, <1>5, <1>6, <1>7, <1>8, <1>9, <1>10 DEF Next, Step

\* The invariants so far hold at the start.
LEMMA InitLocks == Init => TypeInv /\ RunInv /\ LockInv /\ HubInv
<1>1. Init => LockInv
  <2>1. applicable("none") /\ "none" \notin LockedWorks
    BY DEF applicable, LockedWorks
  <2> QED BY <2>1 DEF Init, LockInv, StagesDone
<1>2. Init => HubInv
  BY DEF Init, HubInv
<1> QED BY <1>1, <1>2, InitTyped, InitRun

\* An assembled hub that is not the model's hub any more is flagged (stale_hubs), provided
\* that no process dies between the renames of a re-encoding and the record of it.
THEOREM Flagging ==
  ASSUME "swap" \notin Faults
  PROVE  Spec => []OutdatedHubsFlagged
<1>1. TypeInv /\ RunInv /\ LockInv /\ HubInv /\ [Next]_vars => (TypeInv /\ RunInv /\ LockInv /\ HubInv)'
  BY NextTyped, NextSimulates, LockStep, HubStep
<1>2. HubInv => OutdatedHubsFlagged
  BY DEF HubInv, OutdatedHubsFlagged, StaleHub
<1> QED BY InitLocks, <1>1, <1>2, PTL DEF Spec


-----------------------------------------------------------------------------
(* What a command replaces *)

\* A work's parts in their order, each once.
LEMMA PartsInOrder ==
  ASSUME NEW s \in Works
  PROVE  /\ PartSet[s] = {PartsOf[s][i] : i \in 1..Len(PartsOf[s])}
         /\ \A i, j \in 1..Len(PartsOf[s]) : PartsOf[s][i] = PartsOf[s][j] => i = j
<1>1. DOMAIN PartsOf[s] = 1..Len(PartsOf[s])
  BY StageSet DEF Works, PartsOf
<1>2. \A i, j \in 1..Len(PartsOf[s]) : PartsOf[s][i] = PartsOf[s][j] => i = j
  <2>1. s \in {"render", "tables", "recurrent", "report"} \/ s = "capture" \/ s = "onboard"
          \/ s = "evaluate" \/ s = "reencode"
    BY StageSet DEF Works
  <2>2. CASE s \in {"render", "tables", "recurrent", "report"}
    <3>1. PartsOf[s] = <<s>>
      BY <2>2 DEF PartsOf
    <3> QED BY <3>1
  <2>3. CASE s = "capture"
    <3>1. PartsOf[s] = <<"held", "train">>
      BY <2>3 DEF PartsOf
    <3> QED BY <3>1
  <2>4. CASE s = "onboard"
    <3>1. PartsOf[s] = <<"hub", "hub-v2">>
      BY <2>4 DEF PartsOf
    <3> QED BY <3>1
  <2>5. CASE s = "evaluate"
    <3>1. PartsOf[s] = <<"into", "out">>
      BY <2>5 DEF PartsOf
    <3> QED BY <3>1
  <2>6. CASE s = "reencode"
    <3>1. PartsOf[s] = <<"hub.reencode", "hub-v2.reencode">>
      BY <2>6 DEF PartsOf
    <3> QED BY <3>1
  <2> QED BY <2>1, <2>2, <2>3, <2>4, <2>5, <2>6
<1> QED BY <1>1, <1>2 DEF PartSet

\* What each stage reads (REQUIRES) that is in question here.
LEMMA ReadSets ==
  /\ \A s \in Stages : Reads[s] \subseteq Stages
  /\ Reads["capture"] = {"render"} /\ Reads["onboard"] = {"capture"}
  /\ Reads["evaluate"] \subseteq LockedWorks /\ Reads["recurrent"] = {}
  /\ "onboard" \in Reads["evaluate"]
BY StageSet DEF Reads, REQUIRES, applicable, LockedWorks

\* Every stage of S applies, and stage s is done if one of S is, or if one of S but s itself has
\* what it reads.
Leads(s, S) ==
  /\ S \in SUBSET Stages
  /\ \A t \in S : /\ applicable(t)
                  /\ t \in StagesDone => s \in StagesDone
                  /\ t # s /\ Reads[t] \subseteq StagesDone => s \in StagesDone

\* A round of Above keeps that.
LEMMA AboveLeads ==
  ASSUME RunInv, NEW s, NEW S, Leads(s, S)
  PROVE  Leads(s, Above(S))
<1> SUFFICES ASSUME NEW t \in Above(S) \ S
             PROVE  /\ t \in Stages /\ applicable(t)
                    /\ Reads[t] \subseteq StagesDone => s \in StagesDone
                    /\ t \in StagesDone => s \in StagesDone
  BY DEF Leads, Above
<1>1. PICK r \in S : t \in Stages /\ r \in REQUIRES[t]
  BY DEF Above
<1>2. t # "recurrent"
  BY <1>1 DEF REQUIRES
<1>3. r \in Reads[t]
  BY <1>1 DEF Leads, Reads
<1>4. t \in StagesDone => Reads[t] \subseteq StagesDone
  BY DEF RunInv
<1> QED BY <1>1, <1>2, <1>3, <1>4 DEF Leads, applicable

\* Nothing downstream of a stage that is not done has what it reads, let alone is done.
LEMMA UpstreamDone ==
  ASSUME RunInv, NEW s \in Stages, applicable(s), NEW t \in Downstream[s],
         Reads[t] \subseteq StagesDone \/ t \in StagesDone
  PROVE  s \in StagesDone
<1>1. Leads(s, {s})
  BY DEF Leads
<1>2. Leads(s, Above(Above(Above(Above(Above({s}))))))
  BY <1>1, AboveLeads
<1>3. t # s /\ t \in Above(Above(Above(Above(Above({s})))))
  BY DEF Downstream
<1> QED BY <1>2, <1>3 DEF Leads

\* A stage that misses something it reads.
Withdrawn(t) == t \in Stages /\ t \notin StagesDone /\ ~(Reads[t] \subseteq StagesDone)

\* A command of a stage that is not done replaces nothing a finished stage was computed from.
LEMMA WriteSpares ==
  ASSUME TypeInv, RunInv, NEW p \in Parts, NEW late, Write(p, late),
         StageOf[p] \in Stages => StageOf[p] \notin StagesDone /\ applicable(StageOf[p])
  PROVE  /\ content'[p] = IF late \/ ~InputsCurrent(StageOf[p]) THEN "old" ELSE "current"
         /\ \A q \in Parts \ {p} :
              content'[q] = content[q]
                \/ (content[q] = "current" /\ content'[q] = "old" /\ Withdrawn(StageOf[q]))
         /\ StageOf[p] = "reencode" => \A q \in Parts \ {p} : content'[q] = content[q]
<1> DEFINE s == StageOf[p]
           made == IF late \/ ~InputsCurrent(s) THEN "old" ELSE "current"
           written == [content EXCEPT ![p] = made]
<1>1. s \in Works /\ content \in [Parts -> Contents]
  BY PartOfWork DEF TypeInv, TypeOK
<1>2. /\ content' = written \/ (s # "reencode" /\ content' = Replaced(written, s))
      /\ s = "reencode" => content' = written
  BY DEF Write
<1>3. /\ written[p] = made
      /\ \A q \in Parts \ {p} : written[q] = content[q]
  BY <1>1
<1>4. CASE content' = written
  BY <1>3, <1>4
<1>5. CASE s # "reencode" /\ content' = Replaced(written, s)
  <2>1. s \in Stages
    BY <1>1, <1>5 DEF Works
  <2>2. ASSUME NEW q \in Parts, Outdated(q, s)
        PROVE  q # p /\ Withdrawn(StageOf[q])
    <3>1. StageOf[q] \in Downstream[s] /\ StageOf[q] # "reencode"
      BY <1>5, <2>2 DEF Outdated
    <3>2. s \notin StagesDone /\ applicable(s)
      BY <2>1
    <3>3. StageOf[q] # s
      BY <2>1, <3>1 DEF Downstream
    <3>4. StageOf[q] \in Stages
      BY <3>1, PartOfWork DEF Works
    <3> HIDE DEF s
    <3> QED BY <2>1, <3>1, <3>2, <3>3, <3>4, UpstreamDone DEF Withdrawn, s
  <2>3. \A q \in Parts : content'[q] = IF Outdated(q, s) /\ written[q] = "current" THEN "old"
                                       ELSE written[q]
    BY <1>5 DEF Replaced
  <2> HIDE DEF s, made, written
  <2>4. content'[p] = made
    BY <1>3, <2>2, <2>3
  <2>5. \A q \in Parts \ {p} :
          content'[q] = content[q]
            \/ (content[q] = "current" /\ content'[q] = "old" /\ Withdrawn(StageOf[q]))
    BY <1>3, <2>2, <2>3
  <2> QED BY <1>5, <2>4, <2>5 DEF s, made
<1> HIDE DEF s, made, written
<1> QED BY <1>2, <1>4, <1>5 DEF s, made

\* What a work reads is current when the stages it reads are done and current.
LEMMA InputsDone ==
  ASSUME RunInv, DoneReady(Stages), NEW s \in Works,
         s \in Stages => Reads[s] \subseteq StagesDone,
         s = "reencode" => status["onboard"] = "done"
  PROVE  InputsCurrent(s)
<1>1. CASE s \in Stages
  <2>1. s # "reencode"
    BY <1>1, StageSet
  <2> QED BY <1>1, <2>1, ReadSets DEF InputsCurrent, DoneReady
<1>2. CASE s = "reencode"
  <2>1. "onboard" \in StagesDone
    BY <1>2, StageSet DEF StagesDone
  <2>2. "capture" \in StagesDone
    BY <2>1, ReadSets DEF RunInv
  <2> QED BY <1>2, <2>1, <2>2 DEF InputsCurrent, DoneReady, StagesDone
<1> QED BY <1>1, <1>2 DEF Works

\* So are the inputs of a process at a command.
LEMMA CommandInputs ==
  ASSUME TypeInv, RunInv, CurrentInv, pc \in {"part", "locks", "command"}
  PROVE  InputsCurrent(work)
<1>1. DoneReady(Stages)
  BY DEF CurrentInv
<1> QED BY <1>1, InputsDone DEF TypeInv, RunInv, CurrentInv

\* And those of an evaluation whose stages are done.
LEMMA EvaluationInputs ==
  ASSUME RunInv, DoneReady(Stages), Reads["evaluate"] \subseteq StagesDone
  PROVE  InputsCurrent("evaluate")
<1>1. "evaluate" \in Stages /\ "evaluate" \in Works
  BY StageSet DEF Works
<1> QED BY <1>1, InputsDone

\* Everything this section shows of a state.
Consistent == TypeInv /\ RunInv /\ LockInv /\ KeepInv /\ LateInv /\ CurrentInv

\* A command left over from a stage that is done, or behind a swap, writes nothing new.
LEMMA OrphanHarmless ==
  ASSUME Consistent, NEW o \in orphans, StageOf[o.part] \in StagesDone,
         ~Chunk(o.part), Locked(o.part) \/ content[o.part] = "partial", Write(o.part, o.old)
  PROVE  pc \notin {"aside", "swapped"} /\ content' = content
<1> DEFINE p == o.part
           s == StageOf[p]
<1> USE DEF Consistent
<1>1. p \in Parts /\ s \in Works /\ p \in PartSet[s] /\ ~InProcess(p) /\ s \in Stages
  BY PartOfWork DEF TypeInv, TypeOK, LockInv, StagesDone
<1>2. s \notin {"render", "report", "capture", "reencode"}
  BY <1>1, PartSets, StageSet DEF InProcess, Chunk
<1>3. CASE Direction(p)
  <2>1. s = "evaluate" /\ Locked(p)
    BY <1>1, <1>3, PartSets, PartOfOne, StageSet DEF Direction, Locked, Works
  <2>2. pc \notin {"aside", "swapped"}
    BY <2>1 DEF LockInv, RunInv, LockedWorks
  <2>3. Reads["evaluate"] \subseteq StagesDone /\ DoneReady(Stages)
    BY <2>1, <2>2 DEF RunInv, CurrentInv
  <2>4. ~o.old /\ content[p] # "old"
    BY <1>3, <2>3 DEF LateInv
  <2>5. content[p] = "current"
    BY <1>1, <1>3, <2>1, <2>3, <2>4, PartSets DEF DoneReady, Ready
  <2>6. InputsCurrent(s)
    BY <2>1, <2>3, EvaluationInputs
  <2>7. [content EXCEPT ![p] = "current"] = content
    BY <2>5 DEF TypeInv, TypeOK
  <2> QED BY <2>2, <2>4, <2>6, <2>7 DEF Write
<1>4. CASE ~Direction(p)
  <2>1. s \in {"onboard", "tables", "recurrent"}
    BY <1>1, <1>2, <1>4, PartSets, StageSet DEF Direction
  <2>2. ~Locked(p)
    BY <2>1 DEF LockInv, LockedWorks
  <2>3. p = "hub-v2" /\ s = "onboard" /\ content[p] = "partial"
    BY <1>1, <2>1, <2>2, PartSets DEF Locked
  <2>4. pc = "aside" => content[p] = "none"
    BY <2>3 DEF CurrentInv
  <2>5. pc # "aside" => Ready(p)
    BY <1>1, <2>3 DEF CurrentInv, DoneReady
  <2> QED BY <2>3, <2>4, <2>5 DEF Ready
<1> QED BY <1>3, <1>4

\* What the end of a left-over command may change: nothing, a re-encoding's bundles, or the
\* output of a stage that is not done, with what was computed from it.
NothingNew(o) ==
  content' = content /\ orphans' = orphans \ {o} /\ command' = command

NewBundle(o) ==
  /\ StageOf[o.part] = "reencode" /\ o.part \in Parts
  /\ Locked(o.part) \/ content[o.part] = "partial"
  /\ \A q \in Parts \ {o.part} : content'[q] = content[q]
  /\ orphans' = orphans \ {o} /\ command' = command

NewOutput(o) ==
  /\ pc \notin {"aside", "swapped"}
  /\ o.part \in Parts /\ StageOf[o.part] \in Stages
  /\ StageOf[o.part] \notin StagesDone /\ applicable(StageOf[o.part])
  /\ ~Chunk(o.part) /\ (Locked(o.part) \/ content[o.part] = "partial")
  /\ Write(o.part, o.old)
  /\ orphans' = LateOrphans(orphans \ {o}, StageOf[o.part])
  /\ command' = (command \/ (pc = "command" /\ Outdated(At, StageOf[o.part])))

LEMMA OrphanCases ==
  ASSUME Consistent, NEW o \in orphans, OrphanEnds(o)
  PROVE  /\ UNCHANGED <<status, pc, work, redo, todo, index, spared>>
         /\ \A x \in orphans' : \E y \in orphans : x.part = y.part
         /\ NothingNew(o) \/ NewBundle(o) \/ NewOutput(o)
<1> USE DEF Consistent
<1>1. UNCHANGED <<status, pc, work, redo, todo, index, spared>>
  BY DEF OrphanEnds, stateFile
<1>2. \A x \in orphans' : \E y \in orphans : x.part = y.part
  BY LatePart DEF OrphanEnds
<1>3. /\ o.part \in Parts /\ StageOf[o.part] \in Works /\ o.part \in PartSet[StageOf[o.part]]
      /\ applicable(StageOf[o.part]) /\ ~InProcess(o.part)
  BY PartOfWork DEF TypeInv, TypeOK, LockInv
<1> SUFFICES NothingNew(o) \/ NewBundle(o) \/ NewOutput(o)
  BY <1>1, <1>2
<1>4. CASE orphans' = orphans \ {o} /\ UNCHANGED <<outputs, command>>
  BY <1>4 DEF NothingNew, outputs
<1>5. CASE /\ ~Chunk(o.part) /\ (Locked(o.part) \/ content[o.part] = "partial")
           /\ Write(o.part, o.old)
           /\ content' = content \/ StageOf[o.part] = "reencode"
           /\ orphans' = orphans \ {o} /\ UNCHANGED command
  <2>1. CASE StageOf[o.part] = "reencode"
    <3>1. StageOf[o.part] \notin Stages
      BY <2>1, StageSet
    <3> QED BY <1>3, <1>5, <2>1, <3>1, WriteSpares DEF NewBundle
  <2>2. CASE content' = content
    BY <1>5, <2>2 DEF NothingNew
  <2> QED BY <1>5, <2>1, <2>2
<1>6. CASE /\ ~Chunk(o.part) /\ (Locked(o.part) \/ content[o.part] = "partial")
           /\ Write(o.part, o.old)
           /\ content' # content /\ StageOf[o.part] # "reencode"
           /\ orphans' = LateOrphans(orphans \ {o}, StageOf[o.part])
           /\ command' = (command \/ (pc = "command" /\ Outdated(At, StageOf[o.part])))
  <2>1. StageOf[o.part] \in Stages
    BY <1>3, <1>6 DEF Works
  <2>2. StageOf[o.part] \notin StagesDone
    BY <1>6, OrphanHarmless
  <2>3. pc \notin {"aside", "swapped"}
    <3> SUFFICES ASSUME pc \in {"aside", "swapped"}
                 PROVE  FALSE
      OBVIOUS
    <3>1. ~Locked(o.part) /\ "onboard" \in StagesDone
      BY StageSet DEF LockInv, RunInv, LockedWorks, CurrentInv, StagesDone
    <3>2. o.part \in {"hub-v2", "hub-v2.reencode"}
      BY <1>3, <3>1 DEF Locked
    <3>3. StageOf[o.part] = "onboard"
      BY <1>3, <1>6, <3>2, PartSets, StageSet DEF Works
    <3> QED BY <2>2, <3>1, <3>3
  <2> QED BY <1>3, <1>6, <2>1, <2>2, <2>3 DEF NewOutput
<1> QED BY <1>4, <1>5, <1>6 DEF OrphanEnds

-----------------------------------------------------------------------------
(* Kept parts *)

\* Steps that mark no stage, leave no new command behind and finish no kept part.
LEMMA KeepKeeps ==
  ASSUME KeepInv, UNCHANGED <<status, spared>>,
         \A o \in orphans' : \E q \in orphans : o.part = q.part,
         \A s \in Keepers : \A p \in PartSet[s] :
           content'[p] \in Finished => content'[p] = content[p]
  PROVE  KeepInv'
BY DEF KeepInv, Untouched, Excepted, StagesDone, Finished

\* A command that ends writes a kept part from what is there, or only makes old what is excepted.
LEMMA KeepWrite ==
  ASSUME TypeInv, KeepInv, UNCHANGED <<status, spared>>,
         \A o \in orphans' : \E q \in orphans : o.part = q.part,
         NEW p \in Parts,
         \A q \in Parts \ {p} :
           content'[q] = content[q]
             \/ (content[q] = "current" /\ content'[q] = "old" /\ Withdrawn(StageOf[q])),
         StageOf[p] \in Keepers =>
           /\ ~Untouched(StageOf[p]) \/ Reads[StageOf[p]] \subseteq StagesDone
           /\ status[StageOf[p]] # "none"
           /\ content'[p] = "old" => Excepted(StageOf[p])
  PROVE  KeepInv'
<1> SUFFICES ASSUME NEW s \in Keepers
             PROVE  /\ status[s] # "skipped" /\ (status[s] = "none" => Untouched(s)')
                    /\ Reads[s] \subseteq StagesDone \/ Untouched(s)' \/ Excepted(s)
                    /\ (\E q \in PartSet[s] : content'[q] = "old") => Excepted(s)
  BY DEF KeepInv, Excepted, StagesDone
<1>1. s \in Works /\ \A q \in PartSet[s] : q \in Parts /\ StageOf[q] = s
  BY PartOfOne, StageSet DEF Works, Keepers
<1>2. Untouched(s) => Untouched(s)' \/ s = StageOf[p]
  BY <1>1 DEF Untouched, Finished
<1>3. /\ status[s] # "skipped" /\ (status[s] = "none" => Untouched(s))
      /\ Reads[s] \subseteq StagesDone \/ Untouched(s) \/ Excepted(s)
      /\ (\E q \in PartSet[s] : content[q] = "old") => Excepted(s)
  BY DEF KeepInv
<1>4. ASSUME NEW q \in PartSet[s], content'[q] = "old"
      PROVE  Excepted(s)
  <2>1. CASE q = p
    BY <1>1, <1>4, <2>1
  <2>2. CASE q # p /\ content'[q] = content[q]
    BY <1>3, <1>4, <2>2
  <2>3. CASE q # p /\ content[q] = "current" /\ Withdrawn(s)
    BY <1>3, <2>3 DEF Untouched, Finished, Withdrawn
  <2> QED BY <1>1, <2>1, <2>2, <2>3
<1> QED BY <1>2, <1>3, <1>4

\* No step makes a kept part old that is not excepted.
LEMMA KeepStep ==
  ASSUME Consistent, [Next]_vars
  PROVE  KeepInv'
<1> USE DEF Consistent
<1>0. /\ Keepers \subseteq Stages /\ "reencode" \notin Stages /\ "none" \notin Stages
      /\ status \in [Stages -> Statuses]
      /\ \A s \in Keepers : applicable(s)
      /\ \A s \in Keepers : \A p \in PartSet[s] : p \in Parts /\ StageOf[p] = s
  BY StageSet, PartOfOne DEF Keepers, RunInv, applicable, Works
<1>1. CASE UNCHANGED vars
  BY <1>1, KeepKeeps DEF vars
<1>2. CASE Keep
  BY <1>2, KeepKeeps DEF Keep, outputs, stateFile
<1>3. CASE Prepare \/ TimesOut
  <2>1. content' = Cleared(content) /\ UNCHANGED <<status, spared, orphans>>
    BY <1>3 DEF Prepare, TimesOut, stateFile
  <2>2. \A p \in Parts : content'[p] \in Finished => content'[p] = content[p]
    BY <2>1 DEF Cleared, Finished
  <2> QED BY <1>0, <2>1, <2>2, KeepKeeps
<1>4. CASE Start
  <2>1. UNCHANGED <<status, spared, orphans>>
    BY <1>4 DEF Start, stateFile
  <2>2. \A p \in Parts : content'[p] \in Finished => content'[p] = content[p]
    BY <1>4 DEF Start, Finished, TypeInv, TypeOK
  <2> QED BY <1>0, <2>1, <2>2, KeepKeeps
<1>5. CASE Ends
  <2>1. At \in Parts /\ StageOf[At] = work /\ work \in Works
    BY <1>5, CommandAt DEF Ends
  <2>2. Write(At, command) /\ UNCHANGED <<status, spared>> /\ ~command
    BY <1>5 DEF Ends, stateFile, LateInv
  <2>3. \A o \in orphans' : \E q \in orphans : o.part = q.part
    BY <1>5, LatePart DEF Ends
  <2>4. work \in Stages => status[work] = "running" /\ work \notin StagesDone /\ applicable(work)
    BY DEF RunInv, LockInv, StagesDone
  <2>5. InputsCurrent(work)
    BY <1>5, CommandInputs DEF Ends
  <2>6. /\ content'[At] = "current"
        /\ \A q \in Parts \ {At} :
             content'[q] = content[q]
               \/ (content[q] = "current" /\ content'[q] = "old" /\ Withdrawn(StageOf[q]))
    BY <2>1, <2>2, <2>4, <2>5, WriteSpares
  <2>7. work \in Stages => Reads[work] \subseteq StagesDone
    BY DEF RunInv
  <2> QED BY <1>0, <2>1, <2>2, <2>3, <2>4, <2>6, <2>7, KeepWrite
<1>6. CASE Fail
  <2>1. /\ UNCHANGED <<content, orphans, spared>> /\ StagesDone' = StagesDone
        /\ \A s \in Keepers : status'[s] = status[s] \/ (status[s] = "running" /\ status'[s] = "failed")
    BY <1>0, <1>6, FailKeeps DEF Fail, outputs, RunInv
  <2> QED BY <2>1 DEF KeepInv, Untouched, Excepted
<1>7. ASSUME NEW b \in Stages, Begin(b)
      PROVE  KeepInv'
  <2>1. /\ status' = [status EXCEPT ![b] = "running"] /\ UNCHANGED orphans /\ work' = b
        /\ content' = [p \in Parts |-> IF p \in CleanedParts(b) THEN "none" ELSE content[p]]
        /\ spared' = IF CleanedParts(b) = {} THEN spared ELSE spared \ {b}
    BY <1>7 DEF Begin
  <2>2. StagesDone' = StagesDone /\ Reads[b] \subseteq StagesDone
    BY <1>7, BeginKeeps, <2>1 DEF RunInv
  <2> SUFFICES ASSUME NEW s \in Keepers
               PROVE  /\ status'[s] # "skipped" /\ (status'[s] = "none" => Untouched(s)')
                      /\ Reads[s] \subseteq StagesDone \/ Untouched(s)' \/ Excepted(s)'
                      /\ (\E p \in PartSet[s] : content'[p] = "old") => Excepted(s)'
    BY <2>2 DEF KeepInv
  <2>3. CASE s # b
    <3>1. status'[s] = status[s] /\ (s \in spared' <=> s \in spared)
      BY <1>0, <2>1, <2>3
    <3>2. \A p \in PartSet[s] : content'[p] \in {content[p], "none"}
      BY <1>0, <2>1
    <3> QED BY <2>1, <3>1, <3>2 DEF KeepInv, Untouched, Excepted, Finished
  <2>4. CASE s = b
    <3>1. status'[s] = "running"
      BY <1>0, <2>1, <2>4
    <3>2. CASE CleanedParts(b) = {}
      <4>1. status[s] # "stale" /\ spared' = spared /\ \A p \in PartSet[s] : content'[p] = content[p]
        BY <1>0, <2>1, <2>4, <3>2, PartSets DEF CleanedParts, Keepers
      <4> QED BY <2>2, <2>4, <3>1, <4>1 DEF KeepInv, Excepted
    <3>3. CASE CleanedParts(b) # {}
      <4>1. CleanedParts(b) = PartSet[b]
        BY <3>3 DEF CleanedParts
      <4>2. \A p \in PartSet[s] : content'[p] = "none"
        BY <1>0, <2>1, <2>4, <4>1
      <4> QED BY <2>2, <2>4, <3>1, <4>2
    <3> QED BY <3>2, <3>3
  <2> QED BY <2>3, <2>4
<1>8. CASE StageDone
  <2>1. /\ UNCHANGED <<content, orphans, spared>> /\ StagesDone \subseteq StagesDone'
        /\ \A s \in Keepers : status'[s] = status[s] \/ (status[s] = "running" /\ status'[s] = "done")
    BY <1>0, <1>8 DEF StageDone, outputs, RunInv, StagesDone
  <2> QED BY <2>1 DEF KeepInv, Untouched, Excepted
<1>9. CASE RunDone \/ RecordAssembly
  BY <1>9, KeepKeeps DEF RunDone, RecordAssembly, outputs, stateFile
<1>10. CASE MoveAside
  <2>1. UNCHANGED <<status, spared, orphans>>
    BY <1>10 DEF MoveAside, stateFile
  <2>2. \A p \in Parts : content'[p] \in Finished => content'[p] = content[p]
    BY <1>10 DEF MoveAside, Finished, TypeInv, TypeOK
  <2> QED BY <1>0, <2>1, <2>2, KeepKeeps
<1>11. CASE SwapIn
  <2>1. UNCHANGED <<status, spared>> /\ \A o \in orphans' : \E q \in orphans : o.part = q.part
    BY <1>11, LatePart DEF SwapIn, stateFile
  <2>2. content["out"] = "none"
    BY <1>11 DEF SwapIn, CurrentInv
  <2>3. \A p \in {"held", "train", "into", "out"} : p \in Parts /\ content'[p] = content[p]
    <3>1. {"held", "train", "into", "out"} \subseteq Parts
      BY <1>0, PartSets DEF Keepers
    <3>2. \A p \in {"held", "train", "into", "out"} : ~(Outdated(p, "reencode") /\ content[p] = "current")
      BY <2>2 DEF Outdated
    <3> QED BY <1>11, <3>1, <3>2 DEF SwapIn, Replaced, TypeInv, TypeOK
  <2> QED BY <2>1, <2>3, PartSets, KeepKeeps DEF Keepers
<1>12. CASE Reencoded
  <2>1. /\ UNCHANGED <<content, orphans, spared>> /\ StagesDone' = StagesDone \ OutdatedByReencode
        /\ \A s \in Keepers : status'[s] = status[s] \/ (status[s] = "done" /\ status'[s] = "outdated")
    BY <1>0, <1>12 DEF Reencoded, outputs, StagesDone
  <2>2. \A s \in Keepers : Reads[s] \cap OutdatedByReencode = {}
    BY ReadSets DEF Keepers, OutdatedByReencode, LockedWorks
  <2> QED BY <2>1, <2>2 DEF KeepInv, Untouched, Excepted
<1>13. CASE Killed
  <2>1. UNCHANGED <<status, content, spared>>
    BY <1>13 DEF Killed, stateFile, outputs
  <2>2. \A o \in orphans' : o \in orphans \/ (StageOf[o.part] = work /\ work \in Works)
    BY <1>13, CommandAt DEF Killed
  <2>3. work \in Keepers => status[work] = "running" /\ Reads[work] \subseteq StagesDone
    BY <1>0 DEF RunInv
  <2> QED BY <2>1, <2>2, <2>3 DEF KeepInv, Untouched, Excepted, StagesDone
<1>14. ASSUME NEW r \in Requests, Run(r)
       PROVE  KeepInv'
  <2>1. /\ UNCHANGED <<content, orphans>> /\ r.redo \subseteq Stages /\ status' = Restarted(r.redo)
        /\ spared' = spared \cup {s \in Marked(r.redo) : status[s] \in {"running", "failed", "outdated"}}
    BY <1>14, CampaignAssumption DEF Run, outputs
  <2> SUFFICES ASSUME NEW s \in Keepers
               PROVE  /\ status'[s] # "skipped" /\ (status'[s] = "none" => Untouched(s)')
                      /\ Reads[s] \subseteq StagesDone' \/ Untouched(s)' \/ Excepted(s)'
                      /\ (\E p \in PartSet[s] : content'[p] = "old") => Excepted(s)'
    BY DEF KeepInv
  <2>2. status'[s] = IF s \in Marked(r.redo) /\ status[s] = "done" THEN "stale" ELSE status[s]
    BY <1>0, <2>1 DEF Restarted
  <2>3. Untouched(s)' <=> Untouched(s)
    BY <2>1 DEF Untouched
  <2>4. Excepted(s) => Excepted(s)'
    BY <2>1, <2>2 DEF Excepted
  <2>5. /\ status[s] # "skipped" /\ (status[s] = "none" => Untouched(s))
        /\ Reads[s] \subseteq StagesDone \/ Untouched(s) \/ Excepted(s)
        /\ (\E p \in PartSet[s] : content[p] = "old") => Excepted(s)
    BY DEF KeepInv
  <2>6. ASSUME Reads[s] \subseteq StagesDone, ~(Reads[s] \subseteq StagesDone'), ~Untouched(s)
        PROVE  Excepted(s)'
    <3>1. PICK q \in Reads[s] : q \in Stages /\ status[q] = "done" /\ status'[q] # "done"
      BY <2>6 DEF StagesDone
    <3>2. q \in Marked(r.redo)
      BY <1>0, <2>1, <3>1 DEF Restarted, Reads
    <3>3. s \in Marked(r.redo)
      BY <1>0, <2>1, <3>1, <3>2, MarkedClosed
    <3>4. status[s] \in {"running", "done", "failed", "stale", "outdated"}
      BY <1>0, <2>5, <2>6 DEF Statuses
    <3> QED BY <2>1, <2>2, <3>3, <3>4 DEF Excepted
  <2> QED BY <2>1, <2>2, <2>3, <2>4, <2>5, <2>6
<1>15. ASSUME NEW r \in Requests, Reencode(r) \/ Assemble(r)
       PROVE  KeepInv'
  <2>1. UNCHANGED <<status, spared, orphans>>
    BY <1>15 DEF Reencode, Assemble, stateFile
  <2>2. \A p \in Parts : content'[p] \in Finished => content'[p] = content[p]
    BY <1>15 DEF Reencode, Assemble, outputs, Finished
  <2> QED BY <1>0, <2>1, <2>2, KeepKeeps
<1>16. ASSUME NEW o \in orphans, OrphanEnds(o)
       PROVE  KeepInv'
  <2>1. /\ UNCHANGED <<status, spared>>
        /\ \A x \in orphans' : \E y \in orphans : x.part = y.part
        /\ NothingNew(o) \/ NewBundle(o) \/ NewOutput(o)
    BY <1>16, OrphanCases
  <2>2. CASE NothingNew(o)
    BY <2>1, <2>2, KeepKeeps DEF NothingNew
  <2>3. CASE NewBundle(o)
    BY <1>0, <2>1, <2>3, KeepKeeps DEF NewBundle
  <2>4. CASE NewOutput(o)
    <3>1. /\ content'[o.part] = IF o.old \/ ~InputsCurrent(StageOf[o.part]) THEN "old" ELSE "current"
          /\ \A q \in Parts \ {o.part} :
               content'[q] = content[q]
                 \/ (content[q] = "current" /\ content'[q] = "old" /\ Withdrawn(StageOf[q]))
      BY <2>4, WriteSpares DEF NewOutput
    <3>2. ASSUME StageOf[o.part] \in Keepers
          PROVE  /\ ~Untouched(StageOf[o.part]) /\ status[StageOf[o.part]] # "none"
                 /\ content'[o.part] = "old" => Excepted(StageOf[o.part])
      <4>1. ~Untouched(StageOf[o.part]) /\ status[StageOf[o.part]] # "none"
        BY <3>2 DEF Untouched, KeepInv
      <4>2. StageOf[o.part] = "evaluate" /\ Direction(o.part)
        BY <2>4, <3>2, PartOfWork DEF NewOutput, Keepers, Chunk, Direction
      <4>3. DoneReady(Stages)
        BY <2>4 DEF NewOutput, CurrentInv
      <4>4. Reads["evaluate"] \subseteq StagesDone => content'[o.part] = "current"
        BY <3>1, <4>2, <4>3, EvaluationInputs DEF LateInv
      <4> QED BY <3>2, <4>1, <4>2, <4>4 DEF KeepInv
    <3> QED BY <2>1, <2>4, <3>1, <3>2, KeepWrite DEF NewOutput
  <2> QED BY <2>1, <2>2, <2>3, <2>4
<1> QED BY <1>1, <1>2, <1>3, <1>4, <1>5, <1>6, <1>7, <1>8, <1>9, <1>10, <1>11, <1>12, <1>13, <1>14,
           <1>15, <1>16 DEF Next, Step

-----------------------------------------------------------------------------
(* Directions still being evaluated *)

\* Directions are the parts of the evaluation, and locked.
LEMMA Directions ==
  ASSUME NEW p, Direction(p)
  PROVE  p \in Parts /\ StageOf[p] = "evaluate" /\ Locked(p) /\ ~Chunk(p)
           /\ p \notin {"hub", "hub-v2", "hub.reencode", "hub-v2.reencode"}
<1>1. "evaluate" \in Works
  BY StageSet DEF Works
<1> QED BY <1>1, PartSets, PartOfOne DEF Direction, Locked, InProcess, Chunk

\* The part of an evaluation is a direction.
LEMMA EvaluationAt ==
  ASSUME TypeInv, work = "evaluate", pc \in {"locks", "command"}
  PROVE  Direction(At)
BY CommandAt DEF Direction

\* A command left running is late because it was, or because what it read has been replaced.
LEMMA LateOld ==
  ASSUME TypeInv, NEW S \in SUBSET orphans, NEW s, NEW o \in LateOrphans(S, s)
  PROVE  \E q \in S : o.part = q.part /\ (o.old => q.old \/ Outdated(q.part, s))
<1>1. PICK q \in S : o = [q EXCEPT !.old = @ \/ Outdated(q.part, s)]
  BY DEF LateOrphans
<1>2. q \in [part: Parts, old: BOOLEAN]
  BY DEF TypeInv, TypeOK
<1> QED BY <1>1, <1>2

\* A stage that is not done makes nothing old for what has all it reads.
LEMMA NotOutdated ==
  ASSUME RunInv, NEW s \in Stages, applicable(s), s \notin StagesDone,
         NEW p \in Parts, StageOf[p] \in Stages => Reads[StageOf[p]] \subseteq StagesDone
  PROVE  ~Outdated(p, s)
<1> SUFFICES ASSUME Outdated(p, s)
             PROVE  FALSE
  OBVIOUS
<1>1. s # "reencode"
  BY StageSet
<1>2. StageOf[p] # "reencode" /\ StageOf[p] \in Downstream[s]
  BY <1>1 DEF Outdated
<1>3. StageOf[p] \in Stages
  BY <1>2, PartOfWork DEF Works
<1> QED BY <1>2, <1>3, UpstreamDone

\* Steps that finish nothing, leave no command behind and write no direction.
LEMMA LateKeeps ==
  ASSUME TypeInv, TypeInv', LateInv, ~command', StagesDone' \subseteq StagesDone,
         orphans' \subseteq orphans,
         \A p \in Parts : Direction(p) => content'[p] # "old" \/ content'[p] = content[p],
         work' = "evaluate" /\ pc' \in {"locks", "command"} =>
           content'[At'] # "old" \/ (work = "evaluate" /\ pc \in {"locks", "command"} /\ index' = index)
  PROVE  LateInv'
<1> SUFFICES ASSUME Reads["evaluate"] \subseteq StagesDone'
             PROVE  /\ \A o \in orphans' : Direction(o.part) => ~o.old /\ content'[o.part] # "old"
                    /\ work' = "evaluate" /\ pc' \in {"locks", "command"} => content'[At'] # "old"
  BY DEF LateInv
<1>1. /\ \A o \in orphans : Direction(o.part) => ~o.old /\ content[o.part] # "old"
      /\ work = "evaluate" /\ pc \in {"locks", "command"} => content[At] # "old"
  BY DEF LateInv
<1>2. \A o \in orphans' : Direction(o.part) => ~o.old /\ content'[o.part] # "old"
  BY <1>1, Directions
<1>3. ASSUME work' = "evaluate", pc' \in {"locks", "command"}, content'[At'] = "old"
      PROVE  FALSE
  <2>1. work = "evaluate" /\ pc \in {"locks", "command"} /\ index' = index
    BY <1>3
  <2>2. At' = At
    BY <1>3, <2>1 DEF At
  <2>3. Direction(At) /\ At \in Parts
    BY <2>1, EvaluationAt, Directions
  <2> QED BY <1>1, <1>3, <2>1, <2>2, <2>3
<1> QED BY <1>2, <1>3

\* Nobody replaces what a command left running reads, if it is to be kept.
LEMMA LateStep ==
  ASSUME Consistent, TypeInv', [Next]_vars
  PROVE  LateInv'
<1> USE DEF Consistent
<1>0. /\ "evaluate" \in Stages /\ "reencode" \notin Stages /\ "none" # "evaluate"
      /\ ~command /\ content \in [Parts -> Contents]
      /\ status \in [Stages -> Statuses]
  BY StageSet DEF LateInv, TypeInv, TypeOK
<1>1. CASE UNCHANGED vars
  BY <1>0, <1>1, LateKeeps DEF vars, StagesDone
<1>2. CASE Keep
  BY <1>0, <1>2, LateKeeps DEF Keep, outputs, stateFile, StagesDone
<1>3. CASE Prepare \/ TimesOut
  <2>1. /\ UNCHANGED <<status, orphans, work>> /\ command' = FALSE
        /\ content' = Cleared(content)
    BY <1>0, <1>3 DEF Prepare, TimesOut, stateFile
  <2>2. \A p \in Parts : Direction(p) => content'[p] = content[p]
    BY <2>1, Directions DEF Cleared
  <2>3. ASSUME work' = "evaluate", pc' \in {"locks", "command"}
        PROVE  content'[At'] # "old"
    <3>1. Prepare /\ work = "evaluate" /\ At' = At
      BY <1>3, <2>1, <2>3 DEF Prepare, TimesOut, At
    <3>2. Direction(At) /\ At \in Parts
      BY <3>1, PartAt DEF Prepare, Direction
    <3>3. content[At] # "old"
      BY <3>1, <3>2 DEF Prepare, Keepable, Finished
    <3> QED BY <2>2, <3>1, <3>2, <3>3
  <2> QED BY <2>1, <2>2, <2>3, LateKeeps DEF StagesDone
<1>4. CASE Start
  <2>1. \A p \in Parts : content'[p] \in {content[p], "partial"}
    BY <1>0, <1>4 DEF Start
  <2> QED BY <1>4, <2>1, LateKeeps DEF Start, stateFile, StagesDone
<1>5. CASE Ends
  <2>1. /\ At \in Parts /\ StageOf[At] = work /\ work \in Works
        /\ Write(At, command) /\ UNCHANGED status /\ command' = FALSE /\ pc' = "part"
        /\ work \in Stages => work \notin StagesDone /\ applicable(work)
        /\ work \notin Stages => work = "reencode"
    BY <1>5, CommandAt DEF Ends, stateFile, RunInv, LockInv, StagesDone, Works
  <2>2. InputsCurrent(work)
    BY <1>5, CommandInputs DEF Ends
  <2>3. /\ content'[At] = "current"
        /\ \A q \in Parts \ {At} :
             content'[q] = content[q]
               \/ (content[q] = "current" /\ content'[q] = "old" /\ Withdrawn(StageOf[q]))
    BY <1>0, <2>1, <2>2, WriteSpares
  <2>4. ASSUME Reads["evaluate"] \subseteq StagesDone, NEW o \in orphans', Direction(o.part)
        PROVE  ~o.old /\ content'[o.part] # "old"
    <3>1. /\ o.part \in Parts /\ StageOf[o.part] = "evaluate"
          /\ \A x \in orphans : x.part = o.part => ~x.old /\ content[x.part] # "old"
      BY <2>4, Directions DEF LateInv
    <3>2. content'[o.part] # "old"
      <4>1. CASE o.part = At
        BY <2>3, <4>1
      <4>2. CASE o.part # At
        <5>1. ~Withdrawn(StageOf[o.part])
          BY <2>4, <3>1 DEF Withdrawn
        <5>2. content'[o.part] = content[o.part]
          BY <2>3, <3>1, <4>2, <5>1
        <5>3. \E x \in orphans : x.part = o.part
          BY <1>5, LatePart DEF Ends
        <5> QED BY <3>1, <5>2, <5>3
      <4> QED BY <4>1, <4>2
    <3>3. ~o.old
      <4>1. CASE work \in Stages
        <5>1. ~Outdated(o.part, work)
          BY <2>1, <2>4, <3>1, <4>1, NotOutdated
        <5>2. o \in LateOrphans(orphans, work)
          BY <1>0, <1>5, <4>1 DEF Ends
        <5> QED BY <3>1, <5>1, <5>2, LateOld
      <4>2. CASE work = "reencode"
        BY <1>5, <3>1, <4>2 DEF Ends
      <4> QED BY <2>1, <4>1, <4>2
    <3> QED BY <3>2, <3>3
  <2>5. StagesDone' = StagesDone
    BY <2>1 DEF StagesDone
  <2> QED BY <2>1, <2>4, <2>5 DEF LateInv
<1>6. CASE Fail \/ RunDone \/ RecordAssembly \/ Reencoded
  <2>1. Leave /\ UNCHANGED <<orphans, content>>
    BY <1>6 DEF Fail, RunDone, RecordAssembly, Reencoded, outputs
  <2>2. StagesDone' \subseteq StagesDone
    BY <1>0, <1>6 DEF Fail, RunDone, RecordAssembly, Reencoded, StagesDone, stateFile
  <2> QED BY <1>0, <2>1, <2>2, LateKeeps DEF Leave
<1>7. ASSUME NEW s \in Stages, Begin(s)
      PROVE  LateInv'
  <2>1. \A p \in Parts : content'[p] \in {content[p], "none"}
    BY <1>7 DEF Begin
  <2>2. /\ UNCHANGED orphans /\ pc' = "part" /\ ~command'
        /\ StagesDone' \subseteq StagesDone
    BY <1>0, <1>7 DEF Begin, StagesDone
  <2> QED BY <2>1, <2>2, LateKeeps
<1>8. CASE StageDone
  <2>1. /\ pc' = "next" /\ work \in Stages /\ UNCHANGED <<orphans, content>> /\ ~command'
        /\ StagesDone' \subseteq StagesDone \cup {work}
    BY <1>0, <1>8 DEF StageDone, StagesDone, outputs
  <2>2. ASSUME Reads["evaluate"] \subseteq StagesDone', NEW o \in orphans', Direction(o.part)
        PROVE  ~o.old /\ content'[o.part] # "old"
    <3>1. CASE Reads["evaluate"] \subseteq StagesDone
      BY <2>1, <2>2, <3>1 DEF LateInv
    <3>2. CASE ~(Reads["evaluate"] \subseteq StagesDone)
      <4>1. work \in LockedWorks
        BY <2>1, <2>2, <3>2, ReadSets
      <4>2. index >= 2
        BY <1>8, <2>1, PartsTyped DEF StageDone, TypeInv, Works
      <4>3. ~Locked(o.part)
        BY <2>1, <4>1, <4>2 DEF LockInv
      <4> QED BY <2>2, <4>3, Directions
    <3> QED BY <3>1, <3>2
  <2> QED BY <2>1, <2>2 DEF LateInv
<1>9. CASE Killed
  <2>1. Leave /\ UNCHANGED <<status, content>>
    BY <1>9 DEF Killed, stateFile, outputs
  <2>2. ASSUME Reads["evaluate"] \subseteq StagesDone, NEW o \in orphans', Direction(o.part)
        PROVE  ~o.old /\ content[o.part] # "old"
    <3>1. CASE o \in orphans
      BY <2>2, <3>1 DEF LateInv
    <3>2. CASE o \notin orphans
      <4>1. pc = "command" /\ o = [part |-> At, old |-> command]
        BY <1>9, <3>2 DEF Killed
      <4>2. work = "evaluate" /\ o.part = At /\ o.old = command
        BY <2>2, <4>1, CommandAt, Directions
      <4> QED BY <1>0, <2>2, <4>1, <4>2 DEF LateInv
    <3> QED BY <3>1, <3>2
  <2> QED BY <1>0, <2>1, <2>2 DEF LateInv, Leave, StagesDone
<1>10. CASE MoveAside
  <2>1. \A p \in Parts : content'[p] \in {content[p], "none"}
    BY <1>0, <1>10 DEF MoveAside
  <2> QED BY <1>0, <1>10, <2>1, LateKeeps DEF MoveAside, stateFile, StagesDone
<1>11. CASE SwapIn
  <2>1. \A o \in orphans : ~Locked(o.part)
    BY <1>11 DEF SwapIn, LockInv, RunInv, LockedWorks
  <2>2. \A o \in orphans' : ~Direction(o.part)
    BY <1>11, <2>1, LatePart, Directions DEF SwapIn
  <2>3. pc' = "swapped" /\ ~command'
    BY <1>0, <1>11 DEF SwapIn
  <2> QED BY <2>2, <2>3 DEF LateInv
<1>12. ASSUME NEW r \in Requests, Run(r)
       PROVE  LateInv'
  <2>1. StagesDone' \subseteq StagesDone
    BY <1>12 DEF Run, Restarted, StagesDone
  <2> QED BY <1>0, <1>12, <2>1, LateKeeps DEF Run, outputs
<1>13. ASSUME NEW r \in Requests, Reencode(r) \/ Assemble(r)
       PROVE  LateInv'
  <2>1. \A p \in Parts : content'[p] \in {content[p], "none"}
    BY <1>13 DEF Reencode, Assemble, outputs
  <2>2. /\ UNCHANGED <<status, orphans, command>> /\ pc' \in {"part", "merged"}
    BY <1>13 DEF Reencode, Assemble, stateFile, idle
  <2> QED BY <1>0, <2>1, <2>2, LateKeeps DEF StagesDone
<1>14. ASSUME NEW o \in orphans, OrphanEnds(o)
       PROVE  LateInv'
  <2>1. /\ UNCHANGED <<status, pc, work, redo, todo, index, spared>>
        /\ NothingNew(o) \/ NewBundle(o) \/ NewOutput(o)
    BY <1>14, OrphanCases
  <2>2. StagesDone' = StagesDone
    BY <2>1 DEF StagesDone
  <2>3. CASE NothingNew(o)
    BY <1>0, <2>1, <2>2, <2>3, LateKeeps DEF NothingNew
  <2>4. CASE NewBundle(o)
    <3>1. \A p \in Parts : Direction(p) => content'[p] = content[p]
      BY <2>4, Directions DEF NewBundle
    <3> QED BY <1>0, <2>1, <2>2, <2>4, <3>1, LateKeeps DEF NewBundle
  <2>5. CASE NewOutput(o)
    <3> DEFINE s == StageOf[o.part]
    <3>1. /\ s \in Stages /\ s \notin StagesDone /\ applicable(s)
          /\ o.part \in Parts /\ Write(o.part, o.old) /\ DoneReady(Stages)
          /\ orphans' = LateOrphans(orphans \ {o}, s)
      BY <2>5 DEF NewOutput, CurrentInv
    <3>2. ~command'
      <4>1. ASSUME pc = "command"
            PROVE  ~Outdated(At, s)
        <5>1. At \in Parts /\ StageOf[At] = work
          BY <4>1, CommandAt
        <5>2. work \in Stages => Reads[work] \subseteq StagesDone
          BY DEF RunInv
        <5> HIDE DEF s
        <5> QED BY <3>1, <5>1, <5>2, NotOutdated
      <4> QED BY <1>0, <2>5, <4>1 DEF NewOutput
    <3>3. ASSUME Reads["evaluate"] \subseteq StagesDone
          PROVE  \A p \in Parts : Direction(p) => content'[p] = content[p] \/ content'[p] = "current"
      <4> SUFFICES ASSUME NEW p \in Parts, Direction(p)
                   PROVE  content'[p] = content[p] \/ content'[p] = "current"
        OBVIOUS
      <4>1. StageOf[p] = "evaluate"
        BY Directions
      <4>2. CASE p = o.part
        <5>1. ~o.old
          BY <3>3, <4>2 DEF LateInv
        <5>2. InputsCurrent("evaluate")
          BY <3>1, <3>3, EvaluationInputs
        <5>3. content'[p] = IF o.old \/ ~InputsCurrent(StageOf[o.part]) THEN "old" ELSE "current"
          BY <3>1, <4>2, WriteSpares
        <5> QED BY <4>1, <4>2, <5>1, <5>2, <5>3
      <4>3. CASE p # o.part
        <5>1. ~Withdrawn(StageOf[p])
          BY <3>3, <4>1 DEF Withdrawn
        <5>2. content'[p] = content[p]
                \/ (content[p] = "current" /\ content'[p] = "old" /\ Withdrawn(StageOf[p]))
          BY <3>1, <4>3, WriteSpares
        <5> QED BY <5>1, <5>2
      <4> QED BY <4>2, <4>3
    <3>4. ASSUME Reads["evaluate"] \subseteq StagesDone, NEW x \in orphans', Direction(x.part)
          PROVE  ~x.old /\ content'[x.part] # "old"
      <4>1. x.part \in Parts /\ StageOf[x.part] = "evaluate"
        BY <3>4, Directions
      <4>2. ~Outdated(x.part, s)
        <5> HIDE DEF s
        <5> QED BY <3>1, <3>4, <4>1, NotOutdated
      <4>3. PICK y \in orphans : x.part = y.part /\ (x.old => y.old \/ Outdated(y.part, s))
        <5> HIDE DEF s
        <5> QED BY <3>1, LateOld
      <4>4. ~y.old /\ content[y.part] # "old"
        BY <3>4, <4>3 DEF LateInv
      <4> QED BY <3>3, <3>4, <4>1, <4>2, <4>3, <4>4
    <3>5. ASSUME Reads["evaluate"] \subseteq StagesDone, work' = "evaluate", pc' \in {"locks", "command"}
          PROVE  content'[At'] # "old"
      <4>1. /\ At' = At /\ Direction(At) /\ At \in Parts /\ content[At] # "old"
        BY <2>1, <3>5, EvaluationAt, Directions DEF At, LateInv
      <4> QED BY <3>3, <3>5, <4>1
    <3> QED BY <2>2, <3>2, <3>4, <3>5 DEF LateInv
  <2> QED BY <2>1, <2>3, <2>4, <2>5
<1> QED BY <1>1, <1>2, <1>3, <1>4, <1>5, <1>6, <1>7, <1>8, <1>9, <1>10, <1>11, <1>12, <1>13, <1>14
        DEF Next, Step

-----------------------------------------------------------------------------
(* What is done is current *)

\* Steps of a process that is not between a re-encoding's renames.
LEMMA CurrentKeeps ==
  ASSUME CurrentInv, StagesDone' \subseteq StagesDone,
         pc \notin {"aside", "swapped"}, pc' \notin {"aside", "swapped"},
         \A s \in StagesDone : \A p \in PartSet[s] : Ready(p) => Ready(p)',
         pc' \in {"part", "locks", "command"} =>
           \A i \in 1..(index' - 1) : \E p \in Parts : p = PartsOf[work'][i] /\ Ready(p)',
         work' = "reencode" => status'["onboard"] = "done"
  PROVE  CurrentInv'
<1>1. DoneReady(Stages)
  BY DEF CurrentInv
<1>2. DoneReady(Stages)'
  BY <1>1 DEF DoneReady
<1>3. pc' \in {"part", "locks", "command"} => \A i \in 1..(index' - 1) : Ready(PartsOf[work][i])'
  BY DEF Ready
<1> QED BY <1>2, <1>3 DEF CurrentInv

\* A part that is as it was can be read as it could.
LEMMA ReadyKeeps ==
  ASSUME NEW p, Ready(p), content'[p] = content[p], spared \subseteq spared'
  PROVE  Ready(p)'
BY DEF Ready

\* What the work at hand has done of its own is in its parts, before the one it is at.
LEMMA Behind ==
  ASSUME TypeInv, CurrentInv, pc \in {"part", "locks", "command"}, NEW i \in 1..(index - 1)
  PROVE  /\ PartsOf[work][i] \in PartSet[work] /\ PartsOf[work][i] \in Parts
         /\ StageOf[PartsOf[work][i]] = work /\ Ready(PartsOf[work][i])
         /\ i \in 1..Len(PartsOf[work])
         /\ \A j \in index..Len(PartsOf[work]) : PartsOf[work][i] # PartsOf[work][j]
<1>1. work \in Works /\ index \in 1..Len(PartsOf[work]) + 1
  BY DEF TypeInv, TypeOK
<1>2. Len(PartsOf[work]) \in Nat
  BY <1>1, PartsTyped
<1>3. i \in 1..Len(PartsOf[work])
  BY <1>1, <1>2
<1>4. \A j \in index..Len(PartsOf[work]) : j \in 1..Len(PartsOf[work]) /\ i # j
  BY <1>1, <1>2
<1>5. PartsOf[work][i] \in PartSet[work]
  BY <1>1, <1>3, PartsInOrder
<1>6. \A j \in index..Len(PartsOf[work]) : PartsOf[work][i] # PartsOf[work][j]
  BY <1>1, <1>3, <1>4, PartsInOrder
<1>7. PartsOf[work][i] \in Parts /\ StageOf[PartsOf[work][i]] = work
  BY <1>1, <1>5, PartOfOne
<1> QED BY <1>3, <1>5, <1>6, <1>7 DEF CurrentInv

\* A part of a stage that is done belongs to no work at hand.
LEMMA DoneElsewhere ==
  ASSUME RunInv, NEW s \in StagesDone, NEW p \in PartSet[s]
  PROVE  p \in Parts /\ StageOf[p] = s /\ s \in Stages /\ s # work /\ s # "reencode" /\ s \notin todo
<1>1. s \in Stages /\ s \in Works /\ s # "reencode"
  BY StageSet DEF StagesDone, Works
<1>2. s # work /\ s \notin todo
  BY <1>1 DEF RunInv, StagesDone
<1> QED BY <1>1, <1>2, PartOfOne

\* Steps that leave the parts before the one at hand, and the place, as they were.
LEMMA BehindKeeps ==
  ASSUME TypeInv, CurrentInv, UNCHANGED <<work, index>>, spared \subseteq spared',
         pc \in {"part", "locks", "command"},
         \A p \in Parts : (\E i \in 1..(index - 1) : p = PartsOf[work][i]) => content'[p] = content[p]
  PROVE  \A i \in 1..(index' - 1) : \E p \in Parts : p = PartsOf[work'][i] /\ Ready(p)'
<1> SUFFICES ASSUME NEW i \in 1..(index - 1)
             PROVE  \E p \in Parts : p = PartsOf[work][i] /\ Ready(p)'
  OBVIOUS
<1>1. PICK p \in Parts : p = PartsOf[work][i]
  BY Behind
<1>2. Ready(p) /\ content'[p] = content[p]
  BY <1>1, Behind
<1> QED BY <1>1, <1>2, ReadyKeeps

\* And then is past that one too.
LEMMA BehindMoves ==
  ASSUME TypeInv, CurrentInv, work' = work, index' = index + 1, spared \subseteq spared',
         pc \in {"part", "locks", "command"}, index <= Len(PartsOf[work]),
         \A p \in Parts : (\E i \in 1..(index - 1) : p = PartsOf[work][i]) => content'[p] = content[p],
         NEW q \in Parts, q = At, Ready(q)'
  PROVE  \A i \in 1..(index' - 1) : \E p \in Parts : p = PartsOf[work'][i] /\ Ready(p)'
<1> SUFFICES ASSUME NEW i \in 1..index
             PROVE  \E p \in Parts : p = PartsOf[work][i] /\ Ready(p)'
  BY DEF TypeInv
<1>1. CASE i = index
  BY <1>1 DEF At
<1>2. CASE i \in 1..(index - 1)
  <2>1. PICK p \in Parts : p = PartsOf[work][i]
    BY <1>2, Behind
  <2>2. Ready(p) /\ content'[p] = content[p]
    BY <1>2, <2>1, Behind
  <2> QED BY <2>1, <2>2, ReadyKeeps
<1> QED BY <1>1, <1>2 DEF TypeInv

\* What is done stays current, and a work's own parts as it gets on.
LEMMA CurrentStep ==
  ASSUME Consistent, TypeInv', "swap" \notin Faults, [Next]_vars
  PROVE  CurrentInv'
<1> USE DEF Consistent
<1>0. /\ "onboard" \in Stages /\ "reencode" \notin Stages /\ "none" \notin Works
      /\ content \in [Parts -> Contents] /\ status \in [Stages -> Statuses]
      /\ ~command
  BY StageSet DEF LateInv, TypeInv, TypeOK, Works
<1>1. CASE UNCHANGED vars
  BY <1>1 DEF vars, CurrentInv, DoneReady, Ready, StagesDone
<1>2. CASE Keep
  <2>1. /\ UNCHANGED <<content, status, spared, work, pc>> /\ index' = index + 1
        /\ pc = "part" /\ index <= Len(PartsOf[work]) /\ Keepable(At)
    BY <1>2 DEF Keep, outputs, stateFile
  <2>2. PICK q \in Parts : q = At
    BY <2>1, PartAt
  <2>3. Ready(q)
    <3>1. work \in Keepers /\ q \in PartSet[work] /\ StageOf[q] = work
      <4>1. q \in PartSet[work] /\ StageOf[q] = work
        BY <2>1, <2>2, PartAt
      <4>2. Chunk(q) \/ Direction(q)
        BY <2>1, <2>2 DEF Keepable
      <4>3. StageOf[q] \in {"capture", "evaluate"}
        BY <4>2, PartOfOne, StageSet DEF Chunk, Direction, Works
      <4> QED BY <4>1, <4>3 DEF Keepers
    <3>2. CASE content[q] = "current"
      BY <3>2 DEF Ready
    <3>3. CASE content[q] = "old"
      <4>1. Excepted(work)
        BY <3>1, <3>3 DEF KeepInv
      <4>2. status[work] = "running"
        BY <3>1, StageSet DEF Keepers, RunInv
      <4> QED BY <3>1, <3>3, <4>1, <4>2 DEF Ready, Excepted
    <3> QED BY <2>1, <2>2, <3>2, <3>3 DEF Keepable, Finished
  <2>4. Ready(q)'
    BY <2>1, <2>3, ReadyKeeps
  <2>5. \A i \in 1..(index' - 1) : \E p \in Parts : p = PartsOf[work'][i] /\ Ready(p)'
    BY <2>1, <2>2, <2>4, BehindMoves
  <2>6. \A s \in StagesDone : \A p \in PartSet[s] : Ready(p) => Ready(p)'
    BY <2>1, ReadyKeeps
  <2>7. work' = "reencode" => status'["onboard"] = "done"
    BY <2>1 DEF CurrentInv
  <2> QED BY <2>1, <2>5, <2>6, <2>7, CurrentKeeps DEF StagesDone
<1>3. CASE Prepare \/ TimesOut
  <2>1. /\ UNCHANGED <<status, spared, work>> /\ content' = Cleared(content)
        /\ pc \in {"part", "locks", "command"} /\ pc' \in {"part", "locks", "command"}
        /\ index <= Len(PartsOf[work])
    BY <1>3 DEF Prepare, TimesOut, stateFile, TypeInv
  <2>2. \A p \in Parts : content'[p] # content[p] =>
          Chunk(p) /\ content'[p] = "none" /\ \E i \in index..Len(PartsOf[work]) : p = PartsOf[work][i]
    BY <2>1 DEF Cleared
  <2>3. work \in Works /\ index \in Nat /\ index >= 1 /\ Len(PartsOf[work]) \in Nat
    BY <2>1, PartsTyped DEF TypeInv, TypeOK
  <2>4. \A i \in index..Len(PartsOf[work]) : StageOf[PartsOf[work][i]] = work
    <3>1. \A i \in index..Len(PartsOf[work]) : i \in 1..Len(PartsOf[work])
      BY <2>3
    <3> QED BY <2>3, <3>1, PartsInOrder, PartOfOne
  <2>5. \A s \in StagesDone : \A p \in PartSet[s] : Ready(p) => Ready(p)'
    <3> SUFFICES ASSUME NEW s \in StagesDone, NEW p \in PartSet[s], Ready(p)
                 PROVE  Ready(p)'
      OBVIOUS
    <3>1. content'[p] = content[p]
      BY <2>2, <2>4, DoneElsewhere
    <3> QED BY <2>1, <3>1, ReadyKeeps
  <2>6. \A p \in Parts : (\E i \in 1..(index - 1) : p = PartsOf[work][i]) => content'[p] = content[p]
    BY <2>1, <2>2, Behind
  <2>7. \A i \in 1..(index' - 1) : \E p \in Parts : p = PartsOf[work'][i] /\ Ready(p)'
    <3>1. CASE Prepare
      <4>1. index' = index
        BY <3>1 DEF Prepare
      <4> QED BY <2>1, <2>6, <4>1, BehindKeeps
    <3>2. CASE TimesOut
      <4>1. index' = index + 1 /\ At = "train"
        BY <3>2 DEF TimesOut
      <4>2. PICK q \in Parts : q = At
        BY <2>1, PartAt
      <4>3. Chunk(q) /\ q = "train"
        BY <4>1, <4>2, PartSets DEF Chunk
      <4>4. index \in index..Len(PartsOf[work]) /\ q = PartsOf[work][index]
        BY <2>1, <2>3, <4>2 DEF At
      <4>5. content'[q] = "none"
        BY <2>1, <4>3, <4>4 DEF Cleared
      <4>6. Ready(q)'
        BY <4>3, <4>5 DEF Ready
      <4> QED BY <2>1, <2>6, <4>1, <4>2, <4>6, BehindMoves
    <3> QED BY <1>3, <3>1, <3>2
  <2>8. work' = "reencode" => status'["onboard"] = "done"
    BY <2>1 DEF CurrentInv
  <2> QED BY <2>1, <2>5, <2>7, <2>8, CurrentKeeps DEF StagesDone
<1>4. CASE Start
  <2>1. /\ UNCHANGED <<status, spared, work, index>> /\ pc = "locks" /\ pc' = "command"
        /\ content' = [content EXCEPT ![At] = IF @ = "none" THEN "partial" ELSE @]
    BY <1>4 DEF Start, stateFile
  <2>2. StageOf[At] = work /\ index \in index..Len(PartsOf[work])
    BY <2>1, CommandAt DEF TypeInv
  <2>3. \A s \in StagesDone : \A p \in PartSet[s] : Ready(p) => Ready(p)'
    <3> SUFFICES ASSUME NEW s \in StagesDone, NEW p \in PartSet[s], Ready(p)
                 PROVE  Ready(p)'
      OBVIOUS
    <3>1. content'[p] = content[p]
      BY <1>0, <2>1, <2>2, DoneElsewhere
    <3> QED BY <2>1, <3>1, ReadyKeeps
  <2>4. \A p \in Parts : (\E i \in 1..(index - 1) : p = PartsOf[work][i]) => content'[p] = content[p]
    <3>1. \A i \in 1..(index - 1) : PartsOf[work][i] # At
      BY <2>1, <2>2, Behind DEF At
    <3> QED BY <1>0, <2>1, <3>1
  <2>5. \A i \in 1..(index' - 1) : \E p \in Parts : p = PartsOf[work'][i] /\ Ready(p)'
    BY <2>1, <2>4, BehindKeeps
  <2>6. work' = "reencode" => status'["onboard"] = "done"
    BY <2>1 DEF CurrentInv
  <2> QED BY <2>1, <2>3, <2>5, <2>6, CurrentKeeps DEF StagesDone
<1>5. CASE Ends
  <2>1. /\ At \in Parts /\ StageOf[At] = work /\ work \in Works
        /\ Write(At, command) /\ UNCHANGED <<status, spared, work>> /\ pc = "command" /\ pc' = "part"
        /\ index' = index + 1 /\ index \in index..Len(PartsOf[work]) /\ index <= Len(PartsOf[work])
        /\ work \in Stages => work \notin StagesDone /\ applicable(work) /\ ~Withdrawn(work)
    BY <1>5, CommandAt DEF Ends, stateFile, RunInv, LockInv, StagesDone, Withdrawn, TypeInv
  <2>2. InputsCurrent(work)
    BY <2>1, CommandInputs
  <2>3. /\ content'[At] = "current"
        /\ \A q \in Parts \ {At} :
             content'[q] = content[q]
               \/ (content[q] = "current" /\ content'[q] = "old" /\ Withdrawn(StageOf[q]))
    BY <1>0, <2>1, <2>2, WriteSpares
  <2>4. \A s \in StagesDone : \A p \in PartSet[s] : Ready(p) => Ready(p)'
    <3> SUFFICES ASSUME NEW s \in StagesDone, NEW p \in PartSet[s], Ready(p)
                 PROVE  Ready(p)'
      OBVIOUS
    <3>1. content'[p] = content[p]
      BY <2>1, <2>3, DoneElsewhere DEF Withdrawn
    <3> QED BY <2>1, <3>1, ReadyKeeps
  <2>5. \A p \in Parts : (\E i \in 1..(index - 1) : p = PartsOf[work][i]) => content'[p] = content[p]
    <3> SUFFICES ASSUME NEW p \in Parts, NEW i \in 1..(index - 1), p = PartsOf[work][i]
                 PROVE  content'[p] = content[p]
      OBVIOUS
    <3>1. p # At /\ StageOf[p] = work
      BY <2>1, Behind DEF At
    <3>2. ~Withdrawn(work)
      BY <2>1 DEF Withdrawn
    <3> QED BY <2>3, <3>1, <3>2
  <2>6. PICK q \in Parts : q = At
    BY <2>1
  <2>7. Ready(q)'
    BY <2>3, <2>6 DEF Ready
  <2>8. \A i \in 1..(index' - 1) : \E p \in Parts : p = PartsOf[work'][i] /\ Ready(p)'
    BY <2>1, <2>5, <2>6, <2>7, BehindMoves
  <2>9. work' = "reencode" => status'["onboard"] = "done"
    BY <2>1 DEF CurrentInv
  <2> QED BY <2>1, <2>4, <2>8, <2>9, CurrentKeeps DEF StagesDone
<1>6. CASE Fail \/ RunDone \/ RecordAssembly \/ Killed
  <2>1. Leave /\ UNCHANGED <<content, spared>> /\ pc \notin {"aside", "swapped"}
    BY <1>6 DEF Fail, RunDone, RecordAssembly, Killed, outputs
  <2>2. StagesDone' \subseteq StagesDone
    BY <1>0, <1>6 DEF Fail, RunDone, RecordAssembly, Killed, StagesDone, stateFile
  <2>3. \A s \in StagesDone : \A p \in PartSet[s] : Ready(p) => Ready(p)'
    BY <2>1, ReadyKeeps
  <2>4. pc' = "idle" /\ work' = "none"
    BY <2>1 DEF Leave
  <2> QED BY <2>1, <2>2, <2>3, <2>4, CurrentKeeps
<1>7. ASSUME NEW b \in Stages, Begin(b)
      PROVE  CurrentInv'
  <2>1. /\ pc = "next" /\ pc' = "part" /\ work' = b /\ index' = 1 /\ b \in todo
        /\ content' = [p \in Parts |-> IF p \in CleanedParts(b) THEN "none" ELSE content[p]]
        /\ spared' = IF CleanedParts(b) = {} THEN spared ELSE spared \ {b}
    BY <1>7 DEF Begin
  <2>2. StagesDone' \subseteq StagesDone
    BY <1>0, <1>7 DEF Begin, StagesDone
  <2>3. b \in Works /\ CleanedParts(b) \subseteq PartSet[b]
    BY DEF Works, CleanedParts
  <2>4. \A s \in StagesDone : \A p \in PartSet[s] : Ready(p) => Ready(p)'
    <3> SUFFICES ASSUME NEW s \in StagesDone, NEW p \in PartSet[s], Ready(p)
                 PROVE  Ready(p)'
      OBVIOUS
    <3>1. p \in Parts /\ StageOf[p] = s /\ s # b
      BY <2>1, DoneElsewhere
    <3>2. p \notin CleanedParts(b)
      BY <2>3, <3>1, PartOfOne
    <3>3. content'[p] = content[p] /\ (s \in spared => s \in spared')
      BY <2>1, <3>1, <3>2
    <3> QED BY <3>1, <3>3 DEF Ready
  <2>5. work' # "reencode"
    BY <1>0, <2>1
  <2>6. pc \notin {"aside", "swapped"} /\ pc' \notin {"aside", "swapped"} /\ 1..(index' - 1) = {}
    BY <2>1
  <2> QED BY <2>2, <2>4, <2>5, <2>6, CurrentKeeps
<1>8. CASE StageDone
  <2>1. /\ pc = "part" /\ pc' = "next" /\ work \in Stages /\ work' = "none"
        /\ UNCHANGED <<content, spared>> /\ index > Len(PartsOf[work])
        /\ StagesDone' \subseteq StagesDone \cup {work}
    BY <1>8 DEF StageDone, StagesDone, outputs
  <2>2. \A p \in PartSet[work] : Ready(p)
    <3>1. work \in Works /\ Len(PartsOf[work]) \in Nat /\ index \in Nat
      BY <2>1, PartsTyped DEF Works, TypeInv
    <3>2. \A i \in 1..Len(PartsOf[work]) : i \in 1..(index - 1)
      BY <2>1, <3>1
    <3>3. \A i \in 1..Len(PartsOf[work]) : Ready(PartsOf[work][i])
      BY <2>1, <3>2 DEF CurrentInv
    <3> QED BY <3>1, <3>3, PartsInOrder
  <2>3. DoneReady(Stages)
    BY <2>1 DEF CurrentInv
  <2>4. \A s \in StagesDone' : \A p \in PartSet[s] : Ready(p)'
    <3> SUFFICES ASSUME NEW s \in StagesDone', NEW p \in PartSet[s]
                 PROVE  Ready(p)'
      OBVIOUS
    <3>1. Ready(p)
      BY <2>1, <2>2, <2>3 DEF DoneReady, StagesDone
    <3> QED BY <2>1, <3>1, ReadyKeeps
  <2>5. DoneReady(Stages)'
    BY <2>4 DEF DoneReady
  <2> QED BY <2>1, <2>5 DEF CurrentInv
<1>9. CASE MoveAside
  <2>1. /\ pc = "part" /\ pc' = "aside" /\ work = "reencode" /\ UNCHANGED <<status, spared, work>>
        /\ index > Len(PartsOf["reencode"])
        /\ content' = [content EXCEPT !["hub"] = "none", !["hub-v2"] = "none", !["out"] = "none"]
    BY <1>9 DEF MoveAside, stateFile
  <2>2. DoneReady(Stages \ {"onboard", "evaluate", "report"})'
    <3> SUFFICES ASSUME NEW s \in StagesDone', s \notin {"onboard", "evaluate", "report"},
                        NEW p \in PartSet[s]
                 PROVE  Ready(p)'
      BY DEF DoneReady
    <3>1. s \in StagesDone /\ Ready(p)
      BY <2>1 DEF CurrentInv, DoneReady, StagesDone
    <3>2. StageOf["hub"] = "onboard" /\ StageOf["hub-v2"] = "onboard" /\ StageOf["out"] = "evaluate"
      BY PartSets, PartOfOne, StageSet DEF Works
    <3>3. p \in Parts /\ p \notin {"hub", "hub-v2", "out"}
      BY <3>1, <3>2, DoneElsewhere
    <3>4. content'[p] = content[p]
      BY <1>0, <2>1, <3>3
    <3> QED BY <2>1, <3>1, <3>4, ReadyKeeps
  <2>3. \A p \in PartSet["reencode"] : content[p] = "current"
    <3>1. work \in Works /\ Len(PartsOf[work]) \in Nat /\ index \in Nat
      BY <2>1, PartsTyped DEF Works, TypeInv
    <3>2. \A i \in 1..Len(PartsOf[work]) : i \in 1..(index - 1)
      BY <2>1, <3>1
    <3>3. \A i \in 1..Len(PartsOf[work]) : Ready(PartsOf[work][i])
      BY <2>1, <3>2 DEF CurrentInv
    <3>4. \A p \in PartSet[work] : Ready(p) /\ StageOf[p] = work
      BY <3>1, <3>3, PartsInOrder, PartOfOne
    <3>5. "reencode" \notin spared /\ "train" \notin PartSet["reencode"]
      BY <1>0, PartSets DEF TypeInv, TypeOK
    <3> QED BY <2>1, <3>4, <3>5 DEF Ready
  <2>4. /\ \A p \in PartSet["reencode"] : content'[p] = "current"
        /\ content'["hub-v2"] = "none" /\ content'["out"] = "none"
    BY <1>0, <2>1, <2>3, HubParts, PartSets
  <2> QED BY <2>1, <2>2, <2>4 DEF CurrentInv
<1>10. CASE SwapIn
  <2> DEFINE moved == [content EXCEPT
               !["hub"] = content["hub.reencode"], !["hub.reencode"] = "none",
               !["hub-v2"] = content["hub-v2.reencode"], !["hub-v2.reencode"] = "none"]
  <2>1. /\ pc = "aside" /\ pc' = "swapped" /\ UNCHANGED <<status, spared, work>>
        /\ content' = Replaced(moved, "reencode")
    BY <1>10 DEF SwapIn, stateFile
  <2>2. \A p \in Parts \ {"out", "report"} : content'[p] = moved[p]
    BY <1>0, <2>1 DEF Replaced, Outdated
  <2>3. DoneReady(Stages \ {"evaluate", "report"})'
    <3> SUFFICES ASSUME NEW s \in StagesDone', s \notin {"evaluate", "report"},
                        NEW p \in PartSet[s]
                 PROVE  Ready(p)'
      BY DEF DoneReady
    <3>1. s \in StagesDone
      BY <2>1 DEF StagesDone
    <3>2. /\ StageOf["out"] = "evaluate" /\ StageOf["report"] = "report"
          /\ StageOf["hub.reencode"] = "reencode" /\ StageOf["hub-v2.reencode"] = "reencode"
          /\ StageOf["hub"] = "onboard" /\ StageOf["hub-v2"] = "onboard"
      BY PartSets, PartOfOne, StageSet DEF Works
    <3>3. p \in Parts /\ p \notin {"out", "report", "hub.reencode", "hub-v2.reencode"}
      BY <3>1, <3>2, DoneElsewhere
    <3>4. content'[p] = moved[p]
      BY <2>2, <3>3
    <3>5. CASE s = "onboard"
      <4>1. p \in {"hub", "hub-v2"}
        BY <3>5, PartSets
      <4>2. moved[p] = "current"
        BY <1>0, <2>1, <4>1, HubParts, PartSets DEF CurrentInv
      <4> QED BY <3>4, <4>2 DEF Ready
    <3>6. CASE s # "onboard"
      <4>1. Ready(p)
        BY <2>1, <3>1, <3>6 DEF CurrentInv, DoneReady, StagesDone
      <4>2. p \notin {"hub", "hub-v2"}
        BY <3>1, <3>2, <3>6, DoneElsewhere
      <4>3. moved[p] = content[p]
        BY <1>0, <3>3, <4>2
      <4> QED BY <2>1, <3>4, <4>1, <4>3, ReadyKeeps
    <3> QED BY <3>5, <3>6
  <2>4. work' = "reencode" => status'["onboard"] = "done"
    BY <2>1 DEF CurrentInv
  <2> QED BY <2>1, <2>3, <2>4 DEF CurrentInv
<1>11. CASE Reencoded
  <2>1. /\ pc = "swapped" /\ pc' = "idle" /\ work' = "none" /\ UNCHANGED <<content, spared>>
        /\ StagesDone' = StagesDone \ {"evaluate", "report"}
    BY <1>0, <1>11 DEF Reencoded, Leave, StagesDone, OutdatedByReencode, outputs
  <2>2. \A s \in StagesDone' : \A p \in PartSet[s] : Ready(p)'
    <3> SUFFICES ASSUME NEW s \in StagesDone', NEW p \in PartSet[s]
                 PROVE  Ready(p)'
      OBVIOUS
    <3>1. Ready(p)
      BY <2>1 DEF CurrentInv, DoneReady, StagesDone
    <3> QED BY <2>1, <3>1, ReadyKeeps
  <2>3. DoneReady(Stages)'
    BY <2>2 DEF DoneReady
  <2> QED BY <2>1, <2>3 DEF CurrentInv
<1>12. ASSUME NEW r \in Requests, Run(r)
       PROVE  CurrentInv'
  <2>1. /\ pc = "idle" /\ pc' = "next" /\ UNCHANGED <<content, work>> /\ spared \subseteq spared'
        /\ work = "none"
    BY <1>12 DEF Run, outputs, RunInv
  <2>2. StagesDone' \subseteq StagesDone
    BY <1>12 DEF Run, Restarted, StagesDone
  <2>3. \A s \in StagesDone : \A p \in PartSet[s] : Ready(p) => Ready(p)'
    BY <2>1, ReadyKeeps
  <2> QED BY <2>1, <2>2, <2>3, CurrentKeeps
<1>13. ASSUME NEW r \in Requests, Reencode(r)
       PROVE  CurrentInv'
  <2>1. /\ pc = "idle" /\ pc' = "part" /\ UNCHANGED <<status, spared>> /\ index' = 1
        /\ status["onboard"] = "done"
        /\ content' = [p \in Parts |-> IF p \in PartSet["reencode"] THEN "none" ELSE content[p]]
    BY <1>13 DEF Reencode, stateFile
  <2>2. \A s \in StagesDone : \A p \in PartSet[s] : Ready(p) => Ready(p)'
    <3> SUFFICES ASSUME NEW s \in StagesDone, NEW p \in PartSet[s], Ready(p)
                 PROVE  Ready(p)'
      OBVIOUS
    <3>1. p \in Parts /\ p \notin PartSet["reencode"]
      BY DoneElsewhere, PartOfOne DEF Works
    <3>2. content'[p] = content[p]
      BY <2>1, <3>1
    <3> QED BY <2>1, <3>2, ReadyKeeps
  <2>3. StagesDone' = StagesDone /\ 1..(index' - 1) = {}
    BY <2>1 DEF StagesDone
  <2> QED BY <2>1, <2>2, <2>3, CurrentKeeps
<1>14. ASSUME NEW r \in Requests, Assemble(r)
       PROVE  CurrentInv'
  <2>1. /\ pc = "idle" /\ pc' = "merged" /\ UNCHANGED <<content, status, spared>> /\ work' = "none"
    BY <1>14 DEF Assemble, outputs, stateFile, idle, RunInv
  <2>2. \A s \in StagesDone : \A p \in PartSet[s] : Ready(p) => Ready(p)'
    BY <2>1, ReadyKeeps
  <2> QED BY <2>1, <2>2, CurrentKeeps DEF StagesDone
<1>15. ASSUME NEW o \in orphans, OrphanEnds(o)
       PROVE  CurrentInv'
  <2>1. /\ UNCHANGED <<status, pc, work, redo, todo, index, spared>>
        /\ NothingNew(o) \/ NewBundle(o) \/ NewOutput(o)
    BY <1>15, OrphanCases
  <2>2. CASE NothingNew(o)
    BY <2>1, <2>2 DEF NothingNew, CurrentInv, DoneReady, Ready, StagesDone
  <2>3. CASE NewBundle(o)
    <3>1. /\ o.part \in Parts /\ StageOf[o.part] = "reencode"
          /\ \A q \in Parts \ {o.part} : content'[q] = content[q]
          /\ Locked(o.part) \/ content[o.part] = "partial"
      BY <2>3 DEF NewBundle
    <3>2. \A s \in StagesDone : \A p \in PartSet[s] : content'[p] = content[p]
      BY <3>1, DoneElsewhere
    <3>3. \A s \in StagesDone : \A p \in PartSet[s] : Ready(p) => Ready(p)'
      BY <2>1, <3>2, ReadyKeeps
    <3>4. CASE pc \in {"aside", "swapped"}
      <4>1. work = "reencode" /\ ~Locked(o.part)
        BY <3>4 DEF RunInv, LockInv, LockedWorks
      <4>2. content[o.part] = "partial"
        BY <3>1, <4>1
      <4>3. /\ pc = "aside" => DoneReady(Stages \ {"onboard", "evaluate", "report"})'
            /\ pc = "swapped" => DoneReady(Stages \ {"evaluate", "report"})'
        BY <2>1, <3>3 DEF CurrentInv, DoneReady, StagesDone
      <4>4. ASSUME pc = "aside"
            PROVE  /\ \A p \in PartSet["reencode"] : content'[p] = "current"
                   /\ content'["hub-v2"] = "none" /\ content'["out"] = "none"
        <5>1. /\ \A p \in PartSet["reencode"] : content[p] = "current"
              /\ content["hub-v2"] = "none" /\ content["out"] = "none"
          BY <4>4 DEF CurrentInv
        <5> QED BY <3>1, <4>2, <5>1, HubParts, PartSets
      <4>5. work = "reencode" => status["onboard"] = "done"
        BY DEF CurrentInv
      <4> QED BY <2>1, <3>4, <4>3, <4>4, <4>5 DEF CurrentInv
    <3>5. CASE pc \notin {"aside", "swapped"}
      <4>1. ASSUME pc \in {"part", "locks", "command"}
            PROVE  \A i \in 1..(index' - 1) : \E p \in Parts : p = PartsOf[work'][i] /\ Ready(p)'
        <5>1. ASSUME NEW i \in 1..(index - 1), PartsOf[work][i] = o.part
              PROVE  FALSE
          <6>1. Ready(o.part) /\ work = "reencode"
            BY <3>1, <4>1, <5>1, Behind
          <6>2. index >= 2
            BY DEF TypeInv
          <6>3. ~Locked(o.part)
            BY <6>1, <6>2 DEF LockInv, LockedWorks
          <6> QED BY <3>1, <6>1, <6>3 DEF Ready
        <5>2. \A p \in Parts : (\E i \in 1..(index - 1) : p = PartsOf[work][i]) => content'[p] = content[p]
          BY <3>1, <5>1
        <5> QED BY <2>1, <4>1, <5>2, BehindKeeps
      <4>2. work' = "reencode" => status'["onboard"] = "done"
        BY <2>1 DEF CurrentInv
      <4> QED BY <2>1, <3>3, <3>5, <4>1, <4>2, CurrentKeeps DEF StagesDone
    <3> QED BY <3>4, <3>5
  <2>4. CASE NewOutput(o)
    <3>1. /\ pc \notin {"aside", "swapped"}
          /\ o.part \in Parts /\ StageOf[o.part] \in Stages
          /\ StageOf[o.part] \notin StagesDone /\ ~Chunk(o.part)
          /\ Locked(o.part) \/ content[o.part] = "partial"
      BY <2>4 DEF NewOutput
    <3>2. /\ content'[o.part] = IF o.old \/ ~InputsCurrent(StageOf[o.part]) THEN "old" ELSE "current"
          /\ \A q \in Parts \ {o.part} :
               content'[q] = content[q]
                 \/ (content[q] = "current" /\ content'[q] = "old" /\ Withdrawn(StageOf[q]))
      BY <2>4, WriteSpares DEF NewOutput
    <3>3. \A s \in StagesDone : \A p \in PartSet[s] : content'[p] = content[p]
      BY <3>1, <3>2, DoneElsewhere DEF Withdrawn
    <3>4. \A s \in StagesDone : \A p \in PartSet[s] : Ready(p) => Ready(p)'
      BY <2>1, <3>3, ReadyKeeps
    <3>5. ASSUME pc \in {"part", "locks", "command"}, NEW i \in 1..(index - 1)
          PROVE  \E p \in Parts : p = PartsOf[work][i] /\ Ready(p)'
      <4>1. PICK p \in Parts : p = PartsOf[work][i]
        BY <3>5, Behind
      <4>2. Ready(p) /\ StageOf[p] = work /\ p \in PartSet[work]
        BY <3>5, <4>1, Behind
      <4>3. CASE p # o.part
        <5>1. work \in Stages => Reads[work] \subseteq StagesDone
          BY DEF RunInv
        <5>2. content'[p] = content[p]
          BY <3>2, <4>2, <4>3, <5>1 DEF Withdrawn
        <5> QED BY <2>1, <4>1, <4>2, <5>2, ReadyKeeps
      <4>4. CASE p = o.part
        <5>1. work \in Stages /\ index >= 2 /\ content[o.part] # "partial"
          BY <3>1, <4>2, <4>4 DEF TypeInv, Ready
        <5>2. work \notin LockedWorks
          BY <3>1, <5>1 DEF LockInv
        <5>3. ~InProcess(o.part)
          BY DEF LockInv
        <5>4. work = "evaluate" /\ Direction(p)
          <6>1. work \in {"render", "capture", "evaluate", "report"}
            BY <5>1, <5>2, StageSet DEF LockedWorks
          <6>2. work # "capture"
            BY <3>1, <4>2, <4>4 DEF Chunk
          <6>3. work \notin {"render", "report"}
            BY <4>2, <4>4, <5>3, PartSets DEF InProcess
          <6> QED BY <4>2, <6>1, <6>2, <6>3 DEF Direction
        <5>5. Reads["evaluate"] \subseteq StagesDone /\ DoneReady(Stages)
          BY <3>1, <5>1, <5>4 DEF RunInv, CurrentInv
        <5>6. ~o.old
          BY <4>4, <5>4, <5>5 DEF LateInv
        <5>7. InputsCurrent("evaluate")
          BY <5>5, EvaluationInputs
        <5>8. content'[p] = "current"
          BY <3>2, <4>2, <4>4, <5>4, <5>6, <5>7
        <5> QED BY <4>1, <5>8 DEF Ready
      <4> QED BY <4>3, <4>4
    <3>6. work' = "reencode" => status'["onboard"] = "done"
      BY <2>1 DEF CurrentInv
    <3> QED BY <2>1, <3>1, <3>4, <3>5, <3>6, CurrentKeeps DEF StagesDone
  <2> QED BY <2>1, <2>2, <2>3, <2>4
<1> QED BY <1>1, <1>2, <1>3, <1>4, <1>5, <1>6, <1>7, <1>8, <1>9, <1>10, <1>11, <1>12, <1>13, <1>14,
           <1>15 DEF Next, Step

\* A campaign nobody has run holds nothing that could be old.
LEMMA InitConsistent == Init => Consistent
<1> SUFFICES ASSUME Init
             PROVE  Consistent
  OBVIOUS
<1>1. /\ StagesDone = {} /\ pc = "idle" /\ work = "none" /\ orphans = {} /\ ~command
      /\ status = [s \in Stages |-> "none"] /\ content = [p \in Parts |-> "none"]
  BY DEF Init, StagesDone
<1>2. KeepInv
  <2>1. \A s \in Keepers : s \in Stages /\ \A p \in PartSet[s] : p \in Parts
    BY PartOfOne, StageSet DEF Keepers, Works
  <2> QED BY <1>1, <2>1 DEF KeepInv, Untouched, Finished
<1>3. LateInv
  BY <1>1 DEF LateInv
<1>4. CurrentInv
  BY <1>1 DEF CurrentInv, DoneReady
<1> QED BY <1>2, <1>3, <1>4, InitLocks DEF Consistent

\* And no step makes anything inconsistent.
LEMMA ConsistentStep ==
  ASSUME Consistent, "swap" \notin Faults, [Next]_vars
  PROVE  Consistent'
<1>1. TypeInv' /\ RunInv' /\ LockInv'
  BY NextTyped, NextSimulates, LockStep DEF Consistent
<1> QED BY <1>1, KeepStep, LateStep, CurrentStep DEF Consistent

\* What a stage recorded as done holds was computed from what the stages it needs hold now
\* (clean_outputs, adopt_chunk, kept_run, stale_stages), over any sequence of runs that fail, are
\* killed or redo stages, provided that no process dies between the renames of a re-encoding.
THEOREM Currency ==
  ASSUME "swap" \notin Faults
  PROVE  Spec => []DoneIsCurrent
<1>1. Consistent /\ [Next]_vars => Consistent'
  BY ConsistentStep
<1>2. Consistent => DoneIsCurrent
  BY DEF Consistent, CurrentInv, DoneReady, DoneIsCurrent, StagesDone
<1> QED BY InitConsistent, <1>1, <1>2, PTL DEF Spec

\* A command starts, and goes on, on inputs that are complete and current (run_stages, plan_run),
\* under the same proviso.
THEOREM Readiness ==
  ASSUME "swap" \notin Faults
  PROVE  Spec => []InputsReady
<1>1. Consistent /\ [Next]_vars => Consistent'
  BY ConsistentStep
<1>2. Consistent => InputsReady
  <2> SUFFICES ASSUME Consistent, pc = "command"
               PROVE  /\ InputsCurrent(work)
                      /\ \A r \in IF work = "reencode" THEN {"onboard"} ELSE Reads[work] : status[r] = "done"
    BY DEF InputsReady
  <2>1. InputsCurrent(work)
    BY CommandInputs DEF Consistent
  <2>2. work \in Works
    BY CommandAt DEF Consistent
  <2>3. work = "reencode" => status["onboard"] = "done"
    BY DEF Consistent, CurrentInv
  <2>4. work \in Stages => Reads[work] \subseteq StagesDone
    BY DEF Consistent, RunInv
  <2> QED BY <2>1, <2>2, <2>3, <2>4 DEF Works, StagesDone
<1> QED BY InitConsistent, <1>1, <1>2, PTL DEF Spec
=============================================================================
