------------------------------ MODULE Campaign ------------------------------
(***************************************************************************)
(* Onboarding a model, stage by stage (experiments/universal_kv/           *)
(* campaign.py).  One process at a time works on a model (an flock in its  *)
(* directory): `run` plans the stages that are not done or to be redone,   *)
(* removes what an unfinished one left, runs its commands and records the  *)
(* status; `reencode` fits the encoder again and swaps the hub;            *)
(* `assemble` merges the hub into one for the bridge.                      *)
(*                                                                         *)
(* A stage's output is a sequence of parts.  A part is what a command      *)
(* wrote: computed from what the stages it reads hold now ("current"), or  *)
(* from what they held before ("old").  A killed process leaves its        *)
(* command running, which then writes its part all the same; the command   *)
(* has inherited the machine's locks, so the next command waits for it     *)
(* (module ResourceGuard).  The captured documents are two chunks, the     *)
(* held-out documents and the training documents; an evaluation has two    *)
(* directions, into the model and out of it.                               *)
(***************************************************************************)
EXTENDS Naturals, Sequences, FiniteSets

CONSTANTS
  Requests,      \* what a user asks of campaign.py
  Recurrent,     \* the model needs a recurrent mean
  MaxLaunches,   \* bound: processes started
  Faults         \* what may go wrong

STAGES == <<"render", "capture", "onboard", "tables", "recurrent", "evaluate", "report">>
Stages == {STAGES[i] : i \in DOMAIN STAGES}

REQUIRES ==
  [render |-> {}, capture |-> {"render"}, onboard |-> {"capture"}, tables |-> {"onboard"},
   recurrent |-> {}, evaluate |-> {"onboard", "tables", "recurrent"}, report |-> Stages \ {"report"}]

Works == Stages \cup {"reencode"}

\* The commands of a stage and of a re-encoding, by what they write.
PartsOf ==
  [render |-> <<"render">>, capture |-> <<"held", "train">>, onboard |-> <<"hub", "hub-v2">>,
   tables |-> <<"tables">>, recurrent |-> <<"recurrent">>, evaluate |-> <<"into", "out">>,
   report |-> <<"report">>, reencode |-> <<"hub.reencode", "hub-v2.reencode">>]

PartSet == [s \in Works |-> {PartsOf[s][i] : i \in DOMAIN PartsOf[s]}]
Parts == UNION {PartSet[s] : s \in Works}
StageOf == [p \in Parts |-> CHOOSE s \in Works : p \in PartSet[s]]

Contents == {"none", "partial", "current", "old"}
Statuses == {"none", "running", "done", "failed", "stale", "outdated", "skipped"}
FaultKinds == {"kill", "fail", "timeout", "swap"}

ASSUME CampaignAssumption ==
  /\ Requests \subseteq [kind: {"run", "reencode", "assemble"}, only: SUBSET Stages,
                         redo: SUBSET Stages]
  /\ Recurrent \in BOOLEAN
  /\ MaxLaunches \in Nat
  /\ Faults \subseteq FaultKinds

VARIABLES
  status,     \* state.json: of each stage
  recorded,   \* state.json: the fit whose files the onboarding recorded; 0: none
  content,    \* of each part
  hub,        \* the fit that hub/ holds
  fits,       \* fits so far
  merged,     \* the fit in the assembled hub; 0: none assembled
  listed,     \* assembled.json names it
  pc,         \* the process: "idle", "next", "part", "locks", "command", "aside", "swapped", "merged"
  work,       \* its stage, or "reencode"; "none" between stages
  redo,       \* its --redo
  todo,       \* its stages still to begin
  index,      \* the part of work it is at
  command,    \* its command's inputs have been replaced
  orphans,    \* commands whose process was killed: part and, as above, old
  spared,     \* history: stages that --redo reached, but unfinished: it did not mark them stale
  launches

stateFile == <<status, recorded>>
outputs == <<content, hub, fits>>
assembly == <<merged, listed>>
idle == <<work, redo, todo, index, command>>
vars == <<status, recorded, content, hub, fits, merged, listed, pc, work, redo, todo, index,
          command, orphans, spared, launches>>

-----------------------------------------------------------------------------
(* Planning *)

applicable(s) == s # "recurrent" \/ Recurrent

Reads == [s \in Stages |-> {r \in REQUIRES[s] : applicable(r)}]

\* The stages that need one of S, directly or through others; REQUIRES is at most five deep.
Above(S) == S \cup {s \in Stages : REQUIRES[s] \cap S # {}}
Downstream == [s \in Stages |-> Above(Above(Above(Above(Above({s}))))) \ {s}]

\* Mutant: only what --redo names is marked.
MarkedAlone(S) == S

\* stale_stages(): what --redo invalidates.
Marked(S) == UNION {{s} \cup Downstream[s] : s \in S}

Earlier(s, r) == \E i, j \in DOMAIN STAGES : i < j /\ STAGES[i] = s /\ STAGES[j] = r

\* plan_run(): the stages to run, or why it refuses.
Planned(only, again) ==
  {s \in Stages :
     /\ applicable(s)
     /\ status[s] # "done" \/ s \in Marked(again)
     /\ only = {} \/ s \in only}

\* Mutant: a stage about to be redone counts as done.
MissingNothingRedone(S, again) ==
  \E s \in S : \E r \in REQUIRES[s] :
    /\ applicable(r) /\ ~(r \in S /\ Earlier(r, s))
    /\ status[r] # "done"

Missing(S, again) ==
  \E s \in S : \E r \in REQUIRES[s] :
    /\ applicable(r) /\ ~(r \in S /\ Earlier(r, s))
    /\ status[r] # "done" \/ r \in Marked(again)

-----------------------------------------------------------------------------
(* Outputs *)

Finished == {"current", "old"}

\* A capture may have ended before the training documents.
Ready(p) ==
  \/ content[p] = "current"
  \/ content[p] = "old" /\ StageOf[p] \in spared
  \/ content[p] = "none" /\ p = "train"

\* Everything a stage reads is there, and from what it read itself.
InputsCurrent(s) ==
  \A r \in IF s = "reencode" THEN {"capture", "onboard"} ELSE Reads[s] :
    \A p \in PartSet[r] : Ready(p)

\* What was computed from the parts of stage s is old once one of them is replaced.  A
\* re-encoding leaves the sides that the runs into the model read, and the spans.
Outdated(p, s) ==
  StageOf[p] # "reencode" /\ (IF s = "reencode" THEN p \in {"out", "report"}
                              ELSE StageOf[p] \in Downstream[s])

Replaced(c, s) ==
  [p \in Parts |-> IF Outdated(p, s) /\ c[p] = "current" THEN "old" ELSE c[p]]

\* A command writes part p; its inputs may have been replaced since it began.  From the
\* same inputs it writes the same again.
Write(p, late) ==
  LET s == StageOf[p]
      made == IF late \/ ~InputsCurrent(s) THEN "old" ELSE "current"
      written == [content EXCEPT ![p] = made]
  IN  content' = IF s = "reencode" \/ written = content THEN written ELSE Replaced(written, s)

Fitted(p) ==
  IF p = "hub" THEN hub' = fits + 1 /\ fits' = fits + 1 ELSE UNCHANGED <<hub, fits>>

\* Commands under way whose inputs this replaces.
LateOrphans(S, s) == {[o EXCEPT !.old = @ \/ Outdated(o.part, s)] : o \in S}

Init ==
  /\ status = [s \in Stages |-> "none"]
  /\ recorded = 0
  /\ content = [p \in Parts |-> "none"]
  /\ hub = 0 /\ fits = 0
  /\ merged = 0 /\ listed = FALSE
  /\ pc = "idle" /\ work = "none" /\ redo = {} /\ todo = {} /\ index = 0 /\ command = FALSE
  /\ orphans = {}
  /\ spared = {}
  /\ launches = 0

\* The process ends, well or not.
Leave ==
  /\ pc' = "idle" /\ work' = "none" /\ redo' = {} /\ todo' = {} /\ index' = 0 /\ command' = FALSE

-----------------------------------------------------------------------------
(* Campaign.run: one command *)

At == PartsOf[work][index]
Chunk(p) == p \in PartSet["capture"]
Direction(p) == p \in PartSet["evaluate"]
InProcess(p) == p \in {"render", "report"}

\* convert_hub runs without a lock.
Locked(p) == ~InProcess(p) /\ p \notin {"hub-v2", "hub-v2.reencode"}

\* token_tables writes over what is there and pair_eval resumes it; the others want it gone.
Refuses(p) == p \notin {"tables"} \cup PartSet["evaluate"]

\* A chunk published together with its documents, a direction with its report.
Keepable(p) == (Chunk(p) \/ Direction(p)) /\ content[p] \in Finished

\* adopt_chunk(), kept_run(): neither looks at what the part was computed from, only at the
\* documents' ids and the command.
Keep ==
  /\ pc = "part" /\ index <= Len(PartsOf[work]) /\ Keepable(At)
  /\ index' = index + 1
  /\ UNCHANGED <<stateFile, outputs, assembly, pc, work, redo, todo, command, orphans, spared, launches>>

\* remove_chunks(): this one and all after it.
Cleared(c) ==
  [p \in Parts |->
     IF Chunk(p) /\ \E i \in index..Len(PartsOf[work]) : p = PartsOf[work][i] THEN "none" ELSE c[p]]

\* The part is to be computed: a chunk also when this run's budget orders the documents
\* differently.  Then the process waits for the locks and a cool package.
Prepare ==
  /\ pc = "part" /\ index <= Len(PartsOf[work]) /\ ~(Direction(At) /\ Keepable(At))
  /\ content' = Cleared(content)
  /\ pc' = "locks"
  /\ UNCHANGED <<stateFile, hub, fits, assembly, work, redo, todo, index, command, orphans, spared, launches>>

LocksFree == Locked(At) => \A o \in orphans : ~Locked(o.part)

Start ==
  /\ pc = "locks" /\ LocksFree
  /\ ~(Refuses(At) /\ content[At] # "none")
  /\ content' = [content EXCEPT ![At] = IF @ = "none" THEN "partial" ELSE @]
  /\ pc' = "command" /\ command' = FALSE
  /\ UNCHANGED <<stateFile, hub, fits, assembly, work, redo, todo, index, orphans, spared, launches>>

Ends ==
  /\ pc = "command"
  /\ Write(At, command)
  /\ Fitted(At)
  /\ orphans' = IF work = "reencode" THEN orphans ELSE LateOrphans(orphans, work)
  /\ pc' = "part" /\ index' = index + 1 /\ command' = FALSE
  /\ UNCHANGED <<stateFile, assembly, work, redo, todo, spared, launches>>

\* The training chunk ran past the time limit: the capture ends with the held-out documents.
TimesOut ==
  /\ pc = "command" /\ At = "train" /\ "timeout" \in Faults
  /\ content' = Cleared(content)
  /\ pc' = "part" /\ index' = index + 1 /\ command' = FALSE
  /\ UNCHANGED <<stateFile, hub, fits, assembly, work, redo, todo, orphans, spared, launches>>

\* The command fails, finds its output there, or is ended by the guard, a time limit or a
\* signal to the process: the stage has failed.
Fail ==
  /\ \/ pc \in {"locks", "command"} /\ "fail" \in Faults
     \/ pc = "locks" /\ LocksFree /\ Refuses(At) /\ content[At] # "none"
  /\ IF work \in Stages THEN status' = [status EXCEPT ![work] = "failed"] ELSE UNCHANGED status
  /\ Leave
  /\ UNCHANGED <<recorded, outputs, assembly, orphans, spared, launches>>

-----------------------------------------------------------------------------
(* run *)

\* Statuses of a run's start: the stages to redo, and those above them, if they are done.
Restarted(again) ==
  [s \in Stages |->
     IF ~applicable(s) THEN "skipped"
     ELSE IF s \in Marked(again) /\ status[s] = "done" THEN "stale" ELSE status[s]]

Run(r) ==
  /\ pc = "idle" /\ r.kind = "run" /\ launches < MaxLaunches
  /\ ~Missing(Planned(r.only, r.redo), r.redo)
  /\ status' = Restarted(r.redo)
  /\ pc' = "next" /\ redo' = r.redo /\ todo' = Planned(r.only, r.redo)
  /\ spared' = spared \cup {s \in Marked(r.redo) : status[s] \in {"running", "failed", "outdated"}}
  /\ launches' = launches + 1
  /\ UNCHANGED <<recorded, outputs, assembly, work, index, command, orphans>>

\* Mutant: a stage to be redone keeps what it had finished.
CleanedLikeResumed(s) == IF s \in {"capture", "evaluate"} THEN {} ELSE PartSet[s]

\* clean_outputs(): a stage that did not finish keeps its finished parts.
CleanedParts(s) ==
  IF s \in {"capture", "evaluate"} /\ s \notin redo /\ status[s] # "stale" THEN {} ELSE PartSet[s]

\* The next stage: its outputs are cleaned and state.json says "running".
Begin(s) ==
  /\ pc = "next" /\ s \in todo /\ \A r \in todo : ~Earlier(r, s)
  /\ content' = [p \in Parts |-> IF p \in CleanedParts(s) THEN "none" ELSE content[p]]
  /\ hub' = IF s = "onboard" THEN 0 ELSE hub
  /\ recorded' = IF s = "onboard" THEN 0 ELSE recorded
  /\ status' = [status EXCEPT ![s] = "running"]
  /\ pc' = "part" /\ work' = s /\ index' = 1 /\ todo' = todo \ {s}
  /\ spared' = IF CleanedParts(s) = {} THEN spared ELSE spared \ {s}
  /\ UNCHANGED <<fits, assembly, redo, command, orphans, launches>>

StageDone ==
  /\ pc = "part" /\ index > Len(PartsOf[work]) /\ work \in Stages
  /\ status' = [status EXCEPT ![work] = "done"]
  /\ recorded' = IF work = "onboard" THEN hub ELSE recorded
  /\ pc' = "next" /\ work' = "none" /\ index' = 0
  /\ UNCHANGED <<outputs, assembly, redo, todo, command, orphans, spared, launches>>

RunDone ==
  /\ pc = "next" /\ todo = {}
  /\ Leave
  /\ UNCHANGED <<stateFile, outputs, assembly, orphans, spared, launches>>

-----------------------------------------------------------------------------
(* reencode *)

Reencode(r) ==
  /\ pc = "idle" /\ r.kind = "reencode" /\ launches < MaxLaunches
  /\ status["onboard"] = "done"
  /\ content' = [p \in Parts |-> IF p \in PartSet["reencode"] THEN "none" ELSE content[p]]
  /\ pc' = "part" /\ work' = "reencode" /\ index' = 1
  /\ launches' = launches + 1
  /\ UNCHANGED <<stateFile, hub, fits, assembly, redo, todo, command, orphans, spared>>

\* The bundles, and the runs out of the model, go to history/.
MoveAside ==
  /\ pc = "part" /\ work = "reencode" /\ index > Len(PartsOf[work])
  /\ content' = [content EXCEPT !["hub"] = "none", !["hub-v2"] = "none", !["out"] = "none"]
  /\ hub' = 0
  /\ pc' = "aside"
  /\ UNCHANGED <<stateFile, fits, assembly, work, redo, todo, index, command, orphans, spared, launches>>

\* The new bundles take their place.
SwapIn ==
  /\ pc = "aside"
  /\ content' = Replaced([content EXCEPT
       !["hub"] = content["hub.reencode"], !["hub.reencode"] = "none",
       !["hub-v2"] = content["hub-v2.reencode"], !["hub-v2.reencode"] = "none"], "reencode")
  /\ hub' = fits + 1 /\ fits' = fits + 1
  /\ orphans' = LateOrphans(orphans, "reencode")
  /\ pc' = "swapped"
  /\ UNCHANGED <<stateFile, assembly, work, redo, todo, index, command, spared, launches>>

OutdatedByReencode == {"evaluate", "report"}

Reencoded ==
  /\ pc = "swapped"
  /\ status' = [s \in Stages |->
       IF s \in OutdatedByReencode /\ status[s] = "done" THEN "outdated" ELSE status[s]]
  /\ recorded' = hub
  /\ Leave
  /\ UNCHANGED <<outputs, assembly, orphans, spared, launches>>

-----------------------------------------------------------------------------
(* assemble, status *)

\* check_member() with the model's lock, then merge_bundles() into a new directory.
Assemble(r) ==
  /\ pc = "idle" /\ r.kind = "assemble" /\ launches < MaxLaunches
  /\ status["onboard"] = "done" /\ recorded = hub
  /\ merged' = hub /\ listed' = FALSE
  /\ pc' = "merged"
  /\ launches' = launches + 1
  /\ UNCHANGED <<stateFile, outputs, idle, orphans, spared>>

\* record_assembly()
RecordAssembly ==
  /\ pc = "merged"
  /\ listed' = TRUE
  /\ Leave
  /\ UNCHANGED <<stateFile, outputs, merged, orphans, spared, launches>>

\* Mutant: the files are not compared.
StaleHubByStatus == listed /\ status["onboard"] # "done"

\* stale_hubs(): whether `status` flags the assembled hub.
StaleHub == listed /\ (status["onboard"] # "done" \/ recorded # merged)

-----------------------------------------------------------------------------
(* Crashes *)

\* SIGKILL, or the terminal is gone: what runs in the process is cut, a command goes on.
Killed ==
  /\ pc # "idle" /\ "kill" \in Faults
  /\ pc \in {"aside", "swapped"} => "swap" \in Faults
  /\ orphans' =
       IF pc = "command" /\ ~InProcess(At) THEN orphans \cup {[part |-> At, old |-> command]} ELSE orphans
  /\ Leave
  /\ UNCHANGED <<stateFile, outputs, assembly, spared, launches>>

\* Such a command ends.  Nobody writes down what a chunk held, so it is no published chunk;
\* a conversion fails when its directory is gone.
OrphanEnds(o) ==
  /\ LET s == StageOf[o.part] IN
       \/ orphans' = orphans \ {o} /\ UNCHANGED <<outputs, command>>
       \/ /\ ~Chunk(o.part) /\ (Locked(o.part) \/ content[o.part] = "partial")
          /\ Write(o.part, o.old)
          /\ Fitted(o.part)
          /\ IF content' = content \/ s = "reencode"
               THEN orphans' = orphans \ {o} /\ UNCHANGED command
               ELSE /\ orphans' = LateOrphans(orphans \ {o}, s)
                    /\ command' = (command \/ (pc = "command" /\ Outdated(At, s)))
  /\ UNCHANGED <<stateFile, assembly, pc, work, redo, todo, index, spared, launches>>

-----------------------------------------------------------------------------
Step ==
  \/ Keep \/ Prepare \/ Start \/ Ends \/ TimesOut \/ Fail
  \/ (\E s \in Stages : Begin(s)) \/ StageDone \/ RunDone
  \/ MoveAside \/ SwapIn \/ Reencoded \/ RecordAssembly

Next ==
  \/ \E r \in Requests : Run(r) \/ Reencode(r) \/ Assemble(r)
  \/ Step
  \/ Killed
  \/ \E o \in orphans : OrphanEnds(o)

Spec == Init /\ [][Next]_vars

\* What it promises.
StagesDone == {s \in Stages : status[s] = "done"}
P == INSTANCE Pipeline WITH Needs <- Reads, finished <- StagesDone

-----------------------------------------------------------------------------
(* Properties *)

\* The shape of the state.
TypeOK ==
  /\ status \in [Stages -> Statuses]
  /\ content \in [Parts -> Contents]
  /\ {recorded, hub, merged} \subseteq 0..fits
  /\ listed \in BOOLEAN
  /\ pc \in {"idle", "next", "part", "locks", "command", "aside", "swapped", "merged"}
  /\ work \in Works \cup {"none"}
  /\ pc \in {"part", "locks", "command"} => index \in 1..Len(PartsOf[work]) + 1
  /\ redo \subseteq Stages /\ todo \subseteq Stages
  /\ orphans \subseteq [part: Parts, old: BOOLEAN]
  /\ spared \subseteq Stages
  /\ launches \in 0..MaxLaunches

\* What a stage recorded as done holds was computed from what the stages it needs hold now,
\* over failures, kills, --redo and --stages in any order.  Stages that were not done when --redo
\* named them or one they read are the exception: unless that run gets to them, they keep their
\* finished parts.
DoneIsCurrent ==
  pc \notin {"aside", "swapped"} =>
    \A s \in Stages : status[s] = "done" => \A p \in PartSet[s] : Ready(p)

\* A command never works on inputs that are missing, half written or about to be redone.
InputsReady ==
  pc = "command" =>
    /\ InputsCurrent(work)
    /\ \A r \in IF work = "reencode" THEN {"onboard"} ELSE Reads[work] : status[r] = "done"

\* An assembled hub that no longer holds the model's onboarding is flagged by `status`
\* ("and assembled hubs an onboarding has outdated since").
OutdatedHubsFlagged ==
  pc \notin {"aside", "swapped"} => (listed /\ merged # hub => StaleHub)

\* The stages done form a pipeline: none is done while one it needs is not.
ImplementsPipeline == P!Spec

-----------------------------------------------------------------------------
(* Why results are current: what CampaignProofs shows of every step.          *)

\* Works that recompute all their parts, the first of them under a lock.
LockedWorks == {"onboard", "tables", "recurrent", "reencode"}

\* Once such a work's first command has started, no locked command of an earlier process is left;
\* nor, when its stage is done, one of that stage.
LockInv ==
  /\ \A o \in orphans : ~InProcess(o.part)
  /\ \A s \in todo \cup {work} \cup {StageOf[o.part] : o \in orphans} : applicable(s)
  /\ work \in LockedWorks /\ (pc \in {"command", "aside", "swapped"} \/ index >= 2)
       => \A o \in orphans : ~Locked(o.part)
  /\ \A s \in LockedWorks \cap StagesDone : \A o \in orphans : Locked(o.part) => StageOf[o.part] # s

\* The stages that keep finished parts.
Keepers == {"capture", "evaluate"}

\* What such a stage keeps will go when it begins, or is an exception of DoneIsCurrent.
Excepted(s) == status[s] = "stale" \/ s \in spared

Untouched(s) ==
  /\ \A p \in PartSet[s] : content[p] \notin Finished
  /\ \A o \in orphans : StageOf[o.part] # s

\* A kept part is old, or may become so, only where that is excepted.
KeepInv ==
  \A s \in Keepers :
    /\ status[s] # "skipped" /\ (status[s] = "none" => Untouched(s))
    /\ Reads[s] \subseteq StagesDone \/ Untouched(s) \/ Excepted(s)
    /\ (\E p \in PartSet[s] : content[p] = "old") => Excepted(s)

\* A direction still being evaluated for a killed process has inputs that nobody replaces before
\* it ends: whoever wants to waits for the locks.
LateInv ==
  /\ ~command
  /\ Reads["evaluate"] \subseteq StagesDone =>
       /\ \A o \in orphans : Direction(o.part) => ~o.old /\ content[o.part] # "old"
       /\ work = "evaluate" /\ pc \in {"locks", "command"} => content[At] # "old"

DoneReady(S) == \A s \in S \cap StagesDone : \A p \in PartSet[s] : Ready(p)

\* What is done, and what the stage at work has done of its own, can be read; a re-encoding takes
\* back the evaluation and the report before it ends.
CurrentInv ==
  /\ pc \notin {"aside", "swapped"} => DoneReady(Stages)
  /\ pc = "aside" => DoneReady(Stages \ {"onboard", "evaluate", "report"})
  /\ pc = "swapped" => DoneReady(Stages \ {"evaluate", "report"})
  /\ pc \in {"part", "locks", "command"} => \A i \in 1..(index - 1) : Ready(PartsOf[work][i])
  /\ pc = "aside" =>
       /\ \A p \in PartSet["reencode"] : content[p] = "current"
       /\ content["hub-v2"] = "none" /\ content["out"] = "none"
  /\ work = "reencode" => status["onboard"] = "done"
=============================================================================
