---------------------------- MODULE BridgeSwitch ----------------------------
(***************************************************************************)
(* The bridge switch (kvpark/bridge/switch.py: switch, layout_template,    *)
(* native_prefix, _drop_template): a conversation in the source server's   *)
(* slot is saved, translated by the engine and restored into the target's  *)
(* slot.  A switch is a program of many server calls and files, each of    *)
(* which can fail; it keeps two caches that outlive it, the target's       *)
(* layout template (a slot file and, from a patched server, its .resume)   *)
(* and native prefixes; and it borrows the source's slot for side          *)
(* requests when the target cannot take a medium.                          *)
(*                                                                         *)
(* A member of Switches is one call of switch().  Its actions are the      *)
(* calls that touch a server or a shared file, in the order of the code;   *)
(* the rules that decide whether a conversation can be translated are a    *)
(* choice to skip.  The server's layout stands for everything a restart    *)
(* can change and the template's identity does not name.                   *)
(***************************************************************************)
EXTENDS Naturals, FiniteSets

CONSTANTS
  Switches,    \* calls of switch()
  Overlap,     \* whether they may run at the same time
  Patched,     \* whether the target's server writes and reads .resume files
  MaxLayout,   \* bound: the layouts the target's server has had
  Faults       \* what may go wrong

None == "none"
FaultKinds == {"server", "engine", "cut", "device",
               "crash", "restart", "clobber"}

ASSUME SwitchAssumption ==
  /\ {Overlap, Patched} \subseteq BOOLEAN
  /\ MaxLayout \in Nat \ {0}
  /\ Faults \subseteq FaultKinds
  /\ None \notin Switches

Layouts == 1..MaxLayout
Absent == 0              \* in place of a file's layout
Cut == MaxLayout + 1     \* the layout of a .resume cut short
Empty == "empty"         \* in a slot that was erased
Contents == {Empty, "chat", "side", "template", "prefix", "translated", "other"}
Servers == {"source", "target"}

VARIABLES
  slot,     \* what each server's slot holds
  layout,   \* the layout the target's server has now
  bin,      \* the template's slot file: its layout and the switch that made it, or None
  res,      \* the template's .resume: its layout, Cut or Absent
  prefix,   \* the cached native prefix: what its file holds, or None
  files,    \* files in the slot directories: <<switch, which>>
  pc,       \* where each switch is
  outcome,  \* how it ended or will end
  saved,    \* what its save of the source's slot holds
  lost,     \* whether it could not put back the source's slot
  tmpl,     \* the template it saves or uses: layout, maker, and whether with .resume
  output    \* the layout its output file has, or Absent

serverVars == <<slot, layout>>
cacheVars == <<bin, res, prefix>>
localVars == <<saved, lost, tmpl, output>>
vars == <<serverVars, cacheVars, files, pc, outcome, localVars>>

NoTemplate == [layout |-> Absent, by |-> None, resume |-> FALSE]
NoFile == [layout |-> Absent, by |-> None]

Init ==
  /\ slot = [v \in Servers |-> "chat"]
  /\ layout = 1
  /\ bin = NoFile /\ res = Absent /\ prefix = None
  /\ files = {}
  /\ pc = [s \in Switches |-> "idle"]
  /\ outcome = [s \in Switches |-> None]
  /\ saved = [s \in Switches |-> None]
  /\ lost = [s \in Switches |-> FALSE]
  /\ tmpl = [s \in Switches |-> NoTemplate]
  /\ output = [s \in Switches |-> Absent]

Active(s) == pc[s] \notin {"idle", "ended"}
Goes(s, to) == pc' = [pc EXCEPT ![s] = to]
Holds(v, content) == slot' = [slot EXCEPT ![v] = content]

\* An exception, or a skip, on the way to the finally clause.
Leaves(s, how) ==
  /\ Goes(s, "finally")
  /\ outcome' = [outcome EXCEPT ![s] = how]

\* An exception after a file was written that the finally clause does not know.
Strands(s, which) ==
  /\ Leaves(s, "stranded")
  /\ files' = files \cup {<<s, which>>}

\* A call to a server raises, or the file's replacement does.
Raises(s) ==
  /\ "server" \in Faults
  /\ Leaves(s, "failed")

-----------------------------------------------------------------------------
(* The source's slot *)

\* The conversation has media the target cannot take and no surrogate is cached, or
\* there is nothing to ask a producer for.
Begin(s) ==
  /\ pc[s] = "idle"
  /\ Overlap \/ \A t \in Switches : ~Active(t)
  /\ \E to \in {"hold", "plan"} : Goes(s, to)
  /\ UNCHANGED <<serverVars, cacheVars, files, outcome, localVars>>

\* Mutant: the source is saved again after its side requests.
SaveSourceAgain(s, from, to) ==
  /\ pc[s] = from
  /\ \/ /\ Goes(s, to)
        /\ saved' = [saved EXCEPT ![s] = slot["source"]]
        /\ files' = files \cup {<<s, "source">>}
        /\ UNCHANGED outcome
     \/ Raises(s) /\ UNCHANGED <<saved, files>>
  /\ UNCHANGED <<serverVars, cacheVars, lost, tmpl, output>>

\* save_source(): once in a switch, at the first of the two places that need it.
SaveSource(s, from, to) ==
  /\ pc[s] = from
  /\ \/ /\ Goes(s, to)
        /\ IF saved[s] # None
           THEN UNCHANGED <<saved, files>>
           ELSE /\ saved' = [saved EXCEPT ![s] = slot["source"]]
                /\ files' = files \cup {<<s, "source">>}
        /\ UNCHANGED outcome
     \/ saved[s] = None /\ Raises(s) /\ UNCHANGED <<saved, files>>
  /\ UNCHANGED <<serverVars, cacheVars, lost, tmpl, output>>

\* The source describes the medium; a failing producer is only noted.
SideRequest(s) ==
  /\ pc[s] = "side"
  /\ Goes(s, "putback")
  /\ Holds("source", "side")
  /\ UNCHANGED <<layout, cacheVars, files, outcome, localVars>>

\* hold_source() erases the slot and restores the save, or reports that it could not.
PutBack(s) ==
  /\ pc[s] = "putback"
  /\ Goes(s, "plan")
  /\ \/ Holds("source", saved[s]) /\ UNCHANGED lost
     \/ /\ "server" \in Faults
        /\ slot["source"] = "side"
        /\ \E content \in {Empty, "side"} : Holds("source", content)
        /\ lost' = [lost EXCEPT ![s] = TRUE]
  /\ UNCHANGED <<layout, cacheVars, files, outcome, saved, tmpl, output>>

-----------------------------------------------------------------------------
(* The plan and the target's template *)

\* The rules on models, media, lengths and renderings; a missing surrogate.
Plan(s) ==
  /\ pc[s] = "plan"
  /\ \/ Goes(s, "template") /\ UNCHANGED outcome
     \/ Leaves(s, "skipped")
     \/ Raises(s)
  /\ UNCHANGED <<serverVars, cacheVars, files, localVars>>

\* layout_template() finds the slot file, or has the server make one.
Template(s) ==
  /\ pc[s] = "template"
  /\ \/ /\ bin # NoFile
        /\ Goes(s, "draft")
        /\ tmpl' = [tmpl EXCEPT ![s] = [layout |-> bin.layout, by |-> bin.by, resume |-> res # Absent]]
        /\ UNCHANGED <<slot, outcome>>
     \/ /\ bin = NoFile
        /\ Holds("target", "template")
        /\ Goes(s, "render")
        /\ UNCHANGED <<tmpl, outcome>>
     \/ bin = NoFile /\ Raises(s) /\ UNCHANGED <<slot, tmpl>>
  /\ UNCHANGED <<layout, cacheVars, files, saved, lost, output>>

\* The save writes both files into the slot directory, and may fail after it did.
SaveTemplate(s) ==
  /\ pc[s] = "render"
  /\ \/ /\ Goes(s, "saved")
        /\ tmpl' = [tmpl EXCEPT ![s] = [layout |-> layout, by |-> s, resume |-> Patched]]
        /\ files' = files \cup {<<s, "template">>}
        /\ UNCHANGED outcome
     \/ Raises(s) /\ UNCHANGED <<tmpl, files>>
     \/ "server" \in Faults /\ Strands(s, "template") /\ UNCHANGED tmpl
  /\ UNCHANGED <<serverVars, cacheVars, saved, lost, output>>

\* The .resume is moved first, or an older one removed; a file is not moved to another
\* device.
PublishResume(s) ==
  /\ pc[s] = "saved"
  /\ \/ /\ Goes(s, "moved")
        /\ \/ res' = IF Patched THEN tmpl[s].layout ELSE Absent
           \/ "cut" \in Faults /\ Patched /\ res' = Cut
        /\ UNCHANGED outcome
     \/ "device" \in Faults /\ Leaves(s, "stranded") /\ UNCHANGED res
  /\ UNCHANGED <<serverVars, bin, prefix, files, localVars>>

\* Then the slot file, whose presence marks a complete template.
PublishTemplate(s) ==
  /\ pc[s] = "moved"
  /\ \/ /\ Goes(s, "published")
        /\ bin' = [layout |-> tmpl[s].layout, by |-> s]
        /\ files' = files \ {<<s, "template">>}
        /\ UNCHANGED outcome
     \/ "device" \in Faults /\ Leaves(s, "stranded") /\ UNCHANGED <<bin, files>>
  /\ UNCHANGED <<serverVars, res, prefix, localVars>>

\* The next switch reads the template from the files.
EraseAfterTemplate(s) ==
  /\ pc[s] = "published"
  /\ \/ /\ Holds("target", Empty)
        /\ Goes(s, "draft")
        /\ tmpl' = [tmpl EXCEPT ![s].resume = res # Absent]
        /\ UNCHANGED outcome
     \/ Raises(s) /\ UNCHANGED <<slot, tmpl>>
  /\ UNCHANGED <<layout, cacheVars, files, saved, lost, output>>

\* A patched server's .resume says which draft model the server runs.
Draft(s) ==
  /\ pc[s] = "draft"
  /\ \/ /\ tmpl[s].resume /\ res \in {Cut, Absent}
        /\ Goes(s, "dropbin")
        /\ outcome' = [outcome EXCEPT ![s] = "unreadable"]
     \/ /\ tmpl[s].resume => res \in Layouts
        /\ Goes(s, "source") /\ UNCHANGED outcome
     \/ Leaves(s, "skipped")
  /\ UNCHANGED <<serverVars, cacheVars, files, localVars>>

\* Mutant: the .resume is all that is removed.
DropResumeOnly(s) ==
  /\ pc[s] = "dropbin"
  /\ Goes(s, "dropres")
  /\ res' = IF tmpl[s].resume THEN Absent ELSE res
  /\ UNCHANGED <<serverVars, bin, prefix, files, outcome, localVars>>

\* _drop_template() removes the slot file, then the .resume.
DropBin(s) ==
  /\ pc[s] = "dropbin"
  /\ Goes(s, "dropres")
  /\ bin' = NoFile
  /\ UNCHANGED <<serverVars, res, prefix, files, outcome, localVars>>

DropResume(s) ==
  /\ pc[s] = "dropres"
  /\ Goes(s, "finally")
  /\ res' = IF tmpl[s].resume THEN Absent ELSE res
  /\ UNCHANGED <<serverVars, bin, prefix, files, outcome, localVars>>

-----------------------------------------------------------------------------
(* The translation *)

\* A cached native prefix is used; another is prefilled, unless the model is
\* registered without.
PrefixWanted(s) ==
  /\ pc[s] = "prefix"
  /\ \/ Goes(s, "engine") /\ UNCHANGED <<slot, outcome>>
     \/ prefix = None /\ Goes(s, "prefilled") /\ Holds("target", "prefix") /\ UNCHANGED outcome
     \/ prefix = None /\ Raises(s) /\ UNCHANGED slot
  /\ UNCHANGED <<layout, cacheVars, files, localVars>>

\* The server saves whatever its slot holds by now; the file is moved into the cache.
\* It stays where it is when the save fails after it wrote it, or the move does.
SavePrefix(s) ==
  /\ pc[s] = "prefilled"
  /\ \/ Goes(s, "engine") /\ prefix' = slot["target"] /\ UNCHANGED <<outcome, files>>
     \/ Raises(s) /\ UNCHANGED <<prefix, files>>
     \/ {"server", "device"} \cap Faults # {} /\ Strands(s, "prefix") /\ UNCHANGED prefix
  /\ UNCHANGED <<serverVars, bin, res, localVars>>

\* run_job(): a report and an output in the template's layout; a refusal that is a
\* skip; an error, as for a prefix that is not the prompt's; or a rendering the
\* engine cannot reproduce, once more with the default one.  A one-shot engine killed
\* when its time is over leaves the temporary file it was writing.
Engine(s) ==
  /\ pc[s] = "engine"
  /\ \/ /\ bin # NoFile /\ prefix \in {None, "prefix"}
        /\ Goes(s, "resume")
        /\ output' = [output EXCEPT ![s] = bin.layout]
        /\ files' = files \cup {<<s, "output">>}
        /\ UNCHANGED outcome
     \/ /\ "engine" \in Faults \/ bin = NoFile \/ prefix \notin {None, "prefix"}
        /\ \/ \E how \in {"skipped", "failed"} : Leaves(s, how) /\ UNCHANGED files
           \/ "engine" \in Faults /\ Strands(s, "partial")
        /\ UNCHANGED output
  /\ UNCHANGED <<serverVars, cacheVars, saved, lost, tmpl>>

\* The output's .resume is made from the template's, read again.
WriteResume(s) ==
  /\ pc[s] = "resume"
  /\ \/ /\ tmpl[s].resume => res \in Layouts
        /\ Goes(s, "erase") /\ UNCHANGED outcome
     \/ /\ tmpl[s].resume /\ res \notin Layouts
        /\ Leaves(s, "failed")
  /\ UNCHANGED <<serverVars, cacheVars, files, localVars>>

EraseTarget(s) ==
  /\ pc[s] = "erase"
  /\ \/ Goes(s, "restore") /\ Holds("target", Empty) /\ UNCHANGED outcome
     \/ Raises(s) /\ UNCHANGED slot
  /\ UNCHANGED <<layout, cacheVars, files, localVars>>

\* The server refuses another layout, and a patched one a slot without its .resume.
Accepted(s) == output[s] = layout /\ (Patched => tmpl[s].resume)

\* The report, after a warm-up request that may fail; or the way of a refused restore.
Restore(s) ==
  /\ pc[s] = "restore"
  /\ \/ /\ Accepted(s)
        /\ Holds("target", "translated")
        /\ \/ Leaves(s, "restored")
           \/ Raises(s)
     \/ /\ ~Accepted(s) \/ "server" \in Faults
        /\ Goes(s, "rejected")
        /\ UNCHANGED <<slot, outcome>>
  /\ UNCHANGED <<layout, cacheVars, files, localVars>>

\* Mutant: a refused restore leaves the template.
RejectedKeeps(s) ==
  /\ pc[s] = "rejected"
  /\ \/ Leaves(s, "rejected") /\ Holds("target", Empty)
     \/ Raises(s) /\ UNCHANGED slot
  /\ UNCHANGED <<layout, cacheVars, files, localVars>>

\* The template is dropped, if the slot can be erased.
Rejected(s) ==
  /\ pc[s] = "rejected"
  /\ \/ /\ Goes(s, "dropbin") /\ Holds("target", Empty)
        /\ outcome' = [outcome EXCEPT ![s] = "rejected"]
     \/ Raises(s) /\ UNCHANGED slot
  /\ UNCHANGED <<layout, cacheVars, files, localVars>>

\* The call returns; the template a restore failed with is remembered for RejectedOnce.
Ends(s, how) ==
  /\ Goes(s, "ended")
  /\ outcome' = [outcome EXCEPT ![s] = how]
  /\ saved' = [saved EXCEPT ![s] = None]
  /\ output' = [output EXCEPT ![s] = Absent]
  /\ tmpl' = [tmpl EXCEPT ![s] = IF how \in {"rejected", "unreadable"} THEN @ ELSE NoTemplate]
  /\ UNCHANGED lost

\* Mutant: only the last file made is removed.
FinallyLast(s) ==
  /\ pc[s] = "finally"
  /\ Ends(s, outcome[s])
  /\ files' = files \ {<<s, "output">>}
  /\ UNCHANGED <<serverVars, cacheVars>>

\* The files the switch made in the slot directories are removed.
Finally(s) ==
  /\ pc[s] = "finally"
  /\ Ends(s, outcome[s])
  /\ files' = files \ {<<s, "source">>, <<s, "output">>}
  /\ UNCHANGED <<serverVars, cacheVars>>

-----------------------------------------------------------------------------
(* The surroundings *)

\* The process of the switch is killed, perhaps between a prefix's save and its move.
Crash(s) ==
  /\ "crash" \in Faults
  /\ Active(s)
  /\ Ends(s, "crashed")
  /\ \/ UNCHANGED files
     \/ pc[s] = "prefilled" /\ files' = files \cup {<<s, "prefix">>}
  /\ UNCHANGED <<serverVars, cacheVars>>

\* The target's server is started again with other settings.
Restart ==
  /\ "restart" \in Faults
  /\ layout < MaxLayout
  /\ layout' = layout + 1
  /\ Holds("target", Empty)
  /\ UNCHANGED <<cacheVars, files, pc, outcome, localVars>>

\* Another client's request takes the target's slot.
OtherRequest ==
  /\ "clobber" \in Faults
  /\ slot["target"] # "other"
  /\ Holds("target", "other")
  /\ UNCHANGED <<layout, cacheVars, files, pc, outcome, localVars>>

Step(s) ==
  \/ Begin(s) \/ SaveSource(s, "hold", "side") \/ SideRequest(s) \/ PutBack(s)
  \/ Plan(s) \/ Template(s) \/ SaveTemplate(s) \/ PublishResume(s) \/ PublishTemplate(s)
  \/ EraseAfterTemplate(s) \/ Draft(s) \/ DropBin(s) \/ DropResume(s)
  \/ SaveSource(s, "source", "prefix") \/ PrefixWanted(s) \/ SavePrefix(s)
  \/ Engine(s) \/ WriteResume(s) \/ EraseTarget(s) \/ Restore(s) \/ Rejected(s)
  \/ Finally(s)

Next ==
  \/ \E s \in Switches : Step(s) \/ Crash(s)
  \/ Restart \/ OtherRequest

Spec == Init /\ [][Next]_vars

-----------------------------------------------------------------------------
(* Properties *)

\* The shape of the state: slots, caches, files and switches.
TypeOK ==
  /\ slot \in [Servers -> Contents]
  /\ layout \in Layouts
  /\ bin \in [layout : Layouts, by : Switches] \cup {NoFile}
  /\ res \in {Absent, Cut} \cup Layouts
  /\ prefix \in {None} \cup Contents
  /\ files \subseteq Switches \X {"source", "output", "template", "prefix", "partial"}
  /\ outcome \in [Switches -> {None, "skipped", "failed", "crashed", "stranded", "unreadable",
                               "rejected", "restored"}]
  /\ saved \in [Switches -> {None} \cup Contents]
  /\ lost \in [Switches -> BOOLEAN]
  /\ output \in [Switches -> {Absent} \cup Layouts]

\* A switch that has ended, however it ended unless it was killed, has left neither the
\* source's save nor a translated output behind: those hold the conversation's cache.
\* What it may leave is the template's or the prefix's save, or the temporary file of an
\* engine killed for its time, and only where the step that wrote it, or the move after
\* it, failed.
FilesTidy ==
  \A f \in files : pc[f[1]] = "ended" =>
    \/ outcome[f[1]] = "crashed"
    \/ outcome[f[1]] = "stranded" /\ f[2] \in {"template", "prefix", "partial"}

\* What is translated is the conversation, also after the source answered side requests
\* in the same slot and the slot could not be put back, and the slot holds it again
\* when a switch ends; only a switch killed, or one that reported the loss, takes it from
\* later ones.
SourceKept ==
  \/ \E t \in Switches : outcome[t] = "crashed" \/ (lost[t] /\ pc[t] = "ended")
  \/ /\ \A s \in Switches : pc[s] = "engine" => saved[s] = "chat"
     /\ (\A s \in Switches : ~Active(s)) => slot["source"] = "chat"

\* The template's slot file marks a complete template: wherever a switch dropping or making
\* one was killed, a patched server's template has its .resume.
TemplateComplete == Patched /\ bin # NoFile => res # Absent

\* A template made before a restart fails one switch and no other, whatever failed or
\* was killed in between: the next one makes its own.
RejectedOnce ==
  \A s, t \in Switches :
    s # t /\ outcome[s] \in {"rejected", "unreadable"} /\ outcome[t] \in {"rejected", "unreadable"}
      => tmpl[s].by # tmpl[t].by
=============================================================================
