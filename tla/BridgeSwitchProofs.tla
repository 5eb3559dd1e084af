------------------------- MODULE BridgeSwitchProofs -------------------------
(***************************************************************************)
(* For any number of switches, layouts and combinations of faults: the     *)
(* source's save and the translated output go with their switch, and,      *)
(* where switches do not overlap, a cached template is complete, one that  *)
(* was refused fails no second switch, and the source has its conversation *)
(* back.                                                                   *)
(*                                                                         *)
(* A switch at work owns both slots and both files of the template, since  *)
(* no other is at work (Alone).  CompleteInv follows its two places at     *)
(* which one of those files is there and the other is not.  RejectInv says *)
(* that a template is used by its maker or after its maker's end: so the   *)
(* one that a switch drops is not made again, and whoever is refused next  *)
(* was refused another.  SourceInv says where the conversation is while a  *)
(* side request has the slot: in the save.                                 *)
(***************************************************************************)
EXTENDS BridgeSwitch, TLAPS

-----------------------------------------------------------------------------
(* The shape of the state, in parts *)

\* Where a switch can be.
Places == {"idle", "hold", "side", "putback", "plan", "template", "render", "saved", "moved",
           "published", "draft", "dropbin", "dropres", "source", "prefix", "prefilled", "engine",
           "resume", "erase", "restore", "rejected", "finally", "ended"}

\* How one can end.
Outcomes == {None, "skipped", "failed", "crashed", "stranded", "unreadable", "rejected",
             "restored"}

\* What a switch knows of a template.
Templates == [layout : {Absent} \cup Layouts, by : {None} \cup Switches, resume : BOOLEAN]

\* The shape of the servers ...
ServersOK == slot \in [Servers -> Contents] /\ layout \in Layouts

\* ... of the two caches ...
CachesOK ==
  /\ bin \in [layout : Layouts, by : Switches] \cup {NoFile}
  /\ res \in {Absent, Cut} \cup Layouts
  /\ prefix \in {None} \cup Contents

\* ... of the slot directories ...
FilesOK == files \subseteq Switches \X {"source", "output", "template", "prefix", "partial"}

\* ... of the switches' places ...
PlacesOK == pc \in [Switches -> Places] /\ outcome \in [Switches -> Outcomes]

\* ... and of what each of them keeps.
LocalsOK ==
  /\ saved \in [Switches -> {None} \cup Contents]
  /\ lost \in [Switches -> BOOLEAN]
  /\ tmpl \in [Switches -> Templates]
  /\ output \in [Switches -> {Absent} \cup Layouts]

\* What a switch has of a template it makes, and of one it uses.
TemplateOK ==
  \A s \in Switches :
    /\ pc[s] \in {"saved", "moved", "published"} => tmpl[s].layout \in Layouts /\ tmpl[s].by = s
    /\ pc[s] \in {"draft", "dropbin", "dropres", "source", "prefix", "prefilled", "engine",
                  "resume", "erase", "restore", "rejected"} => tmpl[s].by \in Switches
    /\ pc[s] = "idle" => tmpl[s] = NoTemplate

\* When a switch has its source saved, and where one that was killed is.
SavedOK ==
  \A s \in Switches :
    /\ pc[s] \in {"side", "putback", "prefix", "prefilled", "engine"} => saved[s] # None
    /\ ~Active(s) => saved[s] = None
    /\ outcome[s] = "crashed" => pc[s] = "ended"

\* All of it.
Shape == ServersOK /\ CachesOK /\ FilesOK /\ PlacesOK /\ LocalsOK /\ TemplateOK /\ SavedOK

-----------------------------------------------------------------------------
(* The invariants *)

\* A switch's files go with it.
FileInv ==
  \A f \in files :
    \/ pc[f[1]] = "ended" /\ outcome[f[1]] = "crashed"
    \/ f[2] = "template" /\ pc[f[1]] \in {"saved", "moved"}
    \/ /\ f[2] \in {"template", "prefix", "partial"}
       /\ pc[f[1]] \in {"finally", "ended"} /\ outcome[f[1]] = "stranded"
    \/ f[2] \in {"source", "output"} /\ Active(f[1])

\* Switches do not overlap.
Alone == \A s, t \in Switches : Active(s) /\ Active(t) => s = t

\* The .resume is there before the slot file is, and as long.
CompleteInv ==
  /\ TemplateComplete
  /\ \A s \in Switches :
       /\ pc[s] = "moved" /\ Patched => res # Absent
       /\ pc[s] = "dropres" => bin = NoFile

\* A switch that has yet to publish a template.
Early == {"idle", "hold", "side", "putback", "plan", "template", "render", "saved", "moved"}

\* The switches that a template failed.
Refused == {s \in Switches : outcome[s] \in {"rejected", "unreadable"}}

\* A template that failed a switch is gone, and only its maker could have made it again.
RejectInv ==
  /\ bin.by \in Switches => pc[bin.by] \notin Early
  /\ \A s \in Switches : Active(s) /\ tmpl[s].by # None =>
       tmpl[s].by = s \/ pc[tmpl[s].by] = "ended"
  /\ \A s \in Refused :
       /\ pc[s] \in {"dropbin", "dropres", "finally", "ended"}
       /\ tmpl[s].by \in Switches
       /\ tmpl[s].by = s \/ pc[tmpl[s].by] = "ended"
       /\ pc[s] # "dropbin" => bin.by # tmpl[s].by
       /\ \A t \in Switches : t # s /\ (Active(t) \/ t \in Refused) => tmpl[t].by # tmpl[s].by

\* A switch was killed, or has reported that it could not put the source back.
Spoiled == \E t \in Switches : outcome[t] = "crashed" \/ (lost[t] /\ pc[t] = "ended")

\* Where the conversation is.
SourceInv ==
  \/ Spoiled
  \/ /\ (\A s \in Switches : ~Active(s)) => slot["source"] = "chat"
     /\ \A s \in Switches : Active(s) =>
          /\ saved[s] \in {None, "chat"}
          /\ saved[s] = None => slot["source"] = "chat"
          /\ slot["source"] # "chat" => lost[s] \/ pc[s] = "putback"

\* What holds as long as switches do not overlap.
Apart == Alone /\ CompleteInv /\ RejectInv /\ SourceInv

-----------------------------------------------------------------------------
(* Steps of one kind *)

USE DEF serverVars, cacheVars, localVars

\* The marks are none of the values they stand beside.
LEMMA Distinct ==
  /\ None \notin Switches /\ Absent \notin Layouts /\ Cut \notin Layouts /\ Cut # Absent
  /\ 1 \in Layouts
BY SwitchAssumption DEF Absent, Cut, Layouts

\* At the start nothing is under way.
LEMMA InitHolds == Init => Shape /\ FileInv /\ Apart
<1>1. ASSUME Init PROVE ServersOK /\ CachesOK /\ FilesOK /\ PlacesOK
  BY <1>1, Distinct DEF Init, ServersOK, CachesOK, FilesOK, PlacesOK, Contents, Places, Outcomes
<1>2. ASSUME Init PROVE LocalsOK /\ TemplateOK /\ FileInv /\ SavedOK
  BY <1>2 DEF Init, LocalsOK, TemplateOK, SavedOK, FileInv, Templates, NoTemplate, None
<1>3. ASSUME Init PROVE Apart
  <2>1. Alone /\ CompleteInv
    BY <1>3 DEF Init, Alone, CompleteInv, TemplateComplete, Active
  <2>2. RejectInv
    <3>1. bin.by \notin Switches /\ Refused = {} /\ \A s \in Switches : ~Active(s)
      BY <1>3, Distinct DEF Init, Refused, Active, NoFile, None
    <3>2. QED
      BY <3>1 DEF RejectInv
  <2>3. SourceInv
    BY <1>3 DEF Init, SourceInv, Servers
  <2>4. QED
    BY <2>1, <2>2, <2>3 DEF Apart
<1>4. QED
  BY <1>1, <1>2, <1>3 DEF Shape

\* A step of one switch that makes and drops no template, and refuses none.
LEMMA RejectSteady ==
  ASSUME Shape, Apart, NEW s \in Switches, Active(s), s \notin Refused,
         NEW to \in Places \ {"idle", "ended"}, to \in Early => pc[s] \in Early,
         NEW how, how \notin {"rejected", "unreadable"}, NEW r \in Templates,
         r.by \in {tmpl[s].by, s} \/ (bin.by \in Switches /\ r.by = bin.by),
         pc' = [pc EXCEPT ![s] = to], outcome' = [outcome EXCEPT ![s] = how],
         tmpl' = [tmpl EXCEPT ![s] = r], UNCHANGED bin
  PROVE  RejectInv'
<1>1. PlacesOK /\ Alone /\ RejectInv /\ tmpl \in [Switches -> Templates]
  BY DEF Shape, LocalsOK, Apart
<1>2. \A t \in Switches : t # s => pc'[t] = pc[t] /\ outcome'[t] = outcome[t] /\ tmpl'[t] = tmpl[t]
  BY <1>1
<1>3. pc'[s] = to /\ outcome'[s] = how /\ tmpl'[s] = r
  BY <1>1 DEF PlacesOK
<1>4. \A t \in Switches : t # s => ~Active(t) /\ ~Active(t)'
  BY <1>1, <1>2 DEF Alone, Active
<1>5. Refused' = Refused
  BY <1>2, <1>3 DEF Refused
<1>6. bin.by \in Switches => pc'[bin.by] \notin Early
  BY <1>1, <1>2, <1>3 DEF RejectInv
<1>7. r.by # None => r.by = s \/ pc'[r.by] = "ended"
  <2>1. CASE r.by \in {tmpl[s].by, s}
    BY <1>1, <1>2, <2>1, SwitchAssumption DEF RejectInv
  <2>2. CASE bin.by \in Switches /\ r.by = bin.by
    BY <1>1, <1>2, <1>4, <2>2 DEF RejectInv, Early, Active
  <2>3. QED
    BY <2>1, <2>2
<1>8. \A t \in Refused : t # s /\ tmpl'[t] = tmpl[t] /\ pc'[t] = pc[t] /\ pc[t] = "ended"
  BY <1>1, <1>2, <1>4 DEF RejectInv, Refused, Active
<1>9. \A t \in Refused : tmpl[t].by # r.by
  BY <1>1, <1>8 DEF RejectInv, Active
<1>10. \A t \in Refused : tmpl[t].by = t \/ pc'[tmpl[t].by] = "ended"
  BY <1>1, <1>2, <1>8 DEF RejectInv, Active
<1>11. QED
  BY <1>1, <1>2, <1>3, <1>4, <1>5, <1>6, <1>7, <1>8, <1>9, <1>10 DEF RejectInv

\* A step in which a switch refuses its template.
LEMMA RejectRefuses ==
  ASSUME Shape, Apart, NEW s \in Switches, Active(s), s \notin Refused,
         tmpl[s].by \in Switches, pc[s] \notin Early,
         NEW how \in {"rejected", "unreadable"},
         pc' = [pc EXCEPT ![s] = "dropbin"], outcome' = [outcome EXCEPT ![s] = how],
         UNCHANGED <<tmpl, bin>>
  PROVE  RejectInv'
<1>1. PlacesOK /\ Alone /\ RejectInv /\ tmpl \in [Switches -> Templates]
  BY DEF Shape, LocalsOK, Apart
<1>2. \A t \in Switches : t # s => pc'[t] = pc[t] /\ outcome'[t] = outcome[t]
  BY <1>1
<1>3. pc'[s] = "dropbin" /\ outcome'[s] = how
  BY <1>1 DEF PlacesOK
<1>4. \A t \in Switches : t # s => ~Active(t) /\ ~Active(t)'
  BY <1>1, <1>2 DEF Alone, Active
<1>5. Refused' = Refused \cup {s}
  BY <1>2, <1>3 DEF Refused
<1>6. bin.by \in Switches => pc'[bin.by] \notin Early
  BY <1>1, <1>2, <1>3 DEF RejectInv, Early
<1>7. tmpl[s].by = s \/ pc'[tmpl[s].by] = "ended"
  BY <1>1, <1>2, SwitchAssumption DEF RejectInv
<1>8. \A t \in Refused : t # s /\ pc'[t] = pc[t] /\ pc[t] = "ended"
  BY <1>1, <1>2, <1>4 DEF RejectInv, Refused, Active
<1>9. \A t \in Refused : tmpl[t].by # tmpl[s].by
  BY <1>1, <1>8 DEF RejectInv
<1>10. \A t \in Refused : tmpl[t].by = t \/ pc'[tmpl[t].by] = "ended"
  BY <1>1, <1>2, <1>8 DEF RejectInv, Active
<1>11. QED
  BY <1>1, <1>2, <1>3, <1>4, <1>5, <1>6, <1>7, <1>8, <1>9, <1>10 DEF RejectInv

\* A step of a switch at work that leaves its save and the source's slot.
LEMMA SourceSteady ==
  ASSUME Shape, Apart, NEW s \in Switches, Active(s), pc[s] # "putback",
         NEW to \in Places \ {"idle", "ended"}, NEW how,
         pc' = [pc EXCEPT ![s] = to], outcome' = [outcome EXCEPT ![s] = how],
         UNCHANGED <<saved, lost>>, slot'["source"] = slot["source"]
  PROVE  SourceInv'
<1>1. PlacesOK /\ Alone /\ SourceInv /\ outcome[s] # "crashed"
  BY DEF Shape, Apart, SavedOK, Active
<1>2. \A t \in Switches : t # s => pc'[t] = pc[t] /\ outcome'[t] = outcome[t]
  BY <1>1
<1>3. pc'[s] = to /\ Active(s)'
  BY <1>1 DEF PlacesOK, Active
<1>4. CASE Spoiled
  BY <1>1, <1>2, <1>4 DEF SourceInv, Spoiled, Active
<1>5. CASE ~Spoiled
  BY <1>1, <1>2, <1>3, <1>5 DEF SourceInv, Active
<1>6. QED
  BY <1>4, <1>5

-----------------------------------------------------------------------------
(* One lemma for each action *)

\* Begin keeps the invariants.
LEMMA BeginKeeps ==
  ASSUME Shape, FileInv, NEW s \in Switches, Begin(s)
  PROVE  Shape' /\ FileInv' /\ (~Overlap /\ Apart => Apart')
<1>1. ServersOK'
  BY DEF Shape, ServersOK, Begin
<1>2. CachesOK'
  BY DEF Shape, CachesOK, Begin
<1>3. FilesOK'
  BY DEF Shape, FilesOK, Begin
<1>4. PlacesOK'
  BY DEF Shape, PlacesOK, Places, Begin, Goes
<1>5. LocalsOK'
  BY DEF Shape, LocalsOK, Begin
<1>6. TemplateOK'
  BY DEF Shape, TemplateOK, Begin, Goes
<1>7. FileInv'
  BY DEF FileInv, Active, Begin, Goes, Active
<1>8. ASSUME ~Overlap, Apart PROVE Alone'
  BY <1>8 DEF Alone, Active, Begin, Goes, Active
<1>9. ASSUME ~Overlap, Apart PROVE CompleteInv'
  BY <1>9 DEF Apart, CompleteInv, TemplateComplete, Begin, Goes
<1>10. ASSUME ~Overlap, Apart PROVE RejectInv'
  BY <1>10, Distinct
     DEF Shape, TemplateOK, Apart, Active, RejectInv, Refused, Early, NoTemplate, Begin, Goes,
         Active
<1>11. ASSUME ~Overlap, Apart PROVE SourceInv'
  <2>1. \A t \in Switches : t # s =>
          /\ pc'[t] = pc[t] /\ outcome'[t] = outcome[t]
          /\ saved'[t] = saved[t] /\ lost'[t] = lost[t]
    BY DEF Begin, Goes
  <2>2. Active(s)' /\ pc[s] # "ended" /\ outcome[s] # "crashed"
    BY DEF Shape, PlacesOK, SavedOK, Active, Begin, Goes, Active
  <2>3. Spoiled => Spoiled'
    BY <2>1, <2>2 DEF Spoiled
  <2>4. \A t \in Switches : t # s => ~Active(t) /\ ~Active(t)'
    BY <1>11, <2>1 DEF Active, Begin, Active
  <2>5. ASSUME ~Spoiled
        PROVE  /\ saved'[s] \in {None, "chat"}
               /\ saved'[s] = None => slot'["source"] = "chat"
               /\ slot'["source"] # "chat" => lost'[s] \/ pc'[s] = "putback"
    BY <1>11, <2>4, <2>5 DEF Shape, SavedOK, Apart, SourceInv, Begin
  <2>6. QED
    BY <1>11, <2>2, <2>3, <2>4, <2>5 DEF SourceInv
<1>12. SavedOK'
  BY DEF Shape, SavedOK, Active, Begin, Goes
<1>13. QED
  BY <1>1, <1>2, <1>3, <1>4, <1>5, <1>6, <1>7, <1>8, <1>9, <1>10, <1>11, <1>12 DEF Shape, Apart

\* SaveSource keeps the invariants.
LEMMA SaveSourceKeeps ==
  ASSUME Shape, FileInv, NEW s \in Switches, NEW from, NEW to,
         <<from, to>> \in {<<"hold", "side">>, <<"source", "prefix">>},
         SaveSource(s, from, to)
  PROVE  Shape' /\ FileInv' /\ (~Overlap /\ Apart => Apart')
<1>1. PICK next \in {to, "finally"}, how \in {outcome[s], "failed"} :
           pc' = [pc EXCEPT ![s] = next] /\ outcome' = [outcome EXCEPT ![s] = how]
  BY DEF Shape, PlacesOK, SaveSource, Goes, Raises, Leaves
<1>2. Active(s)
  BY DEF Active, SaveSource
<1>3. ServersOK'
  BY DEF Shape, ServersOK, SaveSource
<1>4. CachesOK'
  BY DEF Shape, CachesOK, SaveSource
<1>5. FilesOK'
  BY DEF Shape, FilesOK, SaveSource
<1>6. PlacesOK'
  BY DEF Shape, PlacesOK, Places, Outcomes, SaveSource, Goes, Raises, Leaves
<1>7. LocalsOK'
  BY DEF Shape, LocalsOK, ServersOK, Servers, SaveSource
<1>8. TemplateOK'
  BY DEF Shape, TemplateOK, PlacesOK, SaveSource, Goes, Raises, Leaves
<1>9. FileInv'
  BY DEF Shape, FilesOK, PlacesOK, FileInv, Active, SaveSource, Goes, Raises, Leaves
<1>10. ASSUME ~Overlap, Apart PROVE Alone'
  BY <1>10 DEF Shape, PlacesOK, Apart, Alone, Active, SaveSource, Goes, Raises, Leaves
<1>11. ASSUME ~Overlap, Apart PROVE CompleteInv'
  BY <1>11
     DEF Shape, PlacesOK, Apart, CompleteInv, TemplateComplete, SaveSource, Goes, Raises,
         Leaves
<1>12. ASSUME ~Overlap, Apart PROVE RejectInv'
  <2>1. s \notin Refused
    BY <1>12 DEF Apart, RejectInv, SaveSource
  <2>2. \E r \in Templates : tmpl' = [tmpl EXCEPT ![s] = r] /\ r.by \in {tmpl[s].by, s}
    BY DEF Shape, LocalsOK, SaveSource
  <2>3. next \in Places \ {"idle", "ended"} /\ (next \in Early => pc[s] \in Early)
    BY <1>1 DEF Places, Early, SaveSource
  <2>4. how \notin {"rejected", "unreadable"}
    BY <1>1, <2>1 DEF Refused
  <2>5. UNCHANGED bin
    BY DEF SaveSource
  <2>6. QED
    BY <1>1, <1>2, <1>12, <2>1, <2>2, <2>3, <2>4, <2>5, RejectSteady
<1>13. ASSUME ~Overlap, Apart PROVE SourceInv'
  <2>1. \A t \in Switches : t # s =>
          /\ pc'[t] = pc[t] /\ outcome'[t] = outcome[t]
          /\ saved'[t] = saved[t] /\ lost'[t] = lost[t]
    BY DEF Shape, PlacesOK, LocalsOK, SaveSource, Goes, Raises, Leaves
  <2>2. Active(s)' /\ pc[s] # "ended" /\ outcome[s] # "crashed"
    BY DEF Shape, PlacesOK, SavedOK, Active, SaveSource, Goes, Raises, Leaves
  <2>3. Spoiled => Spoiled'
    BY <2>1, <2>2 DEF Spoiled
  <2>4. \A t \in Switches : t # s => ~Active(t) /\ ~Active(t)'
    BY <1>13, <2>1 DEF Apart, Alone, Active, SaveSource
  <2>5. ASSUME ~Spoiled
        PROVE  /\ saved'[s] \in {None, "chat"}
               /\ saved'[s] = None => slot'["source"] = "chat"
               /\ slot'["source"] # "chat" => lost'[s] \/ pc'[s] = "putback"
    BY <1>13, <2>4, <2>5 DEF Shape, LocalsOK, SavedOK, Apart, SourceInv, SaveSource
  <2>6. QED
    BY <1>13, <2>2, <2>3, <2>4, <2>5 DEF SourceInv
<1>14. SavedOK'
  <2>1. \A t \in Switches : t # s =>
          saved'[t] = saved[t] /\ pc'[t] = pc[t] /\ outcome'[t] = outcome[t]
    BY DEF Shape, PlacesOK, LocalsOK, SaveSource, Goes, Raises, Leaves
  <2>2. slot["source"] # None
    BY DEF Shape, ServersOK, Servers, Contents, Empty, None
  <2>3. pc'[s] = "finally" \/ (pc'[s] = to /\ saved'[s] # None)
    BY <2>2 DEF Shape, PlacesOK, LocalsOK, SaveSource, Goes, Raises, Leaves
  <2>4. outcome'[s] # "crashed" /\ Active(s)'
    BY <1>1, <2>3 DEF Shape, SavedOK, Active, SaveSource
  <2>5. QED
    BY <2>1, <2>3, <2>4 DEF Shape, SavedOK, Active
<1>15. QED
  BY <1>3, <1>4, <1>5, <1>6, <1>7, <1>8, <1>9, <1>10, <1>11, <1>12, <1>13, <1>14 DEF Shape, Apart

\* SideRequest keeps the invariants.
LEMMA SideRequestKeeps ==
  ASSUME Shape, FileInv, NEW s \in Switches, SideRequest(s)
  PROVE  Shape' /\ FileInv' /\ (~Overlap /\ Apart => Apart')
<1>1. PICK next \in {"putback"}, how \in {outcome[s]} :
           pc' = [pc EXCEPT ![s] = next] /\ outcome' = [outcome EXCEPT ![s] = how]
  BY DEF Shape, PlacesOK, SideRequest, Goes
<1>2. Active(s)
  BY DEF Active, SideRequest
<1>3. ServersOK'
  BY DEF Shape, ServersOK, Servers, Contents, SideRequest, Holds
<1>4. CachesOK'
  BY DEF Shape, CachesOK, SideRequest
<1>5. FilesOK'
  BY DEF Shape, FilesOK, SideRequest
<1>6. PlacesOK'
  BY DEF Shape, PlacesOK, Places, SideRequest, Goes
<1>7. LocalsOK'
  BY DEF Shape, LocalsOK, SideRequest
<1>8. TemplateOK'
  BY DEF Shape, TemplateOK, SideRequest, Goes
<1>9. FileInv'
  BY DEF FileInv, Active, SideRequest, Goes
<1>10. ASSUME ~Overlap, Apart PROVE Alone'
  BY <1>10 DEF Apart, Alone, Active, SideRequest, Goes
<1>11. ASSUME ~Overlap, Apart PROVE CompleteInv'
  BY <1>11 DEF Apart, CompleteInv, TemplateComplete, SideRequest, Goes
<1>12. ASSUME ~Overlap, Apart PROVE RejectInv'
  <2>1. s \notin Refused
    BY <1>12 DEF Apart, RejectInv, SideRequest
  <2>2. \E r \in Templates : tmpl' = [tmpl EXCEPT ![s] = r] /\ r.by \in {tmpl[s].by, s}
    BY DEF Shape, LocalsOK, SideRequest
  <2>3. next \in Places \ {"idle", "ended"} /\ (next \in Early => pc[s] \in Early)
    BY <1>1 DEF Places, Early, SideRequest
  <2>4. how \notin {"rejected", "unreadable"}
    BY <1>1, <2>1 DEF Refused
  <2>5. UNCHANGED bin
    BY DEF SideRequest
  <2>6. QED
    BY <1>1, <1>2, <1>12, <2>1, <2>2, <2>3, <2>4, <2>5, RejectSteady
<1>13. ASSUME ~Overlap, Apart PROVE SourceInv'
  <2>1. \A t \in Switches : t # s =>
          /\ pc'[t] = pc[t] /\ outcome'[t] = outcome[t]
          /\ saved'[t] = saved[t] /\ lost'[t] = lost[t]
    BY DEF SideRequest, Goes
  <2>2. Active(s)' /\ pc[s] # "ended" /\ outcome[s] # "crashed"
    BY DEF Shape, SavedOK, Active, SideRequest, Goes
  <2>3. Spoiled => Spoiled'
    BY <2>1, <2>2 DEF Spoiled
  <2>4. \A t \in Switches : t # s => ~Active(t) /\ ~Active(t)'
    BY <1>13, <2>1 DEF Apart, Alone, Active, SideRequest
  <2>5. ASSUME ~Spoiled
        PROVE  /\ saved'[s] \in {None, "chat"}
               /\ saved'[s] = None => slot'["source"] = "chat"
               /\ slot'["source"] # "chat" => lost'[s] \/ pc'[s] = "putback"
    BY <1>13, <2>4, <2>5 DEF Shape, PlacesOK, SavedOK, Apart, SourceInv, SideRequest, Goes
  <2>6. QED
    BY <1>13, <2>2, <2>3, <2>4, <2>5 DEF SourceInv
<1>14. SavedOK'
  BY DEF Shape, SavedOK, Active, SideRequest, Goes
<1>15. QED
  BY <1>3, <1>4, <1>5, <1>6, <1>7, <1>8, <1>9, <1>10, <1>11, <1>12, <1>13, <1>14 DEF Shape, Apart

\* PutBack keeps the invariants.
LEMMA PutBackKeeps ==
  ASSUME Shape, FileInv, NEW s \in Switches, PutBack(s)
  PROVE  Shape' /\ FileInv' /\ (~Overlap /\ Apart => Apart')
<1>1. PICK next \in {"plan"}, how \in {outcome[s]} :
           pc' = [pc EXCEPT ![s] = next] /\ outcome' = [outcome EXCEPT ![s] = how]
  BY DEF Shape, PlacesOK, PutBack, Goes
<1>2. Active(s)
  BY DEF Active, PutBack
<1>3. ServersOK'
  BY DEF Shape, ServersOK, LocalsOK, SavedOK, Contents, PutBack, Holds
<1>4. CachesOK'
  BY DEF Shape, CachesOK, PutBack
<1>5. FilesOK'
  BY DEF Shape, FilesOK, PutBack
<1>6. PlacesOK'
  BY DEF Shape, PlacesOK, Places, PutBack, Goes
<1>7. LocalsOK'
  BY Distinct
     DEF Shape, LocalsOK, CachesOK, ServersOK, Templates, NoTemplate, Servers, PutBack, Goes,
         Holds
<1>8. TemplateOK'
  BY DEF Shape, TemplateOK, PutBack, Goes
<1>9. FileInv'
  BY DEF FileInv, Active, PutBack, Goes
<1>10. ASSUME ~Overlap, Apart PROVE Alone'
  BY <1>10 DEF Apart, Alone, Active, PutBack, Goes
<1>11. ASSUME ~Overlap, Apart PROVE CompleteInv'
  BY <1>11 DEF Apart, CompleteInv, TemplateComplete, PutBack, Goes
<1>12. ASSUME ~Overlap, Apart PROVE RejectInv'
  <2>1. s \notin Refused
    BY <1>12 DEF Apart, RejectInv, PutBack
  <2>2. \E r \in Templates : tmpl' = [tmpl EXCEPT ![s] = r] /\ r.by \in {tmpl[s].by, s}
    BY DEF Shape, LocalsOK, PutBack
  <2>3. next \in Places \ {"idle", "ended"} /\ (next \in Early => pc[s] \in Early)
    BY <1>1 DEF Places, Early, PutBack
  <2>4. how \notin {"rejected", "unreadable"}
    BY <1>1, <2>1 DEF Refused
  <2>5. UNCHANGED bin
    BY DEF PutBack
  <2>6. QED
    BY <1>1, <1>2, <1>12, <2>1, <2>2, <2>3, <2>4, <2>5, RejectSteady
<1>13. ASSUME ~Overlap, Apart PROVE SourceInv'
  <2>1. \A t \in Switches : t # s =>
          /\ pc'[t] = pc[t] /\ outcome'[t] = outcome[t]
          /\ saved'[t] = saved[t] /\ lost'[t] = lost[t]
    BY DEF Shape, LocalsOK, PutBack, Goes
  <2>2. Active(s)' /\ pc[s] # "ended" /\ outcome[s] # "crashed"
    BY DEF Shape, SavedOK, Active, PutBack, Goes
  <2>3. Spoiled => Spoiled'
    BY <2>1, <2>2 DEF Spoiled
  <2>4. \A t \in Switches : t # s => ~Active(t) /\ ~Active(t)'
    BY <1>13, <2>1 DEF Apart, Alone, Active, PutBack
  <2>5. ASSUME ~Spoiled
        PROVE  /\ saved'[s] \in {None, "chat"}
               /\ saved'[s] = None => slot'["source"] = "chat"
               /\ slot'["source"] # "chat" => lost'[s] \/ pc'[s] = "putback"
    BY <1>13, <2>4, <2>5
       DEF Shape, LocalsOK, ServersOK, Servers, SavedOK, Apart, SourceInv, PutBack, Holds
  <2>6. QED
    BY <1>13, <2>2, <2>3, <2>4, <2>5 DEF SourceInv
<1>14. SavedOK'
  BY DEF Shape, SavedOK, Active, PutBack, Goes
<1>15. QED
  BY <1>3, <1>4, <1>5, <1>6, <1>7, <1>8, <1>9, <1>10, <1>11, <1>12, <1>13, <1>14 DEF Shape, Apart

\* Plan keeps the invariants.
LEMMA PlanKeeps ==
  ASSUME Shape, FileInv, NEW s \in Switches, Plan(s)
  PROVE  Shape' /\ FileInv' /\ (~Overlap /\ Apart => Apart')
<1>1. PICK next \in {"template", "finally"}, how \in {outcome[s], "skipped", "failed"} :
           pc' = [pc EXCEPT ![s] = next] /\ outcome' = [outcome EXCEPT ![s] = how]
  BY DEF Shape, PlacesOK, Plan, Goes, Raises, Leaves
<1>2. Active(s)
  BY DEF Active, Plan
<1>3. ServersOK'
  BY DEF Shape, ServersOK, Plan
<1>4. CachesOK'
  BY DEF Shape, CachesOK, Plan
<1>5. FilesOK'
  BY DEF Shape, FilesOK, Plan
<1>6. PlacesOK'
  BY DEF Shape, PlacesOK, Places, Outcomes, Plan, Goes, Raises, Leaves
<1>7. LocalsOK'
  BY DEF Shape, LocalsOK, Plan
<1>8. TemplateOK'
  BY DEF Shape, TemplateOK, PlacesOK, Plan, Goes, Raises, Leaves
<1>9. FileInv'
  BY DEF Shape, FilesOK, PlacesOK, FileInv, Active, Plan, Goes, Raises, Leaves
<1>10. ASSUME ~Overlap, Apart PROVE Alone'
  BY <1>10 DEF Shape, PlacesOK, Apart, Alone, Active, Plan, Goes, Raises, Leaves
<1>11. ASSUME ~Overlap, Apart PROVE CompleteInv'
  BY <1>11 DEF Shape, PlacesOK, Apart, CompleteInv, TemplateComplete, Plan, Goes, Raises, Leaves
<1>12. ASSUME ~Overlap, Apart PROVE RejectInv'
  <2>1. s \notin Refused
    BY <1>12 DEF Apart, RejectInv, Plan
  <2>2. \E r \in Templates : tmpl' = [tmpl EXCEPT ![s] = r] /\ r.by \in {tmpl[s].by, s}
    BY DEF Shape, LocalsOK, Plan
  <2>3. next \in Places \ {"idle", "ended"} /\ (next \in Early => pc[s] \in Early)
    BY <1>1 DEF Places, Early, Plan
  <2>4. how \notin {"rejected", "unreadable"}
    BY <1>1, <2>1 DEF Refused
  <2>5. UNCHANGED bin
    BY DEF Plan
  <2>6. QED
    BY <1>1, <1>2, <1>12, <2>1, <2>2, <2>3, <2>4, <2>5, RejectSteady
<1>13. ASSUME ~Overlap, Apart PROVE SourceInv'
  <2>1. next \in Places \ {"idle", "ended"} /\ pc[s] # "putback"
    BY <1>1 DEF Places, Plan
  <2>2. UNCHANGED <<saved, lost>> /\ slot'["source"] = slot["source"]
    BY DEF Plan
  <2>3. QED
    BY <1>1, <1>2, <1>13, <2>1, <2>2, SourceSteady
<1>14. SavedOK'
  BY DEF Shape, SavedOK, PlacesOK, Active, Plan, Goes, Raises, Leaves
<1>15. QED
  BY <1>3, <1>4, <1>5, <1>6, <1>7, <1>8, <1>9, <1>10, <1>11, <1>12, <1>13, <1>14 DEF Shape, Apart

\* Template keeps the invariants.
LEMMA TemplateKeeps ==
  ASSUME Shape, FileInv, NEW s \in Switches, Template(s)
  PROVE  Shape' /\ FileInv' /\ (~Overlap /\ Apart => Apart')
<1>1. PICK next \in {"draft", "render", "finally"}, how \in {outcome[s], "failed"} :
           pc' = [pc EXCEPT ![s] = next] /\ outcome' = [outcome EXCEPT ![s] = how]
  BY DEF Shape, PlacesOK, Template, Goes, Raises, Leaves
<1>2. Active(s)
  BY DEF Active, Template
<1>3. ServersOK'
  BY DEF Shape, ServersOK, Contents, Template, Holds
<1>4. CachesOK'
  BY DEF Shape, CachesOK, Template
<1>5. FilesOK'
  BY DEF Shape, FilesOK, Template
<1>6. PlacesOK'
  BY DEF Shape, PlacesOK, Places, Outcomes, Template, Goes, Raises, Leaves
<1>7. LocalsOK'
  <2>1. \E r \in Templates : tmpl' = [tmpl EXCEPT ![s] = r]
    <3>1. tmpl[s] \in Templates
      BY DEF Shape, LocalsOK
    <3>2. bin # NoFile =>
          [layout |-> bin.layout, by |-> bin.by, resume |-> res # Absent] \in Templates
      BY <3>1, SwitchAssumption DEF Shape, CachesOK, Templates
    <3>3. \/ tmpl' = [tmpl EXCEPT ![s] = tmpl[s]]
          \/ tmpl' = [tmpl EXCEPT ![s] =
               [layout |-> bin.layout, by |-> bin.by, resume |-> res # Absent]]
      BY DEF Shape, LocalsOK, Template
    <3>4. QED
      BY <3>1, <3>2, <3>3 DEF Template
  <2>2. QED
    BY <2>1 DEF Shape, LocalsOK, Template
<1>8. TemplateOK'
  BY DEF Shape, TemplateOK, PlacesOK, LocalsOK, CachesOK, Template, Goes, Raises, Leaves
<1>9. FileInv'
  BY DEF Shape, FilesOK, PlacesOK, FileInv, Active, Template, Goes, Raises, Leaves
<1>10. ASSUME ~Overlap, Apart PROVE Alone'
  BY <1>10 DEF Shape, PlacesOK, Apart, Alone, Active, Template, Goes, Raises, Leaves
<1>11. ASSUME ~Overlap, Apart PROVE CompleteInv'
  BY <1>11 DEF Shape, PlacesOK, Apart, CompleteInv, TemplateComplete, Template, Goes, Raises, Leaves
<1>12. ASSUME ~Overlap, Apart PROVE RejectInv'
  <2>1. s \notin Refused
    BY <1>12 DEF Apart, RejectInv, Template
  <2>2. PICK r \in Templates :
            /\ tmpl' = [tmpl EXCEPT ![s] = r]
            /\ r.by \in {tmpl[s].by, s} \/ (bin.by \in Switches /\ r.by = bin.by)
    BY <1>7, <1>12 DEF Shape, LocalsOK, CachesOK, Template
  <2>3. next \in Places \ {"idle", "ended"} /\ (next \in Early => pc[s] \in Early)
    BY <1>1 DEF Places, Early, Template
  <2>4. how \notin {"rejected", "unreadable"}
    BY <1>1, <2>1 DEF Refused
  <2>5. UNCHANGED bin
    BY DEF Template
  <2>6. QED
    BY <1>1, <1>2, <1>12, <2>1, <2>2, <2>3, <2>4, <2>5, RejectSteady
<1>13. ASSUME ~Overlap, Apart PROVE SourceInv'
  <2>1. next \in Places \ {"idle", "ended"} /\ pc[s] # "putback"
    BY <1>1 DEF Places, Template
  <2>2. UNCHANGED <<saved, lost>> /\ slot'["source"] = slot["source"]
    BY DEF Shape, ServersOK, Servers, Template, Holds
  <2>3. QED
    BY <1>1, <1>2, <1>13, <2>1, <2>2, SourceSteady
<1>14. SavedOK'
  BY DEF Shape, SavedOK, PlacesOK, Active, Template, Goes, Raises, Leaves
<1>15. QED
  BY <1>3, <1>4, <1>5, <1>6, <1>7, <1>8, <1>9, <1>10, <1>11, <1>12, <1>13, <1>14 DEF Shape, Apart

\* SaveTemplate keeps the invariants.
LEMMA SaveTemplateKeeps ==
  ASSUME Shape, FileInv, NEW s \in Switches, SaveTemplate(s)
  PROVE  Shape' /\ FileInv' /\ (~Overlap /\ Apart => Apart')
<1>1. PICK next \in {"saved", "finally"}, how \in {outcome[s], "failed", "stranded"} :
           pc' = [pc EXCEPT ![s] = next] /\ outcome' = [outcome EXCEPT ![s] = how]
  BY DEF Shape, PlacesOK, SaveTemplate, Goes, Raises, Leaves, Strands
<1>2. Active(s)
  BY DEF Active, SaveTemplate
<1>3. ServersOK'
  BY DEF Shape, ServersOK, SaveTemplate
<1>4. CachesOK'
  BY DEF Shape, CachesOK, SaveTemplate
<1>5. FilesOK'
  BY DEF Shape, FilesOK, Strands, SaveTemplate
<1>6. PlacesOK'
  BY DEF Shape, PlacesOK, Places, Outcomes, SaveTemplate, Goes, Raises, Leaves, Strands
<1>7. LocalsOK'
  <2>1. \E r \in Templates : tmpl' = [tmpl EXCEPT ![s] = r]
    <3>1. tmpl[s] \in Templates
      BY DEF Shape, LocalsOK
    <3>2. [layout |-> layout, by |-> s, resume |-> Patched] \in Templates
      BY <3>1, SwitchAssumption DEF Shape, ServersOK, Templates
    <3>3. \/ tmpl' = [tmpl EXCEPT ![s] = tmpl[s]]
          \/ tmpl' = [tmpl EXCEPT ![s] = [layout |-> layout, by |-> s, resume |-> Patched]]
      BY DEF Shape, LocalsOK, SaveTemplate
    <3>4. QED
      BY <3>1, <3>2, <3>3
  <2>2. QED
    BY <2>1 DEF Shape, LocalsOK, SaveTemplate
<1>8. TemplateOK'
  <2>1. \A t \in Switches : t # s => tmpl'[t] = tmpl[t] /\ pc'[t] = pc[t]
    BY DEF Shape, PlacesOK, LocalsOK, SaveTemplate, Goes, Raises, Leaves, Strands
  <2>2. pc'[s] = "finally" \/ (pc'[s] = "saved" /\ tmpl'[s].layout = layout /\ tmpl'[s].by = s)
    BY DEF Shape, PlacesOK, LocalsOK, SaveTemplate, Goes, Raises, Leaves, Strands
  <2>3. QED
    BY <2>1, <2>2 DEF Shape, ServersOK, TemplateOK
<1>9. FileInv'
  BY DEF Shape, FilesOK, PlacesOK, FileInv, Active, SaveTemplate, Goes, Raises, Leaves, Strands
<1>10. ASSUME ~Overlap, Apart PROVE Alone'
  BY <1>10 DEF Shape, PlacesOK, Apart, Alone, Active, SaveTemplate, Goes, Raises, Leaves, Strands
<1>11. ASSUME ~Overlap, Apart PROVE CompleteInv'
  BY <1>11
     DEF Shape, PlacesOK, Apart, CompleteInv, TemplateComplete, SaveTemplate, Goes, Raises,
         Leaves, Strands
<1>12. ASSUME ~Overlap, Apart PROVE RejectInv'
  <2>1. s \notin Refused
    BY <1>12 DEF Apart, RejectInv, SaveTemplate
  <2>2. PICK r \in Templates :
            /\ tmpl' = [tmpl EXCEPT ![s] = r]
            /\ r.by \in {tmpl[s].by, s} \/ (bin.by \in Switches /\ r.by = bin.by)
    BY <1>7, <1>12 DEF LocalsOK, SaveTemplate
  <2>3. next \in Places \ {"idle", "ended"} /\ (next \in Early => pc[s] \in Early)
    BY <1>1 DEF Places, Early, SaveTemplate
  <2>4. how \notin {"rejected", "unreadable"}
    BY <1>1, <2>1 DEF Refused
  <2>5. UNCHANGED bin
    BY DEF SaveTemplate
  <2>6. QED
    BY <1>1, <1>2, <1>12, <2>1, <2>2, <2>3, <2>4, <2>5, RejectSteady
<1>13. ASSUME ~Overlap, Apart PROVE SourceInv'
  <2>1. next \in Places \ {"idle", "ended"} /\ pc[s] # "putback"
    BY <1>1 DEF Places, SaveTemplate
  <2>2. UNCHANGED <<saved, lost>> /\ slot'["source"] = slot["source"]
    BY DEF SaveTemplate
  <2>3. QED
    BY <1>1, <1>2, <1>13, <2>1, <2>2, SourceSteady
<1>14. SavedOK'
  BY DEF Shape, SavedOK, PlacesOK, Active, SaveTemplate, Goes, Raises, Leaves, Strands
<1>15. QED
  BY <1>3, <1>4, <1>5, <1>6, <1>7, <1>8, <1>9, <1>10, <1>11, <1>12, <1>13, <1>14 DEF Shape, Apart

\* PublishResume keeps the invariants.
LEMMA PublishResumeKeeps ==
  ASSUME Shape, FileInv, NEW s \in Switches, PublishResume(s)
  PROVE  Shape' /\ FileInv' /\ (~Overlap /\ Apart => Apart')
<1>1. PICK next \in {"moved", "finally"}, how \in {outcome[s], "stranded"} :
           pc' = [pc EXCEPT ![s] = next] /\ outcome' = [outcome EXCEPT ![s] = how]
  BY DEF Shape, PlacesOK, PublishResume, Goes, Leaves
<1>2. Active(s)
  BY DEF Active, PublishResume
<1>3. ServersOK'
  BY DEF Shape, ServersOK, PublishResume
<1>4. CachesOK'
  BY DEF Shape, CachesOK, TemplateOK, PublishResume
<1>5. FilesOK'
  BY DEF Shape, FilesOK, PublishResume
<1>6. PlacesOK'
  BY DEF Shape, PlacesOK, Places, Outcomes, PublishResume, Goes, Leaves
<1>7. LocalsOK'
  BY DEF Shape, LocalsOK, PublishResume
<1>8. TemplateOK'
  BY DEF Shape, TemplateOK, PlacesOK, PublishResume, Goes, Leaves
<1>9. FileInv'
  BY DEF Shape, FilesOK, PlacesOK, FileInv, Active, PublishResume, Goes, Leaves
<1>10. ASSUME ~Overlap, Apart PROVE Alone'
  BY <1>10 DEF Shape, PlacesOK, Apart, Alone, Active, PublishResume, Goes, Leaves
<1>11. ASSUME ~Overlap, Apart PROVE CompleteInv'
  BY <1>11, Distinct
     DEF Shape, PlacesOK, TemplateOK, Apart, CompleteInv, TemplateComplete, PublishResume,
         Goes, Leaves
<1>12. ASSUME ~Overlap, Apart PROVE RejectInv'
  <2>1. s \notin Refused
    BY <1>12 DEF Apart, RejectInv, PublishResume
  <2>2. \E r \in Templates : tmpl' = [tmpl EXCEPT ![s] = r] /\ r.by \in {tmpl[s].by, s}
    BY DEF Shape, LocalsOK, PublishResume
  <2>3. next \in Places \ {"idle", "ended"} /\ (next \in Early => pc[s] \in Early)
    BY <1>1 DEF Places, Early, PublishResume
  <2>4. how \notin {"rejected", "unreadable"}
    BY <1>1, <2>1 DEF Refused
  <2>5. UNCHANGED bin
    BY DEF PublishResume
  <2>6. QED
    BY <1>1, <1>2, <1>12, <2>1, <2>2, <2>3, <2>4, <2>5, RejectSteady
<1>13. ASSUME ~Overlap, Apart PROVE SourceInv'
  <2>1. next \in Places \ {"idle", "ended"} /\ pc[s] # "putback"
    BY <1>1 DEF Places, PublishResume
  <2>2. UNCHANGED <<saved, lost>> /\ slot'["source"] = slot["source"]
    BY DEF PublishResume
  <2>3. QED
    BY <1>1, <1>2, <1>13, <2>1, <2>2, SourceSteady
<1>14. SavedOK'
  BY DEF Shape, SavedOK, PlacesOK, Active, PublishResume, Goes, Leaves
<1>15. QED
  BY <1>3, <1>4, <1>5, <1>6, <1>7, <1>8, <1>9, <1>10, <1>11, <1>12, <1>13, <1>14 DEF Shape, Apart

\* PublishTemplate keeps the invariants.
LEMMA PublishTemplateKeeps ==
  ASSUME Shape, FileInv, NEW s \in Switches, PublishTemplate(s)
  PROVE  Shape' /\ FileInv' /\ (~Overlap /\ Apart => Apart')
<1>1. PICK next \in {"published", "finally"}, how \in {outcome[s], "stranded"} :
           pc' = [pc EXCEPT ![s] = next] /\ outcome' = [outcome EXCEPT ![s] = how]
  BY DEF Shape, PlacesOK, PublishTemplate, Goes, Leaves
<1>2. Active(s)
  BY DEF Active, PublishTemplate
<1>3. ServersOK'
  BY DEF Shape, ServersOK, PublishTemplate
<1>4. CachesOK'
  BY DEF Shape, CachesOK, TemplateOK, PublishTemplate
<1>5. FilesOK'
  BY DEF Shape, FilesOK, PublishTemplate
<1>6. PlacesOK'
  BY DEF Shape, PlacesOK, Places, Outcomes, PublishTemplate, Goes, Leaves
<1>7. LocalsOK'
  BY DEF Shape, LocalsOK, PublishTemplate
<1>8. TemplateOK'
  BY DEF Shape, TemplateOK, PlacesOK, PublishTemplate, Goes, Leaves
<1>9. FileInv'
  BY DEF Shape, FilesOK, PlacesOK, FileInv, Active, PublishTemplate, Goes, Leaves
<1>10. ASSUME ~Overlap, Apart PROVE Alone'
  BY <1>10 DEF Shape, PlacesOK, Apart, Alone, Active, PublishTemplate, Goes, Leaves
<1>11. ASSUME ~Overlap, Apart PROVE CompleteInv'
  BY <1>11 DEF Shape, PlacesOK, Apart, Alone, Active, CompleteInv, TemplateComplete, PublishTemplate, Goes, Leaves
<1>12. ASSUME ~Overlap, Apart PROVE RejectInv'
  <2>1. s \notin Refused
    BY <1>12 DEF Apart, RejectInv, PublishTemplate
  <2>2. CASE Leaves(s, "stranded") /\ UNCHANGED bin
    <3>1. \E r \in Templates : tmpl' = [tmpl EXCEPT ![s] = r] /\ r.by \in {tmpl[s].by, s}
      BY DEF Shape, LocalsOK, PublishTemplate
    <3>2. next \in Places \ {"idle", "ended"} /\ (next \in Early => pc[s] \in Early)
      BY <1>1 DEF Places, Early, PublishTemplate
    <3>3. how \notin {"rejected", "unreadable"}
      BY <1>1, <2>1 DEF Refused
    <3> QED
      BY <1>1, <1>2, <1>12, <2>1, <2>2, <3>1, <3>2, <3>3, RejectSteady
  <2>3. CASE pc' = [pc EXCEPT ![s] = "published"] /\ UNCHANGED outcome
    BY <1>12, <2>3 DEF Shape, PlacesOK, Apart, Active, RejectInv, Refused, Early, PublishTemplate
  <2> QED BY <2>2, <2>3 DEF PublishTemplate, Goes
<1>13. ASSUME ~Overlap, Apart PROVE SourceInv'
  <2>1. next \in Places \ {"idle", "ended"} /\ pc[s] # "putback"
    BY <1>1 DEF Places, PublishTemplate
  <2>2. UNCHANGED <<saved, lost>> /\ slot'["source"] = slot["source"]
    BY DEF PublishTemplate
  <2>3. QED
    BY <1>1, <1>2, <1>13, <2>1, <2>2, SourceSteady
<1>14. SavedOK'
  BY DEF Shape, SavedOK, PlacesOK, Active, PublishTemplate, Goes, Leaves
<1>15. QED
  BY <1>3, <1>4, <1>5, <1>6, <1>7, <1>8, <1>9, <1>10, <1>11, <1>12, <1>13, <1>14 DEF Shape, Apart

\* EraseAfterTemplate keeps the invariants.
LEMMA EraseAfterTemplateKeeps ==
  ASSUME Shape, FileInv, NEW s \in Switches, EraseAfterTemplate(s)
  PROVE  Shape' /\ FileInv' /\ (~Overlap /\ Apart => Apart')
<1>1. PICK next \in {"draft", "finally"}, how \in {outcome[s], "failed"} :
           pc' = [pc EXCEPT ![s] = next] /\ outcome' = [outcome EXCEPT ![s] = how]
  BY DEF Shape, PlacesOK, EraseAfterTemplate, Goes, Raises, Leaves
<1>2. Active(s)
  BY DEF Active, EraseAfterTemplate
<1>3. ServersOK'
  BY DEF Shape, ServersOK, Contents, EraseAfterTemplate, Holds
<1>4. CachesOK'
  BY DEF Shape, CachesOK, EraseAfterTemplate
<1>5. FilesOK'
  BY DEF Shape, FilesOK, EraseAfterTemplate
<1>6. PlacesOK'
  BY DEF Shape, PlacesOK, Places, Outcomes, EraseAfterTemplate, Goes, Raises, Leaves
<1>7. LocalsOK'
  <2>1. \E r \in Templates : tmpl' = [tmpl EXCEPT ![s] = r]
    <3>1. tmpl[s] \in Templates
      BY DEF Shape, LocalsOK
    <3>2. [tmpl[s] EXCEPT !.resume = res # Absent] \in Templates
      BY <3>1, SwitchAssumption DEF Shape, CachesOK, ServersOK, Templates, NoFile
    <3>3. \/ tmpl' = [tmpl EXCEPT ![s] = tmpl[s]]
          \/ tmpl' = [tmpl EXCEPT ![s] = [tmpl[s] EXCEPT !.resume = res # Absent]]
      BY DEF Shape, LocalsOK, EraseAfterTemplate
    <3>4. QED
      BY <3>1, <3>2, <3>3
  <2>2. QED
    BY <2>1 DEF Shape, LocalsOK, EraseAfterTemplate
<1>8. TemplateOK'
  BY DEF Shape, TemplateOK, PlacesOK, LocalsOK, Templates, EraseAfterTemplate, Goes, Raises, Leaves
<1>9. FileInv'
  BY DEF Shape, FilesOK, PlacesOK, FileInv, Active, EraseAfterTemplate, Goes, Raises, Leaves
<1>10. ASSUME ~Overlap, Apart PROVE Alone'
  BY <1>10 DEF Shape, PlacesOK, Apart, Alone, Active, EraseAfterTemplate, Goes, Raises, Leaves
<1>11. ASSUME ~Overlap, Apart PROVE CompleteInv'
  BY <1>11
     DEF Shape, PlacesOK, Apart, CompleteInv, TemplateComplete, EraseAfterTemplate, Goes,
         Raises, Leaves
<1>12. ASSUME ~Overlap, Apart PROVE RejectInv'
  <2>1. s \notin Refused
    BY <1>12 DEF Apart, RejectInv, EraseAfterTemplate
  <2>2. PICK r \in Templates :
            /\ tmpl' = [tmpl EXCEPT ![s] = r]
            /\ r.by \in {tmpl[s].by, s} \/ (bin.by \in Switches /\ r.by = bin.by)
    BY <1>7, <1>12 DEF LocalsOK, Templates, EraseAfterTemplate
  <2>3. next \in Places \ {"idle", "ended"} /\ (next \in Early => pc[s] \in Early)
    BY <1>1 DEF Places, Early
  <2>4. how \notin {"rejected", "unreadable"}
    BY <1>1, <2>1 DEF Refused
  <2>5. UNCHANGED bin
    BY DEF EraseAfterTemplate
  <2>6. QED
    BY <1>1, <1>2, <1>12, <2>1, <2>2, <2>3, <2>4, <2>5, RejectSteady
<1>13. ASSUME ~Overlap, Apart PROVE SourceInv'
  <2>1. next \in Places \ {"idle", "ended"} /\ pc[s] # "putback"
    BY <1>1 DEF Places, EraseAfterTemplate
  <2>2. UNCHANGED <<saved, lost>> /\ slot'["source"] = slot["source"]
    BY DEF Shape, ServersOK, Servers, EraseAfterTemplate, Holds
  <2>3. QED
    BY <1>1, <1>2, <1>13, <2>1, <2>2, SourceSteady
<1>14. SavedOK'
  BY DEF Shape, SavedOK, PlacesOK, Active, EraseAfterTemplate, Goes, Raises, Leaves
<1>15. QED
  BY <1>3, <1>4, <1>5, <1>6, <1>7, <1>8, <1>9, <1>10, <1>11, <1>12, <1>13, <1>14 DEF Shape, Apart

\* Draft keeps the invariants.
LEMMA DraftKeeps ==
  ASSUME Shape, FileInv, NEW s \in Switches, Draft(s)
  PROVE  Shape' /\ FileInv' /\ (~Overlap /\ Apart => Apart')
<1>1. PICK next \in {"dropbin", "source", "finally"},
                how \in {outcome[s], "unreadable", "skipped"} :
           pc' = [pc EXCEPT ![s] = next] /\ outcome' = [outcome EXCEPT ![s] = how]
  BY DEF Shape, PlacesOK, Draft, Goes, Leaves
<1>2. Active(s)
  BY DEF Active, Draft
<1>3. ServersOK'
  BY DEF Shape, ServersOK, Draft
<1>4. CachesOK'
  BY DEF Shape, CachesOK, Draft
<1>5. FilesOK'
  BY DEF Shape, FilesOK, Draft
<1>6. PlacesOK'
  BY DEF Shape, PlacesOK, Places, Outcomes, Draft, Goes, Leaves
<1>7. LocalsOK'
  BY DEF Shape, LocalsOK, Draft
<1>8. TemplateOK'
  BY DEF Shape, TemplateOK, PlacesOK, Draft, Goes, Leaves
<1>9. FileInv'
  BY DEF Shape, FilesOK, PlacesOK, FileInv, Active, Draft, Goes, Leaves
<1>10. ASSUME ~Overlap, Apart PROVE Alone'
  BY <1>10 DEF Shape, PlacesOK, Apart, Alone, Active, Draft, Goes, Leaves
<1>11. ASSUME ~Overlap, Apart PROVE CompleteInv'
  BY <1>11 DEF Shape, PlacesOK, Apart, CompleteInv, TemplateComplete, Draft, Goes, Leaves
<1>12. ASSUME ~Overlap, Apart PROVE RejectInv'
  <2>1. s \notin Refused
    BY <1>12 DEF Apart, RejectInv, Draft
  <2>2. UNCHANGED <<tmpl, bin>>
    BY DEF Draft
  <2>3. CASE how \in {"rejected", "unreadable"}
    <3>1. next = "dropbin" /\ pc[s] \notin Early /\ tmpl[s].by \in Switches
      BY <1>1, <2>1, <2>3 DEF Shape, PlacesOK, TemplateOK, Refused, Early, Draft, Goes, Leaves
    <3>2. QED
      BY <1>1, <1>2, <1>12, <2>1, <2>2, <2>3, <3>1, RejectRefuses
  <2>4. CASE how \notin {"rejected", "unreadable"}
    <3>1. \E r \in Templates : tmpl' = [tmpl EXCEPT ![s] = r] /\ r.by \in {tmpl[s].by, s}
      BY <2>2 DEF Shape, LocalsOK
    <3>2. next \in Places \ {"idle", "ended"} /\ (next \in Early => pc[s] \in Early)
      BY <1>1 DEF Places, Early
    <3>3. QED
      BY <1>1, <1>2, <1>12, <2>1, <2>2, <2>4, <3>1, <3>2, RejectSteady
  <2>5. QED
    BY <2>3, <2>4
<1>13. ASSUME ~Overlap, Apart PROVE SourceInv'
  <2>1. next \in Places \ {"idle", "ended"} /\ pc[s] # "putback"
    BY <1>1 DEF Places, Draft
  <2>2. UNCHANGED <<saved, lost>> /\ slot'["source"] = slot["source"]
    BY DEF Draft
  <2>3. QED
    BY <1>1, <1>2, <1>13, <2>1, <2>2, SourceSteady
<1>14. SavedOK'
  BY DEF Shape, SavedOK, PlacesOK, Active, Draft, Goes, Leaves
<1>15. QED
  BY <1>3, <1>4, <1>5, <1>6, <1>7, <1>8, <1>9, <1>10, <1>11, <1>12, <1>13, <1>14 DEF Shape, Apart

\* DropBin keeps the invariants.
LEMMA DropBinKeeps ==
  ASSUME Shape, FileInv, NEW s \in Switches, DropBin(s)
  PROVE  Shape' /\ FileInv' /\ (~Overlap /\ Apart => Apart')
<1>1. PICK next \in {"dropres"}, how \in {outcome[s]} :
           pc' = [pc EXCEPT ![s] = next] /\ outcome' = [outcome EXCEPT ![s] = how]
  BY DEF Shape, PlacesOK, DropBin, Goes
<1>2. Active(s)
  BY DEF Active, DropBin
<1>3. ServersOK'
  BY DEF Shape, ServersOK, DropBin
<1>4. CachesOK'
  BY DEF Shape, CachesOK, DropBin
<1>5. FilesOK'
  BY DEF Shape, FilesOK, DropBin
<1>6. PlacesOK'
  BY DEF Shape, PlacesOK, Places, DropBin, Goes
<1>7. LocalsOK'
  BY DEF Shape, LocalsOK, DropBin
<1>8. TemplateOK'
  BY DEF Shape, TemplateOK, DropBin, Goes
<1>9. FileInv'
  BY DEF FileInv, Active, DropBin, Goes
<1>10. ASSUME ~Overlap, Apart PROVE Alone'
  BY <1>10 DEF Apart, Alone, Active, DropBin, Goes
<1>11. ASSUME ~Overlap, Apart PROVE CompleteInv'
  BY <1>11 DEF Apart, CompleteInv, TemplateComplete, DropBin, Goes
<1>12. ASSUME ~Overlap, Apart PROVE RejectInv'
  BY <1>12, Distinct DEF Apart, Active, RejectInv, Refused, NoFile, DropBin, Goes
<1>13. ASSUME ~Overlap, Apart PROVE SourceInv'
  <2>1. next \in Places \ {"idle", "ended"} /\ pc[s] # "putback"
    BY <1>1 DEF Places, DropBin
  <2>2. UNCHANGED <<saved, lost>> /\ slot'["source"] = slot["source"]
    BY DEF DropBin
  <2>3. QED
    BY <1>1, <1>2, <1>13, <2>1, <2>2, SourceSteady
<1>14. SavedOK'
  BY DEF Shape, SavedOK, Active, DropBin, Goes
<1>15. QED
  BY <1>3, <1>4, <1>5, <1>6, <1>7, <1>8, <1>9, <1>10, <1>11, <1>12, <1>13, <1>14 DEF Shape, Apart

\* DropResume keeps the invariants.
LEMMA DropResumeKeeps ==
  ASSUME Shape, FileInv, NEW s \in Switches, DropResume(s)
  PROVE  Shape' /\ FileInv' /\ (~Overlap /\ Apart => Apart')
<1>1. PICK next \in {"finally"}, how \in {outcome[s]} :
           pc' = [pc EXCEPT ![s] = next] /\ outcome' = [outcome EXCEPT ![s] = how]
  BY DEF Shape, PlacesOK, DropResume, Goes
<1>2. Active(s)
  BY DEF Active, DropResume
<1>3. ServersOK'
  BY DEF Shape, ServersOK, DropResume
<1>4. CachesOK'
  BY DEF Shape, CachesOK, DropResume
<1>5. FilesOK'
  BY DEF Shape, FilesOK, DropResume
<1>6. PlacesOK'
  BY DEF Shape, PlacesOK, Places, DropResume, Goes
<1>7. LocalsOK'
  BY DEF Shape, LocalsOK, DropResume
<1>8. TemplateOK'
  BY DEF Shape, TemplateOK, DropResume, Goes
<1>9. FileInv'
  BY DEF FileInv, Active, DropResume, Goes
<1>10. ASSUME ~Overlap, Apart PROVE Alone'
  BY <1>10 DEF Apart, Alone, Active, DropResume, Goes
<1>11. ASSUME ~Overlap, Apart PROVE CompleteInv'
  BY <1>11 DEF Apart, Alone, Active, CompleteInv, TemplateComplete, DropResume, Goes
<1>12. ASSUME ~Overlap, Apart PROVE RejectInv'
  BY <1>12 DEF Apart, Active, RejectInv, Refused, Early, DropResume, Goes
<1>13. ASSUME ~Overlap, Apart PROVE SourceInv'
  <2>1. next \in Places \ {"idle", "ended"} /\ pc[s] # "putback"
    BY <1>1 DEF Places, DropResume
  <2>2. UNCHANGED <<saved, lost>> /\ slot'["source"] = slot["source"]
    BY DEF DropResume
  <2>3. QED
    BY <1>1, <1>2, <1>13, <2>1, <2>2, SourceSteady
<1>14. SavedOK'
  BY DEF Shape, SavedOK, Active, DropResume, Goes
<1>15. QED
  BY <1>3, <1>4, <1>5, <1>6, <1>7, <1>8, <1>9, <1>10, <1>11, <1>12, <1>13, <1>14 DEF Shape, Apart

\* PrefixWanted keeps the invariants.
LEMMA PrefixWantedKeeps ==
  ASSUME Shape, FileInv, NEW s \in Switches, PrefixWanted(s)
  PROVE  Shape' /\ FileInv' /\ (~Overlap /\ Apart => Apart')
<1>1. PICK next \in {"engine", "prefilled", "finally"}, how \in {outcome[s], "failed"} :
           pc' = [pc EXCEPT ![s] = next] /\ outcome' = [outcome EXCEPT ![s] = how]
  BY DEF Shape, PlacesOK, PrefixWanted, Goes, Raises, Leaves
<1>2. Active(s)
  BY DEF Active, PrefixWanted
<1>3. ServersOK'
  BY DEF Shape, ServersOK, Contents, PrefixWanted, Holds
<1>4. CachesOK'
  BY DEF Shape, CachesOK, PrefixWanted
<1>5. FilesOK'
  BY DEF Shape, FilesOK, PrefixWanted
<1>6. PlacesOK'
  BY DEF Shape, PlacesOK, Places, Outcomes, PrefixWanted, Goes, Raises, Leaves
<1>7. LocalsOK'
  BY DEF Shape, LocalsOK, PrefixWanted
<1>8. TemplateOK'
  BY DEF Shape, TemplateOK, PlacesOK, PrefixWanted, Goes, Raises, Leaves
<1>9. FileInv'
  BY DEF Shape, FilesOK, PlacesOK, FileInv, Active, PrefixWanted, Goes, Raises, Leaves
<1>10. ASSUME ~Overlap, Apart PROVE Alone'
  BY <1>10 DEF Shape, PlacesOK, Apart, Alone, Active, PrefixWanted, Goes, Raises, Leaves
<1>11. ASSUME ~Overlap, Apart PROVE CompleteInv'
  BY <1>11
     DEF Shape, PlacesOK, Apart, CompleteInv, TemplateComplete, PrefixWanted, Goes, Raises,
         Leaves
<1>12. ASSUME ~Overlap, Apart PROVE RejectInv'
  <2>1. s \notin Refused
    BY <1>12 DEF Apart, RejectInv, PrefixWanted
  <2>2. \E r \in Templates : tmpl' = [tmpl EXCEPT ![s] = r] /\ r.by \in {tmpl[s].by, s}
    BY DEF Shape, LocalsOK, PrefixWanted
  <2>3. next \in Places \ {"idle", "ended"} /\ (next \in Early => pc[s] \in Early)
    BY <1>1 DEF Places, Early
  <2>4. how \notin {"rejected", "unreadable"}
    BY <1>1, <2>1 DEF Refused
  <2>5. UNCHANGED bin
    BY DEF PrefixWanted
  <2>6. QED
    BY <1>1, <1>2, <1>12, <2>1, <2>2, <2>3, <2>4, <2>5, RejectSteady
<1>13. ASSUME ~Overlap, Apart PROVE SourceInv'
  <2>1. next \in Places \ {"idle", "ended"} /\ pc[s] # "putback"
    BY <1>1 DEF Places, PrefixWanted
  <2>2. UNCHANGED <<saved, lost>> /\ slot'["source"] = slot["source"]
    BY DEF Shape, ServersOK, Servers, PrefixWanted, Holds
  <2>3. QED
    BY <1>1, <1>2, <1>13, <2>1, <2>2, SourceSteady
<1>14. SavedOK'
  BY DEF Shape, SavedOK, PlacesOK, Active, PrefixWanted, Goes, Raises, Leaves
<1>15. QED
  BY <1>3, <1>4, <1>5, <1>6, <1>7, <1>8, <1>9, <1>10, <1>11, <1>12, <1>13, <1>14 DEF Shape, Apart

\* SavePrefix keeps the invariants.
LEMMA SavePrefixKeeps ==
  ASSUME Shape, FileInv, NEW s \in Switches, SavePrefix(s)
  PROVE  Shape' /\ FileInv' /\ (~Overlap /\ Apart => Apart')
<1>1. PICK next \in {"engine", "finally"}, how \in {outcome[s], "failed", "stranded"} :
           pc' = [pc EXCEPT ![s] = next] /\ outcome' = [outcome EXCEPT ![s] = how]
  BY DEF Shape, PlacesOK, SavePrefix, Goes, Raises, Leaves, Strands
<1>2. Active(s)
  BY DEF Active, SavePrefix
<1>3. ServersOK'
  BY DEF Shape, ServersOK, SavePrefix
<1>4. CachesOK'
  BY DEF Shape, CachesOK, ServersOK, Servers, SavePrefix
<1>5. FilesOK'
  BY DEF Shape, FilesOK, Strands, SavePrefix
<1>6. PlacesOK'
  BY DEF Shape, PlacesOK, Places, Outcomes, SavePrefix, Goes, Raises, Leaves, Strands
<1>7. LocalsOK'
  BY DEF Shape, LocalsOK, SavePrefix
<1>8. TemplateOK'
  BY DEF Shape, TemplateOK, PlacesOK, SavePrefix, Goes, Raises, Leaves, Strands
<1>9. FileInv'
  BY DEF Shape, FilesOK, PlacesOK, FileInv, Active, SavePrefix, Goes, Raises, Leaves, Strands
<1>10. ASSUME ~Overlap, Apart PROVE Alone'
  BY <1>10 DEF Shape, PlacesOK, Apart, Alone, Active, SavePrefix, Goes, Raises, Leaves, Strands
<1>11. ASSUME ~Overlap, Apart PROVE CompleteInv'
  BY <1>11
     DEF Shape, PlacesOK, Apart, CompleteInv, TemplateComplete, SavePrefix, Goes, Raises,
         Leaves, Strands
<1>12. ASSUME ~Overlap, Apart PROVE RejectInv'
  <2>1. s \notin Refused
    BY <1>12 DEF Apart, RejectInv, SavePrefix
  <2>2. \E r \in Templates : tmpl' = [tmpl EXCEPT ![s] = r] /\ r.by \in {tmpl[s].by, s}
    BY DEF Shape, LocalsOK, SavePrefix
  <2>3. next \in Places \ {"idle", "ended"} /\ (next \in Early => pc[s] \in Early)
    BY <1>1 DEF Places, Early
  <2>4. how \notin {"rejected", "unreadable"}
    BY <1>1, <2>1 DEF Refused
  <2>5. UNCHANGED bin
    BY DEF SavePrefix
  <2>6. QED
    BY <1>1, <1>2, <1>12, <2>1, <2>2, <2>3, <2>4, <2>5, RejectSteady
<1>13. ASSUME ~Overlap, Apart PROVE SourceInv'
  <2>1. next \in Places \ {"idle", "ended"} /\ pc[s] # "putback"
    BY <1>1 DEF Places, SavePrefix
  <2>2. UNCHANGED <<saved, lost>> /\ slot'["source"] = slot["source"]
    BY DEF SavePrefix
  <2>3. QED
    BY <1>1, <1>2, <1>13, <2>1, <2>2, SourceSteady
<1>14. SavedOK'
  BY DEF Shape, SavedOK, PlacesOK, Active, SavePrefix, Goes, Raises, Leaves, Strands
<1>15. QED
  BY <1>3, <1>4, <1>5, <1>6, <1>7, <1>8, <1>9, <1>10, <1>11, <1>12, <1>13, <1>14 DEF Shape, Apart

\* Engine keeps the invariants.
LEMMA EngineKeeps ==
  ASSUME Shape, FileInv, NEW s \in Switches, Engine(s)
  PROVE  Shape' /\ FileInv' /\ (~Overlap /\ Apart => Apart')
<1>1. PICK next \in {"resume", "finally"}, how \in {outcome[s], "skipped", "failed", "stranded"} :
           pc' = [pc EXCEPT ![s] = next] /\ outcome' = [outcome EXCEPT ![s] = how]
  BY DEF Shape, PlacesOK, Engine, Goes, Leaves, Strands
<1>2. Active(s)
  BY DEF Active, Engine
<1>3. ServersOK'
  BY DEF Shape, ServersOK, Engine
<1>4. CachesOK'
  BY DEF Shape, CachesOK, Engine
<1>5. FilesOK'
  BY DEF Shape, FilesOK, Strands, Engine
<1>6. PlacesOK'
  BY DEF Shape, PlacesOK, Places, Outcomes, Engine, Goes, Leaves, Strands
<1>7. LocalsOK'
  BY DEF Shape, LocalsOK, CachesOK, Engine
<1>8. TemplateOK'
  BY DEF Shape, TemplateOK, PlacesOK, Engine, Goes, Leaves, Strands
<1>9. FileInv'
  BY DEF Shape, FilesOK, PlacesOK, FileInv, Active, Engine, Goes, Leaves, Strands
<1>10. ASSUME ~Overlap, Apart PROVE Alone'
  BY <1>10 DEF Shape, PlacesOK, Apart, Alone, Active, Engine, Goes, Leaves, Strands
<1>11. ASSUME ~Overlap, Apart PROVE CompleteInv'
  BY <1>11 DEF Shape, PlacesOK, Apart, CompleteInv, TemplateComplete, Engine, Goes, Leaves, Strands
<1>12. ASSUME ~Overlap, Apart PROVE RejectInv'
  <2>1. s \notin Refused
    BY <1>12 DEF Apart, RejectInv, Engine
  <2>2. \E r \in Templates : tmpl' = [tmpl EXCEPT ![s] = r] /\ r.by \in {tmpl[s].by, s}
    BY DEF Shape, LocalsOK, Engine
  <2>3. next \in Places \ {"idle", "ended"} /\ (next \in Early => pc[s] \in Early)
    BY <1>1 DEF Places, Early
  <2>4. how \notin {"rejected", "unreadable"}
    BY <1>1, <2>1 DEF Refused
  <2>5. UNCHANGED bin
    BY DEF Engine
  <2>6. QED
    BY <1>1, <1>2, <1>12, <2>1, <2>2, <2>3, <2>4, <2>5, RejectSteady
<1>13. ASSUME ~Overlap, Apart PROVE SourceInv'
  <2>1. next \in Places \ {"idle", "ended"} /\ pc[s] # "putback"
    BY <1>1 DEF Places, Engine
  <2>2. UNCHANGED <<saved, lost>> /\ slot'["source"] = slot["source"]
    BY DEF Engine
  <2>3. QED
    BY <1>1, <1>2, <1>13, <2>1, <2>2, SourceSteady
<1>14. SavedOK'
  BY DEF Shape, SavedOK, PlacesOK, Active, Engine, Goes, Leaves, Strands
<1>15. QED
  BY <1>3, <1>4, <1>5, <1>6, <1>7, <1>8, <1>9, <1>10, <1>11, <1>12, <1>13, <1>14 DEF Shape, Apart

\* WriteResume keeps the invariants.
LEMMA WriteResumeKeeps ==
  ASSUME Shape, FileInv, NEW s \in Switches, WriteResume(s)
  PROVE  Shape' /\ FileInv' /\ (~Overlap /\ Apart => Apart')
<1>1. PICK next \in {"erase", "finally"}, how \in {outcome[s], "failed"} :
           pc' = [pc EXCEPT ![s] = next] /\ outcome' = [outcome EXCEPT ![s] = how]
  BY DEF Shape, PlacesOK, WriteResume, Goes, Leaves
<1>2. Active(s)
  BY DEF Active, WriteResume
<1>3. ServersOK'
  BY DEF Shape, ServersOK, WriteResume
<1>4. CachesOK'
  BY DEF Shape, CachesOK, WriteResume
<1>5. FilesOK'
  BY DEF Shape, FilesOK, WriteResume
<1>6. PlacesOK'
  BY DEF Shape, PlacesOK, Places, Outcomes, WriteResume, Goes, Leaves
<1>7. LocalsOK'
  BY DEF Shape, LocalsOK, WriteResume
<1>8. TemplateOK'
  BY DEF Shape, TemplateOK, PlacesOK, WriteResume, Goes, Leaves
<1>9. FileInv'
  BY DEF Shape, FilesOK, PlacesOK, FileInv, Active, WriteResume, Goes, Leaves
<1>10. ASSUME ~Overlap, Apart PROVE Alone'
  BY <1>10 DEF Shape, PlacesOK, Apart, Alone, Active, WriteResume, Goes, Leaves
<1>11. ASSUME ~Overlap, Apart PROVE CompleteInv'
  BY <1>11 DEF Shape, PlacesOK, Apart, CompleteInv, TemplateComplete, WriteResume, Goes, Leaves
<1>12. ASSUME ~Overlap, Apart PROVE RejectInv'
  <2>1. s \notin Refused
    BY <1>12 DEF Apart, RejectInv, WriteResume
  <2>2. \E r \in Templates : tmpl' = [tmpl EXCEPT ![s] = r] /\ r.by \in {tmpl[s].by, s}
    BY DEF Shape, LocalsOK, WriteResume
  <2>3. next \in Places \ {"idle", "ended"} /\ (next \in Early => pc[s] \in Early)
    BY <1>1 DEF Places, Early
  <2>4. how \notin {"rejected", "unreadable"}
    BY <1>1, <2>1 DEF Refused
  <2>5. UNCHANGED bin
    BY DEF WriteResume
  <2>6. QED
    BY <1>1, <1>2, <1>12, <2>1, <2>2, <2>3, <2>4, <2>5, RejectSteady
<1>13. ASSUME ~Overlap, Apart PROVE SourceInv'
  <2>1. next \in Places \ {"idle", "ended"} /\ pc[s] # "putback"
    BY <1>1 DEF Places, WriteResume
  <2>2. UNCHANGED <<saved, lost>> /\ slot'["source"] = slot["source"]
    BY DEF WriteResume
  <2>3. QED
    BY <1>1, <1>2, <1>13, <2>1, <2>2, SourceSteady
<1>14. SavedOK'
  BY DEF Shape, SavedOK, PlacesOK, Active, WriteResume, Goes, Leaves
<1>15. QED
  BY <1>3, <1>4, <1>5, <1>6, <1>7, <1>8, <1>9, <1>10, <1>11, <1>12, <1>13, <1>14 DEF Shape, Apart

\* EraseTarget keeps the invariants.
LEMMA EraseTargetKeeps ==
  ASSUME Shape, FileInv, NEW s \in Switches, EraseTarget(s)
  PROVE  Shape' /\ FileInv' /\ (~Overlap /\ Apart => Apart')
<1>1. PICK next \in {"restore", "finally"}, how \in {outcome[s], "failed"} :
           pc' = [pc EXCEPT ![s] = next] /\ outcome' = [outcome EXCEPT ![s] = how]
  BY DEF Shape, PlacesOK, EraseTarget, Goes, Raises, Leaves
<1>2. Active(s)
  BY DEF Active, EraseTarget
<1>3. ServersOK'
  BY DEF Shape, ServersOK, Contents, EraseTarget, Holds
<1>4. CachesOK'
  BY DEF Shape, CachesOK, EraseTarget
<1>5. FilesOK'
  BY DEF Shape, FilesOK, EraseTarget
<1>6. PlacesOK'
  BY DEF Shape, PlacesOK, Places, Outcomes, EraseTarget, Goes, Raises, Leaves
<1>7. LocalsOK'
  BY DEF Shape, LocalsOK, EraseTarget
<1>8. TemplateOK'
  BY DEF Shape, TemplateOK, PlacesOK, EraseTarget, Goes, Raises, Leaves
<1>9. FileInv'
  BY DEF Shape, FilesOK, PlacesOK, FileInv, Active, EraseTarget, Goes, Raises, Leaves
<1>10. ASSUME ~Overlap, Apart PROVE Alone'
  BY <1>10 DEF Shape, PlacesOK, Apart, Alone, Active, EraseTarget, Goes, Raises, Leaves
<1>11. ASSUME ~Overlap, Apart PROVE CompleteInv'
  BY <1>11
     DEF Shape, PlacesOK, Apart, CompleteInv, TemplateComplete, EraseTarget, Goes, Raises,
         Leaves
<1>12. ASSUME ~Overlap, Apart PROVE RejectInv'
  <2>1. s \notin Refused
    BY <1>12 DEF Apart, RejectInv, EraseTarget
  <2>2. \E r \in Templates : tmpl' = [tmpl EXCEPT ![s] = r] /\ r.by \in {tmpl[s].by, s}
    BY DEF Shape, LocalsOK, EraseTarget
  <2>3. next \in Places \ {"idle", "ended"} /\ (next \in Early => pc[s] \in Early)
    BY <1>1 DEF Places, Early
  <2>4. how \notin {"rejected", "unreadable"}
    BY <1>1, <2>1 DEF Refused
  <2>5. UNCHANGED bin
    BY DEF EraseTarget
  <2>6. QED
    BY <1>1, <1>2, <1>12, <2>1, <2>2, <2>3, <2>4, <2>5, RejectSteady
<1>13. ASSUME ~Overlap, Apart PROVE SourceInv'
  <2>1. next \in Places \ {"idle", "ended"} /\ pc[s] # "putback"
    BY <1>1 DEF Places, EraseTarget
  <2>2. UNCHANGED <<saved, lost>> /\ slot'["source"] = slot["source"]
    BY DEF Shape, ServersOK, Servers, EraseTarget, Holds
  <2>3. QED
    BY <1>1, <1>2, <1>13, <2>1, <2>2, SourceSteady
<1>14. SavedOK'
  BY DEF Shape, SavedOK, PlacesOK, Active, EraseTarget, Goes, Raises, Leaves
<1>15. QED
  BY <1>3, <1>4, <1>5, <1>6, <1>7, <1>8, <1>9, <1>10, <1>11, <1>12, <1>13, <1>14 DEF Shape, Apart

\* Restore keeps the invariants.
LEMMA RestoreKeeps ==
  ASSUME Shape, FileInv, NEW s \in Switches, Restore(s)
  PROVE  Shape' /\ FileInv' /\ (~Overlap /\ Apart => Apart')
<1>1. PICK next \in {"rejected", "finally"}, how \in {outcome[s], "restored", "failed"} :
           pc' = [pc EXCEPT ![s] = next] /\ outcome' = [outcome EXCEPT ![s] = how]
  BY DEF Shape, PlacesOK, Restore, Goes, Raises, Leaves
<1>2. Active(s)
  BY DEF Active, Restore
<1>3. ServersOK'
  BY DEF Shape, ServersOK, Contents, Restore, Holds
<1>4. CachesOK'
  BY DEF Shape, CachesOK, Restore
<1>5. FilesOK'
  BY DEF Shape, FilesOK, Restore
<1>6. PlacesOK'
  BY DEF Shape, PlacesOK, Places, Outcomes, Restore, Goes, Raises, Leaves
<1>7. LocalsOK'
  BY DEF Shape, LocalsOK, Restore
<1>8. TemplateOK'
  BY DEF Shape, TemplateOK, PlacesOK, Restore, Goes, Raises, Leaves
<1>9. FileInv'
  BY DEF Shape, FilesOK, PlacesOK, FileInv, Active, Restore, Goes, Raises, Leaves
<1>10. ASSUME ~Overlap, Apart PROVE Alone'
  BY <1>10 DEF Shape, PlacesOK, Apart, Alone, Active, Restore, Goes, Raises, Leaves
<1>11. ASSUME ~Overlap, Apart PROVE CompleteInv'
  BY <1>11 DEF Shape, PlacesOK, Apart, CompleteInv, TemplateComplete, Restore, Goes, Raises, Leaves
<1>12. ASSUME ~Overlap, Apart PROVE RejectInv'
  <2>1. s \notin Refused
    BY <1>12 DEF Apart, RejectInv, Restore
  <2>2. \E r \in Templates : tmpl' = [tmpl EXCEPT ![s] = r] /\ r.by \in {tmpl[s].by, s}
    BY DEF Shape, LocalsOK, Restore
  <2>3. next \in Places \ {"idle", "ended"} /\ (next \in Early => pc[s] \in Early)
    BY <1>1 DEF Places, Early
  <2>4. how \notin {"rejected", "unreadable"}
    BY <1>1, <2>1 DEF Refused
  <2>5. UNCHANGED bin
    BY DEF Restore
  <2>6. QED
    BY <1>1, <1>2, <1>12, <2>1, <2>2, <2>3, <2>4, <2>5, RejectSteady
<1>13. ASSUME ~Overlap, Apart PROVE SourceInv'
  <2>1. next \in Places \ {"idle", "ended"} /\ pc[s] # "putback"
    BY <1>1 DEF Places, Restore
  <2>2. UNCHANGED <<saved, lost>> /\ slot'["source"] = slot["source"]
    BY DEF Shape, ServersOK, Servers, Restore, Holds
  <2>3. QED
    BY <1>1, <1>2, <1>13, <2>1, <2>2, SourceSteady
<1>14. SavedOK'
  BY DEF Shape, SavedOK, PlacesOK, Active, Restore, Goes, Raises, Leaves
<1>15. QED
  BY <1>3, <1>4, <1>5, <1>6, <1>7, <1>8, <1>9, <1>10, <1>11, <1>12, <1>13, <1>14 DEF Shape, Apart

\* Rejected keeps the invariants.
LEMMA RejectedKeepsInv ==
  ASSUME Shape, FileInv, NEW s \in Switches, Rejected(s)
  PROVE  Shape' /\ FileInv' /\ (~Overlap /\ Apart => Apart')
<1>1. PICK next \in {"dropbin", "finally"}, how \in {outcome[s], "rejected", "failed"} :
           pc' = [pc EXCEPT ![s] = next] /\ outcome' = [outcome EXCEPT ![s] = how]
  BY DEF Rejected, Goes, Raises, Leaves
<1>2. Active(s)
  BY DEF Active, Rejected
<1>3. ServersOK'
  BY DEF Shape, ServersOK, Contents, Rejected, Holds
<1>4. CachesOK'
  BY DEF Shape, CachesOK, Rejected
<1>5. FilesOK'
  BY DEF Shape, FilesOK, Rejected
<1>6. PlacesOK'
  BY DEF Shape, PlacesOK, Places, Outcomes, Rejected, Goes, Raises, Leaves
<1>7. LocalsOK'
  BY DEF Shape, LocalsOK, Rejected
<1>8. TemplateOK'
  BY DEF Shape, TemplateOK, PlacesOK, Rejected, Goes, Raises, Leaves
<1>9. FileInv'
  BY DEF Shape, FilesOK, PlacesOK, FileInv, Active, Rejected, Goes, Raises, Leaves
<1>10. ASSUME ~Overlap, Apart PROVE Alone'
  BY <1>10 DEF Shape, PlacesOK, Apart, Alone, Active, Rejected, Goes, Raises, Leaves
<1>11. ASSUME ~Overlap, Apart PROVE CompleteInv'
  BY <1>11 DEF Shape, PlacesOK, Apart, CompleteInv, TemplateComplete, Rejected, Goes, Raises, Leaves
<1>12. ASSUME ~Overlap, Apart PROVE RejectInv'
  <2>1. s \notin Refused
    BY <1>12 DEF Apart, RejectInv, Rejected
  <2>2. UNCHANGED <<tmpl, bin>>
    BY DEF Rejected
  <2>3. CASE how \in {"rejected", "unreadable"}
    <3>1. next = "dropbin" /\ pc[s] \notin Early /\ tmpl[s].by \in Switches
      BY <1>1, <2>1, <2>3 DEF Shape, PlacesOK, TemplateOK, Early, Rejected, Goes, Raises, Leaves
    <3>2. QED
      BY <1>1, <1>2, <1>12, <2>1, <2>2, <2>3, <3>1, RejectRefuses
  <2>4. CASE how \notin {"rejected", "unreadable"}
    <3>1. \E r \in Templates : tmpl' = [tmpl EXCEPT ![s] = r] /\ r.by \in {tmpl[s].by, s}
      BY <2>2 DEF Shape, LocalsOK
    <3>2. next \in Places \ {"idle", "ended"} /\ (next \in Early => pc[s] \in Early)
      BY <1>1 DEF Places, Early
    <3>3. QED
      BY <1>1, <1>2, <1>12, <2>1, <2>2, <2>4, <3>1, <3>2, RejectSteady
  <2>5. QED
    BY <2>3, <2>4
<1>13. ASSUME ~Overlap, Apart PROVE SourceInv'
  <2>1. next \in Places \ {"idle", "ended"} /\ pc[s] # "putback"
    BY <1>1 DEF Places, Rejected
  <2>2. UNCHANGED <<saved, lost>> /\ slot'["source"] = slot["source"]
    BY DEF Shape, ServersOK, Servers, Rejected, Holds
  <2>3. QED
    BY <1>1, <1>2, <1>13, <2>1, <2>2, SourceSteady
<1>14. SavedOK'
  BY DEF Shape, SavedOK, PlacesOK, Active, Rejected, Goes, Raises, Leaves
<1>15. QED
  BY <1>3, <1>4, <1>5, <1>6, <1>7, <1>8, <1>9, <1>10, <1>11, <1>12, <1>13, <1>14 DEF Shape, Apart

\* Finally keeps the invariants.
LEMMA FinallyKeeps ==
  ASSUME Shape, FileInv, NEW s \in Switches, Finally(s)
  PROVE  Shape' /\ FileInv' /\ (~Overlap /\ Apart => Apart')
<1>1. ServersOK'
  BY DEF Shape, ServersOK, Finally
<1>2. CachesOK'
  BY DEF Shape, CachesOK, Finally
<1>3. FilesOK'
  BY DEF Shape, FilesOK, Finally
<1>4. PlacesOK'
  BY DEF Shape, PlacesOK, Places, Finally, Goes, Ends
<1>5. LocalsOK'
  BY DEF Shape, LocalsOK, Templates, NoTemplate, Finally, Ends
<1>6. TemplateOK'
  BY DEF Shape, TemplateOK, Finally, Goes, Ends
<1>7. FileInv'
  BY DEF Shape, FilesOK, FileInv, Active, Finally, Goes, Ends
<1>8. ASSUME ~Overlap, Apart PROVE Alone'
  BY <1>8 DEF Apart, Alone, Active, Finally, Goes, Ends
<1>9. ASSUME ~Overlap, Apart PROVE CompleteInv'
  BY <1>9 DEF Apart, CompleteInv, TemplateComplete, Finally, Goes, Ends
<1>10. ASSUME ~Overlap, Apart PROVE RejectInv'
  BY <1>10, Distinct DEF Apart, Active, RejectInv, Refused, Early, NoTemplate, Finally, Goes, Ends
<1>11. ASSUME ~Overlap, Apart PROVE SourceInv'
  BY <1>11 DEF Shape, PlacesOK, Apart, Active, SourceInv, Spoiled, Finally, Goes, Ends
<1>12. SavedOK'
  BY DEF Shape, SavedOK, LocalsOK, Active, Finally, Goes, Ends
<1>13. QED
  BY <1>1, <1>2, <1>3, <1>4, <1>5, <1>6, <1>7, <1>8, <1>9, <1>10, <1>11, <1>12 DEF Shape, Apart

\* Crash keeps the invariants.
LEMMA CrashKeeps ==
  ASSUME Shape, FileInv, NEW s \in Switches, Crash(s)
  PROVE  Shape' /\ FileInv' /\ (~Overlap /\ Apart => Apart')
<1>1. ServersOK'
  BY DEF Shape, ServersOK, Crash
<1>2. CachesOK'
  BY DEF Shape, CachesOK, Crash
<1>3. FilesOK'
  BY DEF Shape, FilesOK, Crash
<1>4. PlacesOK'
  BY DEF Shape, PlacesOK, Places, Outcomes, Crash, Goes, Ends
<1>5. LocalsOK'
  BY DEF Shape, LocalsOK, Templates, NoTemplate, Crash, Ends
<1>6. TemplateOK'
  BY DEF Shape, TemplateOK, PlacesOK, Crash, Goes, Ends
<1>7. FileInv'
  BY DEF Shape, PlacesOK, FileInv, Active, Crash, Goes, Ends, Active
<1>8. ASSUME ~Overlap, Apart PROVE Alone'
  BY <1>8 DEF Apart, Alone, Active, Crash, Goes, Ends, Active
<1>9. ASSUME ~Overlap, Apart PROVE CompleteInv'
  BY <1>9 DEF Apart, CompleteInv, TemplateComplete, Crash, Goes, Ends
<1>10. ASSUME ~Overlap, Apart PROVE RejectInv'
  BY <1>10 DEF Shape, PlacesOK, Apart, Active, RejectInv, Refused, Early, Crash, Goes, Ends, Active
<1>11. ASSUME ~Overlap, Apart PROVE SourceInv'
  BY <1>11 DEF Shape, PlacesOK, SourceInv, Spoiled, Crash, Ends
<1>12. SavedOK'
  BY DEF Shape, SavedOK, PlacesOK, LocalsOK, Active, Crash, Goes, Ends, Active
<1>13. QED
  BY <1>1, <1>2, <1>3, <1>4, <1>5, <1>6, <1>7, <1>8, <1>9, <1>10, <1>11, <1>12 DEF Shape, Apart

\* Restart keeps the invariants.
LEMMA RestartKeeps ==
  ASSUME Shape, FileInv, Restart
  PROVE  Shape' /\ FileInv' /\ (~Overlap /\ Apart => Apart')
<1>1. ServersOK'
  BY SwitchAssumption DEF Shape, ServersOK, Servers, Contents, Layouts, Restart, Holds
<1>2. CachesOK'
  BY DEF Shape, CachesOK, Restart
<1>3. FilesOK'
  BY DEF Shape, FilesOK, Restart
<1>4. PlacesOK'
  BY DEF Shape, PlacesOK, Restart
<1>5. LocalsOK'
  BY DEF Shape, LocalsOK, Restart
<1>6. TemplateOK'
  BY DEF Shape, TemplateOK, Restart
<1>7. FileInv'
  BY DEF FileInv, Active, Restart
<1>8. ASSUME ~Overlap, Apart PROVE Alone'
  BY <1>8 DEF Apart, Alone, Active, Restart
<1>9. ASSUME ~Overlap, Apart PROVE CompleteInv'
  BY <1>9 DEF Apart, CompleteInv, TemplateComplete, Restart
<1>10. ASSUME ~Overlap, Apart PROVE RejectInv'
  BY <1>10 DEF Apart, Active, RejectInv, Refused, Restart
<1>11. ASSUME ~Overlap, Apart PROVE SourceInv'
  BY <1>11 DEF Apart, Active, SourceInv, Spoiled, Restart, Holds
<1>12. SavedOK'
  BY DEF Shape, SavedOK, Active, Restart
<1>13. QED
  BY <1>1, <1>2, <1>3, <1>4, <1>5, <1>6, <1>7, <1>8, <1>9, <1>10, <1>11, <1>12 DEF Shape, Apart

\* OtherRequest keeps the invariants.
LEMMA OtherRequestKeeps ==
  ASSUME Shape, FileInv, OtherRequest
  PROVE  Shape' /\ FileInv' /\ (~Overlap /\ Apart => Apart')
<1>1. ServersOK'
  BY DEF Shape, ServersOK, Servers, Contents, OtherRequest, Holds
<1>2. CachesOK'
  BY DEF Shape, CachesOK, OtherRequest
<1>3. FilesOK'
  BY DEF Shape, FilesOK, OtherRequest
<1>4. PlacesOK'
  BY DEF Shape, PlacesOK, OtherRequest
<1>5. LocalsOK'
  BY DEF Shape, LocalsOK, OtherRequest
<1>6. TemplateOK'
  BY DEF Shape, TemplateOK, OtherRequest
<1>7. FileInv'
  BY DEF FileInv, Active, OtherRequest
<1>8. ASSUME ~Overlap, Apart PROVE Alone'
  BY <1>8 DEF Apart, Alone, Active, OtherRequest
<1>9. ASSUME ~Overlap, Apart PROVE CompleteInv'
  BY <1>9 DEF Apart, CompleteInv, TemplateComplete, OtherRequest
<1>10. ASSUME ~Overlap, Apart PROVE RejectInv'
  BY <1>10 DEF Apart, Active, RejectInv, Refused, OtherRequest
<1>11. ASSUME ~Overlap, Apart PROVE SourceInv'
  BY <1>11 DEF Apart, Active, SourceInv, Spoiled, OtherRequest, Holds
<1>12. SavedOK'
  BY DEF Shape, SavedOK, Active, OtherRequest
<1>13. QED
  BY <1>1, <1>2, <1>3, <1>4, <1>5, <1>6, <1>7, <1>8, <1>9, <1>10, <1>11, <1>12 DEF Shape, Apart

\* Every step keeps the invariants.
LEMMA NextKeeps ==
  ASSUME Shape, FileInv, [Next]_vars
  PROVE  Shape' /\ FileInv' /\ (~Overlap /\ Apart => Apart')
<1>1. CASE UNCHANGED vars
  <2>1. Shape'
    BY <1>1
       DEF vars, Shape, ServersOK, CachesOK, FilesOK, PlacesOK, LocalsOK, TemplateOK,
           SavedOK, Active
  <2>2. FileInv'
    BY <1>1 DEF vars, FileInv, Active
  <2>3. Alone' = Alone /\ CompleteInv' = CompleteInv /\ SourceInv' = SourceInv
    BY <1>1 DEF vars, Alone, CompleteInv, TemplateComplete, SourceInv, Spoiled, Active
  <2>4. RejectInv => RejectInv'
    <3>1. Refused' = Refused
      BY <1>1 DEF vars, Refused
    <3>2. QED
      BY <1>1, <3>1 DEF vars, RejectInv, Active
  <2>5. QED
    BY <2>1, <2>2, <2>3, <2>4 DEF Apart
<1>2. CASE \E s \in Switches : Crash(s)
  BY <1>2, CrashKeeps
<1>3. CASE Restart \/ OtherRequest
  BY <1>3, RestartKeeps, OtherRequestKeeps
<1>4. CASE \E s \in Switches : Step(s)
  BY <1>4, BeginKeeps, SaveSourceKeeps, SideRequestKeeps, PutBackKeeps, PlanKeeps, TemplateKeeps,
     SaveTemplateKeeps, PublishResumeKeeps, PublishTemplateKeeps, EraseAfterTemplateKeeps,
     DraftKeeps, DropBinKeeps, DropResumeKeeps, PrefixWantedKeeps, SavePrefixKeeps, EngineKeeps,
     WriteResumeKeeps, EraseTargetKeeps, RestoreKeeps, RejectedKeepsInv, FinallyKeeps
     DEF Step
<1>5. QED
  BY <1>1, <1>2, <1>3, <1>4 DEF Next

\* The invariant of the theorems below, whether switches overlap or not.
THEOREM Invariance == Spec => [](Shape /\ FileInv)
<1>1. Shape /\ FileInv /\ [Next]_vars => (Shape /\ FileInv)'
  BY NextKeeps
<1>2. QED
  BY InitHolds, <1>1, PTL DEF Spec

\* Every reachable state has the shape TypeOK states.
THEOREM TypeCorrect == Spec => []TypeOK
<1>1. Shape /\ FileInv => TypeOK
  BY DEF Shape, ServersOK, CachesOK, FilesOK, PlacesOK, LocalsOK, Outcomes, TypeOK
<1>2. QED
  BY Invariance, <1>1, PTL

\* The source's save and the translated output do not outlive the switch() that made
\* them, unless it was killed; nor does another slot file, unless the step that wrote or
\* moved it failed.  Whether switches overlap or not.
THEOREM Tidiness == Spec => []FilesTidy
<1>1. Shape /\ FileInv => FilesTidy
  BY DEF FileInv, FilesTidy, Active
<1>2. QED
  BY Invariance, <1>1, PTL

\* The invariant of the three theorems below.
THEOREM Separation == ASSUME ~Overlap PROVE Spec => []Apart
<1>1. Shape /\ FileInv /\ Apart /\ [Next]_vars => Apart'
  BY NextKeeps
<1>2. QED
  BY InitHolds, Invariance, <1>1, PTL DEF Spec

\* layout_template()'s cache: a patched server's slot file has its .resume.
THEOREM CompleteTemplates == ASSUME ~Overlap PROVE Spec => []TemplateComplete
<1>1. Apart => TemplateComplete
  BY DEF Apart, CompleteInv
<1>2. QED
  BY Separation, <1>1, PTL

\* hold_source() and save_source(): what is translated is the conversation, and it is put back.
THEOREM SourceReturned == ASSUME ~Overlap PROVE Spec => []SourceKept
<1>1. Shape /\ Apart => SourceKept
  BY DEF Shape, SavedOK, Apart, SourceInv, Spoiled, SourceKept
<1>2. QED
  BY Invariance, Separation, <1>1, PTL

\* _drop_template(): a template that failed one switch fails no other.
THEOREM OneRejection == ASSUME ~Overlap PROVE Spec => []RejectedOnce
<1>1. Apart => RejectedOnce
  BY DEF Apart, RejectInv, Refused, RejectedOnce
<1>2. QED
  BY Separation, <1>1, PTL
=============================================================================
