------------------------ MODULE SnapshotStoreProofs ------------------------
(***************************************************************************)
(* For any number of keys, generations and power losses: what a restart    *)
(* finds is complete, memory lists only what it would find, what save()    *)
(* has acknowledged is not lost, and the files implement Snapshots.  Two   *)
(* faults are excluded, a .meta that cannot be read again after an error   *)
(* and a .meta that alone cannot be unlinked; with either the invariant    *)
(* fails.                                                                  *)
(*                                                                         *)
(* Memory and directory agree on every key but the one that the call at    *)
(* work publishes or removes (Agree), so what a call unlinks belongs to no *)
(* published snapshot (TodoInv).  What the backend may still write, after  *)
(* its save was given up, is of a generation with a part missing: none     *)
(* that was published (FileInv).  A generation is published under one key, *)
(* in each of the directories that a power loss may leave (NumberInv).     *)
(***************************************************************************)
EXTENDS SnapshotStore, FiniteSetTheorems, TLAPS

-----------------------------------------------------------------------------
(* The invariant *)

\* The key whose .meta is about to be unlinked.
Removing(k) == pc = "unlink" /\ todo # <<>> /\ Head(todo) = k

\* save() has published gen and has yet to return.
AfterPublishing == (pc = "evict" \/ (pc = "unlink" /\ then = "evict")) /\ op = "save"

\* save() has not yet published gen.
Saving == op = "save" /\ pc \in {"wait", "sync", "meta", "dirsync", "reread"}

\* What the owner's place says of its call: a save works on the newest generation, which no
\* key has yet, and a touch on a key that memory lists.
CallInv ==
  /\ pc \in {"wait", "sync", "reread"} => op = "save"
  /\ pc \in {"meta", "dirsync"} => op \in {"save", "touch"}
  /\ op = "touch" => pc \in {"meta", "dirsync"} /\ key \in Keys /\ entries[key] # None
  /\ pc # "unlink" => todo = <<>>
  /\ Saving => key \in Keys /\ gen = made /\ gen # None /\ \A k \in Keys : entries[k] # gen
  /\ pc = "dirsync" /\ op = "save" => metas[key] = gen
  /\ AfterPublishing => key \in Keys /\ gen # None /\ entries[key] = gen

\* A .meta says what memory says, except of the key being published or removed.
Agree ==
  \A k \in Keys :
    \/ metas[k] = entries[k]
    \/ k = key /\ op = "save" /\ pc \in {"dirsync", "reread"} /\ metas[k] = gen
    \/ Removing(k) /\ entries[k] = None

\* What is to be unlinked: the .meta of a key that is withdrawn, and files of no listed
\* generation.
TodoInv ==
  \A i \in DOMAIN todo :
    /\ todo[i] \in Keys => i = 1 /\ entries[todo[i]] = None /\ acked[todo[i]] = None
    /\ todo[i] \in Files => \A k \in Keys : entries[k] # todo[i][1]

\* A save publishes what is whole and synced.  A job that goes on after its save was given
\* up has yet to write a part, and FilesSynced asks for both.
FileInv ==
  /\ pc = "sync" => job = None /\ FilesOf(gen) \cap files \subseteq whole
  /\ pc = "meta" /\ op = "save" => FilesOf(gen) \subseteq files \cap whole \cap durable
  /\ job # None =>
       /\ job.gen <= made
       /\ job.part = "resume" => <<job.gen, "bin">> \in whole
       /\ job.part = "bin" => <<job.gen, "resume">> \notin files

\* No generation stands under two keys.
OneEach(m) == \A j, k \in Keys : m[j] = m[k] /\ m[j] # None => j = k

\* Generations are numbered as they are made, in memory and in every directory.
NumberInv ==
  /\ OneEach(entries)
  /\ \A k \in Keys : entries[k] # None => entries[k] <= made
  /\ \A k \in Keys : acked[k] # None => acked[k] <= made
  /\ \A d \in survivors :
       /\ OneEach(d.metas)
       /\ \A k \in Keys : d.metas[k] # None => d.metas[k] <= made
       /\ \A f \in d.files : f[1] <= made

\* From its directory's sync to its return, a save is in every directory.
PromiseInv == AfterPublishing => \A d \in survivors : d.metas[key] = gen

\* All of it, with the two properties that lean on one another.
Inv ==
  /\ CallInv
  /\ Agree
  /\ TodoInv
  /\ FileInv
  /\ NumberInv
  /\ PromiseInv
  /\ PublishedComplete
  /\ AckedSurvives

-----------------------------------------------------------------------------
(* The shape of the state, in parts *)

\* The shape of the directory ...
DirectoryOK == Directory \in survivors /\ survivors \subseteq Directories

\* ... of the backend's save and its files ...
BackendOK == whole \subseteq Files /\ durable \subseteq Files /\ job \in Jobs \cup {None}

\* ... of the owner's call ...
CallOK ==
  /\ pc \in {"idle", "wait", "sync", "meta", "dirsync", "reread", "unlink", "evict"}
  /\ op \in {"save", "touch", "gc", "settings"}
  /\ key \in Keys \cup {None}
  /\ gen \in Generations \cup {None}
  /\ then \in {"idle", "evict"}

\* ... of its list of unlinks ...
TodoOK == todo \in Seq(Keys \cup Files)

\* ... and of what is counted.
NumbersOK ==
  /\ entries \in [Keys -> Generations \cup {None}]
  /\ made \in 0..MaxGenerations
  /\ acked \in [Keys -> Generations \cup {None}]
  /\ outages \in 0..MaxOutages

\* TypeOK and its parts say the same, of a state ...
LEMMA Parts == TypeOK <=> DirectoryOK /\ BackendOK /\ CallOK /\ TodoOK /\ NumbersOK
BY DEF TypeOK, DirectoryOK, BackendOK, CallOK, TodoOK, NumbersOK

\* ... and of the one after a step.
LEMMA PartsAfter == TypeOK' <=> DirectoryOK' /\ BackendOK' /\ CallOK' /\ TodoOK' /\ NumbersOK'
BY DEF TypeOK, DirectoryOK, BackendOK, CallOK, TodoOK, NumbersOK

USE DEF directory, backend, owner

-----------------------------------------------------------------------------
(* Lemmas on lists and directories *)

\* A sequence over a set is one over a larger set.
LEMMA Wider ==
  ASSUME NEW S, NEW T, S \subseteq T, NEW q \in Seq(S)
  PROVE  q \in Seq(T) /\ \A i \in DOMAIN q : q[i] \in S
OBVIOUS

\* SetToSeq lists files.
LEMMA Listing ==
  ASSUME NEW S \in SUBSET Files
  PROVE  SetToSeq(S) \in Seq(S)
<1>1. IsFiniteSet(Generations) /\ IsFiniteSet({"bin", "resume"})
  <2>1. IsFiniteSet(Generations)
    BY FS_Interval, StoreAssumption DEF Generations
  <2>2. /\ IsFiniteSet({}) /\ IsFiniteSet({} \cup {"bin"})
        /\ IsFiniteSet(({} \cup {"bin"}) \cup {"resume"})
    BY FS_EmptySet, FS_AddElement
  <2>3. ({} \cup {"bin"}) \cup {"resume"} = {"bin", "resume"}
    OBVIOUS
  <2>4. QED
    BY <2>1, <2>2, <2>3
<1>2. IsFiniteSet(S)
  BY <1>1, FS_Product, FS_Subset DEF Files
<1>3. Cardinality(S) \in Nat /\ \E f \in [1..Cardinality(S) -> S] : IsInjective(f)
  BY <1>2, FS_CardinalityType DEF ExistsBijection, Bijection, Injection
<1>4. SetToSeq(S) \in [1..Cardinality(S) -> S]
  BY <1>3 DEF SetToSeq
<1>5. QED
  BY <1>3, <1>4

\* The directory after an operation on it.
LEMMA DirectoryBecomes ==
  ASSUME TypeOK, NEW m \in [Keys -> Generations \cup {None}], NEW f \in SUBSET Files, Becomes(m, f)
  PROVE  /\ Directory' \in survivors' /\ survivors' \subseteq Directories
         /\ metas' = m /\ files' = f
         /\ \A d \in survivors' : d \in survivors \/ d = [metas |-> m, files |-> f]
BY DEF TypeOK, Becomes, Directory, Directories

\* What a directory has.
LEMMA DirectoryTyped ==
  ASSUME TypeOK
  PROVE  metas \in [Keys -> Generations \cup {None}] /\ files \in SUBSET Files
BY DEF TypeOK, Directory, Directories

\* What is unlinked of a generation is its files.
LEMMA Order ==
  ASSUME NEW g \in Generations \cup {None}
  PROVE  /\ UnlinkOrder(g) \in Seq(Files)
         /\ \A i \in DOMAIN UnlinkOrder(g) :
              g # None /\ UnlinkOrder(g)[i] \in Files /\ UnlinkOrder(g)[i][1] = g
         /\ g # None => FilesOf(g) \subseteq Files
<1>1. g # None => <<g, "bin">> \in Files /\ <<g, "resume">> \in Files
  BY DEF Files
<1>2. CASE g = None
  BY <1>2 DEF UnlinkOrder
<1>3. CASE g # None
  BY <1>1, <1>3 DEF UnlinkOrder, FilesOf
<1>4. QED
  BY <1>2, <1>3

\* A removal unlinks the .meta, then the files.
LEMMA KeyFirst ==
  ASSUME NEW k \in Keys, NEW q \in Seq(Files)
  PROVE  /\ <<k>> \o q \in Seq(Keys \cup Files)
         /\ \A i \in DOMAIN (<<k>> \o q) :
              (i = 1 /\ (<<k>> \o q)[i] = k) \/ (\E j \in DOMAIN q : (<<k>> \o q)[i] = q[j])
<1>1. q \in Seq(Keys \cup Files) /\ <<k>> \in Seq(Keys \cup Files)
  BY Wider
<1>2. Len(<<k>> \o q) = 1 + Len(q) /\ (<<k>> \o q)[1] = k
  BY <1>1
<1>3. \A i \in DOMAIN (<<k>> \o q) : i # 1 => i - 1 \in DOMAIN q /\ (<<k>> \o q)[i] = q[i - 1]
  BY <1>1, <1>2
<1>4. QED
  BY <1>1, <1>2, <1>3

\* A file is not a key.
LEMMA Disjoint == \A x : x \in Files => x \notin Keys
BY StoreAssumption

\* A step that leaves the directory alone leaves it well shaped.
LEMMA SameDirectory ==
  ASSUME DirectoryOK, UNCHANGED <<metas, files, survivors>>
  PROVE  DirectoryOK'
BY DEF DirectoryOK, Directory

-----------------------------------------------------------------------------
(* One lemma for each action *)

\* An empty archive satisfies the invariant.
LEMMA InitHolds == Init => TypeOK /\ Inv
<1>1. ASSUME Init PROVE TypeOK
  BY <1>1, StoreAssumption DEF Init, TypeOK, Directory, Directories, NoKeys
<1>2. ASSUME Init PROVE Inv
  BY <1>2
     DEF Init, Inv, CallInv, Agree, TodoInv, FileInv, NumberInv, OneEach, PromiseInv,
         PublishedComplete, AckedSurvives, AfterPublishing, Saving, NoKeys, Directory
<1>3. QED
  BY <1>1, <1>2

\* A step that touches neither files nor entries leaves alone what is said of them.
LEMMA Untouched ==
  ASSUME NumberInv, PublishedComplete, AckedSurvives,
         UNCHANGED <<metas, files, survivors, whole, durable, entries, made, acked>>
  PROVE  NumberInv' /\ PublishedComplete' /\ AckedSurvives'
BY DEF NumberInv, PublishedComplete, AckedSurvives

\* BackendOpens keeps the invariant.
LEMMA BackendOpensKeeps ==
  ASSUME TypeOK, Inv, "reread" \notin Faults, "unlink-meta" \notin Faults,
         BackendOpens
  PROVE  TypeOK' /\ Inv'
<1>1. DirectoryOK /\ BackendOK /\ CallOK /\ TodoOK /\ NumbersOK
  BY Parts
<1>2. DirectoryOK'
  <2>1. files \cup {<<job.gen, job.part>>} \in SUBSET Files
    BY <1>1, DirectoryTyped DEF BackendOK, Jobs, Files, BackendOpens
  <2>2. QED
    BY <2>1, DirectoryTyped, DirectoryBecomes DEF DirectoryOK, BackendOpens
<1>3. BackendOK'
  BY <1>1, StoreAssumption
     DEF BackendOK, Jobs, Files, FilesOf, Generations, CallOK, NumbersOK, Inv, CallInv, Saving,
         BackendOpens
<1>4. CallOK'
  BY <1>1 DEF CallOK, BackendOpens
<1>5. TodoOK'
  BY <1>1 DEF TodoOK, BackendOpens
<1>6. NumbersOK'
  BY <1>1 DEF NumbersOK, BackendOpens
<1>7. TypeOK'
  BY <1>2, <1>3, <1>4, <1>5, <1>6, PartsAfter
<1>8. CallInv'
  BY DEF BackendOpens, Becomes, Inv, CallInv, AfterPublishing, Saving
<1>9. Agree'
  BY DEF BackendOpens, Becomes, Inv, Agree, Removing
<1>10. TodoInv'
  BY DEF BackendOpens, Inv, TodoInv
<1>11. FileInv'
  BY DEF BackendOpens, Becomes, Inv, FileInv
<1>12. NumberInv'
  BY DEF TypeOK, BackendOpens, Directory, Becomes, Inv, FileInv, NumberInv
<1>13. PromiseInv'
  BY DEF BackendOpens, Becomes, Inv, CallInv, Agree, PromiseInv, AfterPublishing
<1>14. PublishedComplete'
  BY DEF TypeOK, BackendOpens, Directory, Becomes, Inv, PublishedComplete
<1>15. AckedSurvives'
  BY DEF TypeOK, BackendOpens, Directory, Becomes, Inv, AckedSurvives
<1>16. QED
  BY <1>7, <1>8, <1>9, <1>10, <1>11, <1>12, <1>13, <1>14, <1>15 DEF Inv

\* BackendContinues keeps the invariant.
LEMMA BackendContinuesKeeps ==
  ASSUME TypeOK, Inv, "reread" \notin Faults, "unlink-meta" \notin Faults,
         BackendContinues
  PROVE  TypeOK' /\ Inv'
<1>1. DirectoryOK /\ BackendOK /\ CallOK /\ TodoOK /\ NumbersOK
  BY Parts
<1>2. DirectoryOK'
  BY <1>1, SameDirectory DEF BackendContinues
<1>3. BackendOK'
  <2>1. /\ job.gen \in Generations /\ job' = [gen |-> job.gen, part |-> "resume", open |-> FALSE]
        /\ <<job.gen, "bin">> \in Files
    BY <1>1 DEF BackendOK, Jobs, Files, BackendContinues
  <2>2. QED
    BY <1>1, <2>1 DEF BackendOK, Jobs, BackendContinues
<1>4. CallOK'
  BY <1>1 DEF CallOK, BackendContinues
<1>5. TodoOK'
  BY <1>1 DEF TodoOK, BackendContinues
<1>6. NumbersOK'
  BY <1>1 DEF NumbersOK, BackendContinues
<1>7. TypeOK'
  BY <1>2, <1>3, <1>4, <1>5, <1>6, PartsAfter
<1>8. CallInv'
  BY DEF BackendContinues, Inv, CallInv, AfterPublishing, Saving
<1>9. Agree'
  BY DEF BackendContinues, Inv, Agree, Removing
<1>10. TodoInv'
  BY DEF BackendContinues, Inv, TodoInv
<1>11. FileInv'
  BY DEF BackendContinues, Inv, FileInv
<1>12. NumberInv'
  BY DEF BackendContinues, Inv, NumberInv
<1>13. PromiseInv'
  BY DEF BackendContinues, Inv, PromiseInv, AfterPublishing
<1>14. PublishedComplete'
  BY DEF BackendContinues, Inv, PublishedComplete
<1>15. AckedSurvives'
  BY DEF BackendContinues, Inv, AckedSurvives
<1>16. QED
  BY <1>7, <1>8, <1>9, <1>10, <1>11, <1>12, <1>13, <1>14, <1>15 DEF Inv

\* BackendFinishes keeps the invariant.
LEMMA BackendFinishesKeeps ==
  ASSUME TypeOK, Inv, "reread" \notin Faults, "unlink-meta" \notin Faults,
         BackendFinishes
  PROVE  TypeOK' /\ Inv'
<1>1. DirectoryOK /\ BackendOK /\ CallOK /\ TodoOK /\ NumbersOK
  BY Parts
<1>2. DirectoryOK'
  BY <1>1, SameDirectory DEF BackendFinishes, Answered
<1>3. BackendOK'
  BY <1>1 DEF BackendOK, Jobs, Files, BackendFinishes, Answered
<1>4. CallOK'
  BY <1>1 DEF CallOK, BackendFinishes, Answered
<1>5. TodoOK'
  BY <1>1 DEF TodoOK, BackendFinishes, Answered
<1>6. NumbersOK'
  BY <1>1 DEF NumbersOK, BackendFinishes, Answered
<1>7. TypeOK'
  BY <1>2, <1>3, <1>4, <1>5, <1>6, PartsAfter
<1>8. CallInv'
  BY DEF BackendFinishes, Answered, Inv, CallInv, AfterPublishing, Saving
<1>9. Agree'
  BY DEF BackendFinishes, Answered, Inv, Agree, Removing
<1>10. TodoInv'
  BY DEF BackendFinishes, Answered, Inv, TodoInv
<1>11. FileInv'
  <2>1. CASE pc = "wait" /\ gen = job.gen
    <3>1. FilesOf(gen) \cap files \subseteq whole'
      BY <2>1 DEF BackendFinishes, FilesOf, TypeOK, Jobs, Inv, FileInv
    <3>2. QED
      BY <2>1, <3>1 DEF BackendFinishes, Answered, FileInv
  <2>2. CASE ~(pc = "wait" /\ gen = job.gen)
    BY <2>2 DEF BackendFinishes, Answered, Inv, FileInv
  <2>3. QED
    BY <2>1, <2>2
<1>12. NumberInv'
  BY DEF BackendFinishes, Answered, Inv, NumberInv
<1>13. PromiseInv'
  BY DEF BackendFinishes, Answered, Inv, PromiseInv, AfterPublishing
<1>14. PublishedComplete'
  BY DEF BackendFinishes, Answered, Inv, PublishedComplete
<1>15. AckedSurvives'
  BY DEF BackendFinishes, Answered, Inv, AckedSurvives
<1>16. QED
  BY <1>7, <1>8, <1>9, <1>10, <1>11, <1>12, <1>13, <1>14, <1>15 DEF Inv

\* BackendFails keeps the invariant.
LEMMA BackendFailsKeeps ==
  ASSUME TypeOK, Inv, "reread" \notin Faults, "unlink-meta" \notin Faults,
         BackendFails
  PROVE  TypeOK' /\ Inv'
<1>1. DirectoryOK /\ BackendOK /\ CallOK /\ TodoOK /\ NumbersOK
  BY Parts
<1>2. DirectoryOK'
  BY <1>1, SameDirectory DEF BackendFails, Answered
<1>3. BackendOK'
  BY <1>1 DEF BackendOK, BackendFails, Answered
<1>4. CallOK'
  BY <1>1 DEF CallOK, BackendFails, Answered
<1>5. TodoOK'
  BY <1>1 DEF TodoOK, BackendFails, Answered
<1>6. NumbersOK'
  BY <1>1 DEF NumbersOK, BackendFails, Answered
<1>7. TypeOK'
  BY <1>2, <1>3, <1>4, <1>5, <1>6, PartsAfter
<1>8. CallInv'
  BY DEF BackendFails, Answered, Inv, CallInv, AfterPublishing, Saving
<1>9. Agree'
  BY DEF BackendFails, Answered, Inv, Agree, Removing
<1>10. TodoInv'
  BY DEF BackendFails, Answered, Inv, TodoInv
<1>11. FileInv'
  BY DEF BackendFails, Answered, Inv, FileInv
<1>12. PromiseInv'
  BY DEF BackendFails, Answered, Inv, PromiseInv, AfterPublishing
<1>13. NumberInv' /\ PublishedComplete' /\ AckedSurvives'
  BY Untouched DEF Inv, BackendFails, Answered
<1>14. QED
  BY <1>7, <1>8, <1>9, <1>10, <1>11, <1>12, <1>13 DEF Inv

\* Save keeps the invariant.
LEMMA SaveKeeps ==
  ASSUME TypeOK, Inv, "reread" \notin Faults, "unlink-meta" \notin Faults,
         NEW k \in Keys, Save(k)
  PROVE  TypeOK' /\ Inv'
<1>1. DirectoryOK /\ BackendOK /\ CallOK /\ TodoOK /\ NumbersOK
  BY Parts
<1>2. DirectoryOK'
  BY <1>1, SameDirectory DEF Save
<1>3. BackendOK'
  BY <1>1, StoreAssumption DEF BackendOK, Jobs, Generations, NumbersOK, Save
<1>4. CallOK'
  BY <1>1, StoreAssumption DEF CallOK, NumbersOK, Generations, Save
<1>5. TodoOK'
  BY <1>1 DEF TodoOK, Save
<1>6. NumbersOK'
  BY <1>1, StoreAssumption DEF NumbersOK, Save
<1>7. TypeOK'
  BY <1>2, <1>3, <1>4, <1>5, <1>6, PartsAfter
<1>8. CallInv'
  BY StoreAssumption DEF TypeOK, Save, Inv, CallInv, NumberInv, AfterPublishing
<1>9. Agree'
  BY DEF Save, Inv, Agree, Removing
<1>10. TodoInv'
  BY DEF Save, Inv, TodoInv
<1>11. FileInv'
  BY DEF TypeOK, Save, Directory, Inv, FileInv, NumberInv
<1>12. NumberInv'
  <2>1. made \in Nat /\ made' = made + 1
    BY <1>1 DEF NumbersOK, Save
  <2>2. \A g \in Generations : g <= made => g <= made'
    BY <2>1 DEF Generations
  <2>3. /\ {entries, acked} \subseteq [Keys -> Generations \cup {None}]
        /\ \A d \in survivors :
             d.metas \in [Keys -> Generations \cup {None}] /\ d.files \subseteq Files
    BY <1>1 DEF NumbersOK, DirectoryOK, Directories
  <2>4. \A f \in Files : f[1] \in Generations
    BY DEF Files
  <2>5. QED
    BY <2>2, <2>3, <2>4 DEF Save, Inv, NumberInv
<1>13. PromiseInv'
  BY DEF Save, PromiseInv, AfterPublishing
<1>14. PublishedComplete'
  BY DEF Save, Inv, PublishedComplete
<1>15. AckedSurvives'
  BY DEF Save, Inv, AckedSurvives
<1>16. QED
  BY <1>7, <1>8, <1>9, <1>10, <1>11, <1>12, <1>13, <1>14, <1>15 DEF Inv

\* TimesOut keeps the invariant.
LEMMA TimesOutKeeps ==
  ASSUME TypeOK, Inv, "reread" \notin Faults, "unlink-meta" \notin Faults,
         TimesOut
  PROVE  TypeOK' /\ Inv'
<1>1. DirectoryOK /\ BackendOK /\ CallOK /\ TodoOK /\ NumbersOK
  BY Parts
<1>2. DirectoryOK'
  BY <1>1, SameDirectory DEF TimesOut
<1>3. BackendOK'
  BY <1>1 DEF BackendOK, TimesOut
<1>4. CallOK'
  BY <1>1 DEF CallOK, TimesOut
<1>5. TodoOK'
  BY <1>1 DEF TodoOK, TimesOut
<1>6. NumbersOK'
  BY <1>1 DEF NumbersOK, TimesOut
<1>7. TypeOK'
  BY <1>2, <1>3, <1>4, <1>5, <1>6, PartsAfter
<1>8. CallInv'
  BY DEF TimesOut, Inv, CallInv, AfterPublishing, Saving
<1>9. Agree'
  BY DEF TimesOut, Inv, Agree, Removing
<1>10. TodoInv'
  BY DEF TimesOut, Inv, TodoInv
<1>11. FileInv'
  BY DEF TimesOut, Inv, FileInv
<1>12. PromiseInv'
  BY DEF TimesOut, PromiseInv, AfterPublishing
<1>13. NumberInv' /\ PublishedComplete' /\ AckedSurvives'
  BY Untouched DEF Inv, TimesOut
<1>14. QED
  BY <1>7, <1>8, <1>9, <1>10, <1>11, <1>12, <1>13 DEF Inv

\* FilesSynced keeps the invariant.
LEMMA FilesSyncedKeeps ==
  ASSUME TypeOK, Inv, "reread" \notin Faults, "unlink-meta" \notin Faults,
         FilesSynced
  PROVE  TypeOK' /\ Inv'
<1>1. DirectoryOK /\ BackendOK /\ CallOK /\ TodoOK /\ NumbersOK
  BY Parts
<1>2. DirectoryOK'
  BY <1>1, SameDirectory DEF FilesSynced
<1>3. BackendOK'
  BY <1>1 DEF BackendOK, Files, FilesOf, CallOK, Inv, CallInv, Saving, FilesSynced
<1>4. CallOK'
  BY <1>1 DEF CallOK, FilesSynced
<1>5. TodoOK'
  BY <1>1 DEF TodoOK, FilesSynced
<1>6. NumbersOK'
  BY <1>1 DEF NumbersOK, FilesSynced
<1>7. TypeOK'
  BY <1>2, <1>3, <1>4, <1>5, <1>6, PartsAfter
<1>8. CallInv'
  BY DEF FilesSynced, Inv, CallInv, AfterPublishing, Saving
<1>9. Agree'
  BY DEF FilesSynced, Inv, Agree, Removing
<1>10. TodoInv'
  BY DEF FilesSynced, Inv, TodoInv
<1>11. FileInv'
  BY DEF FilesSynced, Inv, FileInv
<1>12. NumberInv'
  BY DEF FilesSynced, Inv, NumberInv
<1>13. PromiseInv'
  BY DEF FilesSynced, PromiseInv, AfterPublishing
<1>14. PublishedComplete'
  BY DEF FilesSynced, Inv, PublishedComplete
<1>15. AckedSurvives'
  BY DEF FilesSynced, Inv, AckedSurvives
<1>16. QED
  BY <1>7, <1>8, <1>9, <1>10, <1>11, <1>12, <1>13, <1>14, <1>15 DEF Inv

\* FilesRejected keeps the invariant.
LEMMA FilesRejectedKeeps ==
  ASSUME TypeOK, Inv, "reread" \notin Faults, "unlink-meta" \notin Faults,
         FilesRejected
  PROVE  TypeOK' /\ Inv'
<1>1. DirectoryOK /\ BackendOK /\ CallOK /\ TodoOK /\ NumbersOK
  BY Parts
<1>2. DirectoryOK'
  BY <1>1, SameDirectory DEF FilesRejected
<1>3. BackendOK'
  BY <1>1 DEF BackendOK, FilesRejected
<1>4. CallOK'
  BY <1>1 DEF CallOK, FilesRejected
<1>5. TodoOK'
  BY <1>1 DEF TodoOK, FilesRejected
<1>6. NumbersOK'
  BY <1>1 DEF NumbersOK, FilesRejected
<1>7. TypeOK'
  BY <1>2, <1>3, <1>4, <1>5, <1>6, PartsAfter
<1>8. CallInv'
  BY DEF FilesRejected, Inv, CallInv, AfterPublishing, Saving
<1>9. Agree'
  BY DEF FilesRejected, Inv, Agree, Removing
<1>10. TodoInv'
  BY DEF FilesRejected, Inv, TodoInv
<1>11. FileInv'
  BY DEF FilesRejected, Inv, FileInv
<1>12. PromiseInv'
  BY DEF FilesRejected, PromiseInv, AfterPublishing
<1>13. NumberInv' /\ PublishedComplete' /\ AckedSurvives'
  BY Untouched DEF Inv, FilesRejected
<1>14. QED
  BY <1>7, <1>8, <1>9, <1>10, <1>11, <1>12, <1>13 DEF Inv

\* MetaReplaced keeps the invariant.
LEMMA MetaReplacedKeeps ==
  ASSUME TypeOK, Inv, "reread" \notin Faults, "unlink-meta" \notin Faults,
         MetaReplaced
  PROVE  TypeOK' /\ Inv'
<1>1. DirectoryOK /\ BackendOK /\ CallOK /\ TodoOK /\ NumbersOK
  BY Parts
<1>2. DirectoryOK'
  <2>1. [metas EXCEPT ![key] = Named] \in [Keys -> Generations \cup {None}]
    BY <1>1, DirectoryTyped DEF MetaReplaced, Named, Inv, CallInv, CallOK, NumbersOK, Saving
  <2>2. QED
    BY <2>1, DirectoryTyped, DirectoryBecomes DEF DirectoryOK, MetaReplaced
<1>3. BackendOK'
  BY <1>1 DEF BackendOK, MetaReplaced
<1>4. CallOK'
  BY <1>1 DEF CallOK, MetaReplaced
<1>5. TodoOK'
  BY <1>1 DEF TodoOK, MetaReplaced
<1>6. NumbersOK'
  BY <1>1 DEF NumbersOK, MetaReplaced
<1>7. TypeOK'
  BY <1>2, <1>3, <1>4, <1>5, <1>6, PartsAfter
<1>8. CallInv'
  BY
     DEF TypeOK, MetaReplaced, Named, Directory, Directories, Becomes, Inv, CallInv,
         AfterPublishing, Saving
<1>9. Agree'
  BY DEF MetaReplaced, Named, Becomes, Inv, Agree, Removing
<1>10. TodoInv'
  BY DEF MetaReplaced, Inv, TodoInv
<1>11. FileInv'
  BY DEF MetaReplaced, Becomes, Inv, FileInv
<1>12. NumberInv'
  BY
     DEF TypeOK, MetaReplaced, Named, Directory, Directories, Becomes, Inv, CallInv, Agree,
         NumberInv, OneEach, Saving, Removing
<1>13. PromiseInv'
  BY DEF MetaReplaced, PromiseInv, AfterPublishing
<1>14. PublishedComplete'
  BY
     DEF TypeOK, MetaReplaced, Named, Directory, Directories, Becomes, Inv, Agree, FileInv,
         PublishedComplete
<1>15. AckedSurvives'
  BY
     DEF TypeOK, MetaReplaced, Named, Directory, Directories, Becomes, Inv, CallInv, Agree,
         NumberInv, AckedSurvives, Saving
<1>16. QED
  BY <1>7, <1>8, <1>9, <1>10, <1>11, <1>12, <1>13, <1>14, <1>15 DEF Inv

\* MetaFails keeps the invariant.
LEMMA MetaFailsKeeps ==
  ASSUME TypeOK, Inv, "reread" \notin Faults, "unlink-meta" \notin Faults,
         MetaFails
  PROVE  TypeOK' /\ Inv'
<1>1. DirectoryOK /\ BackendOK /\ CallOK /\ TodoOK /\ NumbersOK
  BY Parts
<1>2. DirectoryOK'
  BY <1>1, SameDirectory DEF MetaFails
<1>3. BackendOK'
  BY <1>1 DEF BackendOK, MetaFails
<1>4. CallOK'
  BY <1>1 DEF CallOK, MetaFails, Leave
<1>5. TodoOK'
  <2>1. todo' = todo \/ todo' = <<>>
    BY DEF MetaFails, Leave
  <2>2. <<>> \in Seq(Keys \cup Files)
    OBVIOUS
  <2>3. QED
    BY <1>1, <2>1, <2>2 DEF TodoOK
<1>6. NumbersOK'
  BY <1>1 DEF NumbersOK, MetaFails
<1>7. TypeOK'
  BY <1>2, <1>3, <1>4, <1>5, <1>6, PartsAfter
<1>8. CallInv'
  BY DEF MetaFails, Leave, Inv, CallInv, AfterPublishing, Saving
<1>9. Agree'
  BY DEF MetaFails, Inv, Agree, Removing
<1>10. TodoInv'
  BY DEF MetaFails, Leave, Inv, TodoInv
<1>11. FileInv'
  BY DEF MetaFails, Leave, Inv, FileInv
<1>12. PromiseInv'
  BY DEF MetaFails, Leave, PromiseInv, AfterPublishing
<1>13. NumberInv' /\ PublishedComplete' /\ AckedSurvives'
  BY Untouched DEF Inv, MetaFails
<1>14. QED
  BY <1>7, <1>8, <1>9, <1>10, <1>11, <1>12, <1>13 DEF Inv

\* DirectorySynced keeps the invariant.
LEMMA DirectorySyncedKeeps ==
  ASSUME TypeOK, Inv, "reread" \notin Faults, "unlink-meta" \notin Faults,
         DirectorySynced
  PROVE  TypeOK' /\ Inv'
<1>1. DirectoryOK /\ BackendOK /\ CallOK /\ TodoOK /\ NumbersOK
  BY Parts
<1>2. DirectoryOK'
  BY <1>1 DEF DirectoryOK, Directory, DirectorySynced
<1>3. BackendOK'
  BY <1>1 DEF BackendOK, DirectorySynced
<1>4. CallOK'
  BY <1>1 DEF CallOK, DirectorySynced, Leave, Unlink
<1>5. TodoOK'
  <2>1. CASE op = "save"
    <3>1. entries[key] \in Generations \cup {None} /\ todo' = UnlinkOrder(entries[key])
      BY <1>1, <2>1 DEF DirectorySynced, Unlink, Inv, CallInv, Saving, NumbersOK
    <3>2. QED
      BY <3>1, Order, Wider DEF TodoOK
  <2>2. CASE op # "save"
    BY <2>2 DEF DirectorySynced, Leave, TodoOK
  <2>3. QED
    BY <2>1, <2>2
<1>6. NumbersOK'
  BY <1>1 DEF NumbersOK, CallOK, DirectorySynced
<1>7. TypeOK'
  BY <1>2, <1>3, <1>4, <1>5, <1>6, PartsAfter
<1>8. CallInv'
  BY DEF TypeOK, DirectorySynced, Leave, Unlink, Inv, CallInv, AfterPublishing, Saving
<1>9. Agree'
  BY DEF TypeOK, DirectorySynced, Inv, CallInv, Agree, Removing
<1>10. TodoInv'
  <2>1. CASE op = "touch"
    BY <2>1 DEF DirectorySynced, Leave, TodoInv
  <2>2. CASE op = "save"
    <3> DEFINE old == entries[key]
    <3>1. key \in Keys /\ old \in Generations \cup {None} /\ old # gen
      BY <1>1, <2>2 DEF DirectorySynced, Inv, CallInv, Saving, NumbersOK
    <3>2. /\ todo' = UnlinkOrder(old) /\ acked' = acked
          /\ \A k \in Keys : entries'[k] = IF k = key THEN gen ELSE entries[k]
      BY <1>1, <2>2 DEF DirectorySynced, Unlink, NumbersOK
    <3> HIDE DEF old
    <3>3. \A i \in DOMAIN todo' : todo'[i] \in Files /\ todo'[i][1] = old /\ old # None
      BY <3>1, <3>2, Order
    <3>4. old # None => \A k \in Keys : entries'[k] # old
      BY <3>1, <3>2 DEF old, Inv, NumberInv, OneEach
    <3>5. QED
      BY <3>3, <3>4, Disjoint DEF TodoInv
  <2>3. QED
    BY <2>1, <2>2 DEF DirectorySynced, Inv, CallInv
<1>11. FileInv'
  BY DEF DirectorySynced, Leave, Unlink, Inv, FileInv
<1>12. NumberInv'
  BY DEF TypeOK, DirectorySynced, Inv, CallInv, NumberInv, OneEach, Saving
<1>13. PromiseInv'
  BY DEF DirectorySynced, Leave, Directory, Inv, CallInv, PromiseInv, AfterPublishing
<1>14. PublishedComplete'
  BY DEF TypeOK, DirectorySynced, Inv, PublishedComplete
<1>15. AckedSurvives'
  BY DEF TypeOK, DirectorySynced, Inv, AckedSurvives
<1>16. QED
  BY <1>7, <1>8, <1>9, <1>10, <1>11, <1>12, <1>13, <1>14, <1>15 DEF Inv

\* DirectorySyncFails keeps the invariant.
LEMMA DirectorySyncFailsKeeps ==
  ASSUME TypeOK, Inv, "reread" \notin Faults, "unlink-meta" \notin Faults,
         DirectorySyncFails
  PROVE  TypeOK' /\ Inv'
<1>1. DirectoryOK /\ BackendOK /\ CallOK /\ TodoOK /\ NumbersOK
  BY Parts
<1>2. DirectoryOK'
  BY <1>1, SameDirectory DEF DirectorySyncFails
<1>3. BackendOK'
  BY <1>1 DEF BackendOK, DirectorySyncFails
<1>4. CallOK'
  BY <1>1 DEF CallOK, DirectorySyncFails, Leave
<1>5. TodoOK'
  <2>1. todo' = todo \/ todo' = <<>>
    BY DEF DirectorySyncFails, Leave
  <2>2. <<>> \in Seq(Keys \cup Files)
    OBVIOUS
  <2>3. QED
    BY <1>1, <2>1, <2>2 DEF TodoOK
<1>6. NumbersOK'
  BY <1>1 DEF NumbersOK, DirectorySyncFails
<1>7. TypeOK'
  BY <1>2, <1>3, <1>4, <1>5, <1>6, PartsAfter
<1>8. CallInv'
  BY DEF DirectorySyncFails, Leave, Inv, CallInv, AfterPublishing, Saving
<1>9. Agree'
  BY DEF DirectorySyncFails, Inv, Agree, Removing
<1>10. TodoInv'
  BY DEF DirectorySyncFails, Leave, Inv, TodoInv
<1>11. FileInv'
  BY DEF DirectorySyncFails, Leave, Inv, FileInv
<1>12. PromiseInv'
  BY DEF DirectorySyncFails, Leave, PromiseInv, AfterPublishing
<1>13. NumberInv' /\ PublishedComplete' /\ AckedSurvives'
  BY Untouched DEF Inv, DirectorySyncFails
<1>14. QED
  BY <1>7, <1>8, <1>9, <1>10, <1>11, <1>12, <1>13 DEF Inv

\* KeepPublished keeps the invariant.
LEMMA KeepPublishedKeeps ==
  ASSUME TypeOK, Inv, "reread" \notin Faults, "unlink-meta" \notin Faults,
         KeepPublished
  PROVE  TypeOK' /\ Inv'
<1>1. DirectoryOK /\ BackendOK /\ CallOK /\ TodoOK /\ NumbersOK
  BY Parts
<1>2. DirectoryOK'
  BY <1>1, SameDirectory DEF KeepPublished
<1>3. BackendOK'
  BY <1>1 DEF BackendOK, KeepPublished
<1>4. CallOK'
  BY <1>1 DEF CallOK, KeepPublished, Leave
<1>5. TodoOK'
  BY <1>1 DEF TodoOK, KeepPublished, Leave
<1>6. NumbersOK'
  BY <1>1 DEF NumbersOK, CallOK, Inv, CallInv, Saving, KeepPublished
<1>7. TypeOK'
  BY <1>2, <1>3, <1>4, <1>5, <1>6, PartsAfter
<1>8. CallInv'
  BY DEF KeepPublished, Leave, CallInv, AfterPublishing, Saving
<1>9. Agree'
  BY DEF TypeOK, KeepPublished, Inv, Agree, Removing
<1>10. TodoInv'
  BY DEF KeepPublished, Leave, TodoInv
<1>11. FileInv'
  BY DEF KeepPublished, Leave, Inv, FileInv
<1>12. NumberInv'
  BY DEF TypeOK, KeepPublished, Inv, CallInv, NumberInv, OneEach, Saving
<1>13. PromiseInv'
  BY DEF KeepPublished, Leave, PromiseInv, AfterPublishing
<1>14. PublishedComplete'
  BY DEF KeepPublished, Inv, PublishedComplete
<1>15. AckedSurvives'
  BY DEF KeepPublished, Inv, AckedSurvives
<1>16. QED
  BY <1>7, <1>8, <1>9, <1>10, <1>11, <1>12, <1>13, <1>14, <1>15 DEF Inv

\* DiscardUnpublished keeps the invariant.
LEMMA DiscardUnpublishedKeeps ==
  ASSUME TypeOK, Inv, "reread" \notin Faults, "unlink-meta" \notin Faults,
         DiscardUnpublished
  PROVE  TypeOK' /\ Inv'
<1>1. DirectoryOK /\ BackendOK /\ CallOK /\ TodoOK /\ NumbersOK
  BY Parts
<1>2. DirectoryOK'
  BY <1>1, SameDirectory DEF DiscardUnpublished
<1>3. BackendOK'
  BY <1>1 DEF BackendOK, DiscardUnpublished
<1>4. CallOK'
  BY <1>1 DEF CallOK, DiscardUnpublished, Unlink
<1>5. TodoOK'
  BY <1>1, Order, Wider DEF TodoOK, CallOK, Unlink, DiscardUnpublished
<1>6. NumbersOK'
  BY <1>1 DEF NumbersOK, DiscardUnpublished
<1>7. TypeOK'
  BY <1>2, <1>3, <1>4, <1>5, <1>6, PartsAfter
<1>8. CallInv'
  BY DEF DiscardUnpublished, Unlink, Inv, CallInv, AfterPublishing, Saving
<1>9. Agree'
  BY DEF DiscardUnpublished, Inv, Agree, Removing
<1>10. TodoInv'
  <2>1. gen \in Generations /\ \A k \in Keys : entries[k] # gen
    BY <1>1 DEF DiscardUnpublished, Inv, CallInv, Saving, CallOK
  <2>2. todo' = UnlinkOrder(gen) /\ UNCHANGED <<entries, acked>>
    BY DEF DiscardUnpublished, Unlink
  <2>3. \A i \in DOMAIN todo' : todo'[i] \in Files /\ todo'[i][1] = gen
    BY <2>1, <2>2, Order
  <2>4. QED
    BY <2>1, <2>2, <2>3, Disjoint DEF TodoInv
<1>11. FileInv'
  BY DEF DiscardUnpublished, Unlink, Inv, FileInv
<1>12. PromiseInv'
  BY DEF DiscardUnpublished, Unlink, PromiseInv, AfterPublishing
<1>13. NumberInv' /\ PublishedComplete' /\ AckedSurvives'
  BY Untouched DEF Inv, DiscardUnpublished
<1>14. QED
  BY <1>7, <1>8, <1>9, <1>10, <1>11, <1>12, <1>13 DEF Inv

\* Saved keeps the invariant.
LEMMA SavedKeeps ==
  ASSUME TypeOK, Inv, "reread" \notin Faults, "unlink-meta" \notin Faults,
         Saved
  PROVE  TypeOK' /\ Inv'
<1>1. DirectoryOK /\ BackendOK /\ CallOK /\ TodoOK /\ NumbersOK
  BY Parts
<1>2. DirectoryOK'
  BY <1>1, SameDirectory DEF Saved
<1>3. BackendOK'
  BY <1>1 DEF BackendOK, Saved
<1>4. CallOK'
  BY <1>1 DEF CallOK, Saved, Leave
<1>5. TodoOK'
  BY <1>1 DEF TodoOK, Saved, Leave
<1>6. NumbersOK'
  BY <1>1, DirectoryTyped, StoreAssumption
     DEF NumbersOK, CallOK, Generations, Directories, DirectoryOK, Inv, CallInv, Saving, Saved,
         Leave
<1>7. TypeOK'
  BY <1>2, <1>3, <1>4, <1>5, <1>6, PartsAfter
<1>8. CallInv'
  BY DEF Saved, Leave, CallInv, AfterPublishing, Saving
<1>9. Agree'
  BY DEF Saved, Inv, Agree, Removing
<1>10. TodoInv'
  BY DEF Saved, Leave, TodoInv
<1>11. FileInv'
  BY DEF Saved, Leave, Inv, FileInv
<1>12. NumberInv'
  BY DEF TypeOK, Saved, Inv, NumberInv, PromiseInv, AfterPublishing
<1>13. PromiseInv'
  BY DEF Saved, Leave, PromiseInv, AfterPublishing
<1>14. PublishedComplete'
  BY DEF Saved, Inv, PublishedComplete
<1>15. AckedSurvives'
  <2>1. \A d \in survivors : d.metas[key] = gen
    BY DEF Saved, Inv, PromiseInv, AfterPublishing
  <2>2. gen \in Nat /\ gen # None
    BY <1>1 DEF Saved, Inv, CallInv, AfterPublishing, CallOK, Generations
  <2>3. \A k \in Keys : acked'[k] = IF k = key THEN gen ELSE acked[k]
    BY <1>1 DEF Saved, NumbersOK
  <2>4. QED
    BY <2>1, <2>2, <2>3 DEF Saved, Inv, AckedSurvives
<1>16. QED
  BY <1>7, <1>8, <1>9, <1>10, <1>11, <1>12, <1>13, <1>14, <1>15 DEF Inv

\* RemoveSnapshot keeps the invariant.
LEMMA RemoveSnapshotKeeps ==
  ASSUME TypeOK, Inv, "reread" \notin Faults, "unlink-meta" \notin Faults,
         NEW k \in Keys, NEW next \in {"idle", "evict"},
         (pc = "idle" /\ next = "idle") \/ (pc = "evict" /\ k # key /\ next = "evict"),
         RemoveSnapshot(k, next)
  PROVE  TypeOK' /\ Inv'
<1>1. DirectoryOK /\ BackendOK /\ CallOK /\ TodoOK /\ NumbersOK
  BY Parts
<1>2. DirectoryOK'
  BY <1>1, SameDirectory DEF RemoveSnapshot
<1>3. BackendOK'
  BY <1>1 DEF BackendOK, RemoveSnapshot
<1>4. CallOK'
  BY <1>1 DEF CallOK, RemoveSnapshot, Unlink
<1>5. TodoOK'
  BY <1>1, Order, KeyFirst DEF TodoOK, NumbersOK, Unlink, RemoveSnapshot
<1>6. NumbersOK'
  BY <1>1 DEF NumbersOK, RemoveSnapshot
<1>7. TypeOK'
  BY <1>2, <1>3, <1>4, <1>5, <1>6, PartsAfter
<1>8. CallInv'
  BY DEF RemoveSnapshot, Unlink, Inv, CallInv, AfterPublishing, Saving
<1>9. Agree'
  BY DEF RemoveSnapshot, Unlink, Inv, Agree, Removing
<1>10. TodoInv'
  <2> DEFINE old == entries[k]
  <2>1. old \in Generations /\ UnlinkOrder(old) \in Seq(Files)
    BY <1>1, Order DEF RemoveSnapshot, NumbersOK
  <2>2. /\ todo' = <<k>> \o UnlinkOrder(old)
        /\ \A j \in Keys : entries'[j] = IF j = k THEN None ELSE entries[j]
        /\ acked'[k] = None
    BY <1>1 DEF RemoveSnapshot, Unlink, NumbersOK
  <2>3. \A j \in Keys : entries'[j] # old
    BY <2>1, <2>2, StoreAssumption DEF Inv, NumberInv, OneEach, Generations
  <2> HIDE DEF old
  <2>4. \A i \in DOMAIN UnlinkOrder(old) :
          UnlinkOrder(old)[i] \in Files /\ UnlinkOrder(old)[i][1] = old
    BY <2>1, Order
  <2>5. \A i \in DOMAIN todo' : \/ i = 1 /\ todo'[i] = k
                                \/ todo'[i] \in Files /\ todo'[i][1] = old
    BY <2>1, <2>2, <2>4, KeyFirst
  <2>6. QED
    BY <2>2, <2>3, <2>5, Disjoint DEF TodoInv
<1>11. FileInv'
  BY DEF RemoveSnapshot, Unlink, Inv, FileInv
<1>12. NumberInv'
  BY DEF RemoveSnapshot, Inv, NumberInv, OneEach
<1>13. PromiseInv'
  BY DEF RemoveSnapshot, Unlink, Inv, PromiseInv, AfterPublishing
<1>14. PublishedComplete'
  BY DEF RemoveSnapshot, Inv, PublishedComplete
<1>15. AckedSurvives'
  BY DEF RemoveSnapshot, Inv, AckedSurvives
<1>16. QED
  BY <1>7, <1>8, <1>9, <1>10, <1>11, <1>12, <1>13, <1>14, <1>15 DEF Inv

\* Unlinked keeps the invariant.
LEMMA UnlinkedKeeps ==
  ASSUME TypeOK, Inv, "reread" \notin Faults, "unlink-meta" \notin Faults,
         Unlinked
  PROVE  TypeOK' /\ Inv'
<1>1. DirectoryOK /\ BackendOK /\ CallOK /\ TodoOK /\ NumbersOK
  BY Parts
<1>2. DirectoryOK'
  <2>1. [metas EXCEPT ![Head(todo)] = None] \in [Keys -> Generations \cup {None}]
        /\ files \ {Head(todo)} \in SUBSET Files
    BY DirectoryTyped
  <2>2. QED
    BY <2>1, DirectoryTyped, DirectoryBecomes DEF DirectoryOK, Unlinked
<1>3. BackendOK'
  BY <1>1 DEF BackendOK, Unlinked
<1>4. CallOK'
  BY <1>1 DEF CallOK, Unlinked
<1>5. TodoOK'
  BY <1>1 DEF TodoOK, Unlinked
<1>6. NumbersOK'
  BY <1>1 DEF NumbersOK, Unlinked
<1>7. TypeOK'
  BY <1>2, <1>3, <1>4, <1>5, <1>6, PartsAfter
<1>8. PICK m, f : Becomes(m, f) /\ m \in [Keys -> Generations \cup {None}] /\ f \in SUBSET files
             /\ (\A k \in Keys :
                   m[k] = metas[k] \/ (m[k] = None /\ entries[k] = None /\ acked[k] = None))
             /\ (\A k \in Keys : m[k] # None => FilesOf(m[k]) \cap files \subseteq f)
  <2>1. CASE Head(todo) \in Keys
    <3>1. entries[Head(todo)] = None /\ acked[Head(todo)] = None
      BY <1>1, <2>1 DEF Unlinked, TodoOK, Inv, TodoInv
    <3> DEFINE m == [metas EXCEPT ![Head(todo)] = None]
    <3>2. Becomes(m, files)
      BY <2>1 DEF Unlinked
    <3>3. /\ m \in [Keys -> Generations \cup {None}]
          /\ \A k \in Keys :
               m[k] = metas[k] \/ (m[k] = None /\ entries[k] = None /\ acked[k] = None)
      BY <2>1, <3>1, DirectoryTyped
    <3> HIDE DEF m
    <3>4. QED
      BY <3>2, <3>3
  <2>2. CASE Head(todo) \notin Keys
    <3>1. Head(todo) \in Files /\ \A k \in Keys : entries[k] # Head(todo)[1]
      BY <1>1, <2>2 DEF Unlinked, TodoOK, Inv, TodoInv
    <3>2. Becomes(metas, files \ {Head(todo)})
      BY <2>2 DEF Unlinked
    <3>3. \A k \in Keys : metas[k] = entries[k]
      BY <2>2 DEF Unlinked, Inv, Agree, Removing
    <3>4. \A k \in Keys : metas[k] # None => Head(todo) \notin FilesOf(metas[k])
      BY <3>1, <3>3 DEF FilesOf
    <3>5. QED
      BY <3>2, <3>4, DirectoryTyped
  <2>3. QED
    BY <2>1, <2>2
<1>9. /\ metas' = m /\ files' = f /\ UNCHANGED <<entries, made, acked, whole, durable>>
      /\ \A d \in survivors' : d \in survivors \/ d = [metas |-> m, files |-> f]
  BY <1>8, DirectoryTyped, DirectoryBecomes DEF Unlinked
<1>10. Directory \in survivors /\ Directory.metas = metas /\ Directory.files = files
  BY <1>1 DEF DirectoryOK, Directory
<1>11. CallInv'
  BY DEF Unlinked, Inv, CallInv, AfterPublishing, Saving
<1>12. Agree'
  BY DEF TypeOK, Unlinked, Directory, Directories, Becomes, Inv, Agree, TodoInv, Removing
<1>13. TodoInv'
  <2>1. \A i \in DOMAIN Tail(todo) :
          i + 1 \in DOMAIN todo /\ i + 1 # 1 /\ Tail(todo)[i] = todo[i + 1]
    BY <1>1 DEF TodoOK, Unlinked
  <2>2. \A i \in DOMAIN todo : todo[i] \in Keys => i = 1
    BY DEF Inv, TodoInv
  <2>3. \A i \in DOMAIN todo : todo[i] \in Files => \A k \in Keys : entries[k] # todo[i][1]
    BY DEF Inv, TodoInv
  <2>4. todo' = Tail(todo) /\ entries' = entries
    BY DEF Unlinked
  <2>5. QED
    BY <2>1, <2>2, <2>3, <2>4 DEF TodoInv
<1>14. FileInv'
  BY DEF Unlinked, Becomes, Inv, FileInv
<1>15. NumberInv'
  <2>1. OneEach(metas) /\ OneEach(m)
    BY <1>8, <1>10 DEF Inv, NumberInv, OneEach
  <2>2. (\A k \in Keys : m[k] # None => m[k] <= made) /\ (\A x \in f : x[1] <= made)
    BY <1>8, <1>10 DEF Inv, NumberInv
  <2>3. QED
    BY <1>9, <2>1, <2>2 DEF Inv, NumberInv
<1>16. PromiseInv'
  BY
     DEF TypeOK, Unlinked, Directory, Directories, Becomes, Inv, CallInv, TodoInv, PromiseInv,
         AfterPublishing
<1>17. PublishedComplete'
  <2>1. \A k \in Keys : m[k] # None =>
          FilesOf(m[k]) \subseteq files /\ FilesOf(m[k]) \subseteq whole \cap durable
    BY <1>8, <1>10 DEF Inv, PublishedComplete
  <2>2. \A k \in Keys : m[k] # None => FilesOf(m[k]) \subseteq f
    BY <1>8, <2>1
  <2>3. QED
    BY <1>9, <2>1, <2>2 DEF Inv, PublishedComplete
<1>18. AckedSurvives'
  <2>1. \A k \in Keys : acked[k] # None => m[k] = metas[k]
    BY <1>8
  <2>2. QED
    BY <1>9, <1>10, <2>1 DEF Inv, AckedSurvives
<1>19. QED
  BY <1>7, <1>11, <1>12, <1>13, <1>14, <1>15, <1>16, <1>17, <1>18 DEF Inv

\* UnlinkFails keeps the invariant.
LEMMA UnlinkFailsKeeps ==
  ASSUME TypeOK, Inv, "reread" \notin Faults, "unlink-meta" \notin Faults,
         UnlinkFails
  PROVE  TypeOK' /\ Inv'
<1>1. DirectoryOK /\ BackendOK /\ CallOK /\ TodoOK /\ NumbersOK
  BY Parts
<1>2. DirectoryOK'
  BY <1>1, SameDirectory DEF UnlinkFails
<1>3. BackendOK'
  BY <1>1 DEF BackendOK, UnlinkFails
<1>4. CallOK'
  BY <1>1 DEF CallOK, UnlinkFails, Leave
<1>5. TodoOK'
  BY <1>1 DEF TodoOK, UnlinkFails, Leave
<1>6. NumbersOK'
  BY <1>1 DEF NumbersOK, UnlinkFails
<1>7. TypeOK'
  BY <1>2, <1>3, <1>4, <1>5, <1>6, PartsAfter
<1>8. CallInv'
  BY DEF UnlinkFails, Leave, CallInv, AfterPublishing, Saving
<1>9. Agree'
  BY DEF UnlinkFails, Inv, Agree, Removing
<1>10. TodoInv'
  BY DEF UnlinkFails, Leave, TodoInv
<1>11. FileInv'
  BY DEF UnlinkFails, Leave, Inv, FileInv
<1>12. PromiseInv'
  BY DEF UnlinkFails, Leave, PromiseInv, AfterPublishing
<1>13. NumberInv' /\ PublishedComplete' /\ AckedSurvives'
  BY Untouched DEF Inv, UnlinkFails
<1>14. QED
  BY <1>7, <1>8, <1>9, <1>10, <1>11, <1>12, <1>13 DEF Inv

\* AllUnlinked keeps the invariant.
LEMMA AllUnlinkedKeeps ==
  ASSUME TypeOK, Inv, "reread" \notin Faults, "unlink-meta" \notin Faults,
         AllUnlinked
  PROVE  TypeOK' /\ Inv'
<1>1. DirectoryOK /\ BackendOK /\ CallOK /\ TodoOK /\ NumbersOK
  BY Parts
<1>2. DirectoryOK'
  BY <1>1, SameDirectory DEF AllUnlinked
<1>3. BackendOK'
  BY <1>1 DEF BackendOK, AllUnlinked
<1>4. CallOK'
  BY <1>1 DEF CallOK, AllUnlinked, Leave
<1>5. TodoOK'
  BY <1>1 DEF TodoOK, AllUnlinked, Leave
<1>6. NumbersOK'
  BY <1>1 DEF NumbersOK, AllUnlinked
<1>7. TypeOK'
  BY <1>2, <1>3, <1>4, <1>5, <1>6, PartsAfter
<1>8. CallInv'
  BY DEF TypeOK, AllUnlinked, Leave, Inv, CallInv, AfterPublishing, Saving
<1>9. Agree'
  BY DEF AllUnlinked, Inv, Agree, Removing
<1>10. TodoInv'
  BY DEF AllUnlinked, Leave, TodoInv
<1>11. FileInv'
  BY DEF TypeOK, AllUnlinked, Leave, Inv, FileInv
<1>12. PromiseInv'
  BY DEF AllUnlinked, Leave, Inv, PromiseInv, AfterPublishing
<1>13. NumberInv' /\ PublishedComplete' /\ AckedSurvives'
  BY Untouched DEF Inv, AllUnlinked
<1>14. QED
  BY <1>7, <1>8, <1>9, <1>10, <1>11, <1>12, <1>13 DEF Inv

\* Touch keeps the invariant.
LEMMA TouchKeeps ==
  ASSUME TypeOK, Inv, "reread" \notin Faults, "unlink-meta" \notin Faults,
         NEW k \in Keys, Touch(k)
  PROVE  TypeOK' /\ Inv'
<1>1. DirectoryOK /\ BackendOK /\ CallOK /\ TodoOK /\ NumbersOK
  BY Parts
<1>2. DirectoryOK'
  BY <1>1, SameDirectory DEF Touch
<1>3. BackendOK'
  BY <1>1 DEF BackendOK, Touch
<1>4. CallOK'
  BY <1>1 DEF CallOK, Touch
<1>5. TodoOK'
  BY <1>1 DEF TodoOK, Touch
<1>6. NumbersOK'
  BY <1>1 DEF NumbersOK, Touch
<1>7. TypeOK'
  BY <1>2, <1>3, <1>4, <1>5, <1>6, PartsAfter
<1>8. CallInv'
  BY DEF Touch, Inv, CallInv, AfterPublishing, Saving
<1>9. Agree'
  BY DEF Touch, Inv, Agree, Removing
<1>10. TodoInv'
  BY DEF Touch, Inv, TodoInv
<1>11. FileInv'
  BY DEF Touch, Inv, FileInv
<1>12. PromiseInv'
  BY DEF Touch, PromiseInv, AfterPublishing
<1>13. NumberInv' /\ PublishedComplete' /\ AckedSurvives'
  BY Untouched DEF Inv, Touch
<1>14. QED
  BY <1>7, <1>8, <1>9, <1>10, <1>11, <1>12, <1>13 DEF Inv

\* Clean keeps the invariant.
LEMMA CleanKeeps ==
  ASSUME TypeOK, Inv, "reread" \notin Faults, "unlink-meta" \notin Faults,
         NEW o \in {"gc", "settings"}, Clean(o)
  PROVE  TypeOK' /\ Inv'
<1>1. DirectoryOK /\ BackendOK /\ CallOK /\ TodoOK /\ NumbersOK
  BY Parts
<1>2. DirectoryOK'
  BY <1>1, SameDirectory DEF Clean
<1>3. BackendOK'
  BY <1>1 DEF BackendOK, Clean
<1>4. CallOK'
  BY <1>1 DEF CallOK, Clean
<1>5. TodoOK'
  BY <1>1 DEF TodoOK, Clean
<1>6. NumbersOK'
  BY <1>1 DEF NumbersOK, Clean
<1>7. TypeOK'
  BY <1>2, <1>3, <1>4, <1>5, <1>6, PartsAfter
<1>8. CallInv'
  BY DEF Clean, Inv, CallInv, AfterPublishing, Saving
<1>9. Agree'
  BY DEF Clean, Inv, Agree, Removing
<1>10. TodoInv'
  BY DEF Clean, Inv, TodoInv
<1>11. FileInv'
  BY DEF Clean, Inv, FileInv
<1>12. PromiseInv'
  BY DEF Clean, PromiseInv, AfterPublishing
<1>13. NumberInv' /\ PublishedComplete' /\ AckedSurvives'
  BY Untouched DEF Inv, Clean
<1>14. QED
  BY <1>7, <1>8, <1>9, <1>10, <1>11, <1>12, <1>13 DEF Inv

\* Fits keeps the invariant.
LEMMA FitsKeeps ==
  ASSUME TypeOK, Inv, "reread" \notin Faults, "unlink-meta" \notin Faults,
         Fits
  PROVE  TypeOK' /\ Inv'
<1>1. DirectoryOK /\ BackendOK /\ CallOK /\ TodoOK /\ NumbersOK
  BY Parts
<1>2. DirectoryOK'
  BY <1>1, SameDirectory DEF Fits
<1>3. BackendOK'
  BY <1>1 DEF BackendOK, Fits
<1>4. CallOK'
  BY <1>1 DEF CallOK, Fits, Leave
<1>5. TodoOK'
  BY <1>1 DEF TodoOK, Fits, Leave
<1>6. NumbersOK'
  BY <1>1 DEF NumbersOK, Fits
<1>7. TypeOK'
  BY <1>2, <1>3, <1>4, <1>5, <1>6, PartsAfter
<1>8. CallInv'
  BY DEF Fits, Leave, CallInv, AfterPublishing, Saving
<1>9. Agree'
  BY DEF Fits, Inv, Agree, Removing
<1>10. TodoInv'
  BY DEF Fits, Leave, TodoInv
<1>11. FileInv'
  BY DEF Fits, Leave, Inv, FileInv
<1>12. PromiseInv'
  BY DEF Fits, Leave, PromiseInv, AfterPublishing
<1>13. NumberInv' /\ PublishedComplete' /\ AckedSurvives'
  BY Untouched DEF Inv, Fits
<1>14. QED
  BY <1>7, <1>8, <1>9, <1>10, <1>11, <1>12, <1>13 DEF Inv

\* Collect keeps the invariant.
LEMMA CollectKeeps ==
  ASSUME TypeOK, Inv, "reread" \notin Faults, "unlink-meta" \notin Faults,
         NEW old \in SUBSET Orphans, Collect(old)
  PROVE  TypeOK' /\ Inv'
<1>1. DirectoryOK /\ BackendOK /\ CallOK /\ TodoOK /\ NumbersOK
  BY Parts
<1>2. DirectoryOK'
  BY <1>1, SameDirectory DEF Collect, Orphans, Published
<1>3. BackendOK'
  BY <1>1 DEF BackendOK, Collect, Orphans, Published
<1>4. CallOK'
  BY <1>1 DEF CallOK, Collect, Orphans, Published, Unlink
<1>5. TodoOK'
  <2>1. old \in SUBSET Files
    BY DirectoryTyped DEF Orphans
  <2>2. SetToSeq(old) \in Seq(Keys \cup Files)
    BY <2>1, Listing, Wider
  <2>3. QED
    BY <2>2 DEF TodoOK, Collect, Unlink
<1>6. NumbersOK'
  BY <1>1 DEF NumbersOK, Collect, Orphans, Published
<1>7. TypeOK'
  BY <1>2, <1>3, <1>4, <1>5, <1>6, PartsAfter
<1>8. CallInv'
  BY DEF Collect, Orphans, Published, Unlink, CallInv, AfterPublishing, Saving
<1>9. Agree'
  BY DEF Collect, Orphans, Published, Inv, Agree, Removing
<1>10. TodoInv'
  <2>1. old \in SUBSET Files /\ \A f \in old : \A k \in Keys : entries[k] # f[1]
    BY <1>1, DirectoryTyped, StoreAssumption DEF Orphans, Published, Files, Generations
  <2>2. todo' = SetToSeq(old) /\ UNCHANGED <<entries, acked>>
    BY DEF Collect, Unlink
  <2>3. \A i \in DOMAIN todo' : todo'[i] \in old
    BY <2>1, <2>2, Listing, Wider
  <2>4. QED
    BY <2>1, <2>2, <2>3, Disjoint DEF TodoInv
<1>11. FileInv'
  BY DEF Collect, Orphans, Published, Unlink, Inv, FileInv
<1>12. PromiseInv'
  BY DEF Collect, Orphans, Published, PromiseInv, AfterPublishing
<1>13. NumberInv' /\ PublishedComplete' /\ AckedSurvives'
  BY Untouched DEF Inv, Collect, Orphans, Published
<1>14. QED
  BY <1>7, <1>8, <1>9, <1>10, <1>11, <1>12, <1>13 DEF Inv

\* Crash keeps the invariant.
LEMMA CrashKeeps ==
  ASSUME TypeOK, Inv, "reread" \notin Faults, "unlink-meta" \notin Faults,
         Crash
  PROVE  TypeOK' /\ Inv'
<1>1. DirectoryOK /\ BackendOK /\ CallOK /\ TodoOK /\ NumbersOK
  BY Parts
<1>2. DirectoryOK'
  BY <1>1, SameDirectory DEF Crash
<1>3. BackendOK'
  BY <1>1 DEF BackendOK, Crash
<1>4. CallOK'
  BY <1>1 DEF CallOK, Crash, Leave
<1>5. TodoOK'
  BY <1>1 DEF TodoOK, Crash, Leave
<1>6. NumbersOK'
  BY <1>1, DirectoryTyped DEF NumbersOK, Crash
<1>7. TypeOK'
  BY <1>2, <1>3, <1>4, <1>5, <1>6, PartsAfter
<1>8. CallInv'
  BY DEF Crash, Leave, CallInv, AfterPublishing, Saving
<1>9. Agree'
  BY DEF Crash, Agree
<1>10. TodoInv'
  BY DEF Crash, Leave, TodoInv
<1>11. FileInv'
  BY DEF Crash, Leave, Inv, FileInv
<1>12. NumberInv'
  <2>1. Directory \in survivors /\ Directory.metas = metas
    BY <1>1 DEF DirectoryOK, Directory
  <2>2. OneEach(metas) /\ \A k \in Keys : metas[k] # None => metas[k] <= made
    BY <2>1 DEF Inv, NumberInv
  <2>3. QED
    BY <2>2 DEF Crash, Inv, NumberInv
<1>13. PromiseInv'
  BY DEF Crash, Leave, PromiseInv, AfterPublishing
<1>14. PublishedComplete'
  BY DEF Crash, Inv, PublishedComplete
<1>15. AckedSurvives'
  BY DEF Crash, Inv, AckedSurvives
<1>16. QED
  BY <1>7, <1>8, <1>9, <1>10, <1>11, <1>12, <1>13, <1>14, <1>15 DEF Inv

\* PowerLoss keeps the invariant.
LEMMA PowerLossKeeps ==
  ASSUME TypeOK, Inv, "reread" \notin Faults, "unlink-meta" \notin Faults,
         PowerLoss
  PROVE  TypeOK' /\ Inv'
<1>1. DirectoryOK /\ BackendOK /\ CallOK /\ TodoOK /\ NumbersOK
  BY Parts
<1>2. DirectoryOK'
  BY <1>1 DEF DirectoryOK, Directory, Directories, PowerLoss
<1>3. BackendOK'
  BY <1>1 DEF BackendOK, PowerLoss
<1>4. CallOK'
  BY <1>1 DEF CallOK, PowerLoss, Leave
<1>5. TodoOK'
  BY <1>1 DEF TodoOK, PowerLoss, Leave
<1>6. NumbersOK'
  BY <1>1, StoreAssumption DEF NumbersOK, Directories, DirectoryOK, PowerLoss
<1>7. TypeOK'
  BY <1>2, <1>3, <1>4, <1>5, <1>6, PartsAfter
<1>8. CallInv'
  BY DEF PowerLoss, Leave, CallInv, AfterPublishing, Saving
<1>9. Agree'
  BY DEF PowerLoss, Agree
<1>10. TodoInv'
  BY DEF PowerLoss, Leave, TodoInv
<1>11. FileInv'
  BY DEF PowerLoss, Leave, FileInv
<1>12. NumberInv'
  BY DEF PowerLoss, Inv, NumberInv
<1>13. PromiseInv'
  BY DEF PowerLoss, Leave, PromiseInv, AfterPublishing
<1>14. PublishedComplete'
  BY DEF PowerLoss, Inv, PublishedComplete
<1>15. AckedSurvives'
  BY DEF PowerLoss, Inv, AckedSurvives
<1>16. QED
  BY <1>7, <1>8, <1>9, <1>10, <1>11, <1>12, <1>13, <1>14, <1>15 DEF Inv

\* Nothing happens.
LEMMA StutterKeeps ==
  ASSUME TypeOK, Inv, UNCHANGED vars
  PROVE  TypeOK' /\ Inv'
<1>1. TypeOK'
  BY DEF TypeOK, Directory, vars
<1>2. Inv'
  BY
     DEF vars, Inv, CallInv, Agree, TodoInv, FileInv, NumberInv, PromiseInv, PublishedComplete,
         AckedSurvives, AfterPublishing, Saving, Removing
<1>3. QED
  BY <1>1, <1>2

\* Every step keeps the invariant.
LEMMA NextKeeps ==
  ASSUME TypeOK, Inv, "reread" \notin Faults, "unlink-meta" \notin Faults, [Next]_vars
  PROVE  TypeOK' /\ Inv'
<1>1. CASE UNCHANGED vars
  BY <1>1, StutterKeeps
<1>2. CASE BackendOpens \/ BackendContinues \/ BackendFinishes \/ BackendFails
  BY <1>2, BackendOpensKeeps, BackendContinuesKeeps, BackendFinishesKeeps, BackendFailsKeeps
<1>3. CASE (\E k \in Keys : Save(k)) \/ TimesOut \/ FilesSynced \/ FilesRejected
  BY <1>3, SaveKeeps, TimesOutKeeps, FilesSyncedKeeps, FilesRejectedKeeps
<1>4. CASE MetaReplaced \/ MetaFails \/ DirectorySynced \/ DirectorySyncFails
  BY <1>4, MetaReplacedKeeps, MetaFailsKeeps, DirectorySyncedKeeps, DirectorySyncFailsKeeps
<1>5. CASE KeepPublished \/ DiscardUnpublished \/ Saved
  BY <1>5, KeepPublishedKeeps, DiscardUnpublishedKeeps, SavedKeeps
<1>6. CASE \E k \in Keys : Forget(k) \/ Evict(k)
  BY <1>6, RemoveSnapshotKeeps DEF Forget, Evict
<1>7. CASE Unlinked \/ UnlinkFails \/ AllUnlinked
  BY <1>7, UnlinkedKeeps, UnlinkFailsKeeps, AllUnlinkedKeeps
<1>8. CASE (\E k \in Keys : Touch(k)) \/ (\E o \in {"gc", "settings"} : Clean(o)) \/ Fits
  BY <1>8, TouchKeeps, CleanKeeps, FitsKeeps
<1>9. CASE \E old \in SUBSET Orphans : Collect(old)
  BY <1>9, CollectKeeps
<1>10. CASE Crash \/ PowerLoss
  BY <1>10, CrashKeeps, PowerLossKeeps
<1>11. QED
  BY <1>1, <1>2, <1>3, <1>4, <1>5, <1>6, <1>7, <1>8, <1>9, <1>10 DEF Next

\* The invariant all the theorems below follow from.
THEOREM Invariance ==
  ASSUME "reread" \notin Faults, "unlink-meta" \notin Faults
  PROVE  Spec => [](TypeOK /\ Inv)
<1>1. TypeOK /\ Inv /\ [Next]_vars => (TypeOK /\ Inv)'
  BY NextKeeps
<1>2. QED
  BY InitHolds, <1>1, PTL DEF Spec

\* Every reachable state has the shape TypeOK states.
THEOREM TypeCorrect ==
  ASSUME "reread" \notin Faults, "unlink-meta" \notin Faults
  PROVE  Spec => []TypeOK
<1>1. TypeOK /\ Inv => TypeOK
  OBVIOUS
<1>2. QED
  BY Invariance, <1>1, PTL

\* Archive.entries between calls: no snapshot that a restart would not find.
THEOREM Restartability ==
  ASSUME "reread" \notin Faults, "unlink-meta" \notin Faults
  PROVE  Spec => []EntriesRestartable
<1>1. TypeOK /\ Inv => EntriesRestartable
  BY DEF Inv, Agree, EntriesRestartable
<1>2. QED
  BY Invariance, <1>1, PTL

\* The .meta files that any crash or power loss leaves name complete, synced files.
THEOREM Completeness ==
  ASSUME "reread" \notin Faults, "unlink-meta" \notin Faults
  PROVE  Spec => []PublishedComplete
<1>1. TypeOK /\ Inv => PublishedComplete
  BY DEF Inv
<1>2. QED
  BY Invariance, <1>1, PTL

\* What save() has acknowledged is found again until it is removed.
THEOREM Durability ==
  ASSUME "reread" \notin Faults, "unlink-meta" \notin Faults
  PROVE  Spec => []AckedSurvives
<1>1. TypeOK /\ Inv => AckedSurvives
  BY DEF Inv
<1>2. QED
  BY Invariance, <1>1, PTL

-----------------------------------------------------------------------------
(* The refinement *)

\* An empty archive is an empty catalogue.
LEMMA ImplementsInit == Init => Catalogue!Init
BY DEF Init, Catalogue!Init, NoKeys

\* The replacing of a .meta, its unlink, the return of save(), the start of a removal and a
\* power loss are the catalogue's steps; all others leave it as it is.
LEMMA ImplementsNext ==
  ASSUME TypeOK, Inv, "reread" \notin Faults, "unlink-meta" \notin Faults, [Next]_vars
  PROVE  [Catalogue!Next]_Catalogue!vars
<1>1. DirectoryOK /\ BackendOK /\ CallOK /\ TodoOK /\ NumbersOK
  BY Parts
<1>2. CASE MetaReplaced /\ op = "save"
  <2>1. /\ key \in Keys /\ gen \in Generations /\ gen = made
        /\ metas[key] = entries[key] /\ metas[key] # gen
    BY <1>1, <1>2 DEF MetaReplaced, Inv, CallInv, Saving, Agree, Removing, CallOK
  <2>2. metas[key] # None => metas[key] <= gen
    BY <2>1 DEF Inv, NumberInv
  <2>3. metas' = [metas EXCEPT ![key] = gen] /\ UNCHANGED <<acked, outages>>
    BY <1>2 DEF MetaReplaced, Becomes, Named
  <2>4. Catalogue!Replace(key, gen)
    BY <2>1, <2>2, <2>3, StoreAssumption DEF Catalogue!Replace, Catalogue!NotOlder, Generations
  <2>5. QED
    BY <2>1, <2>4 DEF Catalogue!Next
<1>3. CASE MetaReplaced /\ op # "save"
  BY <1>1, <1>3, DirectoryTyped
     DEF MetaReplaced, Becomes, Named, Inv, Agree, Removing, Catalogue!vars
<1>4. CASE Saved
  <2>1. key \in Keys /\ metas[key] = gen /\ gen # None
    BY <1>1, <1>4 DEF Saved, Inv, CallInv, PromiseInv, AfterPublishing, DirectoryOK, Directory
  <2>2. Catalogue!Promise(key)
    BY <1>4, <2>1 DEF Saved, Catalogue!Promise
  <2>3. QED
    BY <2>1, <2>2 DEF Catalogue!Next
<1>5. CASE \E k \in Keys : Forget(k) \/ Evict(k)
  <2>1. PICK k \in Keys : Forget(k) \/ Evict(k)
    BY <1>5
  <2>2. Catalogue!Withdraw(k)
    BY <2>1 DEF Forget, Evict, RemoveSnapshot, Catalogue!Withdraw
  <2>3. QED
    BY <2>2 DEF Catalogue!Next
<1>6. CASE Unlinked /\ Head(todo) \in Keys
  <2>1. acked[Head(todo)] = None
    BY <1>1, <1>6 DEF Unlinked, TodoOK, Inv, TodoInv
  <2>2. Catalogue!Drop(Head(todo))
    BY <1>6, <2>1 DEF Unlinked, Becomes, Catalogue!Drop
  <2>3. QED
    BY <1>6, <2>2 DEF Catalogue!Next
<1>7. CASE Unlinked /\ Head(todo) \notin Keys
  BY <1>7 DEF Unlinked, Becomes, Catalogue!vars
<1>8. CASE PowerLoss
  <2>1. PICK d \in survivors : metas' = d.metas
    BY <1>8 DEF PowerLoss
  <2>2. metas' \in [Keys -> Generations \cup {None}]
    BY <1>1, <2>1 DEF DirectoryOK, Directories
  <2>3. \A k \in Keys : Catalogue!NotOlder(metas'[k], acked[k])
    BY <2>1 DEF Inv, AckedSurvives, Catalogue!NotOlder
  <2>4. Catalogue!PowerLoss
    BY <1>8, <2>2, <2>3 DEF PowerLoss, Catalogue!PowerLoss
  <2>5. QED
    BY <2>4 DEF Catalogue!Next
<1>9. CASE BackendOpens
  BY <1>9 DEF BackendOpens, Becomes, Catalogue!vars
<1>10. CASE UNCHANGED vars \/ BackendContinues \/ BackendFinishes \/ BackendFails \/ TimesOut
            \/ FilesSynced \/ FilesRejected \/ MetaFails \/ DirectorySynced \/ DirectorySyncFails
  BY <1>10
     DEF vars, BackendContinues, BackendFinishes, BackendFails, TimesOut, FilesSynced,
         FilesRejected, MetaFails, DirectorySynced, DirectorySyncFails, Catalogue!vars
<1>11. CASE \/ KeepPublished \/ DiscardUnpublished \/ UnlinkFails \/ AllUnlinked \/ Fits \/ Crash
            \/ \E k \in Keys : Save(k) \/ Touch(k)
            \/ \E o \in {"gc", "settings"} : Clean(o)
            \/ \E old \in SUBSET Orphans : Collect(old)
  BY <1>11
     DEF KeepPublished, DiscardUnpublished, UnlinkFails, AllUnlinked, Fits, Crash, Save, Touch,
         Clean, Collect, Catalogue!vars
<1>12. QED
  BY <1>2, <1>3, <1>4, <1>5, <1>6, <1>7, <1>8, <1>9, <1>10, <1>11 DEF Next

\* The archive directory implements the catalogue of Snapshots.
THEOREM Refinement ==
  ASSUME "reread" \notin Faults, "unlink-meta" \notin Faults
  PROVE  Spec => ImplementsSnapshots
<1>1. TypeOK /\ Inv /\ [Next]_vars => [Catalogue!Next]_Catalogue!vars
  BY ImplementsNext
<1>2. QED
  BY ImplementsInit, <1>1, Invariance, PTL DEF Spec, ImplementsSnapshots, Catalogue!Spec
=============================================================================
