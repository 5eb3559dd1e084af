--------------------------- MODULE SnapshotStore ---------------------------
(***************************************************************************)
(* The archive directory (kvpark/proxy.py: Archive.save, remove, restore,  *)
(* enforce_capacity, gc, atomic_json).  A snapshot is three files: the     *)
(* backend writes <key>.<uuid>.bin and .bin.resume, then the proxy fsyncs  *)
(* them and renames <key>.meta into place, which publishes the snapshot.   *)
(*                                                                         *)
(* One step is one file operation, so the proxy can die between any two.   *)
(* The backend is another process: it may still be writing when the proxy  *)
(* has given up on it or is gone.  Power loss is modelled with survivors:  *)
(* operations on the directory reach the disk in their order, so what a    *)
(* power loss leaves is a state of the directory since its last fsync, and *)
(* of the files' contents what was fsynced.                                *)
(*                                                                         *)
(* A generation stands for the uuid in a file name; they are numbered in   *)
(* the order the saves start.  The temporary file of atomic_json, contents *)
(* of the metadata other than the file name, sizes and clocks are left     *)
(* out: which snapshot has expired or is over capacity, and which orphan   *)
(* is old enough, are free choices.                                        *)
(***************************************************************************)
EXTENDS Naturals, Sequences, SequencesExt

CONSTANTS
  Keys,            \* conversation keys
  MaxGenerations,  \* bound: saves in a behaviour
  MaxOutages,      \* bound: power losses in a behaviour
  None,            \* no key, no generation, no metadata
  Faults           \* what may go wrong

FaultKinds == {"write", "stock", "timeout", "meta", "dirsync", "reread", "unlink",
               "unlink-meta", "crash"}

Generations == 1..MaxGenerations

Files == Generations \X {"bin", "resume"}

ASSUME StoreAssumption ==
  /\ MaxGenerations \in Nat /\ MaxOutages \in Nat
  /\ None \notin Keys /\ None \notin Nat
  /\ Keys \cap Files = {}
  /\ Faults \subseteq FaultKinds

VARIABLES
  metas,      \* directory: the generation that each key's .meta names
  files,      \* directory: the snapshot files in it
  survivors,  \* the directories a power loss may leave, if power can fail
  whole,      \* files the backend finished writing
  durable,    \* files the proxy has fsynced
  job,        \* the save the backend works on: generation, file, is it open
  entries,    \* Archive.entries
  pc,         \* the next file operation of the lock's owner; "idle": lock free
  op,         \* its call: "save", "touch" (restore's last_used) or cleanup
  key,        \* its key
  gen,        \* save(): the new generation
  todo,       \* the files it still has to unlink
  then,       \* where it goes when they are gone
  made,       \* how many generations there were
  acked,      \* history: the generation whose save returned, until removed
  outages     \* how many power losses there were

directory == <<metas, files, survivors>>
backend == <<whole, job>>
owner == <<op, key, gen, todo, then>>
vars == <<metas, files, survivors, whole, durable, job, entries, pc, op, key, gen, todo, then,
          made, acked, outages>>

-----------------------------------------------------------------------------
FilesOf(g) == {<<g, "bin">>, <<g, "resume">>}

\* save() and remove() unlink the .bin first.
UnlinkOrder(g) == IF g = None THEN <<>> ELSE <<<<g, "bin">>, <<g, "resume">>>>

Directory == [metas |-> metas, files |-> files]

\* An operation on the directory; it is durable when the directory is synced.
Becomes(m, f) ==
  LET now == {[metas |-> m, files |-> f]}
  IN /\ metas' = m
     /\ files' = f
     /\ survivors' = IF outages < MaxOutages THEN survivors \cup now ELSE now

Published == {entries[k] : k \in Keys} \ {None}

NoKeys == [k \in Keys |-> None]

Init ==
  /\ metas = NoKeys
  /\ files = {}
  /\ survivors = {Directory}
  /\ whole = {}
  /\ durable = {}
  /\ job = None
  /\ entries = NoKeys
  /\ pc = "idle"
  /\ op = "save"
  /\ key = None
  /\ gen = None
  /\ todo = <<>>
  /\ then = "idle"
  /\ made = 0
  /\ acked = NoKeys
  /\ outages = 0

\* The call is over, with a result or an exception.
Leave ==
  /\ pc' = "idle"
  /\ op' = "save"
  /\ key' = None
  /\ gen' = None
  /\ todo' = <<>>
  /\ then' = "idle"

Unlink(list, next) ==
  /\ pc' = "unlink"
  /\ todo' = list
  /\ then' = next

-----------------------------------------------------------------------------
(* The backend writes a snapshot (llama.cpp and patches/llama-slot-resume). *)

BackendOpens ==
  /\ job # None /\ ~job.open
  /\ Becomes(metas, files \cup {<<job.gen, job.part>>})
  /\ job' = [job EXCEPT !.open = TRUE]
  /\ UNCHANGED <<whole, durable, entries, pc, owner, made, acked, outages>>

\* The .bin is complete: the .resume is next.
BackendContinues ==
  /\ job # None /\ job.open /\ job.part = "bin"
  /\ whole' = whole \cup {<<job.gen, "bin">>}
  /\ job' = [job EXCEPT !.part = "resume", !.open = FALSE]
  /\ UNCHANGED <<directory, durable, entries, pc, owner, made, acked, outages>>

\* It answers, if the proxy still waits for this save.
Answered(reply) ==
  IF pc = "wait" /\ gen = job.gen
    THEN pc' = reply /\ UNCHANGED owner
    ELSE UNCHANGED <<pc, owner>>

\* All is written; a stock server never writes a .resume.
BackendFinishes ==
  /\ job # None /\ job.open
  /\ job.part = "resume" \/ "stock" \in Faults
  /\ whole' = whole \cup {<<job.gen, job.part>>}
  /\ job' = None
  /\ Answered("sync")
  /\ UNCHANGED <<directory, durable, entries, made, acked, outages>>

\* It reports an error, or dies.
BackendFails ==
  /\ job # None /\ "write" \in Faults
  /\ job' = None
  /\ Answered("reread")
  /\ UNCHANGED <<directory, whole, durable, entries, made, acked, outages>>

-----------------------------------------------------------------------------
(* save() *)

\* slot() answered first, so the backend is not busy with an earlier save.
Save(k) ==
  /\ pc = "idle" /\ job = None
  /\ made < MaxGenerations
  /\ made' = made + 1
  /\ pc' = "wait" /\ op' = "save" /\ key' = k /\ gen' = made + 1
  /\ job' = [gen |-> made + 1, part |-> "bin", open |-> FALSE]
  /\ UNCHANGED <<directory, whole, durable, entries, todo, then, acked, outages>>

\* The POST timed out; the backend does not know.
TimesOut ==
  /\ pc = "wait" /\ "timeout" \in Faults
  /\ pc' = "reread"
  /\ UNCHANGED <<directory, backend, durable, entries, owner, made, acked, outages>>

\* Mutant: the files are not synced.
FilesNotSynced ==
  /\ pc = "sync" /\ FilesOf(gen) \subseteq files
  /\ pc' = "meta"
  /\ UNCHANGED <<directory, backend, durable, entries, owner, made, acked, outages>>

FilesSynced ==
  /\ pc = "sync" /\ FilesOf(gen) \subseteq files
  /\ durable' = durable \cup FilesOf(gen)
  /\ pc' = "meta"
  /\ UNCHANGED <<directory, backend, entries, owner, made, acked, outages>>

\* A file is missing, cannot be synced, or the snapshot exceeds max_gib.
FilesRejected ==
  /\ pc = "sync"
  /\ pc' = "reread"
  /\ UNCHANGED <<directory, backend, durable, entries, owner, made, acked, outages>>

\* The generation that the .meta of this call names.
Named == IF op = "save" THEN gen ELSE entries[key]

\* atomic_json(): the new metadata replaces the old.
MetaReplaced ==
  /\ pc = "meta"
  /\ Becomes([metas EXCEPT ![key] = Named], files)
  /\ pc' = "dirsync"
  /\ UNCHANGED <<backend, durable, entries, owner, made, acked, outages>>

MetaFails ==
  /\ pc = "meta" /\ "meta" \in Faults
  /\ IF op = "save" THEN pc' = "reread" /\ UNCHANGED owner ELSE Leave
  /\ UNCHANGED <<directory, backend, durable, entries, made, acked, outages>>

\* Mutant: the directory is not synced.
DirectoryNotSynced ==
  /\ pc = "dirsync"
  /\ IF op = "save"
       THEN /\ entries' = [entries EXCEPT ![key] = gen]
            /\ Unlink(UnlinkOrder(entries[key]), "evict")
            /\ UNCHANGED <<op, key, gen>>
       ELSE Leave /\ UNCHANGED entries
  /\ UNCHANGED <<directory, backend, durable, made, acked, outages>>

\* atomic_json() returns: the snapshot is published, the previous one retires.
DirectorySynced ==
  /\ pc = "dirsync"
  /\ survivors' = {Directory}
  /\ IF op = "save"
       THEN /\ entries' = [entries EXCEPT ![key] = gen]
            /\ Unlink(UnlinkOrder(entries[key]), "evict")
            /\ UNCHANGED <<op, key, gen>>
       ELSE Leave /\ UNCHANGED entries
  /\ UNCHANGED <<metas, files, backend, durable, made, acked, outages>>

DirectorySyncFails ==
  /\ pc = "dirsync" /\ "dirsync" \in Faults
  /\ IF op = "save" THEN pc' = "reread" /\ UNCHANGED owner ELSE Leave
  /\ UNCHANGED <<directory, backend, durable, entries, made, acked, outages>>

\* Mutant: a failed save always deletes its files.
DiscardAlways ==
  /\ pc = "reread"
  /\ Unlink(UnlinkOrder(gen), "idle")
  /\ UNCHANGED <<directory, backend, durable, entries, op, key, gen, made, acked, outages>>

\* Mutant: the entry in memory is not brought up to date.
KeepPublishedOnDisk ==
  /\ pc = "reread" /\ metas[key] = gen
  /\ Leave
  /\ UNCHANGED <<directory, backend, durable, entries, made, acked, outages>>

\* save() failed: keep what the published metadata names, delete the rest.
KeepPublished ==
  /\ pc = "reread" /\ metas[key] = gen
  /\ entries' = [entries EXCEPT ![key] = gen]
  /\ Leave
  /\ UNCHANGED <<directory, backend, durable, made, acked, outages>>

DiscardUnpublished ==
  /\ pc = "reread"
  /\ metas[key] # gen \/ "reread" \in Faults
  /\ Unlink(UnlinkOrder(gen), "idle")
  /\ UNCHANGED <<directory, backend, durable, entries, op, key, gen, made, acked, outages>>

\* save() returns.
Saved ==
  /\ pc = "evict" /\ op = "save"
  /\ acked' = [acked EXCEPT ![key] = gen]
  /\ Leave
  /\ UNCHANGED <<directory, backend, durable, entries, made, outages>>

-----------------------------------------------------------------------------
(* remove(), and what calls it *)

\* Mutant: the files go before the metadata that names them.
RemoveFilesFirst(k, next) ==
  /\ entries[k] # None
  /\ entries' = [entries EXCEPT ![k] = None]
  /\ acked' = [acked EXCEPT ![k] = None]
  /\ Becomes(metas, files \ FilesOf(entries[k]))
  /\ Unlink(<<k>>, next)
  /\ UNCHANGED <<backend, durable, op, key, gen, made, outages>>

\* remove(): the entry is popped, then the .meta goes, then the files.
RemoveSnapshot(k, next) ==
  /\ entries[k] # None
  /\ entries' = [entries EXCEPT ![k] = None]
  /\ acked' = [acked EXCEPT ![k] = None]
  /\ Unlink(<<k>> \o UnlinkOrder(entries[k]), next)
  /\ UNCHANGED <<directory, backend, durable, op, key, gen, made, outages>>

\* forget(), or a restore that finds the snapshot expired.
Forget(k) == pc = "idle" /\ RemoveSnapshot(k, "idle")

\* enforce_capacity(), which does not choose the snapshot just saved; gc()
\* removes what has expired.
Evict(k) == pc = "evict" /\ k # key /\ RemoveSnapshot(k, "evict")

\* One unlink; a name that is not there is not an error.
Unlinked ==
  /\ pc = "unlink" /\ todo # <<>>
  /\ IF Head(todo) \in Keys
       THEN Becomes([metas EXCEPT ![Head(todo)] = None], files)
       ELSE Becomes(metas, files \ {Head(todo)})
  /\ todo' = Tail(todo)
  /\ UNCHANGED <<backend, durable, entries, pc, op, key, gen, then, made, acked, outages>>

UnlinkFails ==
  /\ pc = "unlink" /\ todo # <<>>
  /\ (IF Head(todo) \in Keys THEN "unlink-meta" ELSE "unlink") \in Faults
  /\ Leave
  /\ UNCHANGED <<directory, backend, durable, entries, made, acked, outages>>

AllUnlinked ==
  /\ pc = "unlink" /\ todo = <<>>
  /\ IF then = "idle" THEN Leave ELSE pc' = then /\ UNCHANGED owner
  /\ UNCHANGED <<directory, backend, durable, entries, made, acked, outages>>

-----------------------------------------------------------------------------
(* restore()'s last_used, gc() and update_retention() *)

Touch(k) ==
  /\ pc = "idle"
  /\ entries[k] # None
  /\ pc' = "meta" /\ op' = "touch" /\ key' = k
  /\ UNCHANGED <<directory, backend, durable, entries, gen, todo, then, made, acked, outages>>

Clean(o) ==
  /\ pc = "idle"
  /\ pc' = "evict" /\ op' = o
  /\ UNCHANGED <<directory, backend, durable, entries, key, gen, todo, then, made, acked, outages>>

\* update_retention() is done when the archive fits.
Fits ==
  /\ pc = "evict" /\ op = "settings"
  /\ Leave
  /\ UNCHANGED <<directory, backend, durable, entries, made, acked, outages>>

\* Mutant: only .bin files are looked for.
OrphanBins == {f \in files : f[1] \notin Published /\ f[2] = "bin"}

\* Files of no published snapshot: what a crash or a late save left.
Orphans == {f \in files : f[1] \notin Published}

\* gc() unlinks those of a set that is old enough.
Collect(old) ==
  /\ pc = "evict" /\ op = "gc"
  /\ Unlink(SetToSeq(old), "idle")
  /\ UNCHANGED <<directory, backend, durable, entries, op, key, gen, made, acked, outages>>

-----------------------------------------------------------------------------
(* Crashes *)

\* The proxy dies and is started again; the backend goes on.
Crash ==
  /\ "crash" \in Faults
  /\ entries' = metas
  /\ Leave
  /\ UNCHANGED <<directory, backend, durable, made, acked, outages>>

\* The machine goes down and comes back.
PowerLoss ==
  /\ outages < MaxOutages
  /\ outages' = outages + 1
  /\ \E d \in survivors :
       /\ metas' = d.metas
       /\ files' = d.files
       /\ survivors' = {d}
       /\ entries' = d.metas
  /\ whole' \in {whole, whole \cap durable}
  /\ job' = None
  /\ Leave
  /\ UNCHANGED <<durable, made, acked>>

-----------------------------------------------------------------------------
Next ==
  \/ BackendOpens \/ BackendContinues \/ BackendFinishes \/ BackendFails
  \/ \E k \in Keys : Save(k)
  \/ TimesOut
  \/ FilesSynced \/ FilesRejected
  \/ MetaReplaced \/ MetaFails
  \/ DirectorySynced \/ DirectorySyncFails
  \/ KeepPublished \/ DiscardUnpublished
  \/ Saved
  \/ \E k \in Keys : Forget(k) \/ Evict(k)
  \/ Unlinked \/ UnlinkFails \/ AllUnlinked
  \/ \E k \in Keys : Touch(k)
  \/ \E o \in {"gc", "settings"} : Clean(o)
  \/ Fits
  \/ \E old \in SUBSET Orphans : Collect(old)
  \/ Crash \/ PowerLoss

Spec == Init /\ [][Next]_vars

\* What the owner of the lock does next, or an error in it.
OwnerStep ==
  \/ TimesOut \/ FilesSynced \/ FilesRejected \/ MetaReplaced \/ MetaFails
  \/ DirectorySynced \/ DirectorySyncFails \/ KeepPublished \/ DiscardUnpublished
  \/ Saved \/ Fits \/ AllUnlinked

\* The backend finishes what it began and the owner of the lock goes on.  The
\* hourly gc thread gets the lock again and again, at the end of its pass an
\* orphan is old enough in the end, and not every unlink of it fails.
Fairness ==
  /\ WF_vars(BackendOpens \/ BackendContinues \/ BackendFinishes)
  /\ WF_vars(OwnerStep)
  /\ SF_vars(Clean("gc"))
  /\ SF_vars(Collect(Orphans))
  /\ SF_vars(Unlinked)

FairSpec == Spec /\ Fairness

-----------------------------------------------------------------------------
(* Properties. *)

Directories == [metas: [Keys -> Generations \cup {None}], files: SUBSET Files]

Jobs == [gen: Generations, part: {"bin", "resume"}, open: BOOLEAN]

\* The shape of the state: the directory, the backend's save, the proxy.
TypeOK ==
  /\ Directory \in survivors
  /\ survivors \subseteq Directories
  /\ whole \subseteq Files
  /\ durable \subseteq Files
  /\ job \in Jobs \cup {None}
  /\ entries \in [Keys -> Generations \cup {None}]
  /\ pc \in {"idle", "wait", "sync", "meta", "dirsync", "reread", "unlink", "evict"}
  /\ op \in {"save", "touch", "gc", "settings"}
  /\ key \in Keys \cup {None}
  /\ gen \in Generations \cup {None}
  /\ todo \in Seq(Keys \cup Files)
  /\ then \in {"idle", "evict"}
  /\ made \in 0..MaxGenerations
  /\ acked \in [Keys -> Generations \cup {None}]
  /\ outages \in 0..MaxOutages

\* Whatever .meta file a restarted proxy finds, after a crash or a power loss
\* at any moment, names two files that are there, complete and on disk.
PublishedComplete ==
  \A d \in survivors, k \in Keys : d.metas[k] # None =>
    /\ FilesOf(d.metas[k]) \subseteq d.files
    /\ FilesOf(d.metas[k]) \subseteq whole \cap durable

\* Between calls memory never claims a snapshot that a restart would not find:
\* no failed save or cleanup leaves Archive.entries ahead of, or behind, what
\* the directory says about a key it still lists.
EntriesRestartable ==
  pc = "idle" => \A k \in Keys : entries[k] # None => metas[k] = entries[k]

\* Once save() has returned, neither a crash nor a power loss nor a later save
\* that fails takes the conversation back behind that snapshot; only a removal
\* does.
AckedSurvives ==
  \A d \in survivors, k \in Keys : acked[k] # None =>
    d.metas[k] # None /\ d.metas[k] >= acked[k]

Unreferenced(f) == f \in files /\ \A k \in Keys : entries[k] # f[1]

\* A file of no snapshot, whoever left it behind, is deleted in the end.
OrphansCollected ==
  \A f \in Files : Unreferenced(f) ~> ~Unreferenced(f)

\* The files implement the catalogue of Snapshots.
Catalogue == INSTANCE Snapshots WITH
  catalogue <- metas, promised <- acked

ImplementsSnapshots == Catalogue!Spec
=============================================================================
