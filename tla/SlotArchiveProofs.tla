------------------------ MODULE SlotArchiveProofs ------------------------
(***************************************************************************)
(* Theorems about SlotArchive, for all keys, models, prompts, save         *)
(* policies and sets of faults.                                            *)
(*                                                                         *)
(* Everything rests on Inductive.  Its parts say which requests reach      *)
(* which step (StepInv), when Archive.identity can be believed (SyncInv)   *)
(* and, at each step, whose newest turn the slot and the file being        *)
(* written hold (OwnerInv); a snapshot is then faithful because it is      *)
(* published from such a file.  One lemma per action of Next shows that it *)
(* preserves each part.                                                    *)
(*                                                                         *)
(* On top of it: Policy, whom a turn finds resident and what a skipped     *)
(* save leaves on disk; ClaimInv and Told, which snapshots the archive     *)
(* still answers for; WeightsInv and SoundInv, what inference runs on.     *)
(* Each is inductive together with Inductive.                              *)
(***************************************************************************)
EXTENDS SlotArchive, TLAPS

-----------------------------------------------------------------------------
(* Types. *)

\* What the archive's constructors build belongs to the sets of the type invariant.
LEMMA ContentTypes ==
  /\ Empty \in Contents
  /\ Unsafe \in Contents
  /\ NoRequest \in Request
  /\ NoRequest \in Requests
  /\ Requests \subseteq Request
  /\ \A k \in Keys \cup {None}, p \in Prompts \cup {None}, m \in Models, b \in BOOLEAN :
       /\ Content("turn", k, p, m, b) \in Contents
       /\ Content("partial", None, None, m, b) \in Contents
BY DEF Empty, Unsafe, Content, Contents, NoRequest, Request, Requests

\* Whether computing on a slot is sound is a Boolean.
LEMMA SoundType ==
  ASSUME slot \in Contents, NEW m
  PROVE  Sound(slot, m) \in BOOLEAN
BY DEF Sound

-----------------------------------------------------------------------------
(* Every action preserves the invariant. *)

\* Inductive is preserved by a turn that takes the lock.
LEMMA TurnInductive ==
  ASSUME Inductive, NEW r \in Requests, Turn(r)
  PROVE  Inductive'
<1> USE ContentTypes DEF Inductive, Turn, Begin, backendVars, memoryVars
<1>1. TypeOK'
  BY DEF TypeOK, BackendTypeOK, OwnerTypeOK, MemoryTypeOK, SnapshotTypeOK
<1>2. StepInv'
  BY DEF StepInv
<1>3. SyncInv'
  BY DEF SyncInv
<1>4. OwnerInv'
  BY DEF OwnerInv, NewestTurn
<1>5. SnapshotsFaithful'
  BY DEF SnapshotsFaithful
<1> QED BY <1>1, <1>2, <1>3, <1>4, <1>5

\* Inductive is preserved by a park that takes the lock.
LEMMA ParkInductive ==
  ASSUME Inductive, NEW o \in {"park", "gap"}, NEW k \in Keys, Park(o, k)
  PROVE  Inductive'
<1> USE DEF Inductive, Park, Begin, backendVars, memoryVars
<1>1. TypeOK'
  BY DEF TypeOK, BackendTypeOK, OwnerTypeOK, MemoryTypeOK, SnapshotTypeOK, Request
<1>2. StepInv'
  BY DEF StepInv
<1>3. SyncInv'
  BY DEF SyncInv
<1>4. OwnerInv'
  BY DEF OwnerInv, NewestTurn
<1>5. SnapshotsFaithful'
  BY DEF SnapshotsFaithful
<1> QED BY <1>1, <1>2, <1>3, <1>4, <1>5

\* Inductive is preserved by the manifest check of a turn.
LEMMA TurnRuntimeInductive ==
  ASSUME Inductive, TurnRuntime
  PROVE  Inductive'
<1> USE DEF Inductive, TurnRuntime, KnowRuntime, KnownDisplaced, backendVars, ownerVars
<1>1. TypeOK'
  BY DEF TypeOK, BackendTypeOK, OwnerTypeOK, MemoryTypeOK, SnapshotTypeOK
<1>2. StepInv'
  BY DEF BackendTypeOK, TypeOK, StepInv
<1>3. SyncInv'
  BY DEF SyncInv
<1>4. OwnerInv'
  BY DEF SyncInv, OwnerInv, NewestTurn
<1>5. SnapshotsFaithful'
  BY DEF SnapshotsFaithful
<1> QED BY <1>1, <1>2, <1>3, <1>4, <1>5

\* Inductive is preserved by the manifest check of a park.
LEMMA ParkRuntimeInductive ==
  ASSUME Inductive, ParkRuntime
  PROVE  Inductive'
<1> USE NoneAssumption, ContentTypes DEF Inductive, ParkRuntime, KnowRuntime, KnownDisplaced,
        Release, backendVars
<1>1. TypeOK'
  BY DEF TypeOK, BackendTypeOK, OwnerTypeOK, MemoryTypeOK, SnapshotTypeOK
<1>2. StepInv'
  BY DEF BackendTypeOK, TypeOK, StepInv
<1>3. SyncInv'
  BY DEF SyncInv
<1>4. OwnerInv'
  BY DEF StepInv, SyncInv, OwnerInv, NewestTurn
<1>5. SnapshotsFaithful'
  BY DEF SnapshotsFaithful
<1> QED BY <1>1, <1>2, <1>3, <1>4, <1>5

\* Inductive is preserved by a failed manifest check.
LEMMA RuntimeFailsInductive ==
  ASSUME Inductive, RuntimeFails
  PROVE  Inductive'
<1> USE ContentTypes DEF Inductive, RuntimeFails, Release, Unavailable, backendVars
<1>1. TypeOK'
  BY DEF TypeOK, BackendTypeOK, OwnerTypeOK, MemoryTypeOK, SnapshotTypeOK
<1>2. StepInv'
  BY DEF StepInv
<1>3. SyncInv'
  BY DEF SyncInv
<1>4. OwnerInv'
  BY DEF OwnerInv, NewestTurn
<1>5. SnapshotsFaithful'
  BY DEF SnapshotsFaithful
<1> QED BY <1>1, <1>2, <1>3, <1>4, <1>5

\* Inductive is preserved by a request of the conversation that owns the
\* slot.
LEMMA SlotStaysInductive ==
  ASSUME Inductive, SlotStays
  PROVE  Inductive'
<1> USE DEF Inductive, SlotStays, backendVars, ownerVars
<1>1. TypeOK'
  BY DEF TypeOK, BackendTypeOK, OwnerTypeOK, MemoryTypeOK, SnapshotTypeOK
<1>2. StepInv'
  BY DEF StepInv
<1>3. SyncInv'
  BY DEF SyncInv
<1>4. OwnerInv'
  BY DEF OwnerInv
<1>5. SnapshotsFaithful'
  BY DEF SnapshotsFaithful
<1> QED BY <1>1, <1>2, <1>3, <1>4, <1>5

\* Inductive is preserved by the decision to displace the slot's owner.
LEMMA SlotChangesInductive ==
  ASSUME Inductive, SlotChanges
  PROVE  Inductive'
<1> USE DEF Inductive, SlotChanges, backendVars
<1>1. TypeOK'
  BY DEF TypeOK, BackendTypeOK, OwnerTypeOK, MemoryTypeOK, SnapshotTypeOK
<1>2. StepInv'
  BY DEF TypeOK, MemoryTypeOK, StepInv
<1>3. SyncInv'
  BY DEF SyncInv
<1>4. OwnerInv'
  BY DEF OwnerInv, NewestTurn
<1>5. SnapshotsFaithful'
  BY DEF SnapshotsFaithful
<1> QED BY <1>1, <1>2, <1>3, <1>4, <1>5

\* Inductive is preserved by a failed look at the slot.
LEMMA SlotFailsInductive ==
  ASSUME Inductive, SlotFails
  PROVE  Inductive'
<1> USE DEF Inductive, SlotFails, Unavailable, backendVars
<1>1. TypeOK'
  BY DEF TypeOK, BackendTypeOK, OwnerTypeOK, MemoryTypeOK, SnapshotTypeOK
<1>2. StepInv'
  BY DEF StepInv
<1>3. SyncInv'
  BY DEF SyncInv
<1>4. OwnerInv'
  BY DEF OwnerInv
<1>5. SnapshotsFaithful'
  BY DEF SnapshotsFaithful
<1> QED BY <1>1, <1>2, <1>3, <1>4, <1>5

\* Inductive is preserved by a save that the policy does not want.
LEMMA SaveUnwantedInductive ==
  ASSUME Inductive, SaveUnwanted
  PROVE  Inductive'
<1> USE ContentTypes DEF Inductive, SaveUnwanted, AfterSave, Release, backendVars, memoryVars
<1>1. TypeOK'
  BY DEF TypeOK, BackendTypeOK, OwnerTypeOK, MemoryTypeOK, SnapshotTypeOK, StepInv
<1>2. StepInv'
  BY DEF StepInv
<1>3. SyncInv'
  BY DEF SyncInv
<1>4. OwnerInv'
  BY DEF OwnerInv, NewestTurn
<1>5. SnapshotsFaithful'
  BY DEF SnapshotsFaithful
<1> QED BY <1>1, <1>2, <1>3, <1>4, <1>5

\* Inductive is preserved by the decision to save: the slot holds the owner's
\* newest turn.
LEMMA SaveWantedInductive ==
  ASSUME Inductive, SaveWanted
  PROVE  Inductive'
<1> USE DEF Inductive, SaveWanted, Savable, backendVars, memoryVars, ownerVars
<1>1. TypeOK'
  BY DEF TypeOK, BackendTypeOK, OwnerTypeOK, MemoryTypeOK, SnapshotTypeOK
<1>2. StepInv'
  BY DEF StepInv
<1>3. SyncInv'
  BY DEF SyncInv
<1>4. OwnerInv'
  BY DEF Tokens, OwnerInv, NewestTurn
<1>5. SnapshotsFaithful'
  BY DEF SnapshotsFaithful
<1> QED BY <1>1, <1>2, <1>3, <1>4, <1>5

\* Inductive is preserved by the backend's save: what it wrote is the
\* owner's newest turn, or an empty slot if the backend restarted.
LEMMA SavePostedInductive ==
  ASSUME Inductive, SavePosted
  PROVE  Inductive'
<1> USE DEF Inductive, SavePosted, backendVars, memoryVars
<1>1. TypeOK'
  BY DEF TypeOK, BackendTypeOK, OwnerTypeOK, MemoryTypeOK, SnapshotTypeOK
<1>2. StepInv'
  BY DEF StepInv
<1>3. SyncInv'
  BY DEF SyncInv
<1>4. OwnerInv'
  BY DEF Tokens, OwnerInv, NewestTurn
<1>5. SnapshotsFaithful'
  BY DEF SnapshotsFaithful
<1> QED BY <1>1, <1>2, <1>3, <1>4, <1>5

\* Inductive is preserved by a save that fails before its metadata is
\* written.
LEMMA SaveFailsInductive ==
  ASSUME Inductive, SaveFails
  PROVE  Inductive'
<1> USE ContentTypes DEF Inductive, SaveFails, AfterSaveFailed, Release, backendVars, memoryVars
<1>1. TypeOK'
  BY DEF TypeOK, BackendTypeOK, OwnerTypeOK, MemoryTypeOK, SnapshotTypeOK
<1>2. StepInv'
  BY DEF StepInv
<1>3. SyncInv'
  BY DEF SyncInv
<1>4. OwnerInv'
  BY DEF OwnerInv, NewestTurn
<1>5. SnapshotsFaithful'
  BY DEF SnapshotsFaithful
<1> QED BY <1>1, <1>2, <1>3, <1>4, <1>5

\* Inductive is preserved by a published save: the entry is what was
\* written, under the key it was written for.
LEMMA PublishedInductive ==
  ASSUME Inductive, Published
  PROVE  Inductive'
<1> USE ContentTypes DEF Inductive, Published, AfterSave, Release, PublishedEntries, Without,
        backendVars, memoryVars
<1>1. TypeOK'
  <2>1. BackendTypeOK'
    BY DEF TypeOK, BackendTypeOK
  <2>2. OwnerTypeOK'
    BY DEF TypeOK, OwnerTypeOK
  <2>3. MemoryTypeOK'
    BY DEF TypeOK, MemoryTypeOK, StepInv
  <2>4. SnapshotTypeOK'
    BY DEF TypeOK, SnapshotTypeOK, OwnerTypeOK, MemoryTypeOK, Entry, StepInv, OwnerInv
  <2> QED BY <2>1, <2>2, <2>3, <2>4 DEF TypeOK
<1>2. StepInv'
  BY DEF StepInv
<1>3. SyncInv'
  BY DEF SyncInv
<1>4. OwnerInv'
  BY DEF OwnerInv, NewestTurn
<1>5. SnapshotsFaithful'
  BY DEF OwnerInv, NewestTurn, SnapshotsFaithful
<1> QED BY <1>1, <1>2, <1>3, <1>4, <1>5

\* Inductive is preserved by a failed publication, visible or not.
LEMMA PublishFailsInductive ==
  ASSUME Inductive, PublishFails
  PROVE  Inductive'
<1> USE ContentTypes DEF Inductive, PublishFails, AfterSaveFailed, Release, PublishedEntries,
        backendVars, memoryVars
<1>1. TypeOK'
  <2>1. BackendTypeOK'
    BY DEF TypeOK, BackendTypeOK
  <2>2. OwnerTypeOK'
    BY DEF TypeOK, OwnerTypeOK
  <2>3. MemoryTypeOK'
    BY DEF TypeOK, MemoryTypeOK
  <2>4. SnapshotTypeOK'
    BY DEF TypeOK, SnapshotTypeOK, OwnerTypeOK, MemoryTypeOK, Entry, StepInv, OwnerInv
  <2> QED BY <2>1, <2>2, <2>3, <2>4 DEF TypeOK
<1>2. StepInv'
  BY DEF StepInv
<1>3. SyncInv'
  BY DEF SyncInv
<1>4. OwnerInv'
  BY DEF OwnerInv, NewestTurn
<1>5. SnapshotsFaithful'
  BY DEF TypeOK, SnapshotTypeOK, OwnerInv, NewestTurn, SnapshotsFaithful
<1> QED BY <1>1, <1>2, <1>3, <1>4, <1>5

\* Inductive is preserved by simulate-gap's erase.
LEMMA GapErasedInductive ==
  ASSUME Inductive, GapErased
  PROVE  Inductive'
<1> USE ContentTypes DEF Inductive, GapErased, Release
<1>1. TypeOK'
  BY DEF TypeOK, BackendTypeOK, OwnerTypeOK, MemoryTypeOK, SnapshotTypeOK, StepInv
<1>2. StepInv'
  BY DEF StepInv
<1>3. SyncInv'
  BY DEF SyncInv
<1>4. OwnerInv'
  BY DEF OwnerInv
<1>5. SnapshotsFaithful'
  BY DEF SnapshotsFaithful
<1> QED BY <1>1, <1>2, <1>3, <1>4, <1>5

\* Inductive is preserved by an erase that failed, or whose answer was lost.
LEMMA GapEraseFailsInductive ==
  ASSUME Inductive, GapEraseFails
  PROVE  Inductive'
<1> USE ContentTypes DEF Inductive, GapEraseFails, Release, memoryVars
<1>1. TypeOK'
  BY DEF TypeOK, BackendTypeOK, OwnerTypeOK, MemoryTypeOK, SnapshotTypeOK
<1>2. StepInv'
  BY DEF StepInv
<1>3. SyncInv'
  BY DEF SyncInv
<1>4. OwnerInv'
  BY DEF OwnerInv, NewestTurn, Content, Empty
<1>5. SnapshotsFaithful'
  BY DEF SnapshotsFaithful
<1> QED BY <1>1, <1>2, <1>3, <1>4, <1>5

\* Inductive is preserved by background work restoring nothing.
LEMMA RestoreNobodyInductive ==
  ASSUME Inductive, RestoreNobody
  PROVE  Inductive'
<1> USE DEF Inductive, RestoreNobody, backendVars, ownerVars, memoryVars
<1>1. TypeOK'
  BY DEF TypeOK, BackendTypeOK, OwnerTypeOK, MemoryTypeOK, SnapshotTypeOK
<1>2. StepInv'
  BY DEF StepInv
<1>3. SyncInv'
  BY DEF SyncInv
<1>4. OwnerInv'
  BY DEF OwnerInv
<1>5. SnapshotsFaithful'
  BY DEF SnapshotsFaithful
<1> QED BY <1>1, <1>2, <1>3, <1>4, <1>5

\* Inductive is preserved by a restore without a usable snapshot.
LEMMA RestoreSkippedInductive ==
  ASSUME Inductive, RestoreSkipped
  PROVE  Inductive'
<1> USE DEF Inductive, RestoreSkipped, NotRestored, backendVars, ownerVars, memoryVars
<1>1. TypeOK'
  BY DEF TypeOK, BackendTypeOK, OwnerTypeOK, MemoryTypeOK, SnapshotTypeOK
<1>2. StepInv'
  BY DEF StepInv
<1>3. SyncInv'
  BY DEF SyncInv
<1>4. OwnerInv'
  BY DEF OwnerInv
<1>5. SnapshotsFaithful'
  BY DEF SnapshotsFaithful
<1> QED BY <1>1, <1>2, <1>3, <1>4, <1>5

\* Inductive is preserved by a restore that finds the snapshot expired.
LEMMA RestoreExpiredInductive ==
  ASSUME Inductive, RestoreExpired
  PROVE  Inductive'
<1> USE DEF Inductive, RestoreExpired, NotRestored, Without, backendVars, ownerVars, memoryVars
<1>1. TypeOK'
  BY DEF TypeOK, BackendTypeOK, OwnerTypeOK, MemoryTypeOK, SnapshotTypeOK
<1>2. StepInv'
  BY DEF StepInv
<1>3. SyncInv'
  BY DEF SyncInv
<1>4. OwnerInv'
  BY DEF OwnerInv
<1>5. SnapshotsFaithful'
  BY DEF SnapshotsFaithful
<1> QED BY <1>1, <1>2, <1>3, <1>4, <1>5

\* Inductive is preserved by a restore: nobody owns the slot until the reply
\* is complete.
LEMMA RestoreLoadsInductive ==
  ASSUME Inductive, RestoreLoads
  PROVE  Inductive'
<1> USE DEF Inductive, RestoreLoads, Usable, ownerVars, memoryVars
<1>1. TypeOK'
  BY DEF TypeOK, BackendTypeOK, OwnerTypeOK, MemoryTypeOK, SnapshotTypeOK, Entry, Request
<1>2. StepInv'
  BY DEF StepInv
<1>3. SyncInv'
  BY DEF SyncInv
<1>4. OwnerInv'
  BY DEF OwnerInv
<1>5. SnapshotsFaithful'
  BY DEF SnapshotsFaithful
<1> QED BY <1>1, <1>2, <1>3, <1>4, <1>5

\* Inductive is preserved by the rewrite of last_used.
LEMMA TouchedInductive ==
  ASSUME Inductive, Touched
  PROVE  Inductive'
<1> USE DEF Inductive, Touched, backendVars, ownerVars, memoryVars
<1>1. TypeOK'
  BY DEF TypeOK, BackendTypeOK, OwnerTypeOK, MemoryTypeOK, SnapshotTypeOK
<1>2. StepInv'
  BY DEF StepInv
<1>3. SyncInv'
  BY DEF SyncInv
<1>4. OwnerInv'
  BY DEF OwnerInv
<1>5. SnapshotsFaithful'
  BY DEF SnapshotsFaithful
<1> QED BY <1>1, <1>2, <1>3, <1>4, <1>5

\* Inductive is preserved by a failed rewrite of last_used.
LEMMA TouchFailsInductive ==
  ASSUME Inductive, TouchFails
  PROVE  Inductive'
<1> USE DEF Inductive, TouchFails, Unavailable, backendVars
<1>1. TypeOK'
  <2>1. BackendTypeOK'
    BY DEF TypeOK, BackendTypeOK
  <2>2. OwnerTypeOK'
    BY DEF TypeOK, OwnerTypeOK
  <2>3. MemoryTypeOK'
    BY DEF TypeOK, MemoryTypeOK
  <2>4. SnapshotTypeOK'
    BY DEF TypeOK, SnapshotTypeOK
  <2> QED BY <2>1, <2>2, <2>3, <2>4 DEF TypeOK
<1>2. StepInv'
  BY DEF StepInv
<1>3. SyncInv'
  BY DEF SyncInv
<1>4. OwnerInv'
  BY DEF OwnerInv
<1>5. SnapshotsFaithful'
  BY DEF SnapshotsFaithful
<1> QED BY <1>1, <1>2, <1>3, <1>4, <1>5

\* Inductive is preserved by a seed that is not used.
LEMMA SeedSkippedInductive ==
  ASSUME Inductive, SeedSkipped
  PROVE  Inductive'
<1> USE DEF Inductive, SeedSkipped, backendVars, ownerVars, memoryVars
<1>1. TypeOK'
  BY DEF TypeOK, BackendTypeOK, OwnerTypeOK, MemoryTypeOK, SnapshotTypeOK
<1>2. StepInv'
  BY DEF StepInv
<1>3. SyncInv'
  BY DEF SyncInv
<1>4. OwnerInv'
  BY DEF OwnerInv
<1>5. SnapshotsFaithful'
  BY DEF SnapshotsFaithful
<1> QED BY <1>1, <1>2, <1>3, <1>4, <1>5

\* Inductive is preserved by a seed from another conversation: nobody owns
\* the slot.
LEMMA SeedLoadsInductive ==
  ASSUME Inductive, SeedLoads
  PROVE  Inductive'
<1> USE DEF Inductive, SeedLoads, Seeds, Usable, ownerVars, memoryVars
<1>1. TypeOK'
  BY DEF TypeOK, BackendTypeOK, OwnerTypeOK, MemoryTypeOK, SnapshotTypeOK, Entry
<1>2. StepInv'
  BY DEF StepInv
<1>3. SyncInv'
  BY DEF SyncInv
<1>4. OwnerInv'
  BY DEF OwnerInv
<1>5. SnapshotsFaithful'
  BY DEF SnapshotsFaithful
<1> QED BY <1>1, <1>2, <1>3, <1>4, <1>5

\* Inductive is preserved by a failed restore whose slot was erased.
LEMMA LoadFailsInductive ==
  ASSUME Inductive, LoadFails
  PROVE  Inductive'
<1> USE ContentTypes DEF Inductive, LoadFails, Unavailable, Loading, Loadable
<1>1. TypeOK'
  <2>1. BackendTypeOK'
    BY DEF TypeOK, BackendTypeOK
  <2>2. OwnerTypeOK'
    BY DEF TypeOK, OwnerTypeOK
  <2>3. MemoryTypeOK'
    BY DEF TypeOK, MemoryTypeOK
  <2>4. SnapshotTypeOK'
    BY DEF TypeOK, SnapshotTypeOK
  <2> QED BY <2>1, <2>2, <2>3, <2>4 DEF TypeOK
<1>2. StepInv'
  BY DEF StepInv
<1>3. SyncInv'
  BY DEF SyncInv
<1>4. OwnerInv'
  BY DEF OwnerInv
<1>5. SnapshotsFaithful'
  BY DEF SnapshotsFaithful
<1> QED BY <1>1, <1>2, <1>3, <1>4, <1>5

\* Inductive is preserved by a failed restore whose slot was not erased:
\* nobody owns it.
LEMMA LoadUnsafeInductive ==
  ASSUME Inductive, LoadUnsafe
  PROVE  Inductive'
<1> USE ContentTypes DEF Inductive, LoadUnsafe, Release
<1>1. TypeOK'
  BY DEF TypeOK, BackendTypeOK, OwnerTypeOK, MemoryTypeOK, SnapshotTypeOK
<1>2. StepInv'
  BY DEF StepInv
<1>3. SyncInv'
  BY DEF SyncInv
<1>4. OwnerInv'
  BY DEF OwnerInv
<1>5. SnapshotsFaithful'
  BY DEF SnapshotsFaithful
<1> QED BY <1>1, <1>2, <1>3, <1>4, <1>5

\* Inductive is preserved by a completed reply: its conversation owns the
\* slot, at this prompt.
LEMMA CompletedInductive ==
  ASSUME Inductive, Completed
  PROVE  Inductive'
<1> USE ContentTypes DEF Inductive, Completed, Release
<1>1. TypeOK'
  BY SoundType DEF TypeOK, BackendTypeOK, OwnerTypeOK, MemoryTypeOK, SnapshotTypeOK, Request
<1>2. StepInv'
  BY DEF StepInv
<1>3. SyncInv'
  BY DEF SyncInv
<1>4. OwnerInv'
  BY DEF TypeOK, SnapshotTypeOK, StepInv, SyncInv, OwnerInv, NewestTurn, Content, Requests
<1>5. SnapshotsFaithful'
  BY DEF SnapshotsFaithful
<1> QED BY <1>1, <1>2, <1>3, <1>4, <1>5

\* Inductive is preserved by a failed reply: nobody owns the slot.
LEMMA UpstreamFailsInductive ==
  ASSUME Inductive, UpstreamFails
  PROVE  Inductive'
<1> USE ContentTypes DEF Inductive, UpstreamFails, Release
<1>1. TypeOK'
  <2>1. BackendTypeOK'
    BY SoundType DEF TypeOK, BackendTypeOK
  <2>2. OwnerTypeOK'
    BY DEF OwnerTypeOK
  <2>3. MemoryTypeOK'
    BY DEF TypeOK, MemoryTypeOK
  <2>4. SnapshotTypeOK'
    BY DEF TypeOK, SnapshotTypeOK
  <2> QED BY <2>1, <2>2, <2>3, <2>4 DEF TypeOK
<1>2. StepInv'
  BY DEF StepInv
<1>3. SyncInv'
  BY DEF SyncInv
<1>4. OwnerInv'
  BY DEF OwnerInv
<1>5. SnapshotsFaithful'
  BY DEF SnapshotsFaithful
<1> QED BY <1>1, <1>2, <1>3, <1>4, <1>5

\* Inductive is preserved by gc() and update_retention().
LEMMA CleanupInductive ==
  ASSUME Inductive, Cleanup
  PROVE  Inductive'
<1> USE DEF Inductive, Cleanup, Without, backendVars, ownerVars, memoryVars
<1>1. TypeOK'
  BY DEF TypeOK, BackendTypeOK, OwnerTypeOK, MemoryTypeOK, SnapshotTypeOK
<1>2. StepInv'
  BY DEF StepInv
<1>3. SyncInv'
  BY DEF SyncInv
<1>4. OwnerInv'
  BY DEF OwnerInv, NewestTurn
<1>5. SnapshotsFaithful'
  BY DEF SnapshotsFaithful
<1> QED BY <1>1, <1>2, <1>3, <1>4, <1>5

\* Inductive is preserved by a crash and restart of the proxy: its memory is
\* empty, a .meta may just have been published.
LEMMA ProxyRestartsInductive ==
  ASSUME Inductive, ProxyRestarts
  PROVE  Inductive'
<1> USE NoneAssumption, ContentTypes DEF Inductive, ProxyRestarts, Release, PublishedEntries,
        Interrupted, Loadable
<1>1. TypeOK'
  <2>1. BackendTypeOK'
    <3>1. Loadable \subseteq Contents
      BY DEF Seeds, Usable, TypeOK, OwnerTypeOK, SnapshotTypeOK, Request, Entry
    <3>2. Interrupted \subseteq Contents
      BY <3>1, SoundType DEF TypeOK, BackendTypeOK
    <3> QED BY <3>2 DEF TypeOK, BackendTypeOK
  <2>2. OwnerTypeOK'
    BY DEF OwnerTypeOK
  <2>3. MemoryTypeOK'
    BY DEF MemoryTypeOK
  <2>4. SnapshotTypeOK'
    BY DEF TypeOK, SnapshotTypeOK, OwnerTypeOK, MemoryTypeOK, Entry, StepInv, OwnerInv
  <2> QED BY <2>1, <2>2, <2>3, <2>4 DEF TypeOK
<1>2. StepInv'
  BY DEF StepInv
<1>3. SyncInv'
  BY DEF SyncInv
<1>4. OwnerInv'
  BY DEF OwnerInv
<1>5. SnapshotsFaithful'
  BY DEF TypeOK, SnapshotTypeOK, OwnerInv, NewestTurn, SnapshotsFaithful
<1> QED BY <1>1, <1>2, <1>3, <1>4, <1>5

\* Inductive is preserved by forget().
LEMMA ForgetInductive ==
  ASSUME Inductive, NEW k \in Keys, Forget(k)
  PROVE  Inductive'
<1> USE DEF Inductive, Forget, Without, backendVars, ownerVars, memoryVars
<1>1. TypeOK'
  BY DEF TypeOK, BackendTypeOK, OwnerTypeOK, MemoryTypeOK, SnapshotTypeOK
<1>2. StepInv'
  BY DEF StepInv
<1>3. SyncInv'
  BY DEF SyncInv
<1>4. OwnerInv'
  BY DEF OwnerInv, NewestTurn
<1>5. SnapshotsFaithful'
  BY DEF SnapshotsFaithful
<1> QED BY <1>1, <1>2, <1>3, <1>4, <1>5

\* Inductive is preserved by a restart of the backend: its slot is empty,
\* whoever the archive thinks owns it.
LEMMA BackendRestartsInductive ==
  ASSUME Inductive, NEW m \in Models, BackendRestarts(m)
  PROVE  Inductive'
<1> USE ContentTypes DEF Inductive, BackendRestarts, ownerVars
<1>1. TypeOK'
  <2>1. BackendTypeOK'
    BY DEF BackendTypeOK
  <2>2. OwnerTypeOK'
    BY DEF TypeOK, OwnerTypeOK
  <2>3. MemoryTypeOK'
    BY DEF TypeOK, MemoryTypeOK
  <2>4. SnapshotTypeOK'
    BY DEF TypeOK, SnapshotTypeOK
  <2> QED BY <2>1, <2>2, <2>3, <2>4 DEF TypeOK
<1>2. StepInv'
  BY DEF StepInv
<1>3. SyncInv'
  BY DEF SyncInv
<1>4. OwnerInv'
  BY DEF OwnerInv, NewestTurn, Content, Empty
<1>5. SnapshotsFaithful'
  BY DEF SnapshotsFaithful
<1> QED BY <1>1, <1>2, <1>3, <1>4, <1>5

-----------------------------------------------------------------------------
(* The theorems. *)

\* The invariant holds when the proxy has just started.
LEMMA InductiveInit == Init => Inductive
<1> SUFFICES ASSUME Init PROVE Inductive
  OBVIOUS
<1> USE ContentTypes DEF Init
<1>1. TypeOK
  BY DEF TypeOK, BackendTypeOK, OwnerTypeOK, MemoryTypeOK, SnapshotTypeOK
<1>2. StepInv /\ SyncInv /\ OwnerInv /\ SnapshotsFaithful
  BY DEF StepInv, SyncInv, OwnerInv, SnapshotsFaithful
<1> QED BY <1>1, <1>2 DEF Inductive

\* Inductive is preserved by a step that changes nothing.
LEMMA StutterInductive ==
  ASSUME Inductive, UNCHANGED vars
  PROVE  Inductive'
BY DEF vars, Inductive, TypeOK, BackendTypeOK, OwnerTypeOK, MemoryTypeOK, SnapshotTypeOK, StepInv,
   SyncInv, OwnerInv, NewestTurn, SnapshotsFaithful

\* Every step of the lock's owner, the archive's other users and the environment
\* preserves the invariant.
LEMMA InductiveStep == Inductive /\ [Next]_vars => Inductive'
BY TurnInductive, ParkInductive, TurnRuntimeInductive, ParkRuntimeInductive,
   RuntimeFailsInductive, SlotStaysInductive, SlotChangesInductive, SlotFailsInductive,
   SaveUnwantedInductive, SaveWantedInductive, SavePostedInductive, SaveFailsInductive, PublishedInductive,
   PublishFailsInductive, GapErasedInductive, GapEraseFailsInductive, RestoreNobodyInductive,
   RestoreSkippedInductive, RestoreExpiredInductive, RestoreLoadsInductive, TouchedInductive,
   TouchFailsInductive, SeedSkippedInductive, SeedLoadsInductive, LoadFailsInductive,
   LoadUnsafeInductive, CompletedInductive, UpstreamFailsInductive, ForgetInductive,
   CleanupInductive, BackendRestartsInductive, ProxyRestartsInductive, StutterInductive DEF Next

\* The inductive invariant holds in every behaviour, whatever fails and restarts: for
\* any keys, models, prompts, save policy and set of faults.
THEOREM InductiveInvariance == Spec => []Inductive
BY InductiveInit, InductiveStep, PTL DEF Spec

\* Every reachable state has the shape TypeOK states.
THEOREM TypeCorrect == Spec => []TypeOK
<1>1. Inductive => TypeOK
  BY DEF Inductive
<1> QED BY <1>1, InductiveInvariance, PTL

\* Archive.save and Archive.restore: a published snapshot holds the conversation,
\* prompt and weights its metadata names, whatever fails and restarts; or nothing,
\* when a restart between the two requests of a save is among the faults.
THEOREM Faithfulness == Spec => []SnapshotsFaithful
<1>1. Inductive => SnapshotsFaithful
  BY DEF Inductive
<1> QED BY <1>1, InductiveInvariance, PTL

\* Handler.relay's current_key: between requests, a slot that is not empty holds the
\* newest turn of the conversation the archive believes resident.
THEOREM Ownership == Spec => []OwnerHoldsSlot
<1>1. Inductive => OwnerHoldsSlot
  BY DEF Inductive, OwnerInv, NewestTurn, OwnerHoldsSlot
<1> QED BY <1>1, InductiveInvariance, PTL

\* What a step may do to the snapshots.
SnapshotStep ==
  \A k \in Keys : entries'[k] # entries[k] /\ entries'[k] # None =>
    entries'[k].content = latest[k]

\* What a save publishes under its key is that conversation's newest turn.
LEMMA PublishedEntriesLatest ==
  ASSUME Inductive, "blank" \notin Faults, pc = "publish", NEW k \in Keys,
         PublishedEntries[k] # entries[k]
  PROVE  PublishedEntries[k].content = latest[k]
BY DEF Inductive, OwnerInv, NewestTurn, PublishedEntries

\* From the invariant, every step satisfies SnapshotStep: only save() and a crash
\* during it put a new snapshot under a key.
LEMMA SnapshotStepHolds ==
  ASSUME Inductive, "blank" \notin Faults, [Next]_vars
  PROVE  SnapshotStep
<1>1. CASE entries' = entries
  BY <1>1 DEF SnapshotStep
<1>2. CASE Published
  <2>1. PICK evicted \in SUBSET (Keys \ {outgoing}) :
          entries' = Without(PublishedEntries, evicted)
    BY <1>2 DEF Published
  <2>2. pc = "publish"
    BY <1>2 DEF Published
  <2> QED BY <2>1, <2>2, PublishedEntriesLatest DEF SnapshotStep, Without
<1>3. CASE PublishFails
  BY <1>3, PublishedEntriesLatest DEF SnapshotStep, PublishFails
<1>4. CASE ProxyRestarts
  BY <1>4, PublishedEntriesLatest DEF SnapshotStep, ProxyRestarts
<1>5. CASE RestoreExpired \/ Cleanup \/ \E k \in Keys : Forget(k)
  <2>1. \E gone : entries' = Without(entries, gone)
    BY <1>5 DEF RestoreExpired, Cleanup, Forget
  <2> QED BY <2>1 DEF SnapshotStep, Without
<1> QED
  BY <1>1, <1>2, <1>3, <1>4, <1>5 DEF Next, vars, Turn, Park, Begin, TurnRuntime, ParkRuntime,
     RuntimeFails, SlotStays, SlotChanges, SlotFails, SaveUnwanted, SaveWanted, SavePosted, SaveFails,
     GapErased, GapEraseFails, RestoreNobody, RestoreSkipped, RestoreLoads, Touched, TouchFails,
     SeedSkipped, SeedLoads, LoadFails, LoadUnsafe, Completed, UpstreamFails, BackendRestarts

\* Archive.save never publishes anything but a conversation's newest completed turn,
\* so no order of failures lets an older state overwrite a snapshot, as long as the
\* backend does not restart between the two requests of a save.
THEOREM NewestSaved ==
  ASSUME "blank" \notin Faults
  PROVE  Spec => SavesAreLatest
<1>1. Inductive /\ [Next]_vars => [SnapshotStep]_vars
  BY SnapshotStepHolds
<1> QED BY <1>1, InductiveInvariance, PTL DEF Spec, SavesAreLatest, SnapshotStep

-----------------------------------------------------------------------------
(* The operators of the policy. *)

\* The number of tokens of any content is a natural number, and none means that the slot is empty.
LEMMA TokensNat ==
  ASSUME NEW c \in Contents
  PROVE  Tokens(c) \in Nat /\ (Tokens(c) # 0 => c.kind # "empty")
BY PromptsAssumption DEF Tokens, Contents

\* A conversation continues itself.
LEMMA ContinuesItself ==
  ASSUME NEW p \in Prompts
  PROVE  Continues(p, p)
<1>1. p.messages \in Seq(Messages)
  BY PromptsAssumption
<1> QED BY <1>1 DEF Continues, IsPrefix

\* A snapshot with the tokens and the prompt of the slot holds what the slot's owner said last.
LEMMA IdenticalParked ==
  ASSUME Inductive, pc = "slot", current # None, Tokens(slot) # 0, Identical(entries[current])
  PROVE  Parked(current) /\ (prompt # None => Resumable(current))
<1> USE DEF Inductive, TypeOK, BackendTypeOK, MemoryTypeOK, SnapshotTypeOK
<1>1. current \in Keys /\ slot.kind # "empty" /\ entries[current] # None
  BY TokensNat DEF Identical
<1>2. NewestTurn(slot, current) /\ slot.weights = identity
  BY <1>1 DEF OwnerInv
<1>3. entries[current].content # Empty
  BY DEF Identical, Tokens, Empty, Content
<1>4. Parked(current)
  BY <1>1, <1>2, <1>3 DEF Parked, SameTurn, NewestTurn, SnapshotsFaithful, Identical
<1>5. prompt # None => Continues(prompt, prompt)
  BY ContinuesItself
<1>6. prompt # None => Resumable(current)
  BY <1>1, <1>4, <1>5 DEF Resumable, Usable, Identical
<1> QED BY <1>4, <1>6

\* A save that nobody wants leaves a snapshot that is at most Growth tokens behind, or none.
LEMMA UnwantedResumable ==
  ASSUME Inductive, pc = "save", Savable, ~Wanted(entries[outgoing])
  PROVE  Resumable(outgoing)
<1> USE DEF Inductive, TypeOK, BackendTypeOK, OwnerTypeOK, MemoryTypeOK, SnapshotTypeOK
<1>1. outgoing \in Keys /\ slot.kind # "empty" /\ identity \in Models
  BY TokensNat DEF StepInv, Savable
<1>2. slot = latest[outgoing]
  BY <1>1 DEF OwnerInv, NewestTurn
<1>3. CASE entries[outgoing] = None
  BY <1>2, <1>3 DEF Resumable, Wanted
<1>4. CASE entries[outgoing] # None
  <2>1. entries[outgoing] \in Entry /\ entries[outgoing].content \in Contents
    BY <1>1, <1>4 DEF Entry
  <2>2. Tokens(slot) \in Nat /\ Tokens(entries[outgoing].content) \in Nat
    BY <2>1, TokensNat
  <2>3. Tokens(latest[outgoing]) < Tokens(entries[outgoing].content) + Growth
    BY <1>2, <1>4, <2>2, SettingsAssumption DEF Wanted
  <2>4. entries[outgoing].identity = identity => Continues(entries[outgoing].prompt, prompt)
    BY <1>4 DEF Wanted, Stale
  <2> QED BY <1>4, <2>3, <2>4 DEF Resumable, Usable, Continues
<1> QED BY <1>3, <1>4

\* A published save parks its conversation, and its state can be restored.
LEMMA PublishedParked ==
  ASSUME Inductive, "blank" \notin Faults, pc = "publish", UNCHANGED <<prompt, identity, latest>>,
         NEW k \in Keys, k = outgoing, entries'[k] = PublishedEntries[k]
  PROVE  Parked(k)' /\ Resumable(k)'
<1> USE DEF Inductive, TypeOK, OwnerTypeOK, MemoryTypeOK, SnapshotTypeOK
<1>1. identity \in Models /\ prompt \in Prompts /\ pending \in Contents
  BY DEF StepInv, OwnerInv
<1>2. NewestTurn(pending, k) /\ pending.weights = identity
  BY DEF OwnerInv
<1>3. entries'[k] = [identity |-> identity, prompt |-> prompt, content |-> pending]
  BY <1>1 DEF PublishedEntries
<1>4. entries'[k] # None
  BY <1>1, <1>3, EntryAssumption DEF Entry
<1>5. Parked(k)'
  BY <1>2, <1>3, <1>4 DEF Parked, SameTurn, NewestTurn
<1>6. Continues(prompt, prompt)
  BY <1>1, ContinuesItself
<1>7. Usable(k, prompt)' /\ Continues(entries[k].prompt, prompt)'
  BY <1>3, <1>4, <1>6 DEF Usable, Continues
<1> QED BY <1>5, <1>7 DEF Resumable

\* The backend is asked to load a file only while a turn restores or seeds.
LEMMA LoadingSteps ==
  ASSUME Loading
  PROVE  pc \in {"restore", "seed"}
BY DEF Loading, Loadable

\* A file that a turn may load is the faithful snapshot of this model.
LEMMA LoadableEntries ==
  ASSUME NEW c \in Loadable, Inductive
  PROVE  \E k \in Keys : entries[k] # None /\ entries[k].content = c /\ entries[k].identity = identity
BY DEF Loadable, Seeds, Usable, Inductive, TypeOK, OwnerTypeOK, Request

\* Nor does it name a file at any other step.
LEMMA LoadableSteps ==
  ASSUME NEW c \in Loadable
  PROVE  pc \in {"restore", "seed"}
BY DEF Loadable

-----------------------------------------------------------------------------
(* Every step preserves the policy: one lemma for each part, one case for each action. *)

\* Every step keeps track of who loses the slot, and to whom.
LEMMA TurnStep ==
  ASSUME Inductive, TurnInv, [Next]_vars
  PROVE  TurnInv'
<1> USE NoneAssumption DEF TurnInv
<1>1. CASE \E r \in Requests : Turn(r)
  BY <1>1 DEF Turn, Begin, backendVars, memoryVars, Requests
<1>2. CASE \E o \in {"park", "gap"}, k \in Keys : Park(o, k)
  BY <1>2 DEF Park, Begin, backendVars, memoryVars
<1>3. CASE TurnRuntime
  BY <1>3 DEF TurnRuntime, KnowRuntime, KnownDisplaced, backendVars, ownerVars
<1>4. CASE ParkRuntime
  BY <1>4 DEF ParkRuntime, KnowRuntime, KnownDisplaced, Release, backendVars, Inductive, StepInv
<1>5. CASE RuntimeFails
  BY <1>5 DEF RuntimeFails, Release, Unavailable, backendVars
<1>6. CASE SlotStays
  BY <1>6 DEF SlotStays, backendVars, ownerVars, Inductive, StepInv
<1>7. CASE SlotChanges
  BY <1>7 DEF SlotChanges, backendVars, Inductive, StepInv, Requests
<1>8. CASE SlotFails
  BY <1>8 DEF SlotFails, Unavailable, backendVars, Inductive, StepInv
<1>9. CASE SaveUnwanted
  BY <1>9 DEF SaveUnwanted, AfterSave, Release, backendVars, memoryVars, Inductive, StepInv
<1>10. CASE SaveWanted
  BY <1>10 DEF SaveWanted, backendVars, memoryVars, ownerVars, Inductive, StepInv
<1>11. CASE SavePosted
  BY <1>11 DEF SavePosted, backendVars, memoryVars, Inductive, StepInv
<1>12. CASE SaveFails
  BY <1>12 DEF SaveFails, AfterSaveFailed, Release, backendVars, memoryVars, Inductive, StepInv
<1>13. CASE Published
  BY <1>13 DEF Published, AfterSave, Release, backendVars, memoryVars, Inductive, StepInv
<1>14. CASE PublishFails
  BY <1>14 DEF PublishFails, AfterSaveFailed, Release, backendVars, memoryVars, Inductive, StepInv
<1>15. CASE GapErased
  BY <1>15 DEF GapErased, Release
<1>16. CASE GapEraseFails
  BY <1>16 DEF GapEraseFails, Release, memoryVars
<1>17. CASE RestoreNobody
  BY <1>17 DEF RestoreNobody, backendVars, ownerVars, memoryVars, Inductive, StepInv
<1>18. CASE RestoreSkipped
  BY <1>18 DEF RestoreSkipped, NotRestored, backendVars, ownerVars, memoryVars, Inductive, StepInv
<1>19. CASE RestoreExpired
  BY <1>19 DEF RestoreExpired, NotRestored, backendVars, ownerVars, memoryVars, Inductive, StepInv
<1>20. CASE RestoreLoads
  BY <1>20 DEF RestoreLoads, ownerVars, memoryVars, Inductive, StepInv
<1>21. CASE Touched
  BY <1>21 DEF Touched, backendVars, ownerVars, memoryVars, Inductive, StepInv
<1>22. CASE TouchFails
  BY <1>22 DEF TouchFails, Unavailable, backendVars, Inductive, StepInv
<1>23. CASE SeedSkipped
  BY <1>23 DEF SeedSkipped, backendVars, ownerVars, memoryVars, Inductive, StepInv
<1>24. CASE SeedLoads
  BY <1>24 DEF SeedLoads, ownerVars, memoryVars, Inductive, StepInv
<1>25. CASE LoadFails
  BY <1>25, LoadingSteps DEF LoadFails, Unavailable, Inductive, StepInv
<1>26. CASE LoadUnsafe
  BY <1>26 DEF LoadUnsafe, Release
<1>27. CASE Completed
  BY <1>27 DEF Completed, Release
<1>28. CASE UpstreamFails
  BY <1>28 DEF UpstreamFails, Release
<1>29. CASE \E k \in Keys : Forget(k)
  BY <1>29 DEF Forget, backendVars, ownerVars, memoryVars
<1>30. CASE Cleanup
  BY <1>30 DEF Cleanup, backendVars, ownerVars, memoryVars
<1>31. CASE \E m \in Models : BackendRestarts(m)
  BY <1>31 DEF BackendRestarts, ownerVars
<1>32. CASE ProxyRestarts
  BY <1>32 DEF ProxyRestarts, Release
<1>33. CASE UNCHANGED vars
  BY <1>33 DEF vars
<1> QED
  BY <1>1, <1>2, <1>3, <1>4, <1>5, <1>6, <1>7, <1>8, <1>9, <1>10, <1>11, <1>12, <1>13, <1>14,
     <1>15, <1>16, <1>17, <1>18, <1>19, <1>20, <1>21, <1>22, <1>23, <1>24, <1>25, <1>26, <1>27,
     <1>28, <1>29, <1>30, <1>31, <1>32, <1>33 DEF Next

\* Every step keeps what the conversation that lost the slot was promised.
LEMMA OutgoingStep ==
  ASSUME Inductive, TurnInv, OutgoingInv, "blank" \notin Faults, [Next]_vars
  PROVE  OutgoingInv'
<1> USE DEF OutgoingInv
<1>1. CASE \E r \in Requests : Turn(r)
  BY <1>1 DEF Turn, Begin, backendVars, memoryVars, TurnInv
<1>2. CASE \E o \in {"park", "gap"}, k \in Keys : Park(o, k)
  BY <1>2 DEF Park, Begin, backendVars, memoryVars
<1>3. CASE TurnRuntime
  BY <1>3 DEF TurnRuntime, KnowRuntime, KnownDisplaced, backendVars, ownerVars
<1>4. CASE ParkRuntime
  BY <1>4 DEF ParkRuntime, KnowRuntime, KnownDisplaced, Release, backendVars
<1>5. CASE RuntimeFails
  BY <1>5 DEF RuntimeFails, Release, Unavailable, backendVars, TurnInv
<1>6. CASE SlotStays
  BY <1>6 DEF SlotStays, backendVars, ownerVars, TurnInv
<1>7. CASE SlotChanges
  <2>1. ASSUME Tokens(slot) # 0, current # None, Identical(entries[current])
        PROVE  Parked(current) /\ (prompt # None => Resumable(current))
    BY <1>7, <2>1, IdenticalParked DEF SlotChanges
  <2>2. UNCHANGED <<prompt, identity, entries, latest>> /\ pc' \in {"restore", "save"}
    BY <1>7 DEF SlotChanges
  <2>3. outgoing' # None /\ pc' = "restore" =>
          /\ outgoing' = current /\ Tokens(slot) # 0 /\ current # None
          /\ Identical(entries[current])
    BY <1>7 DEF SlotChanges
  <2> QED BY <2>1, <2>2, <2>3 DEF Parked, Resumable, Usable
<1>8. CASE SlotFails
  BY <1>8 DEF SlotFails, Unavailable, backendVars, TurnInv
<1>9. CASE SaveUnwanted
  <2>1. ~protect /\ op = "turn" /\ pc' = "restore" /\ UNCHANGED <<prompt, identity, entries, latest>>
    BY <1>9 DEF SaveUnwanted, AfterSave, Forced, memoryVars
  <2>2. UNCHANGED <<outgoing, protect>> /\ Resumable(outgoing)
    BY <1>9, <2>1, UnwantedResumable DEF SaveUnwanted, AfterSave
  <2> QED BY <2>1, <2>2 DEF Resumable, Parked, Usable
<1>10. CASE SaveWanted
  BY <1>10 DEF SaveWanted, backendVars, memoryVars, ownerVars
<1>11. CASE SavePosted
  BY <1>11 DEF SavePosted, backendVars, memoryVars
<1>12. CASE SaveFails
  BY <1>12 DEF SaveFails, AfterSaveFailed, Release, backendVars, memoryVars
<1>13. CASE Published
  <2>1. pc = "publish" /\ outgoing \in Keys /\ UNCHANGED <<prompt, identity, latest>>
    BY <1>13 DEF Published, AfterSave, memoryVars, Inductive, StepInv
  <2>2. entries'[outgoing] = PublishedEntries[outgoing]
    BY <1>13, <2>1 DEF Published, Without
  <2>3. ASSUME NEW k \in Keys, k = outgoing
        PROVE  Parked(k)' /\ Resumable(k)'
    BY <2>1, <2>2, <2>3, PublishedParked
  <2>4. CASE op = "turn"
    BY <1>13, <2>1, <2>3, <2>4 DEF Published, AfterSave
  <2>5. CASE op # "turn"
    BY <1>13, <2>1, <2>3, <2>5, NoneAssumption DEF Published, AfterSave, Release, TurnInv
  <2> QED BY <2>4, <2>5
<1>14. CASE PublishFails
  BY <1>14 DEF PublishFails, AfterSaveFailed, Release, backendVars, memoryVars
<1>15. CASE GapErased
  BY <1>15 DEF GapErased, Release
<1>16. CASE GapEraseFails
  BY <1>16 DEF GapEraseFails, Release, memoryVars
<1>17. CASE RestoreNobody
  BY <1>17 DEF RestoreNobody, backendVars, ownerVars, memoryVars, Parked, Resumable, Usable
<1>18. CASE RestoreSkipped
  BY <1>18 DEF RestoreSkipped, NotRestored, backendVars, ownerVars, memoryVars, Parked, Resumable,
     Usable
<1>19. CASE RestoreExpired
  BY <1>19 DEF RestoreExpired, NotRestored, backendVars, ownerVars, memoryVars, Parked, Resumable,
     Usable, Without, TurnInv, Inductive, StepInv, TypeOK, OwnerTypeOK
<1>20. CASE RestoreLoads
  BY <1>20 DEF RestoreLoads, ownerVars, memoryVars, Parked, Resumable, Usable
<1>21. CASE Touched
  BY <1>21 DEF Touched, backendVars, ownerVars, memoryVars, Parked, Resumable, Usable
<1>22. CASE TouchFails
  BY <1>22 DEF TouchFails, Unavailable, backendVars, Parked
<1>23. CASE SeedSkipped
  BY <1>23 DEF SeedSkipped, backendVars, ownerVars, memoryVars, Parked, Resumable, Usable
<1>24. CASE SeedLoads
  BY <1>24 DEF SeedLoads, ownerVars, memoryVars, Parked, Resumable, Usable
<1>25. CASE LoadFails
  BY <1>25, LoadingSteps DEF LoadFails, Unavailable, Parked
<1>26. CASE LoadUnsafe
  BY <1>26 DEF LoadUnsafe, Release
<1>27. CASE Completed
  BY <1>27 DEF Completed, Release
<1>28. CASE UpstreamFails
  BY <1>28 DEF UpstreamFails, Release
<1>29. CASE \E k \in Keys : Forget(k)
  BY <1>29 DEF Forget, backendVars, ownerVars, memoryVars
<1>30. CASE Cleanup
  BY <1>30 DEF Cleanup, backendVars, ownerVars, memoryVars
<1>31. CASE \E m \in Models : BackendRestarts(m)
  BY <1>31 DEF BackendRestarts, ownerVars, Parked, Resumable, Usable
<1>32. CASE ProxyRestarts
  BY <1>32 DEF ProxyRestarts, Release
<1>33. CASE UNCHANGED vars
  BY <1>33 DEF vars, Parked, Resumable, Usable
<1> QED
  BY <1>1, <1>2, <1>3, <1>4, <1>5, <1>6, <1>7, <1>8, <1>9, <1>10, <1>11, <1>12, <1>13, <1>14,
     <1>15, <1>16, <1>17, <1>18, <1>19, <1>20, <1>21, <1>22, <1>23, <1>24, <1>25, <1>26, <1>27,
     <1>28, <1>29, <1>30, <1>31, <1>32, <1>33 DEF Next

\* Every step keeps what is known of the slot that the next conversation gets.
LEMMA IncomingStep ==
  ASSUME Inductive, IncomingInv, "blank" \notin Faults, [Next]_vars
  PROVE  IncomingInv'
<1> USE NoneAssumption DEF IncomingInv
<1>1. CASE \E r \in Requests : Turn(r)
  BY <1>1 DEF Turn, Begin, backendVars, memoryVars
<1>2. CASE \E o \in {"park", "gap"}, k \in Keys : Park(o, k)
  BY <1>2 DEF Park, Begin, backendVars, memoryVars
<1>3. CASE TurnRuntime
  BY <1>3 DEF TurnRuntime, KnowRuntime, KnownDisplaced, backendVars, ownerVars
<1>4. CASE ParkRuntime
  BY <1>4 DEF ParkRuntime, KnowRuntime, KnownDisplaced, Release, backendVars
<1>5. CASE RuntimeFails
  BY <1>5 DEF RuntimeFails, Release, Unavailable, backendVars
<1>6. CASE SlotStays
  BY <1>6 DEF SlotStays, backendVars, ownerVars
<1>7. CASE SlotChanges
  BY <1>7 DEF SlotChanges, backendVars
<1>8. CASE SlotFails
  BY <1>8 DEF SlotFails, Unavailable, backendVars
<1>9. CASE SaveUnwanted
  BY <1>9 DEF SaveUnwanted, AfterSave, Release, backendVars, memoryVars
<1>10. CASE SaveWanted
  BY <1>10 DEF SaveWanted, backendVars, memoryVars, ownerVars
<1>11. CASE SavePosted
  BY <1>11 DEF SavePosted, backendVars, memoryVars
<1>12. CASE SaveFails
  BY <1>12 DEF SaveFails, AfterSaveFailed, Release, backendVars, memoryVars
<1>13. CASE Published
  BY <1>13 DEF Published, AfterSave, Release, backendVars, memoryVars
<1>14. CASE PublishFails
  BY <1>14 DEF PublishFails, AfterSaveFailed, Release, backendVars, memoryVars
<1>15. CASE GapErased
  BY <1>15 DEF GapErased, Release
<1>16. CASE GapEraseFails
  BY <1>16 DEF GapEraseFails, Release, memoryVars
<1>17. CASE RestoreNobody
  BY <1>17 DEF RestoreNobody, backendVars, ownerVars, memoryVars, Usable
<1>18. CASE RestoreSkipped
  BY <1>18 DEF RestoreSkipped, NotRestored, backendVars, ownerVars, memoryVars, Usable
<1>19. CASE RestoreExpired
  BY <1>19 DEF RestoreExpired, NotRestored, backendVars, ownerVars, memoryVars, Usable, Without,
     Inductive, TypeOK, OwnerTypeOK, Request
<1>20. CASE RestoreLoads
  BY <1>20 DEF RestoreLoads, ownerVars, memoryVars, Usable, Inductive, TypeOK, OwnerTypeOK,
     Request, SnapshotsFaithful
<1>21. CASE Touched
  BY <1>21 DEF Touched, backendVars, ownerVars, memoryVars
<1>22. CASE TouchFails
  BY <1>22 DEF TouchFails, Unavailable, backendVars, Usable
<1>23. CASE SeedSkipped
  BY <1>23 DEF SeedSkipped, backendVars, ownerVars, memoryVars, Usable
<1>24. CASE SeedLoads
  BY <1>24 DEF SeedLoads, ownerVars, memoryVars
<1>25. CASE LoadFails
  BY <1>25 DEF LoadFails, Unavailable
<1>26. CASE LoadUnsafe
  BY <1>26 DEF LoadUnsafe, Release
<1>27. CASE Completed
  BY <1>27 DEF Completed, Release
<1>28. CASE UpstreamFails
  BY <1>28 DEF UpstreamFails, Release
<1>29. CASE \E k \in Keys : Forget(k)
  BY <1>29 DEF Forget, backendVars, ownerVars, memoryVars
<1>30. CASE Cleanup
  BY <1>30 DEF Cleanup, backendVars, ownerVars, memoryVars
<1>31. CASE \E m \in Models : BackendRestarts(m)
  BY <1>31 DEF BackendRestarts, ownerVars, Usable
<1>32. CASE ProxyRestarts
  BY <1>32 DEF ProxyRestarts, Release
<1>33. CASE UNCHANGED vars
  BY <1>33 DEF vars, Usable
<1> QED
  BY <1>1, <1>2, <1>3, <1>4, <1>5, <1>6, <1>7, <1>8, <1>9, <1>10, <1>11, <1>12, <1>13, <1>14,
     <1>15, <1>16, <1>17, <1>18, <1>19, <1>20, <1>21, <1>22, <1>23, <1>24, <1>25, <1>26, <1>27,
     <1>28, <1>29, <1>30, <1>31, <1>32, <1>33 DEF Next

\* Every step gives a returning conversation its own state back.
LEMMA ResumeStep ==
  ASSUME Inductive, IncomingInv, ResumesOwnState, [Next]_vars
  PROVE  ResumesOwnState'
<1> USE NoneAssumption DEF ResumesOwnState
<1>1. CASE \E r \in Requests : Turn(r)
  BY <1>1 DEF Turn, Begin, backendVars, memoryVars
<1>2. CASE \E o \in {"park", "gap"}, k \in Keys : Park(o, k)
  BY <1>2 DEF Park, Begin, backendVars, memoryVars
<1>3. CASE TurnRuntime
  BY <1>3 DEF TurnRuntime, KnowRuntime, KnownDisplaced, backendVars, ownerVars
<1>4. CASE ParkRuntime
  BY <1>4 DEF ParkRuntime, KnowRuntime, KnownDisplaced, Release, backendVars
<1>5. CASE RuntimeFails
  BY <1>5 DEF RuntimeFails, Release, Unavailable, backendVars
<1>6. CASE SlotStays
  BY <1>6, TokensNat DEF SlotStays, backendVars, ownerVars, Inductive, TypeOK, BackendTypeOK,
     OwnerInv, NewestTurn
<1>7. CASE SlotChanges
  BY <1>7 DEF SlotChanges, backendVars
<1>8. CASE SlotFails
  BY <1>8 DEF SlotFails, Unavailable, backendVars
<1>9. CASE SaveUnwanted
  BY <1>9 DEF SaveUnwanted, AfterSave, Release, backendVars, memoryVars
<1>10. CASE SaveWanted
  BY <1>10 DEF SaveWanted, backendVars, memoryVars, ownerVars
<1>11. CASE SavePosted
  BY <1>11 DEF SavePosted, backendVars, memoryVars
<1>12. CASE SaveFails
  BY <1>12 DEF SaveFails, AfterSaveFailed, Release, backendVars, memoryVars
<1>13. CASE Published
  BY <1>13 DEF Published, AfterSave, Release, backendVars, memoryVars
<1>14. CASE PublishFails
  BY <1>14 DEF PublishFails, AfterSaveFailed, Release, backendVars, memoryVars
<1>15. CASE GapErased
  BY <1>15 DEF GapErased, Release
<1>16. CASE GapEraseFails
  BY <1>16 DEF GapEraseFails, Release, memoryVars
<1>17. CASE RestoreNobody
  BY <1>17 DEF RestoreNobody, backendVars, ownerVars, memoryVars
<1>18. CASE RestoreSkipped
  BY <1>18 DEF RestoreSkipped, NotRestored, backendVars, ownerVars, memoryVars, Usable
<1>19. CASE RestoreExpired
  BY <1>19 DEF RestoreExpired, NotRestored, backendVars, ownerVars, memoryVars, Usable, Without,
     Inductive, TypeOK, OwnerTypeOK, Request
<1>20. CASE RestoreLoads
  BY <1>20 DEF RestoreLoads, ownerVars, memoryVars
<1>21. CASE Touched
  BY <1>21 DEF Touched, backendVars, ownerVars, memoryVars, Usable, IncomingInv
<1>22. CASE TouchFails
  BY <1>22 DEF TouchFails, Unavailable, backendVars
<1>23. CASE SeedSkipped
  BY <1>23 DEF SeedSkipped, backendVars, ownerVars, memoryVars, Usable, IncomingInv
<1>24. CASE SeedLoads
  BY <1>24 DEF SeedLoads, ownerVars, memoryVars, Usable, IncomingInv
<1>25. CASE LoadFails
  BY <1>25 DEF LoadFails, Unavailable
<1>26. CASE LoadUnsafe
  BY <1>26 DEF LoadUnsafe, Release
<1>27. CASE Completed
  BY <1>27 DEF Completed, Release
<1>28. CASE UpstreamFails
  BY <1>28 DEF UpstreamFails, Release
<1>29. CASE \E k \in Keys : Forget(k)
  BY <1>29 DEF Forget, backendVars, ownerVars, memoryVars
<1>30. CASE Cleanup
  BY <1>30 DEF Cleanup, backendVars, ownerVars, memoryVars
<1>31. CASE \E m \in Models : BackendRestarts(m)
  BY <1>31 DEF BackendRestarts, ownerVars, Usable, IncomingInv
<1>32. CASE ProxyRestarts
  BY <1>32 DEF ProxyRestarts, Release
<1>33. CASE UNCHANGED vars
  BY <1>33 DEF vars, Usable, IncomingInv
<1> QED
  BY <1>1, <1>2, <1>3, <1>4, <1>5, <1>6, <1>7, <1>8, <1>9, <1>10, <1>11, <1>12, <1>13, <1>14,
     <1>15, <1>16, <1>17, <1>18, <1>19, <1>20, <1>21, <1>22, <1>23, <1>24, <1>25, <1>26, <1>27,
     <1>28, <1>29, <1>30, <1>31, <1>32, <1>33 DEF Next

-----------------------------------------------------------------------------
(* What needs fewer faults. *)

\* While the manifest can be read, every step keeps the promise to the displaced conversations.
LEMMA ClaimStep ==
  ASSUME Inductive, TurnInv, ClaimInv, {"runtime", "blank"} \cap Faults = {}, [Next]_vars
  PROVE  ClaimInv'
<1> USE NoneAssumption DEF ClaimInv
<1>1. CASE \E r \in Requests : Turn(r)
  BY <1>1 DEF Turn, Begin, backendVars, memoryVars, Parked
<1>2. CASE \E o \in {"park", "gap"}, k \in Keys : Park(o, k)
  BY <1>2 DEF Park, Begin, backendVars, memoryVars, Parked
<1>3. CASE TurnRuntime
  BY <1>3 DEF TurnRuntime, KnowRuntime, KnownDisplaced, backendVars, ownerVars, Parked
<1>4. CASE ParkRuntime
  BY <1>4 DEF ParkRuntime, KnowRuntime, KnownDisplaced, Release, backendVars, Parked
<1>5. CASE RuntimeFails
  BY <1>5 DEF RuntimeFails, Release, Unavailable, backendVars, Parked
<1>6. CASE SlotStays
  BY <1>6 DEF SlotStays, backendVars, ownerVars, Parked
<1>7. CASE SlotChanges
  <2>1. ASSUME Tokens(slot) # 0, current # None, Identical(entries[current])
        PROVE  Parked(current)
    BY <1>7, <2>1, IdenticalParked DEF SlotChanges
  <2>2. displaced' = displaced
          \/ /\ displaced' = displaced \cup {current} /\ req.key # current
             /\ Tokens(slot) # 0 /\ current # None /\ Identical(entries[current])
    BY <1>7 DEF SlotChanges
  <2>3. UNCHANGED <<entries, latest, op, req>> /\ pc = "slot"
    BY <1>7 DEF SlotChanges
  <2> QED BY <2>1, <2>2, <2>3 DEF Parked
<1>8. CASE SlotFails
  BY <1>8 DEF SlotFails, Unavailable, backendVars, Parked
<1>9. CASE SaveUnwanted
  BY <1>9 DEF SaveUnwanted, AfterSave, Release, backendVars, memoryVars, Parked, Forced, TurnInv
<1>10. CASE SaveWanted
  BY <1>10 DEF SaveWanted, backendVars, memoryVars, ownerVars, Parked
<1>11. CASE SavePosted
  BY <1>11 DEF SavePosted, backendVars, memoryVars, Parked
<1>12. CASE SaveFails
  BY <1>12 DEF SaveFails, AfterSaveFailed, Release, backendVars, memoryVars, Parked
<1>13. CASE Published
  <2>1. pc = "publish" /\ outgoing \in Keys /\ UNCHANGED <<prompt, identity, latest>>
    BY <1>13 DEF Published, AfterSave, memoryVars, Inductive, StepInv
  <2>2. PICK evicted \in SUBSET (Keys \ {outgoing}) :
          /\ entries' = Without(PublishedEntries, evicted)
          /\ AfterSave("saved", displaced \ (evicted \cup {outgoing}))
    BY <1>13 DEF Published
  <2>3. displaced' \subseteq (displaced \ evicted) \cup {outgoing} /\ displaced \subseteq Keys
    BY <2>2 DEF AfterSave, Inductive, TypeOK, MemoryTypeOK
  <2>4. ASSUME NEW k \in Keys, k = outgoing
        PROVE  Parked(k)'
    BY <2>1, <2>2, <2>4, PublishedParked DEF Without
  <2>5. ASSUME NEW k \in displaced \ (evicted \cup {outgoing})
        PROVE  Parked(k)'
    BY <2>1, <2>2, <2>3 DEF Parked, Without, PublishedEntries
  <2>6. (op = "turn" /\ pc \notin {"idle", "runtime"} => req.key \notin displaced)'
    BY <2>1, <2>2, <2>3 DEF AfterSave, TurnInv, Release
  <2> QED BY <2>1, <2>3, <2>4, <2>5, <2>6
<1>14. CASE PublishFails
  BY <1>14 DEF PublishFails, AfterSaveFailed, Release, backendVars, memoryVars, Parked,
     PublishedEntries, Inductive, TypeOK, MemoryTypeOK, SnapshotTypeOK
<1>15. CASE GapErased
  BY <1>15 DEF GapErased, Release, Parked
<1>16. CASE GapEraseFails
  BY <1>16 DEF GapEraseFails, Release, memoryVars, Parked
<1>17. CASE RestoreNobody
  BY <1>17 DEF RestoreNobody, backendVars, ownerVars, memoryVars, Parked
<1>18. CASE RestoreSkipped
  BY <1>18 DEF RestoreSkipped, NotRestored, backendVars, ownerVars, memoryVars, Parked
<1>19. CASE RestoreExpired
  BY <1>19 DEF RestoreExpired, NotRestored, backendVars, ownerVars, memoryVars, Parked, Without,
     Inductive, TypeOK, MemoryTypeOK
<1>20. CASE RestoreLoads
  BY <1>20 DEF RestoreLoads, ownerVars, memoryVars, Parked
<1>21. CASE Touched
  BY <1>21 DEF Touched, backendVars, ownerVars, memoryVars, Parked
<1>22. CASE TouchFails
  BY <1>22 DEF TouchFails, Unavailable, backendVars, Parked
<1>23. CASE SeedSkipped
  BY <1>23 DEF SeedSkipped, backendVars, ownerVars, memoryVars, Parked
<1>24. CASE SeedLoads
  BY <1>24 DEF SeedLoads, ownerVars, memoryVars, Parked
<1>25. CASE LoadFails
  BY <1>25, LoadingSteps DEF LoadFails, Unavailable, Parked
<1>26. CASE LoadUnsafe
  BY <1>26 DEF LoadUnsafe, Release, Parked
<1>27. CASE Completed
  BY <1>27 DEF Completed, Release, Parked, Inductive, StepInv, TypeOK, MemoryTypeOK, Requests
<1>28. CASE UpstreamFails
  BY <1>28 DEF UpstreamFails, Release, Parked
<1>29. CASE \E k \in Keys : Forget(k)
  BY <1>29 DEF Forget, backendVars, ownerVars, memoryVars, Parked, Without, Inductive, TypeOK,
     MemoryTypeOK
<1>30. CASE Cleanup
  BY <1>30 DEF Cleanup, backendVars, ownerVars, memoryVars, Parked, Without, Inductive, TypeOK,
     MemoryTypeOK
<1>31. CASE \E m \in Models : BackendRestarts(m)
  BY <1>31 DEF BackendRestarts, ownerVars, Parked
<1>32. CASE ProxyRestarts
  BY <1>32 DEF ProxyRestarts, Release, Parked
<1>33. CASE UNCHANGED vars
  BY <1>33 DEF vars, Parked
<1> QED
  BY <1>1, <1>2, <1>3, <1>4, <1>5, <1>6, <1>7, <1>8, <1>9, <1>10, <1>11, <1>12, <1>13, <1>14,
     <1>15, <1>16, <1>17, <1>18, <1>19, <1>20, <1>21, <1>22, <1>23, <1>24, <1>25, <1>26, <1>27,
     <1>28, <1>29, <1>30, <1>31, <1>32, <1>33 DEF Next

\* While the manifest can be read, every step that answers "parked" is right, and none makes an
\* answer wrong before the next call.
LEMMA AnswerStep ==
  ASSUME Inductive, TurnInv, OutgoingInv, ClaimInv, ParkedIsLatest, "blank" \notin Faults,
         [Next]_vars
  PROVE  ParkedIsLatest'
<1> USE DEF ParkedIsLatest
<1>1. CASE \E r \in Requests : Turn(r)
  BY <1>1 DEF Turn, Begin, backendVars, memoryVars, Parked
<1>2. CASE \E o \in {"park", "gap"}, k \in Keys : Park(o, k)
  BY <1>2 DEF Park, Begin, backendVars, memoryVars, Parked
<1>3. CASE TurnRuntime
  BY <1>3 DEF TurnRuntime, KnowRuntime, KnownDisplaced, backendVars, ownerVars, TurnInv
<1>4. CASE ParkRuntime
  BY <1>4 DEF ParkRuntime, KnowRuntime, KnownDisplaced, Release, backendVars, TurnInv, ClaimInv,
     Parked
<1>5. CASE RuntimeFails
  BY <1>5 DEF RuntimeFails, Release, Unavailable, backendVars, TurnInv
<1>6. CASE SlotStays
  BY <1>6 DEF SlotStays, backendVars, ownerVars, TurnInv
<1>7. CASE SlotChanges
  BY <1>7 DEF SlotChanges, backendVars, TurnInv
<1>8. CASE SlotFails
  BY <1>8 DEF SlotFails, Unavailable, backendVars, TurnInv
<1>9. CASE SaveUnwanted
  BY <1>9 DEF SaveUnwanted, AfterSave, Release, backendVars, memoryVars, TurnInv, Forced
<1>10. CASE SaveWanted
  BY <1>10 DEF SaveWanted, backendVars, memoryVars, ownerVars, TurnInv
<1>11. CASE SavePosted
  BY <1>11 DEF SavePosted, backendVars, memoryVars, TurnInv
<1>12. CASE SaveFails
  BY <1>12 DEF SaveFails, AfterSaveFailed, Release, backendVars, memoryVars, TurnInv
<1>13. CASE Published
  <2>1. pc = "publish" /\ outgoing \in Keys /\ UNCHANGED <<prompt, identity, latest>>
    BY <1>13 DEF Published, AfterSave, memoryVars, Inductive, StepInv
  <2>2. entries'[outgoing] = PublishedEntries[outgoing] /\ answer' \in {None, outgoing}
    BY <1>13, <2>1 DEF Published, AfterSave, Without, TurnInv
  <2>3. ASSUME NEW k \in Keys, k = outgoing
        PROVE  Parked(k)'
    BY <2>1, <2>2, <2>3, PublishedParked
  <2> QED BY <2>1, <2>2, <2>3
<1>14. CASE PublishFails
  BY <1>14 DEF PublishFails, AfterSaveFailed, Release, backendVars, memoryVars, TurnInv
<1>15. CASE GapErased
  BY <1>15 DEF GapErased, Release, OutgoingInv, Parked
<1>16. CASE GapEraseFails
  BY <1>16 DEF GapEraseFails, Release, memoryVars, TurnInv
<1>17. CASE RestoreNobody
  BY <1>17 DEF RestoreNobody, backendVars, ownerVars, memoryVars, TurnInv
<1>18. CASE RestoreSkipped
  BY <1>18 DEF RestoreSkipped, NotRestored, backendVars, ownerVars, memoryVars, TurnInv
<1>19. CASE RestoreExpired
  BY <1>19 DEF RestoreExpired, NotRestored, backendVars, ownerVars, memoryVars, TurnInv
<1>20. CASE RestoreLoads
  BY <1>20 DEF RestoreLoads, ownerVars, memoryVars, TurnInv
<1>21. CASE Touched
  BY <1>21 DEF Touched, backendVars, ownerVars, memoryVars, TurnInv
<1>22. CASE TouchFails
  BY <1>22 DEF TouchFails, Unavailable, backendVars, TurnInv
<1>23. CASE SeedSkipped
  BY <1>23 DEF SeedSkipped, backendVars, ownerVars, memoryVars, TurnInv
<1>24. CASE SeedLoads
  BY <1>24 DEF SeedLoads, ownerVars, memoryVars, TurnInv
<1>25. CASE LoadFails
  BY <1>25, LoadingSteps DEF LoadFails, Unavailable, TurnInv
<1>26. CASE LoadUnsafe
  BY <1>26, LoadingSteps DEF LoadUnsafe, Release, TurnInv
<1>27. CASE Completed
  BY <1>27 DEF Completed, Release, TurnInv
<1>28. CASE UpstreamFails
  BY <1>28 DEF UpstreamFails, Release, TurnInv
<1>29. CASE \E k \in Keys : Forget(k)
  BY <1>29 DEF Forget, backendVars, ownerVars, memoryVars
<1>30. CASE Cleanup
  BY <1>30 DEF Cleanup, backendVars, ownerVars, memoryVars
<1>31. CASE \E m \in Models : BackendRestarts(m)
  BY <1>31 DEF BackendRestarts, ownerVars, Parked
<1>32. CASE ProxyRestarts
  BY <1>32 DEF ProxyRestarts, Release
<1>33. CASE UNCHANGED vars
  BY <1>33 DEF vars, Parked
<1> QED
  BY <1>1, <1>2, <1>3, <1>4, <1>5, <1>6, <1>7, <1>8, <1>9, <1>10, <1>11, <1>12, <1>13, <1>14,
     <1>15, <1>16, <1>17, <1>18, <1>19, <1>20, <1>21, <1>22, <1>23, <1>24, <1>25, <1>26, <1>27,
     <1>28, <1>29, <1>30, <1>31, <1>32, <1>33 DEF Next

\* While the backend restarts between requests only, every step keeps track of the weights that
\* made the slot.
LEMMA WeightsStep ==
  ASSUME Inductive, WeightsInv, {"restart", "blank", "swap"} \cap Faults = {}, [Next]_vars
  PROVE  WeightsInv'
<1> USE DEF WeightsInv
<1>1. CASE \E r \in Requests : Turn(r)
  BY <1>1 DEF Turn, Begin, backendVars, memoryVars
<1>2. CASE \E o \in {"park", "gap"}, k \in Keys : Park(o, k)
  BY <1>2 DEF Park, Begin, backendVars, memoryVars
<1>3. CASE TurnRuntime
  BY <1>3 DEF TurnRuntime, KnowRuntime, KnownDisplaced, backendVars, ownerVars
<1>4. CASE ParkRuntime
  BY <1>4 DEF ParkRuntime, KnowRuntime, KnownDisplaced, Release, backendVars
<1>5. CASE RuntimeFails
  BY <1>5 DEF RuntimeFails, Release, Unavailable, backendVars
<1>6. CASE SlotStays
  BY <1>6 DEF SlotStays, backendVars, ownerVars
<1>7. CASE SlotChanges
  BY <1>7 DEF SlotChanges, backendVars
<1>8. CASE SlotFails
  BY <1>8 DEF SlotFails, Unavailable, backendVars
<1>9. CASE SaveUnwanted
  BY <1>9 DEF SaveUnwanted, AfterSave, Release, backendVars, memoryVars
<1>10. CASE SaveWanted
  BY <1>10 DEF SaveWanted, backendVars, memoryVars, ownerVars
<1>11. CASE SavePosted
  BY <1>11 DEF SavePosted, backendVars, memoryVars
<1>12. CASE SaveFails
  BY <1>12 DEF SaveFails, AfterSaveFailed, Release, backendVars, memoryVars
<1>13. CASE Published
  BY <1>13 DEF Published, AfterSave, Release, backendVars, memoryVars
<1>14. CASE PublishFails
  BY <1>14 DEF PublishFails, AfterSaveFailed, Release, backendVars, memoryVars
<1>15. CASE GapErased
  BY <1>15 DEF GapErased, Release, Empty, Content
<1>16. CASE GapEraseFails
  BY <1>16 DEF GapEraseFails, Release, memoryVars, Empty, Content
<1>17. CASE RestoreNobody
  BY <1>17 DEF RestoreNobody, backendVars, ownerVars, memoryVars
<1>18. CASE RestoreSkipped
  BY <1>18 DEF RestoreSkipped, NotRestored, backendVars, ownerVars, memoryVars
<1>19. CASE RestoreExpired
  BY <1>19 DEF RestoreExpired, NotRestored, backendVars, ownerVars, memoryVars
<1>20. CASE RestoreLoads
  BY <1>20 DEF RestoreLoads, ownerVars, memoryVars, Usable, Inductive, TypeOK, OwnerTypeOK,
     Request, SnapshotsFaithful, SyncInv
<1>21. CASE Touched
  BY <1>21 DEF Touched, backendVars, ownerVars, memoryVars
<1>22. CASE TouchFails
  BY <1>22 DEF TouchFails, Unavailable, backendVars
<1>23. CASE SeedSkipped
  BY <1>23 DEF SeedSkipped, backendVars, ownerVars, memoryVars
<1>24. CASE SeedLoads
  <2>1. pc = "seed" /\ synced /\ identity = model
    BY <1>24 DEF SeedLoads, Inductive, SyncInv
  <2>2. PICK source \in Seeds : slot' = entries[source].content
    BY <1>24 DEF SeedLoads
  <2>3. slot'.weights = identity
    BY <2>2 DEF Seeds, Usable, Inductive, SnapshotsFaithful
  <2> QED BY <1>24, <2>1, <2>3 DEF SeedLoads, memoryVars
<1>25. CASE LoadFails
  BY <1>25, LoadingSteps DEF LoadFails, Unavailable, Empty, Content
<1>26. CASE LoadUnsafe
  BY <1>26 DEF LoadUnsafe, Release, Unsafe, Content
<1>27. CASE Completed
  BY <1>27 DEF Completed, Release, Content
<1>28. CASE UpstreamFails
  BY <1>28 DEF UpstreamFails, Release, Content
<1>29. CASE \E k \in Keys : Forget(k)
  BY <1>29 DEF Forget, backendVars, ownerVars, memoryVars
<1>30. CASE Cleanup
  BY <1>30 DEF Cleanup, backendVars, ownerVars, memoryVars
<1>31. CASE \E m \in Models : BackendRestarts(m)
  BY <1>31 DEF BackendRestarts, ownerVars, Empty, Content
<1>32. CASE ProxyRestarts
  <2>1. ASSUME NEW c \in Loadable
        PROVE  c.weights = model
    BY <2>1, LoadableEntries, LoadableSteps DEF Inductive, SnapshotsFaithful, SyncInv
  <2>2. slot' \in {slot, Empty, Unsafe} \cup Loadable
          \cup {Content("partial", None, None, model, Sound(slot, model))}
    BY <1>32 DEF ProxyRestarts, Interrupted
  <2> QED BY <1>32, <2>1, <2>2 DEF ProxyRestarts, Release, Content, Empty, Unsafe
<1>33. CASE UNCHANGED vars
  BY <1>33 DEF vars
<1> QED
  BY <1>1, <1>2, <1>3, <1>4, <1>5, <1>6, <1>7, <1>8, <1>9, <1>10, <1>11, <1>12, <1>13, <1>14,
     <1>15, <1>16, <1>17, <1>18, <1>19, <1>20, <1>21, <1>22, <1>23, <1>24, <1>25, <1>26, <1>27,
     <1>28, <1>29, <1>30, <1>31, <1>32, <1>33 DEF Next

\* While erasing a slot succeeds too, every step keeps half-written and foreign state out of the
\* slot and the snapshots.
LEMMA SoundStep ==
  ASSUME Inductive, WeightsInv, SoundInv, {"restart", "blank", "swap", "erase"} \cap Faults = {},
         ~({"crash", "load"} \subseteq Faults), [Next]_vars
  PROVE  SoundInv'
<1> USE DEF SoundInv
<1>1. CASE \E r \in Requests : Turn(r)
  BY <1>1 DEF Turn, Begin, backendVars, memoryVars
<1>2. CASE \E o \in {"park", "gap"}, k \in Keys : Park(o, k)
  BY <1>2 DEF Park, Begin, backendVars, memoryVars
<1>3. CASE TurnRuntime
  BY <1>3 DEF TurnRuntime, KnowRuntime, KnownDisplaced, backendVars, ownerVars
<1>4. CASE ParkRuntime
  BY <1>4 DEF ParkRuntime, KnowRuntime, KnownDisplaced, Release, backendVars, Empty, Content
<1>5. CASE RuntimeFails
  BY <1>5 DEF RuntimeFails, Release, Unavailable, backendVars, Empty, Content
<1>6. CASE SlotStays
  BY <1>6 DEF SlotStays, backendVars, ownerVars
<1>7. CASE SlotChanges
  BY <1>7 DEF SlotChanges, backendVars
<1>8. CASE SlotFails
  BY <1>8 DEF SlotFails, Unavailable, backendVars
<1>9. CASE SaveUnwanted
  BY <1>9 DEF SaveUnwanted, AfterSave, Release, backendVars, memoryVars, Empty, Content
<1>10. CASE SaveWanted
  BY <1>10 DEF SaveWanted, backendVars, memoryVars, ownerVars
<1>11. CASE SavePosted
  BY <1>11 DEF SavePosted, backendVars, memoryVars
<1>12. CASE SaveFails
  BY <1>12 DEF SaveFails, AfterSaveFailed, Release, backendVars, memoryVars, Empty, Content
<1>13. CASE Published
  <2>1. ASSUME NEW k \in Keys, PublishedEntries[k] # None
        PROVE  PublishedEntries[k].content.sound
    BY <2>1 DEF PublishedEntries, Inductive, TypeOK, SnapshotTypeOK
  <2> QED BY <1>13, <2>1 DEF Published, AfterSave, Release, Without, backendVars, memoryVars, Empty, Content
<1>14. CASE PublishFails
  <2>1. ASSUME NEW k \in Keys, PublishedEntries[k] # None
        PROVE  PublishedEntries[k].content.sound
    BY <2>1 DEF PublishedEntries, Inductive, TypeOK, SnapshotTypeOK
  <2> QED
    BY <1>14, <2>1 DEF PublishFails, AfterSaveFailed, Release, backendVars, memoryVars, Empty, Content
<1>15. CASE GapErased
  BY <1>15 DEF GapErased, Release, Empty, Content
<1>16. CASE GapEraseFails
  BY <1>16 DEF GapEraseFails, Release, memoryVars, Empty, Content
<1>17. CASE RestoreNobody
  BY <1>17 DEF RestoreNobody, backendVars, ownerVars, memoryVars
<1>18. CASE RestoreSkipped
  BY <1>18 DEF RestoreSkipped, NotRestored, backendVars, ownerVars, memoryVars
<1>19. CASE RestoreExpired
  BY <1>19 DEF RestoreExpired, NotRestored, backendVars, ownerVars, memoryVars, Without
<1>20. CASE RestoreLoads
  BY <1>20 DEF RestoreLoads, ownerVars, memoryVars, Usable, Inductive, TypeOK, OwnerTypeOK,
     Request, SnapshotsFaithful, SyncInv, WeightsInv
<1>21. CASE Touched
  BY <1>21 DEF Touched, backendVars, ownerVars, memoryVars
<1>22. CASE TouchFails
  BY <1>22 DEF TouchFails, Unavailable, backendVars
<1>23. CASE SeedSkipped
  BY <1>23 DEF SeedSkipped, backendVars, ownerVars, memoryVars
<1>24. CASE SeedLoads
  <2>1. pc = "seed" /\ synced /\ identity = model
    BY <1>24 DEF SeedLoads, Inductive, SyncInv, WeightsInv
  <2>2. PICK source \in Seeds : slot' = entries[source].content
    BY <1>24 DEF SeedLoads
  <2>3. slot'.weights = identity /\ slot'.sound
    BY <2>2 DEF Seeds, Usable, Inductive, SnapshotsFaithful
  <2> QED BY <1>24, <2>1, <2>3 DEF SeedLoads, memoryVars, ownerVars
<1>25. CASE LoadFails
  BY <1>25, LoadingSteps DEF LoadFails, Unavailable, Empty, Content
<1>26. CASE LoadUnsafe
  BY <1>26 DEF LoadUnsafe, Release
<1>27. CASE Completed
  BY <1>27 DEF Completed, Release, Content, Sound, Empty
<1>28. CASE UpstreamFails
  <2>1. Sound(slot, model)
    BY DEF Sound
  <2>2. slot' = slot \/ slot' = Content("partial", None, None, model, Sound(slot, model))
    BY <1>28 DEF UpstreamFails
  <2> QED BY <1>28, <2>1, <2>2 DEF UpstreamFails, Release, Content, Empty
<1>29. CASE \E k \in Keys : Forget(k)
  BY <1>29 DEF Forget, backendVars, ownerVars, memoryVars, Without
<1>30. CASE Cleanup
  BY <1>30 DEF Cleanup, backendVars, ownerVars, memoryVars, Without
<1>31. CASE \E m \in Models : BackendRestarts(m)
  BY <1>31 DEF BackendRestarts, ownerVars, Empty, Content
<1>32. CASE ProxyRestarts
  <2>1. ASSUME NEW c \in Loadable
        PROVE  c.weights = model /\ c.sound
    BY <2>1, LoadableEntries, LoadableSteps DEF Inductive, SnapshotsFaithful, SyncInv, WeightsInv
  <2>2. slot' \in {slot, Empty} \cup Loadable
          \cup {Content("partial", None, None, model, Sound(slot, model))}
    BY <1>32 DEF ProxyRestarts, Interrupted
  <2>3. ASSUME NEW k \in Keys, PublishedEntries[k] # None
        PROVE  PublishedEntries[k].content.sound
    BY <2>3 DEF PublishedEntries, Inductive, TypeOK, SnapshotTypeOK
  <2>4. Sound(slot, model)
    BY DEF Sound
  <2>5. slot'.sound /\ (slot'.kind # "empty" => slot'.weights = model)
    BY <2>1, <2>2, <2>4 DEF Content, Empty
  <2>6. pending'.sound /\ model' = model
    BY <1>32 DEF ProxyRestarts, Release, Content, Empty
  <2>7. entries' = entries \/ entries' = PublishedEntries
    BY <1>32 DEF ProxyRestarts
  <2> QED BY <2>3, <2>5, <2>6, <2>7
<1>33. CASE UNCHANGED vars
  BY <1>33 DEF vars
<1> QED
  BY <1>1, <1>2, <1>3, <1>4, <1>5, <1>6, <1>7, <1>8, <1>9, <1>10, <1>11, <1>12, <1>13, <1>14,
     <1>15, <1>16, <1>17, <1>18, <1>19, <1>20, <1>21, <1>22, <1>23, <1>24, <1>25, <1>26, <1>27,
     <1>28, <1>29, <1>30, <1>31, <1>32, <1>33 DEF Next

-----------------------------------------------------------------------------
(* The theorems about what conversations are promised. *)

\* A step that changes nothing or is one of Next preserves the policy.
LEMMA PolicyStep ==
  ASSUME "blank" \notin Faults
  PROVE  Inductive /\ Policy /\ [Next]_vars => Policy'
BY TurnStep, OutgoingStep, IncomingStep, ResumeStep DEF Policy

\* Whatever else fails and restarts, for every save policy: who loses the slot is known, what it
\* was promised is kept, and who gets it gets its own state.
THEOREM PolicyInvariance ==
  ASSUME "blank" \notin Faults
  PROVE  Spec => []Policy
<1>1. Init => Policy
  BY DEF Init, Policy, TurnInv, OutgoingInv, IncomingInv, ResumesOwnState
<1> QED BY <1>1, PolicyStep, InductiveInvariance, PTL DEF Spec

\* Archive.switch: background work never costs a parked or autosaved conversation its state,
\* unless a save was tried and failed, or the backend restarted between the two requests of one.
THEOREM BackgroundHarmless ==
  ASSUME "blank" \notin Faults
  PROVE  Spec => []BackgroundPreserves
<1>1. Policy => BackgroundPreserves
  BY DEF Policy, OutgoingInv, BackgroundPreserves
<1> QED BY <1>1, PolicyInvariance, PTL

\* Archive.save's policy: a conversation this model saved before, or that autosaves, can be
\* restored to within Growth tokens of its last turn, and to nothing edited away since, as long as
\* the backend does not restart between the two requests of a save.
THEOREM DisplacedBounded ==
  ASSUME "blank" \notin Faults
  PROVE  Spec => []DisplacedWithinGrowth
<1>1. Policy => DisplacedWithinGrowth
  BY DEF Policy, OutgoingInv, DisplacedWithinGrowth
<1> QED BY <1>1, PolicyInvariance, PTL

\* Archive.switch and Archive.restore: a returning conversation with a usable snapshot resumes
\* from its own state, never from a seed or from scratch, as long as the backend does not restart
\* between the two requests of a save.
THEOREM OwnStateResumed ==
  ASSUME "blank" \notin Faults
  PROVE  Spec => []ResumesOwnState
<1>1. Policy => ResumesOwnState
  BY DEF Policy
<1> QED BY <1>1, PolicyInvariance, PTL

\* Archive.park and Archive.displaced: while the manifest check cannot fail, and the backend does
\* not restart between the two requests of a save, whoever is told that a conversation is parked
\* finds its last completed turn on disk.
THEOREM ParkedTold ==
  ASSUME {"runtime", "blank"} \cap Faults = {}
  PROVE  Spec => []ParkedIsLatest
<1> DEFINE Told == Policy /\ ClaimInv /\ ParkedIsLatest
<1>1. Init => Told
  BY DEF Init, Policy, TurnInv, OutgoingInv, IncomingInv, ResumesOwnState, ClaimInv, ParkedIsLatest
<1>2. Inductive /\ Told /\ [Next]_vars => Told'
  BY PolicyStep, ClaimStep, AnswerStep DEF Policy
<1>3. Told => ParkedIsLatest
  OBVIOUS
<1> HIDE DEF Told
<1> QED BY <1>1, <1>2, <1>3, InductiveInvariance, PTL DEF Spec

\* Archive.runtime: as long as the backend is only restarted between requests, inference never
\* runs on a state that other weights computed.
THEOREM OwnWeights ==
  ASSUME {"restart", "blank", "swap"} \cap Faults = {}
  PROVE  Spec => []NoForeignState
<1>1. Init => WeightsInv
  BY DEF Init, WeightsInv, Empty, Content
<1>2. Inductive /\ WeightsInv /\ [Next]_vars => WeightsInv'
  BY WeightsStep
<1>3. WeightsInv => NoForeignState
  BY DEF WeightsInv, NoForeignState
<1> QED BY <1>1, <1>2, <1>3, InductiveInvariance, PTL DEF Spec

\* Archive.load: if moreover a slot can always be erased, and the proxy does not die in the middle
\* of a restore that fails, inference never runs on a half-written slot.
THEOREM NothingHalfWritten ==
  ASSUME {"restart", "blank", "swap", "erase"} \cap Faults = {},
         ~({"crash", "load"} \subseteq Faults)
  PROVE  Spec => []NoUnsafeInference
<1>1. Init => WeightsInv /\ SoundInv
  BY DEF Init, WeightsInv, SoundInv, Empty, Content
<1>2. Inductive /\ WeightsInv /\ SoundInv /\ [Next]_vars => (WeightsInv /\ SoundInv)'
  BY WeightsStep, SoundStep
<1>3. SoundInv => NoUnsafeInference
  BY DEF SoundInv, NoUnsafeInference
<1> QED BY <1>1, <1>2, <1>3, InductiveInvariance, PTL DEF Spec
=============================================================================
