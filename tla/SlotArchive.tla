---------------------------- MODULE SlotArchive ----------------------------
(***************************************************************************)
(* The kvpark proxy's archive (kvpark/proxy.py, class Archive and          *)
(* Handler.relay) in front of a one-slot llama.cpp server.                 *)
(*                                                                         *)
(* One request at a time owns the inference lock, from switch() until the  *)
(* whole reply was relayed.  The owner's work is cut where it waits for    *)
(* the backend or the disk, because there the backend can restart (perhaps *)
(* with other weights), a call can fail, or the proxy itself can die.      *)
(*                                                                         *)
(* Abstractions.  A prompt signature is a record of its prefix (system     *)
(* prompt, tools and render settings), its list of message digests and the *)
(* autosave flag; a token is a message.  File names are unique per save,   *)
(* so a displaced claim "names the current file" is membership in a set.   *)
(* Sizes and clocks are not modelled: what is expired or over capacity is  *)
(* chosen freely (module SnapshotStore models the files themselves).       *)
(***************************************************************************)
EXTENDS Naturals, FiniteSets, Sequences, SequencesExt

CONSTANTS
  Keys,       \* conversation keys (key_for of a client's session id)
  Models,     \* runtime identities: weights, build and arguments
  Settings,   \* (system, tools, render_settings) of a request
  Messages,   \* message digests
  Prompts,    \* the signatures clients send
  None,       \* Python's None
  AutoSave,   \* KVPARK_AUTO_SAVE
  MinTokens,  \* KVPARK_MIN_TOKENS
  Growth,     \* RESAVE_GROWTH_TOKENS
  Faults      \* what may go wrong in a behaviour

FaultKinds == {"runtime", "slot", "save", "publish", "load", "erase", "touch",
               "upstream", "crash", "restart", "blank", "swap"}

ASSUME PromptsAssumption ==
  Prompts \subseteq [prefix: Settings, messages: Seq(Messages), autosave: BOOLEAN]
ASSUME NoneAssumption == None \notin Keys /\ None \notin Prompts /\ None \notin Models
ASSUME ModelsAssumption == Models # {}
ASSUME SettingsAssumption ==
  /\ AutoSave \in BOOLEAN
  /\ MinTokens \in Nat
  /\ Growth \in Nat
  /\ Faults \subseteq FaultKinds

VARIABLES
  slot,       \* what the backend's slot 0 holds
  model,      \* identity of the weights the backend runs
  pc,         \* where the owner of the inference lock is; "idle": lock free
  op,         \* what the owner does: "turn", "park" or "gap" (simulate-gap)
  req,        \* the owner's request: key, prompt signature and role
  current,    \* Archive.current_key
  prompt,     \* Archive.current_prompt
  identity,   \* Archive.identity
  synced,     \* Archive.run_id is the run_id of the process now running
  entries,    \* Archive.entries: the published snapshot of each key
  displaced,  \* keys whose Archive.displaced file is still their snapshot
  outgoing,   \* switch(): the conversation that loses the slot; park(): the key
  protect,    \* switch(): background work must not cost outgoing its state
  resident,   \* switch(): the slot held tokens when it was looked at
  pending,    \* save(): what the file written by the backend holds
  ready,      \* relay(): archive_ready
  outcome,    \* how this request's save of outgoing ended
  latest,     \* history: the last completed turn of each conversation
  answer      \* the key the last call was told is parked

backendVars == <<slot, model>>
ownerVars == <<op, req, outgoing, protect, resident, pending, ready, outcome>>
memoryVars == <<current, prompt, identity, synced>>
vars == <<slot, model, pc, op, req, current, prompt, identity, synced, entries,
          displaced, outgoing, protect, resident, pending, ready, outcome, latest, answer>>

-----------------------------------------------------------------------------
(* Data. *)

Contents == [kind: {"empty", "partial", "turn"}, key: Keys \cup {None},
             prompt: Prompts \cup {None}, weights: Models \cup {None}, sound: BOOLEAN]

Content(kind, k, p, m, sound) ==
  [kind |-> kind, key |-> k, prompt |-> p, weights |-> m, sound |-> sound]

\* A slot after a start or an erase, and one left behind by a failed restore.
Empty == Content("empty", None, None, None, TRUE)
Unsafe == Content("partial", None, None, None, FALSE)

\* Computing on what the slot holds is sound when these weights made it.
Sound(c, m) == c.kind = "empty" \/ (c.sound /\ c.weights = m)

Entry == [identity: Models, prompt: Prompts, content: Contents]

ASSUME EntryAssumption == None \notin Entry

Request == [key: Keys \cup {None}, prompt: Prompts \cup {None},
            role: {"foreground", "background"}]

\* Foreground requests carry a key; others never get one (conversation_key).
Requests ==
  [key: Keys, prompt: Prompts, role: {"foreground"}]
    \cup [key: {None}, prompt: {None}, role: {"foreground", "background"}]

\* n_prompt_tokens of a slot, or n_saved of a file.
Tokens(c) ==
  IF c.kind = "empty" THEN 0 ELSE IF c.prompt = None THEN 1 ELSE Len(c.prompt.messages)

\* Does `new` continue the conversation that a snapshot of signature `old` holds?
Continues(old, new) ==
  /\ old.prefix = new.prefix
  /\ IsPrefix(old.messages, new.messages)

\* Mutant: a snapshot of any model will do.
UsableAnyModel(k, p) ==
  /\ entries[k] # None
  /\ entries[k].prompt.prefix = p.prefix

\* The snapshot under k was made by this model, for the prefix of prompt p.
Usable(k, p) ==
  /\ entries[k] # None
  /\ entries[k].identity = identity
  /\ entries[k].prompt.prefix = p.prefix

NoRequest == [key |-> None, prompt |-> None, role |-> "foreground"]

Init ==
  /\ slot = Empty
  /\ model \in Models
  /\ pc = "idle"
  /\ op = "turn"
  /\ req = NoRequest
  /\ current = None
  /\ prompt = None
  /\ identity = None
  /\ synced = FALSE
  /\ entries = [k \in Keys |-> None]
  /\ displaced = {}
  /\ outgoing = None
  /\ protect = FALSE
  /\ resident = FALSE
  /\ pending = Empty
  /\ ready = TRUE
  /\ outcome = "none"
  /\ latest = [k \in Keys |-> None]
  /\ answer = None

-----------------------------------------------------------------------------
(* The lock: who takes it, and how its owner lets it go. *)

Begin(o, r) ==
  /\ pc = "idle"
  /\ pc' = "runtime"
  /\ op' = o
  /\ req' = r
  /\ answer' = None
  /\ UNCHANGED <<backendVars, memoryVars, outgoing, protect, resident, pending, ready,
                 outcome, entries, displaced, latest>>

Turn(r) == Begin("turn", r)

Park(o, k) == Begin(o, [key |-> k, prompt |-> None, role |-> "foreground"])

\* The lock is released; the request's local values are gone.
Release ==
  /\ pc' = "idle"
  /\ op' = "turn"
  /\ req' = NoRequest
  /\ outgoing' = None
  /\ protect' = FALSE
  /\ resident' = FALSE
  /\ pending' = Empty
  /\ ready' = TRUE
  /\ outcome' = "none"

\* relay(): the archive gives up on this request, but its inference continues.
Unavailable ==
  /\ pc' = "generate"
  /\ ready' = FALSE
  /\ current' = None
  /\ prompt' = None
  /\ UNCHANGED <<op, req, outgoing, protect, resident, pending, outcome, latest, answer>>

-----------------------------------------------------------------------------
(* runtime(): is the process the manifest describes still the one we know? *)

\* Mutant: the identity is read once.
KnowRuntimeOnce ==
  /\ identity' = IF identity = None THEN model ELSE identity
  /\ synced' = TRUE
  /\ current' = IF synced THEN current ELSE None
  /\ prompt' = IF synced THEN prompt ELSE None

\* What the check does to the archive's memory.
KnowRuntime ==
  /\ identity' = model
  /\ synced' = TRUE
  /\ current' = IF synced THEN current ELSE None
  /\ prompt' = IF synced THEN prompt ELSE None

KnownDisplaced == IF synced THEN displaced ELSE {}

\* Mutant: the key's displaced claim is kept, or recorded instead of dropped.
TurnRuntimeKeepsClaim ==
  /\ pc = "runtime" /\ op = "turn"
  /\ KnowRuntime
  /\ displaced' = KnownDisplaced
  /\ pc' = "slot"
  /\ UNCHANGED <<backendVars, ownerVars, entries, latest, answer>>

TurnRuntimeClaims ==
  /\ pc = "runtime" /\ op = "turn"
  /\ KnowRuntime
  /\ displaced' = KnownDisplaced \cup {req.key}
  /\ pc' = "slot"
  /\ UNCHANGED <<backendVars, ownerVars, entries, latest, answer>>

TurnRuntime ==
  /\ pc = "runtime" /\ op = "turn"
  /\ KnowRuntime
  /\ displaced' = KnownDisplaced \ {req.key}
  /\ pc' = "slot"
  /\ UNCHANGED <<backendVars, ownerVars, entries, latest, answer>>

ParkRuntime ==
  /\ pc = "runtime" /\ op # "turn"
  /\ KnowRuntime
  /\ displaced' = KnownDisplaced
  /\ \/ /\ req.key = current'
        /\ pc' = "save"
        /\ outgoing' = req.key
        /\ UNCHANGED <<op, req, protect, resident, pending, ready, outcome, answer>>
     \* Not resident, but saved when background work displaced it.
     \/ /\ req.key # current' /\ op = "park" /\ req.key \in KnownDisplaced
        /\ Release
        /\ answer' = req.key
     \/ /\ req.key # current' /\ ~(op = "park" /\ req.key \in KnownDisplaced)
        /\ Release
        /\ UNCHANGED answer
  /\ UNCHANGED <<backendVars, entries, latest>>

\* Manifest unreadable, process gone, or model files changed.
RuntimeFails ==
  /\ pc = "runtime" /\ "runtime" \in Faults
  /\ IF op = "turn"
       THEN Unavailable
       ELSE Release /\ UNCHANGED <<current, prompt, latest, answer>>
  /\ UNCHANGED <<backendVars, identity, synced, entries, displaced>>

-----------------------------------------------------------------------------
(* switch(), up to the decision what to save. *)

\* Nothing ran in the slot since this snapshot was taken.
Identical(e) ==
  /\ e # None
  /\ e.identity = identity
  /\ e.prompt = prompt
  /\ Tokens(e.content) = Tokens(slot)

SlotStays ==
  /\ pc = "slot"
  /\ LET owner == IF Tokens(slot) = 0 THEN None ELSE current
     IN /\ req.key = owner
        /\ current' = owner
  /\ pc' = "generate"
  /\ UNCHANGED <<backendVars, ownerVars, prompt, identity, synced, entries, displaced, latest, answer>>

SlotChanges ==
  /\ pc = "slot"
  /\ LET tokens == Tokens(slot)
         owner == IF tokens = 0 THEN None ELSE current
         guard == /\ owner # None
                  /\ req.role = "background"
                  /\ entries[owner] # None \/ prompt.autosave
         keep == owner = None \/ Identical(entries[owner])
     IN /\ req.key # owner
        /\ current' = None
        /\ outgoing' = owner
        /\ protect' = guard
        /\ resident' = (tokens > 0)
        /\ pc' = IF keep THEN "restore" ELSE "save"
        /\ outcome' = IF owner # None /\ keep THEN "kept" ELSE outcome
        /\ displaced' = IF guard /\ keep THEN displaced \cup {owner} ELSE displaced
  /\ UNCHANGED <<backendVars, op, req, prompt, identity, synced, entries, pending, ready, latest, answer>>

\* /slots unreachable, or the slot is busy with bypass traffic.
SlotFails ==
  /\ pc = "slot" /\ "slot" \in Faults
  /\ Unavailable
  /\ UNCHANGED <<backendVars, identity, synced, entries, displaced>>

-----------------------------------------------------------------------------
(* save(): the slot is looked at, the backend asked to write a new file, and *)
(* its metadata published: three waits.                                      *)

\* Mutant: an empty slot is not refused.
SavableAlways == prompt # None

\* save() refuses without a foreground prompt or with an empty slot.
Savable == prompt # None /\ Tokens(slot) > 0

Stale(e) == e.identity = identity /\ ~Continues(e.prompt, prompt)

\* Mutant: exactly Growth tokens more are not enough.
WantedLate(e) ==
  IF e = None
    THEN (AutoSave \/ prompt.autosave) /\ Tokens(slot) >= MinTokens
    ELSE Stale(e) \/ Tokens(slot) > Tokens(e.content) + Growth

\* The policy for a save nobody insists on.
Wanted(e) ==
  IF e = None
    THEN (AutoSave \/ prompt.autosave) /\ Tokens(slot) >= MinTokens
    ELSE Stale(e) \/ Tokens(slot) >= Tokens(e.content) + Growth

\* Mutant: background work does not force the save.
ForcedByPark == op # "turn"

Forced == protect \/ op # "turn"

\* save() returned: switch() goes on to restore(), park() answers or erases.
AfterSave(result, kept) ==
  /\ \/ /\ op = "turn"
        /\ pc' = "restore"
        /\ outcome' = result
        /\ displaced' = IF protect THEN kept \cup {outgoing} ELSE kept
        /\ pending' = Empty
        /\ UNCHANGED <<op, req, outgoing, protect, resident, ready, answer>>
     \/ /\ op = "gap"
        /\ pc' = "erase"
        /\ outcome' = result
        /\ displaced' = kept
        /\ pending' = Empty
        /\ UNCHANGED <<op, req, outgoing, protect, resident, ready, answer>>
     \/ /\ op = "park"
        /\ Release
        /\ displaced' = kept
        /\ answer' = outgoing
  /\ UNCHANGED latest

\* save() raised: switch() records "save-failed" and carries on, park() fails.
AfterSaveFailed(kept) ==
  /\ \/ /\ op = "turn"
        /\ pc' = "restore"
        /\ outcome' = "failed"
        /\ pending' = Empty
        /\ UNCHANGED <<op, req, outgoing, protect, resident, ready>>
     \/ /\ op # "turn"
        /\ Release
  /\ displaced' = kept
  /\ UNCHANGED <<latest, answer>>

SaveUnwanted ==
  /\ pc = "save" /\ Savable
  /\ ~Forced /\ ~Wanted(entries[outgoing])
  /\ AfterSave("skipped", displaced)
  /\ UNCHANGED <<backendVars, memoryVars, entries>>

SaveWanted ==
  /\ pc = "save" /\ Savable
  /\ Forced \/ Wanted(entries[outgoing])
  /\ pc' = "post"
  /\ UNCHANGED <<backendVars, memoryVars, ownerVars, entries, displaced, latest, answer>>

\* What is written is what the slot holds by now; n_saved is not looked at.
SavePosted ==
  /\ pc = "post"
  /\ pending' = slot
  /\ pc' = "publish"
  /\ UNCHANGED <<backendVars, memoryVars, op, req, outgoing, protect, resident, ready,
                 outcome, entries, displaced, latest, answer>>

\* Nothing to save, or the backend refused, wrote no .resume, or wrote too much.
SaveFails ==
  /\ \/ pc = "save" /\ ~Savable
     \/ pc \in {"save", "post"} /\ "save" \in Faults
  /\ AfterSaveFailed(displaced)
  /\ UNCHANGED <<backendVars, memoryVars, entries>>

PublishedEntries ==
  [entries EXCEPT ![outgoing] = [identity |-> identity, prompt |-> prompt, content |-> pending]]

Without(es, dropped) == [k \in Keys |-> IF k \in dropped THEN None ELSE es[k]]

\* enforce_capacity() follows; the new snapshot is the last it would evict.
Published ==
  /\ pc = "publish"
  /\ \E evicted \in SUBSET (Keys \ {outgoing}) :
       /\ \A k \in evicted : entries[k] # None
       /\ entries' = Without(PublishedEntries, evicted)
       /\ AfterSave("saved", displaced \ (evicted \cup {outgoing}))
  /\ UNCHANGED <<backendVars, memoryVars>>

\* The metadata could not be written, or it was but its directory not synced.
PublishFails ==
  /\ pc = "publish" /\ "publish" \in Faults
  /\ \/ /\ entries' = entries
        /\ AfterSaveFailed(displaced)
     \/ /\ entries' = PublishedEntries
        /\ AfterSaveFailed(displaced \ {outgoing})
  /\ UNCHANGED <<backendVars, memoryVars>>

\* park(simulate=True): erase what was just saved.
GapErased ==
  /\ pc = "erase"
  /\ slot' = Empty
  /\ current' = None /\ prompt' = None
  /\ Release
  /\ answer' = req.key
  /\ UNCHANGED <<model, identity, synced, entries, displaced, latest>>

GapEraseFails ==
  /\ pc = "erase" /\ "erase" \in Faults
  /\ slot' \in {slot, Empty}
  /\ Release
  /\ UNCHANGED <<model, memoryVars, entries, displaced, latest, answer>>

-----------------------------------------------------------------------------
(* restore() and seed(): fill the slot for the incoming conversation. *)

SeedWanted ==
  /\ req.prompt.autosave
  /\ ~(resident /\ prompt # None /\ prompt.prefix = req.prompt.prefix)

\* restore() loaded nothing.
NotRestored ==
  /\ pc' = IF SeedWanted THEN "seed" ELSE "generate"
  /\ UNCHANGED <<backendVars, memoryVars, ownerVars, latest, answer>>

\* Background work has nothing to restore.
RestoreNobody ==
  /\ pc = "restore" /\ req.key = None
  /\ pc' = "generate"
  /\ UNCHANGED <<backendVars, memoryVars, ownerVars, entries, displaced, latest, answer>>

\* Mutant: a slot with the same prefix is thought good enough.
RestoreSkippedIfResident ==
  /\ pc = "restore" /\ req.key # None
  /\ ~Usable(req.key, req.prompt)
       \/ (resident /\ prompt # None /\ prompt.prefix = req.prompt.prefix)
  /\ NotRestored
  /\ UNCHANGED <<entries, displaced>>

\* No snapshot, other weights, or a changed prefix: the snapshot is kept.
RestoreSkipped ==
  /\ pc = "restore" /\ req.key # None
  /\ ~Usable(req.key, req.prompt)
  /\ NotRestored
  /\ UNCHANGED <<entries, displaced>>

RestoreExpired ==
  /\ pc = "restore" /\ req.key # None
  /\ entries[req.key] # None
  /\ entries[req.key].identity = identity
  /\ entries' = Without(entries, {req.key})
  /\ displaced' = displaced \ {req.key}
  /\ NotRestored

RestoreLoads ==
  /\ pc = "restore" /\ req.key # None
  /\ Usable(req.key, req.prompt)
  /\ slot' = entries[req.key].content
  /\ pc' = "touch"
  /\ UNCHANGED <<model, memoryVars, ownerVars, entries, displaced, latest, answer>>

\* last_used is rewritten; a failure there still abandons the archive.
Touched ==
  /\ pc = "touch"
  /\ pc' = "generate"
  /\ UNCHANGED <<backendVars, memoryVars, ownerVars, entries, displaced, latest, answer>>

TouchFails ==
  /\ pc = "touch" /\ "touch" \in Faults
  /\ Unavailable
  /\ UNCHANGED <<backendVars, identity, synced, entries, displaced>>

\* The snapshots seed() may start from.
Seeds ==
  {k \in Keys \ {req.key} : Usable(k, req.prompt)}

\* No snapshot fits, or prefilling the prefix was measured to be faster.
SeedSkipped ==
  /\ pc = "seed"
  /\ pc' = "generate"
  /\ UNCHANGED <<backendVars, memoryVars, ownerVars, entries, displaced, latest, answer>>

\* The smallest of the snapshots that have not expired.
SeedLoads ==
  /\ pc = "seed"
  /\ \E live \in SUBSET Seeds, source \in Keys :
       /\ source \in live
       /\ \A k \in live : Tokens(entries[source].content) <= Tokens(entries[k].content)
       /\ slot' = entries[source].content
  /\ pc' = "generate"
  /\ UNCHANGED <<model, memoryVars, ownerVars, entries, displaced, latest, answer>>

\* The files a restore call of this step can name.
Loadable ==
  CASE pc = "restore" /\ req.key # None ->
         {entries[k].content : k \in {j \in {req.key} : Usable(j, req.prompt)}}
    [] pc = "seed" -> {entries[k].content : k \in Seeds}
    [] OTHER -> {}

Loading == Loadable # {}

\* Mutant: a slot that was half restored is not erased.
LoadFailsNoErase ==
  /\ Loading /\ "load" \in Faults
  /\ slot' = Unsafe
  /\ Unavailable
  /\ UNCHANGED <<model, identity, synced, entries, displaced>>

\* load(): the restore was rejected half way; the slot is erased.
LoadFails ==
  /\ Loading /\ "load" \in Faults
  /\ slot' = Empty
  /\ Unavailable
  /\ UNCHANGED <<model, identity, synced, entries, displaced>>

\* load(): the erase failed as well.  UnsafeRestoreError ends this request.
LoadUnsafe ==
  /\ Loading /\ {"load", "erase"} \subseteq Faults
  /\ slot' = Unsafe
  /\ current' = None /\ prompt' = None
  /\ Release
  /\ UNCHANGED <<model, identity, synced, entries, displaced, latest, answer>>

-----------------------------------------------------------------------------
(* relay(): inference, and who owns the slot afterwards. *)

Completed ==
  /\ pc = "generate"
  /\ LET turn == Content("turn", req.key, req.prompt, model, Sound(slot, model))
     IN /\ slot' = turn
        /\ latest' = IF req.key = None THEN latest ELSE [latest EXCEPT ![req.key] = turn]
  /\ current' = IF ready THEN req.key ELSE None
  /\ prompt' = IF ready THEN req.prompt ELSE None
  /\ Release
  /\ UNCHANGED <<model, identity, synced, entries, displaced, answer>>

\* Mutant: a failed generation still claims the slot.
UpstreamFailsClaims ==
  /\ pc = "generate" /\ "upstream" \in Faults
  /\ slot' \in {slot, Content("partial", None, None, model, Sound(slot, model))}
  /\ current' = IF ready THEN req.key ELSE None
  /\ prompt' = IF ready THEN req.prompt ELSE None
  /\ Release
  /\ UNCHANGED <<model, identity, synced, entries, displaced, latest, answer>>

\* No answer, an error status, or an error inside the stream.  "partial" stands
\* for whatever consistent state the unclaimed generation left.
UpstreamFails ==
  /\ pc = "generate" /\ "upstream" \in Faults
  /\ slot' \in {slot, Content("partial", None, None, model, Sound(slot, model))}
  /\ current' = None
  /\ prompt' = None
  /\ Release
  /\ UNCHANGED <<model, identity, synced, entries, displaced, latest, answer>>

-----------------------------------------------------------------------------
(* Other users of the lock, and the environment. *)

Forget(k) ==
  /\ pc = "idle"
  /\ entries[k] # None
  /\ entries' = Without(entries, {k})
  /\ displaced' = displaced \ {k}
  /\ answer' = None
  /\ UNCHANGED <<backendVars, memoryVars, ownerVars, pc, latest>>

\* gc() and update_retention(): expiry and capacity choose what goes.
Cleanup ==
  /\ pc = "idle"
  /\ \E gone \in SUBSET {k \in Keys : entries[k] # None} :
       /\ gone # {}
       /\ entries' = Without(entries, gone)
       /\ displaced' = displaced \ gone
  /\ answer' = None
  /\ UNCHANGED <<backendVars, memoryVars, ownerVars, pc, latest>>

\* The backend is started again: an empty slot, perhaps another model.  Between
\* requests this can always happen; "restart" lets it happen at every wait of the
\* lock's owner but one, "blank" at that one, between the two requests of save(),
\* and "swap" only while a saved file is being synced, which takes seconds.
BackendRestarts(m) ==
  /\ \/ pc = "idle"
     \/ pc # "post" /\ "restart" \in Faults
     \/ pc = "post" /\ "blank" \in Faults
     \/ pc = "publish" /\ "swap" \in Faults
  /\ slot' = Empty
  /\ model' = m
  /\ synced' = FALSE
  /\ UNCHANGED <<pc, ownerVars, current, prompt, identity, entries, displaced, latest, answer>>

\* What the slot may hold when the proxy dies under its owner.
Interrupted ==
  CASE pc = "generate" -> {slot, Content("partial", None, None, model, Sound(slot, model))}
    [] pc = "erase" -> {slot, Empty}
    [] Loading -> {slot} \cup Loadable \cup (IF "load" \in Faults THEN {Unsafe} ELSE {})
    [] OTHER -> {slot}

\* The proxy dies and is started again; it reloads the published metadata.
ProxyRestarts ==
  /\ "crash" \in Faults
  /\ slot' \in Interrupted
  /\ entries' \in {entries} \cup (IF pc = "publish" THEN {PublishedEntries} ELSE {})
  /\ current' = None
  /\ prompt' = None
  /\ identity' = None
  /\ synced' = FALSE
  /\ displaced' = {}
  /\ Release
  /\ answer' = None
  /\ UNCHANGED <<model, latest>>

-----------------------------------------------------------------------------
Next ==
  \/ \E r \in Requests : Turn(r)
  \/ \E o \in {"park", "gap"}, k \in Keys : Park(o, k)
  \/ TurnRuntime \/ ParkRuntime \/ RuntimeFails
  \/ SlotStays \/ SlotChanges \/ SlotFails
  \/ SaveUnwanted \/ SaveWanted \/ SavePosted \/ SaveFails
  \/ Published \/ PublishFails
  \/ GapErased \/ GapEraseFails
  \/ RestoreNobody \/ RestoreSkipped \/ RestoreExpired \/ RestoreLoads
  \/ Touched \/ TouchFails
  \/ SeedSkipped \/ SeedLoads
  \/ LoadFails \/ LoadUnsafe
  \/ Completed \/ UpstreamFails
  \/ \E k \in Keys : Forget(k)
  \/ Cleanup
  \/ \E m \in Models : BackendRestarts(m)
  \/ ProxyRestarts

Spec == Init /\ [][Next]_vars

-----------------------------------------------------------------------------
(* Properties. *)

BackendTypeOK == slot \in Contents /\ model \in Models

OwnerTypeOK ==
  /\ pc \in {"idle", "runtime", "slot", "save", "post", "publish", "erase", "restore",
             "touch", "seed", "generate"}
  /\ op \in {"turn", "park", "gap"}
  /\ req \in Request
  /\ outgoing \in Keys \cup {None}
  /\ protect \in BOOLEAN
  /\ resident \in BOOLEAN
  /\ pending \in Contents
  /\ ready \in BOOLEAN
  /\ outcome \in {"none", "kept", "skipped", "saved", "failed"}

MemoryTypeOK ==
  /\ current \in Keys \cup {None}
  /\ prompt \in Prompts \cup {None}
  /\ identity \in Models \cup {None}
  /\ synced \in BOOLEAN
  /\ displaced \in SUBSET Keys

SnapshotTypeOK ==
  /\ entries \in [Keys -> Entry \cup {None}]
  /\ latest \in [Keys -> Contents \cup {None}]
  /\ answer \in Keys \cup {None}

\* The shape of the state: the backend's, the lock owner's, Archive's
\* memory, the snapshots and what callers were told.
TypeOK == BackendTypeOK /\ OwnerTypeOK /\ MemoryTypeOK /\ SnapshotTypeOK

\* A published snapshot holds what its metadata says: that conversation, at
\* that prompt, computed by those weights.  Background work, another
\* conversation or a half-finished generation never ends up under a key; an
\* empty slot only when the backend restarted between save()'s look at it and
\* the save (proxy.py:231 and 250), and a restart there is among the faults.
SnapshotsFaithful ==
  \A k \in Keys : entries[k] # None =>
    \/ entries[k].content = Empty /\ "blank" \in Faults
    \/ /\ entries[k].content.kind = "turn"
       /\ entries[k].content.key = k
       /\ entries[k].content.prompt = entries[k].prompt
       /\ entries[k].content.weights = entries[k].identity

\* Between requests, a slot that is not empty holds the last completed turn of
\* the conversation the archive believes resident, computed by the weights it
\* believes in unless the backend was restarted since.  (It may be empty: after
\* a restart, or when the reply to an erase was lost.)
OwnerHoldsSlot ==
  pc = "idle" /\ current # None /\ slot.kind # "empty" =>
    /\ slot = latest[current]
    /\ slot.key = current
    /\ slot.prompt = prompt
    /\ synced => slot.weights = identity

\* A save only ever publishes a conversation's newest completed turn: no
\* order of failures lets an older state overwrite a snapshot.  This property
\* and the next three are about behaviours without the fault "blank": a save
\* whose backend restarts between its two requests publishes an empty slot.
SavesAreLatest ==
  [][\A k \in Keys : entries'[k] # entries[k] /\ entries'[k] # None =>
       entries'[k].content = latest[k]]_vars

\* Two states of a conversation after the same turn.  Whether computing them was sound is left
\* aside: a slot that an unsafe one was computed into may equal a snapshot that is sound.
SameTurn(c, d) ==
  c.kind = d.kind /\ c.key = d.key /\ c.prompt = d.prompt /\ c.weights = d.weights

\* The last completed turn of conversation k is on disk.
Parked(k) == entries[k] # None /\ SameTurn(entries[k].content, latest[k])

\* Background work never costs a parked or autosaved conversation its state: when the work starts,
\* the state it displaced is on disk, unless a save was tried and failed (proxy.py:380-395).
BackgroundPreserves ==
  pc = "generate" /\ req.role = "background" /\ outgoing # None /\ protect
  /\ outcome # "failed" => Parked(outgoing)

\* Whoever is told that a conversation is parked finds its last completed turn on disk
\* (proxy.py:404-427).
ParkedIsLatest == answer # None => Parked(answer)

\* What the policy of save() grants a conversation k that had the slot and has lost it.
Resumable(k) ==
  LET wanted == IF entries[k] = None
                  THEN prompt.autosave /\ Tokens(latest[k]) >= MinTokens
                  ELSE entries[k].identity = identity
  IN wanted => /\ Usable(k, prompt)
               /\ Continues(entries[k].prompt, prompt)
               /\ Parked(k) \/ Tokens(latest[k]) < Tokens(entries[k].content) + Growth

\* A conversation that this model saved before, or that autosaves and is large enough, and now
\* lost the slot can be restored by the model to within Growth tokens of its last turn, and to
\* nothing that was edited away since (proxy.py:235-244).
DisplacedWithinGrowth ==
  pc = "generate" /\ outgoing # None /\ outcome # "failed" /\ prompt # None => Resumable(outgoing)

\* A returning conversation resumes from its own state whenever it has a
\* usable snapshot or still owns the slot; never from a seed or from scratch.
ResumesOwnState ==
  pc = "generate" /\ ready /\ synced /\ req.key # None /\ Usable(req.key, req.prompt) =>
    slot.kind = "turn" /\ slot.key = req.key

\* Inference never runs on a slot that a failed restore left half written.
NoUnsafeInference == pc = "generate" => slot.sound

\* Inference never runs on a state that other weights computed.
NoForeignState == pc = "generate" /\ slot.kind # "empty" => slot.weights \in {model, None}

-----------------------------------------------------------------------------
(* The inductive invariant behind TypeOK, SnapshotsFaithful, OwnerHoldsSlot   *)
(* and SavesAreLatest.                                                        *)

\* Which requests reach which step, and what the earlier steps established.
StepInv ==
  /\ pc \in {"slot", "restore", "touch", "seed", "generate"} => op = "turn"
  /\ pc = "erase" => op = "gap"
  /\ op = "turn" => req \in Requests
  /\ op # "turn" => req.key \in Keys
  /\ pc \in {"slot", "save", "post", "publish", "restore", "touch", "seed"} => identity \in Models
  /\ pc \in {"save", "post", "publish"} => outgoing \in Keys
  /\ pc \in {"save", "post", "publish", "erase"} /\ op # "turn" => current = outgoing
  /\ pc \in {"save", "post", "publish"} /\ op = "turn" => current = None
  /\ pc \in {"restore", "touch", "seed"} => current = None

\* The manifest's identity is that of the process it describes.
SyncInv == synced => identity = model

\* c is the last completed turn of conversation k, at the resident prompt.
NewestTurn(c, k) ==
  /\ c.kind = "turn"
  /\ c.key = k
  /\ c.prompt = prompt
  /\ c = latest[k]

\* What the slot and the file being written hold, step by step.
OwnerInv ==
  /\ pc \in {"idle", "runtime"} /\ current # None /\ slot.kind # "empty" =>
       NewestTurn(slot, current) /\ (synced => slot.weights = identity)
  /\ pc \in {"slot", "save", "post", "publish", "erase"} /\ current # None /\ slot.kind # "empty" =>
       NewestTurn(slot, current) /\ slot.weights = identity
  /\ pc \in {"save", "post"} /\ slot.kind # "empty" =>
       NewestTurn(slot, outgoing) /\ slot.weights = identity
  /\ pc \in {"post", "publish"} => prompt # None
  /\ pc = "post" /\ slot.kind = "empty" => slot = Empty /\ "blank" \in Faults
  /\ pc = "publish" =>
       \/ pending = Empty /\ "blank" \in Faults
       \/ NewestTurn(pending, outgoing) /\ pending.weights = identity

Inductive == TypeOK /\ StepInv /\ SyncInv /\ OwnerInv /\ SnapshotsFaithful

-----------------------------------------------------------------------------
(* What Inductive needs besides, for the promises to the conversations.       *)

\* Who loses the slot, and to whom.
TurnInv ==
  /\ pc \in {"idle", "runtime", "slot"} => outgoing = None /\ ~protect
  /\ protect => op = "turn" /\ req.key = None
  /\ op = "turn" /\ outgoing # None => outgoing # req.key
  /\ pc \in {"save", "post", "publish"} /\ op # "turn" => outgoing = req.key
  /\ pc # "idle" => answer = None

\* What the saved snapshot of the conversation that lost the slot is good for.
OutgoingInv ==
  /\ pc \in {"restore", "touch", "seed", "generate"} /\ outgoing # None /\ outcome # "failed" =>
       (protect => Parked(outgoing)) /\ (prompt # None => Resumable(outgoing))
  /\ pc = "erase" => req.key \in Keys /\ Parked(req.key)

\* Where the slot of the conversation that gets it comes from.
IncomingInv ==
  /\ pc = "seed" => ~Usable(req.key, req.prompt)
  /\ pc = "touch" /\ synced => slot.kind = "turn" /\ slot.key = req.key

Policy == TurnInv /\ OutgoingInv /\ IncomingInv /\ ResumesOwnState

\* While the manifest can be read, what was displaced stays parked until its next turn.
ClaimInv ==
  /\ \A k \in displaced : Parked(k)
  /\ op = "turn" /\ pc \notin {"idle", "runtime"} => req.key \notin displaced

\* While the backend restarts between requests only, its weights are known during one ...
WeightsInv ==
  /\ pc \in {"slot", "save", "post", "publish", "erase", "restore", "touch", "seed"} => synced
  /\ slot.kind # "empty" => slot.weights \in {model, None}

\* ... and while an erase succeeds too, nothing half written is ever computed on.
SoundInv ==
  /\ slot.sound /\ pending.sound
  /\ \A k \in Keys : entries[k] # None => entries[k].content.sound
  /\ slot.kind # "empty" => slot.weights = model
=============================================================================
