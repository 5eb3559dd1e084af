----------------------------- MODULE Snapshots -----------------------------
(***************************************************************************)
(* What an archive promises, without files: under each conversation key    *)
(* the snapshot a restarted proxy would find, and the snapshot its caller  *)
(* was told is on disk.  SnapshotStore implements this.                    *)
(***************************************************************************)
EXTENDS Naturals

CONSTANTS
  Keys,         \* conversation keys
  Generations,  \* saves: naturals, in the order they start
  None,         \* no snapshot
  MaxOutages    \* power losses

VARIABLES
  catalogue,  \* the generation that a restart now finds under each key
  promised,   \* the generation whose save was acknowledged and not withdrawn
  outages     \* power losses so far

vars == <<catalogue, promised, outages>>

\* A later save supersedes an earlier one.
NotOlder(g, h) == h = None \/ (g # None /\ g >= h)

Init ==
  /\ catalogue = [k \in Keys |-> None]
  /\ promised = [k \in Keys |-> None]
  /\ outages = 0

\* A save becomes visible, atomically and in place of an older one.
Replace(k, g) ==
  /\ NotOlder(g, catalogue[k]) /\ g # catalogue[k]
  /\ catalogue' = [catalogue EXCEPT ![k] = g]
  /\ UNCHANGED <<promised, outages>>

\* Its caller is told.
Promise(k) ==
  /\ catalogue[k] # None
  /\ promised' = [promised EXCEPT ![k] = catalogue[k]]
  /\ UNCHANGED <<catalogue, outages>>

\* A deletion is decided, then done.
Withdraw(k) ==
  /\ promised' = [promised EXCEPT ![k] = None]
  /\ UNCHANGED <<catalogue, outages>>

Drop(k) ==
  /\ promised[k] = None
  /\ catalogue' = [catalogue EXCEPT ![k] = None]
  /\ UNCHANGED <<promised, outages>>

\* Power fails: what was not promised may be gone, or back.
PowerLoss ==
  /\ outages < MaxOutages
  /\ outages' = outages + 1
  /\ catalogue' \in [Keys -> Generations \cup {None}]
  /\ \A k \in Keys : NotOlder(catalogue'[k], promised[k])
  /\ UNCHANGED promised

Next ==
  \/ \E k \in Keys, g \in Generations : Replace(k, g)
  \/ \E k \in Keys : Promise(k) \/ Withdraw(k) \/ Drop(k)
  \/ PowerLoss

Spec == Init /\ [][Next]_vars
=============================================================================
