------------------------------ MODULE Pipeline ------------------------------
(***************************************************************************)
(* What a campaign promises of its stages (experiments/universal_kv/       *)
(* campaign.py: REQUIRES, plan_run, stale_stages): a stage is done only    *)
(* while every stage it needs is, so what a finished stage holds can be    *)
(* read together with everything it was computed from.                     *)
(***************************************************************************)
CONSTANTS
  Stages,
  Needs      \* of each stage: the stages whose outputs it reads

VARIABLE finished

Init == finished = {}

\* A stage comes to its end.
Finish(s) ==
  /\ Needs[s] \subseteq finished
  /\ finished' = finished \cup {s}

\* Some are to run again; everything that read them goes with them.
Withdraw ==
  \E left \in SUBSET finished :
    /\ \A s \in left : Needs[s] \subseteq left
    /\ finished' = left

Next == Withdraw \/ \E s \in Stages : Finish(s)

Spec == Init /\ [][Next]_finished
=============================================================================
