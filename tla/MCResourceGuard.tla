--------------------------- MODULE MCResourceGuard ---------------------------
(* Small instances of ResourceGuard. *)
EXTENDS ResourceGuard, TLC

CONSTANTS j1, j2, j3, j4

\* A campaign's fit, a command under the CPU lock, a fit by hand and a program with the locks in the
\* wrong order.
MixedJobs == j1 :> "campaign" @@ j2 :> "run" @@ j3 :> "fit" @@ j4 :> "script"
=============================================================================
