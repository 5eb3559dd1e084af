--------------------------- MODULE MCServiceStart ---------------------------
(* Small instances of ServiceStart. *)
EXTENDS ServiceStart, TLC

CONSTANTS h1, h2, b1, b2, b3, p1, p2, p3, q1, q2

\* A Hermes and a setup, configured with different models.
Different == (h1 :> "qwen") @@ (h2 :> "gemma")
HermesAndSetup == (h1 :> "hermes") @@ (h2 :> "setup")
ProfileAndStandalone == (h1 :> "home") @@ (h2 :> "standalone")

\* A Hermes and the supervisor of its profile.
Same == (h1 :> "qwen") @@ (h2 :> "qwen")
HermesAndSupervisor == (h1 :> "hermes") @@ (h2 :> "supervisor")
OneProfile == (h1 :> "home") @@ (h2 :> "home")

ProcessSymmetry == Permutations(Backends) \cup Permutations(Proxies) \cup Permutations(Ports)
=============================================================================
