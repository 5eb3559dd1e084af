----------------------------- MODULE MCCampaign -----------------------------
(* Small instances of Campaign. *)
EXTENDS Campaign

Run0(only, again) == [kind |-> "run", only |-> only, redo |-> again]
Other(kind) == [kind |-> kind, only |-> {}, redo |-> {}]

\* Everything that is left, parts of it, and some of it again with or without what follows.
SomeRequests ==
  {Run0({}, {}), Run0({"render", "capture"}, {}), Run0({}, {"onboard"}),
   Run0({}, {"onboard", "evaluate"}),
   Run0({"onboard"}, {"onboard"}), Run0({}, {"render"}), Run0({"evaluate"}, {}),
   Run0({"tables", "evaluate"}, {"onboard"}), Other("reencode"), Other("assemble")}
=============================================================================
