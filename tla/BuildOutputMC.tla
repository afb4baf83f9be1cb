--------------------------- MODULE BuildOutputMC ---------------------------
(***************************************************************************)
(* A small instance of BuildOutput: one artifact that depends on the model *)
(* alone and one that carries the time of rendering, two accepted models,  *)
(* one that is refused and one on which validation raises.                 *)
(***************************************************************************)
EXTENDS BuildOutput

TwoArtifacts == <<"network.json", "changes.json">>

Verdicts ==
  [m \in {"m1", "m2", "errors", "unreadable"} |->
     CASE m \in {"m1", "m2"}  -> "accepted"
       [] m = "errors"        -> "refused"
       [] m = "unreadable"    -> "raises"]

=============================================================================
