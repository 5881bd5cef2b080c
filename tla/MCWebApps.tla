----------------------------- MODULE MCWebApps -----------------------------
(***************************************************************************)
(* An instance of WebApps for TLC: a command file that needs a script and  *)
(* one that needs none, a physical interface and a logical one of it.      *)
(***************************************************************************)
EXTENDS WebApps, TLC

MCPrereqs == ("c1" :> {}) @@ ("c2" :> {"p1"})

MCFirstOf == [i \in {"all", "ge0", "ge0.0"} |-> "ge0"]

=============================================================================
