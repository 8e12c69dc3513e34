----------------------------- MODULE MCPoolOps -----------------------------
(* Bounded instance of PoolOps: the portal serves two requests at a time   *)
(* while a CLI command runs in a process of its own.                       *)
EXTENDS PoolOps, TLC

CONSTANTS c1, c2, c3, portal, cli

(* The portal and a CLI command; the portal alone; one request at a time.  *)
MCHome == c1 :> portal @@ c2 :> portal @@ c3 :> cli
MCHomeTwo == c1 :> portal @@ c2 :> portal
MCHomeOne == c1 :> portal

(* The portal's two requests are interchangeable, and so are the labels.   *)
MCSymmetry == Permutations({c1, c2}) \cup Permutations(Labels)
=============================================================================
