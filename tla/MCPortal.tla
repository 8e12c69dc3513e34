------------------------------ MODULE MCPortal ------------------------------
(* Bounded instance of Portal.                                             *)
EXTENDS Portal, TLC

CONSTANTS h1, h2, ann, bob

(* Handlers are alike, and so are users.                                   *)
PortalSymmetry ==
  {f @@ g : f \in Permutations({h1, h2}), g \in Permutations({ann, bob})}
=============================================================================
