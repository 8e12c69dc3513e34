---------------------------- MODULE MCPlacement ----------------------------
(* Bounded instance of Placement, and the mutants of its definitions.      *)
EXTENDS Placement

Limited(l, u) == [ok |-> TRUE, unlimited |-> FALSE, limit |-> l, usage |-> u]

(* An account that cannot be asked, a Workspace account, one over its      *)
(* limit, and limited ones with 1, 3 and 4 bytes left.                     *)
MCQuotas ==
  { [ok |-> FALSE, unlimited |-> FALSE, limit |-> 0, usage |-> 0],
    [ok |-> TRUE, unlimited |-> TRUE, limit |-> 0, usage |-> 5],
    Limited(2, 3), Limited(4, 3), Limited(3, 0), Limited(4, 0) }

MCSizes == 0..9
=============================================================================
