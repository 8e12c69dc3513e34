------------------------------ MODULE MCUpload ------------------------------
(* Bounded instance of Upload.                                             *)
EXTENDS Upload

Limited(l) == [ok |-> TRUE, unlimited |-> FALSE, limit |-> l, usage |-> 0]

(* An account that does not answer, one with a single byte left (so that   *)
(* reserve can fail half-way) and one with room for two chunks.            *)
MCQuotas ==
  { [ok |-> FALSE, unlimited |-> FALSE, limit |-> 0, usage |-> 0],
    Limited(1), Limited(2) }

(* The empty file, and files of one and four chunks.                       *)
MCSizes == {0, 1, 4}
=============================================================================
