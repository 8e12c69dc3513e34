------------------------------ MODULE Delivery ------------------------------
(***************************************************************************)
(* What GetStream (drivepool/pool.go) promises the client behind the       *)
(* writer, said without goroutines, channels or rows: the pieces of the    *)
(* file arrive one after the other, in order, and the call ends either     *)
(* with an error at any time or with success after the last piece.         *)
(***************************************************************************)
EXTENDS Naturals, Sequences

CONSTANT FileChunks    \* number of pieces of the file

VARIABLES
  out,       \* pieces the client has received in full
  result     \* "none" while the call runs, then "ok" or "error"

Init == out = <<>> /\ result = "none"

Deliver ==
  /\ result = "none"
  /\ Len(out) < FileChunks
  /\ out' = Append(out, Len(out) + 1)
  /\ UNCHANGED result

Succeed ==
  /\ result = "none"
  /\ Len(out) = FileChunks
  /\ result' = "ok"
  /\ UNCHANGED out

Fail ==
  /\ result = "none"
  /\ result' = "error"
  /\ UNCHANGED out

Next == Deliver \/ Succeed \/ Fail

Spec == Init /\ [][Next]_<<out, result>>
=============================================================================
