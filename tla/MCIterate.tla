----------------------------- MODULE MCIterate ------------------------------
(* An instance of Iterate. *)
EXTENDS Iterate, TLC

TwoNumbers == {0, 1}
ThreeSizes == {0, 1, 3}
=============================================================================
