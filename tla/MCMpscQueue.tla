---------------------------- MODULE MCMpscQueue ----------------------------
EXTENDS MpscQueue

(* A new queue, and one whose positions wrap after two pushes.             *)
MCStarts == {0, Modulus - 2}
=============================================================================
