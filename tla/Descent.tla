-------------------------------- MODULE Descent --------------------------------
(***************************************************************************)
(* What is left to do, counted: tuples of natural numbers, all of one      *)
(* length, the first number weighing most.  No sequence of them descends   *)
(* for ever.                                                               *)
(***************************************************************************)
EXTENDS Integers, Sequences

LexLess(a, b) ==
  \E i \in DOMAIN a : a[i] < b[i] /\ \A j \in 1 .. i - 1 : a[j] = b[j]
=============================================================================
