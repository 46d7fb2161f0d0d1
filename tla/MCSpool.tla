------------------------------- MODULE MCSpool -------------------------------
(***************************************************************************)
(* Model-checking module for SpooledPublisher: the payload lengths and     *)
(* the symmetry of the callers.                                            *)
(***************************************************************************)
EXTENDS SpooledPublisher, TLC

CONSTANTS c1, c2, p1, p2, p3

\* Three payloads of which the cap of 3 holds two, but not the two largest.
MCLength == (p1 :> 1) @@ (p2 :> 2) @@ (p3 :> 2)

\* The callers are interchangeable; used where only safety is checked.
CallerSymmetry == Permutations(Callers)
=============================================================================
