----------------------------- MODULE MCSignals -----------------------------
(***************************************************************************)
(* Signals on small instances.                                             *)
(***************************************************************************)
EXTENDS Signals

(* Nothing tells one name from another.                                    *)
Symmetry == Permutations(Names)

=============================================================================
