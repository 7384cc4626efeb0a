-------------------------- MODULE MCObjectWrapper --------------------------
(***************************************************************************)
(* ObjectWrapper on small instances.  GObjects and ObjectInstances are     *)
(* interchangeable, and so are the threads other than Main.                *)
(***************************************************************************)
EXTENDS ObjectWrapper, TLC

Symmetry == Permutations(GObjects) \cup Permutations(Insts)
            \cup Permutations(Threads \ {Main})

=============================================================================
