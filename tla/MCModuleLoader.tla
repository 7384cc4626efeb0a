--------------------------- MODULE MCModuleLoader ---------------------------
(***************************************************************************)
(* ModuleLoader on a small instance: two files; one has a relative and the *)
(* other a bare specifier, and one specifier denotes nothing.  One URI is  *)
(* written in two ways, and one specifier has a stray percent sign.        *)
(***************************************************************************)
EXTENDS ModuleLoader, TLC

CONSTANTS a, b, relative, bare, unknown, roundabout, percent

Targets == (relative :> a) @@ (bare :> b) @@ (unknown :> NoUri)

Spelled == (roundabout :> a) @@ (percent :> Malformed)
           @@ [w \in {a, b, relative, bare, unknown} |-> w]

=============================================================================
