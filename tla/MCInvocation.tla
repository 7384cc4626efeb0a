---------------------------- MODULE MCInvocation ----------------------------
(***************************************************************************)
(* Invocation on a small instance: functions whose arguments are of every  *)
(* kind, some after another that may fail or that transfers its data.      *)
(***************************************************************************)
EXTENDS Invocation, TLC

CONSTANTS foreach, readAsync, watch

Signatures ==
    (foreach :> <<"call", "full">>) @@ (readAsync :> <<"async">>) @@
    (watch :> <<"boxed", "notified", "undying">>)

Symmetry == Permutations(Closures)

=============================================================================
