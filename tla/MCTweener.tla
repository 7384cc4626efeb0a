----------------------------- MODULE MCTweener -----------------------------
(***************************************************************************)
(* Tweener on small instances.                                             *)
(***************************************************************************)
EXTENDS Tweener, TLC

CONSTANTS x, y, s1, s2

Tweened(P, delay, time) ==
    [props |-> P, delay |-> delay, time |-> time, count |-> 0, waitFrames |-> FALSE]
Called2(delay, time, wait) ==
    [props |-> {}, delay |-> delay, time |-> time, count |-> 2, waitFrames |-> wait]

(* An immediate tween, a longer one of two properties, and two callers, a   *)
(* delayed one and one that lasts.                                          *)
SomeRequests ==
    {Tweened({x}, 0, 0), Tweened({x, y}, 0, 2),
     Called2(2, 0, TRUE), Called2(0, 1, FALSE)}

Names == {{}, {x}}
TwoScopes == {<<s1>>, <<s1, s2>>}

=============================================================================
