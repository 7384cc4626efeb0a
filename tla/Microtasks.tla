----------------------------- MODULE Microtasks -----------------------------
(***************************************************************************)
(* What the promise job queue promises to JavaScript: microtasks run in    *)
(* the order in which they were enqueued, each once, one after the other   *)
(* and never inside another, and none is lost unless the program exits.    *)
(***************************************************************************)
EXTENDS Naturals, Sequences

VARIABLES
    pending,    \* the microtasks that have not started
    busy,       \* one is running
    exited      \* the program has called System.exit(), or is gone

mtVars == <<pending, busy, exited>>

Init == pending = << >> /\ ~busy /\ ~exited

Enqueue ==
    /\ pending' # << >> /\ pending = SubSeq(pending', 1, Len(pending') - 1)
    /\ UNCHANGED <<busy, exited>>

(* One that runs no JavaScript is over at once.                            *)
Start ==
    /\ ~busy /\ ~exited /\ pending # << >>
    /\ pending' = Tail(pending)
    /\ busy' \in BOOLEAN
    /\ UNCHANGED exited

Finish == busy /\ ~busy' /\ UNCHANGED <<pending, exited>>

(* System.exit() terminates the code that calls it, which may be the       *)
(* microtask that runs or what that has called.                            *)
Exit == exited' = TRUE /\ (busy' => busy) /\ UNCHANGED pending

(* What is left is thrown away; the embedder may go on with the next       *)
(* program.                                                                *)
Abandon == exited /\ pending' = << >> /\ UNCHANGED <<busy, exited>>
Dispose == ~busy /\ exited' = TRUE /\ pending' = << >> /\ UNCHANGED busy
NextProgram == ~busy /\ exited' = FALSE /\ UNCHANGED <<pending, busy>>

Next == Enqueue \/ Start \/ Finish \/ Exit \/ Abandon \/ Dispose \/ NextProgram

Spec == Init /\ [][Next]_mtVars

=============================================================================
