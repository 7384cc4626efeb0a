------------------------------ MODULE JobQueue ------------------------------
(***************************************************************************)
(* The promise job queue of GjsContextPrivate (gjs/context.cpp) and the    *)
(* GSource that drains it from the main loop (gjs/promise.cpp).            *)
(*                                                                         *)
(* The queue is a vector.  A drain walks it with an index while the jobs   *)
(* that it runs append to it, blanks the slot of each job before the call, *)
(* and clears the vector only when it has come to the end.                 *)
(***************************************************************************)
EXTENDS Naturals, Kept

CONSTANT MaxJobs    \* bound: promise jobs enqueued in a behaviour

ASSUME MaxJobsAssumption == MaxJobs \in Nat

VARIABLES
    slots,      \* m_job_queue
    draining,   \* m_draining_job_queue
    attached,   \* the GSource: not attached yet, attached, or destroyed
    cancelled   \* its cancellable has been cancelled

queueVars == <<slots, draining, attached, cancelled>>

(* A job calls a JavaScript function, or evaluates a module that import()  *)
(* has loaded, or is one of the native reactions to the promise of the     *)
(* main module.                                                            *)
Tag == {"script", "import", "resolved", "rejected"}
Job == [id : 1..MaxJobs, tag : Tag]
Blank == [id |-> 0, tag |-> "script"]   \* nullptr: the job has been taken

QueueTypeOK ==
    /\ slots \in Seq(Job \cup {Blank})
    /\ draining \in BOOLEAN
    /\ attached \in {"no", "yes", "destroyed"}
    /\ cancelled \in BOOLEAN

(* The constructor of GjsContextPrivate starts the dispatcher.             *)
QueueInit == slots = << >> /\ draining = FALSE /\ attached = "yes" /\ cancelled = FALSE

(* The jobs that have not been taken, and where they are.                  *)
Unstarted(s) == {k \in 1..Len(s) : s[k] # Blank}
Waiting(s) == Keep(s, Unstarted(s))

(* PromiseJobDispatcher::is_running() asks for the context of the source,  *)
(* which GLib keeps when it destroys the source.                           *)
IsRunning == attached # "no"

(* Without uncancel().                                                     *)
MutantStartDispatcher ==
    /\ cancelled' = cancelled
    /\ attached' = IF IsRunning THEN attached ELSE "yes"

(* PromiseJobDispatcher::start(): a source that GLib has destroyed is not  *)
(* attached again.                                                         *)
StartDispatcher ==
    /\ cancelled' = FALSE
    /\ attached' = IF IsRunning THEN attached ELSE "yes"

(* The newest job first.                                                   *)
MutantEnqueueJob(job) ==
    /\ slots' = <<job>> \o slots
    /\ StartDispatcher
    /\ UNCHANGED draining

(* enqueuePromiseJob()                                                     *)
EnqueueJob(job) ==
    /\ slots' = Append(slots, job)
    /\ StartDispatcher
    /\ UNCHANGED draining

(* Without prepare().                                                      *)
MutantSourceReady(inCall) == attached = "yes" /\ ~inCall /\ cancelled

(* PromiseJobDispatcher::Source::prepare(), or its cancellable child is    *)
(* ready.  GLib does not dispatch a source inside its own dispatch.        *)
SourceReady(inCall) == attached = "yes" /\ ~inCall /\ (slots # << >> \/ cancelled)

=============================================================================
