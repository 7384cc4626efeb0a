----------------------------- MODULE EventLoop -----------------------------
(***************************************************************************)
(* How GjsContext runs JavaScript to its end (gjs/context.cpp, eval() and  *)
(* eval_module(), gjs/mainloop.cpp, gjs/promise.cpp, and the holds of      *)
(* gjs/module.cpp and gjs/internal.cpp).                                   *)
(*                                                                         *)
(* Everything happens on one thread, but not in one place: C++ calls       *)
(* JavaScript, which may call C code that iterates the main context, which *)
(* calls JavaScript again, drain the job queue by hand, or stop in the     *)
(* debugger.  The call stack is therefore part of the state.  Its first    *)
(* frame is the one that runs; every action is a step of that frame.       *)
(***************************************************************************)
EXTENDS JobQueue

CONSTANTS
    MaxDepth,   \* bound: frames on the stack
    MaxTasks,   \* bound: FinalizationRegistry callbacks that wait
    MaxLoads,   \* bound: modules that are being loaded
    MaxEvals,   \* bound: scripts and modules that the embedder evaluates
    CanNest,    \* JavaScript or the embedder may run main loops of its own
    CanExit,    \* JavaScript may call System.exit()
    CanDebug    \* the debugger may stop JavaScript

ASSUME BoundsAssumption ==
    /\ {MaxDepth, MaxTasks, MaxLoads, MaxEvals} \subseteq Nat
    /\ {CanNest, CanExit, CanDebug} \subseteq BOOLEAN

VARIABLES
    stack,      \* the frames, the running one first
    phase,      \* where eval() or eval_module() is when no frame runs above it
    mode,       \* which of the two it is: "script" or "module"
    ok,         \* its local variable ok
    stop,       \* its local variable exiting
    result,     \* what it returned: "none" yet, "ok", "error" or "exit"
    evals,      \* how many of them have started
    shouldExit, \* m_should_exit
    exiting,    \* MainLoop::m_exiting
    holds,      \* MainLoop::m_hold_count, which counts one more
    hook,       \* m_main_loop_hook is set
    unhandledException,     \* m_unhandled_exception
    cleanups,   \* how many functions are in m_cleanup_tasks
    rejection,  \* a promise: not rejected, in m_unhandled_rejection_stacks, or
                \* reported
    awaiting,   \* the promise of the main module is pending
    loads,      \* module files that GIO is reading
    due,        \* a GSource of ordinary priority is ready
    born,       \* how many promise jobs there have been
    over,       \* the process has exited or the context is gone
    fault,      \* the assertion that has stopped the process, or "none"
    failed      \* history: the evaluation under way has failed by itself

evalVars == <<phase, mode, ok, stop, result, evals, failed>>
mainLoopVars == <<exiting, holds, hook>>
worldVars == <<awaiting, loads, due, born>>
flagVars == <<shouldExit, unhandledException, cleanups, rejection, over, fault>>
vars == <<slots, draining, attached, cancelled, stack, phase, mode, ok, stop, result,
          evals, failed, exiting, holds, hook, awaiting, loads, due, born, shouldExit,
          unhandledException, cleanups, rejection, over, fault>>

(* What a frame runs: JavaScript, the loop of run_jobs_fallible(), an      *)
(* iteration of the main context, or a step between them.                  *)
JSKind == {"script", "hook", "job", "import", "cleanup", "callback", "debugger"}
DrainKind == {"dispatch", "drain", "evaldrain", "debugdrain"}
LoopKind == {"spin", "nested"}
Kind == JSKind \cup DrainKind \cup LoopKind \cup {"spincheck", "debugjobs", "resume"}

(* ix, tasks: how far a drain is; saved, was, kill: a SavedQueue and how   *)
(* the debugger lets the program go on.                                    *)
Frame == [kind : Kind, ix : 0..MaxJobs, tasks : 0..MaxTasks,
          saved : Seq(Job \cup {Blank}), was : BOOLEAN, kill : BOOLEAN]

Plain(k) == [kind |-> k, ix |-> 0, tasks |-> 0, saved |-> << >>, was |-> FALSE,
             kill |-> FALSE]

(* The process is there: it has not exited, and no assertion has failed.   *)
Going == ~over /\ fault = "none"

Top == Head(stack)
On(kinds) == Going /\ stack # << >> /\ Top.kind \in kinds
InEval(p) == Going /\ stack = << >> /\ phase = p
Push(f) == <<f>> \o stack
Room(n) == Len(stack) + n <= MaxDepth
Becomes(k) == <<[Top EXCEPT !.kind = k]>> \o Tail(stack)

TypeOK ==
    /\ QueueTypeOK
    /\ stack \in Seq(Frame) /\ Len(stack) <= MaxDepth
    /\ phase \in {"idle", "body", "hook", "spin", "drain", "result"}
    /\ mode \in {"script", "module"}
    /\ {ok, stop, shouldExit, exiting, hook, unhandledException, awaiting, due, over,
        failed} \subseteq BOOLEAN
    /\ result \in {"none", "ok", "error", "exit"}
    /\ evals \in 0..MaxEvals
    /\ holds \in 0..(2 * MaxJobs)
    /\ cleanups \in 0..MaxTasks
    /\ rejection \in {"none", "unhandled", "reported"}
    /\ loads \in 0..MaxLoads
    /\ born \in 0..MaxJobs
    /\ fault \in {"none", "exitTwice", "queueNotEmpty", "overReleased", "mismatchedHold"}

Init ==
    /\ QueueInit
    /\ stack = << >> /\ phase = "idle" /\ mode = "script" /\ ok = TRUE /\ stop = FALSE
    /\ result = "none" /\ evals = 0
    /\ shouldExit = FALSE /\ exiting = FALSE /\ holds = 0 /\ hook = FALSE
    /\ unhandledException = FALSE /\ cleanups = 0 /\ rejection = "none"
    /\ awaiting = FALSE /\ loads = 0 /\ due = FALSE /\ born = 0
    /\ over = FALSE /\ fault = "none" /\ failed = FALSE

-----------------------------------------------------------------------------
(* Helpers.                                                                *)

(* Jobs that may still be enqueued when those are set aside that loads and *)
(* the main module will need.                                              *)
MainUnsettled == awaiting \/ (phase = "body" /\ mode = "module")
Spare == born + loads + (IF MainUnsettled THEN 1 ELSE 0) < MaxJobs

(* The hold until the reaction of an import() is forgotten.                *)
MutantHeld(n) == IF exiting THEN holds ELSE holds + (n - 1)


(* MainLoop::hold() and release()                                          *)
Held(n) == IF exiting THEN holds ELSE holds + n
Release ==
    IF exiting THEN UNCHANGED <<holds, fault>>
    ELSE IF holds = 0 THEN fault' = "overReleased" /\ UNCHANGED holds
    ELSE holds' = holds - 1 /\ UNCHANGED fault

(* warn_about_unhandled_promise_rejections()                               *)
Warned == IF rejection = "unhandled" THEN "reported" ELSE rejection

InCall == \E k \in 1..Len(stack) : stack[k].kind = "dispatch"

(* run_jobs_fallible() does nothing when it is called again, or once       *)
(* System.exit() has been called.                                          *)
CanRunJobs == ~draining /\ ~shouldExit

(* Its start, on top of the frames s: with no jobs in the queue it runs    *)
(* the FinalizationRegistry callbacks first.                               *)
RunJobs(kind, s) ==
    /\ CanRunJobs
    /\ draining' = TRUE
    /\ stack' = <<[Plain(kind) EXCEPT !.tasks = IF slots = << >> THEN cleanups ELSE 0]>> \o s
    /\ cleanups' = IF slots = << >> THEN 0 ELSE cleanups

(* The frame under a job that has ended: the callbacks that wait are       *)
(* taken, unless the job was terminated.                                   *)
NextTasks(s, o) == <<[Head(s) EXCEPT !.tasks = IF o = "kill" THEN 0 ELSE cleanups]>> \o Tail(s)

(* The JavaScript frame on top of s ends: it returns, throws, or is        *)
(* terminated by an uncatchable exception.  A callback from C that is      *)
(* terminated exits the process at once.                                   *)
Leave(s, o) ==
    LET k == Head(s).kind IN
    /\ stack' = CASE k \in {"job", "import"} -> NextTasks(Tail(s), o)
                  [] k = "debugger" ->
                        <<[Head(s) EXCEPT !.kind = "debugjobs", !.kill = (o = "kill")]>> \o Tail(s)
                  [] OTHER -> Tail(s)
    /\ cleanups' = IF k \in {"job", "import"} /\ o # "kill" THEN 0 ELSE cleanups
    /\ over' = (k = "callback" /\ o = "kill")
    /\ rejection' = IF k = "callback" /\ o = "kill" THEN Warned ELSE rejection
    /\ IF k = "import" /\ o # "kill" THEN Release ELSE UNCHANGED <<holds, fault>>
    /\ IF k \in {"script", "hook"}
       THEN /\ ok' = (o = "ok")
            /\ failed' = (failed \/ o # "ok")
            /\ phase' = IF o # "ok" THEN "drain"
                        ELSE IF k = "script" /\ hook THEN "hook" ELSE "spin"
       ELSE UNCHANGED <<ok, failed, phase>>

leaveUnchanged == UNCHANGED <<mode, stop, result, evals, unhandledException, hook, exiting>>

-----------------------------------------------------------------------------
(* What JavaScript does.                                                   *)

JSRuns == On(JSKind)

jsUnchanged == UNCHANGED <<evalVars, shouldExit, unhandledException, over, fault, stack>>

(* A promise is settled that has a reaction, or a settled one gets one.    *)
Enqueue ==
    /\ JSRuns /\ Spare
    /\ EnqueueJob([id |-> born + 1, tag |-> "script"])
    /\ born' = born + 1
    /\ UNCHANGED <<mainLoopVars, awaiting, loads, due, cleanups, rejection>> /\ jsUnchanged

(* import(): gjs_dynamic_module_resolve() calls the hook of the module     *)
(* loader.  If that throws, nothing is held.  If its promise is settled,   *)
(* because the module is there or cannot be found, the main loop is held   *)
(* until the reaction.  If a file has to be read first,                    *)
(* load_async_executor() holds the main loop as well, until it is read.    *)
(* (A malformed specifier, which ends the code that imports it before any  *)
(* of this, is a matter of ModuleLoader.)                                  *)
Import(promise) ==
    /\ JSRuns
    /\ \/ promise = "none" /\ UNCHANGED <<queueVars, born, loads, holds>>
       \/ /\ promise = "settled" /\ Spare
          /\ EnqueueJob([id |-> born + 1, tag |-> "import"])
          /\ born' = born + 1
          /\ holds' = Held(1)
          /\ UNCHANGED loads
       \/ /\ promise = "pending" /\ Spare /\ loads < MaxLoads
          /\ loads' = loads + 1
          /\ holds' = Held(2)
          /\ UNCHANGED <<queueVars, born>>
    /\ UNCHANGED <<exiting, hook, awaiting, due, cleanups, rejection>>
    /\ jsUnchanged

(* What the main module awaits at its top level comes about.               *)
SettleMain(tag) ==
    /\ JSRuns /\ awaiting
    /\ awaiting' = FALSE /\ born' = born + 1
    /\ EnqueueJob([id |-> born + 1, tag |-> tag])
    /\ UNCHANGED <<mainLoopVars, loads, due, cleanups, rejection>> /\ jsUnchanged

(* A garbage collection finds an object of a FinalizationRegistry dead.    *)
QueueCleanup ==
    /\ JSRuns /\ cleanups < MaxTasks
    /\ cleanups' = cleanups + 1
    /\ UNCHANGED <<queueVars, mainLoopVars, worldVars, rejection>> /\ jsUnchanged

(* setMainLoopHook() throws when a hook is set already.                    *)
SetHook ==
    /\ JSRuns /\ ~hook
    /\ hook' = TRUE
    /\ UNCHANGED <<queueVars, exiting, holds, worldVars, cleanups, rejection>> /\ jsUnchanged

(* on_promise_unhandled_rejection(): a promise is rejected without a       *)
(* handler, or gets one.                                                   *)
Reject ==
    /\ JSRuns
    /\ \/ rejection = "none" /\ rejection' = "unhandled"
       \/ rejection = "unhandled" /\ rejection' = "none"
    /\ UNCHANGED <<queueVars, mainLoopVars, worldVars, cleanups>> /\ jsUnchanged

(* drainMicrotaskQueue(), which the callbacks of setTimeout() and          *)
(* setInterval() call.                                                     *)
DrainMicrotaskQueue ==
    /\ On({"callback"}) /\ Room(2)
    /\ RunJobs("drain", stack)
    /\ UNCHANGED <<slots, attached, cancelled, evalVars, mainLoopVars, worldVars, shouldExit,
                   unhandledException, rejection, over, fault>>

(* JavaScript calls C code that runs a main loop, such as                  *)
(* GLib.MainLoop.run().                                                    *)
Nest ==
    /\ JSRuns /\ CanNest /\ Room(3)
    /\ stack' = Push(Plain("nested"))
    /\ UNCHANGED <<queueVars, evalVars, mainLoopVars, worldVars, flagVars>>

(* System.exit() asserts that it has not been called before, and           *)
(* terminates the code that called it.                                     *)
Exit ==
    /\ JSRuns /\ CanExit
    /\ IF shouldExit
       THEN /\ fault' = "exitTwice"
            /\ UNCHANGED <<evalVars, mainLoopVars, shouldExit, unhandledException, cleanups,
                           rejection, over, stack>>
       ELSE shouldExit' = TRUE /\ Leave(stack, "kill") /\ leaveUnchanged
    /\ UNCHANGED <<queueVars, worldVars>>

Return(o) ==
    /\ JSRuns /\ (Top.kind = "script" => mode = "script")
    /\ Leave(stack, o) /\ leaveUnchanged
    /\ UNCHANGED <<queueVars, worldVars, shouldExit>>

(* The debugger stops the program: saveJobQueue() puts the queue aside and *)
(* stops the dispatcher.                                                   *)
Interrupt ==
    /\ JSRuns /\ Top.kind # "debugger" /\ CanDebug /\ Room(3)
    /\ stack' = Push([Plain("debugger") EXCEPT !.saved = slots, !.was = draining])
    /\ slots' = << >> /\ draining' = FALSE /\ cancelled' = TRUE
    /\ UNCHANGED <<attached, evalVars, mainLoopVars, worldVars, flagVars>>

-----------------------------------------------------------------------------
(* run_jobs_fallible() and run_finalization_registry_cleanup().            *)

drainUnchanged == UNCHANGED <<phase, mode, ok, stop, result, evals, worldVars, shouldExit,
                              over, attached, cancelled>>

RunTask ==
    /\ On(DrainKind) /\ Top.tasks > 0
    /\ stack' = <<Plain("cleanup"), [Top EXCEPT !.tasks = @ - 1]>> \o Tail(stack)
    /\ UNCHANGED <<slots, draining, mainLoopVars, unhandledException, cleanups, rejection,
                   fault, failed>>
    /\ drainUnchanged

LeftSlots == {k \in (Top.ix + 1)..Len(slots) : slots[k] # Blank}

(* The flag is only looked at before the loop.                             *)
MutantMayRunJob == LeftSlots # {} /\ IsRunning

(* Blanks are skipped; the loop ends early once exit() has been called or  *)
(* when the dispatcher does not run.                                       *)
MayRunJob == LeftSlots # {} /\ ~shouldExit /\ IsRunning

RunJob ==
    /\ On(DrainKind) /\ Top.tasks = 0 /\ MayRunJob
    /\ \E k \in LeftSlots :
          LET f == [Top EXCEPT !.ix = k]
              tag == slots[k].tag
          IN /\ \A l \in LeftSlots : k <= l
             /\ slots' = [slots EXCEPT ![k] = Blank]
             /\ IF tag \in {"script", "import"}
                THEN /\ stack' = <<Plain(IF tag = "import" THEN tag ELSE "job"), f>> \o Tail(stack)
                     /\ UNCHANGED <<holds, fault, failed, cleanups, unhandledException>>
                ELSE \* on_context_module_resolved(), on_context_module_rejected...()
                     /\ stack' = <<[f EXCEPT !.tasks = cleanups]>> \o Tail(stack)
                     /\ cleanups' = 0
                     /\ Release
                     /\ unhandledException' = (unhandledException \/ tag = "rejected")
                     /\ failed' = (failed \/ tag = "rejected")
    /\ UNCHANGED <<draining, exiting, hook, rejection>>
    /\ drainUnchanged

DrainEnd ==
    /\ On(DrainKind) /\ Top.tasks = 0 /\ ~MayRunJob
    /\ draining' = FALSE
    /\ slots' = << >>
    /\ rejection' = Warned
    /\ stack' = Tail(stack)
    /\ UNCHANGED <<mainLoopVars, unhandledException, cleanups, fault, failed>>
    /\ drainUnchanged

-----------------------------------------------------------------------------
(* The debugger lets the program go on: the jobs of its own code are run,  *)
(* then ~SavedQueue() restores the queue.                                  *)
DebuggerJobs ==
    /\ On({"debugjobs"})
    /\ IF CanRunJobs THEN RunJobs("debugdrain", Becomes("resume"))
       ELSE stack' = Becomes("resume") /\ UNCHANGED <<draining, cleanups>>
    /\ UNCHANGED <<slots, attached, cancelled, evalVars, mainLoopVars, worldVars, shouldExit,
                   unhandledException, rejection, over, fault>>

(* The flag of the interrupted drain is not restored.                      *)
MutantResume ==
    /\ On({"resume"})
    /\ slots' = Top.saved /\ draining' = FALSE
    /\ StartDispatcher
    /\ UNCHANGED shouldExit
    /\ IF Top.kill THEN Leave(Tail(stack), "kill") /\ leaveUnchanged
       ELSE /\ stack' = Tail(stack)
            /\ UNCHANGED <<evalVars, mainLoopVars, unhandledException, cleanups,
                           rejection, over, fault>>
    /\ UNCHANGED worldVars

Resume ==
    /\ On({"resume"})
    /\ IF slots # << >>
       THEN /\ fault' = "queueNotEmpty"
            /\ UNCHANGED <<queueVars, evalVars, mainLoopVars, shouldExit, unhandledException,
                           cleanups, rejection, over, stack>>
       ELSE /\ slots' = Top.saved /\ draining' = Top.was
            /\ StartDispatcher
            /\ UNCHANGED shouldExit
            /\ IF Top.kill THEN Leave(Tail(stack), "kill") /\ leaveUnchanged
               ELSE /\ stack' = Tail(stack)
                    /\ UNCHANGED <<evalVars, mainLoopVars, unhandledException, cleanups,
                                   rejection, over, fault>>
    /\ UNCHANGED worldVars

-----------------------------------------------------------------------------
(* Iterations of the main context, by MainLoop::spin() or by a loop that   *)
(* JavaScript or the embedder runs.                                        *)

(* spin() looks around after each iteration.                               *)
Iterated == IF Top.kind = "spin" THEN Becomes("spincheck") ELSE stack

(* A source of ordinary priority has its turn when the job queue is not    *)
(* ready.                                                                  *)
Iterates == On(LoopKind) /\ ~SourceReady(InCall)

(* PromiseJobDispatcher::Source::dispatch(): G_SOURCE_REMOVE when it has   *)
(* been cancelled.                                                         *)
DispatchJobs ==
    /\ On(LoopKind) /\ SourceReady(InCall)
    /\ IF cancelled
       THEN attached' = "destroyed" /\ stack' = Iterated /\ UNCHANGED <<draining, cleanups>>
       ELSE /\ UNCHANGED attached
            /\ IF CanRunJobs THEN RunJobs("dispatch", Iterated)
               ELSE stack' = Iterated /\ UNCHANGED <<draining, cleanups>>
    /\ UNCHANGED <<slots, cancelled, evalVars, mainLoopVars, worldVars, shouldExit,
                   unhandledException, rejection, over, fault>>

DispatchCallback ==
    /\ Iterates /\ due /\ Room(1)
    /\ due' = FALSE
    /\ stack' = <<Plain("callback")>> \o Iterated
    /\ UNCHANGED <<queueVars, evalVars, mainLoopVars, awaiting, loads, born, flagVars>>

(* load_async_callback(), and the promise callbacks of the module loader   *)
(* up to the reaction that finishes the import.                            *)
LoadFinished ==
    /\ Iterates /\ loads > 0
    /\ loads' = loads - 1 /\ born' = born + 1
    /\ Release
    /\ EnqueueJob([id |-> born + 1, tag |-> "import"])
    /\ stack' = Iterated
    /\ UNCHANGED <<evalVars, exiting, hook, awaiting, due, shouldExit, unhandledException,
                   cleanups, rejection, over>>

NothingPending ==
    /\ Iterates /\ Top.kind = "spin" /\ ~due
    /\ stack' = Iterated
    /\ UNCHANGED <<queueVars, evalVars, mainLoopVars, worldVars, flagVars>>

BecomesDue ==
    /\ On(LoopKind) /\ ~due
    /\ due' = TRUE
    /\ UNCHANGED <<queueVars, evalVars, mainLoopVars, awaiting, loads, born, stack, flagVars>>

(* Something quits the loop.                                               *)
NestedEnds ==
    /\ On({"nested"})
    /\ stack' = Tail(stack)
    /\ UNCHANGED <<queueVars, evalVars, mainLoopVars, worldVars, flagVars>>

-----------------------------------------------------------------------------
(* MainLoop::spin() around the iteration.                                  *)

CanBlock == ~exiting /\ holds > 0

(* spin() returns TRUE, or FALSE for eval() to stop.                       *)
Spun == phase' = (IF hook THEN "hook" ELSE "drain") /\ UNCHANGED <<stop, exiting, holds>>
Stopped == phase' = "drain" /\ stop' = TRUE
StoppedByExit == Stopped /\ exiting' = TRUE /\ holds' = 0

spinUnchanged == UNCHANGED <<queueVars, mode, ok, result, evals, failed, hook, worldVars, flagVars>>

BeginSpin ==
    /\ InEval("spin")
    /\ IF exiting THEN Stopped /\ UNCHANGED <<stack, exiting, holds>>
       ELSE IF shouldExit THEN StoppedByExit /\ UNCHANGED stack
       ELSE stack' = <<Plain("spin")>> /\ UNCHANGED <<phase, stop, exiting, holds>>
    /\ spinUnchanged

(* The loop does not go on for the holds.                                  *)
MutantGoOn == ~hook /\ slots # << >>
GoOn == ~hook /\ (CanBlock \/ slots # << >>)

(* The loop does not look for exit().                                      *)
MutantSpinCheck ==
    /\ On({"spincheck"})
    /\ IF GoOn THEN stack' = Becomes("spin") /\ UNCHANGED <<phase, stop, exiting, holds>>
       ELSE Spun /\ stack' = Tail(stack)
    /\ spinUnchanged

SpinCheck ==
    /\ On({"spincheck"})
    /\ IF shouldExit THEN StoppedByExit /\ stack' = Tail(stack)
       ELSE IF GoOn THEN stack' = Becomes("spin") /\ UNCHANGED <<phase, stop, exiting, holds>>
       ELSE Spun /\ stack' = Tail(stack)
    /\ spinUnchanged

-----------------------------------------------------------------------------
(* eval() and eval_module().                                               *)

(* AutoResetExit, which eval() and eval_module() leave to their end.       *)
Eval(m) ==
    /\ InEval("idle") /\ evals < MaxEvals
    /\ m = "module" => ~awaiting /\ Spare
    /\ mode' = m /\ phase' = "body" /\ evals' = evals + 1
    /\ ok' = TRUE /\ stop' = FALSE /\ failed' = FALSE /\ result' = "none"
    /\ stack' = <<Plain("script")>>
    /\ UNCHANGED <<queueVars, mainLoopVars, worldVars, flagVars>>

(* JS::ModuleEvaluate() returns a promise, which has been settled or not;  *)
(* the main loop is held until its reaction.                               *)
ModuleEvaluated(settled) ==
    /\ On({"script"}) /\ mode = "module"
    /\ holds' = Held(1)
    /\ IF settled = "pending"
       THEN awaiting' = TRUE /\ UNCHANGED <<born, queueVars>>
       ELSE /\ EnqueueJob([id |-> born + 1, tag |-> settled])
            /\ born' = born + 1 /\ UNCHANGED awaiting
    /\ stack' = Tail(stack)
    /\ phase' = IF hook THEN "hook" ELSE "spin"
    /\ UNCHANGED <<mode, ok, stop, result, evals, failed, exiting, hook, loads, due, flagVars>>

(* run_main_loop_hook()                                                    *)
RunHook ==
    /\ InEval("hook")
    /\ hook' = FALSE
    /\ stack' = <<Plain("hook")>>
    /\ UNCHANGED <<queueVars, evalVars, exiting, holds, worldVars, flagVars>>

(* The queue is drained after an error, but not when the loop was stopped. *)
DrainOnError ==
    /\ InEval("drain")
    /\ phase' = "result"
    /\ IF ~ok /\ ~stop /\ CanRunJobs THEN RunJobs("evaldrain", stack)
       ELSE UNCHANGED <<stack, draining, cleanups>>
    /\ UNCHANGED <<slots, attached, cancelled, mode, ok, stop, result, evals, failed,
                   mainLoopVars, worldVars, shouldExit, unhandledException, rejection, over,
                   fault>>

(* handle_exit_code(), and the destructor of AutoResetExit.                *)
HandleExitCode ==
    /\ InEval("result")
    /\ result' = IF shouldExit THEN "exit"
                 ELSE IF ok /\ ~unhandledException THEN "ok" ELSE "error"
    /\ shouldExit' = FALSE
    /\ phase' = "idle"
    /\ UNCHANGED <<queueVars, mode, ok, stop, evals, failed, mainLoopVars, worldVars, stack,
                   unhandledException, cleanups, rejection, over, fault>>

(* The embedder runs a main loop of its own, or disposes of the context.   *)
HostLoop ==
    /\ InEval("idle") /\ CanNest
    /\ stack' = <<Plain("nested")>>
    /\ UNCHANGED <<queueVars, evalVars, mainLoopVars, worldVars, flagVars>>

(* dispose(), and ~MainLoop(), which asserts that nobody holds it.         *)
Dispose ==
    /\ InEval("idle")
    /\ draining' = FALSE /\ cancelled' = TRUE /\ slots' = << >> /\ hook' = FALSE
    /\ rejection' = Warned
    /\ IF holds = 0 THEN UNCHANGED fault ELSE fault' = "mismatchedHold"
    /\ over' = TRUE
    /\ UNCHANGED <<attached, evalVars, exiting, holds, worldVars, stack, shouldExit,
                   unhandledException, cleanups>>

Over == (over \/ fault # "none") /\ UNCHANGED vars

-----------------------------------------------------------------------------
JSStep ==
    \/ Enqueue \/ QueueCleanup \/ SetHook \/ Reject \/ DrainMicrotaskQueue
    \/ Nest \/ Exit \/ Interrupt
    \/ \E tag \in {"resolved", "rejected"} : SettleMain(tag)
    \/ \E o \in {"ok", "throw"} : Return(o)
    \/ \E s \in {"resolved", "rejected", "pending"} : ModuleEvaluated(s)
    \/ \E promise \in {"none", "settled", "pending"} : Import(promise)

DrainStep == RunTask \/ RunJob \/ DrainEnd \/ DebuggerJobs \/ Resume

LoopStep ==
    \/ DispatchJobs \/ DispatchCallback \/ LoadFinished \/ NothingPending \/ BecomesDue
    \/ NestedEnds

EvalStep ==
    \/ BeginSpin \/ SpinCheck \/ RunHook \/ DrainOnError \/ HandleExitCode
    \/ HostLoop \/ Dispose
    \/ \E m \in {"script", "module"} : Eval(m)

Next ==
    \/ JSStep \/ DrainStep \/ LoopStep \/ EvalStep
    \/ Over

Spec == Init /\ [][Next]_vars

-----------------------------------------------------------------------------
(* Safety.                                                                 *)

JobRuns == \E k \in 1..Len(stack) : stack[k].kind \in {"job", "import"}
Ids(s) == [k \in 1..Len(Waiting(s)) |-> Waiting(s)[k].id]

(* doc/Custom-GSources.md: the queue "mimics the behavior of a microtask   *)
(* queue" -- whoever drains it, and whatever the jobs do, they run in      *)
(* order, once, to their end, and none is lost but by exit().              *)
Microtask == INSTANCE Microtasks WITH
    pending <- Ids(slots), busy <- JobRuns, exited <- shouldExit \/ over
RunsMicrotasks == Microtask!Spec

(* A stop of the debugger divides the stack.  The drains of the program    *)
(* that the stop at k has interrupted, and with k = 0 those above each     *)
(* stop.                                                                   *)
Stops == {k \in 1..Len(stack) : stack[k].kind \in {"debugger", "debugjobs", "resume"}}
DrainsFrom(k) == {m \in (k + 1)..Len(stack) :
                      /\ stack[m].kind \in DrainKind
                      /\ \A l \in Stops : ~(k < l /\ l < m)}

(* "Ignore reentrant calls": the program drains its queue at most once at  *)
(* a time however its calls nest, a program stopped by the debugger is not *)
(* counted, and the flag says so, then and when the debugger lets go.      *)
OneDrainAtATime ==
    \A k \in Stops \cup {0} :
        /\ Cardinality(DrainsFrom(k)) <= 1
        /\ (IF k = 0 THEN draining ELSE stack[k].was) <=> DrainsFrom(k) # {}

(* Whenever a job waits, the GSource that will run it is attached and not  *)
(* cancelled.                                                              *)
DispatcherReady == Waiting(slots) # << >> => attached = "yes" /\ ~cancelled

Queues == {slots} \cup {stack[k].saved : k \in 1..Len(stack)}
Owing(tags) == {job \in UNION {{s[k] : k \in 1..Len(s)} : s \in Queues} :
                    job # Blank /\ job.tag \in tags}
Importing == {k \in 1..Len(stack) : stack[k].kind = "import"}

(* Holds that a release is to come for: two for an import whose file is    *)
(* not loaded, one for an import that is and for a main module.            *)
Owed == 2 * loads + (IF awaiting THEN 1 ELSE 0) + Cardinality(Importing)
        + Cardinality(Owing({"import", "resolved", "rejected"}))

(* A job leaves the queue, or the queue that the debugger has put aside,   *)
(* to be run, or because exit() has been called or the context is gone.    *)
NothingDropped ==
    [][\A job \in Owing(Tag) : job \in Owing(Tag)' \/ shouldExit \/ over' \/ RunJob]_vars

(* The main loop is held as long as something is still to come: no import, *)
(* and no exit() between its hold and its release, leaves one too few; in  *)
(* a program that does not exit() there is never one too many.             *)
HoldsAccounted ==
    ~exiting /\ ~over => holds >= Owed /\ (~CanExit => holds = Owed)


(* When eval() comes to its end without an error and without exit(),       *)
(* nothing is left to do.                                                  *)
NothingLeft ==
    phase = "result" /\ ok /\ ~stop =>
        Waiting(slots) = << >> /\ holds = 0 /\ loads = 0 /\ ~awaiting /\ ~hook

(* "interpreter should stop running jobs when one calls System.exit()":    *)
(* from then on no job starts, in whichever of the drains that are on the  *)
(* stack, until the evaluation is over: those that wait are thrown away.   *)
NoJobAfterExit ==
    [][shouldExit => Unstarted(slots) \subseteq Unstarted(slots') \/ slots' = << >>]_vars

(* "Unhandled promise rejections should still be printed when exiting".    *)
RejectionsReported == over => rejection # "unhandled"

(* exit() is not called again (its g_assert).                              *)
ExitsOnce == fault # "exitTwice"

(* ~SavedQueue() finds the queue of the debugger empty (its g_assert).     *)
QueueRestored == fault # "queueNotEmpty"

(* Nobody releases the main loop more often than it was held.              *)
NotOverReleased == fault # "overReleased"

(* ~MainLoop() finds each hold released (its g_assert).                    *)
HoldsMatched == fault # "mismatchedHold"

(* "Assume success if no error was thrown and should exit isn't set."      *)
ErrorIsItsOwn == result = "error" => failed

-----------------------------------------------------------------------------
(* Liveness.                                                               *)

(* JavaScript returns, the C++ code goes on, loops are iterated, files are *)
(* read.  Nothing is said of when a loop that JavaScript runs is quit, nor *)
(* of what the embedder does.                                              *)
Fairness ==
    /\ SF_vars(Return("ok") \/ ModuleEvaluated("resolved"))
    /\ WF_vars(DrainStep \/ DispatchJobs \/ NothingPending)
    /\ WF_vars(BeginSpin \/ SpinCheck \/ RunHook \/ DrainOnError \/ HandleExitCode)
    /\ SF_vars(DispatchCallback)
    /\ SF_vars(LoadFinished)

LiveSpec == Spec /\ Fairness

(* A loop over the main context has been entered and not left.             *)
Iterating == \E k \in 1..Len(stack) : stack[k].kind \in LoopKind \cup {"spincheck"}

(* promise.cpp: the source "will always dispatch if even a single Promise  *)
(* is enqueued" -- while the main context is iterated a drain begins.      *)
JobsGetRun ==
    Iterating /\ slots # << >> /\ ~draining ~>
        draining \/ slots = << >> \/ ~Iterating \/ shouldExit \/ ~Going

NestedLoop == \E k \in 1..Len(stack) : stack[k].kind = "nested"

(* doc/System.md: exit() "exits the program": the evaluation ends, unless  *)
(* JavaScript runs loops without end.                                      *)
ExitEnds == ([]<>NestedLoop) \/ (shouldExit ~> phase = "idle" \/ ~Going)

=============================================================================
