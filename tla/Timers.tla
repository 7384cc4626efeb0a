------------------------------- MODULE Timers -------------------------------
(***************************************************************************)
(* modules/esm/_timers.js: setTimeout(), setInterval() and the two clear   *)
(* functions, on top of GLib's timeout sources.  A handler may set, clear, *)
(* queue microtasks, run the main loop itself, and throw.                  *)
(***************************************************************************)
EXTENDS Integers, Sequences, FiniteSets, SequencesExt

CONSTANTS
    Delays,       \* delays that programs ask for
    Limit,        \* 2^31: integers of |0 wrap there
    MaxTimers,    \* bound: timers set
    MaxTime,      \* bound: the clock
    MaxJobs,      \* bound: microtasks queued in all
    MaxDepth      \* bound: frames

ASSUME TimersAssumption ==
    /\ Delays \subseteq Int
    /\ Limit \in Nat \ {0}
    /\ MaxTimers \in Nat /\ MaxTime \in Nat /\ MaxJobs \in Nat /\ MaxDepth \in Nat

VARIABLES
    timers,     \* the sources, in the order of their creation
    timeouts,   \* the Map's keys
    clock,      \* the monotonic time
    jobs,       \* microtasks that are queued
    queued,     \* microtasks ever queued: only for the bound
    stack       \* what is on the stack, innermost last

vars == <<timers, timeouts, clock, jobs, queued, stack>>

(* attached: in the main context, not destroyed; due: its ready time.  Not  *)
(* in the code: calls of the handler, up to 2; outcome: cleared by          *)
(* clearTimeout(), or destroyed because the handler threw.                  *)
Timer == [interval : BOOLEAN, delay : Nat, due : Nat, attached : BOOLEAN,
          calls : 0..2, outcome : {"none", "cleared", "threw"}]

(* loop: an iteration of the main context with the sources that it found    *)
(* ready and has still to dispatch; handler: a timer's callback; drain: the *)
(* queue is drained, by the closure of a timer or (timer = 0) by the source *)
(* of the job queue; job: a microtask.  Not in the code: thrown, a callback *)
(* of this iteration has thrown.                                            *)
Frame == [in : {"loop", "handler", "drain", "job"}, timer : 0..Len(timers),
          ready : SUBSET (1..Len(timers)), thrown : BOOLEAN]

TypeOK ==
    /\ timers \in Seq(Timer)
    /\ timeouts \subseteq 1..Len(timers)
    /\ clock \in 0..MaxTime
    /\ jobs \in 0..queued
    /\ queued \in 0..MaxJobs
    /\ stack \in Seq(Frame)

Init ==
    /\ timers = << >>
    /\ timeouts = {}
    /\ clock = 0
    /\ jobs = 0
    /\ queued = 0
    /\ stack = << >>

Top == Last(stack)
Under == Front(stack)
In(f) == stack # << >> /\ Top.in = f
Entered(f, t) == [in |-> f, timer |-> t, ready |-> {}, thrown |-> FALSE]

(* The script, a handler, or a microtask.                                   *)
UserCode == stack # << >> => Top.in \in {"handler", "job"}

-----------------------------------------------------------------------------
(* validateDelay(): to a signed integer, and then not below 0.              *)
ValidDelay(d) ==
    LET i == ((d + Limit) % (2 * Limit)) - Limit IN IF i < 0 THEN 0 ELSE i

(* setTimeout(), setInterval(): a source with a closure, attached and then  *)
(* put into the map.                                                        *)
MutantSetTimer(interval, delay) ==
    /\ UserCode
    /\ Len(timers) < MaxTimers
    /\ timers' = Append(timers, [interval |-> interval, delay |-> ValidDelay(delay),
                                 due |-> clock + ValidDelay(delay), attached |-> TRUE,
                                 calls |-> 0, outcome |-> "none"])
    /\ UNCHANGED <<timeouts, clock, jobs, queued, stack>>

SetTimer(interval, delay) ==
    /\ UserCode
    /\ Len(timers) < MaxTimers
    /\ timers' = Append(timers, [interval |-> interval, delay |-> ValidDelay(delay),
                                 due |-> clock + ValidDelay(delay), attached |-> TRUE,
                                 calls |-> 0, outcome |-> "none"])
    /\ timeouts' = timeouts \cup {Len(timers) + 1}
    /\ UNCHANGED <<clock, jobs, queued, stack>>

(* releaseSource(): a timeout whose handler has returned can no longer be   *)
(* cleared, though its closure has still to drain the queue.                *)
Released(t) == IF timers[t].interval THEN timeouts ELSE timeouts \ {t}

Destroyed(t) == [timers EXCEPT ![t].attached = FALSE]

MutantClear(t) ==
    /\ UserCode
    /\ t \in timeouts
    /\ timers' = [timers EXCEPT ![t].outcome = "cleared"]
    /\ UNCHANGED <<timeouts, clock, jobs, queued, stack>>

(* clearTimeout(), clearInterval(): of a timer the map has.                 *)
Clear(t) ==
    /\ UserCode
    /\ t \in timeouts
    /\ timers' = [Destroyed(t) EXCEPT ![t].outcome = "cleared"]
    /\ timeouts' = timeouts \ {t}
    /\ UNCHANGED <<clock, jobs, queued, stack>>

QueueMicrotask ==
    /\ UserCode
    /\ queued < MaxJobs
    /\ jobs' = jobs + 1
    /\ queued' = queued + 1
    /\ UNCHANGED <<timers, timeouts, clock, stack>>

-----------------------------------------------------------------------------
(* GLib: time passes, most of it while nothing runs.                        *)
Tick ==
    /\ UserCode
    /\ clock < MaxTime
    /\ clock' = clock + 1
    /\ UNCHANGED <<timers, timeouts, jobs, queued, stack>>

(* A source is blocked while its closure is on the stack.                   *)
OnStack(t) == \E d \in 1..Len(stack) : stack[d].timer = t
Ready == {t \in 1..Len(timers) :
             timers[t].attached /\ timers[t].due <= clock /\ ~OnStack(t)}

(* One iteration of the main context takes the sources of the highest       *)
(* priority that are ready: that of the job queue, or timers.  It takes     *)
(* over what the iterations around it have not dispatched.  Within a microtask no timer would be dispatched (see    *)
(* EventLoop), and no main loop is run there.                               *)
Iterate ==
    /\ stack # << >> => Top.in = "handler" /\ Len(stack) < MaxDepth
    /\ jobs > 0 \/ Ready # {}
    /\ LET outer == [d \in DOMAIN stack |-> [stack[d] EXCEPT !.ready = {}]] IN
       stack' = IF jobs > 0 THEN Append(outer, Entered("drain", 0))
                ELSE Append(outer, [Entered("loop", 0) EXCEPT !.ready = Ready])
    /\ UNCHANGED <<timers, timeouts, clock, jobs, queued>>

(* Timers are dispatched in the order they were attached.                   *)
IsFirst(t) == \A u \in Top.ready : t <= u
Passed(t) == [Top EXCEPT !.ready = @ \ {t}]

(* The closure of a timer: nothing, if the map does not have the source;    *)
(* otherwise the handler is called.                                         *)
Dispatch ==
    /\ In("loop")
    /\ \E t \in Top.ready :
          /\ IsFirst(t)
          /\ IF timers[t].attached /\ t \in timeouts
             THEN /\ stack' = Append(Append(Under, Passed(t)), Entered("handler", t))
                  /\ timers' = [timers EXCEPT ![t].calls = IF @ < 2 THEN @ + 1 ELSE @]
             ELSE /\ stack' = Append(Under, Passed(t))
                  /\ timers' = Destroyed(t)
    /\ UNCHANGED <<timeouts, clock, jobs, queued>>

IterationDone ==
    /\ In("loop")
    /\ Top.ready = {}
    /\ stack' = Under
    /\ UNCHANGED <<timers, timeouts, clock, jobs, queued>>

MutantReturns ==
    /\ In("handler")
    /\ timeouts' = Released(Top.timer)
    /\ timers' = Destroyed(Top.timer)
    /\ stack' = Under
    /\ UNCHANGED <<clock, jobs, queued>>

Returns ==
    /\ In("handler")
    /\ timeouts' = Released(Top.timer)
    /\ stack' = Append(Under, Entered("drain", Top.timer))
    /\ UNCHANGED <<timers, clock, jobs, queued>>

(* The exception leaves the closure too.  It is logged, GLib gets FALSE and *)
(* destroys the source; neither releaseSource() nor the drain is reached.   *)
MutantThrown(t) == timers
Thrown(t) ==
    [Destroyed(t) EXCEPT ![t].outcome = IF t \in timeouts THEN "threw" ELSE @]

Throws ==
    /\ In("handler")
    /\ timers' = Thrown(Top.timer)
    /\ stack' = Append(Front(Under), [Last(Under) EXCEPT !.thrown = TRUE])
    /\ UNCHANGED <<timeouts, clock, jobs, queued>>

(* drainMicrotaskQueue().                                                   *)
RunJob ==
    /\ In("drain")
    /\ jobs > 0
    /\ jobs' = jobs - 1
    /\ stack' = Append(stack, Entered("job", 0))
    /\ UNCHANGED <<timers, timeouts, clock, queued>>

JobDone ==
    /\ In("job")
    /\ stack' = Under
    /\ UNCHANGED <<timers, timeouts, clock, jobs, queued>>

(* SOURCE_REMOVE, or SOURCE_CONTINUE and a new expiration.                  *)
Returned(t) ==
    IF timers[t].interval THEN [timers EXCEPT ![t].due = clock + timers[t].delay]
    ELSE Destroyed(t)

DrainDone ==
    /\ In("drain")
    /\ jobs = 0
    /\ timers' = IF Top.timer = 0 THEN timers ELSE Returned(Top.timer)
    /\ stack' = Under
    /\ UNCHANGED <<timeouts, clock, jobs, queued>>

Running == Dispatch \/ IterationDone \/ RunJob \/ DrainDone
CallbackReturns == Returns \/ Throws \/ JobDone

Next ==
    \/ \E interval \in BOOLEAN, delay \in Delays : SetTimer(interval, delay)
    \/ \E t \in timeouts : Clear(t)
    \/ QueueMicrotask
    \/ Tick
    \/ Iterate
    \/ Running
    \/ Returns
    \/ Throws
    \/ JobDone

Spec == Init /\ [][Next]_vars

(* GLib iterates the context while nothing is on the stack and something is *)
(* ready; JavaScript returns, though a main loop that it runs may interrupt *)
(* it again and again.                                                      *)
FairSpec ==
    /\ Spec
    /\ WF_vars(Running)
    /\ WF_vars(Iterate /\ stack = << >>)
    /\ WF_vars(JobDone)
    /\ \A d \in 1..(MaxDepth \div 2 + 1) :
          SF_vars(Len(stack) = 2 * d /\ (Returns \/ Throws))

-----------------------------------------------------------------------------
(* Every source that may still call its handler is in the map, so that it   *)
(* can be cleared; what the map has besides is what a throwing handler has  *)
(* left there.                                                              *)
MapMatchesSources ==
    \A t \in 1..Len(timers) :
        /\ timers[t].attached => t \in timeouts \/ (~timers[t].interval /\ OnStack(t))
        /\ t \in timeouts => timers[t].attached \/ timers[t].outcome = "threw"

(* setTimeout() calls its handler once, though the source stays attached    *)
(* and due while the handler and the microtasks after it run main loops.    *)
OnceEach == \A t \in 1..Len(timers) : ~timers[t].interval => timers[t].calls <= 1

EntersHandler(t) == Len(stack') > Len(stack) /\ Last(stack').in = "handler" /\ Last(stack').timer = t

(* A timer that has been cleared is not called again: not by the iteration  *)
(* that found it ready before another handler cleared it, nor by the loops  *)
(* around, nor as an interval that cleared itself and then returned.        *)
ClearedStaysQuiet ==
    [][\A t \in 1..Len(timers) : EntersHandler(t) => timers[t].outcome # "cleared"]_vars

(* The microtasks that a timer's handler has queued run before any other    *)
(* timer's handler, in this loop or in one it runs itself; only a handler   *)
(* that throws delays them to the next iteration.                           *)
MicrotasksFirst ==
    [][\A t \in 1..Len(timers) : EntersHandler(t) => jobs = 0 \/ Last(stack).thrown]_vars

(* A timer that is due gets its call, or is cleared, however the timers     *)
(* around it nest, repeat and throw.                                        *)
Due(t) == t <= Len(timers) /\ timers[t].attached /\ timers[t].due <= clock
Cleared(t) == t <= Len(timers) /\ timers[t].outcome = "cleared"
DueGetsCalled == \A t \in 1..MaxTimers : Due(t) ~> (OnStack(t) \/ Cleared(t))

=============================================================================
