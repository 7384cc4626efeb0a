------------------------------ MODULE Debugger ------------------------------
(***************************************************************************)
(* modules/script/_bootstrap/debugger.js: the frames it looks at, and how  *)
(* step, next, finish and until set hooks on the program's frames that     *)
(* bring it back to the prompt.  Debuggee code runs between prompts, and   *)
(* below one, when a command evaluates an expression.                      *)
(***************************************************************************)
EXTENDS Integers, Sequences, FiniteSets, SequencesExt

CONSTANTS
    Lines,        \* lines of the program
    MaxFrames,    \* bound: frames of the program ever entered
    MaxStops      \* bound: prompts on the stack

ASSUME BoundsAssumption == MaxFrames \in Nat /\ MaxStops \in Nat
ASSUME LinesAssumption == \E l \in Lines : \A m \in Lines : l <= m

VARIABLES
    frames,     \* the Debugger.Frame objects, in order of entry
    stack,      \* those that are live, outermost first
    onEnter,    \* dbg.onEnterFrame
    cleanups,   \* replCleanups
    topFrame, focusedFrame,
    stops,      \* calls of repl() that have not returned, innermost last
    evals,      \* evaluations that have not ended, innermost last
    watched     \* not in the code: the frame that step or next has set its
                \* hooks on since the last prompt, or 0

vars == <<frames, stack, onEnter, cleanups, topFrame, focusedFrame, stops, evals, watched>>

Null == 0
FrameId == 1..Len(frames)
MaybeFrame == {Null} \cup FrameId

(* A hook is a closure of one command: its kind, and its startFrame,        *)
(* startLine and stopLine.                                                  *)
Hook == [fn : {"initial", "entered", "stepped", "popped"},
         kind : {"initial", "step", "next", "finish", "until"},
         start : MaybeFrame, line : Lines, stop : Lines]
NoHook == [fn |-> "none"]
MaybeHook == Hook \cup {NoHook}

Frame == [older : MaybeFrame, line : Lines, younger : MaybeFrame,
          reportedPop : BOOLEAN, leaving : BOOLEAN,
         onStep : MaybeHook, onPop : MaybeHook]

(* A frame that is leaving was told to by throw or return.                  *)

(* A function that setUntilRepl() makes: obj Null is dbg.                   *)
Cleanup == [obj : MaybeFrame, prop : {"onEnter", "onStep", "onPop"}, saved : MaybeHook]

(* What a call of repl() and the hook around it go back to: the frames of   *)
(* saveExcursion(); popping: the hook is onPop.                             *)
Stop == [excursion : BOOLEAN, top : MaybeFrame, focus : MaybeFrame, popping : BOOLEAN]

(* An evaluation below a prompt: what its saveExcursion() keeps, the number *)
(* of live frames below it and of frames there have been.                   *)
Evaluation == [top : MaybeFrame, focus : MaybeFrame, base : Nat, entered : Nat]

TypeOK ==
    /\ frames \in Seq(Frame)
    /\ stack \in Seq(FrameId)
    /\ onEnter \in MaybeHook
    /\ cleanups \in Seq(Cleanup)
    /\ topFrame \in MaybeFrame
    /\ focusedFrame \in MaybeFrame
    /\ stops \in Seq(Stop)
    /\ evals \in Seq(Evaluation)
    /\ watched \in MaybeFrame
    /\ topFrame = Null <=> focusedFrame = Null
    /\ Len(stops) - Len(evals) \in {0, 1}

FirstLine == CHOOSE l \in Lines : \A m \in Lines : l <= m

Init ==
    /\ frames = << >>
    /\ stack = << >>
    /\ onEnter = [fn |-> "initial", kind |-> "initial", start |-> Null,
                  line |-> FirstLine, stop |-> FirstLine]
    /\ cleanups = <<[obj |-> Null, prop |-> "onEnter", saved |-> NoHook]>>
    /\ topFrame = Null
    /\ focusedFrame = Null
    /\ stops = << >>
    /\ evals = << >>
    /\ watched = Null

Newest == Last(stack)
OnStack(f) == \E i \in 1..Len(stack) : stack[i] = f

(* The debugger's hooks, as one value that the commands change.             *)
Hooks == [frames |-> frames, onEnter |-> onEnter, cleanups |-> cleanups]
Assigned(h, obj, prop, value) ==
    CASE prop = "onEnter" -> [h EXCEPT !.onEnter = value]
      [] prop = "onStep" -> [h EXCEPT !.frames[obj].onStep = value]
      [] prop = "onPop" -> [h EXCEPT !.frames[obj].onPop = value]

Current(h, obj, prop) ==
    CASE prop = "onEnter" -> h.onEnter
      [] prop = "onStep" -> h.frames[obj].onStep
      [] prop = "onPop" -> h.frames[obj].onPop

(* setUntilRepl()                                                           *)
SetUntilRepl(h, obj, prop, value) ==
    [Assigned(h, obj, prop, value) EXCEPT
        !.cleanups = Append(@, [obj |-> obj, prop |-> prop, saved |-> Current(h, obj, prop)])]

(* preReplCleanups() undoes the cleanups from the last one set to the first, *)
(* so that each hook ends as the first of those that concern it has saved   *)
(* it: what an earlier command has set comes back last, if it was there.    *)
Concern(h, obj, prop) ==
    {k \in 1..Len(h.cleanups) : h.cleanups[k].obj = obj /\ h.cleanups[k].prop = prop}
(* The cleanups are undone in the order in which they were set.             *)
MutantRestored(h, obj, prop) ==
    IF Concern(h, obj, prop) = {} THEN Current(h, obj, prop)
    ELSE LET last == CHOOSE k \in Concern(h, obj, prop) :
                         \A m \in Concern(h, obj, prop) : m <= k
         IN  h.cleanups[last].saved

Restored(h, obj, prop) ==
    IF Concern(h, obj, prop) = {} THEN Current(h, obj, prop)
    ELSE LET first == CHOOSE k \in Concern(h, obj, prop) :
                          \A m \in Concern(h, obj, prop) : k <= m
         IN  h.cleanups[first].saved
CleanedUp(h) ==
    [frames |-> [f \in 1..Len(h.frames) |->
                    [h.frames[f] EXCEPT !.onStep = Restored(h, f, "onStep"),
                                        !.onPop = Restored(h, f, "onPop")]],
     onEnter |-> Restored(h, Null, "onEnter"),
     cleanups |-> << >>]

SetHooks(h) ==
    /\ frames' = h.frames
    /\ onEnter' = h.onEnter
    /\ cleanups' = h.cleanups

(* repl(), called by a hook on frame f.                                     *)
Repl(f, h, excursion, popping) ==
    /\ SetHooks(CleanedUp(h))
    /\ topFrame' = f
    /\ focusedFrame' = f
    /\ stops' = Append(stops, [excursion |-> excursion, top |-> topFrame,
                    focus |-> focusedFrame, popping |-> popping])
    /\ watched' = Null
    /\ UNCHANGED evals

GoesOn(h) ==
    /\ SetHooks(h)
    /\ UNCHANGED <<topFrame, focusedFrame, stops, evals, watched>>

-----------------------------------------------------------------------------
(* The program runs: at first, and below a prompt for an evaluation, which  *)
(* runs above the frames there were.                                        *)
Running == Len(stops) = Len(evals)
Base == IF evals = << >> THEN 0 ELSE Last(evals).base
InCode == Running /\ Len(stops) < MaxStops /\ Len(stack) > Base
InFrame == InCode /\ ~frames[Newest].leaving

(* The first frame of an evaluation is above the selected one.              *)
Starts ==
    /\ Len(stack) = Base
    /\ IF evals = << >> THEN TRUE ELSE Last(evals).entered = Len(frames)
Caller ==
    IF ~Starts THEN Newest ELSE IF evals = << >> THEN Null ELSE Last(evals).focus

(* A function is called, by another one, by the main loop or as the code to *)
(* be evaluated: onInitialEnterFrame(), stepEntered().                      *)
Enter(line) ==
    /\ InFrame \/ (Running /\ Len(stops) < MaxStops /\ Starts)
    /\ Len(frames) < MaxFrames
    /\ LET f == Len(frames) + 1
           new == [older |-> Caller, line |-> line, younger |-> Null,
                   reportedPop |-> FALSE, leaving |-> FALSE,
                   onStep |-> NoHook, onPop |-> NoHook]
           h == [Hooks EXCEPT !.frames = Append(@, new)]
       IN  /\ stack' = Append(stack, f)
           /\ CASE onEnter = NoHook -> GoesOn(h)
                [] onEnter # NoHook /\ onEnter.kind = "until" /\ line # onEnter.stop ->
                      GoesOn(SetUntilRepl(h, f, "onStep", [onEnter EXCEPT !.fn = "stepped"]))
                [] OTHER -> Repl(f, h, FALSE, FALSE)

(* stepStepped(), with the frame and the line that it is called for.        *)
Stops(c, f, line) ==
    CASE c.kind = "finish" -> TRUE
      [] c.kind = "until" -> line = c.stop
      [] OTHER -> line # c.line \/ f # c.start

(* The newest frame goes on, to a line of its own.                          *)
StepTo(line) ==
    /\ InFrame
    /\ LET h == [Hooks EXCEPT !.frames[Newest].line = line]
           c == frames[Newest].onStep
       IN  IF c # NoHook /\ Stops(c, Newest, line)
           THEN Repl(Newest, h, FALSE, FALSE)
           ELSE GoesOn(h)
    /\ UNCHANGED stack

(* A breakpoint or a debugger statement is hit, or an exception thrown.     *)
Break ==
    /\ InFrame
    /\ Repl(Newest, Hooks, TRUE, FALSE)
    /\ UNCHANGED stack

(* The newest frame returns or throws.  stepPopped() prompts while it is    *)
(* still there; finish and until only set a hook on the frame below, and    *)
(* throw if there is none.                                                  *)
PopSilently ==
    /\ InCode
    /\ frames[Newest].onPop = NoHook
    /\ stack' = Front(stack)
    /\ GoesOn(Hooks)

Reported(h) == [h EXCEPT !.frames[Newest].reportedPop = TRUE]

PopPrompts ==
    /\ InCode
    /\ frames[Newest].onPop # NoHook
    /\ frames[Newest].onPop.kind \in {"step", "next"}
    /\ Repl(Newest, Reported(Hooks), FALSE, TRUE)
    /\ UNCHANGED stack

PopTrades ==
    /\ InCode
    /\ frames[Newest].onPop # NoHook
    /\ frames[Newest].onPop.kind \in {"finish", "until"}
    /\ LET h == CleanedUp(Reported(Hooks))
           older == frames[Newest].older
       IN  SetHooks(IF older = Null THEN h
                    ELSE SetUntilRepl(h, older, "onStep",
                                      [frames[Newest].onPop EXCEPT !.fn = "stepped"]))
    /\ topFrame' = Newest
    /\ focusedFrame' = Newest
    /\ stack' = Front(stack)
    /\ UNCHANGED <<stops, evals, watched>>

-----------------------------------------------------------------------------
(* Commands at the innermost prompt.                                        *)
Prompts == ~Running
Here == Last(stops)

(* The command ends repl(), and the hook returns.                           *)
Resume ==
    /\ stops' = Front(stops)
    /\ topFrame' = IF Here.excursion THEN Here.top ELSE topFrame
    /\ focusedFrame' = IF Here.excursion THEN Here.focus ELSE focusedFrame
    /\ stack' = IF Here.popping THEN Front(stack) ELSE stack
    /\ UNCHANGED evals

(* cont, and detach as far as the program goes on.                          *)
Continue ==
    /\ Prompts
    /\ focusedFrame # Null
    /\ Resume
    /\ UNCHANGED <<frames, onEnter, cleanups, watched>>

(* throw and return, from the newest frame only.                            *)
ThrowOrReturn ==
    /\ Prompts
    /\ focusedFrame = topFrame
    /\ frames' = [frames EXCEPT ![topFrame].leaving = TRUE]
    /\ Resume
    /\ UNCHANGED <<onEnter, cleanups, watched>>

MutantStepFrame == topFrame
StepFrame == IF frames[topFrame].reportedPop THEN frames[topFrame].older ELSE topFrame

(* doStepOrNext()                                                           *)
StepOrNext(kind, line) ==
    /\ Prompts
    /\ topFrame # Null
    /\ LET c == [fn |-> "entered", kind |-> kind, start |-> topFrame,
                 line |-> frames[topFrame].line, stop |-> line]
           h1 == IF kind \in {"step", "until"}
                 THEN SetUntilRepl(Hooks, Null, "onEnter", c) ELSE Hooks
           h2 == IF StepFrame # Null /\ kind # "finish"
                 THEN SetUntilRepl(h1, StepFrame, "onStep", [c EXCEPT !.fn = "stepped"])
                 ELSE h1
           h3 == IF StepFrame # Null
                 THEN SetUntilRepl(h2, StepFrame, "onPop", [c EXCEPT !.fn = "popped"])
                 ELSE h2
       IN  SetHooks(h3)
    /\ watched' = IF kind \in {"step", "next"} THEN StepFrame ELSE Null
    /\ Resume

(* frame n: the frames on the way learn which one is younger, also when     *)
(* there are fewer than n of them and none is selected.                     *)
SelectFrame(n) ==
    /\ Prompts
    /\ topFrame # Null
    /\ \E k \in 0..n : \E way \in [0..k -> FrameId] :
          /\ way[0] = topFrame
          /\ \A i \in 1..k : way[i] = frames[way[i - 1]].older
          /\ k < n => frames[way[k]].older = Null
          /\ frames' = [f \in FrameId |->
                 IF \E i \in 1..k : way[i] = f
                 THEN [frames[f] EXCEPT !.younger = way[(CHOOSE i \in 1..k : way[i] = f) - 1]]
                 ELSE frames[f]]
          /\ focusedFrame' = IF k = n THEN way[k] ELSE focusedFrame
    /\ UNCHANGED <<stack, onEnter, cleanups, topFrame, stops, evals, watched>>

Up ==
    /\ Prompts
    /\ focusedFrame # Null
    /\ frames[focusedFrame].older # Null
    /\ focusedFrame' = frames[focusedFrame].older
    /\ frames' = [frames EXCEPT ![focusedFrame'].younger = focusedFrame]
    /\ UNCHANGED <<stack, onEnter, cleanups, topFrame, stops, evals, watched>>

Down ==
    /\ Prompts
    /\ focusedFrame # Null
    /\ frames[focusedFrame].younger # Null
    /\ focusedFrame' = frames[focusedFrame].younger
    /\ UNCHANGED <<frames, stack, onEnter, cleanups, topFrame, stops, evals, watched>>

(* evalInFrame(): print and the other commands with an expression.          *)
Evaluate ==
    /\ Prompts
    /\ focusedFrame # Null
    /\ OnStack(focusedFrame)
    /\ evals' = Append(evals, [top |-> topFrame, focus |-> focusedFrame,
                              base |-> Len(stack), entered |-> Len(frames)])
    /\ UNCHANGED <<frames, stack, onEnter, cleanups, topFrame, focusedFrame, stops, watched>>

Evaluated(keeps) ==
    /\ Running
    /\ evals # << >>
    /\ Len(stack) = Base
    /\ evals' = Front(evals)
    /\ topFrame' = IF keeps THEN Last(evals).top ELSE topFrame
    /\ focusedFrame' = IF keeps THEN Last(evals).focus ELSE focusedFrame
    /\ watched' = Null
    /\ UNCHANGED <<frames, stack, onEnter, cleanups, stops>>

MutantEndEvaluation == Evaluated(FALSE)
EndEvaluation == Evaluated(TRUE)

-----------------------------------------------------------------------------
Next ==
    \/ \E line \in Lines : Enter(line) \/ StepTo(line)
    \/ Break
    \/ PopSilently
    \/ PopPrompts
    \/ PopTrades
    \/ Continue
    \/ ThrowOrReturn
    \/ \E kind \in {"step", "next", "finish"} : StepOrNext(kind, FirstLine)
    \/ \E line \in Lines : StepOrNext("until", line)
    \/ \E n \in 0..(MaxFrames - 1) : SelectFrame(n)
    \/ Up
    \/ Down
    \/ Evaluate
    \/ EndEvaluation

Spec == Init /\ [][Next]_vars

(* The frame that every command starts from is the newest one there is,     *)
(* also after an evaluation that prompted in frames that are gone by now.   *)
TopIsNewest == Prompts => stack # << >> /\ topFrame = Newest

(* A command's hooks do not outlive the next prompt: when repl() asks, no   *)
(* live frame and no new one has a hook that an earlier step, until or      *)
(* finish has set, in whatever order these were nested.                     *)
NoHooks ==
    /\ onEnter = NoHook
    /\ \A f \in FrameId : OnStack(f) => frames[f].onStep = NoHook /\ frames[f].onPop = NoHook
PromptsAreClean == [][Len(stops') > Len(stops) => NoHooks']_vars

(* After step or next, the frame that it steps in cannot be left without a  *)
(* prompt, unless one came before.                                          *)
StepsKeepControl ==
    Running /\ watched # Null => OnStack(watched) /\ frames[watched].onPop # NoHook

(* Not checked by a run: down can select a frame that has returned.         *)
FocusIsLive == Prompts => OnStack(focusedFrame)
=============================================================================
