-------------------------- MODULE Debugger_proofs --------------------------
(***************************************************************************)
(* For any number of frames, prompts and evaluations, and any program: a   *)
(* prompt is clean and on the newest frame, and step and next keep the     *)
(* frame that they step in.                                                *)
(***************************************************************************)
EXTENDS Debugger, Lists_proofs

-----------------------------------------------------------------------------
(* Identifiers are counted up to n, the number of frames.                   *)
MaybeTo(n) == {Null} \cup 1..n
HookTo(n) ==
    [fn : {"initial", "entered", "stepped", "popped"},
     kind : {"initial", "step", "next", "finish", "until"},
     start : MaybeTo(n), line : Lines, stop : Lines] \cup {NoHook}
FrameTo(n) ==
    [older : MaybeTo(n), line : Lines, younger : MaybeTo(n),
     reportedPop : BOOLEAN, leaving : BOOLEAN, onStep : HookTo(n), onPop : HookTo(n)]
CleanupTo(n) == [obj : MaybeTo(n), prop : {"onEnter", "onStep", "onPop"}, saved : HookTo(n)]
HooksTo(n) == [frames : [1..n -> FrameTo(n)], onEnter : HookTo(n), cleanups : Seq(CleanupTo(n))]
StopTo(n) == [excursion : BOOLEAN, top : MaybeTo(n), focus : MaybeTo(n), popping : BOOLEAN]
EvaluationTo(n) == [top : MaybeTo(n), focus : MaybeTo(n), base : Nat, entered : Nat]

(* The live frames were entered in the order of the stack.                  *)
Ascends(s) == \A i, j \in 1..Len(s) : i < j => s[i] < s[j]
StackInOrder == Ascends(stack)

(* Evaluations are nested, and each has a part of the stack of its own.     *)
Nested ==
    /\ \A k \in 1..Len(evals) : evals[k].base \in 1..Len(stack)
    /\ \A k, m \in 1..Len(evals) : k < m => evals[k].base < evals[m].base
    /\ Prompts => Len(stack) > Base

(* What an evaluation goes back to.                                         *)
GoesBack ==
    /\ \A k \in 1..Len(evals) :
          /\ evals[k].top = stack[evals[k].base]
          /\ \E j \in 1..evals[k].base : evals[k].focus = stack[j]
    /\ Prompts => topFrame = Newest
    /\ topFrame = Null <=> focusedFrame = Null
    /\ \A k \in 1..Len(stops) : stops[k].top = Null <=> stops[k].focus = Null
    /\ Len(stops) - Len(evals) \in {0, 1}

(* The frames that are being popped: those whose hook has called repl().    *)
Popping(i) ==
    \/ \E k \in 1..Len(evals) : i = evals[k].base /\ stops[k].popping
    \/ Prompts /\ i = Len(stack) /\ Here.popping
PopsReported == \A i \in 1..Len(stack) : frames[stack[i]].reportedPop <=> Popping(i)

(* older is the next one of the stack, except for the first frame of an     *)
(* evaluation.                                                              *)
Chained ==
    \A i \in 1..Len(stack) :
        \/ frames[stack[i]].older = Null /\ i = 1
        \/ i > 1 /\ frames[stack[i]].older = stack[i - 1]
        \/ /\ \E k \in 1..Len(evals) : evals[k].base = i - 1
           /\ \E j \in 1..(i - 1) : frames[stack[i]].older = stack[j]

(* The frame that step or next watches is live, and what runs above it has  *)
(* no hook that could do away with its own.                                 *)
Watches ==
    /\ Prompts => watched = Null
    /\ watched # Null =>
          \E w \in 1..Len(stack) :
              /\ watched = stack[w]
              /\ frames[watched].onPop # NoHook
              /\ frames[watched].onPop.kind \in {"step", "next"}
              /\ \A j \in 1..Len(stack) :
                    j > w /\ j > Base => frames[stack[j]].onPop = NoHook

(* The first cleanup of a hook, or the hook itself if it has none, is where *)
(* undoing ends: no hook at all.                                            *)
Fits(n, obj, prop) ==
    IF prop = "onEnter" THEN obj = Null ELSE prop \in {"onStep", "onPop"} /\ obj \in 1..n
Clear(h, obj, prop) ==
    \/ Concern(h, obj, prop) = {} /\ Current(h, obj, prop) = NoHook
    \/ \E k \in Concern(h, obj, prop) :
          /\ \A m \in Concern(h, obj, prop) : k <= m
          /\ h.cleanups[k].saved = NoHook
Clears(n, h) ==
    \A obj \in MaybeTo(n), prop \in {"onEnter", "onStep", "onPop"} :
        Fits(n, obj, prop) => Clear(h, obj, prop)

Typed ==
    /\ frames \in Seq(FrameTo(Len(frames)))
    /\ onEnter \in HookTo(Len(frames))
    /\ cleanups \in Seq(CleanupTo(Len(frames)))
    /\ stack \in Seq(1..Len(frames))
    /\ topFrame \in MaybeTo(Len(frames))
    /\ focusedFrame \in MaybeTo(Len(frames))
    /\ stops \in Seq(StopTo(Len(frames)))
    /\ evals \in Seq(EvaluationTo(Len(frames)))
    /\ watched \in MaybeTo(Len(frames))

Structure == StackInOrder /\ Nested /\ GoesBack /\ PopsReported /\ Chained

DebugInv == Typed /\ Clears(Len(frames), Hooks) /\ Structure /\ Watches

-----------------------------------------------------------------------------
(* What the commands do to the hooks.                                       *)
LEMMA Ranges ==
    ASSUME NEW n \in Nat
    PROVE  /\ Null \in MaybeTo(n) /\ NoHook \in HookTo(n)
           /\ 1..n \subseteq MaybeTo(n)
           /\ \A c \in HookTo(n) : c # NoHook =>
                 c \in [fn : {"initial", "entered", "stepped", "popped"},
                        kind : {"initial", "step", "next", "finish", "until"},
                        start : MaybeTo(n), line : Lines, stop : Lines]
BY DEF MaybeTo, HookTo, Null

LEMMA AssignedKeeps ==
    ASSUME NEW n \in Nat, NEW h \in HooksTo(n), NEW obj \in MaybeTo(n),
           NEW prop \in {"onEnter", "onStep", "onPop"}, NEW v \in HookTo(n),
           Fits(n, obj, prop)
    PROVE  /\ Assigned(h, obj, prop, v) \in HooksTo(n)
           /\ Assigned(h, obj, prop, v).cleanups = h.cleanups
           /\ Current(h, obj, prop) \in HookTo(n)
           /\ Current(Assigned(h, obj, prop, v), obj, prop) = v
           /\ \A o \in MaybeTo(n), p \in {"onEnter", "onStep", "onPop"} :
                 Fits(n, o, p) /\ (o # obj \/ p # prop) =>
                    Current(Assigned(h, obj, prop, v), o, p) = Current(h, o, p)
           /\ \A f \in 1..n :
                 /\ Assigned(h, obj, prop, v).frames[f].older = h.frames[f].older
                 /\ Assigned(h, obj, prop, v).frames[f].reportedPop = h.frames[f].reportedPop
<1> USE DEF Fits, MaybeTo, Null
<1>1. h.frames \in [1..n -> FrameTo(n)] /\ h.onEnter \in HookTo(n)
        /\ h = [frames |-> h.frames, onEnter |-> h.onEnter, cleanups |-> h.cleanups]
    BY DEF HooksTo
<1>2. CASE prop = "onEnter"
    <2>1. Assigned(h, obj, prop, v) = [h EXCEPT !.onEnter = v]
        BY <1>2 DEF Assigned
    <2>2. /\ Assigned(h, obj, prop, v) \in HooksTo(n)
          /\ Assigned(h, obj, prop, v).cleanups = h.cleanups
          /\ Assigned(h, obj, prop, v).frames = h.frames
          /\ Assigned(h, obj, prop, v).onEnter = v
        BY <2>1, <1>1 DEF HooksTo
    <2> QED
        BY <1>1, <1>2, <2>2 DEF Current
<1>3. CASE prop = "onStep"
    <2>1. Assigned(h, obj, prop, v) = [h EXCEPT !.frames[obj].onStep = v]
        BY <1>3 DEF Assigned
    <2>2. obj \in 1..n /\ h.frames[obj] \in FrameTo(n)
        BY <1>1, <1>3
    <2> DEFINE new == [h.frames[obj] EXCEPT !.onStep = v]
    <2>3. /\ new \in FrameTo(n) /\ new.onStep = v /\ new.onPop = h.frames[obj].onPop
          /\ new.older = h.frames[obj].older /\ new.reportedPop = h.frames[obj].reportedPop
        BY <2>2 DEF FrameTo
    <2>4. Assigned(h, obj, prop, v) = [h EXCEPT !.frames = [h.frames EXCEPT ![obj] = new]]
        BY <2>1, <2>2, <1>1
    <2> HIDE DEF new
    <2>5. /\ Assigned(h, obj, prop, v) \in HooksTo(n)
          /\ Assigned(h, obj, prop, v).cleanups = h.cleanups
          /\ Assigned(h, obj, prop, v).frames = [h.frames EXCEPT ![obj] = new]
          /\ Assigned(h, obj, prop, v).onEnter = h.onEnter
        BY <2>3, <2>4, <1>1 DEF HooksTo
    <2>6. \A f \in 1..n : [h.frames EXCEPT ![obj] = new][f] = IF f = obj THEN new ELSE h.frames[f]
        BY <1>1, <2>2
    <2>7. h.frames[obj].onStep \in HookTo(n)
        BY <2>2 DEF FrameTo
    <2> QED
        BY <1>1, <1>3, <2>2, <2>3, <2>5, <2>6, <2>7 DEF Current
<1>4. CASE prop = "onPop"
    <2>1. Assigned(h, obj, prop, v) = [h EXCEPT !.frames[obj].onPop = v]
        BY <1>4 DEF Assigned
    <2>2. obj \in 1..n /\ h.frames[obj] \in FrameTo(n)
        BY <1>1, <1>4
    <2> DEFINE new == [h.frames[obj] EXCEPT !.onPop = v]
    <2>3. /\ new \in FrameTo(n) /\ new.onPop = v /\ new.onStep = h.frames[obj].onStep
          /\ new.older = h.frames[obj].older /\ new.reportedPop = h.frames[obj].reportedPop
        BY <2>2 DEF FrameTo
    <2>4. Assigned(h, obj, prop, v) = [h EXCEPT !.frames = [h.frames EXCEPT ![obj] = new]]
        BY <2>1, <2>2, <1>1
    <2> HIDE DEF new
    <2>5. /\ Assigned(h, obj, prop, v) \in HooksTo(n)
          /\ Assigned(h, obj, prop, v).cleanups = h.cleanups
          /\ Assigned(h, obj, prop, v).frames = [h.frames EXCEPT ![obj] = new]
          /\ Assigned(h, obj, prop, v).onEnter = h.onEnter
        BY <2>3, <2>4, <1>1 DEF HooksTo
    <2>6. \A f \in 1..n : [h.frames EXCEPT ![obj] = new][f] = IF f = obj THEN new ELSE h.frames[f]
        BY <1>1, <2>2
    <2>7. h.frames[obj].onPop \in HookTo(n)
        BY <2>2 DEF FrameTo
    <2> QED
        BY <1>1, <1>4, <2>2, <2>3, <2>5, <2>6, <2>7 DEF Current
<1> QED
    BY <1>2, <1>3, <1>4

LEMMA SetKeeps ==
    ASSUME NEW n \in Nat, NEW h \in HooksTo(n), NEW obj \in MaybeTo(n),
           NEW prop \in {"onEnter", "onStep", "onPop"}, NEW v \in HookTo(n),
           Fits(n, obj, prop), Clears(n, h)
    PROVE  /\ SetUntilRepl(h, obj, prop, v) \in HooksTo(n)
           /\ Clears(n, SetUntilRepl(h, obj, prop, v))
           /\ \A f \in 1..n :
                 /\ SetUntilRepl(h, obj, prop, v).frames[f].older = h.frames[f].older
                 /\ SetUntilRepl(h, obj, prop, v).frames[f].reportedPop = h.frames[f].reportedPop
                 /\ SetUntilRepl(h, obj, prop, v).frames[f].onPop =
                       IF f = obj /\ prop = "onPop" THEN v ELSE h.frames[f].onPop
<1> DEFINE a == Assigned(h, obj, prop, v)
           saved == Current(h, obj, prop)
           c == [obj |-> obj, prop |-> prop, saved |-> saved]
           cs == h.cleanups
           s == [a EXCEPT !.cleanups = Append(cs, c)]
<1>1. /\ a \in HooksTo(n) /\ a.cleanups = cs /\ saved \in HookTo(n)
      /\ Current(a, obj, prop) = v
      /\ \A o \in MaybeTo(n), p \in {"onEnter", "onStep", "onPop"} :
            Fits(n, o, p) /\ (o # obj \/ p # prop) => Current(a, o, p) = Current(h, o, p)
      /\ \A f \in 1..n : /\ a.frames[f].older = h.frames[f].older
                         /\ a.frames[f].reportedPop = h.frames[f].reportedPop
    BY AssignedKeeps
<1>2. SetUntilRepl(h, obj, prop, v) = s
    BY <1>1 DEF SetUntilRepl
<1>3. cs \in Seq(CleanupTo(n)) /\ c \in CleanupTo(n)
    BY <1>1 DEF HooksTo, CleanupTo
<1> DEFINE t == Append(cs, c)
           l == Len(cs)
<1>4. /\ t \in Seq(CleanupTo(n)) /\ l \in Nat /\ Len(t) = l + 1
      /\ \A k \in 1..l : t[k] = cs[k]
      /\ t[l + 1] = c
    BY <1>3, AppendProperties, LenProperties
<1>5. c.obj = obj /\ c.prop = prop /\ c.saved = saved
    OBVIOUS
<1> HIDE DEF a, saved, c, cs, t, l
<1>6. s = [a EXCEPT !.cleanups = t]
    BY DEF s, t
<1> HIDE DEF s
<1>7. s \in HooksTo(n) /\ s.cleanups = t /\ s.frames = a.frames /\ s.onEnter = a.onEnter
    BY <1>1, <1>4, <1>6 DEF HooksTo
<1>8. \A o, p : Current(s, o, p) = Current(a, o, p)
    BY <1>7 DEF Current
<1>9. ASSUME NEW o \in MaybeTo(n), NEW p \in {"onEnter", "onStep", "onPop"}, Fits(n, o, p)
      PROVE  Clear(s, o, p)
    <2> DEFINE C == Concern(h, o, p)
               D == Concern(s, o, p)
    <2>1. C = {k \in 1..l : cs[k].obj = o /\ cs[k].prop = p}
        BY DEF Concern, l, cs
    <2>2. D = {k \in 1..(l + 1) : t[k].obj = o /\ t[k].prop = p}
        BY <1>4, <1>7 DEF Concern
    <2>3. \/ C = {} /\ Current(h, o, p) = NoHook
          \/ \E k \in C : (\A m \in C : k <= m) /\ cs[k].saved = NoHook
        BY <1>9 DEF Clears, Clear, cs
    <2>4. Clear(s, o, p) <=> \/ D = {} /\ Current(s, o, p) = NoHook
                             \/ \E k \in D : (\A m \in D : k <= m) /\ t[k].saved = NoHook
        BY <1>7 DEF Clear
    <2> HIDE DEF C, D
    <2>5. C \subseteq 1..l /\ C \subseteq D /\ \A k \in D : k \in C \/ k = l + 1
        BY <2>1, <2>2, <1>4
    <2>6. CASE \E k \in C : (\A m \in C : k <= m) /\ cs[k].saved = NoHook
        <3>1. PICK k \in C : (\A m \in C : k <= m) /\ cs[k].saved = NoHook
            BY <2>6
        <3>2. k \in D /\ k \in 1..l /\ t[k].saved = NoHook
            BY <2>5, <3>1, <1>4
        <3>3. \A m \in D : k <= m
            BY <2>5, <3>1, <3>2, <1>4
        <3> QED
            BY <2>4, <3>2, <3>3
    <2>7. CASE C = {} /\ Current(h, o, p) = NoHook /\ o = obj /\ p = prop
        <3>1. D = {l + 1} /\ t[l + 1].saved = NoHook
            BY <2>1, <2>2, <2>7, <1>4, <1>5 DEF saved
        <3> QED
            BY <2>4, <3>1, <1>4
    <2>8. CASE C = {} /\ Current(h, o, p) = NoHook /\ (o # obj \/ p # prop)
        <3>1. D = {}
            BY <2>2, <2>5, <2>8, <1>4, <1>5
        <3> QED
            BY <2>4, <2>8, <3>1, <1>1, <1>8, <1>9
    <2> QED
        BY <2>3, <2>6, <2>7, <2>8
<1>10. ASSUME NEW f \in 1..n
       PROVE  a.frames[f].onPop = IF f = obj /\ prop = "onPop" THEN v ELSE h.frames[f].onPop
    <2>1. f \in MaybeTo(n) /\ Fits(n, f, "onPop")
        BY DEF MaybeTo, Fits
    <2> QED
        BY <1>1, <2>1 DEF Current
<1> QED
    BY <1>1, <1>2, <1>7, <1>9, <1>10 DEF Clears

(* The debugger's hooks are all gone.                                       *)
NoneIn(n, h) ==
    h.onEnter = NoHook /\ \A f \in 1..n : h.frames[f].onStep = NoHook /\ h.frames[f].onPop = NoHook

LEMMA RestoredIsNone ==
    ASSUME NEW n \in Nat, NEW h \in HooksTo(n), NEW obj \in MaybeTo(n),
           NEW prop \in {"onEnter", "onStep", "onPop"},
           Fits(n, obj, prop), Clears(n, h)
    PROVE  Restored(h, obj, prop) = NoHook
<1> DEFINE C == Concern(h, obj, prop)
<1>1. C \subseteq Int
    BY DEF Concern
<1>2. \/ C = {} /\ Current(h, obj, prop) = NoHook
      \/ \E k \in C : (\A m \in C : k <= m) /\ h.cleanups[k].saved = NoHook
    BY DEF Clears, Clear
<1>3. Restored(h, obj, prop) =
          IF C = {} THEN Current(h, obj, prop)
          ELSE h.cleanups[CHOOSE k \in C : \A m \in C : k <= m].saved
    BY DEF Restored
<1> HIDE DEF C
<1>4. CASE \E k \in C : (\A m \in C : k <= m) /\ h.cleanups[k].saved = NoHook
    <2>1. PICK k \in C : (\A m \in C : k <= m) /\ h.cleanups[k].saved = NoHook
        BY <1>4
    <2> DEFINE first == CHOOSE j \in C : \A m \in C : j <= m
    <2>2. first \in C /\ \A m \in C : first <= m
        BY <2>1, Zenon
    <2>3. first = k
        <3> HIDE DEF first
        <3> QED
            BY <1>1, <2>1, <2>2
    <2> QED
        BY <1>3, <2>1, <2>3
<1> QED
    BY <1>2, <1>3, <1>4

LEMMA CleanedKeeps ==
    ASSUME NEW n \in Nat, NEW h \in HooksTo(n), Clears(n, h)
    PROVE  /\ CleanedUp(h) \in HooksTo(n)
           /\ Clears(n, CleanedUp(h))
           /\ NoneIn(n, CleanedUp(h))
           /\ \A f \in 1..n :
                 /\ CleanedUp(h).frames[f].older = h.frames[f].older
                 /\ CleanedUp(h).frames[f].reportedPop = h.frames[f].reportedPop
<1> DEFINE c == CleanedUp(h)
           new(f) == [h.frames[f] EXCEPT !.onStep = Restored(h, f, "onStep"),
                                         !.onPop = Restored(h, f, "onPop")]
<1>1. h.frames \in [1..n -> FrameTo(n)] /\ NoHook \in HookTo(n) /\ Null \in MaybeTo(n)
    BY Ranges DEF HooksTo
<1>2. Len(h.frames) = n
    BY <1>1, SameLength
<1>3. Restored(h, Null, "onEnter") = NoHook
    BY <1>1, RestoredIsNone DEF Fits
<1>4. ASSUME NEW f \in 1..n
      PROVE  Restored(h, f, "onStep") = NoHook /\ Restored(h, f, "onPop") = NoHook
    <2>1. f \in MaybeTo(n) /\ Fits(n, f, "onStep") /\ Fits(n, f, "onPop")
        BY DEF Fits, MaybeTo
    <2> QED
        BY <2>1, RestoredIsNone
<1>5. ASSUME NEW f \in 1..n
      PROVE  /\ new(f) \in FrameTo(n) /\ new(f).onStep = NoHook /\ new(f).onPop = NoHook
             /\ new(f).older = h.frames[f].older /\ new(f).reportedPop = h.frames[f].reportedPop
    <2>1. h.frames[f] \in FrameTo(n)
        BY <1>1
    <2> QED
        BY <2>1, <1>1, <1>4 DEF FrameTo
<1>6. /\ c.frames = [f \in 1..n |-> new(f)]
      /\ c.onEnter = NoHook
      /\ c.cleanups = << >>
      /\ c = [frames |-> c.frames, onEnter |-> c.onEnter, cleanups |-> c.cleanups]
    BY <1>2, <1>3 DEF CleanedUp
<1> HIDE DEF c, new
<1>7. c.frames \in [1..n -> FrameTo(n)] /\ \A f \in 1..n : c.frames[f] = new(f)
    BY <1>5, <1>6
<1>8. << >> \in Seq(CleanupTo(n)) /\ Len(<< >>) = 0
    BY EmptySeq
<1>9. c \in HooksTo(n)
    BY <1>1, <1>6, <1>7, <1>8 DEF HooksTo
<1>10. NoneIn(n, c)
    BY <1>5, <1>6, <1>7 DEF NoneIn
<1>11. Clears(n, c)
    <2> SUFFICES ASSUME NEW o \in MaybeTo(n), NEW p \in {"onEnter", "onStep", "onPop"}, Fits(n, o, p)
                 PROVE  Clear(c, o, p)
        BY DEF Clears
    <2>1. Concern(c, o, p) = {}
        BY <1>6, <1>8 DEF Concern
    <2>2. Current(c, o, p) = NoHook
        BY <1>10 DEF Current, NoneIn, Fits
    <2> QED
        BY <2>1, <2>2 DEF Clear
<1> QED
    BY <1>5, <1>7, <1>9, <1>10, <1>11 DEF c

(* More frames: what has been kept of the earlier ones is still what it is. *)
LEMMA Grows ==
    ASSUME NEW n \in Nat, NEW m \in Nat, n <= m
    PROVE  /\ MaybeTo(n) \subseteq MaybeTo(m)
           /\ HookTo(n) \subseteq HookTo(m)
           /\ FrameTo(n) \subseteq FrameTo(m)
           /\ CleanupTo(n) \subseteq CleanupTo(m)
           /\ Seq(CleanupTo(n)) \subseteq Seq(CleanupTo(m))
           /\ Seq(StopTo(n)) \subseteq Seq(StopTo(m))
           /\ Seq(EvaluationTo(n)) \subseteq Seq(EvaluationTo(m))
           /\ Seq(1..n) \subseteq Seq(1..m)
<1>1. MaybeTo(n) \subseteq MaybeTo(m) /\ 1..n \subseteq 1..m
    BY DEF MaybeTo
<1>2. HookTo(n) \subseteq HookTo(m)
    BY <1>1 DEF HookTo
<1>3. FrameTo(n) \subseteq FrameTo(m)
    BY <1>1, <1>2 DEF FrameTo
<1>4. CleanupTo(n) \subseteq CleanupTo(m)
    BY <1>1, <1>2 DEF CleanupTo
<1>5. StopTo(n) \subseteq StopTo(m) /\ EvaluationTo(n) \subseteq EvaluationTo(m)
    BY <1>1 DEF StopTo, EvaluationTo
<1> QED
    BY <1>1, <1>2, <1>3, <1>4, <1>5, SeqMonotonic

(* Whatever else is done to the frames, hooks and cleanups stay clear; a    *)
(* frame that is entered has no hooks.                                      *)
LEMMA StillClears ==
    ASSUME NEW n \in Nat, NEW m \in Nat, n <= m, NEW h \in HooksTo(n), NEW k \in HooksTo(m),
           Clears(n, h), k.onEnter = h.onEnter, k.cleanups = h.cleanups,
           \A f \in 1..n : /\ k.frames[f].onStep = h.frames[f].onStep
                           /\ k.frames[f].onPop = h.frames[f].onPop,
           \A f \in (n + 1)..m : k.frames[f].onStep = NoHook /\ k.frames[f].onPop = NoHook
    PROVE  Clears(m, k)
<1> SUFFICES ASSUME NEW o \in MaybeTo(m), NEW p \in {"onEnter", "onStep", "onPop"}, Fits(m, o, p)
             PROVE  Clear(k, o, p)
    BY DEF Clears
<1>1. Concern(k, o, p) = Concern(h, o, p)
    BY DEF Concern
<1>2. CASE o \in MaybeTo(n)
    <2>1. Fits(n, o, p)
        BY <1>2 DEF Fits, MaybeTo, Null
    <2>2. Current(k, o, p) = Current(h, o, p)
        BY <2>1 DEF Current, Fits
    <2> QED
        BY <1>1, <1>2, <2>1, <2>2 DEF Clears, Clear
<1>3. CASE o \notin MaybeTo(n)
    <2>1. o \in (n + 1)..m /\ p \in {"onStep", "onPop"}
        BY <1>3 DEF MaybeTo, Fits, Null
    <2>2. Current(k, o, p) = NoHook
        BY <2>1 DEF Current
    <2>3. \A i \in 1..Len(h.cleanups) : h.cleanups[i].obj \in MaybeTo(n)
        <3>1. h.cleanups \in Seq(CleanupTo(n))
            BY DEF HooksTo
        <3> DEFINE cs == h.cleanups
        <3> HIDE DEF cs
        <3>2. \A i \in 1..Len(cs) : cs[i] \in CleanupTo(n)
            BY <3>1, ElementOfSeq DEF cs
        <3> QED
            BY <3>2 DEF cs, CleanupTo
    <2>4. Concern(h, o, p) = {}
        BY <1>3, <2>3 DEF Concern
    <2> QED
        BY <1>1, <2>2, <2>4 DEF Clear
<1> QED
    BY <1>2, <1>3

-----------------------------------------------------------------------------
(* What steps do to the stack, the prompts and the evaluations, whatever    *)
(* hooks they set.                                                          *)
LEMMA Lengths ==
    ASSUME NEW n \in Nat, NEW st \in Seq(1..n), NEW so \in Seq(StopTo(n)), NEW ev \in Seq(EvaluationTo(n))
    PROVE  /\ Len(st) \in Nat /\ Len(so) \in Nat /\ Len(ev) \in Nat
           /\ st = << >> <=> Len(st) = 0
           /\ ev = << >> <=> Len(ev) = 0
           /\ \A i \in 1..Len(st) : st[i] \in 1..n
           /\ \A k \in 1..Len(so) : so[k] \in StopTo(n)
           /\ \A k \in 1..Len(ev) : ev[k] \in EvaluationTo(n)
           /\ Last(st) = st[Len(st)] /\ Last(so) = so[Len(so)] /\ Last(ev) = ev[Len(ev)]
<1> QED
    BY LenProperties, ElementOfSeq, EmptySeq DEF Last

(* The part of the stack that belongs to the innermost evaluation.          *)
LEMMA Bases ==
    ASSUME Typed, Nested
    PROVE  /\ Base \in 0..Len(stack)
           /\ \A k \in 1..Len(evals) : evals[k].base \in 1..Base
           /\ evals # << >> => Base = evals[Len(evals)].base
           /\ evals = << >> => Base = 0
           /\ \A k \in 1..Len(evals) : evals[k].base = Base => k = Len(evals)
<1> DEFINE n == Len(frames)
<1>1. n \in Nat /\ stack \in Seq(1..n) /\ evals \in Seq(EvaluationTo(n)) /\ stops \in Seq(StopTo(n))
    BY LenProperties DEF Typed
<1>2. /\ Len(stack) \in Nat /\ Len(evals) \in Nat /\ (evals = << >> <=> Len(evals) = 0)
      /\ Last(evals) = evals[Len(evals)]
    BY <1>1, Lengths
<1>3. \A k \in 1..Len(evals) : evals[k].base \in 1..Len(stack)
    BY DEF Nested
<1>4. \A k, m \in 1..Len(evals) : k < m => evals[k].base < evals[m].base
    BY DEF Nested
<1>5. Base = IF evals = << >> THEN 0 ELSE evals[Len(evals)].base
    BY <1>2 DEF Base
<1> DEFINE l == Len(evals)  s == Len(stack)  b(k) == evals[k].base
<1>6. /\ s \in Nat /\ l \in Nat /\ \A k \in 1..l : b(k) \in 1..s
      /\ \A k, m \in 1..l : k < m => b(k) < b(m)
      /\ Base = IF l = 0 THEN 0 ELSE b(l)
    BY <1>2, <1>3, <1>4, <1>5
<1> HIDE DEF l, s, b
<1>7. /\ Base \in 0..s
      /\ \A k \in 1..l : b(k) \in 1..Base
      /\ \A k \in 1..l : b(k) = Base => k = l
    <2>1. CASE l = 0
        BY <1>6, <2>1
    <2>2. CASE l # 0
        <3>1. l \in 1..l /\ Base = b(l) /\ b(l) \in 1..s
            BY <1>6, <2>2
        <3>2. \A k \in 1..l : k = l \/ (k < l /\ b(k) < b(l))
            BY <1>6, <3>1
        <3> QED
            BY <1>6, <3>1, <3>2
    <2> QED
        BY <2>1, <2>2
<1> QED
    BY <1>2, <1>5, <1>7 DEF l, s, b

(* A hook on frame f calls repl().                                          *)
Asks(f, popping) ==
    /\ topFrame' = f
    /\ focusedFrame' = f
    /\ watched' = Null
    /\ evals' = evals
    /\ \E s \in StopTo(Len(frames)) :
          /\ stops' = Append(stops, s)
          /\ s.popping = popping
          /\ s.top = Null <=> s.focus = Null

Same(f) == frames'[f].older = frames[f].older /\ frames'[f].reportedPop = frames[f].reportedPop

(* A prompt in the newest frame.                                            *)
LEMMA AskedStops ==
    ASSUME Typed, NEW f, NEW popping \in BOOLEAN, Asks(f, popping)
    PROVE  /\ Len(stops') = Len(stops) + 1
           /\ \A k \in 1..Len(stops) : stops'[k] = stops[k]
           /\ Here' = stops'[Len(stops) + 1]
           /\ Here'.popping = popping
           /\ Here'.top = Null <=> Here'.focus = Null
<1>1. stops \in Seq(StopTo(Len(frames)))
    BY DEF Typed
<1>2. PICK s \in StopTo(Len(frames)) :
          /\ stops' = Append(stops, s)
          /\ s.popping = popping
          /\ s.top = Null <=> s.focus = Null
    BY DEF Asks
<1>3. /\ Len(stops') = Len(stops) + 1
      /\ \A k \in 1..Len(stops) : stops'[k] = stops[k]
      /\ stops'[Len(stops) + 1] = s
      /\ Last(stops') = s
    BY <1>1, <1>2, Pushed
<1> QED
    BY <1>2, <1>3 DEF Here

LEMMA AskedStructure ==
    ASSUME Typed, Structure, Running, Len(stack) > Base,
           NEW popping \in BOOLEAN, Asks(Newest, popping), stack' = stack,
           Len(frames') = Len(frames),
           \A f \in 1..Len(frames) : f # Newest => Same(f),
           frames'[Newest].older = frames[Newest].older,
           frames'[Newest].reportedPop <=> popping \/ frames[Newest].reportedPop
    PROVE  Structure' /\ Watches'
<1> DEFINE n == Len(frames)
<1>1. n \in Nat /\ stack \in Seq(1..n) /\ evals \in Seq(EvaluationTo(n)) /\ stops \in Seq(StopTo(n))
    BY LenProperties DEF Typed
<1>2. /\ Len(stack) \in Nat /\ Len(stops) \in Nat /\ Len(evals) \in Nat
      /\ stack = << >> <=> Len(stack) = 0
      /\ \A i \in 1..Len(stack) : stack[i] \in 1..n
      /\ Newest = stack[Len(stack)]
    BY <1>1, Lengths DEF Newest
<1>3. /\ Len(stops') = Len(stops) + 1
      /\ \A k \in 1..Len(stops) : stops'[k] = stops[k]
      /\ Here' = stops'[Len(stops) + 1]
      /\ Here'.popping = popping
      /\ Here'.top = Null <=> Here'.focus = Null
    BY AskedStops
<1>4. Len(stops) = Len(evals) /\ Prompts'
    BY <1>2, <1>3 DEF Running, Prompts, Asks
<1>5. /\ Base' = Base /\ evals' = evals /\ topFrame' = Newest /\ focusedFrame' = Newest
      /\ watched' = Null
    BY DEF Asks, Base
<1>6. /\ Base \in 0..Len(stack)
      /\ \A k \in 1..Len(evals) : evals[k].base \in 1..Base
    BY Bases DEF Structure
<1>7. StackInOrder'
    BY DEF Structure, StackInOrder, Ascends
<1>8. Nested'
    BY <1>5 DEF Structure, Nested
<1>9. GoesBack'
    <2>1. \A k \in 1..Len(stops') : stops'[k].top = Null <=> stops'[k].focus = Null
        BY <1>2, <1>3 DEF Structure, GoesBack
    <2>2. Newest' = Newest
        BY DEF Newest
    <2> QED
        BY <1>2, <1>3, <1>4, <1>5, <2>1, <2>2 DEF Structure, GoesBack
<1>10. PopsReported'
    <2> SUFFICES ASSUME NEW i \in 1..Len(stack)
                 PROVE  frames'[stack[i]].reportedPop <=> Popping(i)'
        BY DEF PopsReported
    <2>1. Popping(i)' <=> \/ \E k \in 1..Len(evals) : i = evals[k].base /\ stops[k].popping
                          \/ i = Len(stack) /\ popping
        BY <1>2, <1>3, <1>4, <1>5 DEF Popping
    <2>2. frames[stack[i]].reportedPop <=>
              \E k \in 1..Len(evals) : i = evals[k].base /\ stops[k].popping
        BY DEF Structure, PopsReported, Popping, Prompts
    <2>3. CASE i = Len(stack)
        BY <1>2, <1>6, <2>1, <2>2, <2>3
    <2>4. CASE i # Len(stack)
        <3>1. stack[i] # Newest /\ stack[i] \in 1..n
            BY <1>2, <2>4 DEF Structure, StackInOrder, Ascends
        <3> QED
            BY <2>1, <2>2, <2>4, <3>1 DEF Same
    <2> QED
        BY <2>3, <2>4
<1>11. Chained'
    <2>1. \A i \in 1..Len(stack) : frames'[stack[i]].older = frames[stack[i]].older
        BY <1>2 DEF Same
    <2> QED
        BY <1>5, <2>1 DEF Structure, Chained
<1>12. Watches'
    BY <1>5 DEF Watches
<1> QED
    BY <1>7, <1>8, <1>9, <1>10, <1>11, <1>12 DEF Structure

(* Nothing but hooks, lines and the selected frame change.                  *)
LEMMA StayedStructure ==
    ASSUME Typed, Structure, Watches,
           stack' = stack, stops' = stops, evals' = evals, topFrame' = topFrame, watched' = watched,
           topFrame = Null <=> focusedFrame' = Null,
           Len(frames') = Len(frames),
           \A f \in 1..Len(frames) : Same(f) /\ frames'[f].onPop = frames[f].onPop
    PROVE  Structure' /\ Watches'
<1> DEFINE n == Len(frames)
<1>1. n \in Nat /\ stack \in Seq(1..n) /\ evals \in Seq(EvaluationTo(n)) /\ stops \in Seq(StopTo(n))
    BY LenProperties DEF Typed
<1>2. Len(stack) \in Nat /\ \A i \in 1..Len(stack) : stack[i] \in 1..n
    BY <1>1, Lengths
<1>3. /\ Base' = Base /\ (Prompts' <=> Prompts) /\ Newest' = Newest
      /\ Here' = Here
    BY DEF Base, Prompts, Running, Newest, Here
<1>4. /\ \A i \in 1..Len(stack) : /\ frames'[stack[i]].older = frames[stack[i]].older
                                  /\ frames'[stack[i]].reportedPop = frames[stack[i]].reportedPop
                                  /\ frames'[stack[i]].onPop = frames[stack[i]].onPop
    BY <1>2 DEF Same
<1>5. StackInOrder' /\ Nested' /\ GoesBack'
    BY <1>3 DEF Structure, StackInOrder, Ascends, Nested, GoesBack
<1>6. PopsReported'
    <2>1. \A i : Popping(i)' <=> Popping(i)
        BY <1>3 DEF Popping
    <2> QED
        BY <1>4, <2>1 DEF Structure, PopsReported
<1>7. Chained'
    BY <1>4 DEF Structure, Chained
<1>8. Watches'
    <2>1. Prompts' => watched' = Null
        BY <1>3 DEF Watches
    <2>2. ASSUME watched # Null
          PROVE  \E w \in 1..Len(stack) :
                    /\ watched = stack[w]
                    /\ frames'[watched].onPop # NoHook
                    /\ frames'[watched].onPop.kind \in {"step", "next"}
                    /\ \A j \in 1..Len(stack) :
                          j > w /\ j > Base => frames'[stack[j]].onPop = NoHook
        <3>1. PICK w \in 1..Len(stack) :
                    /\ watched = stack[w]
                    /\ frames[watched].onPop # NoHook
                    /\ frames[watched].onPop.kind \in {"step", "next"}
                    /\ \A j \in 1..Len(stack) :
                          j > w /\ j > Base => frames[stack[j]].onPop = NoHook
            BY <2>2 DEF Watches
        <3>2. frames'[watched].onPop = frames[watched].onPop
            BY <1>4, <3>1
        <3> QED
            BY <1>4, <3>1, <3>2
    <2> QED
        BY <1>3, <2>1, <2>2 DEF Watches
<1> QED
    BY <1>5, <1>6, <1>7, <1>8 DEF Structure

(* A frame is entered.                                                      *)
LEMMA PushedStructure ==
    ASSUME Typed, Structure, Watches, Running, Len(stack) > Base \/ Starts,
           Len(frames') = Len(frames) + 1, stack' = Append(stack, Len(frames) + 1),
           \A f \in 1..Len(frames) : Same(f),
           frames'[Len(frames) + 1].older = Caller,
           frames'[Len(frames) + 1].reportedPop = FALSE,
           \/ /\ stops' = stops /\ evals' = evals /\ watched' = watched
              /\ topFrame' = topFrame /\ focusedFrame' = focusedFrame
              /\ frames'[Len(frames) + 1].onPop = NoHook
              /\ \A f \in 1..Len(frames) : frames'[f].onPop = frames[f].onPop
           \/ Asks(Len(frames) + 1, FALSE)
    PROVE  Structure' /\ Watches'
<1> DEFINE n == Len(frames)  l == Len(stack)
<1>1. n \in Nat /\ stack \in Seq(1..n) /\ evals \in Seq(EvaluationTo(n)) /\ stops \in Seq(StopTo(n))
    BY LenProperties DEF Typed
<1>2. /\ l \in Nat /\ Len(stops) \in Nat /\ Len(evals) \in Nat
      /\ evals = << >> <=> Len(evals) = 0
      /\ \A i \in 1..l : stack[i] \in 1..n
      /\ Newest = stack[l]
      /\ Last(evals) = evals[Len(evals)]
    BY <1>1, Lengths DEF Newest
<1>3. Len(stops) = Len(evals) /\ evals' = evals /\ Base' = Base
    BY DEF Running, Asks, Base
<1>4. /\ Base \in 0..l
      /\ \A k \in 1..Len(evals) : evals[k].base \in 1..Base
      /\ evals # << >> => Base = evals[Len(evals)].base
      /\ evals = << >> => Base = 0
    BY Bases DEF Structure
<1>5. /\ Len(stack') = l + 1
      /\ \A i \in 1..l : stack'[i] = stack[i]
      /\ stack'[l + 1] = n + 1
      /\ Newest' = n + 1
    <2>1. stack \in Seq(1..(n + 1)) /\ n + 1 \in 1..(n + 1)
        BY <1>1, Grows
    <2> QED
        BY <2>1, Pushed DEF Newest
<1>6. \A i \in 1..(l + 1) : i \in 1..l \/ i = l + 1
    BY <1>2
<1>7. StackInOrder'
    <2> SUFFICES ASSUME NEW i \in 1..(l + 1), NEW j \in 1..(l + 1), i < j
                 PROVE  stack'[i] < stack'[j]
        BY <1>5 DEF StackInOrder, Ascends
    <2>1. i \in 1..l /\ stack'[i] = stack[i] /\ stack[i] \in 1..n
        BY <1>2, <1>5
    <2> QED
        BY <1>1, <1>5, <1>6, <2>1 DEF Structure, StackInOrder, Ascends
<1>8. \/ /\ stops' = stops /\ ~Prompts' /\ topFrame' = topFrame /\ focusedFrame' = focusedFrame
      \/ /\ Prompts' /\ topFrame' = n + 1 /\ focusedFrame' = n + 1
         /\ Len(stops') = Len(stops) + 1
         /\ \A k \in 1..Len(stops) : stops'[k] = stops[k]
         /\ Here' = stops'[Len(stops) + 1]
         /\ Here'.popping = FALSE
         /\ Here'.top = Null <=> Here'.focus = Null
    <2>1. CASE Asks(n + 1, FALSE)
        <3>1. /\ Len(stops') = Len(stops) + 1
              /\ \A k \in 1..Len(stops) : stops'[k] = stops[k]
              /\ Here' = stops'[Len(stops) + 1]
              /\ Here'.popping = FALSE
              /\ Here'.top = Null <=> Here'.focus = Null
            BY <2>1, AskedStops
        <3> QED
            BY <2>1, <3>1, <1>2, <1>3 DEF Asks, Prompts, Running
    <2> QED
        BY <2>1, <1>3 DEF Prompts, Running
<1>9. Nested'
    <2>1. \A k \in 1..Len(evals) : evals[k].base \in 1..(l + 1)
        BY <1>2, <1>4
    <2> QED
        BY <1>2, <1>3, <1>4, <1>5, <2>1 DEF Structure, Nested
<1>10. GoesBack'
    <2>1. \A k \in 1..Len(evals) : evals[k].base \in 1..l
        BY <1>2, <1>4
    <2>2. \A k \in 1..Len(evals) :
              /\ evals[k].top = stack'[evals[k].base]
              /\ \E j \in 1..evals[k].base : evals[k].focus = stack'[j]
        <3> SUFFICES ASSUME NEW k \in 1..Len(evals)
                     PROVE  /\ evals[k].top = stack'[evals[k].base]
                            /\ \E j \in 1..evals[k].base : evals[k].focus = stack'[j]
            OBVIOUS
        <3>1. evals[k].top = stack[evals[k].base]
            BY DEF Structure, GoesBack
        <3>2. PICK j \in 1..evals[k].base : evals[k].focus = stack[j]
            BY DEF Structure, GoesBack
        <3>3. j \in 1..l
            BY <2>1, <3>2, <1>2
        <3> QED
            BY <2>1, <3>1, <3>2, <3>3, <1>5
    <2>3. \A k \in 1..Len(stops') : stops'[k].top = Null <=> stops'[k].focus = Null
        BY <1>2, <1>8 DEF Structure, GoesBack
    <2>4. /\ Prompts' => topFrame' = Newest'
          /\ topFrame' = Null <=> focusedFrame' = Null
          /\ Len(stops') - Len(evals') \in {0, 1}
        BY <1>2, <1>3, <1>5, <1>8 DEF Structure, GoesBack
    <2> QED
        BY <1>3, <2>2, <2>3, <2>4 DEF GoesBack
<1>11. PopsReported'
    <2>1. \A i : Popping(i)' <=> \E k \in 1..Len(evals) : i = evals[k].base /\ stops[k].popping
        BY <1>2, <1>3, <1>8 DEF Popping
    <2>2. \A i : Popping(i) <=> \E k \in 1..Len(evals) : i = evals[k].base /\ stops[k].popping
        BY DEF Popping, Prompts
    <2> SUFFICES ASSUME NEW i \in 1..(l + 1)
                 PROVE  frames'[stack'[i]].reportedPop <=>
                           \E k \in 1..Len(evals) : i = evals[k].base /\ stops[k].popping
        BY <1>5, <2>1 DEF PopsReported
    <2>4. CASE i = l + 1
        BY <2>4, <1>2, <1>4, <1>5
    <2>5. CASE i \in 1..l
        <3>1. frames[stack[i]].reportedPop <=>
                  \E k \in 1..Len(evals) : i = evals[k].base /\ stops[k].popping
            BY <2>2, <2>5 DEF Structure, PopsReported
        <3> QED
            BY <2>5, <3>1, <1>2, <1>5 DEF Same
    <2> QED
        BY <2>4, <2>5, <1>6
<1>12. Chained'
    <2> SUFFICES ASSUME NEW i \in 1..(l + 1)
                 PROVE  \/ frames'[stack'[i]].older = Null /\ i = 1
                        \/ i > 1 /\ frames'[stack'[i]].older = stack'[i - 1]
                        \/ /\ \E k \in 1..Len(evals) : evals[k].base = i - 1
                           /\ \E j \in 1..(i - 1) : frames'[stack'[i]].older = stack'[j]
        BY <1>3, <1>5 DEF Chained
    <2>1. CASE i \in 1..l
        <3>1. frames'[stack'[i]].older = frames[stack[i]].older
            BY <2>1, <1>2, <1>5 DEF Same
        <3>2. \A j \in 1..(i - 1) : stack'[j] = stack[j]
            BY <2>1, <1>2, <1>5
        <3>3. \/ frames[stack[i]].older = Null /\ i = 1
              \/ i > 1 /\ frames[stack[i]].older = stack[i - 1]
              \/ /\ \E k \in 1..Len(evals) : evals[k].base = i - 1
                 /\ \E j \in 1..(i - 1) : frames[stack[i]].older = stack[j]
            BY <2>1 DEF Structure, Chained
        <3>4. i > 1 => i - 1 \in 1..(i - 1)
            BY <2>1, <1>2
        <3> QED
            BY <3>1, <3>2, <3>3, <3>4
    <2>2. CASE i = l + 1
        <3>1. frames'[stack'[i]].older = Caller
            BY <2>2, <1>5
        <3>2. CASE ~Starts
            BY <2>2, <3>1, <3>2, <1>2, <1>4, <1>5 DEF Caller
        <3>3. CASE Starts /\ evals = << >>
            BY <2>2, <3>1, <3>3, <1>2, <1>4, <1>5 DEF Caller, Starts
        <3>4. CASE Starts /\ evals # << >>
            <4>1. l = Base /\ Caller = evals[Len(evals)].focus /\ Len(evals) \in 1..Len(evals)
                BY <3>4, <1>2 DEF Caller, Starts
            <4>2. PICK j \in 1..evals[Len(evals)].base : evals[Len(evals)].focus = stack[j]
                BY <4>1 DEF Structure, GoesBack
            <4> QED
                BY <2>2, <3>1, <3>4, <4>1, <4>2, <1>2, <1>4, <1>5
        <3> QED
            BY <3>2, <3>3, <3>4
    <2> QED
        BY <2>1, <2>2, <1>6
<1>13. Watches'
    <2>1. CASE Asks(n + 1, FALSE)
        BY <2>1 DEF Asks, Watches
    <2>2. CASE /\ stops' = stops /\ evals' = evals /\ watched' = watched
               /\ frames'[n + 1].onPop = NoHook
               /\ \A f \in 1..n : frames'[f].onPop = frames[f].onPop
        <3>1. ~Prompts'
            BY <2>2, <1>3 DEF Prompts, Running
        <3> SUFFICES ASSUME watched # Null
                     PROVE  \E w \in 1..(l + 1) :
                                /\ watched = stack'[w]
                                /\ frames'[watched].onPop # NoHook
                                /\ frames'[watched].onPop.kind \in {"step", "next"}
                                /\ \A j \in 1..(l + 1) :
                                      j > w /\ j > Base => frames'[stack'[j]].onPop = NoHook
            BY <2>2, <3>1, <1>3, <1>5 DEF Watches
        <3>2. PICK w \in 1..l :
                    /\ watched = stack[w]
                    /\ frames[watched].onPop # NoHook
                    /\ frames[watched].onPop.kind \in {"step", "next"}
                    /\ \A j \in 1..l : j > w /\ j > Base => frames[stack[j]].onPop = NoHook
            BY DEF Watches
        <3>3. frames'[watched].onPop = frames[watched].onPop
            BY <2>2, <3>2, <1>2
        <3>4. \A j \in 1..(l + 1) : j > w /\ j > Base => frames'[stack'[j]].onPop = NoHook
            BY <2>2, <3>2, <1>2, <1>5, <1>6
        <3>5. w \in 1..(l + 1) /\ stack'[w] = stack[w]
            BY <3>2, <1>2, <1>5
        <3> QED
            BY <3>2, <3>3, <3>4, <3>5
    <2> QED
        BY <2>1, <2>2
<1> QED
    BY <1>7, <1>9, <1>10, <1>11, <1>12, <1>13 DEF Structure

LEMMA Fronted ==
    ASSUME NEW S, NEW s \in Seq(S), Len(s) >= 1
    PROVE  /\ Front(s) \in Seq(S)
           /\ Len(Front(s)) = Len(s) - 1
           /\ \A d \in 1..(Len(s) - 1) : Front(s)[d] = s[d] /\ d \in 1..Len(s)
<1>1. s # << >> /\ Len(s) \in Nat
    BY EmptySeq, LenProperties
<1> QED
    BY <1>1, Popped

(* The newest frame is gone, without a prompt.                              *)
LEMMA PoppedStructure ==
    ASSUME Typed, Structure, Watches, Running, Len(stack) > Base,
           stack' = Front(stack), stops' = stops, evals' = evals, watched' = watched,
           topFrame' = Null <=> focusedFrame' = Null,
           Len(frames') = Len(frames),
           \A f \in 1..Len(frames) : f # Newest => Same(f),
           \/ /\ frames[Newest].onPop = NoHook
              /\ \A f \in 1..Len(frames) : frames'[f].onPop = frames[f].onPop
           \/ frames[Newest].onPop # NoHook /\ frames[Newest].onPop.kind \notin {"step", "next"}
    PROVE  Structure' /\ Watches'
<1> DEFINE n == Len(frames)  l == Len(stack)
<1>1. n \in Nat /\ stack \in Seq(1..n) /\ evals \in Seq(EvaluationTo(n)) /\ stops \in Seq(StopTo(n))
    BY LenProperties DEF Typed
<1>2. /\ l \in Nat /\ Len(stops) \in Nat /\ Len(evals) \in Nat
      /\ stack = << >> <=> l = 0
      /\ \A i \in 1..l : stack[i] \in 1..n
      /\ Newest = stack[l]
    BY <1>1, Lengths DEF Newest
<1>3. /\ Base \in 0..l
      /\ \A k \in 1..Len(evals) : evals[k].base \in 1..Base
    BY Bases DEF Structure
<1>4. /\ l >= 1
      /\ Len(stack') = l - 1
      /\ \A i \in 1..(l - 1) : stack'[i] = stack[i] /\ i \in 1..l
    <2>1. l >= 1
        BY <1>2, <1>3
    <2>2. /\ Len(Front(stack)) = l - 1
          /\ \A i \in 1..(l - 1) : Front(stack)[i] = stack[i] /\ i \in 1..l
        BY <2>1, <1>1, Fronted
    <2> QED
        BY <2>1, <2>2
<1>5. ~Prompts /\ ~Prompts' /\ Base' = Base
    BY DEF Prompts, Running, Base
<1>6. \A i, j \in 1..l : i < j => stack[i] < stack[j]
    BY DEF Structure, StackInOrder, Ascends
<1>7. \A i \in 1..(l - 1) : stack[i] # Newest /\ Same(stack[i])
    <2> SUFFICES ASSUME NEW i \in 1..(l - 1)
                 PROVE  stack[i] # Newest
        BY <1>2, <1>4
    <2>1. i \in 1..l /\ l \in 1..l /\ i < l
        <3> HIDE DEF l
        <3> QED
            BY <1>2, <1>4
    <2>2. stack[i] < stack[l] /\ stack[i] \in Int
        BY <2>1, <1>1, <1>2, <1>6
    <2> QED
        BY <2>2, <1>2
<1>8. StackInOrder'
    BY <1>4, <1>6 DEF StackInOrder, Ascends
<1>9. \A k \in 1..Len(evals) : evals[k].base \in 1..(l - 1)
    BY <1>2, <1>3
<1>10. Nested'
    BY <1>4, <1>5, <1>9 DEF Structure, Nested
<1>11. GoesBack'
    <2>1. ASSUME NEW k \in 1..Len(evals)
          PROVE  /\ evals[k].top = stack'[evals[k].base]
                 /\ \E j \in 1..evals[k].base : evals[k].focus = stack'[j]
        <3>1. evals[k].top = stack[evals[k].base]
            BY DEF Structure, GoesBack
        <3>2. PICK j \in 1..evals[k].base : evals[k].focus = stack[j]
            BY DEF Structure, GoesBack
        <3>3. j \in 1..(l - 1)
            BY <1>9, <3>2, <1>2
        <3> QED
            BY <1>9, <3>1, <3>2, <3>3, <1>4
    <2> QED
        BY <1>5, <2>1 DEF Structure, GoesBack
<1>12. PopsReported'
    <2>1. \A i : Popping(i)' <=> \E k \in 1..Len(evals) : i = evals[k].base /\ stops[k].popping
        BY <1>5 DEF Popping
    <2>2. \A i : Popping(i) <=> \E k \in 1..Len(evals) : i = evals[k].base /\ stops[k].popping
        BY <1>5 DEF Popping
    <2> SUFFICES ASSUME NEW i \in 1..(l - 1)
                 PROVE  frames'[stack'[i]].reportedPop <=>
                           \E k \in 1..Len(evals) : i = evals[k].base /\ stops[k].popping
        BY <1>4, <2>1 DEF PopsReported
    <2>3. frames[stack[i]].reportedPop <=>
              \E k \in 1..Len(evals) : i = evals[k].base /\ stops[k].popping
        BY <2>2, <1>4 DEF Structure, PopsReported
    <2> QED
        BY <2>3, <1>4, <1>7 DEF Same
<1>13. Chained'
    <2> SUFFICES ASSUME NEW i \in 1..(l - 1)
                 PROVE  \/ frames'[stack'[i]].older = Null /\ i = 1
                        \/ i > 1 /\ frames'[stack'[i]].older = stack'[i - 1]
                        \/ /\ \E k \in 1..Len(evals) : evals[k].base = i - 1
                           /\ \E j \in 1..(i - 1) : frames'[stack'[i]].older = stack'[j]
        BY <1>4 DEF Chained
    <2>1. frames'[stack'[i]].older = frames[stack[i]].older
        BY <1>4, <1>7 DEF Same
    <2>2. \A j \in 1..(i - 1) : stack'[j] = stack[j]
        <3>1. \A j \in 1..(i - 1) : j \in 1..(l - 1)
            <4> HIDE DEF l
            <4> QED
                BY <1>2, <1>4
        <3> QED
            BY <3>1, <1>4
    <2>3. \/ frames[stack[i]].older = Null /\ i = 1
          \/ i > 1 /\ frames[stack[i]].older = stack[i - 1]
          \/ /\ \E k \in 1..Len(evals) : evals[k].base = i - 1
             /\ \E j \in 1..(i - 1) : frames[stack[i]].older = stack[j]
        BY <1>4 DEF Structure, Chained
    <2>4. i > 1 => i - 1 \in 1..(i - 1)
        BY <1>2
    <2> QED
        BY <2>1, <2>2, <2>3, <2>4
<1>14. Watches'
    <2> SUFFICES ASSUME watched # Null
                 PROVE  \E w \in 1..(l - 1) :
                            /\ watched = stack'[w]
                            /\ frames'[watched].onPop # NoHook
                            /\ frames'[watched].onPop.kind \in {"step", "next"}
                            /\ \A j \in 1..(l - 1) :
                                  j > w /\ j > Base => frames'[stack'[j]].onPop = NoHook
        BY <1>4, <1>5 DEF Watches
    <2>1. PICK w \in 1..l :
                /\ watched = stack[w]
                /\ frames[watched].onPop # NoHook
                /\ frames[watched].onPop.kind \in {"step", "next"}
                /\ \A j \in 1..l : j > w /\ j > Base => frames[stack[j]].onPop = NoHook
        BY DEF Watches
    <2>2. /\ frames[Newest].onPop = NoHook
          /\ \A f \in 1..Len(frames) : frames'[f].onPop = frames[f].onPop
          /\ w # l
        BY <2>1, <1>2, <1>4
    <2>3. w \in 1..(l - 1) /\ watched \in 1..n
        BY <2>1, <2>2, <1>2
    <2>4. \A j \in 1..(l - 1) : j > w /\ j > Base => frames'[stack'[j]].onPop = NoHook
        BY <2>1, <2>2, <1>2, <1>4
    <2> QED
        BY <2>1, <2>2, <2>3, <2>4, <1>4
<1> QED
    BY <1>8, <1>10, <1>11, <1>12, <1>13, <1>14 DEF Structure

(* A command ends the prompt, and its hook returns.                         *)
LEMMA ResumedStructure ==
    ASSUME Typed, Structure, Prompts, Resume,
           Len(frames') = Len(frames),
           \A f \in 1..Len(frames) : Same(f),
           \/ watched' = Null
           \/ /\ watched' = StepFrame
              /\ frames'[StepFrame].onPop # NoHook
              /\ frames'[StepFrame].onPop.kind \in {"step", "next"}
    PROVE  Structure' /\ Watches'
<1> DEFINE n == Len(frames)  l == Len(stack)  m == Len(stack')
<1>1. n \in Nat /\ stack \in Seq(1..n) /\ evals \in Seq(EvaluationTo(n)) /\ stops \in Seq(StopTo(n))
    BY LenProperties DEF Typed
<1>2. /\ l \in Nat /\ Len(stops) \in Nat /\ Len(evals) \in Nat
      /\ stack = << >> <=> l = 0
      /\ \A i \in 1..l : stack[i] \in 1..n
      /\ Newest = stack[l]
      /\ \A k \in 1..Len(stops) : stops[k] \in StopTo(n)
      /\ Here = stops[Len(stops)]
    BY <1>1, Lengths DEF Newest, Here
<1>3. /\ Base \in 0..l
      /\ \A k \in 1..Len(evals) : evals[k].base \in 1..Base
      /\ l > Base
      /\ \A k \in 1..Len(evals) : evals[k].base # l
    <2>1. Base \in 0..l /\ l > Base /\ \A k \in 1..Len(evals) : evals[k].base \in 1..Base
        BY Bases DEF Structure, Nested
    <2>2. l \in Nat
        BY <1>2
    <2>3. Base \in 0..l /\ l > Base
        BY <2>1
    <2>4. \A k \in 1..Len(evals) : evals[k].base \in 1..Base
        BY <2>1
    <2> HIDE DEF l, m, n
    <2>5. Base \in Nat /\ Base < l
        BY <2>2, <2>3
    <2>6. \A k \in 1..Len(evals) : evals[k].base # l
        <3> SUFFICES ASSUME NEW k \in 1..Len(evals)
                     PROVE  evals[k].base # l
            OBVIOUS
        <3>1. evals[k].base \in 1..Base
            BY <2>4
        <3> DEFINE b == evals[k].base
        <3> HIDE DEF b
        <3> SUFFICES b # l
            BY DEF b
        <3>2. b \in 1..Base
            BY <3>1 DEF b
        <3> QED
            BY <3>2, <2>2, <2>5
    <2> QED
        BY <2>3, <2>4, <2>6
<1>4. Len(stops) = Len(evals) + 1
    BY <1>2 DEF Prompts, Running, Structure, GoesBack
<1>5. /\ stops' = Front(stops) /\ evals' = evals
      /\ Len(stops') = Len(evals)
      /\ \A k \in 1..Len(evals) : stops'[k] = stops[k]
      /\ ~Prompts' /\ Base' = Base
    <2>1. /\ Len(Front(stops)) = Len(stops) - 1
          /\ \A k \in 1..(Len(stops) - 1) : Front(stops)[k] = stops[k]
        <3>1. Len(stops) >= 1
            BY <1>2, <1>4
        <3> QED
            BY <1>1, <3>1, Fronted
    <2>2. stops' = Front(stops) /\ evals' = evals
        BY DEF Resume
    <2>3. Len(stops') = Len(evals) /\ \A k \in 1..Len(evals) : stops'[k] = stops[k]
        BY <2>1, <2>2, <1>2, <1>4
    <2> QED
        BY <2>2, <2>3 DEF Prompts, Running, Base
<1>6. Here.popping \in BOOLEAN /\ (Here.top = Null <=> Here.focus = Null)
    <2>1. Len(stops) \in 1..Len(stops)
        BY <1>2, <1>4
    <2> QED
        BY <1>2, <2>1 DEF StopTo, Structure, GoesBack
<1>7. /\ Here.popping => m = l - 1
      /\ ~Here.popping => m = l
      /\ m \in Nat /\ m <= l
      /\ \A i \in 1..m : stack'[i] = stack[i] /\ i \in 1..l
    <2>1. CASE Here.popping
        <3>1. /\ Len(Front(stack)) = l - 1
              /\ \A i \in 1..(l - 1) : Front(stack)[i] = stack[i] /\ i \in 1..l
            BY <1>1, <1>2, <1>3, Fronted
        <3>2. stack' = Front(stack)
            BY <2>1 DEF Resume
        <3>3. m = l - 1
            BY <3>1, <3>2
        <3> HIDE DEF m
        <3> QED
            BY <2>1, <3>1, <3>2, <3>3, <1>2, <1>3
    <2>2. CASE ~Here.popping
        <3>1. stack' = stack
            BY <2>2 DEF Resume
        <3> QED
            BY <2>2, <3>1, <1>2
    <2> QED
        BY <2>1, <2>2
<1> HIDE DEF m
<1>8. /\ \A i \in 1..m : /\ frames'[stack'[i]].older = frames[stack[i]].older
                         /\ frames'[stack'[i]].reportedPop = frames[stack[i]].reportedPop
    BY <1>2, <1>7 DEF Same
<1>9. StackInOrder'
    <2>1. \A i, j \in 1..l : i < j => stack[i] < stack[j]
        BY DEF Structure, StackInOrder, Ascends
    <2> QED
        BY <1>7, <2>1 DEF StackInOrder, Ascends, m
<1>10. \A k \in 1..Len(evals) : evals[k].base \in 1..m
    BY <1>2, <1>3, <1>6, <1>7
<1>11. Nested'
    BY <1>5, <1>10 DEF Structure, Nested, m
<1>12. GoesBack'
    <2>1. ASSUME NEW k \in 1..Len(evals)
          PROVE  /\ evals[k].top = stack'[evals[k].base]
                 /\ \E j \in 1..evals[k].base : evals[k].focus = stack'[j]
        <3>1. evals[k].top = stack[evals[k].base]
            BY DEF Structure, GoesBack
        <3>2. PICK j \in 1..evals[k].base : evals[k].focus = stack[j]
            BY DEF Structure, GoesBack
        <3>3. j \in 1..m
            BY <1>10, <3>2, <1>7
        <3> QED
            BY <1>10, <3>1, <3>2, <3>3, <1>7
    <2>2. topFrame' = Null <=> focusedFrame' = Null
        BY <1>6 DEF Resume, Structure, GoesBack
    <2>3. \A k \in 1..Len(stops') : stops'[k].top = Null <=> stops'[k].focus = Null
        BY <1>2, <1>4, <1>5 DEF Structure, GoesBack
    <2> QED
        BY <1>2, <1>5, <2>1, <2>2, <2>3 DEF GoesBack
<1>13. PopsReported'
    <2>1. \A i : Popping(i)' <=> \E k \in 1..Len(evals) : i = evals[k].base /\ stops[k].popping
        BY <1>5 DEF Popping
    <2>2. \A i : Popping(i) <=> \/ \E k \in 1..Len(evals) : i = evals[k].base /\ stops[k].popping
                                \/ i = l /\ Here.popping
        BY DEF Popping
    <2> SUFFICES ASSUME NEW i \in 1..m
                 PROVE  frames'[stack'[i]].reportedPop <=>
                           \E k \in 1..Len(evals) : i = evals[k].base /\ stops[k].popping
        BY <2>1 DEF PopsReported, m
    <2>3. frames[stack[i]].reportedPop <=>
              \/ \E k \in 1..Len(evals) : i = evals[k].base /\ stops[k].popping
              \/ i = l /\ Here.popping
        BY <2>2, <1>7 DEF Structure, PopsReported
    <2>4. ~(i = l /\ Here.popping)
        BY <1>2, <1>7
    <2> QED
        BY <2>3, <2>4, <1>8
<1>14. Chained'
    <2> SUFFICES ASSUME NEW i \in 1..m
                 PROVE  \/ frames'[stack'[i]].older = Null /\ i = 1
                        \/ i > 1 /\ frames'[stack'[i]].older = stack'[i - 1]
                        \/ /\ \E k \in 1..Len(evals) : evals[k].base = i - 1
                           /\ \E j \in 1..(i - 1) : frames'[stack'[i]].older = stack'[j]
        BY <1>5 DEF Chained, m
    <2>1. frames'[stack'[i]].older = frames[stack[i]].older
        BY <1>8
    <2>2. \A j \in 1..(i - 1) : stack'[j] = stack[j]
        BY <1>2, <1>7
    <2>3. \/ frames[stack[i]].older = Null /\ i = 1
          \/ i > 1 /\ frames[stack[i]].older = stack[i - 1]
          \/ /\ \E k \in 1..Len(evals) : evals[k].base = i - 1
             /\ \E j \in 1..(i - 1) : frames[stack[i]].older = stack[j]
        BY <1>7 DEF Structure, Chained
    <2>4. i > 1 => i - 1 \in 1..(i - 1)
        BY <1>2
    <2> QED
        BY <2>1, <2>2, <2>3, <2>4
<1>15. Watches'
    <2> SUFFICES ASSUME watched' # Null
                 PROVE  \E w \in 1..m :
                            /\ watched' = stack'[w]
                            /\ frames'[watched'].onPop # NoHook
                            /\ frames'[watched'].onPop.kind \in {"step", "next"}
                            /\ \A j \in 1..m :
                                  j > w /\ j > Base => frames'[stack'[j]].onPop = NoHook
        BY <1>5 DEF Watches, m
    <2>1. topFrame = stack[l] /\ l \in 1..l
        BY <1>2, <1>3 DEF Structure, GoesBack
    <2>2. frames[topFrame].reportedPop <=> Here.popping
        <3>1. frames[stack[l]].reportedPop <=>
                \/ \E k \in 1..Len(evals) : l = evals[k].base /\ stops[k].popping
                \/ l = l /\ Here.popping
            BY <2>1 DEF Structure, PopsReported, Popping
        <3> QED
            BY <2>1, <3>1, <1>3
    <2>3. /\ watched' = StepFrame
          /\ frames'[watched'].onPop # NoHook
          /\ frames'[watched'].onPop.kind \in {"step", "next"}
        OBVIOUS
    <2>4. \E w \in 1..m : watched' = stack'[w] /\ (w = m \/ Base >= m)
        <3>1. CASE ~Here.popping
            <4>1. watched' = stack[l] /\ m = l
                BY <2>1, <2>2, <2>3, <3>1, <1>7 DEF StepFrame
            <4> QED
                BY <2>1, <4>1, <1>7
        <3>2. CASE Here.popping
            <4>1. watched' = frames[stack[l]].older /\ m = l - 1
                BY <2>1, <2>2, <2>3, <3>2, <1>7 DEF StepFrame
            <4>2. CASE l > 1 /\ watched' = stack[l - 1]
                BY <4>1, <4>2, <1>2, <1>7
            <4>3. CASE /\ \E k \in 1..Len(evals) : evals[k].base = l - 1
                       /\ \E j \in 1..(l - 1) : watched' = stack[j]
                <5>1. PICK k \in 1..Len(evals) : evals[k].base = l - 1
                    BY <4>3
                <5>2. PICK j \in 1..(l - 1) : watched' = stack[j]
                    BY <4>3
                <5>3. j \in 1..m /\ watched' = stack'[j]
                    BY <4>1, <5>2, <1>7
                <5>4. m \in 1..Base
                    BY <4>1, <5>1, <1>3
                <5> QED
                    BY <5>3, <5>4, <1>3, <1>2
            <4>4. \/ l > 1 /\ watched' = stack[l - 1]
                  \/ /\ \E k \in 1..Len(evals) : evals[k].base = l - 1
                     /\ \E j \in 1..(l - 1) : watched' = stack[j]
                BY <2>1, <4>1 DEF Structure, Chained
            <4> QED
                BY <4>2, <4>3, <4>4
        <3> QED
            BY <3>1, <3>2, <1>6
    <2>5. PICK w \in 1..m : watched' = stack'[w] /\ (w = m \/ Base >= m)
        BY <2>4
    <2>6. \A j \in 1..m : ~(j > w /\ j > Base)
        BY <2>5, <1>2, <1>3, <1>7
    <2> QED
        BY <2>3, <2>5, <2>6
<1> QED
    BY <1>9, <1>11, <1>12, <1>13, <1>14, <1>15 DEF Structure

(* An expression is evaluated in a live frame.                              *)
LEMMA EvaluateStructure ==
    ASSUME Typed, Structure, Watches, Evaluate
    PROVE  Structure' /\ Watches'
<1> DEFINE n == Len(frames)  l == Len(stack)
           e == [top |-> topFrame, focus |-> focusedFrame, base |-> l, entered |-> n]
<1>1. /\ n \in Nat /\ stack \in Seq(1..n) /\ evals \in Seq(EvaluationTo(n)) /\ stops \in Seq(StopTo(n))
      /\ topFrame \in MaybeTo(n) /\ focusedFrame \in MaybeTo(n)
    BY LenProperties DEF Typed
<1>2. /\ l \in Nat /\ Len(stops) \in Nat /\ Len(evals) \in Nat
      /\ Newest = stack[l]
      /\ Here = stops[Len(stops)]
    BY <1>1, Lengths DEF Newest, Here
<1>3. /\ Prompts /\ UNCHANGED <<frames, stack, topFrame, focusedFrame, stops, watched>>
      /\ evals' = Append(evals, e) /\ OnStack(focusedFrame) /\ focusedFrame # Null
    BY DEF Evaluate
<1>4. /\ Base \in 0..l
      /\ \A k \in 1..Len(evals) : evals[k].base \in 1..Base
      /\ l > Base
    BY <1>3, Bases DEF Structure, Nested
<1>5. Len(stops) = Len(evals) + 1
    BY <1>2, <1>3 DEF Prompts, Running, Structure, GoesBack
<1>6. e \in EvaluationTo(n) /\ e.top = topFrame /\ e.focus = focusedFrame /\ e.base = l
    BY <1>1, <1>2 DEF EvaluationTo
<1> HIDE DEF e
<1>7. /\ Len(evals') = Len(evals) + 1
      /\ \A k \in 1..Len(evals) : evals'[k] = evals[k]
      /\ evals'[Len(evals) + 1] = e
    BY <1>1, <1>3, <1>6, Pushed
<1>8. ~Prompts'
    BY <1>2, <1>3, <1>5, <1>7 DEF Prompts, Running
<1>9. /\ \A k \in 1..(Len(evals) + 1) : k \in 1..Len(evals) \/ k = Len(evals) + 1
      /\ 1..Len(evals) \subseteq 1..(Len(evals) + 1) /\ Len(evals) + 1 \in 1..(Len(evals) + 1)
    BY <1>2
<1>10. /\ \A k \in 1..Len(evals) : evals'[k].base = evals[k].base
       /\ evals'[Len(evals) + 1].base = l
    BY <1>6, <1>7
<1>11. StackInOrder'
    BY <1>3 DEF Structure, StackInOrder, Ascends
<1>12. Nested'
    <2>1. l \in 1..l /\ \A k \in 1..Len(evals) : evals[k].base \in 1..l /\ evals[k].base < l
        BY <1>2, <1>4
    <2>2. \A k \in 1..(Len(evals) + 1) : evals'[k].base \in 1..l
        BY <2>1, <1>9, <1>10
    <2>3. \A j, k \in 1..(Len(evals) + 1) : j < k => evals'[j].base < evals'[k].base
        <3> SUFFICES ASSUME NEW j \in 1..(Len(evals) + 1), NEW k \in 1..(Len(evals) + 1), j < k
                     PROVE  evals'[j].base < evals'[k].base
            OBVIOUS
        <3>1. j \in 1..Len(evals)
            BY <1>2
        <3>2. CASE k \in 1..Len(evals)
            BY <3>1, <3>2, <1>10 DEF Structure, Nested
        <3>3. CASE k = Len(evals) + 1
            BY <2>1, <3>1, <3>3, <1>10
        <3> QED
            BY <3>2, <3>3, <1>9
    <2> QED
        BY <2>2, <2>3, <1>3, <1>7, <1>8 DEF Nested
<1>13. GoesBack'
    <2>1. \A k \in 1..Len(evals) :
              /\ evals[k].top = stack[evals[k].base]
              /\ \E j \in 1..evals[k].base : evals[k].focus = stack[j]
        BY DEF Structure, GoesBack
    <2>2. topFrame = stack[l] /\ \E j \in 1..l : focusedFrame = stack[j]
        BY <1>2, <1>3 DEF Structure, GoesBack, OnStack
    <2>3. \A k \in 1..(Len(evals) + 1) :
              /\ evals'[k].top = stack[evals'[k].base]
              /\ \E j \in 1..evals'[k].base : evals'[k].focus = stack[j]
        BY <2>1, <2>2, <1>6, <1>7, <1>9
    <2> QED
        BY <2>3, <1>2, <1>3, <1>5, <1>7, <1>8 DEF Structure, GoesBack
<1>14. PopsReported'
    <2>1. \A i : Popping(i)' <=> \/ \E k \in 1..Len(evals) : i = evals[k].base /\ stops[k].popping
                                 \/ i = l /\ Here.popping
        BY <1>2, <1>3, <1>5, <1>7, <1>8, <1>9, <1>10 DEF Popping
    <2>2. \A i : Popping(i) <=> \/ \E k \in 1..Len(evals) : i = evals[k].base /\ stops[k].popping
                                \/ i = l /\ Here.popping
        BY <1>3 DEF Popping
    <2> QED
        BY <2>1, <2>2, <1>3 DEF Structure, PopsReported
<1>15. Chained'
    <2>1. ASSUME NEW i, \E k \in 1..Len(evals) : evals[k].base = i - 1
          PROVE  \E k \in 1..Len(evals') : evals'[k].base = i - 1
        BY <2>1, <1>7, <1>9, <1>10
    <2> QED
        BY <2>1, <1>3 DEF Structure, Chained
<1>16. Watches'
    BY <1>3 DEF Watches
<1> QED
    BY <1>11, <1>12, <1>13, <1>14, <1>15, <1>16 DEF Structure

(* The evaluation ends, and the prompt that it began at goes on.            *)
LEMMA EvaluatedStructure ==
    ASSUME Typed, Structure, EndEvaluation
    PROVE  Structure' /\ Watches'
<1> DEFINE n == Len(frames)  l == Len(stack)  v == Len(evals)
<1>1. /\ n \in Nat /\ stack \in Seq(1..n) /\ evals \in Seq(EvaluationTo(n)) /\ stops \in Seq(StopTo(n))
    BY LenProperties DEF Typed
<1>2. /\ l \in Nat /\ Len(stops) \in Nat /\ v \in Nat
      /\ evals = << >> <=> v = 0
      /\ \A i \in 1..l : stack[i] \in 1..n
      /\ Newest = stack[l]
      /\ Here = stops[Len(stops)]
      /\ Last(evals) = evals[v]
    BY <1>1, Lengths DEF Newest, Here
<1>3. /\ Running /\ evals # << >> /\ l = Base
      /\ evals' = Front(evals) /\ topFrame' = Last(evals).top /\ focusedFrame' = Last(evals).focus
      /\ watched' = Null /\ UNCHANGED <<frames, stack, stops>>
    BY DEF EndEvaluation, Evaluated
<1>4. /\ \A k \in 1..v : evals[k].base \in 1..Base
      /\ Base = evals[v].base
      /\ \A k \in 1..v : evals[k].base = Base => k = v
    BY <1>3, Bases DEF Structure
<1>5. Len(stops) = v /\ v >= 1
    BY <1>2, <1>3 DEF Running
<1>6. /\ Len(evals') = v - 1
      /\ \A k \in 1..(v - 1) : evals'[k] = evals[k] /\ k \in 1..v
    BY <1>1, <1>3, <1>5, Fronted
<1>7. Prompts'
    BY <1>2, <1>3, <1>5, <1>6 DEF Prompts, Running
<1>8. v \in 1..v /\ \A k \in 1..v : k \in 1..(v - 1) \/ k = v
    <2> HIDE DEF v
    <2> QED
        BY <1>2, <1>5
<1>9. \A k \in 1..(v - 1) : evals[k].base \in 1..l /\ evals[k].base < l
    <2> SUFFICES ASSUME NEW k \in 1..(v - 1)
                 PROVE  evals[k].base \in 1..l /\ evals[k].base < l
        OBVIOUS
    <2>1. k \in 1..v /\ k # v
        BY <1>2, <1>6
    <2>2. evals[k].base \in 1..l /\ evals[k].base # l
        BY <2>1, <1>3, <1>4
    <2> HIDE DEF l
    <2> QED
        BY <2>2, <1>2
<1>10. StackInOrder'
    BY <1>3 DEF Structure, StackInOrder, Ascends
<1>11. Nested'
    <2>1. \A j, k \in 1..(v - 1) : j < k => evals'[j].base < evals'[k].base
        BY <1>6 DEF Structure, Nested
    <2>2. l >= 1
        BY <1>2, <1>3, <1>4, <1>8
    <2>3. Base' < l
        <3>1. evals' \in Seq(EvaluationTo(n))
            BY <1>1, <1>3, <1>5, Fronted
        <3>2. (evals' = << >> <=> Len(evals') = 0) /\ Last(evals') = evals'[Len(evals')]
            BY <3>1, <1>1, Lengths
        <3>3. Base' = IF v - 1 = 0 THEN 0 ELSE evals'[v - 1].base
            BY <3>2, <1>6 DEF Base
        <3>4. CASE v - 1 = 0
            BY <2>2, <3>3, <3>4, <1>2
        <3>5. CASE v - 1 # 0
            <4>1. v - 1 \in 1..(v - 1)
                BY <3>5, <1>2, <1>5
            <4> QED
                BY <3>3, <3>5, <4>1, <1>6, <1>9
        <3> QED
            BY <3>4, <3>5
    <2> QED
        BY <2>1, <2>3, <1>2, <1>3, <1>6, <1>9 DEF Nested
<1>12. GoesBack'
    <2>1. \A k \in 1..v :
              /\ evals[k].top = stack[evals[k].base]
              /\ \E j \in 1..evals[k].base : evals[k].focus = stack[j]
        BY DEF Structure, GoesBack
    <2>2. topFrame' = stack[l] /\ \E j \in 1..l : focusedFrame' = stack[j]
        BY <2>1, <1>2, <1>3, <1>4, <1>8
    <2>3. topFrame' # Null /\ focusedFrame' # Null
        <3>1. l \in 1..l
            BY <1>3, <1>4, <1>8
        <3> QED
            BY <2>2, <3>1, <1>2, <1>1 DEF Null
    <2>4. \A k \in 1..(v - 1) :
              /\ evals'[k].top = stack[evals'[k].base]
              /\ \E j \in 1..evals'[k].base : evals'[k].focus = stack[j]
        <3> SUFFICES ASSUME NEW k \in 1..(v - 1)
                     PROVE  /\ evals'[k].top = stack[evals'[k].base]
                            /\ \E j \in 1..evals'[k].base : evals'[k].focus = stack[j]
            OBVIOUS
        <3>1. evals'[k] = evals[k] /\ k \in 1..v
            BY <1>6
        <3> HIDE DEF v
        <3> QED
            BY <2>1, <3>1
    <2>5. Newest' = stack[l]
        BY <1>2, <1>3 DEF Newest
    <2>6. Len(stops') - Len(evals') \in {0, 1}
        BY <1>2, <1>3, <1>5, <1>6
    <2>7. \A k \in 1..Len(stops') : stops'[k].top = Null <=> stops'[k].focus = Null
        BY <1>3 DEF Structure, GoesBack
    <2> QED
        BY <2>2, <2>3, <2>4, <2>5, <2>6, <2>7, <1>3, <1>6 DEF GoesBack
<1>13. PopsReported'
    <2>1. \A i : Popping(i)' <=> \/ \E k \in 1..(v - 1) : i = evals[k].base /\ stops[k].popping
                                 \/ i = l /\ stops[v].popping
        <3>1. /\ \A k \in 1..Len(evals') : k \in 1..(v - 1) /\ evals'[k] = evals[k]
              /\ 1..Len(evals') = 1..(v - 1)
            BY <1>6
        <3>2. Here' = stops[v]
            BY <1>2, <1>3, <1>5 DEF Here
        <3>3. stops' = stops /\ stack' = stack
            BY <1>3
        <3> HIDE DEF v
        <3> QED
            BY <3>1, <3>2, <3>3, <1>7 DEF Popping
    <2>2. \A i : Popping(i) <=> \E k \in 1..v : i = evals[k].base /\ stops[k].popping
        BY <1>3 DEF Popping, Prompts
    <2>3. evals[v].base = l
        BY <1>3, <1>4
    <2>4. \A i : (\E k \in 1..v : i = evals[k].base /\ stops[k].popping) <=>
                    \/ \E k \in 1..(v - 1) : i = evals[k].base /\ stops[k].popping
                    \/ i = l /\ stops[v].popping
        BY <2>3, <1>6, <1>8
    <2> SUFFICES ASSUME NEW i \in 1..l
                 PROVE  frames[stack[i]].reportedPop <=>
                            \/ \E k \in 1..(v - 1) : i = evals[k].base /\ stops[k].popping
                            \/ i = l /\ stops[v].popping
        BY <2>1, <1>3 DEF PopsReported
    <2>5. frames[stack[i]].reportedPop <=> \E k \in 1..v : i = evals[k].base /\ stops[k].popping
        BY <2>2 DEF Structure, PopsReported
    <2> QED
        BY <2>4, <2>5
<1>14. Chained'
    <2> SUFFICES ASSUME NEW i \in 1..l
                 PROVE  \/ frames[stack[i]].older = Null /\ i = 1
                        \/ i > 1 /\ frames[stack[i]].older = stack[i - 1]
                        \/ /\ \E k \in 1..(v - 1) : evals'[k].base = i - 1
                           /\ \E j \in 1..(i - 1) : frames[stack[i]].older = stack[j]
        BY <1>3, <1>6 DEF Chained
    <2>1. \/ frames[stack[i]].older = Null /\ i = 1
          \/ i > 1 /\ frames[stack[i]].older = stack[i - 1]
          \/ /\ \E k \in 1..v : evals[k].base = i - 1
             /\ \E j \in 1..(i - 1) : frames[stack[i]].older = stack[j]
        BY DEF Structure, Chained
    <2>2. ASSUME NEW k \in 1..v, evals[k].base = i - 1
          PROVE  k \in 1..(v - 1) /\ evals'[k].base = i - 1
        <3>1. k # v
            <4> HIDE DEF l
            <4> QED
                BY <2>2, <1>2, <1>3, <1>4
        <3> QED
            BY <2>2, <3>1, <1>6, <1>8
    <2> QED
        BY <2>1, <2>2
<1>15. Watches'
    BY <1>3 DEF Watches
<1> QED
    BY <1>10, <1>11, <1>12, <1>13, <1>14, <1>15 DEF Structure

-----------------------------------------------------------------------------
(* Every step keeps the invariant, and a new prompt is clean.               *)
Proceeds == DebugInv' /\ (Len(stops') > Len(stops) => NoHooks')

LEMMA HooksTyped ==
    ASSUME Typed
    PROVE  /\ Len(frames) \in Nat
           /\ Hooks \in HooksTo(Len(frames))
           /\ Hooks.frames = frames /\ Hooks.onEnter = onEnter /\ Hooks.cleanups = cleanups
           /\ \A f \in 1..Len(frames) : frames[f] \in FrameTo(Len(frames))
<1>1. Len(frames) \in Nat /\ frames \in [1..Len(frames) -> FrameTo(Len(frames))]
    BY LenProperties DEF Typed
<1> DEFINE n == Len(frames)
<1>2. onEnter \in HookTo(n) /\ cleanups \in Seq(CleanupTo(n))
    BY DEF Typed
<1> HIDE DEF n
<1>3. n \in Nat /\ frames \in [1..n -> FrameTo(n)]
    BY <1>1 DEF n
<1>4. Hooks \in HooksTo(n)
    BY <1>2, <1>3 DEF HooksTo, Hooks
<1> QED
    BY <1>3, <1>4 DEF n, Hooks

LEMMA HooksAre ==
    ASSUME NEW m \in Nat, NEW h \in HooksTo(m), Clears(m, h), SetHooks(h)
    PROVE  /\ Len(frames') = m
           /\ frames' = h.frames
           /\ frames' \in Seq(FrameTo(m))
           /\ onEnter' \in HookTo(m)
           /\ cleanups' \in Seq(CleanupTo(m))
           /\ Clears(Len(frames), Hooks)'
           /\ Hooks' = h
<1>1. /\ h.frames \in [1..m -> FrameTo(m)] /\ h.onEnter \in HookTo(m)
      /\ h.cleanups \in Seq(CleanupTo(m))
      /\ h = [frames |-> h.frames, onEnter |-> h.onEnter, cleanups |-> h.cleanups]
    BY DEF HooksTo
<1>2. frames' = h.frames /\ onEnter' = h.onEnter /\ cleanups' = h.cleanups
    BY DEF SetHooks
<1>3. h.frames \in Seq(FrameTo(m)) /\ Len(h.frames) = m
    BY <1>1, SameLength
<1>4. Hooks' = h
    BY <1>1, <1>2 DEF Hooks
<1>5. Len(frames') = m
    BY <1>2, <1>3
<1>6. Clears(Len(frames'), Hooks')
    BY <1>4, <1>5
<1> QED
    BY <1>1, <1>2, <1>3, <1>4, <1>5, <1>6

LEMMA AskedTyped ==
    ASSUME Typed, NEW m \in Nat, Len(frames) <= m, NEW f \in 1..m, NEW popping, Asks(f, popping)
    PROVE  /\ topFrame' \in MaybeTo(m) /\ focusedFrame' \in MaybeTo(m)
           /\ stops' \in Seq(StopTo(m)) /\ evals' \in Seq(EvaluationTo(m))
           /\ watched' \in MaybeTo(m)
<1>1. /\ stops \in Seq(StopTo(Len(frames))) /\ evals \in Seq(EvaluationTo(Len(frames)))
      /\ Len(frames) \in Nat
    BY HooksTyped DEF Typed
<1>2. PICK s \in StopTo(Len(frames)) : stops' = Append(stops, s)
    BY DEF Asks
<1>3. stops' \in Seq(StopTo(Len(frames)))
    BY <1>1, <1>2, Pushed
<1>4. stops' \in Seq(StopTo(m)) /\ evals' \in Seq(EvaluationTo(m))
    BY <1>1, <1>3, Grows DEF Asks
<1>5. topFrame' = f /\ focusedFrame' = f /\ watched' = Null
    BY DEF Asks
<1>6. f \in MaybeTo(m) /\ Null \in MaybeTo(m)
    BY Ranges
<1> QED
    BY <1>4, <1>5, <1>6

LEMMA ReplAsks ==
    ASSUME Typed, GoesBack, NEW m \in Nat, Len(frames) <= m, NEW h \in HooksTo(m), Clears(m, h),
           NEW f \in 1..m, NEW excursion \in BOOLEAN, NEW popping \in BOOLEAN,
           Repl(f, h, excursion, popping), stack' \in Seq(1..m)
    PROVE  /\ Typed' /\ Clears(Len(frames), Hooks)' /\ NoHooks'
           /\ Asks(f, popping)
           /\ Len(frames') = m
           /\ \A g \in 1..m : /\ frames'[g].older = h.frames[g].older
                              /\ frames'[g].reportedPop = h.frames[g].reportedPop
<1> DEFINE c == CleanedUp(h)
           s == [excursion |-> excursion, top |-> topFrame, focus |-> focusedFrame,
                 popping |-> popping]
<1>1. /\ c \in HooksTo(m) /\ Clears(m, c) /\ NoneIn(m, c)
      /\ \A g \in 1..m : /\ c.frames[g].older = h.frames[g].older
                         /\ c.frames[g].reportedPop = h.frames[g].reportedPop
    BY CleanedKeeps
<1>2. /\ SetHooks(c) /\ topFrame' = f /\ focusedFrame' = f /\ watched' = Null /\ evals' = evals
      /\ stops' = Append(stops, s)
    BY DEF Repl
<1> HIDE DEF c
<1>3. /\ Len(frames') = m /\ frames' = c.frames /\ frames' \in Seq(FrameTo(m))
      /\ onEnter' \in HookTo(m) /\ cleanups' \in Seq(CleanupTo(m))
      /\ Clears(Len(frames), Hooks)' /\ Hooks' = c
    BY <1>1, <1>2, HooksAre
<1>4. /\ s \in StopTo(Len(frames))
      /\ s.popping = popping
      /\ s.top = Null <=> s.focus = Null
    BY DEF Typed, StopTo, GoesBack
<1> HIDE DEF s
<1>5. Asks(f, popping)
    BY <1>2, <1>4 DEF Asks
<1>6. Typed'
    BY <1>3, <1>5, AskedTyped DEF Typed
<1>7. NoHooks'
    <2>1. onEnter' = c.onEnter
        BY <1>2 DEF SetHooks
    <2> QED
        BY <1>1, <1>3, <2>1 DEF NoHooks, NoneIn, FrameId
<1> QED
    BY <1>1, <1>3, <1>5, <1>6, <1>7

LEMMA NoNewStop ==
    ASSUME Typed, stops' = stops
    PROVE  ~(Len(stops') > Len(stops))
<1>1. Len(stops) \in Nat
    BY LenProperties DEF Typed
<1> QED
    BY <1>1

LEMMA GoesOnTyped ==
    ASSUME Typed, NEW m \in Nat, Len(frames) <= m, NEW h \in HooksTo(m), Clears(m, h),
           GoesOn(h), stack' \in Seq(1..m)
    PROVE  /\ Typed' /\ Clears(Len(frames), Hooks)'
           /\ Len(frames') = m /\ frames' = h.frames
           /\ stops' = stops /\ evals' = evals /\ watched' = watched
           /\ topFrame' = topFrame /\ focusedFrame' = focusedFrame
<1>1. SetHooks(h) /\ UNCHANGED <<topFrame, focusedFrame, stops, evals, watched>>
    BY DEF GoesOn
<1>2. /\ Len(frames') = m /\ frames' = h.frames /\ frames' \in Seq(FrameTo(m))
      /\ onEnter' \in HookTo(m) /\ cleanups' \in Seq(CleanupTo(m))
      /\ Clears(Len(frames), Hooks)'
    BY <1>1, HooksAre
<1>3. /\ topFrame \in MaybeTo(m) /\ focusedFrame \in MaybeTo(m) /\ watched \in MaybeTo(m)
      /\ stops \in Seq(StopTo(m)) /\ evals \in Seq(EvaluationTo(m))
    BY HooksTyped, Grows DEF Typed
<1> QED
    BY <1>1, <1>2, <1>3 DEF Typed

LEMMA FirstLineIs == FirstLine \in Lines
BY LinesAssumption, Zenon DEF FirstLine

LEMMA DebugInit ==
    ASSUME Init
    PROVE  DebugInv
<1> DEFINE first == [fn |-> "initial", kind |-> "initial", start |-> Null,
                     line |-> FirstLine, stop |-> FirstLine]
           c == [obj |-> Null, prop |-> "onEnter", saved |-> NoHook]
<1>1. /\ frames = << >> /\ stack = << >> /\ onEnter = first /\ cleanups = <<c>>
      /\ topFrame = Null /\ focusedFrame = Null /\ stops = << >> /\ evals = << >> /\ watched = Null
    BY DEF Init
<1>2. first \in HookTo(0) /\ c \in CleanupTo(0) /\ NoHook \in HookTo(0) /\ Null \in MaybeTo(0)
    BY FirstLineIs DEF HookTo, CleanupTo, MaybeTo
<1>3. c.obj = Null /\ c.prop = "onEnter" /\ c.saved = NoHook
    OBVIOUS
<1> HIDE DEF first, c
<1>4. Len(frames) = 0 /\ Len(stack) = 0 /\ Len(stops) = 0 /\ Len(evals) = 0
    BY <1>1, EmptySeq
<1>5. cleanups \in Seq(CleanupTo(0)) /\ Len(cleanups) = 1 /\ cleanups[1] = c
    BY <1>1, <1>2
<1>6. Typed
    <2>1. /\ << >> \in Seq(FrameTo(0)) /\ << >> \in Seq(1..0) /\ << >> \in Seq(StopTo(0))
          /\ << >> \in Seq(EvaluationTo(0))
        BY EmptySeq
    <2> QED
        BY <1>1, <1>2, <1>4, <1>5, <2>1 DEF Typed
<1>7. Clears(Len(frames), Hooks)
    <2> SUFFICES ASSUME NEW o \in MaybeTo(0), NEW p \in {"onEnter", "onStep", "onPop"}, Fits(0, o, p)
                 PROVE  Clear(Hooks, o, p)
        BY <1>4 DEF Clears
    <2>1. o = Null /\ p = "onEnter"
        BY DEF Fits, MaybeTo
    <2>2. Hooks.cleanups = cleanups
        BY DEF Hooks
    <2>3. Concern(Hooks, o, p) = {1}
        <3>1. Concern(Hooks, o, p) =
                  {k \in 1..1 : cleanups[k].obj = Null /\ cleanups[k].prop = "onEnter"}
            BY <1>5, <2>1, <2>2 DEF Concern
        <3>2. cleanups[1].obj = Null /\ cleanups[1].prop = "onEnter"
            BY <1>3, <1>5
        <3>3. \A k \in 1..1 : k = 1
            OBVIOUS
        <3> QED
            BY <3>1, <3>2, <3>3
    <2> QED
        BY <1>3, <1>5, <2>2, <2>3 DEF Clear
<1>8. ~Prompts
    BY <1>4 DEF Prompts, Running
<1>9. StackInOrder /\ Nested /\ GoesBack /\ PopsReported /\ Chained /\ Watches
    BY <1>1, <1>4, <1>8
    DEF StackInOrder, Ascends, Nested, GoesBack, PopsReported, Chained, Watches
<1> QED
    BY <1>6, <1>7, <1>9 DEF DebugInv, Structure

(* The live frames, and the newest of them.                                 *)
LEMMA NewestIs ==
    ASSUME Typed, Len(stack) > Base, Nested
    PROVE  /\ Newest \in 1..Len(frames)
           /\ stack \in Seq(1..Len(frames))
           /\ Front(stack) \in Seq(1..Len(frames))
           /\ Newest = stack[Len(stack)] /\ Len(stack) \in 1..Len(stack)
<1>1. Base \in 0..Len(stack)
    BY Bases
<1>2. Len(frames) \in Nat /\ stack \in Seq(1..Len(frames))
    BY HooksTyped DEF Typed
<1>3. Len(stack) >= 1 /\ Len(stack) \in 1..Len(stack)
    BY <1>1, <1>2, LenProperties
<1>4. Front(stack) \in Seq(1..Len(frames))
    BY <1>2, <1>3, Fronted
<1>5. Newest = stack[Len(stack)]
    BY DEF Newest, Last
<1> QED
    BY <1>2, <1>3, <1>4, <1>5, ElementOfSeq

LEMMA EnterStep ==
    ASSUME DebugInv, NEW line \in Lines, Enter(line)
    PROVE  Proceeds
<1> DEFINE n == Len(frames)  f == n + 1
           new == [older |-> Caller, line |-> line, younger |-> Null,
                   reportedPop |-> FALSE, leaving |-> FALSE,
                   onStep |-> NoHook, onPop |-> NoHook]
           h == [Hooks EXCEPT !.frames = Append(@, new)]
           c == [onEnter EXCEPT !.fn = "stepped"]
<1>1. Typed /\ Structure /\ Nested /\ GoesBack /\ Watches
    BY DEF DebugInv, Structure
<1>2. /\ n \in Nat /\ Hooks \in HooksTo(n)
      /\ Hooks.frames = frames /\ Hooks.onEnter = onEnter /\ Hooks.cleanups = cleanups
      /\ frames \in Seq(FrameTo(n)) /\ onEnter \in HookTo(n) /\ cleanups \in Seq(CleanupTo(n))
      /\ evals \in Seq(EvaluationTo(n)) /\ stops \in Seq(StopTo(n)) /\ stack \in Seq(1..n)
    BY <1>1, HooksTyped DEF Typed
<1>3. Running /\ (Len(stack) > Base \/ Starts)
    BY DEF Enter, InFrame, InCode
<1>4. Caller \in MaybeTo(n)
    <2>1. Len(stack) > Base => Newest \in 1..n
        BY <1>1, NewestIs
    <2>2. evals # << >> => Last(evals).focus \in MaybeTo(n)
        <3>1. evals # << >> => Last(evals) \in EvaluationTo(n)
            BY <1>2, Popped
        <3> QED
            BY <3>1 DEF EvaluationTo
    <2> QED
        BY <1>2, <1>3, <2>1, <2>2, Ranges DEF Caller
<1>5. /\ n <= f /\ f \in 1..f /\ f \in Nat
      /\ FrameTo(n) \subseteq FrameTo(f) /\ HookTo(n) \subseteq HookTo(f)
      /\ MaybeTo(n) \subseteq MaybeTo(f) /\ cleanups \in Seq(CleanupTo(f))
    BY <1>2, Grows
<1>6. /\ new \in FrameTo(f) /\ new.older = Caller /\ new.reportedPop = FALSE
      /\ new.onStep = NoHook /\ new.onPop = NoHook
    BY <1>2, <1>4, <1>5, Ranges DEF FrameTo
<1> HIDE DEF new
<1>7. /\ h.frames = Append(frames, new) /\ h.onEnter = onEnter /\ h.cleanups = cleanups
      /\ h = [frames |-> h.frames, onEnter |-> h.onEnter, cleanups |-> h.cleanups]
    <2> DEFINE fs == Append(frames, new)
    <2>1. h = [Hooks EXCEPT !.frames = fs]
        BY <1>2
    <2> HIDE DEF fs, h
    <2>2. h.frames = fs /\ h.onEnter = onEnter /\ h.cleanups = cleanups
            /\ h = [frames |-> h.frames, onEnter |-> h.onEnter, cleanups |-> h.cleanups]
        BY <2>1 DEF Hooks
    <2> QED
        BY <2>2 DEF fs
<1> HIDE DEF h
<1>8. /\ h.frames \in [1..f -> FrameTo(f)]
      /\ \A g \in 1..n : h.frames[g] = frames[g]
      /\ h.frames[f] = new
    <2>1. frames \in Seq(FrameTo(f))
        BY <1>2, <1>5, SeqMonotonic
    <2>2. /\ Append(frames, new) \in Seq(FrameTo(f)) /\ Len(Append(frames, new)) = f
          /\ \A g \in 1..n : Append(frames, new)[g] = frames[g]
          /\ Append(frames, new)[f] = new
        BY <2>1, <1>6, Pushed
    <2> QED
        BY <2>2, <1>7, LenProperties
<1>9. h \in HooksTo(f)
    BY <1>2, <1>5, <1>7, <1>8 DEF HooksTo
<1>10. Clears(f, h)
    <2>1. \A g \in (n + 1)..f : h.frames[g].onStep = NoHook /\ h.frames[g].onPop = NoHook
        BY <1>2, <1>6, <1>8
    <2>2. Clears(n, Hooks)
        BY DEF DebugInv
    <2>3. \A g \in 1..n : /\ h.frames[g].onStep = Hooks.frames[g].onStep
                          /\ h.frames[g].onPop = Hooks.frames[g].onPop
        BY <1>2, <1>8
    <2> HIDE DEF f
    <2> QED
        BY <2>1, <2>2, <2>3, <1>2, <1>5, <1>7, <1>9, StillClears
<1>11. stack' = Append(stack, f) /\ stack' \in Seq(1..f)
    <2>1. stack \in Seq(1..f)
        BY <1>2, <1>5, Grows
    <2> QED
        BY <2>1, <1>5, Pushed DEF Enter
<1>12. \/ GoesOn(h)
       \/ /\ onEnter # NoHook /\ onEnter.kind = "until"
          /\ GoesOn(SetUntilRepl(h, f, "onStep", c))
       \/ Repl(f, h, FALSE, FALSE)
    BY DEF Enter, h, new
<1>13. CASE GoesOn(h)
    <2>1. /\ Typed' /\ Clears(Len(frames), Hooks)'
          /\ Len(frames') = f /\ frames' = h.frames
          /\ stops' = stops /\ evals' = evals /\ watched' = watched
          /\ topFrame' = topFrame /\ focusedFrame' = focusedFrame
        BY <1>1, <1>5, <1>9, <1>10, <1>11, <1>13, GoesOnTyped
    <2>2. Structure' /\ Watches'
        BY <1>1, <1>3, <1>6, <1>8, <1>11, <2>1, PushedStructure DEF Same
    <2> QED
        BY <1>1, <2>1, <2>2, NoNewStop DEF Proceeds, DebugInv
<1>14. CASE /\ onEnter # NoHook /\ onEnter.kind = "until"
            /\ GoesOn(SetUntilRepl(h, f, "onStep", c))
    <2> DEFINE k == SetUntilRepl(h, f, "onStep", c)
    <2>1. c \in HookTo(f)
        <3>1. c \in HookTo(n)
            BY <1>2, <1>14 DEF HookTo
        <3> QED
            BY <3>1, <1>5
    <2>2. f \in MaybeTo(f) /\ Fits(f, f, "onStep")
        BY <1>5, Ranges DEF Fits
    <2> HIDE DEF c
    <2>3. /\ k \in HooksTo(f) /\ Clears(f, k)
          /\ \A g \in 1..f : /\ k.frames[g].older = h.frames[g].older
                             /\ k.frames[g].reportedPop = h.frames[g].reportedPop
                             /\ k.frames[g].onPop = h.frames[g].onPop
        BY <1>5, <1>9, <1>10, <2>1, <2>2, SetKeeps
    <2>4. GoesOn(k)
        BY <1>14
    <2> HIDE DEF k
    <2>5. /\ Typed' /\ Clears(Len(frames), Hooks)'
          /\ Len(frames') = f /\ frames' = k.frames
          /\ stops' = stops /\ evals' = evals /\ watched' = watched
          /\ topFrame' = topFrame /\ focusedFrame' = focusedFrame
        BY <1>1, <1>5, <1>11, <2>3, <2>4, GoesOnTyped
    <2>6. /\ \A g \in 1..n : /\ frames'[g].older = frames[g].older
                             /\ frames'[g].reportedPop = frames[g].reportedPop
                             /\ frames'[g].onPop = frames[g].onPop
          /\ frames'[f].older = Caller /\ frames'[f].reportedPop = FALSE
          /\ frames'[f].onPop = NoHook
        <3>1. \A g \in 1..n : g \in 1..f
            BY <1>2
        <3> QED
            BY <3>1, <2>3, <2>5, <1>5, <1>6, <1>8
    <2>7. Structure' /\ Watches'
        BY <1>1, <1>3, <1>11, <2>5, <2>6, PushedStructure DEF Same
    <2> QED
        BY <1>1, <2>5, <2>7, NoNewStop DEF Proceeds, DebugInv
<1>15. CASE Repl(f, h, FALSE, FALSE)
    <2>1. /\ Typed' /\ Clears(Len(frames), Hooks)' /\ NoHooks'
          /\ Asks(f, FALSE)
          /\ Len(frames') = f
          /\ \A g \in 1..f : /\ frames'[g].older = h.frames[g].older
                             /\ frames'[g].reportedPop = h.frames[g].reportedPop
        BY <1>1, <1>5, <1>9, <1>10, <1>11, <1>15, ReplAsks
    <2>2. /\ \A g \in 1..n : /\ frames'[g].older = frames[g].older
                             /\ frames'[g].reportedPop = frames[g].reportedPop
          /\ frames'[f].older = Caller /\ frames'[f].reportedPop = FALSE
        <3>1. \A g \in 1..n : g \in 1..f
            BY <1>2
        <3> QED
            BY <3>1, <2>1, <1>5, <1>6, <1>8
    <2>3. Structure' /\ Watches'
        BY <1>1, <1>3, <1>11, <2>1, <2>2, PushedStructure DEF Same
    <2> QED
        BY <2>1, <2>3 DEF Proceeds, DebugInv
<1> QED
    BY <1>12, <1>13, <1>14, <1>15

(* One frame is changed, and its hooks are not.                             *)
WithFrame(h, f, g) == [h EXCEPT !.frames = [h.frames EXCEPT ![f] = g]]

LEMMA FieldKeeps ==
    ASSUME NEW n \in Nat, NEW h \in HooksTo(n), Clears(n, h), NEW f \in 1..n, NEW g \in FrameTo(n),
           g.onStep = h.frames[f].onStep, g.onPop = h.frames[f].onPop
    PROVE  /\ WithFrame(h, f, g) \in HooksTo(n) /\ Clears(n, WithFrame(h, f, g))
           /\ WithFrame(h, f, g).frames[f] = g
           /\ \A e \in 1..n : e # f => WithFrame(h, f, g).frames[e] = h.frames[e]
<1>1. h.frames \in [1..n -> FrameTo(n)]
        /\ h = [frames |-> h.frames, onEnter |-> h.onEnter, cleanups |-> h.cleanups]
    BY DEF HooksTo
<1> DEFINE fs == [h.frames EXCEPT ![f] = g]  k == WithFrame(h, f, g)
<1>2. fs \in [1..n -> FrameTo(n)] /\ \A e \in 1..n : fs[e] = IF e = f THEN g ELSE h.frames[e]
    BY <1>1
<1>3. k = [h EXCEPT !.frames = fs]
    BY DEF WithFrame
<1> HIDE DEF fs, k
<1>4. k \in HooksTo(n) /\ k.frames = fs /\ k.onEnter = h.onEnter /\ k.cleanups = h.cleanups
    BY <1>1, <1>2, <1>3 DEF HooksTo
<1>5. \A e \in 1..n : k.frames[e].onStep = h.frames[e].onStep /\ k.frames[e].onPop = h.frames[e].onPop
    BY <1>2, <1>4
<1>6. Clears(n, k)
    <2>1. n <= n /\ \A e \in (n + 1)..n : k.frames[e].onStep = NoHook /\ k.frames[e].onPop = NoHook
        OBVIOUS
    <2> QED
        BY <2>1, <1>4, <1>5, StillClears
<1> QED
    BY <1>2, <1>4, <1>6 DEF k

LEMMA ReplHere ==
    ASSUME Typed, GoesBack, NEW h \in HooksTo(Len(frames)), Clears(Len(frames), h),
           NEW f \in 1..Len(frames), NEW excursion \in BOOLEAN, NEW popping \in BOOLEAN,
           Repl(f, h, excursion, popping), stack' = stack
    PROVE  /\ Typed' /\ Clears(Len(frames), Hooks)' /\ NoHooks'
           /\ Asks(f, popping)
           /\ Len(frames') = Len(frames)
           /\ \A g \in 1..Len(frames) : /\ frames'[g].older = h.frames[g].older
                                       /\ frames'[g].reportedPop = h.frames[g].reportedPop
<1>1. Len(frames) \in Nat /\ Len(frames) <= Len(frames) /\ stack' \in Seq(1..Len(frames))
    BY HooksTyped DEF Typed
<1> QED
    BY <1>1, ReplAsks

LEMMA StepToStep ==
    ASSUME DebugInv, NEW line \in Lines, StepTo(line)
    PROVE  Proceeds
<1> DEFINE n == Len(frames)  f == Newest
           h == [Hooks EXCEPT !.frames[f].line = line]
           g == [frames[f] EXCEPT !.line = line]
<1>1. /\ Typed /\ Structure /\ Nested /\ GoesBack /\ Watches
      /\ Running /\ Len(stack) > Base /\ stack' = stack
    BY DEF DebugInv, Structure, StepTo, InFrame, InCode
<1>2. /\ n \in Nat /\ Hooks \in HooksTo(n)
      /\ Hooks.frames = frames /\ frames[f] \in FrameTo(n)
      /\ f \in 1..n /\ stack \in Seq(1..n)
    BY <1>1, HooksTyped, NewestIs
<1>3. /\ g \in FrameTo(n) /\ g.onStep = frames[f].onStep /\ g.onPop = frames[f].onPop
      /\ g.older = frames[f].older /\ g.reportedPop = frames[f].reportedPop
    BY <1>2 DEF FrameTo
<1>4. h = WithFrame(Hooks, f, g)
    BY <1>2 DEF WithFrame
<1>5. Repl(f, h, FALSE, FALSE) \/ GoesOn(h)
    BY DEF StepTo
<1> HIDE DEF n, f, g, h
<1>6. /\ h \in HooksTo(n) /\ Clears(n, h)
      /\ \A e \in 1..n : /\ h.frames[e].older = frames[e].older
                         /\ h.frames[e].reportedPop = frames[e].reportedPop
                         /\ h.frames[e].onPop = frames[e].onPop
    <2>1. Clears(n, Hooks)
        BY DEF DebugInv, n
    <2>2. g.onStep = Hooks.frames[f].onStep /\ g.onPop = Hooks.frames[f].onPop
        BY <1>2, <1>3
    <2>3. /\ h \in HooksTo(n) /\ Clears(n, h) /\ h.frames[f] = g
          /\ \A e \in 1..n : e # f => h.frames[e] = Hooks.frames[e]
        <3>1. n \in Nat /\ Hooks \in HooksTo(n) /\ f \in 1..n /\ g \in FrameTo(n)
            BY <1>2, <1>3
        <3> QED
            BY <3>1, <2>1, <2>2, <1>4, FieldKeeps
    <2> QED
        BY <2>3, <1>2, <1>3
<1>7. CASE Repl(f, h, FALSE, FALSE)
    <2>1. /\ Typed' /\ Clears(Len(frames), Hooks)' /\ NoHooks'
          /\ Asks(f, FALSE) /\ Len(frames') = n
          /\ \A e \in 1..n : /\ frames'[e].older = h.frames[e].older
                             /\ frames'[e].reportedPop = h.frames[e].reportedPop
        BY <1>1, <1>2, <1>6, <1>7, ReplHere DEF n
    <2>2. Structure' /\ Watches'
        BY <1>1, <1>2, <1>6, <2>1, AskedStructure DEF Same, n, f
    <2> QED
        BY <2>1, <2>2 DEF Proceeds, DebugInv
<1>8. CASE GoesOn(h)
    <2>1. /\ Typed' /\ Clears(Len(frames), Hooks)'
          /\ Len(frames') = n /\ frames' = h.frames
          /\ stops' = stops /\ evals' = evals /\ watched' = watched
          /\ topFrame' = topFrame /\ focusedFrame' = focusedFrame
        BY <1>1, <1>2, <1>6, <1>8, GoesOnTyped DEF n
    <2>2. Structure' /\ Watches'
        BY <1>1, <1>6, <2>1, StayedStructure DEF Same, n, GoesBack
    <2> QED
        BY <1>1, <2>1, <2>2, NoNewStop DEF Proceeds, DebugInv
<1> QED
    BY <1>5, <1>7, <1>8

LEMMA BreakStep ==
    ASSUME DebugInv, Break
    PROVE  Proceeds
<1> DEFINE n == Len(frames)
<1>1. /\ Typed /\ Clears(n, Hooks) /\ Structure /\ Nested /\ GoesBack
      /\ Running /\ Len(stack) > Base /\ stack' = stack
      /\ Repl(Newest, Hooks, TRUE, FALSE)
    BY DEF DebugInv, Structure, Break, InFrame, InCode
<1>2. /\ n \in Nat /\ Hooks \in HooksTo(n) /\ Hooks.frames = frames
      /\ Newest \in 1..n /\ stack \in Seq(1..n)
    BY <1>1, HooksTyped, NewestIs
<1>3. /\ Typed' /\ Clears(Len(frames), Hooks)' /\ NoHooks'
      /\ Asks(Newest, FALSE) /\ Len(frames') = n
      /\ \A e \in 1..n : /\ frames'[e].older = frames[e].older
                         /\ frames'[e].reportedPop = frames[e].reportedPop
    BY <1>1, <1>2, ReplHere
<1>4. Structure' /\ Watches'
    BY <1>1, <1>2, <1>3, AskedStructure DEF Same
<1> QED
    BY <1>3, <1>4 DEF Proceeds, DebugInv

LEMMA PopSilentlyStep ==
    ASSUME DebugInv, PopSilently
    PROVE  Proceeds
<1> DEFINE n == Len(frames)
<1>1. /\ Typed /\ Clears(n, Hooks) /\ Structure /\ Nested /\ GoesBack /\ Watches
      /\ Running /\ Len(stack) > Base /\ stack' = Front(stack)
      /\ frames[Newest].onPop = NoHook /\ GoesOn(Hooks)
    BY DEF DebugInv, Structure, PopSilently, InCode
<1>2. /\ n \in Nat /\ Hooks \in HooksTo(n) /\ Hooks.frames = frames
      /\ stack' \in Seq(1..n)
    BY <1>1, HooksTyped, NewestIs
<1>3. /\ Typed' /\ Clears(Len(frames), Hooks)'
      /\ Len(frames') = n /\ frames' = frames
      /\ stops' = stops /\ evals' = evals /\ watched' = watched
      /\ topFrame' = topFrame /\ focusedFrame' = focusedFrame
    BY <1>1, <1>2, GoesOnTyped
<1>4. Structure' /\ Watches'
    BY <1>1, <1>3, PoppedStructure DEF Same, GoesBack
<1> QED
    BY <1>1, <1>3, <1>4, NoNewStop DEF Proceeds, DebugInv

LEMMA ReportedKeeps ==
    ASSUME Typed, Nested, Clears(Len(frames), Hooks), Len(stack) > Base
    PROVE  /\ Reported(Hooks) \in HooksTo(Len(frames)) /\ Clears(Len(frames), Reported(Hooks))
           /\ \A e \in 1..Len(frames) :
                 /\ Reported(Hooks).frames[e].older = frames[e].older
                 /\ Reported(Hooks).frames[e].reportedPop =
                        IF e = Newest THEN TRUE ELSE frames[e].reportedPop
<1> DEFINE n == Len(frames)  f == Newest
           h == Reported(Hooks)
           g == [frames[f] EXCEPT !.reportedPop = TRUE]
<1>1. /\ n \in Nat /\ Hooks \in HooksTo(n)
      /\ Hooks.frames = frames /\ frames[f] \in FrameTo(n)
      /\ f \in 1..n
    BY HooksTyped, NewestIs
<1>2. /\ g \in FrameTo(n) /\ g.onStep = frames[f].onStep /\ g.onPop = frames[f].onPop
      /\ g.older = frames[f].older /\ g.reportedPop = TRUE
    BY <1>1 DEF FrameTo
<1>3. h = WithFrame(Hooks, f, g)
    BY <1>1 DEF Reported, WithFrame
<1>4. Clears(n, Hooks)
    OBVIOUS
<1> HIDE DEF n, f, g, h
<1>5. /\ h \in HooksTo(n) /\ Clears(n, h) /\ h.frames[f] = g
      /\ \A e \in 1..n : e # f => h.frames[e] = frames[e]
    BY <1>1, <1>2, <1>3, <1>4, FieldKeeps
<1>6. \A e \in 1..n : /\ h.frames[e].older = frames[e].older
                      /\ h.frames[e].reportedPop = IF e = f THEN TRUE ELSE frames[e].reportedPop
    BY <1>2, <1>5
<1> QED
    BY <1>5, <1>6 DEF n, f, h

LEMMA PopPromptsStep ==
    ASSUME DebugInv, PopPrompts
    PROVE  Proceeds
<1> DEFINE n == Len(frames)  h == Reported(Hooks)
<1>1. /\ Typed /\ Clears(n, Hooks) /\ Structure /\ Nested /\ GoesBack
      /\ Running /\ Len(stack) > Base /\ stack' = stack
      /\ Repl(Newest, h, FALSE, TRUE)
    BY DEF DebugInv, Structure, PopPrompts, InCode
<1>2. n \in Nat /\ Newest \in 1..n /\ stack \in Seq(1..n)
    BY <1>1, HooksTyped, NewestIs
<1>3. /\ h \in HooksTo(n) /\ Clears(n, h)
      /\ \A e \in 1..n : /\ h.frames[e].older = frames[e].older
                         /\ h.frames[e].reportedPop =
                                IF e = Newest THEN TRUE ELSE frames[e].reportedPop
    BY <1>1, ReportedKeeps
<1> HIDE DEF h
<1>4. /\ Typed' /\ Clears(Len(frames), Hooks)' /\ NoHooks'
      /\ Asks(Newest, TRUE) /\ Len(frames') = n
      /\ \A e \in 1..n : /\ frames'[e].older = h.frames[e].older
                         /\ frames'[e].reportedPop = h.frames[e].reportedPop
    BY <1>1, <1>2, <1>3, ReplHere
<1>5. Structure' /\ Watches'
    BY <1>1, <1>2, <1>3, <1>4, AskedStructure DEF Same
<1> QED
    BY <1>4, <1>5 DEF Proceeds, DebugInv

LEMMA PopTradesStep ==
    ASSUME DebugInv, PopTrades
    PROVE  Proceeds
<1> DEFINE n == Len(frames)  f == Newest
           c == CleanedUp(Reported(Hooks))
           older == frames[f].older
           v == [frames[f].onPop EXCEPT !.fn = "stepped"]
           h == IF older = Null THEN c ELSE SetUntilRepl(c, older, "onStep", v)
<1>1. /\ Typed /\ Clears(n, Hooks) /\ Structure /\ Nested /\ GoesBack /\ Watches
      /\ Running /\ Len(stack) > Base /\ stack' = Front(stack)
      /\ frames[f].onPop # NoHook /\ frames[f].onPop.kind \in {"finish", "until"}
      /\ SetHooks(h) /\ topFrame' = f /\ focusedFrame' = f
      /\ stops' = stops /\ evals' = evals /\ watched' = watched
    BY DEF DebugInv, Structure, PopTrades, InCode
<1>2. n \in Nat /\ f \in 1..n /\ stack' \in Seq(1..n) /\ frames[f] \in FrameTo(n)
    BY <1>1, HooksTyped, NewestIs
<1>3. /\ Reported(Hooks) \in HooksTo(n) /\ Clears(n, Reported(Hooks))
      /\ \A e \in 1..n : /\ Reported(Hooks).frames[e].older = frames[e].older
                         /\ Reported(Hooks).frames[e].reportedPop =
                                IF e = f THEN TRUE ELSE frames[e].reportedPop
    BY <1>1, ReportedKeeps
<1>4. /\ c \in HooksTo(n) /\ Clears(n, c)
      /\ \A e \in 1..n : /\ c.frames[e].older = frames[e].older
                         /\ e # f => c.frames[e].reportedPop = frames[e].reportedPop
    BY <1>2, <1>3, CleanedKeeps
<1>5. older \in MaybeTo(n) /\ v \in HookTo(n) /\ (older # Null => Fits(n, older, "onStep"))
    BY <1>1, <1>2 DEF FrameTo, HookTo, MaybeTo, Fits
<1> HIDE DEF c, v
<1>6. /\ h \in HooksTo(n) /\ Clears(n, h)
      /\ \A e \in 1..n : /\ h.frames[e].older = frames[e].older
                         /\ e # f => h.frames[e].reportedPop = frames[e].reportedPop
    <2>1. CASE older = Null
        BY <2>1, <1>4
    <2>2. CASE older # Null
        <3> DEFINE s == SetUntilRepl(c, older, "onStep", v)
        <3>1. /\ s \in HooksTo(n) /\ Clears(n, s)
              /\ \A e \in 1..n : /\ s.frames[e].older = c.frames[e].older
                                 /\ s.frames[e].reportedPop = c.frames[e].reportedPop
            BY <2>2, <1>2, <1>4, <1>5, SetKeeps
        <3>2. h = s
            BY <2>2
        <3> HIDE DEF s, h
        <3> QED
            BY <3>1, <3>2, <1>4
    <2> QED
        BY <2>1, <2>2
<1> HIDE DEF h
<1>7. /\ Len(frames') = n /\ frames' = h.frames /\ frames' \in Seq(FrameTo(n))
      /\ onEnter' \in HookTo(n) /\ cleanups' \in Seq(CleanupTo(n))
      /\ Clears(Len(frames), Hooks)'
    BY <1>1, <1>2, <1>6, HooksAre
<1>8. Typed'
    <2>1. f \in MaybeTo(n)
        BY <1>2, Ranges
    <2> QED
        BY <2>1, <1>1, <1>2, <1>7 DEF Typed
<1>9. Structure' /\ Watches'
    <2>1. f # Null
        BY <1>2 DEF Null
    <2> QED
        BY <2>1, <1>1, <1>6, <1>7, PoppedStructure DEF Same
<1> QED
    BY <1>1, <1>7, <1>8, <1>9, NoNewStop DEF Proceeds, DebugInv

LEMMA ResumeTyped ==
    ASSUME Typed, Nested, Prompts, Len(stops) - Len(evals) \in {0, 1}, Resume
    PROVE  /\ stack' \in Seq(1..Len(frames)) /\ stops' \in Seq(StopTo(Len(frames)))
           /\ evals' \in Seq(EvaluationTo(Len(frames)))
           /\ topFrame' \in MaybeTo(Len(frames)) /\ focusedFrame' \in MaybeTo(Len(frames))
           /\ ~(Len(stops') > Len(stops))
           /\ stack # << >>
<1> DEFINE n == Len(frames)
<1>1. /\ n \in Nat /\ stack \in Seq(1..n) /\ stops \in Seq(StopTo(n))
      /\ evals \in Seq(EvaluationTo(n)) /\ topFrame \in MaybeTo(n) /\ focusedFrame \in MaybeTo(n)
    BY HooksTyped DEF Typed
<1> HIDE DEF n
<1>2. Len(stack) > Base
    BY DEF Nested
<1>3. Front(stack) \in Seq(1..n)
    BY <1>2, NewestIs DEF n
<1>4. Len(stops) >= 1 /\ Len(stops) \in Nat /\ Len(evals) \in Nat
    BY <1>1, LenProperties DEF Prompts, Running
<1>5. Front(stops) \in Seq(StopTo(n)) /\ Len(Front(stops)) = Len(stops) - 1
    BY <1>1, <1>4, Fronted
<1>6. Here \in StopTo(n)
    <2>1. Len(stops) \in 1..Len(stops)
        BY <1>4
    <2> QED
        BY <1>1, <2>1, ElementOfSeq DEF Here, Last
<1>7. Here.top \in MaybeTo(n) /\ Here.focus \in MaybeTo(n)
    BY <1>6 DEF StopTo
<1>8. stack # << >>
    BY <1>1, <1>2, Bases, EmptySeq
<1> QED
    BY <1>1, <1>3, <1>4, <1>5, <1>7, <1>8 DEF Resume, n

LEMMA ContinueStep ==
    ASSUME DebugInv, Continue
    PROVE  Proceeds
<1>1. /\ Typed /\ Clears(Len(frames), Hooks) /\ Structure /\ Nested /\ Prompts
      /\ Len(stops) - Len(evals) \in {0, 1}
      /\ Resume /\ UNCHANGED <<frames, onEnter, cleanups, watched>>
      /\ watched = Null
    BY DEF DebugInv, Structure, GoesBack, Continue, Watches
<1>2. Typed' /\ ~(Len(stops') > Len(stops))
    BY <1>1, ResumeTyped DEF Typed
<1>3. Structure' /\ Watches'
    BY <1>1, ResumedStructure DEF Same
<1>4. Clears(Len(frames), Hooks)'
    <2>1. Len(frames') = Len(frames) /\ Hooks' = Hooks
        BY <1>1 DEF Hooks
    <2> QED
        BY <1>1, <2>1
<1> QED
    BY <1>2, <1>3, <1>4 DEF Proceeds, DebugInv

LEMMA ThrowOrReturnStep ==
    ASSUME DebugInv, ThrowOrReturn
    PROVE  Proceeds
<1> DEFINE n == Len(frames)  f == topFrame
           g == [frames[f] EXCEPT !.leaving = TRUE]
           h == WithFrame(Hooks, f, g)
<1>1. /\ Typed /\ Clears(n, Hooks) /\ Structure /\ Nested /\ Prompts
      /\ Len(stops) - Len(evals) \in {0, 1}
      /\ Resume /\ UNCHANGED <<onEnter, cleanups, watched>>
      /\ frames' = [frames EXCEPT ![f].leaving = TRUE]
      /\ watched = Null /\ topFrame = Newest /\ Len(stack) > Base
    BY DEF DebugInv, Structure, GoesBack, ThrowOrReturn, Watches, Nested
<1>2. /\ n \in Nat /\ Hooks \in HooksTo(n) /\ f \in 1..n /\ frames[f] \in FrameTo(n)
      /\ Hooks.frames = frames /\ Hooks.onEnter = onEnter /\ Hooks.cleanups = cleanups
    BY <1>1, HooksTyped, NewestIs
<1>3. /\ g \in FrameTo(n) /\ g.onStep = frames[f].onStep /\ g.onPop = frames[f].onPop
      /\ g.older = frames[f].older /\ g.reportedPop = frames[f].reportedPop
    BY <1>2 DEF FrameTo
<1>4. SetHooks(h)
    <2>1. frames' = [frames EXCEPT ![f] = g]
        BY <1>1
    <2> HIDE DEF g
    <2>2. h = [Hooks EXCEPT !.frames = [frames EXCEPT ![f] = g]]
        BY <1>2 DEF WithFrame
    <2> DEFINE fs == [frames EXCEPT ![f] = g]
    <2>3. h = [Hooks EXCEPT !.frames = fs] /\ frames' = fs
        BY <2>1, <2>2
    <2> HIDE DEF fs, h
    <2> QED
        BY <2>3, <1>1 DEF SetHooks, Hooks
<1> HIDE DEF n, f, g
<1>5. /\ h \in HooksTo(n) /\ Clears(n, h) /\ h.frames[f] = g
      /\ \A e \in 1..n : e # f => h.frames[e] = frames[e]
    <2>1. g.onStep = Hooks.frames[f].onStep /\ g.onPop = Hooks.frames[f].onPop
        BY <1>2, <1>3
    <2> QED
        BY <2>1, <1>1, <1>2, <1>3, FieldKeeps
<1> HIDE DEF h
<1>6. /\ Len(frames') = n /\ frames' = h.frames /\ frames' \in Seq(FrameTo(n))
      /\ onEnter' \in HookTo(n) /\ cleanups' \in Seq(CleanupTo(n))
      /\ Clears(Len(frames), Hooks)'
    BY <1>2, <1>4, <1>5, HooksAre
<1>7. \A e \in 1..n : frames'[e].older = frames[e].older /\ frames'[e].reportedPop = frames[e].reportedPop
    BY <1>3, <1>5, <1>6
<1>8. Typed' /\ ~(Len(stops') > Len(stops))
    <2>1. watched' \in MaybeTo(n)
        BY <1>1, <1>2, Ranges
    <2> QED
        BY <2>1, <1>1, <1>6, ResumeTyped DEF Typed, n
<1>9. Structure' /\ Watches'
    BY <1>1, <1>6, <1>7, ResumedStructure DEF Same, n
<1> QED
    BY <1>6, <1>8, <1>9 DEF Proceeds, DebugInv

LEMMA StepFrameIs ==
    ASSUME DebugInv, Prompts
    PROVE  StepFrame \in MaybeTo(Len(frames)) /\ topFrame \in 1..Len(frames)
<1>1. Typed /\ Nested /\ topFrame = Newest /\ Len(stack) > Base
    BY DEF DebugInv, Structure, GoesBack, Nested
<1>2. topFrame \in 1..Len(frames) /\ frames[topFrame] \in FrameTo(Len(frames)) /\ Len(frames) \in Nat
    BY <1>1, HooksTyped, NewestIs
<1> QED
    BY <1>2, Ranges DEF StepFrame, FrameTo

LEMMA StepOrNextStep ==
    ASSUME DebugInv, NEW kind \in {"step", "next", "finish", "until"}, NEW line \in Lines,
           StepOrNext(kind, line)
    PROVE  Proceeds
<1> DEFINE n == Len(frames)
           c == [fn |-> "entered", kind |-> kind, start |-> topFrame,
                 line |-> frames[topFrame].line, stop |-> line]
           c2 == [c EXCEPT !.fn = "stepped"]
           c3 == [c EXCEPT !.fn = "popped"]
           h1 == IF kind \in {"step", "until"}
                 THEN SetUntilRepl(Hooks, Null, "onEnter", c) ELSE Hooks
           h2 == IF StepFrame # Null /\ kind # "finish"
                 THEN SetUntilRepl(h1, StepFrame, "onStep", c2)
                 ELSE h1
           h3 == IF StepFrame # Null
                 THEN SetUntilRepl(h2, StepFrame, "onPop", c3)
                 ELSE h2
<1>1. /\ Typed /\ Clears(n, Hooks) /\ Structure /\ Nested /\ Prompts
      /\ Len(stops) - Len(evals) \in {0, 1}
      /\ Resume /\ SetHooks(h3)
      /\ watched' = IF kind \in {"step", "next"} THEN StepFrame ELSE Null
    BY DEF DebugInv, Structure, GoesBack, StepOrNext
<1>2. /\ n \in Nat /\ Hooks \in HooksTo(n) /\ topFrame \in 1..n /\ StepFrame \in MaybeTo(n)
      /\ Hooks.frames = frames /\ frames[topFrame] \in FrameTo(n)
    BY <1>1, HooksTyped, StepFrameIs
<1>3. /\ c \in HookTo(n) /\ c2 \in HookTo(n) /\ c3 \in HookTo(n)
      /\ c3 # NoHook /\ c3.kind = kind
    <2>1. topFrame \in MaybeTo(n) /\ frames[topFrame].line \in Lines
        BY <1>2, Ranges DEF FrameTo
    <2>2. c3.fn = "popped" /\ NoHook.fn = "none"
        BY DEF NoHook
    <2>3. c3 # NoHook /\ c3.kind = kind
        BY <2>2
    <2>4. c \in HookTo(n) /\ c2 \in HookTo(n) /\ c3 \in HookTo(n)
        BY <2>1 DEF HookTo
    <2> QED
        BY <2>3, <2>4
<1>4. /\ Null \in MaybeTo(n) /\ Fits(n, Null, "onEnter")
      /\ StepFrame # Null => Fits(n, StepFrame, "onStep") /\ Fits(n, StepFrame, "onPop")
    BY <1>2, Ranges DEF Fits, MaybeTo
<1>5. /\ h1 \in HooksTo(n) /\ Clears(n, h1)
      /\ \A e \in 1..n : /\ h1.frames[e].older = frames[e].older
                         /\ h1.frames[e].reportedPop = frames[e].reportedPop
    <2> HIDE DEF c
    <2>1. CASE kind \in {"step", "until"}
        BY <2>1, <1>1, <1>2, <1>3, <1>4, SetKeeps
    <2>2. CASE kind \notin {"step", "until"}
        BY <2>2, <1>1, <1>2
    <2> QED
        BY <2>1, <2>2
<1>6. /\ h2 \in HooksTo(n) /\ Clears(n, h2)
      /\ \A e \in 1..n : /\ h2.frames[e].older = frames[e].older
                         /\ h2.frames[e].reportedPop = frames[e].reportedPop
    <2> HIDE DEF h1, c2
    <2>1. CASE StepFrame # Null /\ kind # "finish"
        <3> DEFINE s == SetUntilRepl(h1, StepFrame, "onStep", c2)
        <3>1. /\ s \in HooksTo(n) /\ Clears(n, s)
              /\ \A e \in 1..n : /\ s.frames[e].older = h1.frames[e].older
                                 /\ s.frames[e].reportedPop = h1.frames[e].reportedPop
            BY <2>1, <1>2, <1>3, <1>4, <1>5, SetKeeps
        <3>2. h2 = s
            BY <2>1
        <3> HIDE DEF s, h2
        <3> QED
            BY <3>1, <3>2, <1>5
    <2> QED
        BY <2>1, <1>5
<1>7. /\ h3 \in HooksTo(n) /\ Clears(n, h3)
      /\ \A e \in 1..n : /\ h3.frames[e].older = frames[e].older
                         /\ h3.frames[e].reportedPop = frames[e].reportedPop
      /\ StepFrame # Null => h3.frames[StepFrame].onPop = c3
    <2> HIDE DEF h2, c3
    <2>1. CASE StepFrame # Null
        <3> DEFINE s == SetUntilRepl(h2, StepFrame, "onPop", c3)
        <3>1. /\ s \in HooksTo(n) /\ Clears(n, s)
              /\ \A e \in 1..n : /\ s.frames[e].older = h2.frames[e].older
                                 /\ s.frames[e].reportedPop = h2.frames[e].reportedPop
                                 /\ e = StepFrame => s.frames[e].onPop = c3
            BY <2>1, <1>2, <1>3, <1>4, <1>6, SetKeeps
        <3>2. h3 = s /\ StepFrame \in 1..n
            BY <2>1, <1>2 DEF MaybeTo
        <3> HIDE DEF s, h3
        <3> QED
            BY <3>1, <3>2, <1>6
    <2> QED
        BY <2>1, <1>6
<1> HIDE DEF h3, c3
<1>8. /\ Len(frames') = n /\ frames' = h3.frames /\ frames' \in Seq(FrameTo(n))
      /\ onEnter' \in HookTo(n) /\ cleanups' \in Seq(CleanupTo(n))
      /\ Clears(Len(frames), Hooks)'
    BY <1>1, <1>2, <1>7, HooksAre
<1>9. Typed' /\ ~(Len(stops') > Len(stops))
    <2>1. watched' \in MaybeTo(n)
        BY <1>1, <1>2, <1>4
    <2> QED
        BY <2>1, <1>1, <1>8, ResumeTyped DEF Typed
<1>10. Structure' /\ Watches'
    <2>1. \/ watched' = Null
          \/ /\ watched' = StepFrame
             /\ frames'[StepFrame].onPop # NoHook
             /\ frames'[StepFrame].onPop.kind \in {"step", "next"}
        BY <1>1, <1>3, <1>7, <1>8
    <2> QED
        BY <2>1, <1>1, <1>7, <1>8, ResumedStructure DEF Same
<1> QED
    BY <1>8, <1>9, <1>10 DEF Proceeds, DebugInv

(* A command that only selects a frame, and tells others which is younger.  *)
LEMMA SelectedStep ==
    ASSUME DebugInv,
           frames' \in [1..Len(frames) -> FrameTo(Len(frames))],
           \A f \in 1..Len(frames) : /\ Same(f)
                                     /\ frames'[f].onStep = frames[f].onStep
                                     /\ frames'[f].onPop = frames[f].onPop,
           focusedFrame' \in MaybeTo(Len(frames)),
           topFrame = Null <=> focusedFrame' = Null,
           UNCHANGED <<stack, onEnter, cleanups, topFrame, stops, evals, watched>>
    PROVE  Proceeds
<1> DEFINE n == Len(frames)
           h == [frames |-> frames', onEnter |-> onEnter, cleanups |-> cleanups]
<1>1. /\ Typed /\ Clears(n, Hooks) /\ Structure /\ Watches
      /\ n \in Nat /\ Hooks \in HooksTo(n)
      /\ Hooks.frames = frames /\ Hooks.onEnter = onEnter /\ Hooks.cleanups = cleanups
      /\ onEnter \in HookTo(n) /\ cleanups \in Seq(CleanupTo(n))
    BY HooksTyped DEF DebugInv, Typed
<1>2. /\ h \in HooksTo(n) /\ h.frames = frames' /\ h.onEnter = onEnter /\ h.cleanups = cleanups
      /\ SetHooks(h)
    BY <1>1 DEF HooksTo, SetHooks
<1>3. Clears(n, h)
    <2>1. /\ n <= n /\ \A e \in (n + 1)..n : h.frames[e].onStep = NoHook /\ h.frames[e].onPop = NoHook
        BY <1>1
    <2>2. \A e \in 1..n : h.frames[e].onStep = Hooks.frames[e].onStep /\ h.frames[e].onPop = Hooks.frames[e].onPop
        BY <1>1, <1>2
    <2> HIDE DEF n, h
    <2> QED
        BY <2>1, <2>2, <1>1, <1>2, StillClears
<1> HIDE DEF h
<1>4. /\ Len(frames') = n /\ frames' \in Seq(FrameTo(n))
      /\ onEnter' \in HookTo(n) /\ cleanups' \in Seq(CleanupTo(n))
      /\ Clears(Len(frames), Hooks)'
    BY <1>1, <1>2, <1>3, HooksAre
<1>5. Typed'
    BY <1>1, <1>4 DEF Typed
<1>6. Structure' /\ Watches'
    BY <1>1, <1>4, StayedStructure
<1> QED
    BY <1>1, <1>4, <1>5, <1>6, NoNewStop DEF Proceeds, DebugInv

LEMMA FocusIs ==
    ASSUME DebugInv, Prompts
    PROVE  /\ Len(frames) \in Nat
           /\ topFrame \in 1..Len(frames)
           /\ focusedFrame \in 1..Len(frames)
           /\ frames \in [1..Len(frames) -> FrameTo(Len(frames))]
<1>1. Typed /\ topFrame \in 1..Len(frames) /\ (topFrame = Null <=> focusedFrame = Null)
    BY StepFrameIs DEF DebugInv, Structure, GoesBack
<1>2. Hooks.frames = frames /\ Hooks \in HooksTo(Len(frames)) /\ Len(frames) \in Nat
    BY <1>1, HooksTyped
<1>3. focusedFrame \in MaybeTo(Len(frames))
    BY <1>1 DEF Typed
<1> QED
    BY <1>1, <1>2, <1>3 DEF HooksTo, MaybeTo, Null

LEMMA YoungerKeeps ==
    ASSUME NEW n \in Nat, NEW g \in FrameTo(n), NEW y \in MaybeTo(n)
    PROVE  /\ [g EXCEPT !.younger = y] \in FrameTo(n)
           /\ [g EXCEPT !.younger = y].older = g.older
           /\ [g EXCEPT !.younger = y].reportedPop = g.reportedPop
           /\ [g EXCEPT !.younger = y].onStep = g.onStep
           /\ [g EXCEPT !.younger = y].onPop = g.onPop
BY DEF FrameTo

LEMMA SelectFrameStep ==
    ASSUME DebugInv, NEW count \in Nat, SelectFrame(count)
    PROVE  Proceeds
<1> DEFINE n == Len(frames)
<1>1. Prompts /\ UNCHANGED <<stack, onEnter, cleanups, topFrame, stops, evals, watched>>
    BY DEF SelectFrame
<1>2. /\ n \in Nat /\ topFrame \in 1..n /\ focusedFrame \in 1..n
      /\ frames \in [1..n -> FrameTo(n)]
    BY <1>1, FocusIs
<1>0. PICK k \in 0..count : \E way \in [0..k -> 1..n] :
          /\ frames' = [f \in 1..n |->
                 IF \E i \in 1..k : way[i] = f
                 THEN [frames[f] EXCEPT !.younger = way[(CHOOSE i \in 1..k : way[i] = f) - 1]]
                 ELSE frames[f]]
          /\ focusedFrame' = IF k = count THEN way[k] ELSE focusedFrame
    BY DEF SelectFrame, FrameId
<1>3. PICK way \in [0..k -> 1..n] :
          /\ frames' = [f \in 1..n |->
                 IF \E i \in 1..k : way[i] = f
                 THEN [frames[f] EXCEPT !.younger = way[(CHOOSE i \in 1..k : way[i] = f) - 1]]
                 ELSE frames[f]]
          /\ focusedFrame' = IF k = count THEN way[k] ELSE focusedFrame
    BY <1>0
<1> HIDE DEF n
<1>4. ASSUME NEW f \in 1..n
      PROVE  /\ frames'[f] \in FrameTo(n)
             /\ frames'[f].older = frames[f].older
             /\ frames'[f].reportedPop = frames[f].reportedPop
             /\ frames'[f].onStep = frames[f].onStep
             /\ frames'[f].onPop = frames[f].onPop
    <2>1. frames[f] \in FrameTo(n)
        BY <1>2
    <2>2. CASE \E i \in 1..k : way[i] = f
        <3> DEFINE p == CHOOSE i \in 1..k : way[i] = f
        <3>1. p \in 1..k
            BY <2>2
        <3>2. frames'[f] = [frames[f] EXCEPT !.younger = way[p - 1]]
            BY <2>2, <1>3
        <3> HIDE DEF p
        <3>3. way[p - 1] \in 1..n
            <4>1. p - 1 \in 0..k
                BY <3>1, <1>3
            <4> QED
                BY <4>1, <1>3
        <3>4. way[p - 1] \in MaybeTo(n)
            BY <3>3, <1>2, Ranges
        <3> QED
            BY <2>1, <3>2, <3>4, <1>2, YoungerKeeps
    <2>3. CASE ~\E i \in 1..k : way[i] = f
        BY <2>1, <2>3, <1>3
    <2> QED
        BY <2>2, <2>3
<1>5. focusedFrame' \in 1..n
    <2>1. k \in 0..k
        BY <1>3
    <2> QED
        BY <2>1, <1>2, <1>3
<1>6. frames' \in [1..n -> FrameTo(n)]
    <2>1. frames' = [f \in 1..n |-> frames'[f]]
        BY <1>3
    <2> QED
        BY <2>1, <1>4
<1>7. /\ focusedFrame' \in MaybeTo(n) /\ (topFrame = Null <=> focusedFrame' = Null)
    BY <1>2, <1>5, Ranges DEF Null
<1> QED
    BY <1>1, <1>4, <1>6, <1>7, SelectedStep DEF Same, n

LEMMA UpStep ==
    ASSUME DebugInv, Up
    PROVE  Proceeds
<1> DEFINE n == Len(frames)  f == focusedFrame  o == frames[f].older
           g == [frames[o] EXCEPT !.younger = f]
<1>1. /\ Prompts /\ UNCHANGED <<stack, onEnter, cleanups, topFrame, stops, evals, watched>>
      /\ o # Null /\ focusedFrame' = o
      /\ frames' = [frames EXCEPT ![o].younger = f]
    BY DEF Up
<1>2. /\ n \in Nat /\ topFrame \in 1..n /\ f \in 1..n
      /\ frames \in [1..n -> FrameTo(n)]
    BY <1>1, FocusIs
<1>3. o \in 1..n
    <2>1. frames[f] \in FrameTo(n)
        BY <1>2
    <2> QED
        BY <2>1, <1>1 DEF FrameTo, MaybeTo
<1>4. frames[o] \in FrameTo(n) /\ f \in MaybeTo(n) /\ o \in MaybeTo(n) /\ topFrame # Null
    BY <1>2, <1>3, Ranges DEF Null
<1>5. /\ g \in FrameTo(n) /\ g.older = frames[o].older /\ g.reportedPop = frames[o].reportedPop
      /\ g.onStep = frames[o].onStep /\ g.onPop = frames[o].onPop
    BY <1>2, <1>4, YoungerKeeps
<1>6. frames' = [frames EXCEPT ![o] = g]
    BY <1>1
<1> HIDE DEF n, f, o, g
<1>7. /\ frames' \in [1..n -> FrameTo(n)]
      /\ \A e \in 1..n : frames'[e] = IF e = o THEN g ELSE frames[e]
    BY <1>2, <1>3, <1>5, <1>6
<1>8. \A e \in 1..n : /\ frames'[e].older = frames[e].older
                      /\ frames'[e].reportedPop = frames[e].reportedPop
                      /\ frames'[e].onStep = frames[e].onStep
                      /\ frames'[e].onPop = frames[e].onPop
    BY <1>5, <1>7
<1> QED
    BY <1>1, <1>4, <1>7, <1>8, SelectedStep DEF Same, n, o

LEMMA DownStep ==
    ASSUME DebugInv, Down
    PROVE  Proceeds
<1> DEFINE n == Len(frames)  f == focusedFrame
<1>1. /\ Prompts /\ UNCHANGED <<stack, onEnter, cleanups, topFrame, stops, evals, watched>>
      /\ frames[f].younger # Null /\ focusedFrame' = frames[f].younger
      /\ frames' = frames
    BY DEF Down
<1>2. /\ n \in Nat /\ topFrame \in 1..n /\ f \in 1..n
      /\ frames \in [1..n -> FrameTo(n)]
    BY <1>1, FocusIs
<1>3. focusedFrame' \in MaybeTo(n) /\ topFrame # Null /\ focusedFrame' # Null
    <2>1. frames[f] \in FrameTo(n)
        BY <1>2
    <2> QED
        BY <2>1, <1>1, <1>2 DEF FrameTo, Null
<1> QED
    BY <1>1, <1>2, <1>3, SelectedStep DEF Same

LEMMA EvaluateStep ==
    ASSUME DebugInv, Evaluate
    PROVE  Proceeds
<1> DEFINE n == Len(frames)
           e == [top |-> topFrame, focus |-> focusedFrame, base |-> Len(stack), entered |-> n]
<1>1. /\ Typed /\ Clears(n, Hooks) /\ Structure /\ Watches /\ evals' = Append(evals, e)
      /\ UNCHANGED <<frames, stack, onEnter, cleanups, topFrame, focusedFrame, stops, watched>>
    BY DEF DebugInv, Evaluate
<1>2. e \in EvaluationTo(n) /\ evals \in Seq(EvaluationTo(n))
    <2>1. n \in Nat /\ Len(stack) \in Nat
        BY <1>1, HooksTyped, LenProperties DEF Typed
    <2> QED
        BY <2>1, <1>1 DEF Typed, EvaluationTo
<1>3. evals' \in Seq(EvaluationTo(n))
    BY <1>1, <1>2, Pushed
<1>4. Typed'
    BY <1>1, <1>3 DEF Typed
<1>5. Clears(Len(frames), Hooks)'
    <2>1. Len(frames') = n /\ Hooks' = Hooks
        BY <1>1 DEF Hooks
    <2> QED
        BY <1>1, <2>1
<1>6. Structure' /\ Watches'
    BY <1>1, EvaluateStructure
<1> QED
    BY <1>1, <1>4, <1>5, <1>6, NoNewStop DEF Proceeds, DebugInv

LEMMA EndEvaluationStep ==
    ASSUME DebugInv, EndEvaluation
    PROVE  Proceeds
<1> DEFINE n == Len(frames)
<1>1. /\ Typed /\ Clears(n, Hooks) /\ Structure /\ evals # << >>
      /\ evals' = Front(evals) /\ topFrame' = Last(evals).top /\ focusedFrame' = Last(evals).focus
      /\ watched' = Null /\ UNCHANGED <<frames, stack, onEnter, cleanups, stops>>
    BY DEF DebugInv, EndEvaluation, Evaluated
<1>2. n \in Nat /\ evals \in Seq(EvaluationTo(n))
    BY <1>1, HooksTyped DEF Typed
<1>3. Front(evals) \in Seq(EvaluationTo(n)) /\ Last(evals) \in EvaluationTo(n)
    BY <1>1, <1>2, Popped
<1>4. Typed'
    <2>1. Last(evals).top \in MaybeTo(n) /\ Last(evals).focus \in MaybeTo(n) /\ Null \in MaybeTo(n)
        BY <1>2, <1>3, Ranges DEF EvaluationTo
    <2> QED
        BY <2>1, <1>1, <1>3 DEF Typed
<1>5. Clears(Len(frames), Hooks)'
    <2>1. Len(frames') = n /\ Hooks' = Hooks
        BY <1>1 DEF Hooks
    <2> QED
        BY <1>1, <2>1
<1>6. Structure' /\ Watches'
    BY <1>1, EvaluatedStructure
<1> QED
    BY <1>1, <1>4, <1>5, <1>6, NoNewStop DEF Proceeds, DebugInv

LEMMA DebugNext ==
    ASSUME DebugInv, Next
    PROVE  Proceeds
<1>1. ASSUME NEW line \in Lines, Enter(line)
      PROVE  Proceeds
    BY <1>1, EnterStep
<1>2. ASSUME NEW line \in Lines, StepTo(line)
      PROVE  Proceeds
    BY <1>2, StepToStep
<1>3. CASE Break
    BY <1>3, BreakStep
<1>4. CASE PopSilently
    BY <1>4, PopSilentlyStep
<1>5. CASE PopPrompts
    BY <1>5, PopPromptsStep
<1>6. CASE PopTrades
    BY <1>6, PopTradesStep
<1>7. CASE Continue
    BY <1>7, ContinueStep
<1>8. CASE ThrowOrReturn
    BY <1>8, ThrowOrReturnStep
<1>9. ASSUME NEW kind \in {"step", "next", "finish"}, StepOrNext(kind, FirstLine)
      PROVE  Proceeds
    BY <1>9, FirstLineIs, StepOrNextStep
<1>10. ASSUME NEW line \in Lines, StepOrNext("until", line)
       PROVE  Proceeds
    BY <1>10, StepOrNextStep
<1>11. ASSUME NEW n \in 0..(MaxFrames - 1), SelectFrame(n)
       PROVE  Proceeds
    <2>1. n \in Nat
        OBVIOUS
    <2> QED
        BY <1>11, <2>1, SelectFrameStep
<1>12. CASE Up
    BY <1>12, UpStep
<1>13. CASE Down
    BY <1>13, DownStep
<1>14. CASE Evaluate
    BY <1>14, EvaluateStep
<1>15. CASE EndEvaluation
    BY <1>15, EndEvaluationStep
<1> QED
    BY <1>1, <1>2, <1>3, <1>4, <1>5, <1>6, <1>7, <1>8, <1>9, <1>10, <1>11, <1>12, <1>13, <1>14,
       <1>15 DEF Next

LEMMA DebugStutter ==
    ASSUME DebugInv, UNCHANGED vars
    PROVE  Proceeds
<1>1. /\ Typed /\ Clears(Len(frames), Hooks) /\ Structure /\ Watches
      /\ UNCHANGED <<frames, stack, onEnter, cleanups, topFrame, focusedFrame, stops, evals, watched>>
    BY DEF DebugInv, vars
<1>2. Typed'
    BY <1>1 DEF Typed
<1>3. Clears(Len(frames), Hooks)'
    <2>1. Len(frames') = Len(frames) /\ Hooks' = Hooks
        BY <1>1 DEF Hooks
    <2> QED
        BY <1>1, <2>1
<1>4. Structure' /\ Watches'
    BY <1>1, StayedStructure DEF Same, Structure, GoesBack
<1> QED
    BY <1>1, <1>2, <1>3, <1>4, NoNewStop DEF Proceeds, DebugInv

LEMMA DebugInductive ==
    ASSUME DebugInv, [Next]_vars
    PROVE  Proceeds
BY DebugNext, DebugStutter

(* What the invariant says in the model's own terms.                        *)
LEMMA DebugImplies ==
    ASSUME DebugInv
    PROVE  TypeOK /\ TopIsNewest /\ StepsKeepControl
<1>1. Typed /\ Nested /\ GoesBack /\ Watches
    BY DEF DebugInv, Structure
<1>2. TypeOK
    <2>1. /\ FrameId = 1..Len(frames) /\ MaybeFrame = MaybeTo(Len(frames))
          /\ MaybeHook = HookTo(Len(frames))
        BY DEF FrameId, MaybeFrame, MaybeTo, MaybeHook, Hook, HookTo
    <2>2. /\ Frame = FrameTo(Len(frames)) /\ Cleanup = CleanupTo(Len(frames))
          /\ Stop = StopTo(Len(frames)) /\ Evaluation = EvaluationTo(Len(frames))
        BY <2>1 DEF Frame, FrameTo, Cleanup, CleanupTo, Stop, StopTo, Evaluation, EvaluationTo
    <2> QED
        BY <1>1, <2>1, <2>2 DEF TypeOK, Typed, GoesBack
<1>3. TopIsNewest
    <2>1. ASSUME Prompts
          PROVE  stack # << >>
        <3>1. stack \in Seq(1..Len(frames)) /\ Len(stack) > Base /\ Base \in 0..Len(stack)
            BY <1>1, <2>1, Bases DEF Typed, Nested
        <3> QED
            BY <3>1, EmptySeq
    <2> QED
        BY <1>1, <2>1 DEF TopIsNewest, GoesBack
<1>4. StepsKeepControl
    BY <1>1 DEF StepsKeepControl, Watches, OnStack
<1> QED
    BY <1>2, <1>3, <1>4

LEMMA DebugAlways == Spec => []DebugInv
<1>1. Init => DebugInv
    BY DebugInit
<1>2. DebugInv /\ [Next]_vars => DebugInv'
    BY DebugInductive DEF Proceeds
<1> QED
    BY <1>1, <1>2, PTL DEF Spec

(* The variables keep their types: every hook, cleanup and saved selection  *)
(* refers to a frame that there has been.                                   *)
THEOREM DebuggerTyped == Spec => []TypeOK
<1>1. DebugInv => TypeOK
    BY DebugImplies
<1> QED
    BY <1>1, DebugAlways, PTL

(* Every prompt's topFrame is the newest live frame, however many prompts   *)
(* and evaluations are below it and however they have ended.                *)
THEOREM PromptIsOnNewest == Spec => []TopIsNewest
<1>1. DebugInv => TopIsNewest
    BY DebugImplies
<1> QED
    BY <1>1, DebugAlways, PTL

(* step and next: the frame they step in stays live and keeps its onPop     *)
(* hook until the next prompt.                                              *)
THEOREM SteppingKeepsControl == Spec => []StepsKeepControl
<1>1. DebugInv => StepsKeepControl
    BY DebugImplies
<1> QED
    BY <1>1, DebugAlways, PTL

(* When a prompt opens, preReplCleanups() has left no hook of an earlier    *)
(* command on a live frame or on dbg.                                       *)
THEOREM PromptsOpenClean == Spec => PromptsAreClean
<1>1. DebugInv /\ [Next]_vars => [Len(stops') > Len(stops) => NoHooks']_vars
    BY DebugInductive DEF Proceeds
<1> QED
    BY <1>1, DebugAlways, PTL DEF Spec, PromptsAreClean

====
