------------------------------ MODULE Tweener ------------------------------
(***************************************************************************)
(* modules/script/tweener: tweens move properties of objects ("scopes") to *)
(* new values over time, callers call a function a number of times.  They  *)
(* live in one array that a frame walks, updating each; the callbacks it   *)
(* makes on the way (onStart, onUpdate, onComplete, onOverwrite) add, stop *)
(* and split tweens in the array under the walk.                           *)
(*                                                                         *)
(* Values and transitions are left out: a tween is what it moves and when. *)
(***************************************************************************)
EXTENDS Integers, Sequences, FiniteSets, SequencesExt, Kept

CONSTANTS
    Scopes,       \* objects
    Props,        \* names of properties
    MaxTweens,    \* bound: tween objects
    MaxTime,      \* bound: the clock, in frames
    MaxDepth,     \* bound: functions of tweener.js on the stack
    Targets,      \* lists of scopes that programs name
    Named,        \* sets of properties that they name to pause, resume and remove tweens
    Requests      \* what programs ask of addTween() and addCaller()

ASSUME BoundsAssumption == MaxTweens \in Nat /\ MaxTime \in Nat /\ MaxDepth \in Nat

VARIABLES
    tweens,    \* the TweenList objects made, in order
    list,      \* _tweenList: tweens (their positions), or 0 for a slot set to null
    engine,    \* _engineExists: connected to the ticker, which is running
    clock,     \* _ticker.getTime()
    stack      \* functions of tweener.js on the JavaScript stack, innermost last

vars == <<tweens, list, engine, clock, stack>>

(* One TweenList.  Two fields are not in the code: moved, set when a resume *)
(* has put its times off, and completed, the calls of its onComplete.       *)
Tween == [scope : Scopes, props : SUBSET Props, timeStart : Nat, timeComplete : Nat,
          isPaused : BOOLEAN, timePaused : Nat, isCaller : BOOLEAN, count : Nat,
          timesCalled : Nat, waitFrames : BOOLEAN, hasStarted : BOOLEAN,
          moved : BOOLEAN, completed : Nat]

(* tweeningParameters; count is 0 for a tween.                              *)
Request == [props : SUBSET Props, delay : Nat, time : Nat, count : Nat,
            waitFrames : BOOLEAN]

(* addCaller() gives its tween no properties.                               *)
ASSUME ProgramsAssumption ==
    /\ Targets \subseteq Seq(Scopes)
    /\ Requests \subseteq Request
    /\ \A r \in Requests : r.count > 0 => r.props = {}

(* One call of _updateTweens ("frame"), _updateTweenByIndex ("update") or   *)
(* _addTweenOrCaller ("add").  at: where it is; i: its slot; tween: the one *)
(* it works on; over: isOver; scopes, want: what is still to be added;      *)
(* seen: the tweens that a frame has come to, which the code does not keep. *)
Activation == [in : {"frame", "update", "add"},
               at : {"loop", "scan", "push", "immediate", "entry", "set", "calls",
                     "onStart", "onUpdate", "onCall", "onComplete", "onOverwrite"},
               i : Nat, tween : 0..Len(tweens), over : BOOLEAN, scopes : Seq(Scopes),
               want : Seq(Request), seen : SUBSET (1..Len(tweens))]

TypeOK ==
    /\ tweens \in Seq(Tween)
    /\ list \in Seq(0..Len(tweens))
    /\ engine \in BOOLEAN
    /\ clock \in 0..MaxTime
    /\ stack \in Seq(Activation)

Init ==
    /\ tweens = << >>
    /\ list = << >>
    /\ engine = FALSE
    /\ clock = 0
    /\ stack = << >>

Top == Last(stack)
Under == Front(stack)
UserPoints == {"onStart", "onUpdate", "onCall", "onComplete", "onOverwrite"}
UserCode == stack # << >> => Top.at \in UserPoints

Called(f, at, i, t) ==
    [in |-> f, at |-> at, i |-> i, tween |-> t, over |-> FALSE, scopes |-> << >>,
     want |-> << >>, seen |-> {}]

At(point) == stack' = Append(Under, [Top EXCEPT !.at = point])

(* The tweens there are and those that calls of addTween() are still to     *)
(* make: only for the bound.                                                *)
Promised == FoldLeft(LAMBDA n, a : n + Len(a.scopes), Len(tweens), stack)

-----------------------------------------------------------------------------
(* pauseTweens(), resumeTweens(), removeTweens(): _affectTweens() and the   *)
(* three functions it applies.                                              *)
Live(i) == list[i] # 0
TweenAt(i) == tweens[list[i]]
Slots == 1..Len(list)

Paused(t) ==
    IF t.isPaused THEN t ELSE [t EXCEPT !.isPaused = TRUE, !.timePaused = clock]

Resumed(t) ==
    IF ~t.isPaused THEN t
    ELSE [t EXCEPT !.isPaused = FALSE, !.timePaused = 0,
                   !.moved = @ \/ clock > t.timePaused,
                   !.timeStart = @ + clock - t.timePaused,
                   !.timeComplete = @ + clock - t.timePaused]

Cleared(L, slots) == [i \in DOMAIN L |-> IF i \in slots THEN 0 ELSE L[i]]

Affected(op, t) ==
    CASE op = "pause" -> Paused(t) [] op = "resume" -> Resumed(t) [] OTHER -> t

(* With names of properties the loop reads the properties of every tween of *)
(* the scope; a caller has none (null), and the loop throws there.          *)
Walked(s, props) ==
    {i \in Slots : props = {} \/ \A j \in 1..i :
        ~(Live(j) /\ TweenAt(j).scope = s /\ TweenAt(j).isCaller)}

Hits(s, props) ==
    {i \in Walked(s, props) :
        Live(i) /\ TweenAt(i).scope = s /\ (props = {} \/ TweenAt(i).props \cap props # {})}

(* A tween with other properties besides is split: the part that is         *)
(* affected is a clone at the end of the list.                              *)
Part(t, props) == [t EXCEPT !.props = @ \cap props, !.completed = 0]
Rest(t, props) == [t EXCEPT !.props = @ \ props]
Splits(H, props) == {i \in H : props # {} /\ ~(TweenAt(i).props \subseteq props)}

Affect(op, H, props) ==
    LET split == Splits(H, props)
        whole == H \ split
        parted == Keep(list, split)
        clones == [n \in 1..Len(parted) |-> Affected(op, Part(tweens[parted[n]], props))]
    IN  /\ Promised + Len(parted) <= MaxTweens
        /\ tweens' = [t \in 1..Len(tweens) |->
                         CASE \E i \in whole : list[i] = t -> Affected(op, tweens[t])
                           [] \E i \in split : list[i] = t -> Rest(tweens[t], props)
                           [] OTHER -> tweens[t]] \o clones
        /\ \A t \in 1..Len(tweens') : tweens'[t].timeComplete <= MaxTime
        /\ list' = Cleared(list, IF op = "remove" THEN whole ELSE {})
                   \o [n \in 1..Len(parted) |->
                          IF op = "remove" THEN 0 ELSE Len(tweens) + n]

(* _affectTweensWithFunction(): "affected || ..." leaves the scopes after   *)
(* the first one with a tween to affect alone.                              *)
AffectTweens(op, scopes, props) ==
    /\ UserCode
    /\ \E k \in 1..Len(scopes) :
        /\ Hits(scopes[k], props) # {}
        /\ \A j \in 1..(k - 1) : Walked(scopes[j], props) = Slots /\ Hits(scopes[j], props) = {}
        /\ Affect(op, Hits(scopes[k], props), props)
    /\ UNCHANGED <<engine, clock, stack>>

(* _mapOverTweens()                                                         *)
AffectAll(op) ==
    /\ UserCode
    /\ Affect(op, {i \in Slots : Live(i)}, {})
    /\ UNCHANGED <<engine, clock, stack>>

-----------------------------------------------------------------------------
(* addTween(), addCaller(): _addTweenOrCaller() starts the engine and then  *)
(* makes a tween for each scope.                                            *)
Add(scopes, r) ==
    /\ UserCode
    /\ Len(stack) < MaxDepth
    /\ Promised + Len(scopes) <= MaxTweens
    /\ clock + r.delay + r.time <= MaxTime
    /\ engine' = TRUE
    /\ list' = IF engine THEN list ELSE << >>
    /\ stack' = Append(stack, [Called("add", "loop", 0, 0) EXCEPT
                                  !.scopes = scopes, !.want = <<r>>])
    /\ UNCHANGED <<tweens, clock>>

Made(s, r) ==
    [scope |-> s, props |-> r.props, timeStart |-> clock + r.delay,
     timeComplete |-> clock + r.delay + r.time, isPaused |-> FALSE, timePaused |-> 0,
     isCaller |-> r.count > 0, count |-> r.count, timesCalled |-> 0,
     waitFrames |-> r.waitFrames, hasStarted |-> FALSE, moved |-> FALSE, completed |-> 0]

In(f, at) == stack # << >> /\ Top.in = f /\ Top.at = at
Want == Head(Top.want)
Mine == tweens[Top.tween]

AddNext ==
    /\ In("add", "loop")
    /\ Top.scopes # << >>
    /\ tweens' = Append(tweens, Made(Head(Top.scopes), Want))
    /\ stack' = Append(Under, [Top EXCEPT !.scopes = Tail(@), !.tween = Len(tweens) + 1,
                                  !.i = 1, !.at = IF Want.count > 0 THEN "push" ELSE "scan"])
    /\ UNCHANGED <<list, engine, clock>>

AddDone ==
    /\ In("add", "loop")
    /\ Top.scopes = << >>
    /\ stack' = Under
    /\ UNCHANGED <<tweens, list, engine, clock>>

(* The condition of removeTweensByTime().                                   *)
MutantOverlap(x, y) ==
    /\ x.scope = y.scope
    /\ x.timeComplete > y.timeComplete
    /\ x.timeStart < y.timeComplete
    /\ x.props \cap y.props # {}

Overlap(x, y) ==
    /\ x.scope = y.scope
    /\ x.timeComplete > y.timeStart
    /\ x.timeStart < y.timeComplete
    /\ x.props \cap y.props # {}

(* removeTweensByTime(): the loop, as far as the next onOverwrite, and what *)
(* it does after that: the properties go, and the tween with the last one.  *)
Scan ==
    /\ In("add", "scan")
    /\ stack' = Append(Under,
            IF Top.i > Len(list) THEN [Top EXCEPT !.at = "push"]
            ELSE IF Live(Top.i) /\ Overlap(Mine, TweenAt(Top.i))
            THEN [Top EXCEPT !.at = "onOverwrite"]
            ELSE [Top EXCEPT !.i = @ + 1])
    /\ UNCHANGED <<tweens, list, engine, clock>>

Overwrite ==
    /\ In("add", "onOverwrite")
    /\ Top.i \in Slots /\ Live(Top.i)
    /\ LET left == TweenAt(Top.i).props \ Mine.props IN
         /\ tweens' = [tweens EXCEPT ![list[Top.i]].props = left]
         /\ list' = Cleared(list, IF left = {} THEN {Top.i} ELSE {})
    /\ stack' = Append(Under, [Top EXCEPT !.at = "scan", !.i = @ + 1])
    /\ UNCHANGED <<engine, clock>>

(* The callback has removed the tween: _tweenList[i].properties is a        *)
(* property of null, and addTween() throws.                                 *)
OverwriteThrows ==
    /\ In("add", "onOverwrite")
    /\ ~(Top.i \in Slots /\ Live(Top.i))
    /\ stack' = Under
    /\ UNCHANGED <<tweens, list, engine, clock>>

(* The tween goes to the end of the list, and one that takes no time is     *)
(* updated at once.                                                         *)
Push ==
    /\ In("add", "push")
    /\ list' = Append(list, Top.tween)
    /\ stack' = IF Want.time = 0 /\ Want.delay = 0
                THEN Append(Append(Under, [Top EXCEPT !.at = "immediate", !.i = Len(list) + 1]),
                            Called("update", "entry", Len(list) + 1, Top.tween))
                ELSE Append(Under, [Top EXCEPT !.at = "loop"])
    /\ UNCHANGED <<tweens, engine, clock>>

-----------------------------------------------------------------------------
(* What _updateTweenByIndex() returns to: the frame, which empties the slot *)
(* if the tween is over and takes an empty slot out of the list, or the     *)
(* addition of an immediate tween, which empties its slot.                  *)
Caller == Last(Under)
MutantEmptied == list
Emptied == Cleared(list, {Caller.i})
Remaining(keep) == IF keep THEN list ELSE Emptied

ReturnToFrame(keep) ==
    /\ Caller.in = "frame"
    /\ IF Remaining(keep)[Caller.i] = 0
       THEN /\ list' = RemoveAt(Remaining(keep), Caller.i)
            /\ stack' = Under
       ELSE /\ list' = Remaining(keep)
            /\ stack' = Append(Front(Under), [Caller EXCEPT !.i = @ + 1])

ReturnToAdd ==
    /\ Caller.in = "add"
    /\ list' = Emptied
    /\ stack' = Append(Front(Under), [Caller EXCEPT !.at = "loop"])

Return(keep) == ReturnToFrame(keep) \/ ReturnToAdd

(* _updateTweenByIndex() up to its first callback.  isOver is what the      *)
(* times were at entry.                                                     *)
Over == clock >= Mine.timeComplete

Enter ==
    /\ In("update", "entry")
    /\ clock >= Mine.timeStart
    /\ stack' = Append(Under, [Top EXCEPT !.over = Over,
                                  !.at = CASE Mine.isCaller -> "calls"
                                           [] ~Mine.isCaller /\ Mine.hasStarted -> "set"
                                           [] OTHER -> "onStart"])
    /\ UNCHANGED <<tweens, list, engine, clock>>

NotYet ==
    /\ In("update", "entry")
    /\ clock < Mine.timeStart
    /\ Return(TRUE)
    /\ UNCHANGED <<tweens, engine, clock>>

(* onStart has returned: the values at the start are read, and the first    *)
(* update is never skipped.                                                 *)
Started ==
    /\ In("update", "onStart")
    /\ tweens' = [tweens EXCEPT ![Top.tween].hasStarted = TRUE]
    /\ At("onUpdate")
    /\ UNCHANGED <<list, engine, clock>>

(* The properties are set and onUpdate is called, or, if the tween is not   *)
(* over, the frame may be one of those that skipUpdates leaves out.         *)
SetProperties ==
    /\ In("update", "set")
    /\ At("onUpdate")
    /\ UNCHANGED <<tweens, list, engine, clock>>

SkipUpdate ==
    /\ In("update", "set")
    /\ ~Top.over
    /\ Return(TRUE)
    /\ UNCHANGED <<tweens, engine, clock>>

Complete ==
    /\ tweens' = [tweens EXCEPT ![Top.tween].completed = @ + 1]
    /\ At("onComplete")
    /\ UNCHANGED <<list, engine, clock>>

Updated ==
    /\ In("update", "onUpdate")
    /\ \/ Top.over /\ Complete
       \/ ~Top.over /\ Return(TRUE) /\ UNCHANGED <<tweens, engine, clock>>

Completed ==
    /\ In("update", "onComplete")
    /\ Return(FALSE)
    /\ UNCHANGED <<tweens, engine, clock>>

(* A caller: the transition tells when the next call is due, at the latest  *)
(* at timeComplete.                                                         *)
CallDue ==
    /\ In("update", "calls")
    /\ At("onCall")
    /\ UNCHANGED <<tweens, list, engine, clock>>

CallNotDue ==
    /\ In("update", "calls")
    /\ ~Top.over
    /\ Return(TRUE)
    /\ UNCHANGED <<tweens, engine, clock>>

CalledBack ==
    /\ In("update", "onCall")
    /\ LET n == Mine.timesCalled + 1
           called == [tweens EXCEPT ![Top.tween].timesCalled = n]
       IN  \/ /\ n >= Mine.count
              /\ tweens' = [called EXCEPT ![Top.tween].completed = @ + 1]
              /\ At("onComplete")
              /\ UNCHANGED list
           \/ /\ n < Mine.count /\ Mine.waitFrames
              /\ tweens' = called
              /\ Return(TRUE)
           \/ /\ n < Mine.count /\ ~Mine.waitFrames
              /\ tweens' = called
              /\ At("calls")
              /\ UNCHANGED list
    /\ UNCHANGED <<engine, clock>>

-----------------------------------------------------------------------------
(* The ticker's timeout.  GLib does not dispatch it inside itself, and      *)
(* callbacks run no main loop, so nothing of the module is on the stack.    *)
(* _onEnterFrame() stops the engine when it finds the list empty.           *)
Tick == IF clock < MaxTime THEN clock + 1 ELSE clock
NoTween == list = << >>

Frame ==
    /\ engine
    /\ stack = << >>
    /\ IF NoTween
       THEN /\ engine' = FALSE
            /\ list' = << >>
            /\ clock' = 0
            /\ stack' = << >>
       ELSE /\ clock' = Tick
            /\ stack' = Append(stack, Called("frame", "loop", 1, 0))
            /\ UNCHANGED <<list, engine>>
    /\ UNCHANGED tweens

(* The loop of _updateTweens().                                             *)
FrameUpdates ==
    /\ In("frame", "loop")
    /\ Top.i \in Slots
    /\ Live(Top.i)
    /\ ~TweenAt(Top.i).isPaused
    /\ stack' = Append(Append(Under, [Top EXCEPT !.seen = @ \cup {list[Top.i]}]),
                       Called("update", "entry", Top.i, list[Top.i]))
    /\ UNCHANGED <<tweens, list, engine, clock>>

FramePasses ==
    /\ In("frame", "loop")
    /\ Top.i \in Slots
    /\ Live(Top.i)
    /\ TweenAt(Top.i).isPaused
    /\ stack' = Append(Under, [Top EXCEPT !.i = @ + 1, !.seen = @ \cup {list[Top.i]}])
    /\ UNCHANGED <<tweens, list, engine, clock>>

MutantSkips ==
    /\ In("frame", "loop")
    /\ Top.i \in Slots
    /\ ~Live(Top.i)
    /\ list' = RemoveAt(list, Top.i)
    /\ stack' = Append(Under, [Top EXCEPT !.i = @ + 1])
    /\ UNCHANGED <<tweens, engine, clock>>

MutantStays ==
    /\ In("frame", "loop")
    /\ Top.i \in Slots
    /\ ~Live(Top.i)
    /\ UNCHANGED vars

FrameDrops ==
    /\ In("frame", "loop")
    /\ Top.i \in Slots
    /\ ~Live(Top.i)
    /\ list' = RemoveAt(list, Top.i)
    /\ UNCHANGED <<tweens, engine, clock, stack>>

FrameDone ==
    /\ In("frame", "loop")
    /\ Top.i > Len(list)
    /\ stack' = Under
    /\ UNCHANGED <<tweens, list, engine, clock>>

Running ==
    \/ AddNext \/ AddDone \/ Scan \/ Push
    \/ Enter \/ NotYet \/ SetProperties \/ SkipUpdate \/ CallDue \/ CallNotDue
    \/ FrameUpdates \/ FramePasses \/ FrameDrops \/ FrameDone

CallbackReturns ==
    \/ Overwrite \/ OverwriteThrows
    \/ Started \/ Updated \/ Completed \/ CalledBack

Next ==
    \/ \E scopes \in Targets, r \in Requests : Add(scopes, r)
    \/ \E op \in {"pause", "resume", "remove"}, scopes \in Targets, props \in Named :
          AffectTweens(op, scopes, props)
    \/ \E op \in {"pause", "resume", "remove"} : AffectAll(op)
    \/ Frame
    \/ Running
    \/ CallbackReturns

Spec == Init /\ [][Next]_vars

-----------------------------------------------------------------------------
(* While a tween is being updated its slot holds it or has been emptied,    *)
(* whatever the callbacks add and remove: the index that the update and its *)
(* caller go on using is never another tween's.                             *)
SlotStays ==
    \A d \in 1..Len(stack) :
        stack[d].in = "update" => /\ stack[d].i \in Slots
                                  /\ list[stack[d].i] \in {stack[d].tween, 0}

(* A frame comes to every tween of the list once, those that its callbacks  *)
(* add included, though slots are emptied before and after the one it is at *)
(* and taken out under it: what is behind it has been seen, what is ahead   *)
(* has not.                                                                 *)
EachOncePerFrame ==
    \A d \in 1..Len(stack) :
        stack[d].in = "frame" =>
            \A i \in Slots :
                Live(i) => IF i < stack[d].i THEN list[i] \in stack[d].seen
                           ELSE i > stack[d].i => list[i] \notin stack[d].seen

(* No two tweens in the list move the same property of the same object at   *)
(* the same time, even if an onOverwrite adds tweens in its turn: the newer *)
(* one has taken the property over.  Only resuming a tween, which puts its  *)
(* times off and looks for no others, makes two of them meet.               *)
Meet(t, u) == t.timeStart < u.timeComplete /\ u.timeStart < t.timeComplete
OneDriver ==
    \A i, j \in Slots :
        i < j /\ Live(i) /\ Live(j) /\ TweenAt(i).scope = TweenAt(j).scope =>
            \/ TweenAt(i).props \cap TweenAt(j).props = {}
            \/ ~Meet(TweenAt(i), TweenAt(j))
            \/ TweenAt(i).moved \/ TweenAt(j).moved

(* onComplete is called once for each tween, which is out of the list when  *)
(* the update that called it has returned.                                  *)
CompletedOnce ==
    \A t \in 1..Len(tweens) :
        /\ tweens[t].completed <= 1
        /\ tweens[t].completed = 1 =>
              \/ \A i \in Slots : list[i] # t
              \/ \E d \in 1..Len(stack) : stack[d].in = "update" /\ stack[d].tween = t

(* A frame whose callbacks return ends, though they lengthen the list it    *)
(* walks, and the tweens that are made end or are removed: time and again   *)
(* nothing is being updated and no tween is left but paused ones.           *)
TweensEnd == []<>(stack = << >> /\ \A i \in Slots : Live(i) => TweenAt(i).isPaused)

FairSpec == Spec /\ WF_vars(Running) /\ WF_vars(CallbackReturns) /\ WF_vars(Frame)

=============================================================================
