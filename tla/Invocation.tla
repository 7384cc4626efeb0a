----------------------------- MODULE Invocation -----------------------------
(***************************************************************************)
(* Calls between JavaScript and C: Gjs::Function::invoke(), which converts *)
(* the arguments one by one, calls C and releases what it made, and        *)
(* GjsCallbackTrampoline, through which C calls back (gi/function.cpp).     *)
(* The two nest on one stack.  A closure lives as long as someone holds a  *)
(* reference: the call that made it, C, the context's list of async        *)
(* closures, the list of those kept forever, or a call of the closure.     *)
(***************************************************************************)
EXTENDS Closures, FiniteSets, Sequences

CONSTANTS
    Functions,    \* introspected functions
    Signature,    \* [Functions -> Seq(TrampolineKinds \cup {"boxed", "full"})]
    NoFunction,
    NoClosure,
    MaxDepth      \* bound: calls under way

(* What an in-argument holds that is no closure: nothing; data that gjs     *)
(* allocated and owns; data that C took; data that gjs freed; data that gjs *)
(* freed although C had taken it.                                           *)
ArgMarks == {"unset", "ours", "theirs", "freed", "lost"}

ArgKinds == TrampolineKinds \cup {"boxed", "full"}

ASSUME InvocationAssumption ==
    /\ Signature \in [Functions -> Seq(ArgKinds)]
    /\ NoFunction \notin Functions
    /\ NoClosure \notin Closures
    /\ Closures \cap ArgMarks = {}
    /\ MaxDepth \in Nat

VARIABLES
    closure,      \* the closures
    wrappers,     \* the objects whose wrapper exists
    cache,        \* m_ffi_closure of each callback argument of each function
    stack,        \* the calls under way
    handles,      \* the closures on which C has a reference of its own
    extras,       \* async closures with the reference CallbackIn::in() added
    asyncs,       \* m_async_closures
    forever,      \* s_forever_closure_list
    exposed,      \* the closures that C may call
    context,      \* "alive", "notifying" its end, or "gone"
    notified,     \* the entries of m_destroy_notifications visited
    nested        \* history: the closures that calls of one function, one within another, made

invocationVars == <<closure, wrappers, cache, stack, handles, extras, asyncs,
                    forever, exposed, context, notified, nested>>

(* runs: the closure whose function runs, in a frame of callback_closure();  *)
(* the others are frames of invoke().  pos is the argument that comes next, *)
(* done is processed_c_args, args are the in_cvalues.                       *)
Frame == [fn : Functions \cup {NoFunction}, runs : Closures \cup {NoClosure},
          this : Objects \cup {NoObject}, phase : {"run", "in", "c", "release"},
          pos : Nat, done : Nat, args : Seq(Closures \cup ArgMarks),
          failed : BOOLEAN, threw : BOOLEAN]

CallTypeOK ==
    /\ closure \in [Closures -> ClosureRecord]
    /\ wrappers \subseteq Objects
    /\ DOMAIN cache = Functions
    /\ \A f \in Functions :
        cache[f] \in [DOMAIN Signature[f] -> Closures \cup {NoClosure}]
    /\ stack \in Seq(Frame)
    /\ {handles, extras, asyncs, forever, exposed, notified, nested} \subseteq SUBSET Closures
    /\ context \in {"alive", "notifying", "gone"}

CallInit ==
    /\ closure = [c \in Closures |-> UnusedClosure]
    /\ wrappers = Objects
    /\ cache = [f \in Functions |-> [j \in DOMAIN Signature[f] |-> NoClosure]]
    /\ stack = << >>
    /\ handles = {} /\ extras = {} /\ asyncs = {} /\ forever = {}
    /\ exposed = {} /\ notified = {} /\ nested = {}
    /\ context = "alive"

-----------------------------------------------------------------------------
Top == stack[Len(stack)]
SetTop(f) == stack' = [stack EXCEPT ![Len(stack)] = f]
Pop == stack' = SubSeq(stack, 1, Len(stack) - 1)

(* JavaScript runs at top level, in a callback, and where the conversion of *)
(* an argument runs it.  C runs in a main loop, and in a function called.   *)
JSActs ==
    /\ context = "alive"
    /\ stack # << >> =>
         \/ Top.phase = "run"
         \/ Top.phase = "in" /\ Top.pos <= Len(Top.args)
CActs == context = "alive" /\ (stack # << >> => Top.phase = "c")

ArgKind == Signature[Top.fn][Top.pos]
ClosureArgs(f) == {c \in Closures : \E j \in DOMAIN f.args : f.args[j] = c}

Runs(c) == {i \in DOMAIN stack : stack[i].runs = c}
HeldByCall(c) == \E i \in DOMAIN stack : c \in ClosureArgs(stack[i])

-----------------------------------------------------------------------------
(* connect_impl(): the signal connection owns the one reference.            *)
Connect(c, o) ==
    /\ JSActs /\ o \in wrappers
    /\ closure[c] = UnusedClosure
    /\ closure' = [closure EXCEPT ![c] = NewClosure("signal", o, 1)]
    /\ handles' = handles \cup {c}
    /\ exposed' = exposed \cup {c}
    /\ UNCHANGED <<wrappers, cache, stack, extras, asyncs, forever, context, notified, nested>>

(* The closures made for callback arguments by the calls of f under way.    *)
CallbacksOf(f) ==
    {c \in Closures : \E i \in DOMAIN stack :
        stack[i].fn = f /\ \E j \in DOMAIN stack[i].args :
            stack[i].args[j] = c /\ Signature[f][j] \in TrampolineKinds}

(* invoke(): o is the instance of a method of a GObject.  The cache of each *)
(* argument is the function's, which a call within a call of it overwrites. *)
Call(f, o) ==
    /\ JSActs /\ Len(stack) < MaxDepth
    /\ o \in wrappers \cup {NoObject}
    /\ stack' = Append(stack,
         [fn |-> f, runs |-> NoClosure, this |-> o, phase |-> "in", pos |-> 1, done |-> 0,
          args |-> [j \in DOMAIN Signature[f] |-> "unset"], failed |-> FALSE, threw |-> FALSE])
    /\ nested' = nested \cup CallbacksOf(f)
    /\ UNCHANGED <<closure, wrappers, cache, handles, extras, asyncs, forever, exposed,
                   context, notified>>

Converting ==
    /\ context = "alive" /\ stack # << >>
    /\ Top.phase = "in" /\ Top.pos <= Len(Top.args)

(* The argument is converted, and holds v.                                  *)
Converted(v) == SetTop([Top EXCEPT !.pos = @ + 1, !.done = @ + 1, !.args[Top.pos] = v])

MutantRefsTaken(k) == IF k \in {"call", "notified"} THEN 1 ELSE 2

(* The call's own reference, and the one that outlives the call: for the    *)
(* GDestroyNotify, for the collection after an async call, or for ever.     *)
RefsTaken(k) == IF k = "call" THEN 1 ELSE 2

(* Another call of the function on top is under way below it.               *)
WithinItself == \E i \in DOMAIN stack : i # Len(stack) /\ stack[i].fn = Top.fn

(* CallbackIn::in() with a function.                                        *)
ConvertCallback(c) ==
    /\ Converting /\ ArgKind \in TrampolineKinds
    /\ closure[c] = UnusedClosure
    /\ closure' = [closure EXCEPT ![c] = NewClosure(ArgKind, Top.this, RefsTaken(ArgKind))]
    /\ cache' = [cache EXCEPT ![Top.fn][Top.pos] = c]
    /\ Converted(c)
    /\ handles' = IF ArgKind = "notified" THEN handles \cup {c} ELSE handles
    /\ extras' = IF ArgKind = "async" THEN extras \cup {c} ELSE extras
    /\ forever' = IF ArgKind \in {"undying", "forever"} THEN forever \cup {c} ELSE forever
    /\ nested' = IF WithinItself THEN nested \cup {c} ELSE nested
    /\ UNCHANGED <<wrappers, asyncs, exposed, context, notified>>

MutantConvertNull ==
    /\ Converting /\ ArgKind \in TrampolineKinds
    /\ Converted("unset")
    /\ UNCHANGED <<closure, wrappers, cache, handles, extras, asyncs, forever, exposed,
                   context, notified, nested>>

(* CallbackIn::in() with null, where the argument may be.                   *)
ConvertNull ==
    /\ Converting /\ ArgKind \in TrampolineKinds
    /\ cache' = [cache EXCEPT ![Top.fn][Top.pos] = NoClosure]
    /\ Converted("unset")
    /\ UNCHANGED <<closure, wrappers, handles, extras, asyncs, forever, exposed, context,
                   notified, nested>>

(* GClosureInTransferNone::in(): a reference taken, the floating one sunk.  *)
ConvertBoxed(c) ==
    /\ Converting /\ ArgKind = "boxed"
    /\ closure[c] = UnusedClosure
    /\ closure' = [closure EXCEPT ![c] = NewClosure("boxed", NoObject, 1)]
    /\ Converted(c)
    /\ UNCHANGED <<wrappers, cache, handles, extras, asyncs, forever, exposed, context,
                   notified, nested>>

(* An argument that is transferred to C in full.                            *)
ConvertData ==
    /\ Converting /\ ArgKind = "full"
    /\ Converted("ours")
    /\ UNCHANGED <<closure, wrappers, cache, handles, extras, asyncs, forever, exposed,
                   context, notified, nested>>

(* The conversion throws: invoke() skips the call and releases what it has. *)
ConvertFails ==
    /\ Converting
    /\ SetTop([Top EXCEPT !.phase = "release", !.pos = 1, !.failed = TRUE])
    /\ UNCHANGED <<closure, wrappers, cache, handles, extras, asyncs, forever, exposed,
                   context, notified, nested>>

(* ffi_call(): C learns of the closures.                                    *)
EnterC ==
    /\ context = "alive" /\ stack # << >>
    /\ Top.phase = "in" /\ Top.pos > Len(Top.args)
    /\ SetTop([Top EXCEPT !.phase = "c"])
    /\ exposed' = exposed \cup ClosureArgs(Top)
    /\ UNCHANGED <<closure, wrappers, cache, handles, extras, asyncs, forever, context,
                   notified, nested>>

(* C returns, perhaps with a GError, and then has not taken the arguments;  *)
(* it keeps no callback of scope call, and no GClosure it has not taken.    *)
(* The results are converted, GError or not, and that may fail.             *)
ReturnFromC(throws, fails) ==
    /\ CActs /\ stack # << >>
    /\ SetTop([Top EXCEPT !.phase = "release", !.pos = 1, !.failed = fails, !.threw = throws,
                          !.args = [j \in DOMAIN @ |-> IF @[j] = "ours" /\ ~throws
                                                       THEN "theirs" ELSE @[j]]])
    /\ exposed' = exposed \ {c \in ClosureArgs(Top) :
                               \/ closure[c].kind = "call"
                               \/ closure[c].kind = "boxed" /\ c \notin handles}
    /\ UNCHANGED <<closure, wrappers, cache, handles, extras, asyncs, forever, context,
                   notified, nested>>

-----------------------------------------------------------------------------
(* finish_invoke(): the arguments converted are released in order.          *)
Releasing == context = "alive" /\ stack # << >> /\ Top.phase = "release" /\ Top.pos <= Top.done
ReleaseLeaves(v) == SetTop([Top EXCEPT !.pos = @ + 1, !.args[Top.pos] = v])

(* CallbackIn::release(): the closure is the one in the argument's cache,   *)
(* which need not be the one that this call has made.                       *)
ReleaseCallback ==
    /\ Releasing /\ ArgKind \in TrampolineKinds
    /\ closure' = [c \in Closures |->
                     IF c = cache[Top.fn][Top.pos] THEN Unreffed(closure[c], 1) ELSE closure[c]]
    /\ ReleaseLeaves("unset")
    /\ UNCHANGED <<wrappers, cache, handles, extras, asyncs, forever, exposed, context,
                   notified, nested>>

(* BoxedInTransferNone::release() of a GClosure.                            *)
ReleaseBoxed ==
    /\ Releasing /\ ArgKind = "boxed"
    /\ closure' = [closure EXCEPT ![Top.args[Top.pos]] = Unreffed(@, 1)]
    /\ ReleaseLeaves("unset")
    /\ UNCHANGED <<wrappers, cache, handles, extras, asyncs, forever, exposed, context,
                   notified, nested>>

(* What is transferred is freed unless call_completed().                    *)
AfterCall(f, v) ==
    IF ~f.failed /\ ~f.threw THEN v
    ELSE IF v = "ours" THEN "freed" ELSE "lost"

ReleaseData ==
    /\ Releasing /\ ArgKind = "full"
    /\ ReleaseLeaves(AfterCall(Top, Top.args[Top.pos]))
    /\ UNCHANGED <<closure, wrappers, cache, handles, extras, asyncs, forever, exposed,
                   context, notified, nested>>

CallEnds ==
    /\ context = "alive" /\ stack # << >>
    /\ Top.phase = "release" /\ Top.pos > Top.done
    /\ Pop
    /\ UNCHANGED <<closure, wrappers, cache, handles, extras, asyncs, forever, exposed,
                   context, notified, nested>>

-----------------------------------------------------------------------------
MutantEntered(r) == r

(* The reference that invoke_callback_closure() holds during the call.      *)
Entered(r) == [r EXCEPT !.refs = @ + 1]

(* C calls a closure that is valid: callback_closure(), or marshal().  It   *)
(* calls one of scope async once.                                           *)
CallBack(c) ==
    /\ CActs /\ c \in exposed /\ Len(stack) < MaxDepth
    /\ closure[c].callable # "none"
    /\ closure' = [closure EXCEPT ![c] = Entered(@)]
    /\ stack' = Append(stack,
         [fn |-> NoFunction, runs |-> c, this |-> NoObject, phase |-> "run", pos |-> 1,
          done |-> 0, args |-> << >>, failed |-> FALSE, threw |-> FALSE])
    /\ exposed' = IF closure[c].kind = "async" THEN exposed \ {c} ELSE exposed
    /\ UNCHANGED <<wrappers, cache, handles, extras, asyncs, forever, context, notified, nested>>

(* The call is blocked (the closure is invalid, the collector runs, or it   *)
(* comes on another thread), and for a closure of scope async it was the    *)
(* only one: nobody drops the reference in extras.                          *)
Blocked(c) ==
    /\ CActs /\ c \in exposed /\ closure[c].kind = "async"
    /\ exposed' = exposed \ {c}
    /\ UNCHANGED <<closure, wrappers, cache, stack, handles, extras, asyncs, forever,
                   context, notified, nested>>

(* What the collector finds dead: a wrapper that no call has as this.       *)
Collectable(dead) ==
    dead \subseteq wrappers \ {stack[i].this : i \in DOMAIN stack}

Orphaned(dead) == {c \in Closures : closure[c].object \in dead}

(* A signal connection goes when its closure is invalidated.                *)
Disconnected(dead) == {c \in Orphaned(dead) \cap handles : closure[c].kind = "signal"}

(* A collection frees the closures in queued at its beginning, and then     *)
(* those wrappers, which invalidate their closures.  Of closure c it leaves *)
(* this, when n more references are dropped.                                *)
Collected(c, queued, dead, n) ==
    Unreffed(IF c \in Orphaned(dead) THEN Invalidated(closure[c]) ELSE closure[c],
             One(c \in queued) + One(c \in Disconnected(dead)) + n)

(* The cleanup of callback_closure(): a closure of scope async is put by    *)
(* for the next collection, and then there may be one; at last the          *)
(* reference taken for the call is dropped.                                 *)
CallBackEnds(collects, dead) ==
    /\ context = "alive" /\ stack # << >> /\ Top.phase = "run"
    /\ ~collects => dead = {}
    /\ Collectable(dead)
    /\ LET c == Top.runs
           queued == IF closure[c].kind = "async" THEN asyncs \cup {c} ELSE asyncs
       IN  /\ closure' = [d \in Closures |->
                            Collected(d, IF collects THEN queued ELSE {}, dead, One(d = c))]
           /\ asyncs' = IF collects THEN {} ELSE queued
           /\ extras' = extras \ {c}
    /\ Pop
    /\ wrappers' = wrappers \ dead
    /\ handles' = handles \ Disconnected(dead)
    /\ exposed' = exposed \ Disconnected(dead)
    /\ UNCHANGED <<cache, forever, context, notified, nested>>

(* on_garbage_collection() and the wrappers swept, in a collection that     *)
(* JavaScript sets off, a main loop that C runs, or the conversion of a     *)
(* result.                                                                  *)
Collect(dead) ==
    /\ context = "alive" /\ Collectable(dead)
    /\ stack # << >> /\ Top.phase = "release" => Top.pos = 1
    /\ closure' = [c \in Closures |-> Collected(c, asyncs, dead, 0)]
    /\ asyncs' = {}
    /\ wrappers' = wrappers \ dead
    /\ handles' = handles \ Disconnected(dead)
    /\ exposed' = exposed \ Disconnected(dead)
    /\ UNCHANGED <<cache, stack, extras, forever, context, notified, nested>>

-----------------------------------------------------------------------------
(* C takes a reference on a GClosure that it was given.                     *)
KeepBoxed(c) ==
    /\ CActs /\ c \in exposed \ handles /\ closure[c].kind = "boxed"
    /\ closure' = [closure EXCEPT ![c].refs = @ + 1]
    /\ handles' = handles \cup {c}
    /\ UNCHANGED <<wrappers, cache, stack, extras, asyncs, forever, exposed, context,
                   notified, nested>>

(* A GDestroyNotify, g_signal_handler_disconnect() (from JavaScript too), a *)
(* GClosure that C lets go.  A GClosure of the call under way stays usable. *)
DropHandle(c) ==
    /\ c \in handles \cap exposed
    /\ CActs \/ context = "gone" \/ (JSActs /\ closure[c].kind = "signal")
    /\ closure' = [closure EXCEPT ![c] = Unreffed(@, 1)]
    /\ handles' = handles \ {c}
    /\ exposed' = IF closure[c].kind = "boxed" /\ HeldByCall(c)
                  THEN exposed ELSE exposed \ {c}
    /\ UNCHANGED <<wrappers, cache, stack, extras, asyncs, forever, context, notified, nested>>

-----------------------------------------------------------------------------
(* GjsContextPrivate::dispose().                                            *)
DisposeBegins ==
    /\ context = "alive" /\ stack = << >>
    /\ context' = "notifying"
    /\ UNCHANGED <<closure, wrappers, cache, stack, handles, extras, asyncs, forever,
                   exposed, notified, nested>>

(* One entry of m_destroy_notifications: global_context_finalized().  Who   *)
(* holds the closure hears of it, and may let go closures.                  *)
NotifyOne(c, dropped) ==
    /\ context = "notifying"
    /\ closure[c].registered /\ c \notin notified
    /\ dropped \subseteq handles \cap exposed
    /\ closure' = [d \in Closures |->
                     Unreffed(IF d = c THEN ContextFinalized(closure[d]) ELSE closure[d],
                              One(d \in dropped))]
    /\ notified' = notified \cup {c}
    /\ handles' = handles \ dropped
    /\ exposed' = exposed \ dropped
    /\ UNCHANGED <<wrappers, cache, stack, extras, asyncs, forever, context, nested>>

(* The last collection, GjsCallbackTrampoline::prepare_shutdown(), and      *)
(* JS_DestroyContext(), which finalizes the wrappers that are left.         *)
DisposeEnds ==
    /\ context = "notifying"
    /\ \A c \in Closures : closure[c].registered => c \in notified
    /\ closure' = [c \in Closures |-> Collected(c, asyncs, wrappers, One(c \in forever))]
    /\ asyncs' = {}
    /\ forever' = {}
    /\ wrappers' = {}
    /\ handles' = handles \ Disconnected(wrappers)
    /\ exposed' = exposed \ Disconnected(wrappers)
    /\ context' = "gone"
    /\ UNCHANGED <<cache, stack, extras, notified, nested>>

-----------------------------------------------------------------------------
ScriptStep ==
    \/ \E c \in Closures, o \in Objects : Connect(c, o)
    \/ \E f \in Functions, o \in Objects \cup {NoObject} : Call(f, o)

InvokeStep ==
    \/ \E c \in Closures : ConvertCallback(c) \/ ConvertBoxed(c)
    \/ ConvertNull \/ ConvertData \/ ConvertFails
    \/ EnterC
    \/ \E throws, fails \in BOOLEAN : ReturnFromC(throws, fails)
    \/ ReleaseCallback \/ ReleaseBoxed \/ ReleaseData
    \/ CallEnds

GarbageStep == \E dead \in SUBSET Objects : Collect(dead)

CStep ==
    \/ \E c \in Closures : CallBack(c) \/ Blocked(c) \/ KeepBoxed(c) \/ DropHandle(c)
    \/ \E collects \in BOOLEAN, dead \in SUBSET Objects : CallBackEnds(collects, dead)

ContextStep ==
    \/ DisposeBegins
    \/ \E c \in Closures, dropped \in SUBSET Closures : NotifyOne(c, dropped)
    \/ DisposeEnds

(* What follows the drop of a reference on a closure that has been freed is *)
(* undefined.                                                               *)
Defined == \A c \in Closures : closure[c].refs >= 0

CallNext == Defined /\ (ScriptStep \/ InvokeStep \/ GarbageStep \/ CStep \/ ContextStep)

CallSpec == CallInit /\ [][CallNext]_invocationVars

-----------------------------------------------------------------------------
(* A closure has one reference for each of its holders: the calls of it     *)
(* that are under way, the call that made it, C, the async closures before  *)
(* and after their call, and the closures kept forever.  One missing is a   *)
(* closure freed under a holder; one too many is a leak.  Not so where a    *)
(* function is called within a call of it: the cache of an argument names   *)
(* one closure, and the two calls both release that one.                    *)
RefsAccounted ==
    \A c \in Closures \ nested :
        closure[c].refs = Cardinality(Runs(c)) + One(HeldByCall(c)) + One(c \in handles)
                          + One(c \in extras) + One(c \in asyncs) + One(c \in forever)

(* While there is a context, what C may call has not been freed: not after  *)
(* the call it was passed to, in its own callback, in a collection, or when *)
(* the context tells its closures.  Calls within a call of the same         *)
(* function may have freed each other's.                                    *)
CallableIsAlive ==
    context # "gone" => \A c \in exposed \ nested : closure[c].refs > 0

(* The function of a closure is kept from the collector for as long as it   *)
(* is set: rooted until the context has told it, or traced from a wrapper   *)
(* that exists.  dispose() tells no closure that is dead, and no entry goes *)
(* from the set behind the loop.                                            *)
CallableIsKept ==
    \A c \in Closures :
        /\ closure[c].callable = "rooted" <=> closure[c].registered /\ c \notin notified
        /\ closure[c].callable = "traced" => closure[c].object \in wrappers
        /\ closure[c].callable # "none" => closure[c].refs > 0
        /\ c \in notified => closure[c].registered

(* Once the context is gone no closure has a function or a context any more. *)
ContextLeavesNothing ==
    context = "gone" => \A c \in Closures : closure[c].callable = "none"

(* The argument converted and not released yet is a callback, and the       *)
(* closure that its release will unreference is not the one it holds.       *)
Mistaken(f, j) ==
    /\ j <= f.done /\ (f.phase = "release" => f.pos <= j)
    /\ Signature[f.fn][j] \in TrampolineKinds
    /\ cache[f.fn][j] # IF f.args[j] \in Closures THEN f.args[j] ELSE NoClosure

(* A call releases all it has converted and nothing else: what came before  *)
(* the argument that failed, but not that one; what C has taken only if the *)
(* conversion of a result failed; and another call's closure in place of    *)
(* its own only where both were made by a function called within itself.    *)
ReleasesItsOwn ==
    \A i \in DOMAIN stack : LET f == stack[i] IN
        /\ f.phase = "release" => \A j \in DOMAIN f.args :
             /\ j < f.pos => f.args[j] # "ours" /\ f.args[j] \notin Closures
             /\ j > f.done => f.args[j] = "unset"
        /\ \A j \in DOMAIN f.args : f.args[j] = "lost" => f.failed
        /\ \A j \in DOMAIN f.args : Mistaken(f, j) =>
             {f.args[j], cache[f.fn][j]} \cap Closures \subseteq nested

(* function.cpp says that it need not release a closure of scope async in   *)
(* its callback "as we've an extra ref that has been set" by the conversion *)
(* of the argument: the reference is there until a collection drops it.     *)
ExtraRefIsThere == \A c \in extras : closure[c].refs > 0

(* function.cpp says that in-arguments transferred to C are freed if invoke *)
(* "failed before calling the function, or if the function threw": not once *)
(* C has taken them.                                                        *)
KeepsWhatCTook ==
    \A i \in DOMAIN stack : \A j \in DOMAIN stack[i].args : stack[i].args[j] # "lost"

=============================================================================
