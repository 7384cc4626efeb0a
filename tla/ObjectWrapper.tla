--------------------------- MODULE ObjectWrapper ---------------------------
(***************************************************************************)
(* gi/object.cpp with the parts of gjs/context.cpp that drive it: the life *)
(* of the ObjectInstance that ties a GObject to its JavaScript wrapper.    *)
(*                                                                         *)
(* A wrapper that carries JavaScript state holds a GLib toggle reference.  *)
(* While anything else owns the GObject the wrapper is rooted; when the    *)
(* toggle reference is the last one the wrapper is a weak pointer which    *)
(* the garbage collector may clear.  Only the main thread touches          *)
(* JavaScript, so other threads send their toggles through ToggleQueue.    *)
(*                                                                         *)
(* Three parties interleave: the main thread (program counter pc), the     *)
(* other threads, which take and drop references, and GLib's delivery of   *)
(* toggle notifications, which is a step of its own after the change of    *)
(* the reference count that caused it.                                     *)
(***************************************************************************)
EXTENDS ToggleQueue

CONSTANTS
    GObjects,       \* GObjects
    NoObj, NoInst,  \* null pointers
    Main,           \* the owner thread of the GjsContext
    SerialNotify,   \* no reference crosses 1 <-> 2 while a notification of
                    \* an earlier crossing of the same object is in flight
    CanDispose,     \* the GjsContext may be disposed
    ThreadsDispose  \* threads other than Main may run g_object_run_dispose()

ASSUME ConstantsAssumption ==
    /\ Main \in Threads
    /\ NoObj \notin GObjects
    /\ NoInst \notin Insts
    /\ {SerialNotify, CanDispose, ThreadsDispose} \subseteq BOOLEAN

VARIABLES
    owners,     \* GLib: the threads whose C code holds a reference on g
    gstate,     \* GLib: "alive", "disposed" or "finalized"
    qdata,      \* GLib: the ObjectInstance stored on g, ObjectInstance::for_gobject
    note,       \* GLib: the toggle notification a thread is about to deliver
    disposal,   \* gobj_dispose_notify() of a thread that is half way through it
    inst,       \* the ObjectInstance structures
    pc,         \* what the main thread is doing
    why,        \* who asked for the drain or the collection under way
    todo,       \* the instances the current loop of the main thread has left
    cur,        \* the one that it has taken out and is not done with
    finalizer,  \* the collector has just let a GObject go, and its C finalizer
                \* is running on the main thread
    temp,       \* an object on which finalizer has taken a reference
    timer,      \* m_auto_gc_id # 0
    force,      \* m_force_gc
    destroying, \* m_destroying
    fault,      \* the assertion or the undefined behaviour that has stopped
                \* the process, or "none"
    late,       \* history: instances that a notification came to after their
                \* toggle reference had gone, or after the destructor had begun
    owedGC,     \* history: a wrapper was unrooted since the last marking
    ownedAtGC   \* history: instances whose GObject had another owner when
                \* the toggle queue was drained for the current collection

vars == <<q, holder, idle, stopped, owners, gstate, qdata, note, disposal, inst, pc, why,
          todo, cur, finalizer, temp, timer, force, destroying, fault, late, owedGC, ownedAtGC>>

Wrapper == {"null", "heap", "root"}   \* GjsMaybeOwned: empty, m_heap, m_root

(* live: the JSObject has not been finalized; ptr: m_ptr; toggle:          *)
(* m_uses_toggle_ref; disposed: m_gobj_disposed; linked: is a member of    *)
(* s_wrapped_gobject_list; reach: JavaScript itself reaches the wrapper;   *)
(* dead: the marking under way has not reached it.                         *)
Instance == [live : BOOLEAN, ptr : GObjects \cup {NoObj}, wrapper : Wrapper,
             toggle : BOOLEAN, disposed : BOOLEAN, linked : BOOLEAN,
             reach : BOOLEAN, dead : BOOLEAN]

Free == [live |-> FALSE, ptr |-> NoObj, wrapper |-> "null", toggle |-> FALSE,
         disposed |-> FALSE, linked |-> FALSE, reach |-> FALSE, dead |-> FALSE]

Note == [object : Insts, direction : Direction]
NoNote == [object |-> NoInst, direction |-> "DOWN"]

(* What gobj_dispose_notify() has still to do about the toggle reference    *)
(* that it has removed.                                                    *)
Disposal == [object : Insts, at : {"cancel", "notify", "end"}]
NoDisposal == [object |-> NoInst, at |-> "end"]

PC == {"js", "drain", "idledone", "mark", "sweepstart", "sweep", "disassociate",
       "finalize", "release", "cancel", "shutdown", "unroot", "finalgc", "destroy",
       "prepare", "teardown", "done"}
Why == {"idle", "gc", "timer", "dispose", "final", "teardown"}
Fault == {"none", "pendingToggleUp", "pendingToggleDown", "queueNotEmpty",
          "dangling", "disposalRaced"}

TypeOK ==
    /\ QueueTypeOK
    /\ owners \in [GObjects -> SUBSET Threads]
    /\ gstate \in [GObjects -> {"alive", "disposed", "finalized"}]
    /\ qdata \in [GObjects -> Insts \cup {NoInst}]
    /\ note \in [Threads -> Note \cup {NoNote}]
    /\ disposal \in [Threads -> Disposal \cup {NoDisposal}]
    /\ inst \in [Insts -> Instance]
    /\ pc \in PC
    /\ why \in Why
    /\ todo \in SUBSET Insts
    /\ cur \in Insts \cup {NoInst}
    /\ finalizer \in BOOLEAN
    /\ temp \in GObjects \cup {NoObj}
    /\ timer \in BOOLEAN
    /\ force \in BOOLEAN
    /\ destroying \in BOOLEAN
    /\ fault \in Fault
    /\ late \in SUBSET Insts
    /\ owedGC \in BOOLEAN
    /\ ownedAtGC \in SUBSET Insts

(* A GObject is created by C code on the main thread.                      *)
Init ==
    /\ QueueInit
    /\ owners = [g \in GObjects |-> {Main}]
    /\ gstate = [g \in GObjects |-> "alive"]
    /\ qdata = [g \in GObjects |-> NoInst]
    /\ note = [t \in Threads |-> NoNote]
    /\ disposal = [t \in Threads |-> NoDisposal]
    /\ inst = [i \in Insts |-> Free]
    /\ pc = "js" /\ why = "gc" /\ todo = {} /\ cur = NoInst
    /\ finalizer = FALSE /\ temp = NoObj /\ timer = FALSE /\ force = FALSE
    /\ destroying = FALSE /\ fault = "none"
    /\ late = {} /\ owedGC = FALSE /\ ownedAtGC = {}

-----------------------------------------------------------------------------
(* State predicates.                                                       *)

(* Instance i has its toggle reference installed on its GObject.           *)
Installed(i) == inst[i].live /\ inst[i].ptr # NoObj /\ inst[i].toggle /\ ~inst[i].disposed
ToggleRefs(g) == {i \in Insts : Installed(i) /\ inst[i].ptr = g}
Holders(g) == {i \in Insts : inst[i].live /\ inst[i].ptr = g}
InFlight(i) == {t \in Threads : note[t].object = i}
Quiet(t) == note[t] = NoNote /\ disposal[t] = NoDisposal
Disposing(i) == \E t \in Threads : disposal[t].object = i

(* ~ObjectInstance() of i is under way and has cancelled its toggles once. *)
Finalizing(i) == pc \in {"release", "cancel"} /\ i = cur

(* JS::RuntimeHeapIsCollecting()                                           *)
Collecting == pc \in {"mark", "sweepstart", "sweep", "disassociate", "finalize", "release",
                     "cancel"}

(* The main thread runs C code that was not called from the collector.     *)
MainRuns == pc \in {"js", "finalgc"}

-----------------------------------------------------------------------------
(* What the other parties do to the wrapper.                               *)

(* toggle_down() on an instance, and what it does to the GC schedule.      *)
ToggledDown(r) == IF r.wrapper = "root" THEN [r EXCEPT !.wrapper = "heap"] ELSE r
ScheduleGC(r) ==
    IF r.wrapper = "root" /\ ~destroying
    THEN timer' = TRUE /\ force' = TRUE /\ owedGC' = TRUE
    ELSE UNCHANGED <<timer, force, owedGC>>

(* toggle_up(): nothing for an object that was disposed or released, or    *)
(* whose wrapper is gone.                                                  *)
ToggledUp(r) ==
    IF r.ptr = NoObj \/ r.disposed \/ r.wrapper # "heap" THEN r
    ELSE [r EXCEPT !.wrapper = "root"]

(* toggle_handler(), the function the queue calls.                         *)
Handled(item) ==
    LET r == inst[item.object] IN
    /\ inst' = [inst EXCEPT ![item.object] =
                   IF item.direction = "DOWN" THEN ToggledDown(r) ELSE ToggledUp(r)]
    /\ IF item.direction = "DOWN" THEN ScheduleGC(r)
       ELSE UNCHANGED <<timer, force, owedGC>>

(* Without the look at the queue, and without the look at the collector.   *)
MutantIgnoreQueue(t, item) == t = Main /\ (item.direction = "UP" => ~Collecting)
MutantIgnoreCollector(t, item) == t = Main /\ ~AnythingQueued(item.object)

(* wrapped_gobj_toggle_notify(): the main thread toggles the wrapper at    *)
(* once unless something is queued for it, or it would root it while the   *)
(* collector runs; in every other case the toggle is queued.               *)
Immediate(t, item) ==
    /\ t = Main
    /\ ~AnythingQueued(item.object)
    /\ item.direction = "UP" => ~Collecting

ToggleNotify(t, item) ==
    IF destroying THEN UNCHANGED <<inst, timer, force, owedGC, q, idle>>
    ELSE IF Immediate(t, item)
    THEN Handled(item) /\ UNCHANGED <<q, idle>>
    ELSE /\ Enqueue(item.object, item.direction)
         /\ UNCHANGED <<inst, timer, force, owedGC>>

-----------------------------------------------------------------------------
(* GLib and the C code that holds references.                              *)

MayCross(g) == SerialNotify => \A i \in ToggleRefs(g) : InFlight(i) = {}

(* The notification that a thread owes when g passes between its toggle    *)
(* reference alone and one more; NoNote when there is no toggle reference. *)
Owed(g, d) == IF ToggleRefs(g) = {} THEN NoNote
              ELSE [object |-> CHOOSE i \in ToggleRefs(g) : TRUE, direction |-> d]

(* Thread t takes a reference; temp is the object that the C finalizer of  *)
(* one that the collector has let go has taken a reference on.             *)
Ref(t, g) ==
    /\ Quiet(t) /\ gstate[g] # "finalized" /\ t \notin owners[g] /\ MayCross(g)
    /\ IF t = Main /\ ~MainRuns
       THEN finalizer /\ temp = NoObj /\ temp' = g
       ELSE UNCHANGED temp
    /\ owners' = [owners EXCEPT ![g] = @ \cup {t}]
    /\ note' = [note EXCEPT ![t] = IF owners[g] = {} THEN Owed(g, "UP") ELSE NoNote]
    /\ UNCHANGED <<q, holder, idle, stopped, gstate, qdata, disposal, inst, pc, why, todo, cur,
                   finalizer, timer, force, destroying, fault, late, owedGC, ownedAtGC>>

(* Thread t drops its reference; a GObject that nobody holds is finalized. *)
(* A finalizer that the collector runs also drops references for good:     *)
(* those that the finalized object held on others.                         *)
Unref(t, g) ==
    /\ Quiet(t) /\ t \in owners[g] /\ MayCross(g)
    /\ t = Main => MainRuns \/ (finalizer /\ temp \in {NoObj, g})
    /\ owners' = [owners EXCEPT ![g] = @ \ {t}]
    /\ note' = [note EXCEPT ![t] = IF owners[g] = {t} THEN Owed(g, "DOWN") ELSE NoNote]
    /\ gstate' = [gstate EXCEPT ![g] =
                     IF owners[g] = {t} /\ Holders(g) = {} THEN "finalized" ELSE @]
    /\ temp' = IF t = Main THEN NoObj ELSE temp
    /\ UNCHANGED <<q, holder, idle, stopped, qdata, disposal, inst, pc, why, todo, cur,
                   finalizer, timer, force, destroying, fault, late, owedGC, ownedAtGC>>

(* A finalizer gives back what it has taken, or leaves it to an object     *)
(* that stays.                                                             *)
LeaveRef ==
    /\ Quiet(Main) /\ temp # NoObj
    /\ temp' = NoObj
    /\ UNCHANGED <<q, holder, idle, stopped, owners, gstate, qdata, note, disposal, inst, pc,
                   why, todo, cur, finalizer, timer, force, destroying, fault, late, owedGC,
                   ownedAtGC>>

(* The toggle notification runs in the thread that changed the count, some *)
(* time after GLib has looked the toggle reference up.  If the reference   *)
(* has been removed meanwhile then the look-up came too late, or the       *)
(* notification still comes, with a pointer to an instance that need not   *)
(* even exist.                                                             *)
Deliver(t) ==
    LET i == note[t].object IN
    /\ note[t] # NoNote /\ CanLock(t)
    /\ note' = [note EXCEPT ![t] = NoNote]
    /\ \/ ToggleNotify(t, note[t]) /\ late' = IF Installed(i) THEN late ELSE late \cup {i}
       \/ ~Installed(i) /\ UNCHANGED <<inst, timer, force, late, owedGC, q, idle>>
    /\ UNCHANGED <<holder, stopped, owners, gstate, qdata, disposal, pc, why, todo, cur,
                   finalizer, temp, destroying, fault, ownedAtGC>>

(* Thread t runs g_object_run_dispose(g), whose weak notify is             *)
(* gobj_dispose_notify() for the instance that still holds a weak ref.  It *)
(* makes the toggle reference an ordinary one; as t owns g no reference    *)
(* crosses meanwhile.  Only the owner thread discards the wrapper.         *)
Dispose(t, g) ==
    LET watching == {i \in Holders(g) : ~inst[i].disposed /\ ~Finalizing(i)} IN
    /\ Quiet(t) /\ t \in owners[g] /\ gstate[g] = "alive"
    /\ IF t = Main THEN MainRuns ELSE ThreadsDispose
    /\ gstate' = [gstate EXCEPT ![g] = "disposed"]
    /\ qdata' = [qdata EXCEPT ![g] = NoInst]
    /\ inst' = [i \in Insts |->
                  IF i \in watching
                  THEN [inst[i] EXCEPT !.disposed = TRUE,
                          !.wrapper = IF t = Main /\ ~inst[i].toggle THEN "null" ELSE @]
                  ELSE inst[i]]
    /\ disposal' = [disposal EXCEPT ![t] =
                       IF \E i \in watching : inst[i].toggle
                       THEN [object |-> CHOOSE i \in watching : inst[i].toggle, at |-> "cancel"]
                       ELSE NoDisposal]
    /\ UNCHANGED <<q, holder, idle, stopped, owners, note, pc, why, todo, cur, finalizer, temp,
                   timer, force, destroying, fault, late, owedGC, ownedAtGC>>

disposalUnchanged == UNCHANGED <<holder, stopped, owners, gstate, qdata, note, pc, why, todo,
                                 cur, finalizer, temp, destroying, fault, ownedAtGC>>

(* It cancels what was queued, ...                                         *)
DisposeCancels(t) ==
    /\ disposal[t].object # NoInst /\ disposal[t].at = "cancel" /\ CanLock(t)
    /\ q' = Cancelled(disposal[t].object)
    /\ disposal' = [disposal EXCEPT ![t].at = "notify"]
    /\ UNCHANGED <<idle, inst, timer, force, late, owedGC>> /\ disposalUnchanged

(* The notification is made before the queue is cleared.                   *)
MutantDisposeNotifies(t) ==
    /\ disposal[t].object # NoInst /\ disposal[t].at = "notify" /\ CanLock(t)
    /\ q' = Cancelled(disposal[t].object)
    /\ disposal' = [disposal EXCEPT ![t].at = "end"]
    /\ UNCHANGED <<idle, inst, timer, force, late, owedGC>> /\ disposalUnchanged

(* ... takes the lock anew to make a last notification DOWN itself, which  *)
(* is late if the destructor has begun meanwhile, ...                      *)
DisposeNotifies(t) ==
    /\ disposal[t].object # NoInst /\ disposal[t].at = "notify" /\ CanLock(t)
    /\ ToggleNotify(t, [object |-> disposal[t].object, direction |-> "DOWN"])
    /\ late' = IF Finalizing(disposal[t].object) THEN late \cup {disposal[t].object} ELSE late
    /\ disposal' = [disposal EXCEPT ![t].at = "end"]
    /\ disposalUnchanged

(* ... and is done with the toggle reference.                              *)
DisposeReturns(t) ==
    /\ disposal[t].object # NoInst /\ disposal[t].at = "end"
    /\ inst' = [inst EXCEPT ![disposal[t].object].toggle = FALSE,
                            ![disposal[t].object].wrapper = IF t = Main THEN "null" ELSE @]
    /\ disposal' = [disposal EXCEPT ![t] = NoDisposal]
    /\ UNCHANGED <<q, idle, timer, force, late, owedGC>> /\ disposalUnchanged

-----------------------------------------------------------------------------
(* JavaScript on the main thread.                                          *)

JSRuns == pc = "js" /\ Quiet(Main)

jsUnchanged == UNCHANGED <<q, holder, idle, stopped, gstate, disposal, pc, why, todo, cur,
                           finalizer, temp, timer, force, destroying, fault, owedGC, ownedAtGC>>

(* wrapper_from_gobject(): C passes g to JavaScript, which gets the        *)
(* wrapper that g has.                                                     *)
Reuse(g) ==
    /\ JSRuns /\ Main \in owners[g] /\ qdata[g] # NoInst
    /\ inst' = [inst EXCEPT ![qdata[g]].reach = TRUE]
    /\ UNCHANGED <<owners, qdata, note, late>> /\ jsUnchanged

(* set_object_qdata() is forgotten.                                        *)
MutantAssociate(g, i) ==
    /\ JSRuns /\ Main \in owners[g] /\ qdata[g] = NoInst
    /\ ~inst[i].live /\ InFlight(i) = {} /\ ~AnythingQueued(i)
    /\ inst' = [inst EXCEPT ![i] =
                  [live |-> TRUE, ptr |-> g, wrapper |-> "heap", toggle |-> FALSE,
                   disposed |-> gstate[g] = "disposed", linked |-> TRUE,
                   reach |-> TRUE, dead |-> FALSE]]
    /\ late' = late \ {i}
    /\ UNCHANGED <<owners, note, qdata>> /\ jsUnchanged

(* new_for_gobject() and associate_js_gobject(): g has no wrapper yet, or  *)
(* has been disposed and lost it.  The new structure is not where one was  *)
(* that a notification in flight or the queue still names.                 *)
Associate(g, i) ==
    /\ JSRuns /\ Main \in owners[g] /\ qdata[g] = NoInst
    /\ ~inst[i].live /\ InFlight(i) = {} /\ ~AnythingQueued(i)
    /\ inst' = [inst EXCEPT ![i] =
                  [live |-> TRUE, ptr |-> g, wrapper |-> "heap", toggle |-> FALSE,
                   disposed |-> gstate[g] = "disposed", linked |-> TRUE,
                   reach |-> TRUE, dead |-> FALSE]]
    /\ qdata' = [qdata EXCEPT ![g] = i]
    /\ late' = late \ {i}
    /\ UNCHANGED <<owners, note>> /\ jsUnchanged

(* add_property_impl() and ensure_uses_toggle_ref(): the first property    *)
(* set on the wrapper roots it and trades its reference for a toggle       *)
(* reference.  Dropping the ordinary one owes a notification if nobody     *)
(* else owns the object.                                                   *)
AddProperty(i) ==
    LET g == inst[i].ptr IN
    /\ JSRuns /\ inst[i].reach /\ g # NoObj /\ inst[i].wrapper = "heap"
    /\ ~inst[i].toggle /\ ~inst[i].disposed
    /\ inst' = [inst EXCEPT ![i].toggle = TRUE, ![i].wrapper = "root"]
    /\ note' = [note EXCEPT ![Main] =
                   IF owners[g] = {} THEN [object |-> i, direction |-> "DOWN"] ELSE @]
    /\ UNCHANGED <<owners, qdata, late>> /\ jsUnchanged

(* JavaScript drops its last path to the wrapper.                          *)
Forget(i) ==
    /\ JSRuns /\ inst[i].live /\ inst[i].reach
    /\ inst' = [inst EXCEPT ![i].reach = FALSE]
    /\ UNCHANGED <<owners, qdata, note, late>> /\ jsUnchanged

-----------------------------------------------------------------------------
(* The main loop drains the queue, with the lock held throughout.          *)

loopUnchanged == UNCHANGED <<owners, gstate, qdata, note, disposal, finalizer, temp, destroying,
                             late>>

StartDrain(reason) ==
    /\ Quiet(Main) /\ CanLock(Main)
    /\ holder' = Main /\ pc' = "drain" /\ why' = reason

(* GLib dispatches the idle source: idle_handle_toggle().                  *)
DispatchIdle ==
    /\ pc = "js" /\ idle = "attached" /\ StartDrain("idle")
    /\ idle' = "running"
    /\ UNCHANGED <<q, stopped, inst, todo, cur, timer, force, fault, owedGC, ownedAtGC>>
    /\ loopUnchanged

(* handle_toggle(): call the handler on the first item, then remove it.    *)
DrainOne ==
    /\ pc = "drain" /\ q # << >> /\ inst[Head(q).object].live
    /\ Handled(Head(q))
    /\ q' = Tail(q)
    /\ UNCHANGED <<holder, idle, stopped, pc, why, todo, cur, fault, ownedAtGC>>
    /\ loopUnchanged

(* The first item names an instance that is no more.                       *)
DrainDangling ==
    /\ pc = "drain" /\ q # << >> /\ ~inst[Head(q).object].live
    /\ fault' = "dangling"
    /\ UNCHANGED <<q, holder, idle, stopped, inst, pc, why, todo, cur, timer, force, owedGC,
                   ownedAtGC>>
    /\ loopUnchanged

(* History: the instances that something else owns and that were told so.  *)
KnownOwned == {i \in Insts : /\ Installed(i) /\ owners[inst[i].ptr] # {}
                             /\ InFlight(i) = {}}

(* handle_all_toggles() finds the queue empty and its caller unlocks it.   *)
DrainEnd ==
    /\ pc = "drain" /\ q = << >>
    /\ holder' = NoThread
    /\ pc' = CASE why = "idle" -> "idledone"
               [] why = "dispose" -> "shutdown"
               [] OTHER -> "mark"
    /\ idle' = IF why = "idle" THEN "returned" ELSE idle
    /\ ownedAtGC' = IF why \in {"gc", "timer"}
                    THEN KnownOwned ELSE ownedAtGC
    /\ UNCHANGED <<q, stopped, inst, why, todo, cur, timer, force, fault, owedGC>>
    /\ loopUnchanged

(* idle_destroy_notify(), which takes the lock anew.                       *)
IdleDestroyNotify ==
    /\ pc = "idledone" /\ CanLock(Main)
    /\ idle' = "none" /\ pc' = "js"
    /\ UNCHANGED <<q, holder, stopped, inst, why, todo, cur, timer, force, fault,
                   owedGC, ownedAtGC>>
    /\ loopUnchanged

-----------------------------------------------------------------------------
(* Garbage collection.  on_garbage_collection(JSGC_BEGIN) drains the       *)
(* queue; then the engine marks, calls the weak pointer callback, and      *)
(* finalizes what it has not marked.                                       *)

gcUnchanged == UNCHANGED <<idle, stopped, owners, note, disposal, temp, force,
                           destroying, late, ownedAtGC>>
noFinalizer == finalizer' = FALSE

(* The main thread is done with the C code that it called.                 *)
MainReturned == Quiet(Main) /\ temp = NoObj

(* The engine decides to collect, or JavaScript asks for it.               *)
CollectNow ==
    /\ pc = "js" /\ StartDrain("gc")
    /\ UNCHANGED <<q, inst, todo, cur, timer, fault, owedGC, gstate, qdata>>
    /\ gcUnchanged /\ noFinalizer

(* trigger_gc_if_needed(): the timer fires.  With m_force_gc it collects;   *)
(* without, the engine is only asked whether it wants to.                  *)
TriggerGC ==
    /\ pc = "js" /\ timer
    /\ timer' = FALSE
    /\ \/ StartDrain("timer")
       \/ ~force /\ Quiet(Main) /\ UNCHANGED <<holder, pc, why>>
    /\ UNCHANGED <<q, inst, todo, cur, fault, owedGC, gstate, qdata>>
    /\ gcUnchanged /\ noFinalizer

(* What JavaScript reached before the engine was torn down survives.       *)
MutantMark ==
    /\ pc = "mark"
    /\ inst' = [i \in Insts |->
                  [inst[i] EXCEPT !.dead = /\ inst[i].live
                                           /\ inst[i].wrapper # "root"
                                           /\ ~inst[i].reach]]
    /\ owedGC' = FALSE /\ pc' = "sweepstart"
    /\ UNCHANGED <<q, holder, why, todo, cur, timer, fault, gstate, qdata>>
    /\ gcUnchanged /\ noFinalizer

(* Marking: a wrapper dies if JavaScript does not reach it and it is not   *)
(* rooted.  When the engine is torn down nothing is reached.               *)
Mark ==
    /\ pc = "mark"
    /\ inst' = [i \in Insts |->
                  [inst[i] EXCEPT !.dead = /\ inst[i].live
                                           /\ inst[i].wrapper # "root"
                                           /\ inst[i].reach => why = "teardown"]]
    /\ owedGC' = FALSE
    /\ pc' = "sweepstart"
    /\ UNCHANGED <<q, holder, why, todo, cur, timer, fault, gstate, qdata>>
    /\ gcUnchanged /\ noFinalizer

(* Every operation of the sweep takes the lock for itself.                 *)
MutantSweepStart ==
    /\ pc = "sweepstart" /\ CanLock(Main)
    /\ pc' = "sweep" /\ todo' = {i \in Insts : inst[i].linked}
    /\ UNCHANGED <<q, holder, inst, why, timer, fault, owedGC, gstate, qdata>>
    /\ UNCHANGED cur /\ gcUnchanged /\ noFinalizer

(* update_heap_wrapper_weak_pointers(): the lock is kept to the end.       *)
SweepStart ==
    /\ pc = "sweepstart" /\ CanLock(Main)
    /\ holder' = Main /\ pc' = "sweep" /\ todo' = {i \in Insts : inst[i].linked}
    /\ UNCHANGED <<q, cur, inst, why, timer, fault, owedGC, gstate, qdata>>
    /\ gcUnchanged /\ noFinalizer

(* What is left of g when instance i drops its reference, and of i.        *)
Finalizes(i) == owners[inst[i].ptr] = {} /\ Holders(inst[i].ptr) = {i}
Released(i) ==
    [gstate EXCEPT ![inst[i].ptr] = IF Finalizes(i) THEN "finalized" ELSE @]
Lost(r) == [r EXCEPT !.ptr = NoObj, !.wrapper = "null"]
Unlinked(r) == [r EXCEPT !.linked = FALSE]
Detached(i) == [g \in GObjects |-> IF qdata[g] = i THEN NoInst ELSE qdata[g]]

OnlyUp(i) == IsQueued(i, "UP") /\ ~IsQueued(i, "DOWN")
OnlyDown(i) == IsQueued(i, "DOWN") /\ ~IsQueued(i, "UP")

(* weak_pointer_was_finalized(): a weak wrapper that the marking did not   *)
(* reach, unless it is about to be rooted.                                 *)
WeakPointerWasFinalized(i) ==
    inst[i].wrapper = "heap" /\ ~OnlyUp(i) /\ inst[i].dead

(* One round of remove_wrapped_gobjects_if() examines i, ...               *)
SweepOne(i) ==
    /\ pc = "sweep" /\ i \in todo /\ MainReturned
    /\ todo' = todo \ {i}
    /\ IF WeakPointerWasFinalized(i)
       THEN q' = Cancelled(i) /\ pc' = "disassociate" /\ cur' = i
       ELSE UNCHANGED <<q, pc, cur>>
    /\ UNCHANGED <<holder, inst, why, timer, fault, owedGC, gstate, qdata>>
    /\ gcUnchanged /\ noFinalizer

(* ... and if its wrapper died disassociate_js_gobject() cancels its       *)
(* toggles once more and lets the GObject go.                              *)
Disassociate ==
    /\ pc = "disassociate" /\ ~Disposing(cur)
    /\ fault' = IF OnlyUp(cur) THEN "pendingToggleUp" ELSE fault
    /\ q' = Cancelled(cur)
    /\ qdata' = Detached(cur)
    /\ gstate' = Released(cur)
    /\ finalizer' = Finalizes(cur)
    /\ inst' = [inst EXCEPT ![cur] = Unlinked(Lost(@))]
    /\ pc' = "sweep" /\ cur' = NoInst
    /\ UNCHANGED <<holder, todo, why, timer, owedGC>> /\ gcUnchanged

(* The lock is not given back.                                             *)
MutantSweepEnd ==
    /\ pc = "sweep" /\ todo = {} /\ MainReturned
    /\ pc' = "finalize" /\ todo' = {i \in Insts : inst[i].dead}
    /\ UNCHANGED <<q, holder, cur, inst, why, timer, fault, owedGC, gstate, qdata>>
    /\ gcUnchanged /\ noFinalizer

SweepEnd ==
    /\ pc = "sweep" /\ todo = {} /\ MainReturned
    /\ holder' = NoThread /\ pc' = "finalize"
    /\ todo' = {i \in Insts : inst[i].dead}
    /\ UNCHANGED <<q, cur, inst, why, timer, fault, owedGC, gstate, qdata>>
    /\ gcUnchanged /\ noFinalizer

(* ~ObjectInstance() cancels the toggles without keeping the lock, ...     *)
FinalizeOne(i) ==
    /\ pc = "finalize" /\ i \in todo /\ MainReturned /\ CanLock(Main)
    /\ fault' = IF inst[i].ptr # NoObj /\ OnlyDown(i) THEN "pendingToggleDown" ELSE fault
    /\ q' = Cancelled(i)
    /\ todo' = todo \ {i}
    /\ IF inst[i].ptr # NoObj
       THEN pc' = "release" /\ cur' = i /\ UNCHANGED inst
       ELSE inst' = [inst EXCEPT ![i] = Free] /\ UNCHANGED <<pc, cur>>
    /\ UNCHANGED <<holder, why, timer, owedGC, gstate, qdata>> /\ gcUnchanged /\ noFinalizer

(* ... then releases the GObject, so that no more toggles can come, ...    *)
FinalizeRelease ==
    /\ pc = "release" /\ ~Disposing(cur)
    /\ qdata' = Detached(cur)
    /\ gstate' = Released(cur)
    /\ inst' = [inst EXCEPT ![cur] = Lost(@)]
    /\ finalizer' = Finalizes(cur)
    /\ pc' = "cancel"
    /\ UNCHANGED <<q, holder, why, todo, cur, timer, fault, owedGC>> /\ gcUnchanged

(* The second cancel is left out.                                          *)
MutantNotCancelledAgain(i) == q

(* ... and cancels again what other threads queued between the two.        *)
CancelledAgain(i) == IF inst[i].toggle THEN Cancelled(i) ELSE q

FinalizeCancel ==
    /\ pc = "cancel" /\ MainReturned /\ CanLock(Main)
    /\ q' = CancelledAgain(cur)
    /\ inst' = [inst EXCEPT ![cur] = Free]
    /\ pc' = "finalize" /\ cur' = NoInst
    /\ UNCHANGED <<holder, why, todo, timer, fault, owedGC, gstate, qdata>>
    /\ gcUnchanged /\ noFinalizer

(* The main thread lets a GObject go while another thread is half way      *)
(* through gobj_dispose_notify() of its instance: both use m_ptr, and      *)
(* what comes of it is undefined.                                          *)
DisposalRaces ==
    /\ \E i \in Insts : Disposing(i) /\ \/ pc \in {"disassociate", "release"} /\ i = cur
                                        \/ pc = "prepare" /\ i \in todo
    /\ fault' = "disposalRaced"
    /\ UNCHANGED <<q, holder, inst, pc, why, todo, cur, finalizer, timer, owedGC, gstate, qdata>>
    /\ gcUnchanged

(* The collection is over; trigger_gc_if_needed() ends by clearing the     *)
(* flag that made it collect.                                              *)
FinalizeEnd ==
    /\ pc = "finalize" /\ todo = {} /\ MainReturned
    /\ pc' = CASE why = "final" -> "destroy"
               [] why = "teardown" -> "done"
               [] OTHER -> "js"
    /\ force' = IF why = "timer" THEN FALSE ELSE force
    /\ UNCHANGED <<q, holder, idle, stopped, inst, why, todo, cur, timer, fault,
                   owedGC, ownedAtGC>>
    /\ loopUnchanged

-----------------------------------------------------------------------------
(* gjs_context_dispose() and GjsContextPrivate::dispose().                 *)

(* gjs_object_clear_toggles()                                              *)
DisposeContext ==
    /\ CanDispose /\ pc = "js" /\ StartDrain("dispose")
    /\ UNCHANGED <<q, inst, todo, cur, timer, fault, owedGC, gstate, qdata>>
    /\ gcUnchanged /\ noFinalizer

(* gjs_object_shutdown_toggle_queue() asserts that the queue is empty; it  *)
(* takes the lock anew, after the drain has released it.                   *)
Shutdown ==
    /\ pc = "shutdown" /\ CanLock(Main)
    /\ IF q = << >> THEN stopped' = TRUE /\ pc' = "unroot" /\ UNCHANGED fault
       ELSE fault' = "queueNotEmpty" /\ UNCHANGED <<stopped, pc>>
    /\ UNCHANGED <<q, holder, idle, inst, why, todo, cur, timer, force, owedGC, ownedAtGC>>
    /\ loopUnchanged

(* ObjectInstance::context_dispose_notify() discards the rooted wrappers;  *)
(* the weak notifies that follow may run C code until the final collection.*)
ContextDisposeNotify ==
    /\ pc = "unroot"
    /\ inst' = [i \in Insts |->
                  IF inst[i].linked /\ inst[i].wrapper = "root"
                  THEN [inst[i] EXCEPT !.wrapper = "null"] ELSE inst[i]]
    /\ pc' = "finalgc"
    /\ UNCHANGED <<q, holder, why, todo, cur, timer, fault, owedGC, gstate, qdata>>
    /\ gcUnchanged /\ noFinalizer

FinalGC ==
    /\ pc = "finalgc" /\ StartDrain("final")
    /\ UNCHANGED <<q, inst, todo, cur, timer, fault, owedGC, gstate, qdata>>
    /\ gcUnchanged /\ noFinalizer

(* m_destroying is set, then prepare_shutdown() releases the GObject of    *)
(* every rooted wrapper, and the GC timer is removed.                      *)
Destroy ==
    /\ pc = "destroy"
    /\ destroying' = TRUE /\ pc' = "prepare"
    /\ todo' = {i \in Insts : inst[i].linked /\ inst[i].wrapper = "root"}
    /\ UNCHANGED <<q, holder, cur, idle, stopped, owners, note, disposal, finalizer, temp, force,
                   inst, why, timer, fault, late, owedGC, ownedAtGC, gstate, qdata>>

(* The loop over the instances does not advance past the erased one.       *)
MutantPrepareOne(i) ==
    /\ pc = "prepare" /\ i \in todo /\ ~Disposing(i)
    /\ gstate' = Released(i)
    /\ inst' = [inst EXCEPT ![i].wrapper = "null"]
    /\ UNCHANGED <<q, holder, pc, why, timer, fault, owedGC, qdata, todo, cur>>
    /\ gcUnchanged /\ noFinalizer

PrepareOne(i) ==
    /\ pc = "prepare" /\ i \in todo /\ ~Disposing(i)
    /\ todo' = todo \ {i}
    /\ gstate' = Released(i)
    /\ inst' = [inst EXCEPT ![i] = Unlinked(Lost(@))]
    /\ UNCHANGED <<q, holder, cur, pc, why, timer, fault, owedGC, qdata>>
    /\ gcUnchanged /\ noFinalizer

PrepareEnd ==
    /\ pc = "prepare" /\ todo = {}
    /\ timer' = FALSE /\ pc' = "teardown"
    /\ UNCHANGED <<q, holder, inst, why, todo, cur, fault, owedGC, gstate, qdata>>
    /\ gcUnchanged /\ noFinalizer

(* JS_DestroyContext() collects everything that is left.                   *)
DestroyContext ==
    /\ pc = "teardown" /\ StartDrain("teardown")
    /\ UNCHANGED <<q, inst, todo, cur, timer, fault, owedGC, gstate, qdata>>
    /\ gcUnchanged /\ noFinalizer

(* The context is gone, or a fault has stopped the process.                *)
Over == (pc = "done" \/ fault # "none") /\ UNCHANGED vars

-----------------------------------------------------------------------------
DisposalStep(t) == DisposeCancels(t) \/ DisposeNotifies(t) \/ DisposeReturns(t)

GLibStep == LeaveRef \/ \E t \in Threads : Deliver(t) \/ DisposalStep(t) \/ \E g \in GObjects :
               Ref(t, g) \/ Unref(t, g) \/ Dispose(t, g)

JSStep == \/ \E g \in GObjects : Reuse(g) \/ \E i \in Insts : Associate(g, i)
          \/ \E i \in Insts : AddProperty(i) \/ Forget(i)

QueueStep == DispatchIdle \/ DrainOne \/ DrainDangling \/ DrainEnd \/ IdleDestroyNotify

GCStep == \/ CollectNow \/ TriggerGC \/ Mark \/ SweepStart \/ SweepEnd \/ FinalizeEnd
          \/ Disassociate \/ FinalizeRelease \/ FinalizeCancel \/ DisposalRaces
          \/ \E i \in Insts : SweepOne(i) \/ FinalizeOne(i)

DisposeStep == \/ DisposeContext \/ Shutdown \/ ContextDisposeNotify \/ FinalGC
               \/ Destroy \/ PrepareEnd \/ DestroyContext
               \/ \E i \in Insts : PrepareOne(i)

Next == \/ fault = "none" /\ (GLibStep \/ JSStep \/ QueueStep \/ GCStep \/ DisposeStep)
        \/ Over

Spec == Init /\ [][Next]_vars

(* What the main thread does on its own once it has started: everything    *)
(* except to begin a collection, a JavaScript step or the disposal.        *)
MainProgress ==
    \/ DrainOne \/ DrainDangling \/ DrainEnd \/ IdleDestroyNotify
    \/ Mark \/ SweepStart \/ SweepEnd \/ FinalizeEnd
    \/ Shutdown \/ ContextDisposeNotify \/ FinalGC \/ Destroy \/ PrepareEnd \/ DestroyContext
    \/ Disassociate \/ FinalizeRelease \/ FinalizeCancel \/ DisposalRaces
    \/ \E i \in Insts : SweepOne(i) \/ FinalizeOne(i) \/ PrepareOne(i)

(* The C code that the main thread calls returns, its main loop serves an  *)
(* attached idle source (priority G_PRIORITY_HIGH) and an expired timer,   *)
(* and a thread that spins on the lock gets it.                            *)
Fairness ==
    /\ SF_vars(fault = "none" /\ MainProgress)
    /\ WF_vars(fault = "none" /\ (Deliver(Main) \/ DisposalStep(Main)))
    /\ WF_vars(fault = "none" /\ (LeaveRef \/ \E g \in GObjects : temp = g /\ Unref(Main, g)))
    /\ SF_vars(fault = "none" /\ DispatchIdle)
    /\ SF_vars(fault = "none" /\ TriggerGC)
    /\ \A t \in Threads \ {Main} : SF_vars(fault = "none" /\ (Deliver(t) \/ DisposalStep(t)))

LiveSpec == Spec /\ Fairness

-----------------------------------------------------------------------------
(* Safety.                                                                 *)

(* A toggle never waits in the queue together with its opposite: enqueue() *)
(* lets the two annihilate, whatever threads they came from.               *)
DirectionsExclusive == \A i \in Insts : ~(IsQueued(i, "UP") /\ IsQueued(i, "DOWN"))

(* The queue keeps unowned pointers: an instance still has its JavaScript  *)
(* object and its GObject while it is queued, or its destructor is about   *)
(* to cancel the entry.  Not so after a notification that came when its    *)
(* toggle reference had gone.                                              *)
QueuedAreAlive ==
    \A k \in 1..Len(q) :
        LET i == q[k].object IN
        i \in late \/ (inst[i].live /\ (inst[i].ptr # NoObj \/ Finalizing(i)))

(* ~ObjectInstance() lets other threads queue toggles "so that eventually  *)
(* (once the toggle reference is finally removed) we can be sure that no   *)
(* other toggle event will target this (soon dead) wrapper".               *)
DeadAreNotTargeted == \A k \in 1..Len(q) : inst[q[k].object].live

(* When GLib orders its notifications, an instance waits at most once      *)
(* while it has its toggle reference.                                      *)
OneItemPerObject ==
    SerialNotify => \A k, l \in 1..Len(q) :
                       q[k].object = q[l].object /\ Installed(q[k].object) => k = l

(* Whether the wrapper of i is rooted, or will be when the queue is empty. *)
EffectivelyRooted(i) ==
    IF IsQueued(i, "UP") THEN TRUE
    ELSE IF IsQueued(i, "DOWN") THEN FALSE
    ELSE inst[i].wrapper = "root"

(* ensure_uses_toggle_ref() says what the machinery is for: while          *)
(* something other than the wrapper owns the GObject the wrapper is        *)
(* rooted, otherwise it is not -- once what is queued has been handled,    *)
(* and until the notification in flight arrives.                           *)
RootingAgrees ==
    SerialNotify /\ ~stopped =>
        \A i \in Insts : Installed(i) /\ ~Finalizing(i) =>
            (EffectivelyRooted(i) <=> ((owners[inst[i].ptr] # {}) # (InFlight(i) # {})))

(* A wrapper that the marking has left for dead is never rooted again,     *)
(* whichever thread's toggle arrives while the collector runs: "as for     *)
(* sweeping, it is too late" (wrapped_gobj_toggle_notify).                 *)
DeadStaysUnrooted == \A i \in Insts : inst[i].dead => inst[i].wrapper # "root"

(* A collection lets a wrapper with JavaScript state go only if nothing    *)
(* else was known to own the GObject when the collection drained the queue.*)
CollectedWasUnowned ==
    SerialNotify =>
    (Collecting /\ pc # "cancel" /\ why \in {"gc", "timer"} =>
        \A i \in Insts : inst[i].dead /\ Installed(i) => i \notin ownedAtGC)

(* A GObject that has not been disposed has one wrapper: passing it to     *)
(* JavaScript again, between or during collections, finds the same one.    *)
OneWrapperPerObject ==
    \A i, j \in Insts : inst[i].ptr = inst[j].ptr /\ inst[i].ptr # NoObj
                        /\ ~inst[i].disposed /\ ~inst[j].disposed => i = j

(* The instance of an object disposed on another thread is unrooted by the *)
(* notification that its disposal makes last, whatever else is queued for  *)
(* it on the way; without it the wrapper would stay rooted until the       *)
(* context goes.  An UP that GLib had begun to deliver when the disposal   *)
(* removed the toggle reference, and that comes late, takes it away.       *)
DisposedGetsUnrooted ==
    ~stopped => \A i \in Insts \ late :
        inst[i].live /\ inst[i].disposed /\ inst[i].wrapper = "root" =>
            IsQueued(i, "DOWN") \/ Disposing(i)

(* disassociate_js_gobject() never meets a wrapper that is about to be     *)
(* rooted (its g_error).                                                   *)
NoPendingUpFault == fault # "pendingToggleUp"

(* ~ObjectInstance() never meets a wrapper that is still to be unrooted    *)
(* (its g_error).                                                          *)
NoPendingDownFault == fault # "pendingToggleDown"

(* ToggleQueue::shutdown() finds the queue empty (its g_assert).           *)
QueueEmptyAtShutdown == fault # "queueNotEmpty"

(* When the context is gone no instance is left, and no GObject stays      *)
(* alive that only a wrapper held.                                         *)
AllReleasedAtEnd ==
    pc = "done" => /\ \A i \in Insts : ~inst[i].live
                   /\ \A g \in GObjects : owners[g] = {} => gstate[g] = "finalized"

(* toggle_down(): "always queue a garbage collection when a toggle         *)
(* reference goes down" -- whenever JavaScript runs and a wrapper was      *)
(* unrooted since the last marking, a full collection is scheduled.        *)
ToggleDownSchedulesGC == pc = "js" /\ owedGC => timer /\ force

-----------------------------------------------------------------------------
(* What makes the safety properties hold step by step: the parts of the    *)
(* inductive invariants of ObjectWrapper_proofs.                           *)

(* The main thread has the lock of the queue while it drains or sweeps,    *)
(* and nobody has it between the steps of anything else.                   *)
LockHeld == holder = IF pc \in {"drain", "sweep", "disassociate"} THEN Main ELSE NoThread

(* An instance is taken out of a loop exactly where one is worked on.      *)
CurTaken == IF pc \in {"disassociate", "release", "cancel"} THEN cur \in Insts
            ELSE cur = NoInst

(* The dead are those that the collection under way has yet to finalize.   *)
DeadAreLeft ==
    \A i \in Insts : inst[i].dead =>
        \/ pc \in {"sweepstart", "sweep", "disassociate"}
        \/ pc \in {"finalize", "release", "cancel"} /\ i \in todo \cup {cur}

(* Between the look at the queue and the disassociation nothing is queued: *)
(* others wait for the lock and the main thread calls no C code.           *)
SweepUndisturbed ==
    pc = "disassociate" => ~AnythingQueued(cur) /\ Quiet(Main) /\ ~finalizer

(* Nothing is queued for an instance whose toggle reference went before    *)
(* its destructor cancelled: what the second cancel is spared for.  Unless *)
(* a notification comes late.                                              *)
NothingToCancel ==
    pc \in {"release", "cancel"} /\ (inst[cur].disposed \/ ~inst[cur].toggle) /\ cur \notin late
        => ~AnythingQueued(cur)

(* A disposal under way is about an instance that still has its GObject,   *)
(* is marked as disposed and not as done with its toggle reference; no two *)
(* disposals are about the same one.                                       *)
DisposalsAreLive ==
    \A t \in Threads : LET i == disposal[t].object IN i # NoInst =>
        /\ inst[i].live /\ inst[i].disposed /\ inst[i].toggle /\ inst[i].ptr # NoObj
        /\ \A u \in Threads : disposal[u].object = i => u = t

(* From its shutdown on the queue is empty.                                *)
StoppedIsEmpty ==
    /\ stopped => q = << >>
    /\ \/ pc \in {"unroot", "finalgc", "destroy", "prepare", "teardown"}
       \/ why \in {"final", "teardown"}
       => stopped

(* The GObject of an instance leads back to it until it is disposed of; a  *)
(* thread may dispose of it under the destructor's hands, until the        *)
(* destructor has released it.                                             *)
LeadsBack ==
    /\ \A i \in Insts : inst[i].ptr # NoObj =>
          /\ inst[i].live
          /\ ~inst[i].disposed => \/ qdata[inst[i].ptr] = i
                                  \/ pc = "release" /\ i = cur /\ qdata[inst[i].ptr] = NoInst
    /\ pc = "cancel" => inst[cur].ptr = NoObj

(* Where the collector and the main thread's loops stand: who may touch    *)
(* the toggle queue, which instances a collection, a sweep or a destructor *)
(* still has to deal with, and that every object leads to its instance.    *)
(* Every step of update_heap_wrapper_weak_pointers(), ~ObjectInstance()    *)
(* and dispose() keeps all of it, whatever the other threads do.           *)
CollectorInv ==
    /\ LockHeld /\ CurTaken /\ DeadAreLeft /\ SweepUndisturbed /\ NothingToCancel
    /\ StoppedIsEmpty /\ LeadsBack /\ DisposalsAreLive

-----------------------------------------------------------------------------
(* Liveness.                                                               *)

(* toggle.h: enqueue() "queues a toggle to be processed in idle time".     *)
QueuedIsHandled == \A i \in Insts : AnythingQueued(i) ~> ~AnythingQueued(i)

(* A thread that changes a reference count gets through its notification:  *)
(* the main thread never keeps the queue's lock for good.                  *)
NotificationsDelivered == \A t \in Threads : ~Quiet(t) ~> Quiet(t) \/ fault # "none"

(* Once begun, the disposal of the context comes to its end.               *)
ContextDisposeEnds == pc = "shutdown" ~> pc = "done" \/ fault # "none"

=============================================================================
