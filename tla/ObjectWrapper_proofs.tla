------------------------ MODULE ObjectWrapper_proofs ------------------------
(***************************************************************************)
(* Theorems about ObjectWrapper, for every set of GObjects, of             *)
(* ObjectInstances and of threads, and in every mode of the constants; and *)
(* at the end about Invocation, for every set of closures, of wrappers and *)
(* of functions, whatever their signatures.                                *)
(***************************************************************************)
EXTENDS ObjectWrapper, Invocation, Lists_proofs

------------------------------
(* What the operations of ToggleQueue return, for every set of instances   *)
(* and every queue.                                                        *)

(* cancel() leaves a queue without the object, and every other item stays. *)
LEMMA CancelledProperties ==
    ASSUME QueueTypeOK, NEW obj \in Insts
    PROVE  /\ Cancelled(obj) \in Seq(Item)
           /\ \A n \in 1..Len(Cancelled(obj)) :
                  \E k \in 1..Len(q) : q[k].object # obj /\ Cancelled(obj)[n] = q[k]
           /\ \A k \in 1..Len(q) : q[k].object # obj =>
                  \E n \in 1..Len(Cancelled(obj)) : Cancelled(obj)[n] = q[k]
<1> DEFINE K == {k \in 1..Len(q) : q[k].object # obj}
<1>1. q \in Seq(Item) /\ K \in SUBSET (1..Len(q))
    BY DEF QueueTypeOK
<1>2. Cancelled(obj) = Keep(q, K)
    BY DEF Cancelled
<1> HIDE DEF K
<1>3. Keep(q, K) \in Seq(Item)
    BY <1>1, KeepItems
<1>4. \A n \in 1..Len(Keep(q, K)) : \E k \in K : Keep(q, K)[n] = q[k]
    BY <1>1, KeepSound
<1>5. \A k \in K : \E n \in 1..Len(Keep(q, K)) : Keep(q, K)[n] = q[k]
    BY <1>1, KeepComplete
<1> QED
    BY <1>2, <1>3, <1>4, <1>5 DEF K

(* enqueue() returns a queue of items: each was there before or is the new *)
(* one, and the new one is there only if its opposite is not.              *)
LEMMA EnqueuedProperties ==
    ASSUME QueueTypeOK, NEW obj \in Insts, NEW d \in Direction
    PROVE  /\ Enqueued(obj, d) \in Seq(Item)
           /\ \A n \in 1..Len(Enqueued(obj, d)) :
                  \/ \E k \in 1..Len(q) : Enqueued(obj, d)[n] = q[k]
                  \/ /\ Enqueued(obj, d)[n] = [object |-> obj, direction |-> d]
                     /\ ~IsQueued(obj, Opposite(d))
<1> DEFINE new == [object |-> obj, direction |-> d]
           K == (1..Len(q)) \ {Nth(Positions(obj, Opposite(d)), 1)}
<1>1. q \in Seq(Item) /\ new \in Item /\ Len(q) \in Nat
    BY LenProperties DEF QueueTypeOK, Item
<1>2. CASE stopped
    BY <1>1, <1>2 DEF Enqueued
<1>3. CASE ~stopped /\ IsQueued(obj, Opposite(d))
    <2>1. Enqueued(obj, d) = Keep(q, K) /\ K \in SUBSET (1..Len(q))
        BY <1>3 DEF Enqueued
    <2> HIDE DEF K
    <2>2. Keep(q, K) \in Seq(Item)
        BY <1>1, <2>1, KeepItems
    <2>3. \A n \in 1..Len(Keep(q, K)) : \E k \in K : Keep(q, K)[n] = q[k]
        BY <1>1, <2>1, KeepSound
    <2> QED
        BY <2>1, <2>2, <2>3
<1>4. CASE ~stopped /\ ~IsQueued(obj, Opposite(d))
    <2>1. Enqueued(obj, d) = Append(q, new)
        BY <1>4 DEF Enqueued
    <2>2. /\ Append(q, new) \in Seq(Item)
          /\ Len(Append(q, new)) = Len(q) + 1
          /\ \A n \in 1..Len(q) : Append(q, new)[n] = q[n]
          /\ Append(q, new)[Len(q) + 1] = new
        BY <1>1
    <2> QED
        BY <1>1, <1>4, <2>1, <2>2
<1> QED
    BY <1>2, <1>3, <1>4

------------------------------
(* The null pointers and the record types, as facts that a step can cite.  *)
LEMMA FreeInstance == Free \in Instance
BY DEF Free, Instance, Wrapper

(* Changes of a field or two leave an ObjectInstance.                      *)
LEMMA FieldTypes ==
    ASSUME NEW r \in Instance
    PROVE  /\ \A b \in BOOLEAN : [r EXCEPT !.reach = b] \in Instance
           /\ Lost(r) \in Instance
           /\ Unlinked(r) \in Instance
           /\ [r EXCEPT !.wrapper = "null"] \in Instance
           /\ [r EXCEPT !.toggle = TRUE, !.wrapper = "root"] \in Instance
           /\ [r EXCEPT !.toggle = FALSE] \in Instance
           /\ [r EXCEPT !.toggle = FALSE, !.wrapper = "null"] \in Instance
BY DEF Instance, Wrapper, Lost, Unlinked

(* toggle_up() and toggle_down() leave an ObjectInstance.                  *)
LEMMA ToggledType ==
    ASSUME NEW r \in Instance
    PROVE  ToggledUp(r) \in Instance /\ ToggledDown(r) \in Instance
BY DEF ToggledUp, ToggledDown, Instance, Wrapper

(* What schedule_gc_internal() assigns.                                    *)
LEMMA ScheduleGCType ==
    ASSUME TypeOK, NEW r, ScheduleGC(r)
    PROVE  timer' \in BOOLEAN /\ force' \in BOOLEAN /\ owedGC' \in BOOLEAN
BY DEF TypeOK, ScheduleGC

(* What the function that the queue calls assigns.                         *)
LEMMA HandledType ==
    ASSUME TypeOK, NEW item \in Item, Handled(item)
    PROVE  /\ inst' \in [Insts -> Instance]
           /\ timer' \in BOOLEAN /\ force' \in BOOLEAN /\ owedGC' \in BOOLEAN
<1>1. item.object \in Insts
    BY DEF Item
<1>2. inst \in [Insts -> Instance] /\ inst[item.object] \in Instance
    BY <1>1 DEF TypeOK
<1>3. inst' \in [Insts -> Instance]
    <2> DEFINE r == IF item.direction = "DOWN" THEN ToggledDown(inst[item.object])
                    ELSE ToggledUp(inst[item.object])
    <2>1. r \in Instance
        BY <1>2, ToggledType
    <2>2. inst' = [inst EXCEPT ![item.object] = r]
        BY DEF Handled
    <2> HIDE DEF r
    <2> QED
        BY <1>2, <2>1, <2>2
<1>4. CASE item.direction = "DOWN"
    BY <1>3, <1>4, ScheduleGCType DEF Handled
<1>5. CASE item.direction # "DOWN"
    BY <1>3, <1>5 DEF Handled, TypeOK
<1> QED
    BY <1>4, <1>5

(* What enqueue() assigns.                                                 *)
LEMMA EnqueueType ==
    ASSUME QueueTypeOK, NEW obj \in Insts, NEW d \in Direction, Enqueue(obj, d)
    PROVE  q' \in Seq(Item) /\ idle' \in IdleState
<1>1. q' \in Seq(Item)
    BY EnqueuedProperties DEF Enqueue
<1>2. idle' \in IdleState
    BY DEF Enqueue, Wake, QueueTypeOK, IdleState
<1> QED
    BY <1>1, <1>2

(* What a toggle notification assigns.                                     *)
LEMMA ToggleNotifyType ==
    ASSUME TypeOK, NEW t \in Threads, NEW item \in Item, ToggleNotify(t, item)
    PROVE  /\ inst' \in [Insts -> Instance]
           /\ q' \in Seq(Item) /\ idle' \in IdleState
           /\ timer' \in BOOLEAN /\ force' \in BOOLEAN /\ owedGC' \in BOOLEAN
<1>1. QueueTypeOK
    BY DEF TypeOK
<1>2. CASE destroying
    BY <1>1, <1>2 DEF ToggleNotify, TypeOK, QueueTypeOK
<1>3. CASE ~destroying /\ Immediate(t, item)
    <2>1. Handled(item) /\ UNCHANGED <<q, idle>>
        BY <1>3 DEF ToggleNotify
    <2> QED
        BY <1>1, <2>1, HandledType DEF QueueTypeOK
<1>4. CASE ~destroying /\ ~Immediate(t, item)
    <2>1. Enqueue(item.object, item.direction) /\ UNCHANGED <<inst, timer, force, owedGC>>
        BY <1>4 DEF ToggleNotify
    <2>2. item.object \in Insts /\ item.direction \in Direction
        BY DEF Item
    <2> QED
        BY <1>1, <2>1, <2>2, EnqueueType DEF TypeOK
<1> QED
    BY <1>2, <1>3, <1>4

------------------------------
(* Type correctness, one lemma per group of actions.                       *)

(* A notification owed is one, or none is owed.                            *)
LEMMA OwedType ==
    ASSUME NEW g, NEW d \in Direction
    PROVE  Owed(g, d) \in Note \cup {NoNote}
<1>1. CASE ToggleRefs(g) = {}
    BY <1>1 DEF Owed
<1>2. CASE ToggleRefs(g) # {}
    <2>1. (CHOOSE i \in ToggleRefs(g) : TRUE) \in Insts
        BY <1>2 DEF ToggleRefs
    <2> QED
        BY <1>2, <2>1 DEF Owed, Note
<1> QED
    BY <1>1, <1>2

(* References and notifications keep the types.                            *)
LEMMA RefType ==
    ASSUME TypeOK, NEW t \in Threads, NEW g \in GObjects, Ref(t, g)
    PROVE  TypeOK'
<1>1. Owed(g, "UP") \in Note \cup {NoNote}
    BY OwedType DEF Direction
<1>2. note' \in [Threads -> Note \cup {NoNote}]
    BY <1>1 DEF Ref, TypeOK
<1>3. owners' \in [GObjects -> SUBSET Threads]
    BY DEF Ref, TypeOK
<1>4. temp' \in GObjects \cup {NoObj}
    BY DEF Ref, TypeOK
<1> QED
    BY <1>2, <1>3, <1>4 DEF Ref, TypeOK, QueueTypeOK

LEMMA UnrefType ==
    ASSUME TypeOK, NEW t \in Threads, NEW g \in GObjects, Unref(t, g)
    PROVE  TypeOK'
<1>1. Owed(g, "DOWN") \in Note \cup {NoNote}
    BY OwedType DEF Direction
<1>2. note' \in [Threads -> Note \cup {NoNote}]
    BY <1>1 DEF Unref, TypeOK
<1>3. owners' \in [GObjects -> SUBSET Threads]
    BY DEF Unref, TypeOK
<1>4. gstate' \in [GObjects -> {"alive", "disposed", "finalized"}]
    BY DEF Unref, TypeOK
<1>5. temp' \in GObjects \cup {NoObj}
    BY DEF Unref, TypeOK
<1> QED
    BY <1>2, <1>3, <1>4, <1>5 DEF Unref, TypeOK, QueueTypeOK

LEMMA DeliverType ==
    ASSUME TypeOK, NEW t \in Threads, Deliver(t)
    PROVE  TypeOK'
<1>1. note' \in [Threads -> Note \cup {NoNote}]
    BY DEF Deliver, TypeOK
<1>2. note[t] \in Item /\ note[t].object \in Insts
    BY DEF Deliver, TypeOK, Note, Item
<1>3. /\ inst' \in [Insts -> Instance]
      /\ q' \in Seq(Item) /\ idle' \in IdleState
      /\ timer' \in BOOLEAN /\ force' \in BOOLEAN /\ owedGC' \in BOOLEAN
    <2>1. CASE ToggleNotify(t, note[t])
        BY <1>2, <2>1, ToggleNotifyType
    <2>2. CASE UNCHANGED <<inst, timer, force, owedGC, q, idle>>
        BY <2>2 DEF TypeOK, QueueTypeOK
    <2> QED
        BY <2>1, <2>2 DEF Deliver
<1>4. late' \in SUBSET Insts
    BY <1>2 DEF Deliver, TypeOK
<1> QED
    BY <1>1, <1>3, <1>4 DEF Deliver, TypeOK, QueueTypeOK

(* The instance that a disposal under way is about.                        *)
LEMMA DisposalType ==
    ASSUME TypeOK, NEW t \in Threads, disposal[t].object # NoInst
    PROVE  /\ disposal[t] \in Disposal /\ disposal[t].object \in Insts
           /\ [object |-> disposal[t].object, direction |-> "DOWN"] \in Item
<1>1. disposal[t] \in Disposal
    BY DEF TypeOK, NoDisposal
<1> QED
    BY <1>1 DEF Disposal, Item, Direction

LEMMA DisposeType ==
    ASSUME TypeOK, NEW t \in Threads, NEW g \in GObjects, Dispose(t, g)
    PROVE  TypeOK'
<1> DEFINE watching == {i \in Holders(g) : ~inst[i].disposed /\ ~Finalizing(i)}
           fate(r) == [r EXCEPT !.disposed = TRUE,
                           !.wrapper = IF t = Main /\ ~r.toggle THEN "null" ELSE @]
           f(i) == IF i \in watching THEN fate(inst[i]) ELSE inst[i]
<1>1. watching \in SUBSET Insts
    BY DEF Holders
<1>2. inst' \in [Insts -> Instance]
    <2>1. \A r \in Instance : fate(r) \in Instance
        BY DEF Instance, Wrapper
    <2>2. \A i \in Insts : inst[i] \in Instance
        BY DEF TypeOK
    <2>3. inst' = [i \in Insts |-> f(i)]
        BY DEF Dispose
    <2> HIDE DEF fate, watching
    <2> QED
        BY <2>1, <2>2, <2>3
<1>3. gstate' \in [GObjects -> {"alive", "disposed", "finalized"}]
    BY DEF Dispose, TypeOK
<1>4. qdata' \in [GObjects -> Insts \cup {NoInst}]
    BY DEF Dispose, TypeOK
<1>5. disposal' \in [Threads -> Disposal \cup {NoDisposal}]
    <2>1. CASE \E i \in watching : inst[i].toggle
        <3>1. (CHOOSE i \in watching : inst[i].toggle) \in Insts
            BY <1>1, <2>1
        <3> QED
            BY <2>1, <3>1 DEF Dispose, TypeOK, Disposal
    <2>2. CASE ~ \E i \in watching : inst[i].toggle
        BY <2>2 DEF Dispose, TypeOK
    <2> QED
        BY <2>1, <2>2
<1> QED
    BY <1>2, <1>3, <1>4, <1>5 DEF Dispose, TypeOK, QueueTypeOK

LEMMA DisposalStepType ==
    ASSUME TypeOK, NEW t \in Threads, DisposalStep(t)
    PROVE  TypeOK'
<1> USE DEF disposalUnchanged
<1>1. disposal[t].object # NoInst
    BY DEF DisposalStep, DisposeCancels, DisposeNotifies, DisposeReturns
<1>2. /\ disposal[t] \in Disposal /\ disposal[t].object \in Insts
      /\ [object |-> disposal[t].object, direction |-> "DOWN"] \in Item
    BY <1>1, DisposalType
<1>3. CASE DisposeCancels(t)
    <2>1. Cancelled(disposal[t].object) \in Seq(Item)
        BY <1>2, CancelledProperties DEF TypeOK
    <2>2. disposal' \in [Threads -> Disposal \cup {NoDisposal}]
        BY <1>2, <1>3 DEF DisposeCancels, TypeOK, Disposal
    <2> QED
        BY <1>3, <2>1, <2>2 DEF DisposeCancels, TypeOK, QueueTypeOK
<1>4. CASE DisposeNotifies(t)
    <2>1. /\ inst' \in [Insts -> Instance]
          /\ q' \in Seq(Item) /\ idle' \in IdleState
          /\ timer' \in BOOLEAN /\ force' \in BOOLEAN /\ owedGC' \in BOOLEAN
        BY <1>2, <1>4, ToggleNotifyType DEF DisposeNotifies
    <2>2. disposal' \in [Threads -> Disposal \cup {NoDisposal}]
        BY <1>2, <1>4 DEF DisposeNotifies, TypeOK, Disposal
    <2>3. late' \in SUBSET Insts
        BY <1>2, <1>4 DEF DisposeNotifies, TypeOK
    <2> QED
        BY <1>4, <2>1, <2>2, <2>3 DEF DisposeNotifies, TypeOK, QueueTypeOK
<1>5. CASE DisposeReturns(t)
    <2>1. inst' \in [Insts -> Instance]
        <3> DEFINE i == disposal[t].object
                   r == [inst[i] EXCEPT !.toggle = FALSE,
                                        !.wrapper = IF t = Main THEN "null" ELSE @]
        <3>1. inst[i] \in Instance
            BY <1>2 DEF TypeOK
        <3>2. r \in Instance
            BY <3>1 DEF Instance, Wrapper
        <3>3. inst' = [inst EXCEPT ![i] = r]
            BY <1>2, <1>5 DEF DisposeReturns, TypeOK
        <3> HIDE DEF r
        <3> QED
            BY <3>2, <3>3 DEF TypeOK
    <2>2. disposal' \in [Threads -> Disposal \cup {NoDisposal}]
        BY <1>5 DEF DisposeReturns, TypeOK
    <2> QED
        BY <1>5, <2>1, <2>2 DEF DisposeReturns, TypeOK, QueueTypeOK
<1> QED
    BY <1>3, <1>4, <1>5 DEF DisposalStep

(* JavaScript steps keep the types.                                        *)
LEMMA JSStepType ==
    ASSUME TypeOK, JSStep
    PROVE  TypeOK'
<1>1. ASSUME NEW g \in GObjects, Reuse(g)
      PROVE  TypeOK'
    <2>1. qdata[g] \in Insts
        BY <1>1 DEF Reuse, TypeOK
    <2>2. inst' \in [Insts -> Instance]
        <3> DEFINE r == [inst[qdata[g]] EXCEPT !.reach = TRUE]
        <3>1. inst[qdata[g]] \in Instance
            BY <2>1 DEF TypeOK
        <3>2. r \in Instance
            BY <3>1, FieldTypes
        <3>3. inst' = [inst EXCEPT ![qdata[g]] = r]
            BY <1>1 DEF Reuse
        <3> HIDE DEF r
        <3> QED
            BY <3>2, <3>3 DEF TypeOK
    <2> QED
        BY <1>1, <2>2 DEF Reuse, jsUnchanged, TypeOK, QueueTypeOK
<1>2. ASSUME NEW g \in GObjects, NEW i \in Insts, Associate(g, i)
      PROVE  TypeOK'
    <2>1. [live |-> TRUE, ptr |-> g, wrapper |-> "heap", toggle |-> FALSE,
           disposed |-> gstate[g] = "disposed", linked |-> TRUE,
           reach |-> TRUE, dead |-> FALSE] \in Instance
        BY DEF Instance, Wrapper
    <2>2. /\ inst' \in [Insts -> Instance] /\ qdata' \in [GObjects -> Insts \cup {NoInst}]
          /\ late' \in SUBSET Insts
        BY <1>2, <2>1 DEF Associate, TypeOK
    <2> QED
        BY <1>2, <2>2 DEF Associate, jsUnchanged, TypeOK, QueueTypeOK
<1>3. ASSUME NEW i \in Insts, AddProperty(i)
      PROVE  TypeOK'
    <2>1. inst' \in [Insts -> Instance]
        BY <1>3 DEF AddProperty, TypeOK, Instance, Wrapper
    <2>2. note' \in [Threads -> Note \cup {NoNote}]
        <3>1. [object |-> i, direction |-> "DOWN"] \in Note
            BY DEF Note, Direction
        <3> QED
            BY <1>3, <3>1 DEF AddProperty, TypeOK
    <2> QED
        BY <1>3, <2>1, <2>2 DEF AddProperty, jsUnchanged, TypeOK, QueueTypeOK
<1>4. ASSUME NEW i \in Insts, Forget(i)
      PROVE  TypeOK'
    <2>1. inst' \in [Insts -> Instance]
        <3> DEFINE r == [inst[i] EXCEPT !.reach = FALSE]
        <3>1. r \in Instance
            BY FieldTypes DEF TypeOK
        <3>2. inst' = [inst EXCEPT ![i] = r]
            BY <1>4 DEF Forget
        <3> HIDE DEF r
        <3> QED
            BY <3>1, <3>2 DEF TypeOK
    <2> QED
        BY <1>4, <2>1 DEF Forget, jsUnchanged, TypeOK, QueueTypeOK
<1> QED
    BY <1>1, <1>2, <1>3, <1>4 DEF JSStep

(* The drain of the queue keeps the types.                                 *)
LEMMA QueueStepType ==
    ASSUME TypeOK, QueueStep
    PROVE  TypeOK'
<1>1. Main \in Threads
    BY ConstantsAssumption
<1>2. CASE DispatchIdle
    BY <1>1, <1>2 DEF DispatchIdle, StartDrain, loopUnchanged, TypeOK, QueueTypeOK,
                      IdleState, PC, Why
<1>3. CASE DrainOne
    <2>1. Head(q) \in Item /\ Tail(q) \in Seq(Item)
        BY <1>3, HeadTailProperties DEF DrainOne, TypeOK, QueueTypeOK
    <2>2. /\ inst' \in [Insts -> Instance]
          /\ timer' \in BOOLEAN /\ force' \in BOOLEAN /\ owedGC' \in BOOLEAN
        BY <1>3, <2>1, HandledType DEF DrainOne
    <2> QED
        BY <1>3, <2>1, <2>2 DEF DrainOne, loopUnchanged, TypeOK, QueueTypeOK
<1>4. CASE DrainEnd
    BY <1>4 DEF DrainEnd, loopUnchanged, TypeOK, QueueTypeOK, IdleState, PC, KnownOwned
<1>5. CASE IdleDestroyNotify
    BY <1>5 DEF IdleDestroyNotify, loopUnchanged, TypeOK, QueueTypeOK, IdleState, PC
<1>6. CASE DrainDangling
    BY <1>6 DEF DrainDangling, loopUnchanged, TypeOK, QueueTypeOK, Fault
<1> QED
    BY <1>2, <1>3, <1>4, <1>5, <1>6 DEF QueueStep

(* What release_native_object() and unset_object_qdata() assign.           *)
LEMMA ReleaseType ==
    ASSUME TypeOK, NEW i
    PROVE  /\ Released(i) \in [GObjects -> {"alive", "disposed", "finalized"}]
           /\ Detached(i) \in [GObjects -> Insts \cup {NoInst}]
           /\ Finalizes(i) \in BOOLEAN
<1>1. Released(i) \in [GObjects -> {"alive", "disposed", "finalized"}]
    BY DEF TypeOK, Released
<1>2. Detached(i) \in [GObjects -> Insts \cup {NoInst}]
    BY DEF TypeOK, Detached
<1>3. Finalizes(i) \in BOOLEAN
    BY DEF Finalizes
<1> QED
    BY <1>1, <1>2, <1>3

(* The collection keeps the types.                                         *)
LEMMA GCStepType ==
    ASSUME TypeOK, CurTaken, GCStep
    PROVE  TypeOK'
<1> USE DEF gcUnchanged, noFinalizer
<1>1. Main \in Threads /\ QueueTypeOK
    BY ConstantsAssumption DEF TypeOK
<1>2. \A i \in Insts : inst[i] \in Instance /\ Cancelled(i) \in Seq(Item)
    BY <1>1, CancelledProperties DEF TypeOK
<1>3. CASE CollectNow
    BY <1>1, <1>3 DEF CollectNow, StartDrain, TypeOK, QueueTypeOK, PC, Why
<1>4. CASE TriggerGC
    BY <1>1, <1>4 DEF TriggerGC, StartDrain, TypeOK, QueueTypeOK, PC, Why
<1>5. CASE Mark
    <2>1. inst' \in [Insts -> Instance]
        BY <1>2, <1>5 DEF Mark, Instance
    <2> QED
        BY <1>5, <2>1 DEF Mark, TypeOK, QueueTypeOK, PC
<1>6. CASE SweepStart
    BY <1>1, <1>6 DEF SweepStart, TypeOK, QueueTypeOK, PC
<1>7. CASE SweepEnd
    BY <1>7 DEF SweepEnd, TypeOK, QueueTypeOK, PC
<1>8. CASE FinalizeEnd
    BY <1>8 DEF FinalizeEnd, loopUnchanged, TypeOK, QueueTypeOK, PC
<1>9. CASE Disassociate
    <2>1. cur \in Insts
        BY <1>9 DEF Disassociate, CurTaken
    <2>2. inst' \in [Insts -> Instance]
        BY <1>2, <1>9, <2>1, FieldTypes DEF Disassociate, TypeOK
    <2>3. q' \in Seq(Item)
        BY <1>2, <1>9, <2>1 DEF Disassociate
    <2>4. /\ qdata' \in [GObjects -> Insts \cup {NoInst}]
          /\ gstate' \in [GObjects -> {"alive", "disposed", "finalized"}]
          /\ finalizer' \in BOOLEAN
        BY <1>9, ReleaseType DEF Disassociate
    <2> QED
        BY <1>9, <2>2, <2>3, <2>4 DEF Disassociate, TypeOK, QueueTypeOK, PC, Fault
<1>10. CASE FinalizeRelease
    <2>1. cur \in Insts
        BY <1>10 DEF FinalizeRelease, CurTaken
    <2>2. inst' \in [Insts -> Instance]
        BY <1>2, <1>10, <2>1, FieldTypes DEF FinalizeRelease, TypeOK
    <2>3. /\ qdata' \in [GObjects -> Insts \cup {NoInst}]
          /\ gstate' \in [GObjects -> {"alive", "disposed", "finalized"}]
          /\ finalizer' \in BOOLEAN
        BY <1>10, ReleaseType DEF FinalizeRelease
    <2> QED
        BY <1>10, <2>2, <2>3 DEF FinalizeRelease, TypeOK, QueueTypeOK, PC
<1>11. CASE FinalizeCancel
    <2>1. cur \in Insts
        BY <1>11 DEF FinalizeCancel, CurTaken
    <2>2. inst' \in [Insts -> Instance]
        BY <1>11, <2>1, FreeInstance DEF FinalizeCancel, TypeOK
    <2>3. q' \in Seq(Item)
        BY <1>1, <1>2, <1>11, <2>1 DEF FinalizeCancel, CancelledAgain, QueueTypeOK
    <2> QED
        BY <1>11, <2>2, <2>3 DEF FinalizeCancel, TypeOK, QueueTypeOK, PC
<1>12. ASSUME NEW i \in Insts, SweepOne(i)
       PROVE  TypeOK'
    <2>1. q' \in Seq(Item)
        BY <1>1, <1>2, <1>12 DEF SweepOne, QueueTypeOK
    <2>2. pc' \in PC /\ cur' \in Insts \cup {NoInst}
        BY <1>12 DEF SweepOne, TypeOK, PC
    <2> QED
        BY <1>12, <2>1, <2>2 DEF SweepOne, TypeOK, QueueTypeOK
<1>13. ASSUME NEW i \in Insts, FinalizeOne(i)
       PROVE  TypeOK'
    <2>1. q' \in Seq(Item)
        BY <1>2, <1>13 DEF FinalizeOne
    <2>2. pc' \in PC /\ cur' \in Insts \cup {NoInst}
        BY <1>13 DEF FinalizeOne, TypeOK, PC
    <2>3. inst' \in [Insts -> Instance]
        BY <1>13, FreeInstance DEF FinalizeOne, TypeOK
    <2> QED
        BY <1>13, <2>1, <2>2, <2>3 DEF FinalizeOne, TypeOK, QueueTypeOK, Fault
<1>14. CASE DisposalRaces
    BY <1>14 DEF DisposalRaces, TypeOK, QueueTypeOK, Fault
<1> QED
    BY <1>3, <1>4, <1>5, <1>6, <1>7, <1>8, <1>9, <1>10, <1>11, <1>12, <1>13, <1>14 DEF GCStep

(* The disposal of the context keeps the types.                            *)
LEMMA DisposeStepType ==
    ASSUME TypeOK, DisposeStep
    PROVE  TypeOK'
<1> USE DEF gcUnchanged, noFinalizer
<1>1. Main \in Threads /\ \A i \in Insts : inst[i] \in Instance
    BY ConstantsAssumption DEF TypeOK
<1>2. CASE DisposeContext
    BY <1>1, <1>2 DEF DisposeContext, StartDrain, TypeOK, QueueTypeOK, PC, Why
<1>3. CASE Shutdown
    <2>1. stopped' \in BOOLEAN /\ pc' \in PC /\ fault' \in Fault
        BY <1>3 DEF Shutdown, TypeOK, QueueTypeOK, PC, Fault
    <2> QED
        BY <1>3, <2>1 DEF Shutdown, loopUnchanged, TypeOK, QueueTypeOK
<1>4. CASE ContextDisposeNotify
    <2>1. inst' \in [Insts -> Instance]
        BY <1>1, <1>4 DEF ContextDisposeNotify, Instance, Wrapper
    <2> QED
        BY <1>4, <2>1 DEF ContextDisposeNotify, TypeOK, QueueTypeOK, PC
<1>5. CASE FinalGC
    BY <1>1, <1>5 DEF FinalGC, StartDrain, TypeOK, QueueTypeOK, PC, Why
<1>6. CASE Destroy
    BY <1>6 DEF Destroy, TypeOK, QueueTypeOK, PC
<1>7. CASE PrepareEnd
    BY <1>7 DEF PrepareEnd, TypeOK, QueueTypeOK, PC
<1>8. CASE DestroyContext
    BY <1>1, <1>8 DEF DestroyContext, StartDrain, TypeOK, QueueTypeOK, PC, Why
<1>9. ASSUME NEW i \in Insts, PrepareOne(i)
      PROVE  TypeOK'
    <2>1. inst' \in [Insts -> Instance]
        BY <1>1, <1>9, FieldTypes DEF PrepareOne, TypeOK
    <2>2. gstate' \in [GObjects -> {"alive", "disposed", "finalized"}]
        BY <1>9, ReleaseType DEF PrepareOne
    <2> QED
        BY <1>9, <2>1, <2>2 DEF PrepareOne, TypeOK, QueueTypeOK
<1> QED
    BY <1>2, <1>3, <1>4, <1>5, <1>6, <1>7, <1>8, <1>9 DEF DisposeStep

(* The initial state has the types.                                        *)
LEMMA InitType == Init => TypeOK
<1> SUFFICES ASSUME Init PROVE TypeOK
    OBVIOUS
<1>1. QueueTypeOK
    <2>1. << >> \in Seq(Item)
        BY EmptySeq
    <2> QED
        BY <2>1 DEF Init, QueueInit, QueueTypeOK, IdleState
<1>2. owners \in [GObjects -> SUBSET Threads]
    BY ConstantsAssumption DEF Init
<1>3. inst \in [Insts -> Instance]
    BY FreeInstance DEF Init
<1> QED
    BY <1>1, <1>2, <1>3 DEF Init, TypeOK, PC, Why, Fault

(* Every step keeps the types.                                             *)
LEMMA NextType == TypeOK /\ CurTaken /\ [Next]_vars => TypeOK'
<1> SUFFICES ASSUME TypeOK, CurTaken, [Next]_vars PROVE TypeOK'
    OBVIOUS
<1>1. CASE GLibStep
    <2>1. CASE LeaveRef
        BY <2>1 DEF LeaveRef, TypeOK, QueueTypeOK
    <2> QED
        BY <1>1, <2>1, DeliverType, RefType, UnrefType, DisposeType,
           DisposalStepType DEF GLibStep
<1>2. CASE JSStep
    BY <1>2, JSStepType
<1>3. CASE QueueStep
    BY <1>3, QueueStepType
<1>4. CASE GCStep
    BY <1>4, GCStepType
<1>5. CASE DisposeStep
    BY <1>5, DisposeStepType
<1>6. CASE UNCHANGED vars
    BY <1>6 DEF vars, TypeOK, QueueTypeOK
<1> QED
    BY <1>1, <1>2, <1>3, <1>4, <1>5, <1>6 DEF Next, Over

------------------------------
(* The program counter, the lock and the instance that is worked on.       *)

(* Nothing but the main thread's own steps touches its control state.      *)
LEMMA OthersLeaveControl ==
    ASSUME GLibStep \/ JSStep \/ UNCHANGED vars
    PROVE  UNCHANGED <<pc, why, todo, cur, holder, stopped, fault, finalizer>>
<1>1. CASE GLibStep
    <2>1. ASSUME NEW t \in Threads, Deliver(t)
          PROVE  UNCHANGED <<pc, why, todo, cur, holder, stopped, fault, finalizer>>
        BY <2>1 DEF Deliver
    <2>2. ASSUME NEW t \in Threads, NEW g \in GObjects, Ref(t, g) \/ Unref(t, g)
          PROVE  UNCHANGED <<pc, why, todo, cur, holder, stopped, fault, finalizer>>
        BY <2>2 DEF Ref, Unref
    <2>3. ASSUME NEW t \in Threads, NEW g \in GObjects, Dispose(t, g)
          PROVE  UNCHANGED <<pc, why, todo, cur, holder, stopped, fault, finalizer>>
        BY <2>3 DEF Dispose
    <2>4. ASSUME NEW t \in Threads, DisposalStep(t)
          PROVE  UNCHANGED <<pc, why, todo, cur, holder, stopped, fault, finalizer>>
        BY <2>4 DEF DisposalStep, DisposeCancels, DisposeNotifies, DisposeReturns,
                    disposalUnchanged
    <2> QED
        BY <1>1, <2>1, <2>2, <2>3, <2>4 DEF GLibStep, LeaveRef
<1>2. CASE JSStep
    BY <1>2 DEF JSStep, Reuse, Associate, AddProperty, Forget, jsUnchanged
<1>3. CASE UNCHANGED vars
    BY <1>3 DEF vars
<1> QED
    BY <1>1, <1>2, <1>3

(* LockHeld and CurTaken are inductive together.                           *)
LEMMA NextControl == LockHeld /\ CurTaken /\ [Next]_vars => LockHeld' /\ CurTaken'
<1> SUFFICES ASSUME LockHeld, CurTaken, [Next]_vars
             PROVE  LockHeld' /\ CurTaken'
    OBVIOUS
<1> USE DEF LockHeld, CurTaken
<1>1. CASE GLibStep \/ JSStep \/ UNCHANGED vars
    BY <1>1, OthersLeaveControl
<1>2. CASE QueueStep
    BY <1>2 DEF QueueStep, DispatchIdle, DrainOne, DrainDangling, DrainEnd, IdleDestroyNotify,
                StartDrain
<1>3. CASE GCStep
    <2>1. CASE CollectNow \/ TriggerGC
        BY <2>1 DEF CollectNow, TriggerGC, StartDrain
    <2>2. CASE Mark \/ SweepStart \/ SweepEnd
        BY <2>2 DEF Mark, SweepStart, SweepEnd
    <2>3. CASE FinalizeEnd
        BY <2>3 DEF FinalizeEnd
    <2>4. CASE Disassociate \/ FinalizeRelease \/ FinalizeCancel
        BY <2>4 DEF Disassociate, FinalizeRelease, FinalizeCancel
    <2>5. ASSUME NEW i \in Insts, SweepOne(i)
          PROVE  LockHeld' /\ CurTaken'
        BY <2>5 DEF SweepOne
    <2>6. ASSUME NEW i \in Insts, FinalizeOne(i)
          PROVE  LockHeld' /\ CurTaken'
        BY <2>6 DEF FinalizeOne
    <2>7. CASE DisposalRaces
        BY <2>7 DEF DisposalRaces
    <2> QED
        BY <1>3, <2>1, <2>2, <2>3, <2>4, <2>5, <2>6, <2>7 DEF GCStep
<1>4. CASE DisposeStep
    <2>1. CASE DisposeContext \/ FinalGC \/ DestroyContext
        BY <2>1 DEF DisposeContext, FinalGC, DestroyContext, StartDrain
    <2>2. CASE Shutdown \/ ContextDisposeNotify
        BY <2>2 DEF Shutdown, ContextDisposeNotify
    <2>3. CASE Destroy \/ PrepareEnd
        BY <2>3 DEF Destroy, PrepareEnd
    <2>4. ASSUME NEW i \in Insts, PrepareOne(i)
          PROVE  LockHeld' /\ CurTaken'
        BY <2>4 DEF PrepareOne
    <2> QED
        BY <1>4, <2>1, <2>2, <2>3, <2>4 DEF DisposeStep
<1> QED
    BY <1>1, <1>2, <1>3, <1>4 DEF Next, Over

(* Every variable keeps to its type, and the lock of the queue is held by  *)
(* the main thread exactly while it drains or sweeps.                      *)
THEOREM TypeCorrect == Spec => [](TypeOK /\ LockHeld /\ CurTaken)
<1>1. Init => TypeOK /\ LockHeld /\ CurTaken
    BY InitType DEF Init, QueueInit, LockHeld, CurTaken
<1>2. TypeOK /\ LockHeld /\ CurTaken /\ [Next]_vars => (TypeOK /\ LockHeld /\ CurTaken)'
    BY NextType, NextControl
<1> QED
    BY <1>1, <1>2, PTL DEF Spec

------------------------------
(* What a step may do to the queue.                                        *)

(* The items of s are items of q.                                          *)
From(s) == \A n \in 1..Len(s) : \E k \in 1..Len(q) : s[n] = q[k]

(* Instance i has its toggle reference, or a disposal is about to be done  *)
(* with it, or the notification comes late.                                *)
Notified(i) == Installed(i) \/ (Disposing(i) /\ ~Finalizing(i)) \/ i \in late'

(* Every step takes items away or is an enqueue().                         *)
QueueChange ==
    \/ From(q')
    \/ \E i \in Insts, d \in Direction : Notified(i) /\ q' = Enqueued(i, d)

LEMMA CancelledFrom ==
    ASSUME QueueTypeOK, NEW i \in Insts
    PROVE  From(Cancelled(i))
BY CancelledProperties DEF From

LEMMA NextQueue == TypeOK /\ CurTaken /\ [Next]_vars => QueueChange
<1> SUFFICES ASSUME TypeOK, CurTaken, [Next]_vars PROVE QueueChange
    OBVIOUS
<1>1. QueueTypeOK /\ q \in Seq(Item)
    BY DEF TypeOK, QueueTypeOK
<1>2. ASSUME UNCHANGED q
      PROVE  QueueChange
    BY <1>2 DEF QueueChange, From
<1>3. ASSUME NEW i \in Insts, q' = Cancelled(i)
      PROVE  QueueChange
    BY <1>1, <1>3, CancelledFrom DEF QueueChange, From
<1>4. ASSUME NEW t \in Threads, NEW item \in Item, ToggleNotify(t, item),
             Notified(item.object)
      PROVE  QueueChange
    <2>1. item.object \in Insts /\ item.direction \in Direction
        BY DEF Item
    <2>2. UNCHANGED q \/ q' = Enqueued(item.object, item.direction)
        BY <1>4 DEF ToggleNotify, Enqueue
    <2> QED
        BY <1>2, <1>4, <2>1, <2>2 DEF QueueChange
<1>5. ASSUME NEW t \in Threads, Deliver(t) \/ DisposalStep(t)
      PROVE  QueueChange
    <2>1. CASE Deliver(t)
        <3>1. note[t] \in Item
            BY <2>1 DEF Deliver, TypeOK, Note, Item
        <3>2. CASE UNCHANGED q
            BY <1>2, <3>2
        <3>3. CASE ToggleNotify(t, note[t])
                   /\ late' = IF Installed(note[t].object) THEN late
                              ELSE late \cup {note[t].object}
            <4>1. Notified(note[t].object)
                BY <3>3 DEF Notified
            <4> QED
                BY <1>4, <3>1, <3>3, <4>1
        <3> QED
            BY <2>1, <3>2, <3>3 DEF Deliver
    <2>2. CASE disposal[t].object # NoInst /\ ~Deliver(t)
        <3>1. /\ disposal[t].object \in Insts
              /\ [object |-> disposal[t].object, direction |-> "DOWN"] \in Item
            BY <2>2, DisposalType
        <3>3. CASE DisposeCancels(t)
            BY <1>3, <3>1, <3>3 DEF DisposeCancels
        <3>4. CASE DisposeNotifies(t)
            <4>1. Notified(disposal[t].object)
                BY <3>4 DEF DisposeNotifies, Notified, Disposing
            <4> QED
                BY <1>4, <3>1, <3>4, <4>1 DEF DisposeNotifies
        <3>5. CASE DisposeReturns(t)
            BY <1>2, <3>5 DEF DisposeReturns
        <3> QED
            BY <1>5, <2>2, <3>3, <3>4, <3>5 DEF DisposalStep
    <2> QED
        BY <1>5, <2>1, <2>2 DEF DisposalStep, DisposeCancels, DisposeNotifies, DisposeReturns
<1>6. CASE GLibStep
    <2>1. ASSUME NEW t \in Threads, NEW g \in GObjects,
                 Ref(t, g) \/ Unref(t, g) \/ Dispose(t, g)
          PROVE  UNCHANGED q
        BY <2>1 DEF Ref, Unref, Dispose
    <2> QED
        BY <1>2, <1>5, <1>6, <2>1 DEF GLibStep, LeaveRef
<1>7. CASE JSStep
    BY <1>2, <1>7 DEF JSStep, Reuse, Associate, AddProperty, Forget, jsUnchanged
<1>8. CASE QueueStep
    <2>1. CASE DrainOne
        <3>1. q # << >> /\ q' = Tail(q)
            BY <2>1 DEF DrainOne
        <3>2. /\ Len(Tail(q)) = Len(q) - 1
              /\ \A n \in 1..Len(Tail(q)) : Tail(q)[n] = q[n + 1]
            BY <1>1, <3>1, HeadTailProperties
        <3>3. Len(q) \in Nat
            BY <1>1, LenProperties
        <3>4. \A n \in 1..Len(Tail(q)) : n + 1 \in 1..Len(q) /\ Tail(q)[n] = q[n + 1]
            BY <3>2, <3>3
        <3> QED
            BY <3>1, <3>4 DEF QueueChange, From
    <2>2. CASE DispatchIdle \/ DrainDangling \/ DrainEnd \/ IdleDestroyNotify
        BY <1>2, <2>2 DEF DispatchIdle, DrainDangling, DrainEnd, IdleDestroyNotify
    <2> QED
        BY <1>8, <2>1, <2>2 DEF QueueStep
<1>9. CASE GCStep
    <2>1. CASE CollectNow \/ TriggerGC \/ Mark \/ SweepStart \/ SweepEnd \/ FinalizeEnd
        BY <1>2, <2>1 DEF CollectNow, TriggerGC, Mark, SweepStart, SweepEnd, FinalizeEnd
    <2>2. CASE Disassociate
        BY <1>3, <2>2 DEF Disassociate, CurTaken
    <2>3. CASE FinalizeRelease
        BY <1>2, <2>3 DEF FinalizeRelease
    <2>4. CASE FinalizeCancel
        BY <1>2, <1>3, <2>4 DEF FinalizeCancel, CancelledAgain, CurTaken
    <2>5. ASSUME NEW i \in Insts, SweepOne(i) \/ FinalizeOne(i)
          PROVE  QueueChange
        BY <1>2, <1>3, <2>5 DEF SweepOne, FinalizeOne
    <2>6. CASE DisposalRaces
        BY <1>2, <2>6 DEF DisposalRaces
    <2> QED
        BY <1>9, <2>1, <2>2, <2>3, <2>4, <2>5, <2>6 DEF GCStep
<1>10. CASE DisposeStep
    BY <1>2, <1>10 DEF DisposeStep, DisposeContext, Shutdown, ContextDisposeNotify, FinalGC,
                       Destroy, PrepareEnd, DestroyContext, PrepareOne
<1>11. CASE UNCHANGED vars
    BY <1>2, <1>11 DEF vars
<1> QED
    BY <1>6, <1>7, <1>8, <1>9, <1>10, <1>11 DEF Next, Over

(* A step that changes the queue as above keeps opposite toggles apart.    *)
LEMMA NextExclusive ==
    TypeOK /\ CurTaken /\ DirectionsExclusive /\ [Next]_vars => DirectionsExclusive'
<1> SUFFICES ASSUME TypeOK, CurTaken, DirectionsExclusive, [Next]_vars,
                    NEW i \in Insts,
                    NEW k \in 1..Len(q'), NEW l \in 1..Len(q'),
                    q'[k] = [object |-> i, direction |-> "UP"],
                    q'[l] = [object |-> i, direction |-> "DOWN"]
             PROVE  FALSE
    BY DEF DirectionsExclusive, IsQueued, Positions
<1>1. QueueTypeOK /\ QueueChange
    BY NextQueue DEF TypeOK
<1> DEFINE up == [object |-> i, direction |-> "UP"]
           down == [object |-> i, direction |-> "DOWN"]
           In(item) == \E n \in 1..Len(q) : item = q[n]
<1>2. ~(In(up) /\ In(down))
    BY DEF DirectionsExclusive, IsQueued, Positions
<1>3. CASE From(q')
    BY <1>2, <1>3 DEF From
<1>4. ASSUME NEW j \in Insts, NEW d \in Direction, q' = Enqueued(j, d)
      PROVE  FALSE
    <2> DEFINE new == [object |-> j, direction |-> d]
    <2>1. \A n \in 1..Len(q') :
             In(q'[n]) \/ (q'[n] = new /\ ~IsQueued(j, Opposite(d)))
        BY <1>1, <1>4, EnqueuedProperties
    <2>2. CASE up = new
        <3>1. i = j /\ d = "UP" /\ up # down /\ Opposite(d) = "DOWN"
            BY <2>2 DEF Opposite
        <3>2. In(down)
            BY <2>1, <2>2, <3>1
        <3>3. IsQueued(j, Opposite(d))
            BY <3>1, <3>2 DEF IsQueued, Positions
        <3>4. In(up)
            BY <2>1, <3>3
        <3> QED
            BY <1>2, <3>2, <3>4
    <2>3. CASE down = new
        <3>1. i = j /\ d = "DOWN" /\ up # down /\ Opposite(d) = "UP"
            BY <2>3 DEF Opposite
        <3>2. In(up)
            BY <2>1, <2>3, <3>1
        <3>3. IsQueued(j, Opposite(d))
            BY <3>1, <3>2 DEF IsQueued, Positions
        <3>4. In(down)
            BY <2>1, <3>3
        <3> QED
            BY <1>2, <3>2, <3>4
    <2>4. CASE up # new /\ down # new
        BY <1>2, <2>1, <2>4
    <2> QED
        BY <2>2, <2>3, <2>4
<1> QED
    BY <1>1, <1>3, <1>4 DEF QueueChange

(* No two opposite toggles of an object ever wait together, whichever      *)
(* threads they came from.                                                 *)
THEOREM OppositesAnnihilate == Spec => []DirectionsExclusive
<1>1. Init => DirectionsExclusive
    <2> SUFFICES ASSUME Init PROVE DirectionsExclusive
        OBVIOUS
    <2>1. Len(q) = 0
        BY EmptySeq DEF Init, QueueInit
    <2> QED
        BY <2>1 DEF DirectionsExclusive, IsQueued, Positions
<1>2. TypeOK /\ CurTaken /\ DirectionsExclusive /\ [Next]_vars => DirectionsExclusive'
    BY NextExclusive
<1> QED
    BY <1>1, <1>2, TypeCorrect, PTL DEF Spec

------------------------------
(* What the collector has left for dead stays unrooted.                    *)

(* The step kills nobody and roots none of the dead.                       *)
Harmless == \A i \in Insts : /\ inst'[i].dead => inst[i].dead
                             /\ inst[i].dead /\ inst'[i].wrapper = "root" =>
                                    inst[i].wrapper = "root"

(* No wrapper is dead unless a collection has marked.                      *)
LEMMA NobodyDead ==
    ASSUME DeadAreLeft,
           pc \notin {"sweepstart", "sweep", "disassociate", "finalize", "release", "cancel"}
    PROVE  \A i \in Insts : ~inst[i].dead
BY DEF DeadAreLeft

(* A toggle that is handled changes one wrapper and nothing else.          *)
LEMMA HandledHarmless ==
    ASSUME TypeOK, NEW item \in Item, Handled(item),
           item.direction = "UP" => ~inst[item.object].dead
    PROVE  Harmless
<1> DEFINE o == item.object
           r == IF item.direction = "DOWN" THEN ToggledDown(inst[o]) ELSE ToggledUp(inst[o])
<1>1. o \in Insts /\ item.direction \in {"DOWN", "UP"}
    BY DEF Item, Direction
<1>2. inst \in [Insts -> Instance] /\ inst[o] \in Instance
    BY <1>1 DEF TypeOK
<1>3. inst' = [inst EXCEPT ![o] = r]
    BY DEF Handled
<1>4. r.dead = inst[o].dead
    BY <1>2 DEF ToggledUp, ToggledDown, Instance
<1>5. inst[o].dead /\ r.wrapper = "root" => inst[o].wrapper = "root"
    BY <1>1, <1>2 DEF ToggledUp, ToggledDown, Instance
<1> HIDE DEF r, o
<1> QED
    BY <1>1, <1>2, <1>3, <1>4, <1>5 DEF Harmless

(* GLib, other threads and C code harm nobody.                             *)
LEMMA GLibHarmless ==
    ASSUME TypeOK, DeadAreLeft, GLibStep
    PROVE  Harmless
<1>0. \A i \in Insts : inst[i] \in Instance
    BY DEF TypeOK
<1>1. ASSUME NEW t \in Threads, NEW item \in Item, ToggleNotify(t, item)
      PROVE  Harmless
    <2>1. CASE ~destroying /\ Immediate(t, item)
        <3>1. Handled(item) /\ item.object \in Insts
            BY <1>1, <2>1 DEF ToggleNotify, Item
        <3>2. item.direction = "UP" => ~inst[item.object].dead
            BY <2>1, <3>1, NobodyDead DEF Immediate, Collecting
        <3> QED
            BY <3>1, <3>2, HandledHarmless
    <2>2. CASE ~(~destroying /\ Immediate(t, item))
        <3>1. UNCHANGED inst
            BY <1>1, <2>2 DEF ToggleNotify
        <3> QED
            BY <3>1 DEF Harmless
    <2> QED
        BY <2>1, <2>2
<1>2. ASSUME NEW t \in Threads, Deliver(t)
      PROVE  Harmless
    <2>1. note[t] \in Item
        BY <1>2 DEF Deliver, TypeOK, Note, Item
    <2>2. ToggleNotify(t, note[t]) \/ UNCHANGED inst
        BY <1>2 DEF Deliver
    <2> QED
        BY <1>1, <2>1, <2>2 DEF Harmless
<1>3. ASSUME NEW t \in Threads, NEW g \in GObjects, Dispose(t, g)
      PROVE  Harmless
    <2> DEFINE watching == {i \in Holders(g) : ~inst[i].disposed /\ ~Finalizing(i)}
               f(r) == [r EXCEPT !.disposed = TRUE,
                           !.wrapper = IF t = Main /\ ~r.toggle THEN "null" ELSE @]
    <2>1. inst' = [i \in Insts |-> IF i \in watching THEN f(inst[i]) ELSE inst[i]]
        BY <1>3 DEF Dispose
    <2>2. \A r \in Instance : /\ f(r).dead = r.dead
                              /\ f(r).wrapper = "root" => r.wrapper = "root"
        BY DEF Instance
    <2> HIDE DEF watching, f
    <2> QED
        BY <1>0, <2>1, <2>2 DEF Harmless
<1>5. ASSUME NEW t \in Threads, DisposalStep(t)
      PROVE  Harmless
    <2>1. CASE DisposeCancels(t)
        BY <2>1 DEF DisposeCancels, Harmless
    <2>2. CASE DisposeNotifies(t)
        <3>1. [object |-> disposal[t].object, direction |-> "DOWN"] \in Item
            BY <2>2, DisposalType DEF DisposeNotifies
        <3> QED
            BY <1>1, <2>2, <3>1 DEF DisposeNotifies
    <2>3. CASE DisposeReturns(t)
        <3> DEFINE o == disposal[t].object
                   r == [inst[o] EXCEPT !.toggle = FALSE,
                                        !.wrapper = IF t = Main THEN "null" ELSE @]
        <3>1. o \in Insts
            BY <2>3, DisposalType DEF DisposeReturns
        <3>2. inst' = [inst EXCEPT ![o] = r]
            BY <2>3, <3>1 DEF DisposeReturns, TypeOK
        <3>3. r.dead = inst[o].dead /\ (r.wrapper = "root" => inst[o].wrapper = "root")
            BY <1>0, <3>1 DEF Instance
        <3> HIDE DEF o, r
        <3> QED
            BY <3>1, <3>2, <3>3 DEF Harmless, TypeOK
    <2> QED
        BY <1>5, <2>1, <2>2, <2>3 DEF DisposalStep
<1>6. ASSUME NEW t \in Threads, NEW g \in GObjects, Ref(t, g) \/ Unref(t, g)
      PROVE  Harmless
    BY <1>6 DEF Ref, Unref, Harmless
<1>4. LeaveRef => Harmless
    BY DEF LeaveRef, Harmless
<1> QED
    BY <1>2, <1>3, <1>4, <1>5, <1>6 DEF GLibStep

LEMMA NextDead ==
    TypeOK /\ CurTaken /\ DeadAreLeft /\ DeadStaysUnrooted /\ [Next]_vars =>
        DeadAreLeft' /\ DeadStaysUnrooted'
<1> SUFFICES ASSUME TypeOK, CurTaken, DeadAreLeft, DeadStaysUnrooted, [Next]_vars
             PROVE  DeadAreLeft' /\ DeadStaysUnrooted'
    OBVIOUS
<1>0. \A i \in Insts : inst[i] \in Instance
    BY DEF TypeOK
<1>1. ASSUME Harmless, UNCHANGED <<pc, todo, cur>>
      PROVE  DeadAreLeft' /\ DeadStaysUnrooted'
    BY <1>1 DEF Harmless, DeadAreLeft, DeadStaysUnrooted
<1>2. ASSUME \A i \in Insts : ~inst'[i].dead
      PROVE  DeadAreLeft' /\ DeadStaysUnrooted'
    BY <1>2 DEF DeadAreLeft, DeadStaysUnrooted
<1>3. CASE GLibStep
    BY <1>1, <1>3, GLibHarmless, OthersLeaveControl
<1>4. CASE UNCHANGED vars
    BY <1>1, <1>4 DEF vars, Harmless
<1>5. CASE JSStep
    <2>1. \A i \in Insts : ~inst[i].dead
        BY <1>5, NobodyDead DEF JSStep, JSRuns, Reuse, Associate, AddProperty, Forget
    <2>2. ASSUME NEW g \in GObjects, Reuse(g)
          PROVE  \A i \in Insts : ~inst'[i].dead
        BY <2>1, <2>2 DEF Reuse, TypeOK, Instance
    <2>3. ASSUME NEW g \in GObjects, NEW i \in Insts, Associate(g, i)
          PROVE  \A j \in Insts : ~inst'[j].dead
        BY <2>1, <2>3 DEF Associate, TypeOK
    <2>4. ASSUME NEW i \in Insts, AddProperty(i)
          PROVE  \A j \in Insts : ~inst'[j].dead
        BY <2>1, <2>4 DEF AddProperty, TypeOK, Instance
    <2>5. ASSUME NEW i \in Insts, Forget(i)
          PROVE  \A j \in Insts : ~inst'[j].dead
        BY <2>1, <2>5 DEF Forget, TypeOK, Instance
    <2> QED
        BY <1>2, <1>5, <2>2, <2>3, <2>4, <2>5 DEF JSStep
<1>6. CASE QueueStep
    <2>1. \A i \in Insts : ~inst[i].dead
        BY <1>6, NobodyDead DEF QueueStep, DispatchIdle, DrainOne, DrainDangling, DrainEnd,
                                IdleDestroyNotify
    <2>2. Harmless
        <3>1. CASE DrainOne
            <4>1. Head(q) \in Item
                BY <3>1, HeadTailProperties DEF DrainOne, TypeOK, QueueTypeOK
            <4>2. Head(q).object \in Insts
                BY <4>1 DEF Item
            <4> QED
                BY <2>1, <3>1, <4>1, <4>2, HandledHarmless DEF DrainOne
        <3>2. CASE DispatchIdle \/ DrainDangling \/ DrainEnd \/ IdleDestroyNotify
            BY <3>2 DEF DispatchIdle, DrainDangling, DrainEnd, IdleDestroyNotify, Harmless
        <3> QED
            BY <1>6, <3>1, <3>2 DEF QueueStep
    <2> QED
        BY <1>2, <2>1, <2>2 DEF Harmless
<1>7. CASE GCStep
    <2>1. CASE CollectNow \/ TriggerGC
        <3>1. \A i \in Insts : ~inst[i].dead
            BY <2>1, NobodyDead DEF CollectNow, TriggerGC
        <3> QED
            BY <1>2, <2>1, <3>1 DEF CollectNow, TriggerGC
    <2>2. CASE Mark
        <3>1. pc' = "sweepstart"
            BY <2>2 DEF Mark
        <3>2. \A i \in Insts : inst'[i].dead => inst'[i].wrapper # "root"
            BY <1>0, <2>2 DEF Mark, Instance
        <3> QED
            BY <3>1, <3>2 DEF DeadAreLeft, DeadStaysUnrooted
    <2>3. CASE SweepStart
        BY <2>3 DEF SweepStart, DeadAreLeft, DeadStaysUnrooted
    <2>4. CASE SweepEnd
        BY <2>4 DEF SweepEnd, DeadAreLeft, DeadStaysUnrooted
    <2>5. CASE FinalizeEnd
        <3>1. \A i \in Insts : ~inst[i].dead
            BY <2>5, ConstantsAssumption DEF FinalizeEnd, DeadAreLeft, CurTaken
        <3> QED
            BY <1>2, <2>5, <3>1 DEF FinalizeEnd
    <2>6. CASE Disassociate
        <3>1. Harmless
            <4>1. \A r \in Instance : /\ Unlinked(Lost(r)).dead = r.dead
                                      /\ Unlinked(Lost(r)).wrapper = "null"
                BY DEF Unlinked, Lost, Instance
            <4>2. inst' = [inst EXCEPT ![cur] = Unlinked(Lost(inst[cur]))]
                BY <2>6 DEF Disassociate
            <4> QED
                BY <1>0, <4>1, <4>2 DEF Harmless, TypeOK
        <3> QED
            BY <2>6, <3>1 DEF Disassociate, Harmless, DeadAreLeft, DeadStaysUnrooted
    <2>7. CASE FinalizeRelease
        <3>1. Harmless
            <4>1. \A r \in Instance : Lost(r).dead = r.dead /\ Lost(r).wrapper = "null"
                BY DEF Lost, Instance
            <4>2. inst' = [inst EXCEPT ![cur] = Lost(inst[cur])]
                BY <2>7 DEF FinalizeRelease
            <4> QED
                BY <1>0, <4>1, <4>2 DEF Harmless, TypeOK
        <3> QED
            BY <2>7, <3>1 DEF FinalizeRelease, Harmless, DeadAreLeft, DeadStaysUnrooted
    <2>8. CASE FinalizeCancel
        <3>1. \A i \in Insts : inst'[i] = IF i = cur THEN Free ELSE inst[i]
            BY <2>8 DEF FinalizeCancel, TypeOK
        <3>2. ~Free.dead
            BY DEF Free
        <3> QED
            BY <2>8, <3>1, <3>2 DEF FinalizeCancel, DeadAreLeft, DeadStaysUnrooted
    <2>9. ASSUME NEW i \in Insts, SweepOne(i)
          PROVE  DeadAreLeft' /\ DeadStaysUnrooted'
        BY <2>9 DEF SweepOne, DeadAreLeft, DeadStaysUnrooted
    <2>10. ASSUME NEW i \in Insts, FinalizeOne(i)
           PROVE  DeadAreLeft' /\ DeadStaysUnrooted'
        <3>1. CASE inst[i].ptr # NoObj
            BY <2>10, <3>1, ConstantsAssumption
            DEF FinalizeOne, DeadAreLeft, DeadStaysUnrooted, CurTaken
        <3>2. CASE inst[i].ptr = NoObj
            <4>1. \A j \in Insts : inst'[j] = IF j = i THEN Free ELSE inst[j]
                BY <2>10, <3>2 DEF FinalizeOne, TypeOK
            <4>2. ~Free.dead
                BY DEF Free
            <4> QED
                BY <2>10, <3>2, <4>1, <4>2 DEF FinalizeOne, DeadAreLeft, DeadStaysUnrooted
        <3> QED
            BY <3>1, <3>2
    <2>11. CASE DisposalRaces
        BY <2>11 DEF DisposalRaces, DeadAreLeft, DeadStaysUnrooted
    <2> QED
        BY <1>7, <2>1, <2>2, <2>3, <2>4, <2>5, <2>6, <2>7, <2>8, <2>9, <2>10, <2>11
        DEF GCStep
<1>8. CASE DisposeStep
    <2>1. \A i \in Insts : ~inst[i].dead
        BY <1>8, NobodyDead
        DEF DisposeStep, DisposeContext, Shutdown, ContextDisposeNotify, FinalGC,
            Destroy, PrepareEnd, DestroyContext, PrepareOne
    <2>2. CASE ContextDisposeNotify
        <3>1. \A r \in Instance : [r EXCEPT !.wrapper = "null"].dead = r.dead
            BY DEF Instance
        <3> QED
            BY <1>0, <1>2, <2>1, <2>2, <3>1 DEF ContextDisposeNotify
    <2>3. ASSUME NEW i \in Insts, PrepareOne(i)
          PROVE  DeadAreLeft' /\ DeadStaysUnrooted'
        <3>1. \A r \in Instance : Unlinked(Lost(r)).dead = r.dead
            BY DEF Unlinked, Lost, Instance
        <3>2. inst' = [inst EXCEPT ![i] = Unlinked(Lost(inst[i]))]
            BY <2>3 DEF PrepareOne
        <3> QED
            BY <1>0, <1>2, <2>1, <3>1, <3>2 DEF TypeOK
    <2>4. CASE \/ DisposeContext \/ Shutdown \/ FinalGC
               \/ Destroy \/ PrepareEnd \/ DestroyContext
        BY <1>2, <2>1, <2>4 DEF DisposeContext, Shutdown, FinalGC, Destroy, PrepareEnd,
                                DestroyContext
    <2> QED
        BY <1>8, <2>2, <2>3, <2>4 DEF DisposeStep
<1> QED
    BY <1>3, <1>4, <1>5, <1>6, <1>7, <1>8 DEF Next, Over

(* Whatever toggles arrive while the collector runs, from any thread, none *)
(* roots a wrapper that the marking has left for dead.                     *)
THEOREM TooLateForSweeping == Spec => []DeadStaysUnrooted
<1>1. Init => DeadAreLeft /\ DeadStaysUnrooted
    BY DEF Init, Free, DeadAreLeft, DeadStaysUnrooted
<1>2. TypeOK /\ CurTaken /\ DeadAreLeft /\ DeadStaysUnrooted /\ [Next]_vars =>
        DeadAreLeft' /\ DeadStaysUnrooted'
    BY NextDead
<1> QED
    BY <1>1, <1>2, TypeCorrect, PTL DEF Spec

------------------------------
(* The sweep holds the lock from the look at the queue to the              *)
(* disassociation.                                                         *)

(* Nothing that cancel() leaves is about the instance.                     *)
LEMMA CancelledClears ==
    ASSUME QueueTypeOK, NEW i \in Insts, q' = Cancelled(i)
    PROVE  ~AnythingQueued(i)'
<1> SUFFICES ASSUME NEW d \in Direction, NEW n \in 1..Len(q'),
                    q'[n] = [object |-> i, direction |-> d]
             PROVE  FALSE
    BY DEF AnythingQueued, IsQueued, Positions
<1>1. q'[n].object = i
    OBVIOUS
<1>2. \E k \in 1..Len(q) : q[k].object # i /\ q'[n] = q[k]
    BY CancelledProperties
<1> QED
    BY <1>1, <1>2

LEMMA NextSweep ==
    TypeOK /\ LockHeld /\ CurTaken /\ SweepUndisturbed /\ NoPendingUpFault /\ [Next]_vars =>
        SweepUndisturbed' /\ NoPendingUpFault'
<1> SUFFICES ASSUME TypeOK, LockHeld, CurTaken, SweepUndisturbed, NoPendingUpFault, [Next]_vars
             PROVE  SweepUndisturbed' /\ NoPendingUpFault'
    OBVIOUS
<1>1. ASSUME pc' # "disassociate", UNCHANGED fault
      PROVE  SweepUndisturbed' /\ NoPendingUpFault'
    BY <1>1 DEF SweepUndisturbed, NoPendingUpFault
<1>2. ASSUME UNCHANGED <<pc, cur, q, finalizer, fault>>,
             note'[Main] = note[Main], disposal'[Main] = disposal[Main]
      PROVE  SweepUndisturbed' /\ NoPendingUpFault'
    BY <1>2 DEF SweepUndisturbed, NoPendingUpFault, AnythingQueued, IsQueued, Positions, Quiet
<1>3. CASE GLibStep
    <2>1. UNCHANGED <<pc, cur, finalizer, fault>>
        BY <1>3, OthersLeaveControl
    <2>2. CASE pc # "disassociate"
        BY <1>1, <2>1, <2>2
    <2>3. CASE pc = "disassociate"
        <3>1. Quiet(Main) /\ ~finalizer /\ ~MainRuns
            BY <2>3 DEF SweepUndisturbed, MainRuns
        <3>2. \A t \in Threads : CanLock(t) => t = Main
            BY <2>3, NoThreadAssumption, ConstantsAssumption DEF CanLock, LockHeld
        <3>3. ASSUME NEW t \in Threads, Deliver(t) \/ DisposeCancels(t) \/ DisposeNotifies(t)
              PROVE  FALSE
            BY <3>1, <3>2, <3>3 DEF Deliver, DisposeCancels, DisposeNotifies, Quiet, NoDisposal
        <3>4. ASSUME NEW t \in Threads, NEW g \in GObjects,
                     Ref(t, g) \/ Unref(t, g) \/ Dispose(t, g)
              PROVE  UNCHANGED q /\ note'[Main] = note[Main] /\ disposal'[Main] = disposal[Main]
            <4>1. t # Main
                BY <3>1, <3>4 DEF Ref, Unref, Dispose
            <4>2. UNCHANGED q
                BY <3>4 DEF Ref, Unref, Dispose
            <4>3. note'[Main] = note[Main]
                BY <3>4, <4>1, ConstantsAssumption DEF Ref, Unref, Dispose, TypeOK
            <4>4. disposal'[Main] = disposal[Main]
                BY <3>4, <4>1, ConstantsAssumption DEF Ref, Unref, Dispose, TypeOK
            <4> QED
                BY <4>2, <4>3, <4>4
        <3>5. ASSUME NEW t \in Threads, DisposeReturns(t)
              PROVE  UNCHANGED q /\ note'[Main] = note[Main] /\ disposal'[Main] = disposal[Main]
            <4>1. t # Main
                BY <3>1, <3>5 DEF DisposeReturns, Quiet, NoDisposal
            <4> QED
                BY <3>5, <4>1, ConstantsAssumption DEF DisposeReturns, disposalUnchanged, TypeOK
        <3> QED
            BY <1>2, <1>3, <2>1, <3>3, <3>4, <3>5 DEF GLibStep, LeaveRef, DisposalStep
    <2> QED
        BY <2>2, <2>3
<1>4. CASE UNCHANGED vars
    BY <1>2, <1>4 DEF vars
<1>5. CASE JSStep
    BY <1>1, <1>5 DEF JSStep, JSRuns, Reuse, Associate, AddProperty, Forget, jsUnchanged
<1>6. CASE QueueStep
    <2>1. CASE DispatchIdle \/ DrainOne \/ DrainEnd \/ IdleDestroyNotify
        BY <1>1, <2>1 DEF DispatchIdle, DrainOne, DrainEnd, IdleDestroyNotify, StartDrain
    <2>2. CASE DrainDangling
        <3>1. pc' # "disassociate" /\ fault' # "pendingToggleUp"
            BY <2>2 DEF DrainDangling
        <3> QED
            BY <3>1 DEF SweepUndisturbed, NoPendingUpFault
    <2> QED
        BY <1>6, <2>1, <2>2 DEF QueueStep
<1>7. CASE GCStep
    <2>1. CASE CollectNow \/ TriggerGC \/ Mark \/ SweepStart \/ SweepEnd
        BY <1>1, <2>1 DEF CollectNow, TriggerGC, StartDrain, Mark, SweepStart, SweepEnd
    <2>2. CASE FinalizeEnd
        BY <1>1, <2>2 DEF FinalizeEnd
    <2>3. CASE Disassociate
        <3>1. pc' = "sweep" /\ fault' # "pendingToggleUp"
            BY <2>3 DEF Disassociate, SweepUndisturbed, NoPendingUpFault, OnlyUp,
                        AnythingQueued, Direction
        <3> QED
            BY <3>1 DEF SweepUndisturbed, NoPendingUpFault
    <2>4. CASE FinalizeRelease \/ FinalizeCancel
        BY <1>1, <2>4 DEF FinalizeRelease, FinalizeCancel
    <2>5. ASSUME NEW i \in Insts, SweepOne(i)
          PROVE  SweepUndisturbed' /\ NoPendingUpFault'
        <3>1. CASE WeakPointerWasFinalized(i)
            <4>1. q' = Cancelled(i) /\ cur' = i /\ QueueTypeOK
                BY <2>5, <3>1 DEF SweepOne, TypeOK
            <4>2. ~AnythingQueued(i)'
                BY <4>1, CancelledClears
            <4>3. ~AnythingQueued(cur)'
                BY <4>1, <4>2 DEF AnythingQueued, IsQueued, Positions
            <4>4. Quiet(Main)' /\ ~finalizer' /\ UNCHANGED fault
                BY <2>5 DEF SweepOne, MainReturned, gcUnchanged, noFinalizer, Quiet
            <4> QED
                BY <4>3, <4>4 DEF SweepUndisturbed, NoPendingUpFault
        <3>2. CASE ~WeakPointerWasFinalized(i)
            BY <1>1, <2>5, <3>2 DEF SweepOne
        <3> QED
            BY <3>1, <3>2
    <2>6. ASSUME NEW i \in Insts, FinalizeOne(i)
          PROVE  SweepUndisturbed' /\ NoPendingUpFault'
        <3>1. pc' # "disassociate" /\ fault' # "pendingToggleUp"
            BY <2>6 DEF FinalizeOne, NoPendingUpFault
        <3> QED
            BY <3>1 DEF SweepUndisturbed, NoPendingUpFault
    <2>7. CASE DisposalRaces
        <3>1. UNCHANGED <<pc, cur, q, finalizer>> /\ fault' # "pendingToggleUp"
              /\ UNCHANGED <<note, disposal>>
            BY <2>7 DEF DisposalRaces, gcUnchanged
        <3> QED
            BY <3>1 DEF SweepUndisturbed, NoPendingUpFault, AnythingQueued, IsQueued, Positions,
                        Quiet
    <2> QED
        BY <1>7, <2>1, <2>2, <2>3, <2>4, <2>5, <2>6, <2>7 DEF GCStep
<1>8. CASE DisposeStep
    <2>1. CASE Shutdown
        <3>1. pc' # "disassociate" /\ fault' # "pendingToggleUp"
            BY <2>1 DEF Shutdown, NoPendingUpFault
        <3> QED
            BY <3>1 DEF SweepUndisturbed, NoPendingUpFault
    <2>2. CASE DisposeContext \/ ContextDisposeNotify \/ FinalGC
        BY <1>1, <2>2 DEF DisposeContext, ContextDisposeNotify, FinalGC, StartDrain
    <2>3. CASE Destroy \/ PrepareEnd \/ DestroyContext
        BY <1>1, <2>3 DEF Destroy, PrepareEnd, DestroyContext, StartDrain
    <2>4. ASSUME NEW i \in Insts, PrepareOne(i)
          PROVE  SweepUndisturbed' /\ NoPendingUpFault'
        BY <1>1, <2>4 DEF PrepareOne
    <2> QED
        BY <1>8, <2>1, <2>2, <2>3, <2>4 DEF DisposeStep
<1> QED
    BY <1>3, <1>4, <1>5, <1>6, <1>7, <1>8 DEF Next, Over

(* The sweep never disassociates a wrapper that another thread has asked   *)
(* to root: the request waits for the lock, or was seen.                   *)
THEOREM SweepSeesToggles == Spec => []NoPendingUpFault
<1>1. Init => SweepUndisturbed /\ NoPendingUpFault
    BY DEF Init, SweepUndisturbed, NoPendingUpFault
<1>2. TypeOK /\ LockHeld /\ CurTaken /\ SweepUndisturbed /\ NoPendingUpFault /\ [Next]_vars =>
        SweepUndisturbed' /\ NoPendingUpFault'
    BY NextSweep
<1> QED
    BY <1>1, <1>2, TypeCorrect, PTL DEF Spec

------------------------------
(* What GLib, other threads and C code do to the instances.                *)

(* Handling a toggle keeps everything of an instance but its wrapper.      *)
LEMMA HandledKeeps ==
    ASSUME TypeOK, NEW item \in Item, Handled(item), NEW i \in Insts
    PROVE  /\ inst'[i].live = inst[i].live /\ inst'[i].ptr = inst[i].ptr
           /\ inst'[i].toggle = inst[i].toggle /\ inst'[i].disposed = inst[i].disposed
<1> DEFINE o == item.object
           r == IF item.direction = "DOWN" THEN ToggledDown(inst[o]) ELSE ToggledUp(inst[o])
<1>1. o \in Insts /\ inst \in [Insts -> Instance] /\ inst[o] \in Instance
    BY DEF Item, TypeOK
<1>2. inst' = [inst EXCEPT ![o] = r]
    BY DEF Handled
<1>3. /\ r.live = inst[o].live /\ r.ptr = inst[o].ptr
      /\ r.toggle = inst[o].toggle /\ r.disposed = inst[o].disposed
    BY <1>1 DEF ToggledUp, ToggledDown, Instance
<1> HIDE DEF r, o
<1> QED
    BY <1>1, <1>2, <1>3

(* So do a notification and the first steps of a disposal.                 *)
LEMMA NotifyKeeps ==
    ASSUME TypeOK, NEW t \in Threads, Deliver(t) \/ DisposeCancels(t) \/ DisposeNotifies(t),
           NEW i \in Insts
    PROVE  /\ inst'[i].live = inst[i].live /\ inst'[i].ptr = inst[i].ptr
           /\ inst'[i].toggle = inst[i].toggle /\ inst'[i].disposed = inst[i].disposed
<1> DEFINE Goal == /\ inst'[i].live = inst[i].live /\ inst'[i].ptr = inst[i].ptr
                   /\ inst'[i].toggle = inst[i].toggle /\ inst'[i].disposed = inst[i].disposed
<1>1. ASSUME NEW item \in Item, ToggleNotify(t, item)
      PROVE  Goal
    BY <1>1, HandledKeeps DEF ToggleNotify
<1>2. CASE Deliver(t)
    <2>1. note[t] \in Item
        BY <1>2 DEF Deliver, TypeOK, Note, Item
    <2> QED
        BY <1>1, <1>2, <2>1 DEF Deliver
<1>3. CASE DisposeCancels(t)
    BY <1>3 DEF DisposeCancels
<1>4. CASE DisposeNotifies(t)
    <2>1. [object |-> disposal[t].object, direction |-> "DOWN"] \in Item
        BY <1>4, DisposalType DEF DisposeNotifies
    <2> QED
        BY <1>1, <1>4, <2>1 DEF DisposeNotifies
<1> QED
    BY <1>2, <1>3, <1>4

(* The beginning of a disposal marks the instances that watch the object,  *)
(* and discards the wrapper of one that has no toggle reference.           *)
Watching(g) == {i \in Holders(g) : ~inst[i].disposed /\ ~Finalizing(i)}

LEMMA DisposeKeeps ==
    ASSUME TypeOK, NEW t \in Threads, NEW g \in GObjects, Dispose(t, g), NEW i \in Insts
    PROVE  /\ inst'[i].live = inst[i].live /\ inst'[i].ptr = inst[i].ptr
           /\ inst'[i].toggle = inst[i].toggle /\ inst'[i].dead = inst[i].dead
           /\ inst'[i].linked = inst[i].linked /\ inst'[i].reach = inst[i].reach
           /\ inst'[i].disposed = (inst[i].disposed \/ i \in Watching(g))
           /\ inst'[i].wrapper =
                 IF i \in Watching(g) /\ t = Main /\ ~inst[i].toggle THEN "null"
                 ELSE inst[i].wrapper
<1> DEFINE f(r) == [r EXCEPT !.disposed = TRUE,
                       !.wrapper = IF t = Main /\ ~r.toggle THEN "null" ELSE @]
<1>1. inst' = [j \in Insts |-> IF j \in Watching(g) THEN f(inst[j]) ELSE inst[j]]
    BY DEF Dispose, Watching
<1>2. \A r \in Instance : /\ f(r).live = r.live /\ f(r).ptr = r.ptr
                          /\ f(r).toggle = r.toggle /\ f(r).dead = r.dead
                          /\ f(r).linked = r.linked /\ f(r).reach = r.reach
                          /\ f(r).disposed = TRUE
                          /\ f(r).wrapper = IF t = Main /\ ~r.toggle THEN "null" ELSE r.wrapper
    BY DEF Instance
<1>3. inst[i] \in Instance /\ inst[i].disposed \in BOOLEAN
    BY DEF TypeOK, Instance
<1>4. CASE i \in Watching(g)
    <2>1. inst'[i] = f(inst[i])
        BY <1>1, <1>4
    <2> HIDE DEF f
    <2> QED
        BY <1>2, <1>3, <1>4, <2>1
<1>5. CASE i \notin Watching(g)
    <2>1. inst'[i] = inst[i]
        BY <1>1, <1>5
    <2> QED
        BY <1>3, <1>5, <2>1
<1> QED
    BY <1>4, <1>5

(* Its end takes the toggle reference's flag off one instance.             *)
LEMMA ReturnsKeeps ==
    ASSUME TypeOK, NEW t \in Threads, DisposeReturns(t)
    PROVE  /\ disposal[t].object \in Insts
           /\ LET o == disposal[t].object IN
              /\ \A i \in Insts : i # o => inst'[i] = inst[i]
              /\ inst'[o].live = inst[o].live /\ inst'[o].ptr = inst[o].ptr
              /\ inst'[o].dead = inst[o].dead /\ inst'[o].disposed = inst[o].disposed
              /\ inst'[o].linked = inst[o].linked /\ inst'[o].reach = inst[o].reach
              /\ inst'[o].toggle = FALSE
              /\ inst'[o].wrapper = IF t = Main THEN "null" ELSE inst[o].wrapper
<1> DEFINE o == disposal[t].object
           r == [inst[o] EXCEPT !.toggle = FALSE, !.wrapper = IF t = Main THEN "null" ELSE @]
<1>1. o \in Insts
    BY DisposalType DEF DisposeReturns
<1>2. inst[o] \in Instance /\ inst \in [Insts -> Instance]
    BY <1>1 DEF TypeOK
<1>3. inst' = [inst EXCEPT ![o] = r]
    BY <1>1, <1>2 DEF DisposeReturns
<1>4. /\ r.live = inst[o].live /\ r.ptr = inst[o].ptr
      /\ r.dead = inst[o].dead /\ r.disposed = inst[o].disposed
      /\ r.linked = inst[o].linked /\ r.reach = inst[o].reach
      /\ r.toggle = FALSE
      /\ r.wrapper = IF t = Main THEN "null" ELSE inst[o].wrapper
    BY <1>2 DEF Instance
<1> HIDE DEF o, r
<1>5. inst'[o] = r /\ \A i \in Insts : i # o => inst'[i] = inst[i]
    BY <1>1, <1>2, <1>3
<1> QED
    BY <1>1, <1>4, <1>5 DEF o

(* They keep every instance and its GObject, and whether it is disposed    *)
(* when its destructor is at work.                                         *)
LEMMA GLibKeeps ==
    ASSUME TypeOK, GLibStep, NEW i \in Insts
    PROVE  /\ inst'[i].live = inst[i].live /\ inst'[i].ptr = inst[i].ptr
           /\ inst[i].disposed => inst'[i].disposed
           /\ Finalizing(i) => inst'[i].disposed = inst[i].disposed
           /\ ~Disposing(i) => inst'[i].toggle = inst[i].toggle
           /\ late \subseteq late'
<1> DEFINE Goal == /\ inst'[i].live = inst[i].live /\ inst'[i].ptr = inst[i].ptr
                   /\ inst[i].disposed => inst'[i].disposed
                   /\ Finalizing(i) => inst'[i].disposed = inst[i].disposed
                   /\ ~Disposing(i) => inst'[i].toggle = inst[i].toggle
                   /\ late \subseteq late'
<1>1. ASSUME NEW t \in Threads, Deliver(t) \/ DisposeCancels(t) \/ DisposeNotifies(t)
      PROVE  Goal
    <2>1. late \subseteq late'
        BY <1>1 DEF Deliver, DisposeCancels, DisposeNotifies
    <2> QED
        BY <1>1, <2>1, NotifyKeeps
<1>2. ASSUME NEW t \in Threads, NEW g \in GObjects, Ref(t, g) \/ Unref(t, g)
      PROVE  Goal
    BY <1>2 DEF Ref, Unref
<1>3. ASSUME NEW t \in Threads, NEW g \in GObjects, Dispose(t, g)
      PROVE  Goal
    <2>1. inst[i].disposed \in BOOLEAN
        BY DEF TypeOK, Instance
    <2>2. UNCHANGED late
        BY <1>3 DEF Dispose
    <2> QED
        BY <1>3, <2>1, <2>2, DisposeKeeps DEF Watching
<1>4. ASSUME NEW t \in Threads, DisposeReturns(t)
      PROVE  Goal
    <2>1. UNCHANGED late
        BY <1>4 DEF DisposeReturns
    <2> QED
        BY <1>4, <2>1, ReturnsKeeps DEF Disposing
<1> QED
    BY <1>1, <1>2, <1>3, <1>4 DEF GLibStep, LeaveRef, DisposalStep

------------------------------
(* Who holds an object is found through its qdata.                         *)

(* What LeadsBack says of one instance, and the steps that keep it.        *)
Leads(i) ==
    inst[i].ptr # NoObj =>
        /\ inst[i].live
        /\ ~inst[i].disposed => \/ qdata[inst[i].ptr] = i
                                \/ pc = "release" /\ i = cur /\ qdata[inst[i].ptr] = NoInst

SameObject(i) ==
    inst'[i].ptr = inst[i].ptr /\ inst'[i].live = inst[i].live
    /\ inst'[i].disposed = inst[i].disposed

LEMMA KeptLeads ==
    ASSUME LeadsBack, NEW i \in Insts, SameObject(i), UNCHANGED qdata,
           pc = "release" => UNCHANGED <<pc, cur>>
    PROVE  Leads(i)'
BY DEF LeadsBack, Leads, SameObject

(* Another instance is detached from its object.                           *)
LEMMA DetachedLeads ==
    ASSUME TypeOK, LeadsBack, NEW i \in Insts, SameObject(i), i # cur, qdata' = Detached(cur)
    PROVE  Leads(i)'
<1>1. inst[i].ptr \in GObjects \cup {NoObj}
    BY DEF TypeOK, Instance
<1>2. inst[i].ptr # NoObj => inst[i].live
    BY DEF LeadsBack
<1>3. inst[i].ptr # NoObj /\ ~inst[i].disposed => qdata[inst[i].ptr] = i
    BY DEF LeadsBack
<1>4. inst[i].ptr # NoObj /\ ~inst[i].disposed => qdata'[inst[i].ptr] = i
    BY <1>1, <1>3 DEF Detached
<1> QED
    BY <1>2, <1>4 DEF Leads, SameObject

(* An instance that has lost its object.                                   *)
LEMMA LostLeads ==
    ASSUME NEW i \in Insts, inst'[i].ptr = NoObj
    PROVE  Leads(i)'
BY DEF Leads

(* g_object_run_dispose() clears the qdata and tells whoever watches.      *)
LEMMA DisposeLeads ==
    ASSUME TypeOK, LeadsBack, NEW t \in Threads, NEW g \in GObjects, Dispose(t, g),
           NEW i \in Insts
    PROVE  Leads(i)'
<1>1. inst'[i].live = inst[i].live /\ inst'[i].ptr = inst[i].ptr
    BY DisposeKeeps
<1>2. inst[i].ptr \in GObjects \cup {NoObj} /\ inst[i].disposed \in BOOLEAN
    BY DEF TypeOK, Instance
<1>3. inst'[i].disposed = (inst[i].disposed \/ i \in Watching(g))
    BY DisposeKeeps
<1>4. inst[i].ptr # NoObj => inst[i].live
    BY DEF LeadsBack
<1>5. qdata' = [qdata EXCEPT ![g] = NoInst] /\ UNCHANGED <<pc, cur>>
    BY DEF Dispose
<1>6. CASE inst[i].ptr = NoObj \/ inst'[i].disposed
    BY <1>1, <1>4, <1>6 DEF Leads
<1>7. CASE inst[i].ptr # NoObj /\ ~inst'[i].disposed /\ inst[i].ptr # g
    BY <1>1, <1>2, <1>3, <1>5, <1>7 DEF Leads, LeadsBack, TypeOK
<1>8. CASE inst[i].ptr # NoObj /\ ~inst'[i].disposed /\ inst[i].ptr = g
    <2>1. pc = "release" /\ i = cur
        BY <1>2, <1>3, <1>4, <1>8 DEF Watching, Holders, Finalizing, LeadsBack
    <2> QED
        BY <1>1, <1>4, <1>5, <1>8, <2>1 DEF Leads, TypeOK
<1> QED
    BY <1>2, <1>6, <1>7, <1>8

LEMMA NextLeads ==
    ASSUME TypeOK, CurTaken, LeadsBack, [Next]_vars, NEW i \in Insts
    PROVE  Leads(i)'
<1>0. \A j \in Insts : inst[j] \in Instance
    BY DEF TypeOK
<1>1. ASSUME UNCHANGED <<inst, qdata>>, pc = "release" => UNCHANGED <<pc, cur>>
      PROVE  Leads(i)'
    BY <1>1, KeptLeads DEF SameObject
<1>2. CASE GLibStep
    <2>1. UNCHANGED <<pc, cur>>
        BY <1>2, OthersLeaveControl
    <2>2. ASSUME NEW t \in Threads, NEW g \in GObjects, Dispose(t, g)
          PROVE  Leads(i)'
        BY <2>2, DisposeLeads
    <2>3. ASSUME NEW t \in Threads, Deliver(t) \/ DisposalStep(t)
          PROVE  Leads(i)'
        <3>1. UNCHANGED qdata
            BY <2>3 DEF Deliver, DisposalStep, DisposeCancels, DisposeNotifies, DisposeReturns,
                        disposalUnchanged
        <3>2. SameObject(i)
            BY <2>3, NotifyKeeps, ReturnsKeeps DEF DisposalStep, SameObject
        <3> QED
            BY <2>1, <3>1, <3>2, KeptLeads
    <2>4. ASSUME NEW t \in Threads, NEW g \in GObjects, Ref(t, g) \/ Unref(t, g)
          PROVE  Leads(i)'
        BY <1>1, <2>1, <2>4 DEF Ref, Unref
    <2>5. CASE LeaveRef
        BY <1>1, <2>1, <2>5 DEF LeaveRef
    <2> QED
        BY <1>2, <2>2, <2>3, <2>4, <2>5 DEF GLibStep
<1>3. CASE JSStep
    <2>1. UNCHANGED <<pc, cur>> /\ pc = "js"
        BY <1>3, OthersLeaveControl DEF JSStep, JSRuns, Reuse, Associate, AddProperty, Forget
    <2>2. ASSUME NEW g \in GObjects, Reuse(g)
          PROVE  SameObject(i) /\ UNCHANGED qdata
        BY <1>0, <2>2 DEF Reuse, TypeOK, Instance, SameObject
    <2>3. ASSUME NEW j \in Insts, AddProperty(j) \/ Forget(j)
          PROVE  SameObject(i) /\ UNCHANGED qdata
        <3>1. \/ \E b : inst' = [inst EXCEPT ![j].reach = b]
              \/ inst' = [inst EXCEPT ![j].toggle = TRUE, ![j].wrapper = "root"]
            BY <2>3 DEF AddProperty, Forget
        <3>2. UNCHANGED qdata /\ DOMAIN inst = Insts
            BY <2>3 DEF AddProperty, Forget, TypeOK
        <3> QED
            BY <1>0, <3>1, <3>2 DEF Instance, SameObject
    <2>4. ASSUME NEW g \in GObjects, NEW j \in Insts, Associate(g, j)
          PROVE  Leads(i)'
        <3>1. qdata[g] = NoInst /\ qdata' = [qdata EXCEPT ![g] = j]
            BY <2>4 DEF Associate
        <3>2. CASE i = j
            BY <2>4, <3>1, <3>2 DEF Associate, Leads, TypeOK
        <3>3. CASE i # j
            <4>1. inst'[i] = inst[i]
                BY <2>4, <3>3 DEF Associate, TypeOK
            <4>2. CASE inst[i].ptr # NoObj /\ ~inst[i].disposed
                <5>1. inst[i].live /\ qdata[inst[i].ptr] = i /\ inst[i].ptr \in GObjects
                    BY <1>0, <2>1, <4>2 DEF LeadsBack, Instance
                <5>2. inst[i].ptr # g
                    BY <3>1, <5>1, ConstantsAssumption
                <5>3. qdata'[inst[i].ptr] = i
                    BY <3>1, <5>1, <5>2 DEF TypeOK
                <5> QED
                    BY <4>1, <5>1, <5>3 DEF Leads
            <4>3. CASE inst[i].ptr = NoObj \/ inst[i].disposed
                BY <4>1, <4>3 DEF Leads, LeadsBack
            <4> QED
                BY <4>2, <4>3
        <3> QED
            BY <3>2, <3>3
    <2> QED
        BY <1>3, <2>1, <2>2, <2>3, <2>4, KeptLeads DEF JSStep
<1>4. CASE QueueStep
    <2>1. UNCHANGED qdata /\ pc # "release"
        BY <1>4 DEF QueueStep, DrainOne, DispatchIdle, DrainDangling, DrainEnd,
                    IdleDestroyNotify, loopUnchanged
    <2>2. CASE DrainOne
        <3>1. Head(q) \in Item
            BY <2>2, HeadTailProperties DEF DrainOne, TypeOK, QueueTypeOK
        <3>2. Handled(Head(q))
            BY <2>2 DEF DrainOne
        <3> QED
            BY <2>1, <3>1, <3>2, HandledKeeps, KeptLeads DEF SameObject
    <2>3. CASE DispatchIdle \/ DrainDangling \/ DrainEnd \/ IdleDestroyNotify
        BY <1>1, <2>1, <2>3 DEF DispatchIdle, DrainDangling, DrainEnd, IdleDestroyNotify
    <2> QED
        BY <1>4, <2>2, <2>3 DEF QueueStep
<1>5. CASE GCStep
    <2>1. CASE CollectNow \/ TriggerGC \/ SweepStart \/ SweepEnd \/ FinalizeEnd
        BY <1>1, <2>1 DEF CollectNow, TriggerGC, SweepStart, SweepEnd, FinalizeEnd, loopUnchanged
    <2>2. CASE Mark
        <3>1. SameObject(i) /\ UNCHANGED qdata /\ pc # "release"
            BY <1>0, <2>2 DEF Mark, Instance, SameObject
        <3> QED
            BY <3>1, KeptLeads
    <2>3. CASE Disassociate \/ FinalizeRelease
        <3>1. PICK c \in Insts : c = cur
            BY <2>3 DEF Disassociate, FinalizeRelease, CurTaken
        <3>2. qdata' = Detached(cur)
            BY <2>3 DEF Disassociate, FinalizeRelease
        <3>3. inst' = [inst EXCEPT ![c] = Lost(inst[c])]
              \/ inst' = [inst EXCEPT ![c] = Unlinked(Lost(inst[c]))]
            BY <2>3, <3>1 DEF Disassociate, FinalizeRelease
        <3>4. \A r \in Instance : Lost(r).ptr = NoObj /\ Unlinked(Lost(r)).ptr = NoObj
            BY DEF Lost, Unlinked, Instance
        <3>5. CASE i = c
            BY <1>0, <3>3, <3>4, <3>5, LostLeads DEF TypeOK
        <3>6. CASE i # c
            <4>1. inst'[i] = inst[i]
                BY <3>3, <3>6 DEF TypeOK
            <4> QED
                BY <3>1, <3>2, <3>6, <4>1, DetachedLeads DEF SameObject
        <3> QED
            BY <3>5, <3>6
    <2>4. CASE FinalizeCancel
        <3>1. PICK c \in Insts : c = cur
            BY <2>4 DEF FinalizeCancel, CurTaken
        <3>2. CASE i = c
            BY <2>4, <3>1, <3>2, LostLeads DEF FinalizeCancel, Free, TypeOK
        <3>3. CASE i # c
            BY <2>4, <3>1, <3>3, KeptLeads DEF FinalizeCancel, SameObject, TypeOK
        <3> QED
            BY <3>2, <3>3
    <2>5. ASSUME NEW j \in Insts, SweepOne(j)
          PROVE  Leads(i)'
        BY <1>1, <2>5 DEF SweepOne
    <2>6. ASSUME NEW j \in Insts, FinalizeOne(j)
          PROVE  Leads(i)'
        <3>1. UNCHANGED qdata /\ pc # "release"
            BY <2>6 DEF FinalizeOne
        <3>2. CASE i = j /\ inst[j].ptr = NoObj
            BY <2>6, <3>2, LostLeads DEF FinalizeOne, Free, TypeOK
        <3>3. CASE ~(i = j /\ inst[j].ptr = NoObj)
            BY <2>6, <3>1, <3>3, KeptLeads DEF FinalizeOne, SameObject, TypeOK
        <3> QED
            BY <3>2, <3>3
    <2>7. CASE DisposalRaces
        BY <1>1, <2>7 DEF DisposalRaces
    <2> QED
        BY <1>5, <2>1, <2>2, <2>3, <2>4, <2>5, <2>6, <2>7 DEF GCStep
<1>6. CASE DisposeStep
    <2>1. CASE \/ DisposeContext \/ Shutdown \/ FinalGC
               \/ Destroy \/ PrepareEnd \/ DestroyContext
        BY <1>1, <2>1 DEF DisposeContext, Shutdown, FinalGC, Destroy, PrepareEnd, DestroyContext,
                          loopUnchanged
    <2>2. CASE ContextDisposeNotify
        <3>1. \A r \in Instance : /\ [r EXCEPT !.wrapper = "null"].live = r.live
                                  /\ [r EXCEPT !.wrapper = "null"].ptr = r.ptr
                                  /\ [r EXCEPT !.wrapper = "null"].disposed = r.disposed
            BY DEF Instance
        <3>2. SameObject(i) /\ UNCHANGED qdata /\ pc # "release"
            BY <1>0, <2>2, <3>1 DEF ContextDisposeNotify, SameObject
        <3> QED
            BY <3>2, KeptLeads
    <2>3. ASSUME NEW j \in Insts, PrepareOne(j)
          PROVE  Leads(i)'
        <3>1. \A r \in Instance : Unlinked(Lost(r)).ptr = NoObj
            BY DEF Lost, Unlinked, Instance
        <3>2. UNCHANGED qdata /\ pc # "release"
            BY <2>3 DEF PrepareOne
        <3>3. CASE i = j
            BY <1>0, <2>3, <3>1, <3>3, LostLeads DEF PrepareOne, TypeOK
        <3>4. CASE i # j
            BY <2>3, <3>2, <3>4, KeptLeads DEF PrepareOne, SameObject, TypeOK
        <3> QED
            BY <3>3, <3>4
    <2> QED
        BY <1>6, <2>1, <2>2, <2>3 DEF DisposeStep
<1>7. CASE Over \/ UNCHANGED vars
    BY <1>1, <1>7 DEF Over, vars
<1> QED
    BY <1>2, <1>3, <1>4, <1>5, <1>6, <1>7 DEF Next

(* After g_object_unref() in its destructor an instance has no object.     *)
LEMMA NextCancel ==
    ASSUME TypeOK, CurTaken, LeadsBack, [Next]_vars, pc' = "cancel"
    PROVE  inst'[cur'].ptr = NoObj
<1>1. CASE pc = "cancel"
    <2>1. CASE GLibStep
        BY <1>1, <2>1, OthersLeaveControl, GLibKeeps DEF LeadsBack, CurTaken
    <2>2. CASE UNCHANGED vars
        BY <1>1, <2>2 DEF vars, LeadsBack
    <2>3. CASE JSStep \/ QueueStep \/ GCStep \/ DisposeStep
        BY <1>1, <2>3 DEF JSStep, JSRuns, Reuse, Associate, AddProperty, Forget, QueueStep,
           DispatchIdle, DrainOne, DrainDangling, DrainEnd, IdleDestroyNotify, GCStep,
           DisposalRaces, CollectNow, TriggerGC,
           Mark, SweepStart, SweepEnd, FinalizeEnd, Disassociate, FinalizeRelease,
           FinalizeCancel, SweepOne, FinalizeOne, DisposeStep, DisposeContext, Shutdown,
           ContextDisposeNotify, FinalGC, Destroy, PrepareEnd, DestroyContext, PrepareOne
    <2> QED
        BY <2>1, <2>2, <2>3 DEF Next, Over
<1>2. CASE pc # "cancel"
    <2>1. FinalizeRelease
        BY <1>2, OthersLeaveControl DEF Next, Over, vars, JSStep, QueueStep, DispatchIdle,
                                        DrainOne,
           DrainDangling, DrainEnd, IdleDestroyNotify, GCStep, DisposalRaces, CollectNow,
           TriggerGC, StartDrain, Mark,
           SweepStart, SweepEnd, FinalizeEnd, Disassociate, FinalizeCancel, SweepOne,
           FinalizeOne, DisposeStep, DisposeContext, Shutdown, ContextDisposeNotify, FinalGC,
           Destroy, PrepareEnd, DestroyContext, PrepareOne
    <2>2. PICK c \in Insts : c = cur
        BY <2>1 DEF FinalizeRelease, CurTaken
    <2>3. inst' = [inst EXCEPT ![c] = Lost(inst[c])] /\ cur' = c
        BY <2>1, <2>2 DEF FinalizeRelease, gcUnchanged
    <2>4. inst \in [Insts -> Instance] /\ Lost(inst[c]).ptr = NoObj
        BY DEF TypeOK, Lost, Instance
    <2> QED
        BY <2>3, <2>4
<1> QED
    BY <1>1, <1>2

LEMMA LeadsBackHolds == Spec => []LeadsBack
<1>1. Init => LeadsBack
    BY DEF Init, LeadsBack, Free
<1>2. TypeOK /\ CurTaken /\ LeadsBack /\ [Next]_vars => LeadsBack'
    <2> SUFFICES ASSUME TypeOK, CurTaken, LeadsBack, [Next]_vars
                 PROVE  LeadsBack'
        OBVIOUS
    <2>1. \A i \in Insts : Leads(i)'
        BY NextLeads
    <2>2. pc' = "cancel" => inst'[cur'].ptr = NoObj
        BY NextCancel
    <2> QED
        BY <2>1, <2>2 DEF LeadsBack, Leads
<1> QED
    BY <1>1, <1>2, TypeCorrect, PTL DEF Spec

LEMMA UniqueWrapper == LeadsBack => OneWrapperPerObject
<1> SUFFICES ASSUME LeadsBack, NEW i \in Insts, NEW j \in Insts,
                    inst[i].ptr = inst[j].ptr, inst[i].ptr # NoObj,
                    ~inst[i].disposed, ~inst[j].disposed
             PROVE  i = j
    BY DEF OneWrapperPerObject
<1> QED
    BY ConstantsAssumption DEF LeadsBack

(* wrapper_from_gobject() finds the wrapper that an object has: as long as *)
(* it has not been disposed of an object has one ObjectInstance, whoever   *)
(* passes it to JavaScript and whatever the collector is doing.            *)
THEOREM WrapperIsUnique == Spec => []OneWrapperPerObject
BY LeadsBackHolds, UniqueWrapper, PTL

------------------------------
(* The disposals under way.                                                *)

(* What a step keeps of the instance that a disposal is about.             *)
DisposalKept ==
    \A t \in Threads : LET i == disposal[t].object IN i # NoInst =>
        /\ inst'[i].live = inst[i].live /\ inst'[i].disposed = inst[i].disposed
        /\ inst'[i].toggle = inst[i].toggle /\ inst'[i].ptr = inst[i].ptr

LEMMA KeptDisposals ==
    ASSUME TypeOK, DisposalsAreLive, DisposalKept, UNCHANGED disposal
    PROVE  DisposalsAreLive'
BY DEF DisposalsAreLive, DisposalKept

(* A step of the main thread that spares them all.                         *)
LEMMA OthersChange ==
    ASSUME TypeOK, DisposalsAreLive, NEW c \in Insts, ~Disposing(c) \/ inst'[c] = inst[c],
           \A i \in Insts : i # c => inst'[i] = inst[i]
    PROVE  DisposalKept
<1> SUFFICES ASSUME NEW t \in Threads, disposal[t].object # NoInst
             PROVE  inst'[disposal[t].object] = inst[disposal[t].object]
    BY DEF DisposalKept
<1>1. disposal[t].object \in Insts
    BY DisposalType
<1> QED
    BY <1>1 DEF Disposing

LEMMA NextDisposals ==
    ASSUME TypeOK, CurTaken, LeadsBack, DisposalsAreLive, [Next]_vars
    PROVE  DisposalsAreLive'
<1>0. \A i \in Insts : inst[i] \in Instance
    BY DEF TypeOK
<1>1. \A t \in Threads : disposal[t].object # NoInst => disposal[t].object \in Insts
    BY DisposalType
<1>2. ASSUME \A i \in Insts :
                 /\ inst'[i].live = inst[i].live /\ inst'[i].disposed = inst[i].disposed
                 /\ inst'[i].toggle = inst[i].toggle /\ inst'[i].ptr = inst[i].ptr
      PROVE  DisposalKept
    BY <1>1, <1>2 DEF DisposalKept
<1>3. ASSUME UNCHANGED <<inst, disposal>>
      PROVE  DisposalsAreLive'
    BY <1>3 DEF DisposalsAreLive
<1>4. CASE GLibStep
    <2>1. ASSUME NEW t \in Threads, Deliver(t)
          PROVE  DisposalsAreLive'
        <3>1. UNCHANGED disposal
            BY <2>1 DEF Deliver
        <3> QED
            BY <1>2, <2>1, <3>1, NotifyKeeps, KeptDisposals
    <2>2. ASSUME NEW t \in Threads, NEW g \in GObjects, Ref(t, g) \/ Unref(t, g)
          PROVE  DisposalsAreLive'
        BY <1>3, <2>2 DEF Ref, Unref
    <2>3. ASSUME NEW t \in Threads, NEW g \in GObjects, Dispose(t, g)
          PROVE  DisposalsAreLive'
        <3>1. \A u \in Threads : u # t => disposal'[u] = disposal[u]
            BY <2>3 DEF Dispose, TypeOK
        <3>2. \A i \in Insts : /\ inst'[i].live = inst[i].live /\ inst'[i].ptr = inst[i].ptr
                               /\ inst'[i].toggle = inst[i].toggle
                               /\ inst[i].disposed => inst'[i].disposed
            BY <2>3, DisposeKeeps DEF TypeOK, Instance
        <3>3. CASE \E i \in Watching(g) : inst[i].toggle
            <4> DEFINE w == CHOOSE i \in Watching(g) : inst[i].toggle
            <4>1. w \in Watching(g) /\ inst[w].toggle
                BY <3>3
            <4>2. disposal'[t].object = w
                BY <2>3, <3>3 DEF Dispose, Watching, TypeOK
            <4> HIDE DEF w
            <4>3. w \in Insts /\ inst[w].live /\ inst[w].ptr # NoObj /\ ~inst[w].disposed
                BY <4>1, ConstantsAssumption DEF Watching, Holders
            <4>4. inst'[w].disposed
                BY <2>3, <4>1, <4>3, DisposeKeeps
            <4>5. \A u \in Threads : disposal[u].object # w
                BY <4>3, ConstantsAssumption DEF DisposalsAreLive
            <4> QED
                BY <1>1, <3>1, <3>2, <4>1, <4>2, <4>3, <4>4, <4>5 DEF DisposalsAreLive
        <3>4. CASE ~ \E i \in Watching(g) : inst[i].toggle
            <4>1. disposal'[t].object = NoInst
                BY <2>3, <3>4 DEF Dispose, Watching, TypeOK, NoDisposal
            <4> QED
                BY <1>1, <3>1, <3>2, <4>1 DEF DisposalsAreLive
        <3> QED
            BY <3>3, <3>4
    <2>4. ASSUME NEW t \in Threads, DisposeCancels(t) \/ DisposeNotifies(t)
          PROVE  DisposalsAreLive'
        <3>1. \A u \in Threads : disposal'[u].object = disposal[u].object
            <4>1. disposal[t] \in Disposal
                BY <2>4, DisposalType DEF DisposeCancels, DisposeNotifies
            <4> QED
                BY <2>4, <4>1 DEF DisposeCancels, DisposeNotifies, TypeOK, Disposal
        <3>2. DisposalKept
            BY <1>2, <2>4, NotifyKeeps
        <3> QED
            BY <3>1, <3>2 DEF DisposalsAreLive, DisposalKept
    <2>5. ASSUME NEW t \in Threads, DisposeReturns(t)
          PROVE  DisposalsAreLive'
        <3> DEFINE o == disposal[t].object
        <3>1. o \in Insts /\ o # NoInst /\ \A i \in Insts : i # o => inst'[i] = inst[i]
            BY <2>5, ReturnsKeeps, ConstantsAssumption
        <3>2. /\ disposal'[t].object = NoInst
              /\ \A u \in Threads : u # t => disposal'[u] = disposal[u]
            BY <2>5 DEF DisposeReturns, TypeOK, NoDisposal
        <3>3. \A u \in Threads : u # t => disposal[u].object # o
            BY <3>1 DEF DisposalsAreLive
        <3> HIDE DEF o
        <3> QED
            BY <1>1, <3>1, <3>2, <3>3 DEF DisposalsAreLive
    <2>6. CASE LeaveRef
        BY <1>3, <2>6 DEF LeaveRef
    <2> QED
        BY <1>4, <2>1, <2>2, <2>3, <2>4, <2>5, <2>6 DEF GLibStep, DisposalStep
<1>5. CASE JSStep
    <2>1. UNCHANGED disposal
        BY <1>5 DEF JSStep, Reuse, Associate, AddProperty, Forget, jsUnchanged
    <2>2. ASSUME NEW g \in GObjects, Reuse(g)
          PROVE  DisposalKept
        BY <1>0, <1>2, <2>2 DEF Reuse, TypeOK, Instance
    <2>3. ASSUME NEW g \in GObjects, NEW i \in Insts, Associate(g, i)
          PROVE  DisposalKept
        <3>1. ~Disposing(i)
            BY <2>3, ConstantsAssumption DEF Associate, Disposing, DisposalsAreLive
        <3>2. \A j \in Insts : j # i => inst'[j] = inst[j]
            BY <2>3 DEF Associate, TypeOK
        <3> QED
            BY <3>1, <3>2, OthersChange
    <2>4. ASSUME NEW i \in Insts, AddProperty(i)
          PROVE  DisposalKept
        <3>1. ~Disposing(i)
            BY <2>4, ConstantsAssumption DEF AddProperty, Disposing, DisposalsAreLive
        <3>2. \A j \in Insts : j # i => inst'[j] = inst[j]
            BY <2>4 DEF AddProperty, TypeOK
        <3> QED
            BY <3>1, <3>2, OthersChange
    <2>5. ASSUME NEW i \in Insts, Forget(i)
          PROVE  DisposalKept
        BY <1>0, <1>2, <2>5 DEF Forget, TypeOK, Instance
    <2> QED
        BY <1>5, <2>1, <2>2, <2>3, <2>4, <2>5, KeptDisposals DEF JSStep
<1>6. CASE QueueStep
    <2>1. CASE DrainOne
        <3>1. Head(q) \in Item /\ Handled(Head(q)) /\ UNCHANGED disposal
            BY <2>1, HeadTailProperties DEF DrainOne, loopUnchanged, TypeOK, QueueTypeOK
        <3> QED
            BY <1>2, <3>1, HandledKeeps, KeptDisposals
    <2>2. CASE DispatchIdle \/ DrainDangling \/ DrainEnd \/ IdleDestroyNotify
        BY <1>3, <2>2 DEF DispatchIdle, DrainDangling, DrainEnd, IdleDestroyNotify,
                          loopUnchanged
    <2> QED
        BY <1>6, <2>1, <2>2 DEF QueueStep
<1>7. CASE GCStep
    <2>1. UNCHANGED disposal
        BY <1>7 DEF GCStep, CollectNow, TriggerGC, Mark, SweepStart, SweepEnd, FinalizeEnd,
           loopUnchanged, Disassociate, FinalizeRelease, FinalizeCancel, DisposalRaces,
           SweepOne, FinalizeOne, gcUnchanged
    <2>2. CASE CollectNow \/ TriggerGC \/ SweepStart \/ SweepEnd \/ FinalizeEnd \/ DisposalRaces
        BY <1>3, <2>1, <2>2 DEF CollectNow, TriggerGC, SweepStart, SweepEnd, FinalizeEnd,
                                DisposalRaces
    <2>3. CASE Mark
        BY <1>0, <1>2, <2>1, <2>3, KeptDisposals DEF Mark, Instance
    <2>4. CASE Disassociate \/ FinalizeRelease
        <3>1. PICK c \in Insts : c = cur
            BY <2>4 DEF Disassociate, FinalizeRelease, CurTaken
        <3>2. ~Disposing(c) /\ \A i \in Insts : i # c => inst'[i] = inst[i]
            BY <2>4, <3>1 DEF Disassociate, FinalizeRelease, TypeOK
        <3> QED
            BY <2>1, <3>2, OthersChange, KeptDisposals
    <2>5. CASE FinalizeCancel
        <3>1. PICK c \in Insts : c = cur
            BY <2>5 DEF FinalizeCancel, CurTaken
        <3>2. ~Disposing(c)
            BY <2>5, <3>1, ConstantsAssumption
            DEF FinalizeCancel, LeadsBack, Disposing, DisposalsAreLive
        <3>3. \A i \in Insts : i # c => inst'[i] = inst[i]
            BY <2>5, <3>1 DEF FinalizeCancel, TypeOK
        <3> QED
            BY <2>1, <3>2, <3>3, OthersChange, KeptDisposals
    <2>6. ASSUME NEW i \in Insts, SweepOne(i)
          PROVE  DisposalsAreLive'
        BY <1>3, <2>1, <2>6 DEF SweepOne
    <2>7. ASSUME NEW i \in Insts, FinalizeOne(i)
          PROVE  DisposalsAreLive'
        <3>1. CASE inst[i].ptr # NoObj
            BY <1>3, <2>1, <2>7, <3>1 DEF FinalizeOne
        <3>2. CASE inst[i].ptr = NoObj
            <4>1. ~Disposing(i)
                BY <3>2, ConstantsAssumption DEF Disposing, DisposalsAreLive
            <4>2. \A j \in Insts : j # i => inst'[j] = inst[j]
                BY <2>7 DEF FinalizeOne, TypeOK
            <4> QED
                BY <2>1, <4>1, <4>2, OthersChange, KeptDisposals
        <3> QED
            BY <3>1, <3>2
    <2> QED
        BY <1>7, <2>2, <2>3, <2>4, <2>5, <2>6, <2>7 DEF GCStep
<1>8. CASE DisposeStep
    <2>1. UNCHANGED disposal
        BY <1>8 DEF DisposeStep, DisposeContext, Shutdown, ContextDisposeNotify, FinalGC,
                    Destroy,
           PrepareEnd, DestroyContext, PrepareOne, gcUnchanged, loopUnchanged
    <2>2. CASE \/ DisposeContext \/ Shutdown \/ FinalGC
               \/ Destroy \/ PrepareEnd \/ DestroyContext
        BY <1>3, <2>1, <2>2 DEF DisposeContext, Shutdown, FinalGC, Destroy, PrepareEnd,
                                DestroyContext
    <2>3. CASE ContextDisposeNotify
        <3>1. \A r \in Instance : /\ [r EXCEPT !.wrapper = "null"].live = r.live
                                  /\ [r EXCEPT !.wrapper = "null"].ptr = r.ptr
                                  /\ [r EXCEPT !.wrapper = "null"].disposed = r.disposed
                                  /\ [r EXCEPT !.wrapper = "null"].toggle = r.toggle
            BY DEF Instance
        <3> QED
            BY <1>0, <1>2, <2>1, <2>3, <3>1, KeptDisposals DEF ContextDisposeNotify
    <2>4. ASSUME NEW i \in Insts, PrepareOne(i)
          PROVE  DisposalsAreLive'
        <3>1. ~Disposing(i) /\ \A j \in Insts : j # i => inst'[j] = inst[j]
            BY <2>4 DEF PrepareOne, TypeOK
        <3> QED
            BY <2>1, <3>1, OthersChange, KeptDisposals
    <2> QED
        BY <1>8, <2>2, <2>3, <2>4 DEF DisposeStep
<1>9. CASE Over \/ UNCHANGED vars
    BY <1>3, <1>9 DEF Over, vars
<1> QED
    BY <1>4, <1>5, <1>6, <1>7, <1>8, <1>9 DEF Next

LEMMA DisposalsHold == Spec => []DisposalsAreLive
<1>1. Init => DisposalsAreLive
    BY DEF Init, DisposalsAreLive, NoDisposal
<1>2. TypeOK /\ CurTaken /\ LeadsBack /\ DisposalsAreLive /\ [Next]_vars => DisposalsAreLive'
    BY NextDisposals
<1> QED
    BY <1>1, <1>2, TypeCorrect, LeadsBackHolds, PTL DEF Spec
------------------------------
(* The queue holds no stale pointer.                                       *)

(* The instance that an item points to may still be used.                  *)
Usable(i) == inst[i].live /\ (inst[i].ptr # NoObj \/ Finalizing(i))

(* Each item of the next queue was there, or is about an instance that has *)
(* been notified.                                                          *)
LEMMA NewItems ==
    ASSUME QueueTypeOK, QueueChange, NEW n \in 1..Len(q')
    PROVE  \/ \E k \in 1..Len(q) : q'[n] = q[k]
           \/ q'[n].object \in Insts /\ Notified(q'[n].object)
<1> DEFINE Goal == \/ \E k \in 1..Len(q) : q'[n] = q[k]
                   \/ q'[n].object \in Insts /\ Notified(q'[n].object)
<1>1. CASE From(q')
    BY <1>1 DEF From
<1>2. ASSUME NEW i \in Insts, NEW d \in Direction, Notified(i), q' = Enqueued(i, d)
      PROVE  Goal
    <2>1. (\E k \in 1..Len(q) : q'[n] = q[k]) \/ q'[n] = [object |-> i, direction |-> d]
        BY <1>2, EnqueuedProperties
    <2> QED
        BY <1>2, <2>1
<1> QED
    BY <1>1, <1>2 DEF QueueChange

(* From the shutdown on the queue stays empty.                             *)
LEMMA NextStopped ==
    TypeOK /\ CurTaken /\ StoppedIsEmpty /\ [Next]_vars => StoppedIsEmpty'
<1> SUFFICES ASSUME TypeOK, CurTaken, StoppedIsEmpty, [Next]_vars
             PROVE  StoppedIsEmpty'
    OBVIOUS
<1>1. QueueTypeOK /\ QueueChange /\ TypeOK'
    BY NextQueue, NextType DEF TypeOK
<1>2. stopped => q' = << >>
    <2> SUFFICES ASSUME stopped PROVE q' = << >>
        OBVIOUS
    <2>1. q = << >> /\ Len(q) = 0
        BY EmptySeq DEF StoppedIsEmpty
    <2>2. CASE From(q')
        <3>1. q' \in Seq(Item) /\ Len(q') \in Nat
            BY <1>1, LenProperties DEF TypeOK, QueueTypeOK
        <3>2. Len(q') = 0
            BY <2>1, <2>2, <3>1 DEF From
        <3> QED
            BY <3>1, <3>2, EmptySeq
    <2>4. ASSUME NEW i \in Insts, NEW d \in Direction, q' = Enqueued(i, d)
          PROVE  q' = << >>
        BY <2>1, <2>4 DEF Enqueued
    <2> QED
        BY <1>1, <2>2, <2>4 DEF QueueChange
<1>3. ASSUME UNCHANGED <<pc, why, stopped>>
      PROVE  StoppedIsEmpty'
    BY <1>2, <1>3 DEF StoppedIsEmpty
<1> DEFINE Late == {"unroot", "finalgc", "destroy", "prepare", "teardown"}
<1>3a. ASSUME UNCHANGED <<why, stopped>>, pc' \notin Late
      PROVE  StoppedIsEmpty'
    BY <1>2, <1>3a DEF StoppedIsEmpty
<1>4. CASE GLibStep \/ JSStep \/ UNCHANGED vars
    BY <1>3, <1>4, OthersLeaveControl
<1>5. CASE QueueStep
    BY <1>2, <1>5 DEF QueueStep, DispatchIdle, DrainOne, DrainDangling, DrainEnd,
                      IdleDestroyNotify, StartDrain, StoppedIsEmpty
<1>6. CASE GCStep
    <2>1. CASE CollectNow \/ TriggerGC
        BY <1>2, <2>1 DEF CollectNow, TriggerGC, StartDrain, gcUnchanged, StoppedIsEmpty
    <2>2. CASE Mark \/ SweepStart \/ SweepEnd
        BY <1>2, <2>2 DEF Mark, SweepStart, SweepEnd, gcUnchanged, StoppedIsEmpty
    <2>3. CASE FinalizeEnd
        BY <1>2, <2>3 DEF FinalizeEnd, StoppedIsEmpty
    <2>4. CASE Disassociate \/ FinalizeRelease \/ FinalizeCancel
        BY <1>3a, <2>4 DEF Disassociate, FinalizeRelease, FinalizeCancel, gcUnchanged
    <2>5. ASSUME NEW i \in Insts, SweepOne(i)
          PROVE  StoppedIsEmpty'
        BY <1>3a, <2>5 DEF SweepOne, gcUnchanged
    <2>6. ASSUME NEW i \in Insts, FinalizeOne(i)
          PROVE  StoppedIsEmpty'
        BY <1>3a, <2>6 DEF FinalizeOne, gcUnchanged
    <2>7. CASE DisposalRaces
        BY <1>3, <2>7 DEF DisposalRaces, gcUnchanged
    <2> QED
        BY <1>6, <2>1, <2>2, <2>3, <2>4, <2>5, <2>6, <2>7 DEF GCStep
<1>7. CASE DisposeStep
    <2>1. CASE DisposeContext \/ FinalGC \/ DestroyContext
        BY <1>2, <2>1 DEF DisposeContext, FinalGC, DestroyContext, StartDrain, gcUnchanged,
                          StoppedIsEmpty
    <2>2. CASE Shutdown
        BY <1>2, <2>2 DEF Shutdown, StoppedIsEmpty
    <2>3. CASE ContextDisposeNotify \/ Destroy \/ PrepareEnd
        BY <1>2, <2>3 DEF ContextDisposeNotify, Destroy, PrepareEnd, gcUnchanged, StoppedIsEmpty
    <2>4. ASSUME NEW i \in Insts, PrepareOne(i)
          PROVE  StoppedIsEmpty'
        BY <1>2, <2>4 DEF PrepareOne, gcUnchanged, StoppedIsEmpty
    <2> QED
        BY <1>7, <2>1, <2>2, <2>3, <2>4 DEF DisposeStep
<1> QED
    BY <1>4, <1>5, <1>6, <1>7 DEF Next, Over

(* A step that leaves Usable, or late, what it does not clear from the      *)
(* queue.                                                                  *)
Spared(i) == i \in late \/ Usable(i) => i \in late' \/ Usable(i)' \/ ~AnythingQueued(i)'

(* Steps that keep live, ptr and the destructor's progress spare everyone. *)
LEMMA KeptSpared ==
    ASSUME UNCHANGED <<pc, cur>>, late \subseteq late', NEW i \in Insts,
           inst'[i].live = inst[i].live, inst'[i].ptr = inst[i].ptr
    PROVE  Spared(i)
BY DEF Spared, Usable, Finalizing

(* No step lets an instance go while something about it is queued.         *)
LEMMA NextSpared ==
    ASSUME TypeOK, CurTaken, NothingToCancel, StoppedIsEmpty, [Next]_vars
    PROVE  \A i \in Insts : Spared(i)
<1>0. QueueTypeOK /\ \A i \in Insts : inst[i] \in Instance
    BY DEF TypeOK
<1>1. CASE GLibStep
    <2>1. UNCHANGED <<pc, cur>>
        BY <1>1, OthersLeaveControl
    <2> QED
        BY <1>1, <2>1, GLibKeeps, KeptSpared
<1>2. CASE UNCHANGED vars
    BY <1>2, KeptSpared DEF vars
<1>3. CASE JSStep
    <2>1. UNCHANGED <<pc, cur>> /\ pc = "js"
        BY <1>3, OthersLeaveControl DEF JSStep, JSRuns, Reuse, Associate, AddProperty, Forget
    <2>2. ASSUME NEW g \in GObjects, Reuse(g)
          PROVE  \A i \in Insts : inst'[i].live = inst[i].live /\ inst'[i].ptr = inst[i].ptr
                 /\ UNCHANGED late
        BY <1>0, <2>2 DEF Reuse, TypeOK, Instance
    <2>3. ASSUME NEW g \in GObjects, NEW j \in Insts, Associate(g, j)
          PROVE  \A i \in Insts : Spared(i)
        <3>1. \A i \in Insts : i = j \/ inst'[i] = inst[i]
            BY <2>3 DEF Associate, TypeOK
        <3>2. Spared(j)
            <4>1. ~AnythingQueued(j) /\ q' = q
                BY <2>3 DEF Associate, jsUnchanged
            <4>2. ~AnythingQueued(j)'
                BY <4>1 DEF AnythingQueued, IsQueued, Positions
            <4> QED
                BY <4>2 DEF Spared
        <3>3. \A i \in Insts : i \in late => i = j \/ i \in late'
            BY <2>3 DEF Associate
        <3> QED
            BY <2>1, <3>1, <3>2, <3>3 DEF Spared, Usable, Finalizing
    <2>4. ASSUME NEW j \in Insts, AddProperty(j) \/ Forget(j)
          PROVE  \A i \in Insts : inst'[i].live = inst[i].live /\ inst'[i].ptr = inst[i].ptr
                 /\ UNCHANGED late
        BY <1>0, <2>4 DEF AddProperty, Forget, TypeOK, Instance
    <2> QED
        BY <1>3, <2>1, <2>2, <2>3, <2>4, KeptSpared DEF JSStep
<1>4. ASSUME UNCHANGED <<inst, late>>, pc \notin {"release", "cancel"}
      PROVE  \A i \in Insts : Spared(i)
    BY <1>4 DEF Spared, Usable, Finalizing
<1>5. CASE QueueStep
    <2>1. CASE DrainOne
        <3>1. Head(q) \in Item
            BY <2>1, HeadTailProperties DEF DrainOne, TypeOK, QueueTypeOK
        <3>2. Handled(Head(q)) /\ UNCHANGED <<pc, cur, late>>
            BY <2>1 DEF DrainOne, loopUnchanged
        <3> QED
            BY <3>1, <3>2, HandledKeeps, KeptSpared
    <2>2. CASE DispatchIdle \/ DrainDangling \/ DrainEnd \/ IdleDestroyNotify
        BY <1>4, <2>2 DEF DispatchIdle, DrainDangling, DrainEnd, IdleDestroyNotify,
                          loopUnchanged
    <2> QED
        BY <1>5, <2>1, <2>2 DEF QueueStep
<1>6. CASE GCStep
    <2>0. UNCHANGED late
        BY <1>6 DEF GCStep, CollectNow, TriggerGC, Mark, SweepStart, SweepEnd, FinalizeEnd,
           loopUnchanged, Disassociate, FinalizeRelease, FinalizeCancel, DisposalRaces,
           SweepOne, FinalizeOne, gcUnchanged
    <2>1. CASE CollectNow \/ TriggerGC \/ SweepStart \/ SweepEnd \/ FinalizeEnd
        BY <1>4, <2>0, <2>1 DEF CollectNow, TriggerGC, SweepStart, SweepEnd, FinalizeEnd
    <2>2. CASE Mark
        <3>1. \A i \in Insts : inst'[i].live = inst[i].live /\ inst'[i].ptr = inst[i].ptr
            BY <1>0, <2>2 DEF Mark, Instance
        <3> QED
            BY <2>0, <2>2, <3>1 DEF Mark, Spared, Usable, Finalizing
    <2>3. CASE Disassociate
        <3>1. cur \in Insts /\ pc = "disassociate"
            BY <2>3 DEF Disassociate, CurTaken
        <3>2. PICK c \in Insts : c = cur
            BY <3>1
        <3>3. q' = Cancelled(c)
            BY <2>3, <3>2 DEF Disassociate
        <3>4. Spared(c)
            BY <1>0, <3>3, CancelledClears DEF Spared
        <3>5. \A i \in Insts : i = c \/ inst'[i] = inst[i]
            BY <2>3, <3>2 DEF Disassociate, TypeOK
        <3> QED
            BY <2>0, <3>1, <3>4, <3>5 DEF Spared, Usable, Finalizing
    <2>4. CASE FinalizeRelease
        <3>1. PICK c \in Insts : c = cur
            BY <2>4 DEF FinalizeRelease, CurTaken
        <3>2. inst' = [inst EXCEPT ![c] = Lost(inst[c])]
            BY <2>4, <3>1 DEF FinalizeRelease
        <3>3. Lost(inst[c]).live = inst[c].live
            BY <1>0 DEF Lost, Instance
        <3>4. Spared(c)
            BY <2>0, <2>4, <3>1, <3>2, <3>3
            DEF FinalizeRelease, Spared, Usable, Finalizing, TypeOK
        <3>5. \A i \in Insts : i = c \/ inst'[i] = inst[i]
            BY <3>2 DEF TypeOK
        <3> QED
            BY <2>0, <2>4, <3>1, <3>4, <3>5 DEF FinalizeRelease, Spared, Usable, Finalizing
    <2>5. CASE FinalizeCancel
        <3>1. PICK c \in Insts : c = cur
            BY <2>5 DEF FinalizeCancel, CurTaken
        <3>2. Spared(c)
            <4>1. CASE inst[c].toggle
                <5>1. q' = Cancelled(c)
                    BY <2>5, <3>1, <4>1 DEF FinalizeCancel, CancelledAgain
                <5> QED
                    BY <1>0, <5>1, CancelledClears DEF Spared
            <4>2. CASE ~inst[c].toggle
                <5>1. (c \in late \/ ~AnythingQueued(c)) /\ q' = q
                    BY <2>5, <3>1, <4>2 DEF FinalizeCancel, CancelledAgain, NothingToCancel
                <5> QED
                    BY <2>0, <5>1 DEF Spared, AnythingQueued, IsQueued, Positions
            <4> QED
                BY <4>1, <4>2
        <3>3. \A i \in Insts : i = c \/ (inst'[i] = inst[i] /\ ~Finalizing(i))
            BY <2>5, <3>1 DEF FinalizeCancel, Finalizing, TypeOK
        <3> QED
            BY <2>0, <3>2, <3>3 DEF Spared, Usable
    <2>6. ASSUME NEW i \in Insts, SweepOne(i)
          PROVE  \A j \in Insts : Spared(j)
        BY <1>4, <2>0, <2>6 DEF SweepOne
    <2>7. ASSUME NEW i \in Insts, FinalizeOne(i)
          PROVE  \A j \in Insts : Spared(j)
        <3>1. q' = Cancelled(i) /\ pc = "finalize"
            BY <2>7 DEF FinalizeOne
        <3>2. Spared(i)
            BY <1>0, <3>1, CancelledClears DEF Spared
        <3>3. \A j \in Insts : j = i \/ inst'[j] = inst[j]
            BY <2>7 DEF FinalizeOne, TypeOK
        <3> QED
            BY <2>0, <3>1, <3>2, <3>3 DEF Spared, Usable, Finalizing
    <2>8. CASE DisposalRaces
        BY <2>0, <2>8, KeptSpared DEF DisposalRaces
    <2> QED
        BY <1>6, <2>1, <2>2, <2>3, <2>4, <2>5, <2>6, <2>7, <2>8 DEF GCStep
<1>7. CASE DisposeStep
    <2>1. CASE \/ DisposeContext \/ Shutdown \/ FinalGC
               \/ Destroy \/ PrepareEnd \/ DestroyContext
        BY <1>4, <2>1 DEF DisposeContext, Shutdown, FinalGC, Destroy, PrepareEnd, DestroyContext,
                          loopUnchanged, gcUnchanged
    <2>2. CASE ContextDisposeNotify
        <3>1. \A r \in Instance : /\ [r EXCEPT !.wrapper = "null"].live = r.live
                                  /\ [r EXCEPT !.wrapper = "null"].ptr = r.ptr
            BY DEF Instance
        <3>2. \A i \in Insts : inst'[i].live = inst[i].live /\ inst'[i].ptr = inst[i].ptr
            BY <1>0, <2>2, <3>1 DEF ContextDisposeNotify
        <3> QED
            BY <2>2, <3>2 DEF ContextDisposeNotify, gcUnchanged, Spared, Usable, Finalizing
    <2>3. ASSUME NEW i \in Insts, PrepareOne(i)
          PROVE  \A j \in Insts : Spared(j)
        <3>1. q = << >> /\ q' = << >>
            BY <2>3 DEF PrepareOne, StoppedIsEmpty
        <3>2. \A j \in Insts : ~AnythingQueued(j)'
            <4>1. Len(q') = 0
                BY <3>1, EmptySeq
            <4> QED
                BY <4>1 DEF AnythingQueued, IsQueued, Positions
        <3> QED
            BY <3>2 DEF Spared
    <2> QED
        BY <1>7, <2>1, <2>2, <2>3 DEF DisposeStep
<1> QED
    BY <1>1, <1>2, <1>3, <1>5, <1>6, <1>7 DEF Next, Over

(* The destructor's second cancel() is left out only when it would find    *)
(* nothing.                                                                *)
LEMMA NextNothingToCancel ==
    TypeOK /\ CurTaken /\ DisposalsAreLive /\ NothingToCancel /\ [Next]_vars
        => NothingToCancel'
<1> SUFFICES ASSUME TypeOK, CurTaken, DisposalsAreLive, NothingToCancel, [Next]_vars
             PROVE  NothingToCancel'
    OBVIOUS
<1>1. QueueTypeOK /\ QueueChange
    BY NextQueue DEF TypeOK
<1>2. ASSUME pc' \notin {"release", "cancel"}
      PROVE  NothingToCancel'
    BY <1>2 DEF NothingToCancel
<1>3. ASSUME UNCHANGED <<pc, cur, q, inst, late>>
      PROVE  NothingToCancel'
    BY <1>3 DEF NothingToCancel, AnythingQueued, IsQueued, Positions
<1>4. CASE GLibStep
    <2> SUFFICES ASSUME pc' \in {"release", "cancel"}, (AnythingQueued(cur))',
                        inst'[cur'].disposed \/ ~inst'[cur'].toggle, cur' \notin late'
                 PROVE  FALSE
        BY DEF NothingToCancel
    <2>1. UNCHANGED <<pc, cur>>
        BY <1>4, OthersLeaveControl
    <2>2. PICK c \in Insts : c = cur
        BY <2>1 DEF CurTaken
    <2>3. Finalizing(c) /\ c \notin late' /\ c \notin late
        BY <1>4, <2>1, <2>2, GLibKeeps DEF Finalizing
    <2>3a. inst[c].disposed \/ ~inst[c].toggle
        <3>1. CASE Disposing(c)
            BY <3>1, ConstantsAssumption DEF Disposing, DisposalsAreLive
        <3>2. CASE ~Disposing(c)
            BY <1>4, <2>1, <2>2, <2>3, <3>2, GLibKeeps
        <3> QED
            BY <3>1, <3>2
    <2>4. ~AnythingQueued(c)
        BY <2>1, <2>2, <2>3, <2>3a DEF NothingToCancel
    <2>5. PICK n \in 1..Len(q'), d \in Direction : q'[n] = [object |-> c, direction |-> d]
        BY <2>1, <2>2 DEF AnythingQueued, IsQueued, Positions
    <2>6. CASE \E k \in 1..Len(q) : q'[n] = q[k]
        BY <2>4, <2>5, <2>6 DEF AnythingQueued, IsQueued, Positions
    <2>7. CASE Notified(q'[n].object)
        BY <2>3, <2>3a, <2>5, <2>7 DEF Notified, Installed
    <2> QED
        BY <1>1, <2>6, <2>7, NewItems
<1>5. CASE UNCHANGED vars
    BY <1>3, <1>5 DEF vars
<1>6. CASE JSStep
    BY <1>2, <1>6 DEF JSStep, JSRuns, Reuse, Associate, AddProperty, Forget, jsUnchanged
<1>7. CASE QueueStep
    BY <1>2, <1>7 DEF QueueStep, DispatchIdle, DrainOne, DrainDangling, DrainEnd,
                      IdleDestroyNotify, StartDrain
<1>8. CASE GCStep
    <2>1. CASE CollectNow \/ TriggerGC \/ Mark \/ SweepStart \/ SweepEnd
        BY <1>2, <2>1 DEF CollectNow, TriggerGC, StartDrain, Mark, SweepStart, SweepEnd
    <2>2. CASE FinalizeEnd \/ Disassociate \/ FinalizeCancel
        BY <1>2, <2>2 DEF FinalizeEnd, Disassociate, FinalizeCancel
    <2>3. CASE FinalizeRelease
        <3>1. PICK c \in Insts : c = cur
            BY <2>3 DEF FinalizeRelease, CurTaken
        <3>2. inst' = [inst EXCEPT ![c] = Lost(inst[c])] /\ UNCHANGED <<cur, q, late>>
            BY <2>3, <3>1 DEF FinalizeRelease, gcUnchanged
        <3>3. Lost(inst[c]).toggle = inst[c].toggle /\ Lost(inst[c]).disposed = inst[c].disposed
            BY DEF Lost, Instance, TypeOK
        <3>4. inst'[c].toggle = inst[c].toggle /\ inst'[c].disposed = inst[c].disposed
            BY <3>2, <3>3 DEF TypeOK
        <3>5. AnythingQueued(cur)' = AnythingQueued(cur)
            BY <3>2 DEF AnythingQueued, IsQueued, Positions
        <3>6. inst[c].disposed \/ ~inst[c].toggle => c \in late \/ ~AnythingQueued(cur)
            BY <2>3, <3>1 DEF FinalizeRelease, NothingToCancel
        <3> QED
            BY <3>1, <3>2, <3>4, <3>5, <3>6 DEF NothingToCancel
    <2>4. ASSUME NEW i \in Insts, SweepOne(i)
          PROVE  NothingToCancel'
        BY <1>2, <2>4 DEF SweepOne
    <2>5. ASSUME NEW i \in Insts, FinalizeOne(i)
          PROVE  NothingToCancel'
        <3>1. CASE inst[i].ptr # NoObj
            <4>1. q' = Cancelled(i) /\ cur' = i
                BY <2>5, <3>1 DEF FinalizeOne
            <4>2. ~AnythingQueued(i)'
                BY <1>1, <4>1, CancelledClears
            <4>3. ~AnythingQueued(cur)'
                BY <4>1, <4>2 DEF AnythingQueued, IsQueued, Positions
            <4> QED
                BY <4>3 DEF NothingToCancel
        <3>2. CASE inst[i].ptr = NoObj
            BY <1>2, <2>5, <3>2 DEF FinalizeOne
        <3> QED
            BY <3>1, <3>2
    <2>6. CASE DisposalRaces
        BY <1>3, <2>6 DEF DisposalRaces, gcUnchanged
    <2> QED
        BY <1>8, <2>1, <2>2, <2>3, <2>4, <2>5, <2>6 DEF GCStep
<1>9. CASE DisposeStep
    <2>1. CASE DisposeContext \/ Shutdown \/ ContextDisposeNotify \/ FinalGC
        BY <1>2, <2>1 DEF DisposeContext, Shutdown, ContextDisposeNotify, FinalGC, StartDrain
    <2>2. CASE Destroy \/ PrepareEnd \/ DestroyContext
        BY <1>2, <2>2 DEF Destroy, PrepareEnd, DestroyContext, StartDrain
    <2>3. ASSUME NEW i \in Insts, PrepareOne(i)
          PROVE  NothingToCancel'
        BY <1>2, <2>3 DEF PrepareOne
    <2> QED
        BY <1>9, <2>1, <2>2, <2>3 DEF DisposeStep
<1> QED
    BY <1>4, <1>5, <1>6, <1>7, <1>8, <1>9 DEF Next, Over

(* A step that spares every instance keeps the queue free of stale         *)
(* pointers.                                                               *)
LEMMA NextAlive ==
    TypeOK /\ CurTaken /\ DisposalsAreLive /\ NothingToCancel /\ StoppedIsEmpty
    /\ QueuedAreAlive /\ [Next]_vars => QueuedAreAlive'
<1> SUFFICES ASSUME TypeOK, CurTaken, DisposalsAreLive, NothingToCancel, StoppedIsEmpty,
                    QueuedAreAlive, [Next]_vars, NEW n \in 1..Len(q'), q'[n].object \notin late'
             PROVE  /\ inst'[q'[n].object].live
                    /\ \/ inst'[q'[n].object].ptr # NoObj
                       \/ pc' \in {"release", "cancel"} /\ q'[n].object = cur'
    BY DEF QueuedAreAlive, Finalizing
<1>1. QueueTypeOK /\ QueueChange /\ TypeOK'
    BY NextQueue, NextType DEF TypeOK
<1>2. q'[n] \in Item
    <2>1. q' \in Seq(Item)
        BY <1>1 DEF TypeOK, QueueTypeOK
    <2> QED
        BY <2>1, ElementOfSeq
<1>3. PICK i \in Insts, d \in Direction : q'[n] = [object |-> i, direction |-> d]
    BY <1>2 DEF Item
<1>4. i \in late \/ Usable(i)
    <2>1. CASE \E k \in 1..Len(q) : q'[n] = q[k]
        BY <1>3, <2>1 DEF QueuedAreAlive, Usable
    <2>2. CASE Notified(i)
        <3>1. CASE Installed(i)
            BY <3>1 DEF Installed, Usable
        <3>2. CASE Disposing(i)
            BY <3>2, ConstantsAssumption DEF Disposing, DisposalsAreLive, Usable
        <3> QED
            BY <1>3, <2>2, <3>1, <3>2 DEF Notified
    <2> QED
        BY <1>1, <1>3, <2>1, <2>2, NewItems
<1>5. AnythingQueued(i)'
    BY <1>3 DEF AnythingQueued, IsQueued, Positions
<1>6. Usable(i)'
    BY <1>3, <1>4, <1>5, NextSpared DEF Spared
<1> QED
    BY <1>3, <1>6 DEF Usable, Finalizing

LEMMA AliveHolds == Spec => [](NothingToCancel /\ StoppedIsEmpty /\ QueuedAreAlive)
<1>1. Init => NothingToCancel /\ StoppedIsEmpty /\ QueuedAreAlive
    <2> SUFFICES ASSUME Init PROVE NothingToCancel /\ StoppedIsEmpty /\ QueuedAreAlive
        OBVIOUS
    <2>1. Len(q) = 0
        BY EmptySeq DEF Init, QueueInit
    <2> QED
        BY <2>1 DEF Init, QueueInit, NothingToCancel, StoppedIsEmpty, QueuedAreAlive
<1>2. TypeOK /\ CurTaken /\ DisposalsAreLive /\ NothingToCancel /\ StoppedIsEmpty
      /\ QueuedAreAlive /\ [Next]_vars => (NothingToCancel /\ StoppedIsEmpty /\ QueuedAreAlive)'
    BY NextNothingToCancel, NextStopped, NextAlive
<1> QED
    BY <1>1, <1>2, TypeCorrect, DisposalsHold, PTL DEF Spec

(* The queue's unowned pointers are never stale: what is queued is about   *)
(* an ObjectInstance that is still there, or that ~ObjectInstance() is     *)
(* about to cancel, whatever threads take, drop and dispose of -- but for  *)
(* the instances in late, that a notification reached when their toggle    *)
(* reference had gone or their destructor had begun.                       *)
THEOREM QueueNeverDangles == Spec => []QueuedAreAlive
BY AliveHolds, PTL

------------------------------
(* What toggle references are for: a wrapper is rooted exactly as long as  *)
(* something else owns the GObject, up to the toggles that wait in the     *)
(* queue or are in flight.                                                 *)

(* Toggles of an instance in a queue, and whether there is more than one.  *)
QueuedIn(s, i, d) == \E k \in 1..Len(s) : s[k] = [object |-> i, direction |-> d]
OnceIn(s, i) == \A k, l \in 1..Len(s) : s[k].object = i /\ s[l].object = i => k = l

(* What the notifications that have arrived say: something else owns the   *)
(* GObject.                                                                *)
Told(i) == ~((owners[inst[i].ptr] # {}) <=> (InFlight(i) # {}))

(* Notifications come one by one and alternate, and so do the toggles that *)
(* they leave in the queue.                                                *)
Alternates(i) ==
    Installed(i) =>
        /\ \A t, u \in InFlight(i) : t = u
        /\ \A t \in InFlight(i) : note[t].direction = "UP" <=> ~Told(i)
        /\ IsQueued(i, "UP") => Told(i)
        /\ IsQueued(i, "DOWN") => ~Told(i)

(* A toggle waits only if it will change the wrapper, and then the wrapper *)
(* will be what the notifications say.                                     *)
Agreed(i) ==
    Installed(i) /\ ~Finalizing(i) =>
        /\ inst[i].wrapper \in {"heap", "root"}
        /\ IsQueued(i, "UP") => inst[i].wrapper = "heap"
        /\ IsQueued(i, "DOWN") => inst[i].wrapper = "root"
        /\ ~AnythingQueued(i) => (inst[i].wrapper = "root" <=> Told(i))

(* Before its toggle reference an instance has no toggles.                 *)
Unused(i) ==
    inst[i].live /\ ~inst[i].disposed /\ ~inst[i].toggle =>
        ~AnythingQueued(i) /\ InFlight(i) = {}

(* While it has its toggle reference an instance waits at most once.       *)
WaitsOnce(i) == Installed(i) => OnceIn(q, i)

Orderly(i) == WaitsOnce(i) /\ Alternates(i) /\ Agreed(i) /\ Unused(i)
RootingInv ==
    /\ destroying => stopped
    /\ SerialNotify /\ ~stopped => \A i \in Insts : Orderly(i)

------------------------------
(* What the operations of the queue do to the toggles of one instance.     *)
LEMMA QueuedIsIn ==
    /\ \A i, d : IsQueued(i, d) <=> QueuedIn(q, i, d)
    /\ \A i, d : IsQueued(i, d)' <=> QueuedIn(q', i, d)
BY DEF IsQueued, Positions, QueuedIn

(* An item of the queue is queued in its direction.                        *)
LEMMA ItemsAreQueued ==
    ASSUME NEW s \in Seq(Item), NEW k \in 1..Len(s)
    PROVE  /\ s[k].object \in Insts /\ s[k].direction \in Direction
           /\ s[k] = [object |-> s[k].object, direction |-> s[k].direction]
           /\ QueuedIn(s, s[k].object, s[k].direction)
<1>1. s[k] \in Item
    BY ElementOfSeq
<1>2. /\ s[k].object \in Insts /\ s[k].direction \in Direction
      /\ s[k] = [object |-> s[k].object, direction |-> s[k].direction]
    BY <1>1 DEF Item
<1> QED
    BY <1>2 DEF QueuedIn

LEMMA NothingOnce ==
    ASSUME NEW s \in Seq(Item), NEW i \in Insts, \A d \in Direction : ~QueuedIn(s, i, d)
    PROVE  OnceIn(s, i)
BY ItemsAreQueued DEF OnceIn

(* Leaving items out.                                                      *)
LEMMA KeepViews ==
    ASSUME NEW s \in Seq(Item), NEW K \in SUBSET (1..Len(s)), NEW i \in Insts
    PROVE  /\ OnceIn(s, i) => OnceIn(Keep(s, K), i)
           /\ \A d : QueuedIn(Keep(s, K), i, d) <=>
                         \E k \in K : s[k] = [object |-> i, direction |-> d]
<1>1. Len(s) \in Nat
    BY LenProperties
<1>2. /\ Len(Keep(s, K)) = Cardinality(K)
      /\ \A n \in 1..Cardinality(K) : Nth(K, n) \in K /\ Keep(s, K)[n] = s[Nth(K, n)]
    BY KeepItems
<1>3. \A n \in 1..Cardinality(K) : Rank(K, Nth(K, n)) = n
    BY <1>1, NthMember
<1>4. OnceIn(s, i) => OnceIn(Keep(s, K), i)
    <2> SUFFICES ASSUME OnceIn(s, i), NEW m \in 1..Cardinality(K), NEW n \in 1..Cardinality(K),
                        Keep(s, K)[m].object = i, Keep(s, K)[n].object = i
                 PROVE  m = n
        BY <1>2 DEF OnceIn
    <2>1. Nth(K, m) = Nth(K, n)
        BY <1>2 DEF OnceIn
    <2> QED
        BY <1>3, <2>1
<1>5. \A d : QueuedIn(Keep(s, K), i, d) <=> \E k \in K : s[k] = [object |-> i, direction |-> d]
    <2> SUFFICES ASSUME NEW d
                 PROVE  QueuedIn(Keep(s, K), i, d) <=>
                            \E k \in K : s[k] = [object |-> i, direction |-> d]
        OBVIOUS
    <2> DEFINE item == [object |-> i, direction |-> d]
    <2> HIDE DEF item
    <2>1. \A n \in 1..Len(Keep(s, K)) : \E k \in K : Keep(s, K)[n] = s[k]
        BY KeepSound
    <2>2. \A k \in K : \E n \in 1..Len(Keep(s, K)) : Keep(s, K)[n] = s[k]
        BY KeepComplete
    <2>3. (\E n \in 1..Len(Keep(s, K)) : Keep(s, K)[n] = item) <=> \E k \in K : s[k] = item
        BY <2>1, <2>2
    <2> QED
        BY <2>3 DEF QueuedIn, item
<1> QED
    BY <1>4, <1>5

LEMMA CancelledViews ==
    ASSUME QueueTypeOK, NEW o \in Insts, NEW i \in Insts
    PROVE  /\ OnceIn(q, i) => OnceIn(Cancelled(o), i)
           /\ \A d : ~QueuedIn(Cancelled(o), o, d)
           /\ i # o => \A d : QueuedIn(Cancelled(o), i, d) <=> QueuedIn(q, i, d)
           /\ OnceIn(Cancelled(o), o)
<1> DEFINE K == {k \in 1..Len(q) : q[k].object # o}
<1>1. q \in Seq(Item) /\ K \in SUBSET (1..Len(q)) /\ Cancelled(o) = Keep(q, K)
    BY DEF QueueTypeOK, Cancelled
<1> HIDE DEF K
<1>2. \A j \in Insts :
          /\ OnceIn(q, j) => OnceIn(Keep(q, K), j)
          /\ \A d : QueuedIn(Keep(q, K), j, d) <=>
                        \E k \in K : q[k] = [object |-> j, direction |-> d]
    BY <1>1, KeepViews
<1>3. \A d : ~QueuedIn(Keep(q, K), o, d)
    <2> SUFFICES ASSUME NEW d, NEW k \in K, q[k] = [object |-> o, direction |-> d]
                 PROVE  FALSE
        BY <1>2
    <2> QED
        BY DEF K
<1>4. ASSUME i # o
      PROVE  \A d : QueuedIn(Keep(q, K), i, d) <=> QueuedIn(q, i, d)
    <2> SUFFICES ASSUME NEW d
                 PROVE  QueuedIn(Keep(q, K), i, d) <=> QueuedIn(q, i, d)
        OBVIOUS
    <2>1. \A k \in 1..Len(q) : q[k] = [object |-> i, direction |-> d] => k \in K
        BY <1>4 DEF K
    <2> QED
        BY <1>1, <1>2, <2>1 DEF QueuedIn
<1>5. OnceIn(Cancelled(o), o)
    <2>1. Cancelled(o) \in Seq(Item)
        BY CancelledProperties
    <2> QED
        BY <1>1, <1>3, <2>1, NothingOnce
<1> QED
    BY <1>1, <1>2, <1>3, <1>4, <1>5

LEMMA AppendViews ==
    ASSUME NEW s \in Seq(Item), NEW o \in Insts, NEW d \in Direction, NEW i \in Insts
    PROVE  LET t == Append(s, [object |-> o, direction |-> d]) IN
           /\ t \in Seq(Item)
           /\ i # o => /\ OnceIn(s, i) => OnceIn(t, i)
                       /\ \A e : QueuedIn(t, i, e) <=> QueuedIn(s, i, e)
           /\ (\A e \in Direction : ~QueuedIn(s, o, e)) =>
                  /\ OnceIn(t, o)
                  /\ \A e : QueuedIn(t, o, e) <=> e = d
<1> DEFINE item == [object |-> o, direction |-> d]
           t == Append(s, item)
           n == Len(s)
<1>1. item \in Item /\ item.object = o /\ item.direction = d
    BY DEF Item
<1>2. n \in Nat /\ \A k \in 1..n : s[k] \in Item
    BY LenProperties, ElementOfSeq
<1> HIDE DEF item
<1>3. t \in Seq(Item) /\ Len(t) = n + 1 /\ (\A k \in 1..n : t[k] = s[k]) /\ t[n + 1] = item
    BY <1>1, AppendProperties
<1> HIDE DEF t, n
<1>4. \A k \in 1..Len(t) : k \in 1..n \/ k = n + 1
    BY <1>2, <1>3
<1>5. \A k \in 1..n : k \in 1..Len(t)
    BY <1>2, <1>3
<1>6. n + 1 \in 1..Len(t)
    BY <1>2, <1>3
<1>7. ASSUME i # o
      PROVE  /\ OnceIn(s, i) => OnceIn(t, i)
             /\ \A e : QueuedIn(t, i, e) <=> QueuedIn(s, i, e)
    <2>1. \A k \in 1..Len(t) : t[k].object = i => k \in 1..n /\ t[k] = s[k]
        BY <1>1, <1>3, <1>4, <1>7
    <2>2. OnceIn(s, i) => OnceIn(t, i)
        BY <2>1 DEF OnceIn, n
    <2>3. \A e : QueuedIn(t, i, e) <=> QueuedIn(s, i, e)
        <3> SUFFICES ASSUME NEW e
                     PROVE  QueuedIn(t, i, e) <=> QueuedIn(s, i, e)
            OBVIOUS
        <3>1. [object |-> i, direction |-> e].object = i
            OBVIOUS
        <3> QED
            BY <1>3, <1>5, <2>1, <3>1 DEF QueuedIn, n
    <2> QED
        BY <2>2, <2>3
<1>8. ASSUME \A e \in Direction : ~QueuedIn(s, o, e)
      PROVE  /\ OnceIn(t, o)
             /\ \A e : QueuedIn(t, o, e) <=> e = d
    <2>1. \A k \in 1..n : s[k].object # o
        BY <1>8, ItemsAreQueued DEF n
    <2>2. \A k \in 1..Len(t) : t[k].object = o => k = n + 1
        BY <1>3, <1>4, <2>1
    <2>3. OnceIn(t, o)
        BY <2>2 DEF OnceIn
    <2>4. \A e : QueuedIn(t, o, e) <=> e = d
        <3> SUFFICES ASSUME NEW e
                     PROVE  QueuedIn(t, o, e) <=> e = d
            OBVIOUS
        <3>1. [object |-> o, direction |-> e].object = o
              /\ [object |-> o, direction |-> e].direction = e
            OBVIOUS
        <3>2. QueuedIn(t, o, e) => e = d
            BY <1>1, <1>3, <2>2, <3>1 DEF QueuedIn
        <3>3. e = d => QueuedIn(t, o, e)
            BY <1>3, <1>6 DEF QueuedIn, item
        <3> QED
            BY <3>2, <3>3
    <2> QED
        BY <2>3, <2>4
<1> QED
    BY <1>3, <1>7, <1>8 DEF t, item

(* enqueue() leaves the new toggle, or nothing if it meets its opposite.   *)
LEMMA EnqueuedViews ==
    ASSUME QueueTypeOK, ~stopped, NEW o \in Insts, NEW d \in Direction, NEW i \in Insts
    PROVE  LET t == Enqueued(o, d) IN
           /\ i # o => /\ OnceIn(q, i) => OnceIn(t, i)
                       /\ \A e : QueuedIn(t, i, e) <=> QueuedIn(q, i, e)
           /\ OnceIn(q, o) /\ QueuedIn(q, o, Opposite(d)) =>
                  OnceIn(t, o) /\ \A e \in Direction : ~QueuedIn(t, o, e)
           /\ (\A e \in Direction : ~QueuedIn(q, o, e)) =>
                  OnceIn(t, o) /\ \A e : QueuedIn(t, o, e) <=> e = d
<1>1. q \in Seq(Item) /\ Len(q) \in Nat
    BY LenProperties DEF QueueTypeOK
<1>2. Opposite(d) \in Direction
    BY DEF Opposite, Direction
<1>3. CASE ~QueuedIn(q, o, Opposite(d))
    <2>1. Enqueued(o, d) = Append(q, [object |-> o, direction |-> d])
        BY <1>3, QueuedIsIn DEF Enqueued
    <2> QED
        BY <1>1, <1>3, <2>1, AppendViews
<1>4. CASE QueuedIn(q, o, Opposite(d))
    <2> DEFINE P == Positions(o, Opposite(d))
               p == Nth(P, 1)
               K == (1..Len(q)) \ {p}
               t == Enqueued(o, d)
    <2>1. P \in SUBSET (1..Len(q)) /\ P # {}
        BY <1>4 DEF QueuedIn, Positions
    <2>3. p \in P
        <3> HIDE DEF P
        <3> QED
            BY <1>1, <2>1, FirstPosition
    <2>4. t = Keep(q, K) /\ K \in SUBSET (1..Len(q))
        BY <1>4, QueuedIsIn DEF Enqueued
    <2>5. p \in 1..Len(q) /\ q[p] = [object |-> o, direction |-> Opposite(d)]
        BY <2>3 DEF Positions
    <2> HIDE DEF p, P
    <2>6. \A k \in 1..Len(q) : k \in K <=> k # p
        OBVIOUS
    <2> HIDE DEF K, t
    <2>7. \A j \in Insts : /\ OnceIn(q, j) => OnceIn(t, j)
                           /\ \A e : QueuedIn(t, j, e) <=>
                                         \E k \in K : q[k] = [object |-> j, direction |-> e]
        BY <1>1, <2>4, KeepViews
    <2>8. OnceIn(q, o) => \A e : ~QueuedIn(t, o, e)
        <3> SUFFICES ASSUME OnceIn(q, o), NEW e, NEW k \in K,
                            q[k] = [object |-> o, direction |-> e]
                     PROVE  FALSE
            BY <2>7
        <3>1. q[k].object = o /\ q[p].object = o /\ k \in 1..Len(q)
            BY <2>4, <2>5
        <3> QED
            BY <2>5, <2>6, <3>1 DEF OnceIn
    <2>9. ASSUME i # o
          PROVE  \A e : QueuedIn(t, i, e) <=> QueuedIn(q, i, e)
        <3> SUFFICES ASSUME NEW e
                     PROVE  QueuedIn(t, i, e) <=> QueuedIn(q, i, e)
            OBVIOUS
        <3>1. \A k \in 1..Len(q) : q[k] = [object |-> i, direction |-> e] => k \in K
            BY <2>5, <2>6, <2>9
        <3> QED
            BY <2>4, <2>7, <3>1 DEF QueuedIn
    <2> QED
        BY <1>2, <1>4, <2>7, <2>8, <2>9 DEF t
<1> QED
    BY <1>3, <1>4

(* handle_toggle() removes the first item.                                 *)
LEMMA TailViews ==
    ASSUME NEW s \in Seq(Item), s # << >>, NEW i \in Insts
    PROVE  /\ OnceIn(s, i) => OnceIn(Tail(s), i)
           /\ i # Head(s).object => \A e : QueuedIn(Tail(s), i, e) <=> QueuedIn(s, i, e)
           /\ i = Head(s).object /\ OnceIn(s, i) => \A e : ~QueuedIn(Tail(s), i, e)
<1> DEFINE t == Tail(s)
           n == Len(s)
<1>1. /\ t \in Seq(Item) /\ Len(t) = n - 1 /\ n \in Nat \ {0}
      /\ Head(s) = s[1]
    BY TailShifts
<1>2. \A k \in 1..Len(t) : k + 1 \in 1..n /\ k + 1 # 1 /\ t[k] = s[k + 1]
    BY TailShifts
<1>3. \A k \in 1..n : k # 1 => k - 1 \in 1..Len(t) /\ t[k - 1] = s[k]
    BY TailShifts
<1> HIDE DEF t, n
<1>4. OnceIn(s, i) => OnceIn(t, i)
    <2> SUFFICES ASSUME OnceIn(s, i), NEW k \in 1..Len(t), NEW l \in 1..Len(t),
                        t[k].object = i, t[l].object = i
                 PROVE  k = l
        BY DEF OnceIn
    <2>1. k + 1 = l + 1
        BY <1>2 DEF OnceIn, n
    <2> QED
        BY <1>1, <2>1
<1>5. ASSUME i # Head(s).object
      PROVE  \A e : QueuedIn(t, i, e) <=> QueuedIn(s, i, e)
    <2> SUFFICES ASSUME NEW e
                 PROVE  QueuedIn(t, i, e) <=> QueuedIn(s, i, e)
        OBVIOUS
    <2>1. \A k \in 1..n : s[k] = [object |-> i, direction |-> e] => k # 1
        BY <1>1, <1>5
    <2> QED
        BY <1>2, <1>3, <2>1 DEF QueuedIn, n
<1>6. ASSUME i = Head(s).object, OnceIn(s, i)
      PROVE  \A e : ~QueuedIn(t, i, e)
    <2> SUFFICES ASSUME NEW e, NEW k \in 1..Len(t), t[k] = [object |-> i, direction |-> e]
                 PROVE  FALSE
        BY DEF QueuedIn
    <2>1. k + 1 \in 1..n /\ k + 1 # 1 /\ s[k + 1].object = i
        BY <1>2
    <2>2. 1 \in 1..n /\ s[1].object = i
        BY <1>1, <1>6
    <2> QED
        BY <1>6, <2>1, <2>2 DEF OnceIn, n
<1> QED
    BY <1>4, <1>5, <1>6 DEF t

------------------------------
(* An instance that a step does not concern.                               *)
SameInstance(i) ==
    /\ inst'[i].live = inst[i].live /\ inst'[i].ptr = inst[i].ptr
    /\ inst'[i].toggle = inst[i].toggle /\ inst'[i].disposed = inst[i].disposed
SameQueued(i) ==
    /\ OnceIn(q, i) => OnceIn(q', i)
    /\ \A d \in Direction : QueuedIn(q', i, d) <=> QueuedIn(q, i, d)
SameNotes(i) ==
    /\ InFlight(i)' = InFlight(i)
    /\ \A t \in InFlight(i) : note'[t] = note[t]
SameOwned(i) ==
    Installed(i) => (owners'[inst[i].ptr] = {} <=> owners[inst[i].ptr] = {})

Unconcerned(i) ==
    /\ SameInstance(i) /\ inst'[i].wrapper = inst[i].wrapper
    /\ SameQueued(i) /\ SameNotes(i) /\ SameOwned(i)
    /\ Finalizing(i) => Finalizing(i)'

LEMMA InstalledIs ==
    ASSUME NEW i \in Insts, SameInstance(i)
    PROVE  (Installed(i) <=> Installed(i)') /\ (Installed(i) => inst[i].ptr # NoObj)
BY DEF SameInstance, Installed

LEMMA SameTold ==
    ASSUME NEW i \in Insts, Installed(i), SameInstance(i), SameNotes(i), SameOwned(i)
    PROVE  Told(i)' <=> Told(i)
<1>1. inst[i].ptr # NoObj /\ inst'[i].ptr = inst[i].ptr
    BY InstalledIs DEF SameInstance
<1> QED
    BY <1>1 DEF Told, SameNotes, SameOwned

LEMMA UpAndDown ==
    ASSUME NEW i \in Insts
    PROVE  /\ {"UP", "DOWN"} = Direction
           /\ AnythingQueued(i) <=> QueuedIn(q, i, "UP") \/ QueuedIn(q, i, "DOWN")
           /\ AnythingQueued(i)' <=> QueuedIn(q', i, "UP") \/ QueuedIn(q', i, "DOWN")
BY QueuedIsIn DEF AnythingQueued, Direction

LEMMA OrderlyStays ==
    ASSUME NEW i \in Insts, Orderly(i), Unconcerned(i)
    PROVE  Orderly(i)'
<1>1. SameInstance(i) /\ inst'[i].wrapper = inst[i].wrapper /\ SameQueued(i) /\ SameNotes(i)
      /\ SameOwned(i)
    BY DEF Unconcerned
<1>2. Installed(i) <=> Installed(i)'
    BY <1>1, InstalledIs
<1>3. \A d \in Direction : IsQueued(i, d)' <=> IsQueued(i, d)
    BY <1>1, QueuedIsIn DEF SameQueued
<1>4. AnythingQueued(i)' <=> AnythingQueued(i)
    BY <1>3 DEF AnythingQueued
<1>5. Installed(i) => (Told(i)' <=> Told(i))
    BY <1>1, SameTold
<1>6. WaitsOnce(i)'
    BY <1>1, <1>2 DEF Orderly, WaitsOnce, SameQueued
<1>7. Alternates(i)'
    BY <1>1, <1>2, <1>3, <1>5, UpAndDown DEF Orderly, Alternates, SameNotes
<1>8. Agreed(i)'
    BY <1>1, <1>2, <1>3, <1>4, <1>5, UpAndDown DEF Orderly, Agreed, Unconcerned
<1>9. Unused(i)'
    BY <1>1, <1>4 DEF Orderly, Unused, SameInstance, SameNotes
<1> QED
    BY <1>6, <1>7, <1>8, <1>9 DEF Orderly

(* Nothing about the instance changes but what has no part in this.        *)
LEMMA UntouchedStays ==
    ASSUME NEW i \in Insts, Orderly(i), UNCHANGED <<q, owners, note>>, SameInstance(i),
           inst'[i].wrapper = inst[i].wrapper, Finalizing(i) => Finalizing(i)'
    PROVE  Orderly(i)'
<1>1. SameQueued(i)
    BY DEF SameQueued, OnceIn, QueuedIn
<1>2. SameNotes(i) /\ SameOwned(i)
    BY DEF SameNotes, SameOwned, InFlight
<1> QED
    BY <1>1, <1>2, OrderlyStays DEF Unconcerned

(* An instance that has no toggle reference and does not wait for one.     *)
LEMMA OutOfTouch ==
    ASSUME NEW i \in Insts, ~Installed(i)',
           inst'[i].live /\ ~inst'[i].disposed /\ ~inst'[i].toggle =>
               (\A d \in Direction : ~QueuedIn(q', i, d)) /\ InFlight(i)' = {}
    PROVE  Orderly(i)'
<1>1. Unused(i)'
    BY UpAndDown DEF Unused
<1> QED
    BY <1>1 DEF Orderly, WaitsOnce, Alternates, Agreed

------------------------------
(* What the steps start from while the queue is open.                      *)
Ordered ==
    /\ TypeOK /\ CurTaken /\ LeadsBack /\ DisposalsAreLive /\ StoppedIsEmpty
    /\ SerialNotify /\ ~stopped /\ ~destroying
    /\ \A i \in Insts : Orderly(i)

(* A reference is taken or dropped.                                        *)
LEMMA CrossingOrderly ==
    ASSUME Ordered, NEW t \in Threads, NEW g \in GObjects, Ref(t, g) \/ Unref(t, g),
           NEW i \in Insts
    PROVE  Orderly(i)'
<1> DEFINE crosses == owners[g] \subseteq {t}
           d == IF owners[g] = {} THEN "UP" ELSE "DOWN"
           n == note'[t]
<1>1. /\ UNCHANGED <<q, inst, pc, cur>>
      /\ note[t] = NoNote
      /\ \A u \in Threads : u # t => note'[u] = note[u]
      /\ \A h \in GObjects : h # g => owners'[h] = owners[h]
      /\ MayCross(g) /\ SerialNotify /\ Orderly(i)
    BY DEF Ref, Unref, Quiet, TypeOK, Ordered
<1>2. /\ crosses => n = Owed(g, d) /\ (owners'[g] = {} <=> owners[g] # {})
      /\ ~crosses => n = NoNote /\ owners'[g] # {} /\ owners[g] # {}
    <2>1. owners[g] \in SUBSET Threads /\ note \in [Threads -> Note \cup {NoNote}]
          /\ owners \in [GObjects -> SUBSET Threads]
        BY DEF Ordered, TypeOK
    <2>2. CASE Ref(t, g)
        BY <2>1, <2>2 DEF Ref
    <2>3. CASE Unref(t, g)
        BY <2>1, <2>3 DEF Unref
    <2> QED
        BY <2>2, <2>3
<1>3. SameInstance(i) /\ inst'[i].wrapper = inst[i].wrapper /\ SameQueued(i)
      /\ (Finalizing(i) => Finalizing(i)')
    BY <1>1 DEF SameInstance, SameQueued, OnceIn, QueuedIn, Finalizing
<1>4. i # NoInst /\ NoNote.object = NoInst
    BY ConstantsAssumption DEF NoNote
<1> HIDE DEF crosses, d, n
<1>5. n.object = i => n = Owed(g, d) /\ crosses /\ i \in ToggleRefs(g)
    <2>1. CASE ToggleRefs(g) = {}
        BY <1>2, <1>4, <2>1 DEF Owed
    <2>2. CASE ToggleRefs(g) # {}
        <3>1. PICK j \in ToggleRefs(g) : j = CHOOSE k \in ToggleRefs(g) : TRUE
            BY <2>2
        <3>2. Owed(g, d).object = j
            BY <2>2, <3>1 DEF Owed
        <3> QED
            BY <1>2, <1>4, <3>1, <3>2
    <2> QED
        BY <2>1, <2>2
<1>6. CASE i \notin ToggleRefs(g) \/ ~crosses
    <2>1. SameNotes(i)
        BY <1>1, <1>4, <1>5, <1>6 DEF SameNotes, InFlight, n
    <2>2. SameOwned(i)
        <3>1. Installed(i) => inst[i].ptr \in GObjects
            BY DEF Installed, Ordered, TypeOK, Instance
        <3> QED
            BY <1>1, <1>2, <1>6, <3>1 DEF SameOwned, ToggleRefs
    <2> QED
        BY <1>1, <1>3, <2>1, <2>2, OrderlyStays DEF Unconcerned
<1>7. CASE i \in ToggleRefs(g) /\ crosses
    <2>1. Installed(i) /\ inst[i].ptr = g /\ InFlight(i) = {}
        BY <1>1, <1>7 DEF ToggleRefs, MayCross
    <2>2. \A j \in ToggleRefs(g) : j = i
        BY <1>7, UniqueWrapper DEF ToggleRefs, Installed, OneWrapperPerObject, Ordered
    <2>3. n = [object |-> i, direction |-> d]
        <3>1. (CHOOSE k \in ToggleRefs(g) : TRUE) = i
            BY <1>7, <2>2
        <3> QED
            BY <1>2, <1>7, <3>1 DEF Owed
    <2>4. n.object = i /\ n.direction = d
        BY <2>3
    <2>5. InFlight(i)' = {t} /\ note'[t].direction = d
        BY <1>1, <2>1, <2>4 DEF InFlight, n
    <2>6. Installed(i)'
        BY <1>3, <2>1, InstalledIs
    <2>7. (Told(i)' <=> Told(i)) /\ (d = "UP" <=> ~Told(i))
        <3>1. inst'[i].ptr = g
            BY <1>1, <2>1
        <3>2. Told(i) <=> owners[g] # {}
            BY <2>1 DEF Told
        <3>3. Told(i)' <=> owners'[g] = {}
            BY <2>5, <3>1 DEF Told
        <3> QED
            BY <1>2, <1>7, <3>2, <3>3 DEF d
    <2>8. \A e \in Direction : IsQueued(i, e)' <=> IsQueued(i, e)
        BY <1>3, QueuedIsIn DEF SameQueued
    <2>9. Alternates(i)'
        <3>1. Alternates(i)
            BY <1>1 DEF Orderly
        <3> QED
            BY <2>1, <2>5, <2>7, <2>8, <3>1, UpAndDown DEF Alternates
    <2>10. Agreed(i)'
        <3>1. Agreed(i) /\ (AnythingQueued(i)' <=> AnythingQueued(i))
            BY <1>1, <2>8 DEF Orderly, AnythingQueued
        <3>2. Finalizing(i)' <=> Finalizing(i)
            BY <1>1 DEF Finalizing
        <3> QED
            BY <1>3, <2>1, <2>7, <2>8, <3>1, <3>2, UpAndDown DEF Agreed
    <2>11. Unused(i)'
        BY <2>6 DEF Unused, Installed
    <2>12. WaitsOnce(i)'
        BY <1>1, <1>3, <2>1 DEF Orderly, WaitsOnce, SameQueued
    <2> QED
        BY <2>9, <2>10, <2>11, <2>12 DEF Orderly
<1> QED
    BY <1>6, <1>7

(* What the queue's handler does to the wrapper.                           *)
LEMMA HandledWrapper ==
    ASSUME TypeOK, NEW item \in Item, Handled(item), NEW i \in Insts
    PROVE  /\ SameInstance(i)
           /\ i # item.object => inst'[i] = inst[i]
           /\ i = item.object /\ Installed(i) /\ inst[i].wrapper \in {"heap", "root"} =>
                  inst'[i].wrapper = IF item.direction = "UP" THEN "root" ELSE "heap"
<1> DEFINE r == IF item.direction = "DOWN" THEN ToggledDown(inst[item.object])
                ELSE ToggledUp(inst[item.object])
<1>1. item.object \in Insts /\ item.direction \in {"UP", "DOWN"}
      /\ inst \in [Insts -> Instance] /\ inst[item.object] \in Instance
    BY DEF Item, Direction, TypeOK
<1>2. inst' = [inst EXCEPT ![item.object] = r]
    BY DEF Handled
<1>3. i = item.object => inst'[i] = r
    BY <1>1, <1>2
<1>4. i = item.object /\ Installed(i) /\ inst[i].wrapper \in {"heap", "root"} =>
          r.wrapper = IF item.direction = "UP" THEN "root" ELSE "heap"
    BY <1>1 DEF ToggledDown, ToggledUp, Installed, Instance
<1>5. SameInstance(i)
    BY HandledKeeps DEF SameInstance
<1> QED
    BY <1>1, <1>2, <1>3, <1>4, <1>5

(* A notification about an instance without its toggle reference; it had   *)
(* one, so it is not one that still waits for it.                          *)
LEMMA LateOrderly ==
    ASSUME Ordered, NEW t \in Threads, NEW item \in Item,
           UNCHANGED <<q, inst>> \/ ToggleNotify(t, item), UNCHANGED <<owners, pc, cur>>,
           ~Installed(item.object),
           LET r == inst[item.object] IN ~(r.live /\ ~r.disposed /\ ~r.toggle),
           NEW i \in Insts, i # item.object => SameNotes(i)
    PROVE  Orderly(i)'
<1> DEFINE o == item.object
<1>1. o \in Insts /\ item.direction \in Direction
    BY DEF Item
<1>2. TypeOK /\ QueueTypeOK /\ ~stopped /\ ~destroying /\ Orderly(i)
    BY DEF Ordered, TypeOK
<1>3. SameInstance(i) /\ (i # o => inst'[i] = inst[i])
    <2>1. CASE Handled(item)
        BY <1>2, <2>1, HandledWrapper
    <2>2. CASE UNCHANGED inst
        BY <2>2 DEF SameInstance
    <2> QED
        BY <2>1, <2>2 DEF ToggleNotify
<1>4. CASE i # o
    <2>1. SameQueued(i)
        <3>1. CASE q' = q
            BY <3>1 DEF SameQueued, OnceIn, QueuedIn
        <3>2. CASE q' = Enqueued(o, item.direction)
            <4>1. LET s == Enqueued(o, item.direction) IN
                  /\ OnceIn(q, i) => OnceIn(s, i)
                  /\ \A e : QueuedIn(s, i, e) <=> QueuedIn(q, i, e)
                BY <1>1, <1>2, <1>4, EnqueuedViews
            <4> QED
                BY <3>2, <4>1 DEF SameQueued
        <3> QED
            BY <3>1, <3>2 DEF ToggleNotify, Enqueue
    <2>2. SameNotes(i) /\ SameOwned(i) /\ (Finalizing(i) => Finalizing(i)')
        BY <1>4 DEF SameOwned, Finalizing
    <2> QED
        BY <1>2, <1>3, <1>4, <2>1, <2>2, OrderlyStays DEF Unconcerned
<1>5. CASE i = o
    <2>1. ~Installed(i)'
        BY <1>3, <1>5, InstalledIs
    <2>2. ~(inst'[i].live /\ ~inst'[i].disposed /\ ~inst'[i].toggle)
        BY <1>3, <1>5 DEF SameInstance
    <2> QED
        BY <2>1, <2>2, OutOfTouch
<1> QED
    BY <1>4, <1>5

(* A notification arrives.                                                 *)
LEMMA DeliverOrderly ==
    ASSUME Ordered, NEW t \in Threads, Deliver(t), NEW i \in Insts
    PROVE  Orderly(i)'
<1> DEFINE item == note[t]
           o == item.object
           d == item.direction
<1>1. item \in Item /\ o \in Insts /\ d \in Direction
    <2>1. note[t] \in Note /\ \A r \in Note : r.object \in Insts /\ r.direction \in Direction
        BY DEF Deliver, Quiet, Ordered, TypeOK, Note
    <2> QED
        BY <2>1 DEF Note, Item
<1>2. /\ UNCHANGED <<owners, pc, cur>>
      /\ note'[t] = NoNote
      /\ \A u \in Threads : u # t => note'[u] = note[u]
      /\ TypeOK /\ QueueTypeOK /\ ~stopped /\ ~destroying
      /\ \A j \in Insts : Orderly(j)
    BY DEF Deliver, Ordered, TypeOK
<1>3. InFlight(i)' = InFlight(i) \ {t}
    BY <1>2, ConstantsAssumption DEF InFlight, NoNote
<1>4. /\ t \in InFlight(i) <=> i = o
      /\ \A u \in InFlight(i) : u # t => note'[u] = note[u]
    BY <1>2 DEF InFlight
<1>4a. i # o => SameNotes(i)
    <2> HIDE DEF o
    <2> SUFFICES ASSUME i # o PROVE SameNotes(i)
        OBVIOUS
    <2>1. t \notin InFlight(i)
        BY <1>4
    <2>2. InFlight(i)' = InFlight(i)
        BY <1>3, <2>1
    <2>3. \A u \in InFlight(i) : note'[u] = note[u]
        BY <1>4, <2>1
    <2> QED
        BY <2>2, <2>3 DEF SameNotes
<1>5. CASE ~Installed(o)
    <2>1. UNCHANGED <<q, inst>> \/ ToggleNotify(t, item)
        BY <1>5 DEF Deliver
    <2>2. ~(inst[o].live /\ ~inst[o].disposed /\ ~inst[o].toggle)
        <3>1. Unused(o) /\ InFlight(o) # {}
            BY <1>1, <1>2 DEF Orderly, InFlight
        <3> QED
            BY <3>1 DEF Unused
    <2> QED
        BY <1>1, <1>2, <1>4a, <1>5, <2>1, <2>2, LateOrderly
<1>6. CASE Installed(o)
    <2> DEFINE now == Immediate(t, item)
    <2>1. /\ now => Handled(item) /\ q' = q
          /\ ~now => q' = Enqueued(o, d) /\ inst' = inst
        BY <1>2, <1>6 DEF Deliver, ToggleNotify, Enqueue
    <2>2. SameInstance(i) /\ (i # o => inst'[i] = inst[i])
        BY <1>1, <1>2, <2>1, HandledWrapper DEF SameInstance
    <2>3. OnceIn(q, o)
        BY <1>1, <1>2, <1>6 DEF Orderly, WaitsOnce
    <2>4. CASE i # o
        <3>1. SameQueued(i)
            <4>1. now => SameQueued(i)
                BY <2>1 DEF SameQueued, OnceIn, QueuedIn
            <4>2. ~now => SameQueued(i)
                <5>1. LET s == Enqueued(o, d) IN
                      /\ OnceIn(q, i) => OnceIn(s, i)
                      /\ \A e : QueuedIn(s, i, e) <=> QueuedIn(q, i, e)
                    BY <1>1, <1>2, <2>4, EnqueuedViews
                <5> QED
                    BY <2>1, <5>1 DEF SameQueued
            <4> QED
                BY <4>1, <4>2
        <3>2. SameNotes(i) /\ SameOwned(i) /\ (Finalizing(i) => Finalizing(i)')
            BY <1>2, <1>4a, <2>4 DEF SameOwned, Finalizing
        <3> QED
            BY <1>2, <2>2, <2>4, <3>1, <3>2, OrderlyStays DEF Unconcerned
    <2>5. CASE i = o
        <3>1. Installed(i)' /\ Orderly(i)
            BY <1>2, <1>6, <2>2, <2>5, InstalledIs
        <3>2. InFlight(i) = {t} /\ InFlight(i)' = {}
            <4>1. \A u \in InFlight(i) : u = t
                BY <1>4, <1>6, <2>5, <3>1 DEF Orderly, Alternates
            <4> QED
                BY <1>3, <1>4, <2>5, <4>1
        <3>3. (Told(i)' <=> ~Told(i)) /\ (d = "UP" <=> ~Told(i))
            <4>1. Told(i)' <=> ~Told(i)
                BY <1>2, <2>2, <3>2 DEF Told, SameInstance
            <4>2. note[t].direction = "UP" <=> ~Told(i)
                BY <1>6, <2>5, <3>1, <3>2 DEF Orderly, Alternates
            <4> QED
                BY <4>1, <4>2
        <3>4. Finalizing(i)' <=> Finalizing(i)
            BY <1>2 DEF Finalizing
        <3>5. /\ QueuedIn(q, i, "UP") => Told(i)
              /\ QueuedIn(q, i, "DOWN") => ~Told(i)
            BY <1>6, <2>5, <3>1, QueuedIsIn DEF Orderly, Alternates
        <3>6. ~Finalizing(i) =>
                  /\ inst[i].wrapper \in {"heap", "root"}
                  /\ QueuedIn(q, i, "UP") => inst[i].wrapper = "heap"
                  /\ QueuedIn(q, i, "DOWN") => inst[i].wrapper = "root"
                  /\ ~QueuedIn(q, i, "UP") /\ ~QueuedIn(q, i, "DOWN") =>
                        (inst[i].wrapper = "root" <=> Told(i))
            BY <1>6, <2>5, <3>1, QueuedIsIn, UpAndDown DEF Orderly, Agreed
        <3> HIDE DEF d, item
        <3>7. d = "UP" \/ d = "DOWN"
            BY <1>1 DEF Direction
        <3>8. CASE now
            <4>1. \A e \in Direction : ~QueuedIn(q', i, e)
                BY <2>1, <2>5, <3>8, QueuedIsIn DEF Immediate, AnythingQueued, QueuedIn, item
            <4>2. OnceIn(q', i)
                BY <2>1, <2>3, <2>5, <3>8 DEF OnceIn
            <4>3. ~Finalizing(i) => inst'[i].wrapper = IF d = "UP" THEN "root" ELSE "heap"
                BY <1>1, <1>2, <1>6, <2>1, <2>5, <3>6, <3>8, HandledWrapper DEF d
            <4>4. Alternates(i)' /\ Unused(i)'
                BY <3>1, <3>2, <4>1, QueuedIsIn, UpAndDown DEF Alternates, Unused, Installed
            <4>5. Agreed(i)'
                BY <3>1, <3>3, <3>4, <4>1, <4>3, QueuedIsIn, UpAndDown DEF Agreed
            <4> QED
                BY <4>2, <4>4, <4>5 DEF Orderly, WaitsOnce
        <3>9. CASE ~now
            <4>1. q' = Enqueued(i, d) /\ inst' = inst
                BY <2>1, <2>5, <3>9
            <4>2. /\ QueuedIn(q, i, Opposite(d)) =>
                        OnceIn(q', i) /\ \A e \in Direction : ~QueuedIn(q', i, e)
                  /\ (\A e \in Direction : ~QueuedIn(q, i, e)) =>
                        OnceIn(q', i) /\ \A e : QueuedIn(q', i, e) <=> e = d
                BY <1>1, <1>2, <2>3, <2>5, <4>1, EnqueuedViews
            <4>3. ~QueuedIn(q, i, d)
                BY <3>3, <3>5, <3>7
            <4>4. /\ OnceIn(q', i)
                  /\ QueuedIn(q', i, "UP") => d = "UP" /\ ~QueuedIn(q, i, "DOWN")
                  /\ QueuedIn(q', i, "DOWN") => d = "DOWN" /\ ~QueuedIn(q, i, "UP")
                  /\ ~QueuedIn(q', i, "UP") /\ ~QueuedIn(q', i, "DOWN") =>
                        QueuedIn(q, i, Opposite(d))
                <5>1. \A e \in Direction : e = d \/ e = Opposite(d)
                    BY <3>7 DEF Direction, Opposite
                <5>2. CASE QueuedIn(q, i, Opposite(d))
                    BY <4>2, <5>2, UpAndDown
                <5>3. CASE ~QueuedIn(q, i, Opposite(d))
                    <6>1. \A e \in Direction : ~QueuedIn(q, i, e)
                        BY <4>3, <5>1, <5>3
                    <6> QED
                        BY <3>7, <4>2, <6>1, UpAndDown
                <5> QED
                    BY <5>2, <5>3
            <4>5. Alternates(i)' /\ Unused(i)'
                BY <3>1, <3>2, <3>3, <4>4, QueuedIsIn DEF Alternates, Unused, Installed
            <4>6. Agreed(i)'
                <5>1. Opposite(d) = IF d = "UP" THEN "DOWN" ELSE "UP"
                    BY DEF Opposite
                <5>2. inst'[i].wrapper = inst[i].wrapper
                    BY <4>1
                <5>3. ~Finalizing(i) =>
                        /\ QueuedIn(q', i, "UP") => inst[i].wrapper = "heap"
                        /\ QueuedIn(q', i, "DOWN") => inst[i].wrapper = "root"
                    BY <3>3, <3>6, <4>3, <4>4
                <5>4. ~Finalizing(i) /\ ~QueuedIn(q', i, "UP") /\ ~QueuedIn(q', i, "DOWN") =>
                        (inst[i].wrapper = "root" <=> Told(i)')
                    BY <3>3, <3>6, <3>7, <4>4, <5>1
                <5> QED
                    BY <3>4, <3>6, <5>2, <5>3, <5>4, QueuedIsIn, UpAndDown DEF Agreed
            <4> QED
                BY <4>4, <4>5, <4>6 DEF Orderly, WaitsOnce
        <3> QED
            BY <3>8, <3>9
    <2> QED
        BY <2>4, <2>5
<1> QED
    BY <1>5, <1>6

(* A thread runs g_object_run_dispose().                                   *)
LEMMA DisposeOrderly ==
    ASSUME Ordered, NEW t \in Threads, NEW g \in GObjects, Dispose(t, g), NEW i \in Insts
    PROVE  Orderly(i)'
<1>1. UNCHANGED <<q, owners, note, pc, cur>> /\ TypeOK /\ Orderly(i)
    BY DEF Dispose, Ordered
<1>2. CASE i \in Watching(g)
    <2>1. inst'[i].disposed
        BY <1>1, <1>2, DisposeKeeps
    <2> QED
        BY <2>1, OutOfTouch DEF Installed
<1>3. CASE i \notin Watching(g)
    <2>1. inst[i].disposed \in BOOLEAN
        BY <1>1 DEF TypeOK, Instance
    <2>2. SameInstance(i) /\ inst'[i].wrapper = inst[i].wrapper
        BY <1>1, <1>3, <2>1, DisposeKeeps DEF SameInstance
    <2> QED
        BY <1>1, <2>2, UntouchedStays DEF Finalizing
<1> QED
    BY <1>2, <1>3

(* What the collector or a disposal takes out of the queue is about one    *)
(* instance.                                                               *)
LEMMA CancelledOthers ==
    ASSUME Ordered, NEW j \in Insts, q' = Cancelled(j), NEW i \in Insts
    PROVE  /\ OnceIn(q, i) => OnceIn(q', i)
           /\ i = j => OnceIn(q', i) /\ \A d : ~QueuedIn(q', i, d)
           /\ i # j => SameQueued(i)
BY CancelledViews DEF Ordered, TypeOK, SameQueued

(* The rest of a disposal is about an instance that is marked already.     *)
LEMMA DisposalOrderly ==
    ASSUME Ordered, NEW t \in Threads, DisposalStep(t), NEW i \in Insts
    PROVE  Orderly(i)'
<1> DEFINE o == disposal[t].object
           down == [object |-> o, direction |-> "DOWN"]
<1>1. /\ o \in Insts /\ down \in Item /\ down.object = o
      /\ inst[o].disposed /\ TypeOK /\ Orderly(i)
    <2>1. o # NoInst /\ TypeOK /\ DisposalsAreLive /\ Orderly(i)
        BY DEF DisposalStep, DisposeCancels, DisposeNotifies, DisposeReturns, Ordered
    <2> QED
        BY <2>1, DisposalType DEF DisposalsAreLive
<1>2. UNCHANGED <<owners, note, pc, cur>>
    BY DEF DisposalStep, DisposeCancels, DisposeNotifies, DisposeReturns, disposalUnchanged
<1>3. SameNotes(i) /\ SameOwned(i) /\ (Finalizing(i) => Finalizing(i)')
    BY <1>2 DEF SameNotes, SameOwned, InFlight, Finalizing
<1>4. CASE DisposeCancels(t)
    <2>1. q' = Cancelled(o) /\ inst' = inst
        BY <1>4 DEF DisposeCancels
    <2>2. CASE i = o
        BY <1>1, <2>1, <2>2, OutOfTouch DEF Installed
    <2>3. CASE i # o
        BY <1>1, <1>3, <2>1, <2>3, CancelledOthers, OrderlyStays DEF Unconcerned, SameInstance
    <2> QED
        BY <2>2, <2>3
<1>5. CASE DisposeNotifies(t)
    <2>1. ToggleNotify(t, down)
        BY <1>5 DEF DisposeNotifies
    <2>2. ~Installed(o)
        BY <1>1 DEF Installed
    <2> HIDE DEF down, o
    <2> QED
        BY <1>1, <1>2, <1>3, <2>1, <2>2, LateOrderly
<1>6. CASE DisposeReturns(t)
    <2>1. q' = q
        BY <1>6 DEF DisposeReturns
    <2>2. CASE i = o
        <3>1. inst'[i].disposed
            BY <1>1, <1>6, <2>2, ReturnsKeeps
        <3> QED
            BY <3>1, OutOfTouch DEF Installed
    <2>3. CASE i # o
        <3>1. inst'[i] = inst[i]
            BY <1>1, <1>6, <2>3, ReturnsKeeps
        <3> QED
            BY <1>1, <1>2, <1>3, <2>1, <3>1, UntouchedStays DEF SameInstance
    <2> QED
        BY <2>2, <2>3
<1> QED
    BY <1>4, <1>5, <1>6 DEF DisposalStep

(* JavaScript on the main thread.                                          *)
LEMMA JSOrderly ==
    ASSUME Ordered, JSStep, NEW i \in Insts
    PROVE  Orderly(i)'
<1>1. /\ Orderly(i) /\ inst[i] \in Instance /\ inst \in [Insts -> Instance]
      /\ note \in [Threads -> Note \cup {NoNote}] /\ Main \in Threads
    BY ConstantsAssumption DEF Ordered, TypeOK
<1>2. ASSUME UNCHANGED <<q, owners, note, pc, cur>>, SameInstance(i),
             inst'[i].wrapper = inst[i].wrapper
      PROVE  Orderly(i)'
    BY <1>1, <1>2, UntouchedStays DEF Finalizing
<1>3. ASSUME NEW g \in GObjects, Reuse(g)
      PROVE  Orderly(i)'
    <2>1. SameInstance(i) /\ inst'[i].wrapper = inst[i].wrapper
        BY <1>1, <1>3 DEF Reuse, SameInstance, Instance
    <2> QED
        BY <1>2, <1>3, <2>1 DEF Reuse, jsUnchanged
<1>4. ASSUME NEW j \in Insts, Forget(j)
      PROVE  Orderly(i)'
    <2>1. SameInstance(i) /\ inst'[i].wrapper = inst[i].wrapper
        BY <1>1, <1>4 DEF Forget, SameInstance, Instance
    <2> QED
        BY <1>2, <1>4, <2>1 DEF Forget, jsUnchanged
<1>5. ASSUME NEW g \in GObjects, NEW j \in Insts, Associate(g, j)
      PROVE  Orderly(i)'
    <2>1. UNCHANGED <<q, owners, note, pc, cur>>
        BY <1>5 DEF Associate, jsUnchanged
    <2>2. CASE i # j
        <3>1. inst'[i] = inst[i]
            BY <1>1, <1>5, <2>2 DEF Associate
        <3> QED
            BY <1>2, <2>1, <3>1 DEF SameInstance
    <2>3. CASE i = j
        <3>1. ~inst[i].live /\ InFlight(i) = {} /\ ~inst'[i].toggle
            BY <1>1, <1>5, <2>3 DEF Associate
        <3>2. \A d \in Direction : ~QueuedIn(q', i, d)
            BY <1>5, <2>1, <2>3, QueuedIsIn DEF Associate, AnythingQueued
        <3>3. InFlight(i)' = {}
            BY <2>1, <3>1 DEF InFlight
        <3> QED
            BY <3>1, <3>2, <3>3, OutOfTouch DEF Installed
    <2> QED
        BY <2>2, <2>3
<1>6. ASSUME NEW j \in Insts, AddProperty(j)
      PROVE  Orderly(i)'
    <2>1. /\ UNCHANGED <<q, owners, pc, cur>> /\ pc = "js" /\ note[Main] = NoNote
          /\ \A u \in Threads : u # Main => note'[u] = note[u]
          /\ note'[Main] = IF owners[inst[j].ptr] = {}
                           THEN [object |-> j, direction |-> "DOWN"] ELSE NoNote
        BY <1>1, <1>6 DEF AddProperty, jsUnchanged, JSRuns, Quiet
    <2>2. NoNote.object = NoInst /\ i # NoInst
        BY ConstantsAssumption DEF NoNote
    <2>3. CASE i # j
        <3>1. inst'[i] = inst[i]
            BY <1>1, <1>6, <2>3 DEF AddProperty
        <3>2. SameNotes(i)
            BY <2>1, <2>2, <2>3 DEF SameNotes, InFlight
        <3>3. SameInstance(i) /\ SameQueued(i) /\ SameOwned(i)
              /\ (Finalizing(i) => Finalizing(i)')
            BY <2>1, <3>1 DEF SameInstance, SameQueued, SameOwned, Finalizing, OnceIn, QueuedIn
        <3> QED
            BY <1>1, <3>1, <3>2, <3>3, OrderlyStays DEF Unconcerned
    <2>4. CASE i = j
        <3>1. inst[i].ptr # NoObj /\ ~inst[i].toggle /\ ~inst[i].disposed /\ inst[i].live
            BY <1>6, <2>4 DEF AddProperty, Ordered, LeadsBack
        <3>2. InFlight(i) = {} /\ ~AnythingQueued(i)
            BY <1>1, <3>1 DEF Orderly, Unused
        <3>3. inst'[i].ptr = inst[i].ptr /\ inst'[i].toggle /\ inst'[i].wrapper = "root"
            BY <1>1, <1>6, <2>4 DEF AddProperty, Instance
        <3>4. ~AnythingQueued(i)' /\ OnceIn(q', i)
            <4>1. ~AnythingQueued(i)' /\ q' = q /\ q \in Seq(Item)
                BY <2>1, <3>2 DEF AnythingQueued, IsQueued, Positions, Ordered, TypeOK,
                                  QueueTypeOK
            <4> QED
                BY <3>2, <4>1, NothingOnce, QueuedIsIn DEF AnythingQueued
        <3>5. CASE owners[inst[i].ptr] = {}
            <4>1. note'[Main].object = i /\ note'[Main].direction = "DOWN"
                BY <2>1, <2>4, <3>5
            <4>2. InFlight(i)' = {Main}
                BY <1>1, <2>1, <3>2, <4>1 DEF InFlight
            <4>3. Told(i)'
                BY <2>1, <3>3, <3>5, <4>2 DEF Told
            <4>4. Alternates(i)'
                BY <3>4, <4>1, <4>2, <4>3, QueuedIsIn, UpAndDown DEF Alternates
            <4>5. Agreed(i)'
                BY <3>3, <3>4, <4>3, QueuedIsIn, UpAndDown DEF Agreed
            <4> QED
                BY <3>3, <3>4, <4>4, <4>5 DEF Orderly, WaitsOnce, Unused
        <3>6. CASE owners[inst[i].ptr] # {}
            <4>1. note'[Main].object # i
                BY <2>1, <2>2, <2>4, <3>6
            <4>2. InFlight(i)' = {}
                BY <1>1, <2>1, <3>2, <4>1 DEF InFlight
            <4>3. Told(i)'
                BY <2>1, <3>3, <3>6, <4>2 DEF Told
            <4>4. Alternates(i)'
                BY <3>4, <4>2, <4>3, QueuedIsIn, UpAndDown DEF Alternates
            <4>5. Agreed(i)'
                BY <3>3, <3>4, <4>3, QueuedIsIn, UpAndDown DEF Agreed
            <4> QED
                BY <3>3, <3>4, <4>4, <4>5 DEF Orderly, WaitsOnce, Unused
        <3> QED
            BY <3>5, <3>6
    <2> QED
        BY <2>3, <2>4
<1> QED
    BY <1>3, <1>4, <1>5, <1>6 DEF JSStep

------------------------------
(* The main loop handles the first toggle of the queue.                    *)
LEMMA DrainOrderly ==
    ASSUME Ordered, DrainOne, NEW i \in Insts
    PROVE  Orderly(i)'
<1> DEFINE item == Head(q)
           o == item.object
           d == item.direction
<1>1. /\ q \in Seq(Item) /\ q # << >> /\ Handled(item) /\ q' = Tail(q)
      /\ UNCHANGED <<owners, note, pc, cur>> /\ pc = "drain"
      /\ TypeOK /\ Orderly(i)
    BY DEF DrainOne, loopUnchanged, Ordered, TypeOK, QueueTypeOK
<1>2. item \in Item /\ item = q[1] /\ 1 \in 1..Len(q)
    BY <1>1, HeadTailProperties, LenProperties, EmptySeq
<1>3. o \in Insts /\ (d = "UP" \/ d = "DOWN") /\ QueuedIn(q, o, d)
    BY <1>1, <1>2, ItemsAreQueued DEF Direction
<1>4. OnceIn(q, i) => OnceIn(q', i)
    BY <1>1, TailViews
<1>5. SameInstance(i) /\ (i # o => inst'[i] = inst[i])
    BY <1>1, <1>2, HandledWrapper
<1>6. SameNotes(i) /\ SameOwned(i) /\ ~Finalizing(i)
    BY <1>1 DEF SameNotes, SameOwned, InFlight, Finalizing
<1>7. CASE i # o
    <2>1. SameQueued(i)
        BY <1>1, <1>4, <1>7, TailViews DEF SameQueued
    <2> QED
        BY <1>1, <1>5, <1>6, <1>7, <2>1, OrderlyStays DEF Unconcerned
<1>8. CASE i = o
    <2>2. CASE Installed(i)
        <3>0. OnceIn(q, i) /\ OnceIn(q', i)
            BY <1>1, <1>4, <2>2 DEF Orderly, WaitsOnce
        <3>1. Installed(i)' /\ (Told(i)' <=> Told(i))
            BY <1>5, <1>6, <2>2, InstalledIs, SameTold
        <3>2. /\ inst[i].wrapper \in {"heap", "root"}
              /\ d = "UP" <=> Told(i)
            BY <1>1, <1>3, <1>6, <1>8, <2>2, QueuedIsIn DEF Orderly, Alternates, Agreed
        <3>3. inst'[i].wrapper = IF d = "UP" THEN "root" ELSE "heap"
            BY <1>1, <1>2, <1>8, <2>2, <3>2, HandledWrapper
        <3>4. \A e : ~QueuedIn(q', i, e)
            BY <1>1, <1>8, <3>0, TailViews
        <3> HIDE DEF d
        <3>5. Alternates(i)'
            BY <1>1, <1>6, <2>2, <3>1, <3>4, QueuedIsIn DEF Orderly, Alternates, SameNotes
        <3>6. Agreed(i)'
            BY <3>1, <3>2, <3>3, <3>4, QueuedIsIn, UpAndDown DEF Agreed
        <3>7. Unused(i)'
            BY <3>1 DEF Installed, Unused
        <3> QED
            BY <3>0, <3>5, <3>6, <3>7 DEF Orderly, WaitsOnce
    <2>3. CASE ~Installed(i)
        <3>1. ~Installed(i)'
            BY <1>5, <2>3, InstalledIs
        <3>2. ~(inst'[i].live /\ ~inst'[i].disposed /\ ~inst'[i].toggle)
            BY <1>1, <1>3, <1>5, <1>8, QueuedIsIn, UpAndDown DEF Orderly, Unused, SameInstance
        <3> QED
            BY <3>1, <3>2, OutOfTouch
    <2> QED
        BY <2>2, <2>3
<1> QED
    BY <1>7, <1>8

(* The collector.                                                          *)
LEMMA GCOrderly ==
    ASSUME Ordered, GCStep, NEW i \in Insts
    PROVE  Orderly(i)'
<1>1. /\ Orderly(i) /\ inst[i] \in Instance /\ inst \in [Insts -> Instance]
      /\ TypeOK /\ CurTaken
    BY DEF Ordered, TypeOK
<1>2. UNCHANGED <<owners, note>>
    BY DEF GCStep, CollectNow, TriggerGC, Mark, SweepStart, SweepEnd, FinalizeEnd, Disassociate,
           FinalizeRelease, FinalizeCancel, DisposalRaces, SweepOne, FinalizeOne, gcUnchanged,
           loopUnchanged
<1>3. SameNotes(i) /\ SameOwned(i)
    BY <1>2 DEF SameNotes, SameOwned, InFlight
<1>4. ASSUME q' = q, ~Finalizing(i), SameInstance(i), inst'[i].wrapper = inst[i].wrapper
      PROVE  Orderly(i)'
    BY <1>1, <1>2, <1>4, UntouchedStays
<1>5. ASSUME SameQueued(i), ~Finalizing(i), inst'[i] = inst[i]
      PROVE  Orderly(i)'
    BY <1>1, <1>3, <1>5, OrderlyStays DEF Unconcerned, SameInstance
<1>6. q' = q => SameQueued(i)
    BY DEF SameQueued, OnceIn, QueuedIn
<1>7. CASE CollectNow \/ TriggerGC \/ SweepStart \/ SweepEnd \/ FinalizeEnd
    <2>1. q' = q /\ inst' = inst /\ ~Finalizing(i)
        BY <1>7 DEF CollectNow, TriggerGC, SweepStart, SweepEnd, FinalizeEnd, Finalizing
    <2> QED
        BY <1>5, <1>6, <2>1
<1>8. CASE Mark
    <2>1. q' = q /\ ~Finalizing(i)
        BY <1>8 DEF Mark, Finalizing
    <2>2. SameInstance(i) /\ inst'[i].wrapper = inst[i].wrapper
        BY <1>1, <1>8 DEF Mark, SameInstance, Instance
    <2> QED
        BY <1>4, <2>1, <2>2
<1>9. ASSUME NEW j \in Insts, SweepOne(j)
      PROVE  Orderly(i)'
    <2>1. inst' = inst /\ ~Finalizing(i)
        BY <1>9 DEF SweepOne, Finalizing
    <2>2. CASE ~WeakPointerWasFinalized(j)
        BY <1>5, <1>6, <1>9, <2>1, <2>2 DEF SweepOne
    <2>3. CASE WeakPointerWasFinalized(j)
        <3>1. q' = Cancelled(j)
            BY <1>9, <2>3 DEF SweepOne
        <3>2. CASE i # j
            BY <1>5, <2>1, <3>1, <3>2, CancelledOthers
        <3>3. CASE i = j
            <4>1. OnceIn(q', i) /\ \A d : ~QueuedIn(q', i, d)
                BY <3>1, <3>3, CancelledOthers
            <4>2. CASE Installed(i)
                <5>1. ~QueuedIn(q, i, "UP") /\ ~QueuedIn(q, i, "DOWN")
                    BY <1>1, <2>1, <2>3, <3>3, <4>2, QueuedIsIn
                    DEF WeakPointerWasFinalized, OnlyUp, Orderly, Alternates, Agreed
                <5>2. SameQueued(i)
                    BY <4>1, <5>1, UpAndDown DEF SameQueued
                <5> QED
                    BY <1>5, <2>1, <5>2
            <4>3. CASE ~Installed(i)
                <5>1. ~Installed(i)'
                    BY <2>1, <4>3 DEF Installed
                <5>2. inst'[i].live /\ ~inst'[i].disposed /\ ~inst'[i].toggle => InFlight(i)' = {}
                    BY <1>1, <1>3, <2>1 DEF Orderly, Unused, SameNotes
                <5> QED
                    BY <4>1, <5>1, <5>2, OutOfTouch
            <4> QED
                BY <4>2, <4>3
        <3> QED
            BY <3>2, <3>3
    <2> QED
        BY <2>2, <2>3
<1>10. CASE Disassociate
    <2>1. PICK c \in Insts : c = cur
        BY <1>1, <1>10 DEF Disassociate, CurTaken
    <2>2. q' = Cancelled(c) /\ inst' = [inst EXCEPT ![c] = Unlinked(Lost(inst[c]))]
          /\ ~Finalizing(i)
        BY <1>10, <2>1 DEF Disassociate, Finalizing
    <2>3. CASE i # c
        BY <1>1, <1>5, <2>2, <2>3, CancelledOthers
    <2>4. CASE i = c
        <3>1. \A r \in Instance :
                 LET u == Unlinked(Lost(r)) IN
                 /\ u.ptr = NoObj /\ u.live = r.live /\ u.disposed = r.disposed
                 /\ u.toggle = r.toggle
            BY DEF Unlinked, Lost, Instance
        <3>2. /\ inst'[i].ptr = NoObj /\ inst'[i].live = inst[i].live
              /\ inst'[i].disposed = inst[i].disposed /\ inst'[i].toggle = inst[i].toggle
            BY <1>1, <2>2, <2>4, <3>1
        <3>3. OnceIn(q', i) /\ \A d : ~QueuedIn(q', i, d)
            BY <2>2, <2>4, CancelledOthers
        <3>4. inst'[i].live /\ ~inst'[i].disposed /\ ~inst'[i].toggle => InFlight(i)' = {}
            BY <1>1, <1>3, <3>2 DEF Orderly, Unused, SameNotes
        <3> QED
            BY <3>2, <3>3, <3>4, OutOfTouch DEF Installed
    <2> QED
        BY <2>3, <2>4
<1>11. ASSUME NEW j \in Insts, FinalizeOne(j)
       PROVE  Orderly(i)'
    <2>1. q' = Cancelled(j) /\ pc = "finalize" /\ ~Finalizing(i)
        BY <1>11 DEF FinalizeOne, Finalizing
    <2>3. CASE i # j
        <3>1. inst'[i] = inst[i]
            BY <1>1, <1>11, <2>3 DEF FinalizeOne
        <3> QED
            BY <1>5, <2>1, <2>3, <3>1, CancelledOthers
    <2>4. CASE i = j /\ inst[j].ptr = NoObj
        <3>1. inst'[i] = Free
            BY <1>1, <1>11, <2>4 DEF FinalizeOne
        <3> QED
            BY <3>1, OutOfTouch DEF Free, Installed
    <2>5. CASE i = j /\ inst[j].ptr # NoObj
        <3>1. inst' = inst /\ Finalizing(i)'
            BY <1>11, <2>5 DEF FinalizeOne, Finalizing
        <3>2. \A d : ~QueuedIn(q', i, d)
            BY <2>1, <2>5, CancelledOthers
        <3>3. Installed(i) => (Told(i)' <=> Told(i))
            BY <1>3, <3>1, SameTold DEF SameInstance
        <3>4. Alternates(i)'
            <4>1. Installed(i)' <=> Installed(i)
                BY <3>1 DEF Installed
            <4> QED
                BY <1>1, <1>3, <3>2, <3>3, <4>1, QueuedIsIn DEF Orderly, Alternates, SameNotes
        <3>5. Agreed(i)'
            BY <3>1 DEF Agreed
        <3>6. Unused(i)'
            BY <1>1, <1>3, <3>1, <3>2, UpAndDown DEF Orderly, Unused, SameNotes
        <3> QED
            BY <2>1, <2>5, <3>4, <3>5, <3>6, CancelledOthers DEF Orderly, WaitsOnce
    <2> QED
        BY <2>3, <2>4, <2>5
<1>12. CASE FinalizeRelease
    <2>1. PICK c \in Insts : c = cur
        BY <1>1, <1>12 DEF FinalizeRelease, CurTaken
    <2>2. q' = q /\ inst' = [inst EXCEPT ![c] = Lost(inst[c])]
        BY <1>12, <2>1 DEF FinalizeRelease
    <2>3. CASE i # c
        BY <1>1, <1>5, <1>6, <2>1, <2>2, <2>3 DEF Finalizing
    <2>4. CASE i = c
        <3>1. \A r \in Instance :
                 LET u == Lost(r) IN
                 /\ u.ptr = NoObj /\ u.live = r.live /\ u.disposed = r.disposed
                 /\ u.toggle = r.toggle
            BY DEF Lost, Instance
        <3>2. /\ inst'[i].ptr = NoObj /\ inst'[i].live = inst[i].live
              /\ inst'[i].disposed = inst[i].disposed /\ inst'[i].toggle = inst[i].toggle
            BY <1>1, <2>2, <2>4, <3>1
        <3>3. SameQueued(i)
            BY <1>6, <2>2
        <3>4. inst'[i].live /\ ~inst'[i].disposed /\ ~inst'[i].toggle =>
                  (\A d \in Direction : ~QueuedIn(q', i, d)) /\ InFlight(i)' = {}
            BY <1>1, <1>3, <3>2, <3>3, UpAndDown DEF Orderly, Unused, SameNotes, SameQueued
        <3> QED
            BY <3>2, <3>4, OutOfTouch DEF Installed
    <2> QED
        BY <2>3, <2>4
<1>13. CASE FinalizeCancel
    <2>1. PICK c \in Insts : c = cur
        BY <1>1, <1>13 DEF FinalizeCancel, CurTaken
    <2>2. (q' = Cancelled(c) \/ q' = q) /\ inst' = [inst EXCEPT ![c] = Free]
        BY <1>13, <2>1 DEF FinalizeCancel, CancelledAgain
    <2>3. CASE i # c
        BY <1>1, <1>5, <1>6, <2>1, <2>2, <2>3, CancelledOthers DEF Finalizing
    <2>4. CASE i = c
        <3>1. inst'[i] = Free
            BY <1>1, <2>2, <2>4
        <3> QED
            BY <3>1, OutOfTouch DEF Free, Installed
    <2> QED
        BY <2>3, <2>4
<1>14. CASE DisposalRaces
    BY <1>1, <1>2, <1>14, UntouchedStays DEF DisposalRaces, Finalizing, SameInstance
<1> QED
    BY <1>7, <1>8, <1>9, <1>10, <1>11, <1>12, <1>13, <1>14 DEF GCStep

------------------------------
(* From the shutdown of the queue on nothing is left to keep in order, and *)
(* m_destroying is set later still.                                        *)
LEMMA StoppedForGood == [Next]_vars /\ stopped => stopped'
BY OthersLeaveControl
DEF Next, Over, vars, QueueStep, DispatchIdle, DrainOne, DrainDangling, DrainEnd,
    IdleDestroyNotify, GCStep, DisposalRaces, CollectNow, TriggerGC, Mark, SweepStart, SweepEnd,
    FinalizeEnd, Disassociate, FinalizeRelease, FinalizeCancel, SweepOne, FinalizeOne,
    DisposeStep, DisposeContext, Shutdown, ContextDisposeNotify, FinalGC, Destroy, PrepareEnd,
    DestroyContext, PrepareOne, StartDrain, gcUnchanged, loopUnchanged

LEMMA OnlyDestroy ==
    ASSUME [Next]_vars, ~Destroy
    PROVE  destroying' = destroying
<1>1. CASE GLibStep
    <2>1. ASSUME NEW t \in Threads, Deliver(t)
          PROVE  destroying' = destroying
        BY <2>1 DEF Deliver
    <2>2. ASSUME NEW t \in Threads, DisposalStep(t)
          PROVE  destroying' = destroying
        BY <2>2 DEF DisposalStep, DisposeCancels, DisposeNotifies, DisposeReturns,
                    disposalUnchanged
    <2>3. ASSUME NEW t \in Threads, NEW g \in GObjects, Ref(t, g) \/ Unref(t, g) \/ Dispose(t, g)
          PROVE  destroying' = destroying
        BY <2>3 DEF Ref, Unref, Dispose
    <2> QED
        BY <1>1, <2>1, <2>2, <2>3 DEF GLibStep, LeaveRef
<1>2. CASE JSStep
    BY <1>2 DEF JSStep, Reuse, Associate, AddProperty, Forget, jsUnchanged, loopUnchanged
<1>3. CASE QueueStep
    BY <1>3
    DEF QueueStep, DispatchIdle, DrainOne, DrainDangling, DrainEnd, IdleDestroyNotify,
        loopUnchanged
<1>4. CASE GCStep
    BY <1>4
    DEF GCStep, CollectNow, TriggerGC, Mark, SweepStart, SweepEnd, FinalizeEnd,
        Disassociate, FinalizeRelease, FinalizeCancel, DisposalRaces, SweepOne,
        FinalizeOne, gcUnchanged, loopUnchanged
<1>5. CASE DisposeStep
    BY <1>5
    DEF DisposeStep, DisposeContext, Shutdown, ContextDisposeNotify, FinalGC,
        PrepareEnd, DestroyContext, PrepareOne, gcUnchanged, loopUnchanged
<1>6. CASE UNCHANGED vars
    BY <1>6 DEF vars
<1> QED
    BY <1>1, <1>2, <1>3, <1>4, <1>5, <1>6 DEF Next, Over, vars

LEMMA NextDestroying ==
    ASSUME StoppedIsEmpty, destroying => stopped, [Next]_vars
    PROVE  destroying' => stopped'
<1>1. CASE Destroy
    BY <1>1, StoppedForGood DEF Destroy, StoppedIsEmpty
<1>2. CASE ~Destroy
    BY <1>2, StoppedForGood, OnlyDestroy
<1> QED
    BY <1>1, <1>2

LEMMA NextOrderly ==
    ASSUME Ordered, [Next]_vars, ~stopped', NEW i \in Insts
    PROVE  Orderly(i)'
<1>1. Orderly(i) /\ StoppedIsEmpty /\ ~stopped
    BY DEF Ordered
<1>2. ASSUME UNCHANGED <<q, owners, note, inst>>, ~Finalizing(i) \/ UNCHANGED <<pc, cur>>
      PROVE  Orderly(i)'
    BY <1>1, <1>2, UntouchedStays DEF SameInstance, Finalizing
<1>3. CASE GLibStep
    <2>1. CASE LeaveRef
        BY <1>2, <2>1 DEF LeaveRef
    <2> QED
        BY <1>3, <2>1, CrossingOrderly, DeliverOrderly, DisposeOrderly, DisposalOrderly
        DEF GLibStep
<1>4. CASE JSStep
    BY <1>4, JSOrderly
<1>5. CASE QueueStep
    <2>1. CASE DispatchIdle \/ DrainDangling \/ DrainEnd \/ IdleDestroyNotify
        BY <1>2, <2>1 DEF DispatchIdle, DrainDangling, DrainEnd, IdleDestroyNotify, Finalizing,
                          loopUnchanged
    <2> QED
        BY <1>5, <2>1, DrainOrderly DEF QueueStep
<1>6. CASE GCStep
    BY <1>6, GCOrderly
<1>7. CASE DisposeStep
    <2>1. CASE DisposeContext
        BY <1>2, <2>1 DEF DisposeContext, Finalizing, gcUnchanged
    <2>2. CASE Shutdown
        BY <1>2, <2>2 DEF Shutdown, Finalizing, loopUnchanged
    <2>3. CASE ~DisposeContext /\ ~Shutdown
        BY <1>1, <1>7, <2>3 DEF StoppedIsEmpty, DisposeStep, ContextDisposeNotify, FinalGC,
                                Destroy, PrepareEnd, DestroyContext, PrepareOne
    <2> QED
        BY <2>1, <2>2, <2>3
<1>8. CASE Over \/ UNCHANGED vars
    BY <1>2, <1>8 DEF Over, vars
<1> QED
    BY <1>3, <1>4, <1>5, <1>6, <1>7, <1>8 DEF Next

LEMMA RootingInvHolds == Spec => []RootingInv
<1>1. Init => RootingInv
    <2> SUFFICES ASSUME Init
                 PROVE  RootingInv
        OBVIOUS
    <2>1. ASSUME NEW i \in Insts
          PROVE  Orderly(i)
        <3>1. Len(q) = 0 /\ InFlight(i) = {} /\ ~inst[i].live
            BY EmptySeq, ConstantsAssumption DEF Init, QueueInit, InFlight, NoNote, Free
        <3> QED
            BY <3>1 DEF Init, Orderly, WaitsOnce, Alternates, Agreed, Unused, Installed
    <2> QED
        BY <2>1 DEF Init, RootingInv
<1>2. TypeOK /\ CurTaken /\ LeadsBack /\ DisposalsAreLive /\ StoppedIsEmpty /\ RootingInv
        /\ [Next]_vars => RootingInv'
    <2> SUFFICES ASSUME TypeOK, CurTaken, LeadsBack, DisposalsAreLive, StoppedIsEmpty, RootingInv,
                        [Next]_vars
                 PROVE  RootingInv'
        OBVIOUS
    <2>0. destroying => stopped
        BY DEF RootingInv
    <2>1. destroying' => stopped'
        BY <2>0, NextDestroying
    <2>2. ASSUME SerialNotify, ~stopped', NEW i \in Insts
          PROVE  Orderly(i)'
        <3>1. ~stopped
            BY <2>2, StoppedForGood
        <3>2. Ordered
            BY <2>2, <3>1 DEF Ordered, RootingInv
        <3> QED
            BY <2>2, <3>2, NextOrderly
    <2> QED
        BY <2>1, <2>2 DEF RootingInv
<1> QED
    BY <1>1, <1>2, TypeCorrect, LeadsBackHolds, DisposalsHold, AliveHolds, PTL DEF Spec

(* ensure_uses_toggle_ref()'s rule, for when GLib makes the notifications  *)
(* of an object in the order of its changes and one at a time              *)
(* (SerialNotify): a wrapper is rooted exactly while the toggle reference  *)
(* is not the last one, as soon as the queued toggles are handled and the  *)
(* notification in flight has arrived.  Collections, disposals and         *)
(* whatever other threads do leave it so.                                  *)
THEOREM RootedWhileOwned == Spec => []RootingAgrees
<1>1. RootingInv => RootingAgrees
    <2> SUFFICES ASSUME RootingInv, SerialNotify, ~stopped, NEW i \in Insts,
                        Installed(i), ~Finalizing(i)
                 PROVE  EffectivelyRooted(i) <=>
                            ((owners[inst[i].ptr] # {}) # (InFlight(i) # {}))
        BY DEF RootingAgrees
    <2>1. /\ IsQueued(i, "UP") => Told(i)
          /\ IsQueued(i, "DOWN") => ~Told(i)
          /\ ~IsQueued(i, "UP") /\ ~IsQueued(i, "DOWN") =>
                (inst[i].wrapper = "root" <=> Told(i))
        BY UpAndDown DEF RootingInv, Orderly, Alternates, Agreed, AnythingQueued
    <2>2. EffectivelyRooted(i) <=> Told(i)
        BY <2>1 DEF EffectivelyRooted
    <2>3. Told(i) <=> ((owners[inst[i].ptr] # {}) # (InFlight(i) # {}))
        BY DEF Told
    <2> QED
        BY <2>2, <2>3
<1> QED
    BY <1>1, RootingInvHolds, PTL

(* While GLib makes its notifications one by one an object that has its    *)
(* toggle reference waits in the queue at most once: enqueue() never adds  *)
(* to what it should have cancelled.                                       *)
THEOREM OneToggleWaits == Spec => []OneItemPerObject
<1>1. TypeOK /\ StoppedIsEmpty /\ RootingInv => OneItemPerObject
    <2> SUFFICES ASSUME TypeOK, StoppedIsEmpty, RootingInv, SerialNotify,
                        NEW k \in 1..Len(q), NEW l \in 1..Len(q), q[k].object = q[l].object,
                        Installed(q[k].object)
                 PROVE  k = l
        BY DEF OneItemPerObject
    <2>1. CASE stopped
        BY <2>1, EmptySeq DEF StoppedIsEmpty
    <2>2. CASE ~stopped
        <3>1. q[k].object \in Insts
            BY ItemsAreQueued DEF TypeOK, QueueTypeOK
        <3> QED
            BY <2>2, <3>1 DEF RootingInv, Orderly, WaitsOnce, OnceIn
    <2> QED
        BY <2>1, <2>2
<1> QED
    BY <1>1, TypeCorrect, AliveHolds, RootingInvHolds, PTL

------------------------------
(* What a step may do to one ObjectInstance.                               *)

(* Somebody has, or had, a notification about i.                           *)
Concerned(i) == AnythingQueued(i) \/ InFlight(i) # {} \/ i \in late

(* The wrapper stays as it is, or is unrooted or discarded.                *)
Loosened(i) == \/ inst'[i].wrapper \in {inst[i].wrapper, "null"}
               \/ inst[i].wrapper = "root" /\ inst'[i].wrapper = "heap"
SameLink(i) == inst'[i].linked = inst[i].linked

Retained(i) == SameInstance(i) /\ SameLink(i) /\ Loosened(i)
RootedBy(i) ==
    /\ SameInstance(i) /\ SameLink(i)
    /\ inst[i].wrapper = "heap" /\ inst'[i].wrapper = "root"
    /\ ~inst[i].disposed /\ inst[i].ptr # NoObj /\ Concerned(i)
    /\ ~destroying \/ q # << >>
Marked(i) ==
    /\ \E t \in Threads, g \in GObjects : Dispose(t, g) /\ i \in Watching(g)
    /\ inst'[i].live = inst[i].live /\ inst'[i].ptr = inst[i].ptr
    /\ inst'[i].toggle = inst[i].toggle /\ SameLink(i) /\ Loosened(i)
    /\ ~inst[i].disposed /\ inst'[i].disposed
LosesToggle(i) ==
    /\ Disposing(i)
    /\ inst'[i].live = inst[i].live /\ inst'[i].ptr = inst[i].ptr
    /\ inst'[i].disposed = inst[i].disposed /\ SameLink(i) /\ Loosened(i)
GainsToggle(i) ==
    /\ pc = "js" /\ inst'[i].live = inst[i].live /\ inst'[i].ptr = inst[i].ptr /\ SameLink(i)
    /\ ~inst[i].disposed /\ ~inst'[i].disposed /\ inst'[i].toggle
    /\ inst[i].wrapper = "heap" /\ inst'[i].wrapper = "root"
Begins(i) ==
    /\ pc = "js" /\ ~inst[i].live /\ inst'[i].live /\ ~inst'[i].toggle
    /\ inst'[i].wrapper = "heap" /\ inst'[i].linked /\ inst'[i].ptr # NoObj
    /\ ~Concerned(i)'
LosesObject(i) ==
    /\ inst'[i].live = inst[i].live /\ inst'[i].toggle = inst[i].toggle
    /\ inst'[i].disposed = inst[i].disposed /\ inst'[i].ptr = NoObj /\ inst'[i].wrapper = "null"
Freed(i) == inst'[i] = Free

InstanceStep(i) ==
    \/ Retained(i) \/ RootedBy(i) \/ Marked(i) \/ LosesToggle(i) \/ GainsToggle(i)
    \/ Begins(i) \/ LosesObject(i) \/ Freed(i)

LEMMA SameStep ==
    ASSUME NEW i \in Insts, inst'[i] = inst[i]
    PROVE  InstanceStep(i)
BY DEF InstanceStep, Retained, SameInstance, SameLink, Loosened

(* A toggle that is handled at once, or from the queue.                    *)
LEMMA HandledStep ==
    ASSUME TypeOK, NEW item \in Item, Handled(item), NEW i \in Insts,
           item = [object |-> i, direction |-> "UP"] =>
               Concerned(i) /\ (~destroying \/ q # << >>)
    PROVE  InstanceStep(i)
<1> DEFINE o == item.object
           r == IF item.direction = "DOWN" THEN ToggledDown(inst[o]) ELSE ToggledUp(inst[o])
<1>1. o \in Insts /\ inst \in [Insts -> Instance] /\ inst[o] \in Instance
      /\ item.direction \in Direction /\ item = [object |-> o, direction |-> item.direction]
    BY DEF Item, TypeOK
<1>2. inst' = [inst EXCEPT ![o] = r]
    BY DEF Handled
<1>3. CASE i # o
    <2>1. inst'[i] = inst[i]
        BY <1>1, <1>2, <1>3
    <2> QED
        BY <2>1, SameStep
<1>4. CASE i = o
    <2>1. inst'[i] = r
        BY <1>1, <1>2, <1>4
    <2>2. r.live = inst[o].live /\ r.ptr = inst[o].ptr /\ r.toggle = inst[o].toggle
          /\ r.disposed = inst[o].disposed /\ r.linked = inst[o].linked
        BY <1>1 DEF ToggledUp, ToggledDown, Instance
    <2>3. \/ r.wrapper = inst[o].wrapper
          \/ inst[o].wrapper = "root" /\ r.wrapper = "heap"
          \/ /\ inst[o].wrapper = "heap" /\ r.wrapper = "root" /\ ~inst[o].disposed
             /\ inst[o].ptr # NoObj /\ item.direction # "DOWN"
        BY <1>1 DEF ToggledUp, ToggledDown, Instance
    <2> HIDE DEF r
    <2>4. SameInstance(i) /\ SameLink(i)
        BY <1>4, <2>1, <2>2 DEF SameInstance, SameLink
    <2>5. CASE \/ r.wrapper = inst[o].wrapper
               \/ inst[o].wrapper = "root" /\ r.wrapper = "heap"
        <3>1. Loosened(i)
            BY <1>4, <2>1, <2>5 DEF Loosened
        <3> QED
            BY <2>4, <3>1 DEF InstanceStep, Retained
    <2>6. CASE /\ inst[o].wrapper = "heap" /\ r.wrapper = "root" /\ ~inst[o].disposed
               /\ inst[o].ptr # NoObj /\ item.direction # "DOWN"
        <3>1. item = [object |-> i, direction |-> "UP"]
            BY <1>1, <1>4, <2>6 DEF Direction
        <3> HIDE DEF o
        <3>2. RootedBy(i)
            BY <1>4, <2>1, <2>4, <2>6, <3>1 DEF RootedBy, o
        <3> QED
            BY <3>2 DEF InstanceStep
    <2> QED
        BY <2>3, <2>5, <2>6
<1> QED
    BY <1>3, <1>4

(* A disposal begins, and ends.                                            *)
LEMMA DisposeStepOn ==
    ASSUME TypeOK, NEW t \in Threads, NEW g \in GObjects, Dispose(t, g), NEW i \in Insts
    PROVE  InstanceStep(i)
<1>1. CASE i \in Watching(g)
    <2>1. ~inst[i].disposed /\ inst'[i].disposed
        BY <1>1, DisposeKeeps DEF Watching
    <2>2. Marked(i)
        BY <1>1, <2>1, DisposeKeeps DEF Marked, SameLink, Loosened
    <2> QED
        BY <2>2 DEF InstanceStep
<1>2. CASE i \notin Watching(g)
    <2>1. inst[i].disposed \in BOOLEAN
        BY DEF TypeOK, Instance
    <2>2. Retained(i)
        BY <1>2, <2>1, DisposeKeeps DEF Retained, SameInstance, SameLink, Loosened
    <2> QED
        BY <2>2 DEF InstanceStep
<1> QED
    BY <1>1, <1>2

LEMMA ReturnsStep ==
    ASSUME TypeOK, NEW t \in Threads, DisposeReturns(t), NEW i \in Insts
    PROVE  InstanceStep(i)
<1>1. CASE i = disposal[t].object
    <2>1. LosesToggle(i)
        BY <1>1, ReturnsKeeps DEF LosesToggle, Disposing, SameLink, Loosened
    <2> QED
        BY <2>1 DEF InstanceStep
<1>2. CASE i # disposal[t].object
    BY <1>2, ReturnsKeeps, SameStep
<1> QED
    BY <1>1, <1>2

LEMMA ReleasedStep ==
    ASSUME TypeOK, NEW j \in Insts, NEW i \in Insts,
           \/ inst' = [inst EXCEPT ![j] = Unlinked(Lost(@))]
           \/ inst' = [inst EXCEPT ![j] = Lost(@)]
    PROVE  \/ i = j /\ LosesObject(i)
           \/ i # j /\ inst'[i] = inst[i]
<1>1. inst \in [Insts -> Instance] /\ inst[j] \in Instance
    BY DEF TypeOK
<1>2. \A r \in Instance :
          /\ Lost(r).live = r.live /\ Lost(r).toggle = r.toggle /\ Lost(r).disposed = r.disposed
          /\ Lost(r).ptr = NoObj /\ Lost(r).wrapper = "null"
          /\ Unlinked(Lost(r)).live = r.live /\ Unlinked(Lost(r)).toggle = r.toggle
          /\ Unlinked(Lost(r)).disposed = r.disposed
          /\ Unlinked(Lost(r)).ptr = NoObj /\ Unlinked(Lost(r)).wrapper = "null"
    BY DEF Lost, Unlinked, Instance
<1>3. CASE inst' = [inst EXCEPT ![j] = Unlinked(Lost(@))]
    BY <1>1, <1>2, <1>3 DEF LosesObject
<1>4. CASE inst' = [inst EXCEPT ![j] = Lost(@)]
    BY <1>1, <1>2, <1>4 DEF LosesObject
<1> QED
    BY <1>3, <1>4

(* Whatever happens, to one instance only one of these things happens.     *)
LEMMA EveryInstanceStep ==
    ASSUME TypeOK, CurTaken, [Next]_vars, NEW i \in Insts
    PROVE  InstanceStep(i)
<1>1. inst \in [Insts -> Instance] /\ inst[i] \in Instance
    BY DEF TypeOK
<1>2. ASSUME UNCHANGED inst PROVE InstanceStep(i)
    BY <1>2, SameStep
<1>3. ASSUME NEW t \in Threads, Deliver(t) \/ DisposalStep(t)
      PROVE  InstanceStep(i)
    <2>1. CASE Deliver(t)
        <3>1. note[t] \in Item
            BY <2>1 DEF Deliver, TypeOK, Note, Item
        <3>2. CASE ~destroying /\ Handled(note[t])
            <4>1. note[t] = [object |-> i, direction |-> "UP"] => Concerned(i)
                BY DEF Concerned, InFlight
            <4> QED
                BY <3>1, <3>2, <4>1, HandledStep
        <3>3. CASE UNCHANGED inst
            BY <1>2, <3>3
        <3> QED
            BY <2>1, <3>2, <3>3 DEF Deliver, ToggleNotify
    <2>2. CASE DisposeCancels(t)
        BY <1>2, <2>2 DEF DisposeCancels
    <2>3. CASE DisposeNotifies(t)
        <3> DEFINE item == [object |-> disposal[t].object, direction |-> "DOWN"]
        <3>1. item \in Item
            BY <2>3, DisposalType DEF DisposeNotifies
        <3>2. CASE Handled(item)
            <4>1. item # [object |-> i, direction |-> "UP"]
                OBVIOUS
            <4> HIDE DEF item
            <4> QED
                BY <3>1, <3>2, <4>1, HandledStep
        <3>3. CASE UNCHANGED inst
            BY <1>2, <3>3
        <3> QED
            BY <2>3, <3>2, <3>3 DEF DisposeNotifies, ToggleNotify
    <2>4. CASE DisposeReturns(t)
        BY <2>4, ReturnsStep
    <2> QED
        BY <1>3, <2>1, <2>2, <2>3, <2>4 DEF DisposalStep
<1>4. ASSUME NEW t \in Threads, NEW g \in GObjects, Ref(t, g) \/ Unref(t, g) \/ Dispose(t, g)
      PROVE  InstanceStep(i)
    <2>1. CASE Dispose(t, g)
        BY <2>1, DisposeStepOn
    <2>2. CASE Ref(t, g) \/ Unref(t, g)
        BY <1>2, <2>2 DEF Ref, Unref
    <2> QED
        BY <1>4, <2>1, <2>2
<1>5. CASE JSStep
    <2>1. ASSUME NEW g \in GObjects, Reuse(g)
          PROVE  InstanceStep(i)
        <3>1. PICK k \in Insts : k = qdata[g]
            BY <2>1 DEF Reuse, TypeOK
        <3>2. inst' = [inst EXCEPT ![k] = [inst[k] EXCEPT !.reach = TRUE]]
            BY <2>1, <3>1 DEF Reuse
        <3> QED
            BY <1>1, <3>2 DEF InstanceStep, Retained, SameInstance, SameLink, Loosened, Instance
    <2>2. ASSUME NEW g \in GObjects, NEW k \in Insts, Associate(g, k)
          PROVE  InstanceStep(i)
        <3>1. CASE i = k
            <4> DEFINE r == [live |-> TRUE, ptr |-> g, wrapper |-> "heap", toggle |-> FALSE,
                             disposed |-> gstate[g] = "disposed", linked |-> TRUE,
                             reach |-> TRUE, dead |-> FALSE]
            <4>1. inst'[i] = r /\ pc = "js" /\ ~inst[i].live /\ g # NoObj
                BY <1>1, <2>2, <3>1, ConstantsAssumption DEF Associate, JSRuns
            <4>2. r.live /\ ~r.toggle /\ r.wrapper = "heap" /\ r.linked /\ r.ptr = g
                OBVIOUS
            <4> HIDE DEF r
            <4>3. ~Concerned(i)'
                <5>1. ~AnythingQueued(i) /\ q' = q /\ InFlight(i) = {} /\ note' = note
                      /\ late' = late \ {i}
                    BY <2>2, <3>1 DEF Associate, jsUnchanged
                <5>2. ~AnythingQueued(i)' /\ InFlight(i)' = {}
                    BY <5>1 DEF AnythingQueued, IsQueued, Positions, InFlight
                <5> QED
                    BY <5>1, <5>2 DEF Concerned
            <4> QED
                BY <4>1, <4>2, <4>3 DEF InstanceStep, Begins
        <3>2. CASE i # k
            <4>1. inst'[i] = inst[i]
                BY <1>1, <2>2, <3>2 DEF Associate
            <4> QED
                BY <4>1, SameStep
        <3> QED
            BY <3>1, <3>2
    <2>3. ASSUME NEW k \in Insts, AddProperty(k)
          PROVE  InstanceStep(i)
        <3>1. inst' = [inst EXCEPT ![k] = [inst[k] EXCEPT !.toggle = TRUE, !.wrapper = "root"]]
            BY <2>3 DEF AddProperty
        <3>2. CASE i # k
            <4>1. inst'[i] = inst[i]
                BY <1>1, <3>1, <3>2
            <4> QED
                BY <4>1, SameStep
        <3>3. CASE i = k
            <4>1. GainsToggle(i)
                BY <1>1, <2>3, <3>1, <3>3 DEF AddProperty, JSRuns, GainsToggle, SameLink,
                                              Instance
            <4> QED
                BY <4>1 DEF InstanceStep
        <3> QED
            BY <3>2, <3>3
    <2>4. ASSUME NEW k \in Insts, Forget(k)
          PROVE  InstanceStep(i)
        <3>1. inst' = [inst EXCEPT ![k] = [inst[k] EXCEPT !.reach = FALSE]]
            BY <2>4 DEF Forget
        <3> QED
            BY <1>1, <3>1 DEF InstanceStep, Retained, SameInstance, SameLink, Loosened, Instance
    <2> QED
        BY <1>5, <2>1, <2>2, <2>3, <2>4 DEF JSStep
<1>6. CASE QueueStep
    <2>1. CASE DrainOne
        <3>1. Head(q) \in Item /\ Handled(Head(q)) /\ q # << >>
            BY <2>1, HeadTailProperties DEF DrainOne, TypeOK, QueueTypeOK
        <3>2. Head(q) = [object |-> i, direction |-> "UP"] => Concerned(i)
            <4> SUFFICES ASSUME Head(q) = [object |-> i, direction |-> "UP"]
                         PROVE  Concerned(i)
                OBVIOUS
            <4>1. 1 \in 1..Len(q) /\ q[1] = Head(q)
                BY <3>1, EmptySeq DEF TypeOK, QueueTypeOK
            <4>2. AnythingQueued(i)
                BY <4>1, UpAndDown DEF QueuedIn
            <4> QED
                BY <4>2 DEF Concerned
        <3> QED
            BY <3>1, <3>2, HandledStep
    <2>2. CASE DispatchIdle \/ DrainDangling \/ DrainEnd \/ IdleDestroyNotify
        BY <1>2, <2>2 DEF DispatchIdle, DrainDangling, DrainEnd, IdleDestroyNotify
    <2> QED
        BY <1>6, <2>1, <2>2 DEF QueueStep
<1>7. CASE GCStep
    <2>1. CASE CollectNow \/ TriggerGC \/ SweepStart \/ SweepEnd \/ FinalizeEnd \/ DisposalRaces
        BY <1>2, <2>1 DEF DisposalRaces, CollectNow, TriggerGC, SweepStart, SweepEnd, FinalizeEnd
    <2>2. CASE Mark
        <3>1. PICK b \in BOOLEAN : inst'[i] = [inst[i] EXCEPT !.dead = b]
            BY <2>2 DEF Mark
        <3> QED
            BY <1>1, <3>1 DEF InstanceStep, Retained, SameInstance, SameLink, Loosened, Instance
    <2>3. CASE Disassociate
        <3>1. cur \in Insts
            BY <2>3 DEF Disassociate, CurTaken
        <3> QED
            BY <2>3, <3>1, ReleasedStep, SameStep DEF Disassociate, InstanceStep
    <2>4. CASE FinalizeRelease
        <3>1. cur \in Insts
            BY <2>4 DEF FinalizeRelease, CurTaken
        <3> QED
            BY <2>4, <3>1, ReleasedStep, SameStep DEF FinalizeRelease, InstanceStep
    <2>5. CASE FinalizeCancel
        <3>1. inst'[i] = Free \/ inst'[i] = inst[i]
            BY <1>1, <2>5 DEF FinalizeCancel, CurTaken
        <3> QED
            BY <3>1, SameStep DEF InstanceStep, Freed
    <2>6. ASSUME NEW k \in Insts, SweepOne(k) \/ FinalizeOne(k)
          PROVE  InstanceStep(i)
        <3>1. inst'[i] = Free \/ inst'[i] = inst[i]
            BY <1>1, <2>6 DEF SweepOne, FinalizeOne
        <3> QED
            BY <3>1, SameStep DEF InstanceStep, Freed
    <2> QED
        BY <1>7, <2>1, <2>2, <2>3, <2>4, <2>5, <2>6 DEF GCStep
<1>8. CASE DisposeStep
    <2>1. CASE DisposeContext \/ Shutdown \/ FinalGC \/ Destroy \/ PrepareEnd \/ DestroyContext
        BY <1>2, <2>1 DEF DisposeContext, Shutdown, FinalGC, Destroy, PrepareEnd, DestroyContext
    <2>2. CASE ContextDisposeNotify
        <3>1. inst'[i] = [inst[i] EXCEPT !.wrapper = "null"] \/ inst'[i] = inst[i]
            BY <2>2 DEF ContextDisposeNotify
        <3> QED
            BY <1>1, <3>1 DEF InstanceStep, Retained, SameInstance, SameLink, Loosened, Instance
    <2>3. ASSUME NEW k \in Insts, PrepareOne(k)
          PROVE  InstanceStep(i)
        BY <2>3, ReleasedStep, SameStep DEF PrepareOne, InstanceStep
    <2> QED
        BY <1>8, <2>1, <2>2, <2>3 DEF DisposeStep
<1>9. CASE LeaveRef \/ Over \/ UNCHANGED vars
    BY <1>2, <1>9 DEF LeaveRef, Over, vars
<1> QED
    BY <1>3, <1>4, <1>5, <1>6, <1>7, <1>8, <1>9 DEF Next, GLibStep

------------------------------
(* What a wrapper and the queue say of the toggle reference.               *)

(* A wrapper is rooted for its toggle reference, until the object is       *)
(* disposed of; only an instance that has one, or had, is notified.        *)
Tied(i) ==
    /\ inst[i].wrapper = "root" /\ ~inst[i].disposed => inst[i].toggle
    /\ inst[i].wrapper # "null" => inst[i].linked
    /\ inst[i].ptr # NoObj /\ Concerned(i) => inst[i].toggle \/ inst[i].disposed
AllTied == \A i \in Insts : Tied(i)

(* Only the toggle reference, or its removal, brings a notification.       *)
LEMMA QueuedAnew ==
    ASSUME TypeOK, CurTaken, [Next]_vars, NEW i \in Insts, AnythingQueued(i)'
    PROVE  AnythingQueued(i) \/ Notified(i)
<1>1. PICK d \in Direction : QueuedIn(q', i, d)
    BY UpAndDown
<1>2. PICK n \in 1..Len(q') : q'[n] = [object |-> i, direction |-> d]
    BY <1>1 DEF QueuedIn
<1>3. QueueTypeOK /\ QueueChange
    BY NextQueue DEF TypeOK
<1>4. \/ \E k \in 1..Len(q) : q'[n] = q[k]
      \/ q'[n].object \in Insts /\ Notified(q'[n].object)
    BY <1>2, <1>3, NewItems
<1>5. CASE \E k \in 1..Len(q) : q'[n] = q[k]
    <2>1. QueuedIn(q, i, d)
        BY <1>2, <1>5 DEF QueuedIn
    <2> QED
        BY <2>1, QueuedIsIn DEF AnythingQueued
<1>6. CASE q'[n].object \in Insts /\ Notified(q'[n].object)
    BY <1>2, <1>6
<1> QED
    BY <1>4, <1>5, <1>6

LEMMA NotedAnew ==
    ASSUME TypeOK, CurTaken, [Next]_vars, NEW i \in Insts
    PROVE  /\ InFlight(i)' # {} =>
                  InFlight(i) # {} \/ Installed(i) \/ inst'[i].toggle
           /\ i \in late' => i \in late \/ InFlight(i) # {} \/ Disposing(i)
<1> DEFINE Goal == /\ InFlight(i)' # {} =>
                          InFlight(i) # {} \/ Installed(i) \/ inst'[i].toggle
                   /\ i \in late' => i \in late \/ InFlight(i) # {} \/ Disposing(i)
<1>0. /\ inst \in [Insts -> Instance] /\ i # NoInst
      /\ note \in [Threads -> Note \cup {NoNote}] /\ NoNote.object # i
    BY ConstantsAssumption DEF TypeOK, NoNote
<1>1. ASSUME UNCHANGED note, late' \subseteq late
      PROVE  Goal
    BY <1>1 DEF InFlight
<1>2. ASSUME NEW t \in Threads, Deliver(t)
      PROVE  Goal
    BY <1>0, <1>2 DEF Deliver, InFlight
<1>3. ASSUME NEW t \in Threads, NEW g \in GObjects, Ref(t, g) \/ Unref(t, g)
      PROVE  Goal
    <2>1. \A d : Owed(g, d) = NoNote \/ Owed(g, d).object \in ToggleRefs(g)
        BY DEF Owed
    <2>2. UNCHANGED late /\ \E d : note' = [note EXCEPT ![t] = Owed(g, d)]
                            \/ note' = [note EXCEPT ![t] = NoNote]
        BY <1>3 DEF Ref, Unref
    <2>3. PICK n : note' = [note EXCEPT ![t] = n]
                   /\ (n.object = i => Installed(i))
        BY <1>0, <2>1, <2>2 DEF ToggleRefs
    <2> QED
        BY <1>0, <2>2, <2>3 DEF InFlight
<1>4. ASSUME NEW t \in Threads, DisposalStep(t)
      PROVE  Goal
    <2>1. UNCHANGED note
        BY <1>4 DEF DisposalStep, DisposeCancels, DisposeNotifies, DisposeReturns,
                    disposalUnchanged
    <2>2. i \in late' => i \in late \/ Disposing(i)
        BY <1>4 DEF DisposalStep, DisposeCancels, DisposeNotifies, DisposeReturns, Disposing
    <2> QED
        BY <2>1, <2>2 DEF InFlight
<1>5. ASSUME NEW t \in Threads, NEW g \in GObjects, Dispose(t, g)
      PROVE  Goal
    BY <1>1, <1>5 DEF Dispose
<1>6. CASE JSStep
    <2>1. ASSUME NEW g \in GObjects, Reuse(g) \/ \E k \in Insts : Associate(g, k)
          PROVE  Goal
        BY <1>1, <2>1 DEF Reuse, Associate
    <2>2. ASSUME NEW k \in Insts, Forget(k)
          PROVE  Goal
        BY <1>1, <2>2 DEF Forget
    <2>3. ASSUME NEW k \in Insts, AddProperty(k)
          PROVE  Goal
        <3>1. inst' = [inst EXCEPT ![k].toggle = TRUE, ![k].wrapper = "root"] /\ UNCHANGED late
            BY <2>3 DEF AddProperty
        <3>2. inst'[k].toggle
            BY <1>0, <3>1 DEF Instance
        <3>3. \E n : note' = [note EXCEPT ![Main] = n] /\ (n.object # k => n = note[Main])
            <4> DEFINE n == IF owners[inst[k].ptr] = {} THEN [object |-> k, direction |-> "DOWN"]
                            ELSE note[Main]
            <4>1. note' = [note EXCEPT ![Main] = n]
                BY <2>3 DEF AddProperty
            <4>2. n.object # k => n = note[Main]
                OBVIOUS
            <4> HIDE DEF n
            <4> QED
                BY <4>1, <4>2
        <3> QED
            BY <1>0, <3>1, <3>2, <3>3, ConstantsAssumption DEF InFlight
    <2> QED
        BY <1>6, <2>1, <2>2, <2>3 DEF JSStep
<1>7. CASE QueueStep
    BY <1>1, <1>7 DEF QueueStep, DispatchIdle, DrainOne, DrainDangling, DrainEnd,
                      IdleDestroyNotify, loopUnchanged
<1>8. CASE GCStep
    BY <1>1, <1>8 DEF GCStep, DisposalRaces, CollectNow, TriggerGC, Mark, SweepStart, SweepEnd,
                      FinalizeEnd, Disassociate, FinalizeRelease, FinalizeCancel, SweepOne,
                      FinalizeOne, gcUnchanged, loopUnchanged
<1>9. CASE DisposeStep
    BY <1>1, <1>9 DEF DisposeStep, DisposeContext, Shutdown, ContextDisposeNotify, FinalGC,
                      Destroy, PrepareEnd, DestroyContext, PrepareOne, gcUnchanged, loopUnchanged
<1>10. CASE LeaveRef \/ Over \/ UNCHANGED vars
    BY <1>1, <1>10 DEF LeaveRef, Over, vars
<1> QED
    BY <1>2, <1>3, <1>4, <1>5, <1>6, <1>7, <1>8, <1>9, <1>10 DEF Next, GLibStep

LEMMA ConcernedAnew ==
    ASSUME TypeOK, CurTaken, [Next]_vars, NEW i \in Insts, Concerned(i)'
    PROVE  Concerned(i) \/ Installed(i) \/ Disposing(i) \/ inst'[i].toggle
BY QueuedAnew, NotedAnew DEF Concerned, Notified

LEMMA NextTied ==
    ASSUME TypeOK, CurTaken, DisposalsAreLive, AllTied, [Next]_vars
    PROVE  AllTied'
<1> SUFFICES ASSUME NEW i \in Insts
             PROVE  Tied(i)'
    BY DEF AllTied
<1>1. Tied(i) /\ InstanceStep(i)
    BY EveryInstanceStep DEF AllTied
<1>2. Concerned(i)' => Concerned(i) \/ Installed(i) \/ Disposing(i) \/ inst'[i].toggle
    BY ConcernedAnew
<1>3. Disposing(i) => inst[i].disposed
    BY ConstantsAssumption DEF Disposing, DisposalsAreLive
<1>4. Concerned(i)' /\ inst[i].ptr # NoObj =>
          inst[i].toggle \/ inst[i].disposed \/ inst'[i].toggle
    BY <1>1, <1>2, <1>3 DEF Tied, Installed
<1>5. CASE Retained(i)
    BY <1>1, <1>4, <1>5 DEF Retained, SameInstance, SameLink, Loosened, Tied
<1>6. CASE RootedBy(i)
    <2>1. inst[i].toggle
        BY <1>1, <1>6 DEF RootedBy, Tied
    <2> QED
        BY <1>1, <1>6, <2>1 DEF RootedBy, SameInstance, SameLink, Tied
<1>7. CASE Marked(i)
    BY <1>1, <1>7 DEF Marked, SameLink, Loosened, Tied
<1>8. CASE LosesToggle(i)
    BY <1>1, <1>3, <1>8 DEF LosesToggle, SameLink, Loosened, Tied
<1>9. CASE GainsToggle(i)
    BY <1>1, <1>9 DEF GainsToggle, SameLink, Tied
<1>10. CASE Begins(i)
    BY <1>10 DEF Begins, Tied
<1>11. CASE LosesObject(i)
    BY <1>11 DEF LosesObject, Tied
<1>12. CASE Freed(i)
    <2>1. Free.wrapper = "null" /\ Free.ptr = NoObj
        BY DEF Free
    <2> QED
        BY <1>12, <2>1 DEF Freed, Tied
<1> QED
    BY <1>1, <1>5, <1>6, <1>7, <1>8, <1>9, <1>10, <1>11, <1>12 DEF InstanceStep

LEMMA TiedHolds == Spec => []AllTied
<1>1. Init => AllTied
    <2>1. Free.wrapper = "null" /\ Free.ptr = NoObj
        BY DEF Free
    <2> QED
        BY <2>1 DEF Init, AllTied, Tied
<1>2. TypeOK /\ CurTaken /\ DisposalsAreLive /\ AllTied /\ [Next]_vars => AllTied'
    BY NextTied
<1> QED
    BY <1>1, <1>2, TypeCorrect, DisposalsHold, PTL DEF Spec

------------------------------
(* What the collector finalizes is what the marking has left for dead.     *)
LeftAreDead ==
    /\ pc \in {"finalize", "release", "cancel"} => \A i \in todo : inst[i].dead
    /\ pc \in {"release", "cancel"} => inst[cur].dead /\ cur \notin todo

LEMMA GLibKeepsDead ==
    ASSUME TypeOK, GLibStep, NEW i \in Insts
    PROVE  inst'[i].dead = inst[i].dead
<1>1. ASSUME NEW item \in Item, Handled(item)
      PROVE  inst'[i].dead = inst[i].dead
    <2> DEFINE o == item.object
               r == IF item.direction = "DOWN" THEN ToggledDown(inst[o]) ELSE ToggledUp(inst[o])
    <2>1. o \in Insts /\ inst \in [Insts -> Instance] /\ inst[o] \in Instance
        BY DEF Item, TypeOK
    <2>2. inst' = [inst EXCEPT ![o] = r]
        BY <1>1 DEF Handled
    <2>3. r.dead = inst[o].dead
        BY <2>1 DEF ToggledUp, ToggledDown, Instance
    <2> HIDE DEF r, o
    <2> QED
        BY <2>1, <2>2, <2>3
<1>2. ASSUME NEW t \in Threads, Deliver(t)
      PROVE  inst'[i].dead = inst[i].dead
    <2>1. note[t] \in Item
        BY <1>2 DEF Deliver, TypeOK, Note, Item
    <2> QED
        BY <1>1, <1>2, <2>1 DEF Deliver, ToggleNotify
<1>3. ASSUME NEW t \in Threads, DisposalStep(t)
      PROVE  inst'[i].dead = inst[i].dead
    <2>1. CASE DisposeCancels(t)
        BY <2>1 DEF DisposeCancels
    <2>2. CASE DisposeNotifies(t)
        <3>1. [object |-> disposal[t].object, direction |-> "DOWN"] \in Item
            BY <2>2, DisposalType DEF DisposeNotifies
        <3> QED
            BY <1>1, <2>2, <3>1 DEF DisposeNotifies, ToggleNotify
    <2>3. CASE DisposeReturns(t)
        BY <2>3, ReturnsKeeps
    <2> QED
        BY <1>3, <2>1, <2>2, <2>3 DEF DisposalStep
<1>4. ASSUME NEW t \in Threads, NEW g \in GObjects, Ref(t, g) \/ Unref(t, g) \/ Dispose(t, g)
      PROVE  inst'[i].dead = inst[i].dead
    <2>1. CASE Dispose(t, g)
        BY <2>1, DisposeKeeps
    <2>2. CASE Ref(t, g) \/ Unref(t, g)
        BY <2>2 DEF Ref, Unref
    <2> QED
        BY <1>4, <2>1, <2>2
<1> QED
    BY <1>2, <1>3, <1>4 DEF GLibStep, LeaveRef

LEMMA NextLeft ==
    ASSUME TypeOK, CurTaken, LeftAreDead, [Next]_vars
    PROVE  LeftAreDead'
<1>0. inst \in [Insts -> Instance] /\ todo \subseteq Insts
      /\ (pc \in {"release", "cancel"} => cur \in Insts)
    BY DEF TypeOK, CurTaken
<1>1. CASE GLibStep
    BY <1>0, <1>1, OthersLeaveControl, GLibKeepsDead DEF LeftAreDead
<1>2. CASE UNCHANGED vars \/ Over
    BY <1>2 DEF vars, Over, LeftAreDead
<1>3. CASE JSStep
    BY <1>3, OthersLeaveControl DEF JSStep, JSRuns, Reuse, Associate, AddProperty, Forget,
                                    LeftAreDead
<1>4. CASE QueueStep
    BY <1>4 DEF QueueStep, DispatchIdle, StartDrain, DrainOne, DrainDangling, DrainEnd,
                IdleDestroyNotify, LeftAreDead
<1>5. CASE GCStep
    <2>1. CASE CollectNow \/ TriggerGC \/ Mark \/ SweepStart \/ Disassociate \/ DisposalRaces
        BY <2>1 DEF DisposalRaces, CollectNow, TriggerGC, StartDrain, Mark, SweepStart,
                    Disassociate, LeftAreDead
    <2>2. CASE SweepEnd
        BY <2>2 DEF SweepEnd, LeftAreDead
    <2>3. CASE FinalizeEnd
        BY <2>3 DEF FinalizeEnd, LeftAreDead
    <2>4. CASE FinalizeRelease
        <3>1. PICK c \in Insts : c = cur
            BY <1>0, <2>4 DEF FinalizeRelease
        <3>2. inst' = [inst EXCEPT ![c] = Lost(inst[c])] /\ Lost(inst[c]).dead = inst[c].dead
            BY <1>0, <2>4, <3>1 DEF FinalizeRelease, Lost, Instance
        <3> QED
            BY <1>0, <2>4, <3>1, <3>2 DEF FinalizeRelease, LeftAreDead
    <2>5. CASE FinalizeCancel
        BY <1>0, <2>5 DEF FinalizeCancel, LeftAreDead
    <2>6. ASSUME NEW i \in Insts, SweepOne(i)
          PROVE  LeftAreDead'
        BY <2>6 DEF SweepOne, LeftAreDead
    <2>7. ASSUME NEW i \in Insts, FinalizeOne(i)
          PROVE  LeftAreDead'
        <3>1. /\ pc = "finalize" /\ i \in todo /\ todo' = todo \ {i} /\ inst[i].dead
              /\ \A j \in todo : inst[j].dead
            BY <2>7 DEF FinalizeOne, LeftAreDead
        <3>2. CASE inst[i].ptr # NoObj
            BY <2>7, <3>1, <3>2 DEF FinalizeOne, LeftAreDead
        <3>3. CASE inst[i].ptr = NoObj
            BY <1>0, <2>7, <3>1, <3>3 DEF FinalizeOne, LeftAreDead
        <3> QED
            BY <3>2, <3>3
    <2> QED
        BY <1>5, <2>1, <2>2, <2>3, <2>4, <2>5, <2>6, <2>7 DEF GCStep
<1>6. CASE DisposeStep
    BY <1>6 DEF DisposeStep, DisposeContext, Shutdown, ContextDisposeNotify, FinalGC, Destroy,
                PrepareEnd, DestroyContext, PrepareOne, StartDrain, LeftAreDead
<1> QED
    BY <1>1, <1>2, <1>3, <1>4, <1>5, <1>6 DEF Next

LEMMA LeftHolds == Spec => [](DeadAreLeft /\ DeadStaysUnrooted /\ LeftAreDead)
<1>1. Init => DeadAreLeft /\ DeadStaysUnrooted /\ LeftAreDead
    BY DEF Init, Free, DeadAreLeft, DeadStaysUnrooted, LeftAreDead
<1>2. TypeOK /\ CurTaken /\ DeadAreLeft /\ DeadStaysUnrooted /\ [Next]_vars =>
        DeadAreLeft' /\ DeadStaysUnrooted'
    BY NextDead
<1>3. TypeOK /\ CurTaken /\ LeftAreDead /\ [Next]_vars => LeftAreDead'
    BY NextLeft
<1> QED
    BY <1>1, <1>2, <1>3, TypeCorrect, PTL DEF Spec

------------------------------
(* The disposal of an object and the queue.                                *)

(* Only one instance watches an object: the disposal is about the one that *)
(* has the toggle reference.                                               *)
LEMMA DisposalBegins ==
    ASSUME TypeOK, LeadsBack, NEW i \in Insts, NEW t \in Threads, NEW g \in GObjects,
           Dispose(t, g), i \in Watching(g), inst[i].toggle
    PROVE  disposal' = [disposal EXCEPT ![t] = [object |-> i, at |-> "cancel"]]
<1> DEFINE watching == {j \in Holders(g) : ~inst[j].disposed /\ ~Finalizing(j)}
           c == CHOOSE j \in watching : inst[j].toggle
<1>1. i \in watching /\ inst[i].toggle
    BY DEF Watching
<1>2. c \in watching /\ inst[c].toggle
    BY <1>1
<1>3. \A j \in watching : qdata[g] = j
    BY ConstantsAssumption DEF LeadsBack, Holders, Finalizing
<1>4. c = i
    <2> HIDE DEF watching, c
    <2> QED
        BY <1>1, <1>2, <1>3
<1>5. disposal' = [disposal EXCEPT ![t] = [object |-> c, at |-> "cancel"]]
    BY <1>1 DEF Dispose
<1> HIDE DEF c
<1> QED
    BY <1>4, <1>5

(* While only the main thread disposes of objects, it is in C code as long *)
(* as it does.                                                             *)
MainDisposes ==
    ~ThreadsDispose => \A t \in Threads : disposal[t].object # NoInst => t = Main /\ MainRuns

LEMMA NextMainDisposes ==
    ASSUME TypeOK, CurTaken, MainDisposes, [Next]_vars
    PROVE  MainDisposes'
<1> SUFFICES ASSUME ~ThreadsDispose, NEW t \in Threads, disposal'[t].object # NoInst
             PROVE  t = Main /\ MainRuns'
    BY DEF MainDisposes
<1>1. ASSUME disposal[t].object # NoInst, UNCHANGED pc
      PROVE  t = Main /\ MainRuns'
    BY <1>1 DEF MainDisposes, MainRuns
<1>2. disposal[t].object # NoInst => t = Main /\ MainRuns /\ ~Quiet(Main)
    BY DEF MainDisposes, Quiet, NoDisposal
<1>3. CASE GLibStep
    <2>1. UNCHANGED pc
        BY <1>3, OthersLeaveControl
    <2>2. CASE disposal[t].object # NoInst
        BY <1>1, <2>1, <2>2
    <2>3. CASE disposal[t].object = NoInst
        <3>1. ASSUME NEW u \in Threads, DisposalStep(u)
              PROVE  FALSE
            BY <2>3, <3>1 DEF DisposalStep, DisposeCancels, DisposeNotifies, DisposeReturns,
                              NoDisposal, TypeOK, Disposal
        <3>2. PICK u \in Threads, g \in GObjects : Dispose(u, g)
            BY <1>3, <2>3, <3>1 DEF GLibStep, LeaveRef, Deliver, Ref, Unref
        <3>3. u = Main /\ MainRuns
            BY <3>2 DEF Dispose
        <3>4. t = u
            BY <2>3, <3>2 DEF Dispose, TypeOK
        <3> QED
            BY <2>1, <3>3, <3>4 DEF MainRuns
    <2> QED
        BY <2>2, <2>3
<1>4. CASE JSStep \/ UNCHANGED vars \/ Over
    <2>1. UNCHANGED <<pc, disposal>>
        BY <1>4 DEF JSStep, Reuse, Associate, AddProperty, Forget, jsUnchanged, vars, Over
    <2> QED
        BY <1>1, <2>1
<1>5. CASE QueueStep
    BY <1>2, <1>5 DEF QueueStep, DispatchIdle, DrainOne, DrainDangling, DrainEnd, StartDrain,
                      IdleDestroyNotify, loopUnchanged, MainRuns
<1>6. CASE GCStep
    BY <1>1, <1>2, <1>6
    DEF GCStep, DisposalRaces, CollectNow, TriggerGC, Mark, SweepStart, SweepEnd, StartDrain,
        FinalizeEnd, Disassociate, FinalizeRelease, FinalizeCancel, SweepOne, FinalizeOne,
        gcUnchanged, loopUnchanged, MainRuns
<1>7. CASE DisposeStep
    BY <1>2, <1>7
    DEF DisposeStep, DisposeContext, Shutdown, ContextDisposeNotify, FinalGC, Destroy,
        PrepareEnd, DestroyContext, PrepareOne, StartDrain, gcUnchanged, loopUnchanged, MainRuns
<1> QED
    BY <1>3, <1>4, <1>5, <1>6, <1>7 DEF Next

(* Only a notification or a disposal's own adds to the queue.              *)
LEMMA OnlyNotified ==
    ASSUME TypeOK, CurTaken, [Next]_vars
    PROVE  \/ \E t \in Threads : Deliver(t) \/ DisposeNotifies(t)
           \/ From(q')
<1>0. QueueTypeOK /\ q \in Seq(Item)
    BY DEF TypeOK, QueueTypeOK
<1>1. ASSUME UNCHANGED q
      PROVE  From(q')
    BY <1>1 DEF From
<1>2. ASSUME NEW i \in Insts, q' = Cancelled(i)
      PROVE  From(q')
    BY <1>0, <1>2, CancelledFrom
<1>3. ASSUME NEW t \in Threads, DisposeCancels(t) \/ DisposeReturns(t)
      PROVE  From(q')
    BY <1>1, <1>2, <1>3, DisposalType DEF DisposeCancels, DisposeReturns
<1>4. ASSUME NEW t \in Threads, NEW g \in GObjects, Ref(t, g) \/ Unref(t, g) \/ Dispose(t, g)
      PROVE  From(q')
    BY <1>1, <1>4 DEF Ref, Unref, Dispose
<1>5. CASE JSStep
    BY <1>1, <1>5 DEF JSStep, Reuse, Associate, AddProperty, Forget, jsUnchanged
<1>6. CASE DrainOne
    <2>1. Len(q') \in Nat /\ \A k \in 1..Len(q') : k + 1 \in 1..Len(q) /\ q'[k] = q[k + 1]
        BY <1>0, <1>6, HeadTailProperties, LenProperties DEF DrainOne
    <2> QED
        BY <2>1 DEF From
<1>7. CASE DispatchIdle \/ DrainDangling \/ DrainEnd \/ IdleDestroyNotify
    BY <1>1, <1>7 DEF DispatchIdle, DrainDangling, DrainEnd, IdleDestroyNotify
<1>8. CASE GCStep
    BY <1>1, <1>2, <1>8
    DEF GCStep, DisposalRaces, CollectNow, TriggerGC, Mark, SweepStart, SweepEnd, FinalizeEnd,
        Disassociate, FinalizeRelease, FinalizeCancel, SweepOne, FinalizeOne, CancelledAgain,
        CurTaken
<1>9. CASE DisposeStep
    BY <1>1, <1>9 DEF DisposeStep, DisposeContext, Shutdown, ContextDisposeNotify, FinalGC,
                      Destroy, PrepareEnd, DestroyContext, PrepareOne
<1>10. CASE LeaveRef \/ Over \/ UNCHANGED vars
    BY <1>1, <1>10 DEF LeaveRef, Over, vars
<1> QED
    BY <1>3, <1>4, <1>5, <1>6, <1>7, <1>8, <1>9, <1>10
    DEF Next, GLibStep, QueueStep, DisposalStep

(* A disposed instance is the object of no new notification.               *)
LEMMA NotesKept ==
    ASSUME TypeOK, [Next]_vars, NEW i \in Insts, inst[i].disposed,
           NEW t \in InFlight(i)'
    PROVE  t \in InFlight(i) /\ note'[t] = note[t]
<1> DEFINE Goal == t \in InFlight(i) /\ note'[t] = note[t]
<1>0. /\ i # NoInst /\ NoNote.object # i /\ t \in Threads /\ note'[t].object = i
      /\ note \in [Threads -> Note \cup {NoNote}]
    BY ConstantsAssumption DEF TypeOK, NoNote, InFlight
<1>1. ASSUME UNCHANGED note
      PROVE  Goal
    BY <1>0, <1>1 DEF InFlight
<1>2. ASSUME NEW u \in Threads, Deliver(u)
      PROVE  Goal
    BY <1>0, <1>2 DEF Deliver, InFlight
<1>3. ASSUME NEW u \in Threads, NEW g \in GObjects, Ref(u, g) \/ Unref(u, g)
      PROVE  Goal
    <2>1. \A d : Owed(g, d) = NoNote \/ Owed(g, d).object \in ToggleRefs(g)
        BY DEF Owed
    <2>2. \E d : note' = [note EXCEPT ![u] = Owed(g, d)] \/ note' = [note EXCEPT ![u] = NoNote]
        BY <1>3 DEF Ref, Unref
    <2>3. PICK n : note' = [note EXCEPT ![u] = n] /\ n.object # i
        BY <1>0, <2>1, <2>2 DEF ToggleRefs, Installed
    <2> QED
        BY <1>0, <2>3 DEF InFlight
<1>4. ASSUME NEW k \in Insts, AddProperty(k)
      PROVE  Goal
    <2>1. k # i
        BY <1>4 DEF AddProperty
    <2> DEFINE n == IF owners[inst[k].ptr] = {} THEN [object |-> k, direction |-> "DOWN"]
                    ELSE note[Main]
    <2>2. note' = [note EXCEPT ![Main] = n]
        BY <1>4 DEF AddProperty
    <2>3. n.object = i => n = note[Main]
        BY <2>1
    <2> HIDE DEF n
    <2> QED
        BY <1>0, <2>2, <2>3 DEF InFlight
<1>5. ASSUME NEW u \in Threads, DisposalStep(u) \/ \E g \in GObjects : Dispose(u, g)
      PROVE  Goal
    <2>1. UNCHANGED note
        BY <1>5 DEF DisposalStep, DisposeCancels, DisposeNotifies, DisposeReturns,
                    disposalUnchanged, Dispose
    <2> QED
        BY <1>1, <2>1
<1>6. ASSUME JSStep, ~(\E k \in Insts : AddProperty(k))
      PROVE  Goal
    BY <1>1, <1>6 DEF JSStep, Reuse, Associate, Forget
<1>7. CASE QueueStep
    BY <1>1, <1>7 DEF QueueStep, DispatchIdle, DrainOne, DrainDangling, DrainEnd,
                      IdleDestroyNotify, loopUnchanged
<1>8. CASE GCStep
    BY <1>1, <1>8 DEF GCStep, DisposalRaces, CollectNow, TriggerGC, Mark, SweepStart, SweepEnd,
                      FinalizeEnd, Disassociate, FinalizeRelease, FinalizeCancel, SweepOne,
                      FinalizeOne, gcUnchanged, loopUnchanged
<1>9. CASE DisposeStep
    BY <1>1, <1>9 DEF DisposeStep, DisposeContext, Shutdown, ContextDisposeNotify, FinalGC,
                      Destroy, PrepareEnd, DestroyContext, PrepareOne, gcUnchanged, loopUnchanged
<1>10. CASE LeaveRef \/ Over \/ UNCHANGED vars
    BY <1>1, <1>10 DEF LeaveRef, Over, vars
<1> QED
    BY <1>2, <1>3, <1>4, <1>5, <1>6, <1>7, <1>8, <1>9, <1>10 DEF Next, GLibStep

(* What enqueue() adds: the one toggle, and only if its opposite is not    *)
(* there.                                                                  *)
LEMMA EnqueuedAdds ==
    ASSUME QueueTypeOK, NEW o \in Insts, NEW d \in Direction, NEW i \in Insts,
           NEW e \in Direction, q' = Enqueued(o, d), IsQueued(i, e)'
    PROVE  IsQueued(i, e) \/ (i = o /\ e = d /\ ~IsQueued(o, Opposite(d)))
<1>1. PICK n \in 1..Len(q') : q'[n] = [object |-> i, direction |-> e]
    BY QueuedIsIn DEF QueuedIn
<1>2. CASE \E k \in 1..Len(q) : q'[n] = q[k]
    <2>1. QueuedIn(q, i, e)
        BY <1>1, <1>2 DEF QueuedIn
    <2> QED
        BY <2>1, QueuedIsIn
<1>3. CASE /\ q'[n] = [object |-> o, direction |-> d]
           /\ ~IsQueued(o, Opposite(d))
    BY <1>1, <1>3
<1> QED
    BY <1>1, <1>2, <1>3, EnqueuedProperties

(* No DOWN waits for an object that the main thread has disposed of, once  *)
(* the disposal has cancelled its toggles; and none is in flight: what     *)
(* owned the object when it was disposed of owns it still.                 *)
NoneWaits(i) ==
    /\ IsQueued(i, "DOWN") => disposal[Main] = [object |-> i, at |-> "cancel"]
    /\ \A t \in InFlight(i) : note[t].direction = "UP"
NoDownAwaits ==
    SerialNotify /\ ~ThreadsDispose /\ ~stopped =>
        \A i \in Insts : inst[i].disposed /\ inst[i].ptr # NoObj => NoneWaits(i)

(* A toggle DOWN comes into the queue for what had none.                   *)
LEMMA NoneIsAdded ==
    ASSUME TypeOK, CurTaken, [Next]_vars, MainDisposes, ~ThreadsDispose, NEW i \in Insts,
           inst[i].disposed, \A t \in InFlight(i) : note[t].direction = "UP",
           ~IsQueued(i, "DOWN")
    PROVE  ~IsQueued(i, "DOWN")'
<1> SUFFICES ASSUME IsQueued(i, "DOWN")'
             PROVE  FALSE
    OBVIOUS
<1>0. QueueTypeOK /\ "DOWN" \in Direction /\ "UP" \in Direction
    BY DEF TypeOK, Direction
<1>1. CASE From(q')
    <2>1. PICK n \in 1..Len(q') : q'[n] = [object |-> i, direction |-> "DOWN"]
        BY QueuedIsIn DEF QueuedIn
    <2>2. QueuedIn(q, i, "DOWN")
        BY <1>1, <2>1 DEF From, QueuedIn
    <2> QED
        BY <2>2, QueuedIsIn
<1>2. CASE UNCHANGED q
    BY <1>2, QueuedIsIn
<1>3. ASSUME NEW t \in Threads, Deliver(t)
      PROVE  FALSE
    <2>1. note[t].object \in Insts /\ note[t].direction \in Direction
        BY <1>3 DEF Deliver, TypeOK, Note
    <2>2. CASE q' = Enqueued(note[t].object, note[t].direction)
        <3>1. i = note[t].object /\ note[t].direction = "DOWN"
            BY <1>0, <2>1, <2>2, EnqueuedAdds
        <3> QED
            BY <3>1 DEF InFlight
    <2> QED
        BY <1>2, <1>3, <2>2 DEF Deliver, ToggleNotify, Enqueue
<1>4. ASSUME NEW t \in Threads, DisposeNotifies(t)
      PROVE  FALSE
    <2> DEFINE o == disposal[t].object
               item == [object |-> o, direction |-> "DOWN"]
    <2>1. o \in Insts /\ t = Main /\ ToggleNotify(t, item)
        BY <1>4, DisposalType DEF DisposeNotifies, MainDisposes
    <2>2. CASE q' = Enqueued(o, "DOWN") /\ ~Immediate(t, item)
        <3>1. AnythingQueued(o)
            BY <2>1, <2>2 DEF Immediate
        <3>2. i = o /\ ~IsQueued(o, Opposite("DOWN"))
            BY <1>0, <2>1, <2>2, EnqueuedAdds
        <3> QED
            BY <3>1, <3>2 DEF AnythingQueued, Direction, Opposite
    <2> QED
        BY <1>2, <2>1, <2>2 DEF ToggleNotify, Enqueue
<1> QED
    BY <1>1, <1>3, <1>4, OnlyNotified

(* The step of the main thread's disposal that follows its beginning is to *)
(* cancel.                                                                 *)
LEMMA CancelFollows ==
    ASSUME TypeOK, [Next]_vars, NEW i \in Insts,
           disposal[Main] = [object |-> i, at |-> "cancel"]
    PROVE  disposal'[Main] = disposal[Main] \/ q' = Cancelled(i)
<1>0. /\ i # NoInst /\ disposal[Main].object = i /\ disposal[Main].at = "cancel"
      /\ Main \in Threads /\ ~Quiet(Main)
      /\ disposal \in [Threads -> Disposal \cup {NoDisposal}]
    BY ConstantsAssumption DEF Quiet, NoDisposal, TypeOK
<1> DEFINE Goal == disposal'[Main] = disposal[Main] \/ q' = Cancelled(i)
<1>1. ASSUME UNCHANGED disposal PROVE Goal
    BY <1>1
<1>2. ASSUME NEW t \in Threads, DisposalStep(t)
      PROVE  Goal
    <2>1. CASE t = Main
        BY <1>0, <1>2, <2>1 DEF DisposalStep, DisposeCancels, DisposeNotifies, DisposeReturns
    <2>2. CASE t # Main
        <3>1. \E n : disposal' = [disposal EXCEPT ![t] = n]
            BY <1>2 DEF DisposalStep, DisposeCancels, DisposeNotifies, DisposeReturns
        <3> QED
            BY <1>0, <2>2, <3>1
    <2> QED
        BY <2>1, <2>2
<1>3. ASSUME NEW t \in Threads, NEW g \in GObjects, Dispose(t, g)
      PROVE  Goal
    <2>1. t # Main
        BY <1>0, <1>3 DEF Dispose
    <2>2. \E n : disposal' = [disposal EXCEPT ![t] = n]
        BY <1>3 DEF Dispose
    <2> QED
        BY <1>0, <2>1, <2>2
<1>4. ASSUME NEW t \in Threads, NEW g \in GObjects, Ref(t, g) \/ Unref(t, g)
      PROVE  Goal
    BY <1>1, <1>4 DEF Ref, Unref
<1>5. CASE JSStep
    BY <1>1, <1>5 DEF JSStep, Reuse, Associate, AddProperty, Forget, jsUnchanged
<1>6. CASE QueueStep
    BY <1>1, <1>6 DEF QueueStep, DispatchIdle, DrainOne, DrainDangling, DrainEnd,
                      IdleDestroyNotify, loopUnchanged
<1>7. CASE GCStep
    BY <1>1, <1>7 DEF GCStep, DisposalRaces, CollectNow, TriggerGC, Mark, SweepStart, SweepEnd,
                      FinalizeEnd, Disassociate, FinalizeRelease, FinalizeCancel, SweepOne,
                      FinalizeOne, gcUnchanged, loopUnchanged
<1>8. CASE DisposeStep
    BY <1>1, <1>8 DEF DisposeStep, DisposeContext, Shutdown, ContextDisposeNotify, FinalGC,
                      Destroy, PrepareEnd, DestroyContext, PrepareOne, gcUnchanged, loopUnchanged
<1>9. CASE LeaveRef \/ Over \/ UNCHANGED vars
    BY <1>1, <1>9 DEF LeaveRef, Over, vars
<1>10. ASSUME NEW t \in Threads, Deliver(t)
       PROVE  Goal
    BY <1>1, <1>10 DEF Deliver
<1> QED
    BY <1>2, <1>3, <1>4, <1>5, <1>6, <1>7, <1>8, <1>9, <1>10 DEF Next, GLibStep

LEMMA NextNoDownAwaits ==
    ASSUME TypeOK, CurTaken, LeadsBack, AllTied, RootingInv, MainDisposes, NoDownAwaits,
           [Next]_vars, SerialNotify, ~ThreadsDispose, ~stopped,
           NEW i \in Insts, inst'[i].disposed, inst'[i].ptr # NoObj
    PROVE  NoneWaits(i)'
<1>1. Tied(i) /\ InstanceStep(i) /\ Main \in Threads
    BY EveryInstanceStep, ConstantsAssumption DEF AllTied
<1>2. CASE inst[i].disposed /\ inst[i].ptr # NoObj
    <2>1. NoneWaits(i)
        BY <1>2 DEF NoDownAwaits
    <2>2. \A t \in InFlight(i)' : note'[t].direction = "UP"
        BY <1>2, <2>1, NotesKept DEF NoneWaits
    <2>3. CASE ~IsQueued(i, "DOWN")
        <3>1. ~IsQueued(i, "DOWN")'
            BY <1>2, <2>1, <2>3, NoneIsAdded DEF NoneWaits
        <3> QED
            BY <2>2, <3>1 DEF NoneWaits
    <2>4. CASE IsQueued(i, "DOWN")
        <3>1. disposal[Main] = [object |-> i, at |-> "cancel"]
            BY <2>1, <2>4 DEF NoneWaits
        <3>2. CASE disposal'[Main] = disposal[Main]
            BY <2>2, <3>1, <3>2 DEF NoneWaits
        <3>3. CASE q' = Cancelled(i)
            <4>1. ~QueuedIn(q', i, "DOWN")
                BY <3>3, CancelledViews DEF TypeOK
            <4> QED
                BY <2>2, <4>1, QueuedIsIn DEF NoneWaits
        <3> QED
            BY <3>1, <3>2, <3>3, CancelFollows
    <2> QED
        BY <2>3, <2>4
<1>3. CASE Begins(i)
    <2>1. ~AnythingQueued(i)' /\ InFlight(i)' = {}
        BY <1>3 DEF Begins, Concerned
    <2> QED
        BY <2>1 DEF NoneWaits, AnythingQueued, Direction
<1>4. CASE Marked(i)
    <2>1. PICK t \in Threads, g \in GObjects : Dispose(t, g) /\ i \in Watching(g)
        BY <1>4 DEF Marked
    <2>2. /\ t = Main /\ Main \in owners[g] /\ UNCHANGED <<q, note>>
          /\ inst[i].live /\ inst[i].ptr = g /\ g # NoObj /\ ~inst[i].disposed
        BY <2>1, ConstantsAssumption DEF Dispose, Watching, Holders
    <2>3. InFlight(i)' = InFlight(i) /\ (IsQueued(i, "DOWN")' <=> IsQueued(i, "DOWN"))
        BY <2>2, QueuedIsIn DEF InFlight
    <2>4. CASE ~inst[i].toggle
        <3>1. ~AnythingQueued(i) /\ InFlight(i) = {}
            BY <1>1, <2>2, <2>4 DEF Tied, Concerned
        <3> QED
            BY <2>3, <3>1 DEF NoneWaits, AnythingQueued, Direction
    <2>5. CASE inst[i].toggle
        <3>1. disposal'[Main] = [object |-> i, at |-> "cancel"]
            BY <2>1, <2>2, <2>5, DisposalBegins, <1>1 DEF TypeOK
        <3>2. Installed(i) /\ Alternates(i)
            BY <2>2, <2>5 DEF Installed, RootingInv, Orderly
        <3>3. \A u \in InFlight(i) : note[u].direction = "UP"
            BY <2>2, <3>2 DEF Alternates, Told
        <3> QED
            BY <2>2, <2>3, <3>1, <3>3 DEF NoneWaits
    <2> QED
        BY <2>4, <2>5
<1>5. Retained(i) \/ LosesToggle(i) => inst[i].disposed /\ inst[i].ptr # NoObj
    BY DEF Retained, SameInstance, LosesToggle
<1>6. ~RootedBy(i) /\ ~GainsToggle(i) /\ ~LosesObject(i)
    BY DEF RootedBy, SameInstance, GainsToggle, LosesObject
<1>7. ~Freed(i)
    <2>1. ~Free.disposed
        BY DEF Free
    <2> QED
        BY <2>1 DEF Freed
<1> QED
    BY <1>1, <1>2, <1>3, <1>4, <1>5, <1>6, <1>7 DEF InstanceStep

LEMMA NoDownAwaitsHolds == Spec => [](MainDisposes /\ NoDownAwaits)
<1>1. Init => MainDisposes /\ NoDownAwaits
    <2>1. Free.ptr = NoObj
        BY DEF Free
    <2> QED
        BY <2>1 DEF Init, MainDisposes, NoDownAwaits, NoDisposal
<1>2. TypeOK /\ CurTaken /\ LeadsBack /\ AllTied /\ RootingInv /\ MainDisposes /\ NoDownAwaits
        /\ [Next]_vars => MainDisposes' /\ NoDownAwaits'
    BY NextMainDisposes, NextNoDownAwaits, StoppedForGood DEF NoDownAwaits
<1> QED
    BY <1>1, <1>2, TypeCorrect, LeadsBackHolds, RootingInvHolds, TiedHolds, PTL DEF Spec

(* What the destructor of a wrapper finds in the queue: the g_error that   *)
(* it calls for a toggle DOWN cannot be reached.                           *)
LEMMA NoDownForTheDead ==
    ASSUME TypeOK, CurTaken, LeadsBack, StoppedIsEmpty, RootingInv, AllTied, DeadStaysUnrooted,
           LeftAreDead, MainDisposes, NoDownAwaits, SerialNotify, ~ThreadsDispose,
           NEW i \in Insts, FinalizeOne(i), inst[i].ptr # NoObj
    PROVE  ~IsQueued(i, "DOWN")
<1> SUFFICES ASSUME IsQueued(i, "DOWN")
             PROVE  FALSE
    OBVIOUS
<1>1. pc = "finalize" /\ inst[i].dead /\ inst[i].wrapper # "root" /\ inst[i].live
    BY DEF FinalizeOne, LeftAreDead, DeadStaysUnrooted, LeadsBack
<1>2. AnythingQueued(i)
    BY DEF AnythingQueued, Direction
<1>3. ~stopped
    <2>1. PICK k \in 1..Len(q) : TRUE
        BY DEF IsQueued, Positions
    <2> QED
        BY <2>1, EmptySeq DEF StoppedIsEmpty
<1>4. ~inst[i].disposed
    <2> SUFFICES ASSUME inst[i].disposed
                 PROVE  FALSE
        OBVIOUS
    <2>1. disposal[Main] = [object |-> i, at |-> "cancel"]
        BY <1>3 DEF NoDownAwaits, NoneWaits
    <2>2. MainRuns
        BY <2>1, ConstantsAssumption DEF MainDisposes
    <2> QED
        BY <1>1, <2>2 DEF MainRuns
<1>5. Installed(i) /\ ~Finalizing(i)
    BY <1>1, <1>2, <1>4 DEF AllTied, Tied, Concerned, Installed, Finalizing
<1> QED
    BY <1>1, <1>3, <1>5 DEF RootingInv, Orderly, Agreed

(* With notifications in order, and disposals only on the main thread, the *)
(* destructor never meets a wrapper that is still to be unrooted, whatever *)
(* the other threads do with their references meanwhile.                   *)
THEOREM NoneDiesRooted ==
    ASSUME SerialNotify, ~ThreadsDispose
    PROVE  Spec => []NoPendingDownFault
<1>1. Init => NoPendingDownFault
    BY DEF Init, NoPendingDownFault
<1>2. TypeOK /\ CurTaken /\ LeadsBack /\ StoppedIsEmpty /\ RootingInv /\ AllTied
        /\ DeadStaysUnrooted /\ LeftAreDead /\ MainDisposes /\ NoDownAwaits
        /\ NoPendingDownFault /\ [Next]_vars => NoPendingDownFault'
    <2> SUFFICES ASSUME TypeOK, CurTaken, LeadsBack, StoppedIsEmpty, RootingInv, AllTied,
                        DeadStaysUnrooted, LeftAreDead, MainDisposes, NoDownAwaits,
                        NoPendingDownFault, [Next]_vars
                 PROVE  NoPendingDownFault'
        OBVIOUS
    <2>1. ASSUME NEW i \in Insts, FinalizeOne(i)
          PROVE  NoPendingDownFault'
        <3>1. inst[i].ptr # NoObj => ~IsQueued(i, "DOWN")
            BY <2>1, NoDownForTheDead
        <3> QED
            BY <2>1, <3>1 DEF FinalizeOne, OnlyDown, NoPendingDownFault
    <2>2. CASE ~(\E i \in Insts : FinalizeOne(i))
        <3>1. fault' \in {fault, "pendingToggleUp", "queueNotEmpty", "dangling", "disposalRaced"}
            BY <2>2, OthersLeaveControl
            DEF Next, Over, vars, QueueStep, DispatchIdle, DrainOne, DrainDangling, DrainEnd,
                IdleDestroyNotify, GCStep, DisposalRaces, CollectNow, TriggerGC, Mark,
                SweepStart,
                SweepEnd, FinalizeEnd, Disassociate, FinalizeRelease, FinalizeCancel, SweepOne,
                DisposeStep, DisposeContext, Shutdown, ContextDisposeNotify, FinalGC, Destroy,
                PrepareEnd, DestroyContext, PrepareOne
        <3> QED
            BY <3>1 DEF NoPendingDownFault
    <2> QED
        BY <2>1, <2>2
<1> QED
    BY <1>1, <1>2, TypeCorrect, LeadsBackHolds, AliveHolds, RootingInvHolds, TiedHolds,
       LeftHolds, NoDownAwaitsHolds, PTL DEF Spec

------------------------------
(* The notification DOWN of an object that another thread disposes of.     *)

(* The queue keeps what is about another instance.                         *)
LEMMA OthersStay ==
    ASSUME TypeOK, ~stopped, NEW o \in Insts, NEW i \in Insts, i # o,
           \/ q' = q \/ q' = Cancelled(o)
           \/ \E e \in Direction : q' = Enqueued(o, e)
    PROVE  \A d : IsQueued(i, d)' <=> IsQueued(i, d)
<1>0. QueueTypeOK
    BY DEF TypeOK
<1>1. CASE q' = q
    BY <1>1, QueuedIsIn
<1>2. CASE q' = Cancelled(o)
    BY <1>0, <1>2, CancelledViews, QueuedIsIn
<1>3. ASSUME NEW e \in Direction, q' = Enqueued(o, e)
      PROVE  \A d : IsQueued(i, d)' <=> IsQueued(i, d)
    <2>1. \A d : QueuedIn(q', i, d) <=> QueuedIn(q, i, d)
        BY <1>0, <1>3, EnqueuedViews
    <2> QED
        BY <2>1, QueuedIsIn
<1> QED
    BY <1>1, <1>2, <1>3

(* What a step does to the toggles of a disposed instance whose wrapper is *)
(* rooted: notifications that are not late are about others.               *)
LEMMA DisposedQueued ==
    ASSUME TypeOK, CurTaken, DirectionsExclusive, DeadStaysUnrooted, LeftAreDead, [Next]_vars,
           ~stopped, NEW i \in Insts, inst[i].disposed, inst[i].wrapper = "root",
           inst'[i].wrapper = "root", i \notin late',
           \A t \in Threads : ~(DisposalStep(t) /\ disposal[t].object = i)
    PROVE  /\ IsQueued(i, "DOWN") => IsQueued(i, "DOWN")'
           /\ ~AnythingQueued(i) => ~AnythingQueued(i)'
<1> DEFINE Goal == /\ IsQueued(i, "DOWN") => IsQueued(i, "DOWN")'
                   /\ ~AnythingQueued(i) => ~AnythingQueued(i)'
<1>0. /\ inst \in [Insts -> Instance] /\ inst[i] \in Instance
      /\ "DOWN" \in Direction /\ ~inst[i].dead
    BY DEF TypeOK, Direction, DeadStaysUnrooted
<1>1. ASSUME NEW o \in Insts, i # o,
             \/ q' = q \/ q' = Cancelled(o)
             \/ \E e \in Direction : q' = Enqueued(o, e)
      PROVE  Goal
    BY <1>1, OthersStay DEF AnythingQueued
<1>2. ASSUME q' = q PROVE Goal
    BY <1>2 DEF IsQueued, AnythingQueued, Positions
<1>3. ASSUME NEW t \in Threads, Deliver(t)
      PROVE  Goal
    <2>1. note[t].object \in Insts /\ note[t].direction \in Direction
        BY <1>3 DEF Deliver, TypeOK, Note
    <2>2. CASE q' = Enqueued(note[t].object, note[t].direction)
               /\ late' = IF Installed(note[t].object) THEN late
                          ELSE late \cup {note[t].object}
        <3>1. note[t].object # i
            BY <2>2 DEF Installed
        <3> QED
            BY <1>1, <2>1, <2>2, <3>1
    <2> QED
        BY <1>2, <1>3, <2>2 DEF Deliver, ToggleNotify, Enqueue
<1>4. ASSUME NEW t \in Threads, DisposalStep(t)
      PROVE  Goal
    <2>1. disposal[t].object \in Insts /\ disposal[t].object # i
        BY <1>4, DisposalType
        DEF DisposalStep, DisposeCancels, DisposeNotifies, DisposeReturns
    <2>2. \/ q' = q \/ q' = Cancelled(disposal[t].object)
          \/ \E e \in Direction : q' = Enqueued(disposal[t].object, e)
        BY <1>0, <1>4 DEF DisposalStep, DisposeCancels, DisposeNotifies, DisposeReturns,
                          ToggleNotify, Enqueue
    <2> QED
        BY <1>1, <2>1, <2>2
<1>5. ASSUME NEW t \in Threads, NEW g \in GObjects, Ref(t, g) \/ Unref(t, g) \/ Dispose(t, g)
      PROVE  Goal
    BY <1>2, <1>5 DEF Ref, Unref, Dispose
<1>6. CASE JSStep
    BY <1>2, <1>6 DEF JSStep, Reuse, Associate, AddProperty, Forget, jsUnchanged
<1>7. CASE DrainOne
    <2>1. Head(q) \in Item /\ q # << >> /\ q \in Seq(Item) /\ Handled(Head(q))
        BY <1>7, HeadTailProperties DEF DrainOne, TypeOK, QueueTypeOK
    <2>2. CASE Head(q).object # i
        <3>1. \A d : QueuedIn(Tail(q), i, d) <=> QueuedIn(q, i, d)
            BY <2>1, <2>2, TailViews
        <3> QED
            BY <1>7, <3>1, QueuedIsIn DEF DrainOne, AnythingQueued
    <2>3. CASE Head(q).object = i
        <3>1. Head(q).direction \in Direction
              /\ Head(q) = [object |-> i, direction |-> Head(q).direction]
            BY <2>1, <2>3 DEF Item
        <3>2. 1 \in 1..Len(q) /\ q[1] = Head(q)
            BY <2>1, EmptySeq
        <3>3. IsQueued(i, Head(q).direction)
            <4>1. QueuedIn(q, i, Head(q).direction)
                BY <3>1, <3>2 DEF QueuedIn
            <4> QED
                BY <4>1, QueuedIsIn
        <3>4. ASSUME Head(q).direction = "DOWN"
              PROVE  FALSE
            <4>1. inst' = [inst EXCEPT ![i] = ToggledDown(inst[i])]
                BY <2>1, <2>3, <3>4 DEF Handled
            <4>2. ToggledDown(inst[i]).wrapper = "heap"
                BY <1>0 DEF ToggledDown, Instance
            <4> QED
                BY <1>0, <4>1, <4>2
        <3>5. ~IsQueued(i, "DOWN") /\ AnythingQueued(i)
            BY <3>1, <3>3, <3>4 DEF Direction, DirectionsExclusive, AnythingQueued
        <3> QED
            BY <3>5
    <2> QED
        BY <2>2, <2>3
<1>8. CASE DispatchIdle \/ DrainDangling \/ DrainEnd \/ IdleDestroyNotify
    BY <1>2, <1>8 DEF DispatchIdle, DrainDangling, DrainEnd, IdleDestroyNotify
<1>9. CASE GCStep
    <2>1. CASE \/ CollectNow \/ TriggerGC \/ Mark \/ SweepStart \/ SweepEnd \/ FinalizeEnd
               \/ FinalizeRelease \/ DisposalRaces
        BY <1>2, <2>1 DEF CollectNow, TriggerGC, Mark, SweepStart, SweepEnd, FinalizeEnd,
                          FinalizeRelease, DisposalRaces
    <2>2. CASE Disassociate
        <3>1. PICK c \in Insts : c = cur
            BY <2>2 DEF Disassociate, CurTaken
        <3>2. inst' = [inst EXCEPT ![c] = Unlinked(Lost(@))] /\ q' = Cancelled(c)
            BY <2>2, <3>1 DEF Disassociate
        <3>3. i # c
            BY <3>2, ReleasedStep DEF LosesObject
        <3> QED
            BY <1>1, <3>2, <3>3
    <2>3. CASE FinalizeCancel
        <3>1. cur \in Insts /\ inst[cur].dead
            BY <2>3 DEF FinalizeCancel, CurTaken, LeftAreDead
        <3>2. i # cur
            BY <1>0, <3>1
        <3> QED
            BY <1>1, <2>3, <3>1, <3>2 DEF FinalizeCancel, CancelledAgain
    <2>4. ASSUME NEW j \in Insts, SweepOne(j)
          PROVE  Goal
        BY <1>1, <1>2, <2>4 DEF SweepOne, WeakPointerWasFinalized
    <2>5. ASSUME NEW j \in Insts, FinalizeOne(j)
          PROVE  Goal
        <3>1. inst[j].dead
            BY <2>5 DEF FinalizeOne, LeftAreDead
        <3> QED
            BY <1>0, <1>1, <2>5, <3>1 DEF FinalizeOne
    <2> QED
        BY <1>9, <2>1, <2>2, <2>3, <2>4, <2>5 DEF GCStep
<1>10. CASE DisposeStep
    BY <1>2, <1>10 DEF DisposeStep, DisposeContext, Shutdown, ContextDisposeNotify, FinalGC,
                       Destroy, PrepareEnd, DestroyContext, PrepareOne
<1>11. CASE LeaveRef \/ UNCHANGED vars \/ Over
    BY <1>2, <1>11 DEF LeaveRef, vars, Over
<1> QED
    BY <1>3, <1>4, <1>5, <1>6, <1>7, <1>8, <1>9, <1>10, <1>11 DEF Next, GLibStep, QueueStep

(* Where the disposal of a rooted wrapper's object stands: on another      *)
(* thread it finds the queue cleared when it is about to make its last     *)
(* notification, and has queued that when it is about to return.           *)
Comes(i, t) ==
    /\ disposal[t].at = "notify" => ~AnythingQueued(i)
    /\ disposal[t].at = "end" => t = Main \/ IsQueued(i, "DOWN")
Unroots(i) ==
    inst[i].live /\ inst[i].disposed /\ inst[i].wrapper = "root" /\ i \notin late =>
        /\ IsQueued(i, "DOWN") \/ Disposing(i)
        /\ \A t \in Threads : disposal[t].object = i => Comes(i, t)

(* A step of the disposal itself.                                          *)
LEMMA OwnStep ==
    ASSUME TypeOK, DisposalsAreLive, NEW i \in Insts, Unroots(i), ~stopped, ~destroying,
           NEW t \in Threads, DisposalStep(t), disposal[t].object = i, i \notin late,
           inst[i].wrapper = "root", inst'[i].wrapper = "root", i \notin late'
    PROVE  Unroots(i)'
<1>0. /\ QueueTypeOK /\ "DOWN" \in Direction /\ i # NoInst
      /\ disposal \in [Threads -> Disposal \cup {NoDisposal}]
      /\ \A u \in Threads : disposal[u].object = i => u = t
      /\ disposal[t] \in Disposal /\ inst[i].live /\ inst[i].disposed
    BY ConstantsAssumption DEF TypeOK, Direction, DisposalsAreLive, NoDisposal
<1>1. (IsQueued(i, "DOWN") \/ Disposing(i)) /\ Comes(i, t)
    BY <1>0 DEF Unroots
<1>2. CASE DisposeCancels(t)
    <2>1. \A d : ~QueuedIn(q', i, d)
        BY <1>0, <1>2, CancelledViews DEF DisposeCancels
    <2>2. ~AnythingQueued(i)'
        BY <2>1, UpAndDown
    <2>3. disposal'[t].at = "notify" /\ disposal'[t].object = i
          /\ \A u \in Threads : u # t => disposal'[u] = disposal[u]
        BY <1>0, <1>2 DEF DisposeCancels, Disposal
    <2> QED
        BY <1>0, <2>2, <2>3 DEF Unroots, Comes, Disposing
<1>3. CASE DisposeNotifies(t)
    <2> DEFINE item == [object |-> i, direction |-> "DOWN"]
    <2>1. disposal'[t].at = "end" /\ disposal'[t].object = i
          /\ \A u \in Threads : u # t => disposal'[u] = disposal[u]
        BY <1>0, <1>3 DEF DisposeNotifies, Disposal
    <2>2. ASSUME t # Main
          PROVE  IsQueued(i, "DOWN")'
        <3>1. q' = Enqueued(i, "DOWN")
            BY <1>3, <2>2 DEF DisposeNotifies, ToggleNotify, Immediate, Enqueue
        <3>2. \A d \in Direction : ~QueuedIn(q, i, d)
            BY <1>1, <1>3, QueuedIsIn DEF DisposeNotifies, Comes, AnythingQueued
        <3>3. QueuedIn(q', i, "DOWN")
            BY <1>0, <3>1, <3>2, EnqueuedViews
        <3> QED
            BY <3>3, QueuedIsIn
    <2> QED
        BY <1>0, <2>1, <2>2 DEF Unroots, Comes, Disposing
<1>4. CASE DisposeReturns(t)
    <2>1. t # Main
        BY <1>0, <1>4, ReturnsKeeps
    <2>2. IsQueued(i, "DOWN") /\ UNCHANGED q
        BY <1>1, <1>4, <2>1 DEF DisposeReturns, Comes
    <2>3. \A u \in Threads : disposal'[u].object # i
        BY <1>0, <1>4 DEF DisposeReturns, NoDisposal
    <2> QED
        BY <2>2, <2>3, QueuedIsIn DEF Unroots
<1> QED
    BY <1>2, <1>3, <1>4 DEF DisposalStep

(* The disposal of i stands where it stood.                                *)
LEMMA DisposalStays ==
    ASSUME TypeOK, [Next]_vars, NEW i \in Insts, inst[i].disposed,
           \A t \in Threads : ~(DisposalStep(t) /\ disposal[t].object = i)
    PROVE  \A t \in Threads : /\ disposal[t].object = i => disposal'[t] = disposal[t]
                              /\ disposal'[t].object = i => disposal'[t] = disposal[t]
<1> DEFINE Goal == \A t \in Threads :
                       /\ disposal[t].object = i => disposal'[t] = disposal[t]
                       /\ disposal'[t].object = i => disposal'[t] = disposal[t]
<1>0. /\ i # NoInst /\ NoDisposal.object # i
      /\ disposal \in [Threads -> Disposal \cup {NoDisposal}]
    BY ConstantsAssumption DEF TypeOK, NoDisposal
<1>1. ASSUME UNCHANGED disposal PROVE Goal
    BY <1>1
<1>2. ASSUME NEW t \in Threads, DisposalStep(t)
      PROVE  Goal
    <2>1. disposal[t].object # i
        BY <1>2
    <2>2. disposal[t] \in Disposal
        BY <1>0, <1>2 DEF DisposalStep, DisposeCancels, DisposeNotifies, DisposeReturns,
                          NoDisposal
    <2>3. \E n : disposal' = [disposal EXCEPT ![t] = n] /\ n.object # i
        <3>1. CASE DisposeReturns(t)
            BY <1>0, <3>1 DEF DisposeReturns
        <3>2. CASE DisposeCancels(t)
            <4> DEFINE n == [disposal[t] EXCEPT !.at = "notify"]
            <4>1. disposal' = [disposal EXCEPT ![t] = n]
                BY <3>2 DEF DisposeCancels
            <4>2. n.object # i
                BY <2>1, <2>2 DEF Disposal
            <4> HIDE DEF n
            <4> QED
                BY <4>1, <4>2
        <3>3. CASE DisposeNotifies(t)
            <4> DEFINE n == [disposal[t] EXCEPT !.at = "end"]
            <4>1. disposal' = [disposal EXCEPT ![t] = n]
                BY <3>3 DEF DisposeNotifies
            <4>2. n.object # i
                BY <2>1, <2>2 DEF Disposal
            <4> HIDE DEF n
            <4> QED
                BY <4>1, <4>2
        <3> QED
            BY <1>2, <3>1, <3>2, <3>3 DEF DisposalStep
    <2> QED
        BY <1>0, <2>1, <2>3
<1>3. ASSUME NEW t \in Threads, NEW g \in GObjects, Dispose(t, g)
      PROVE  Goal
    <2> DEFINE watching == {j \in Holders(g) : ~inst[j].disposed /\ ~Finalizing(j)}
               c == CHOOSE j \in watching : inst[j].toggle
    <2>1. disposal[t].object # i
        BY <1>0, <1>3 DEF Dispose, Quiet
    <2>2. \E n : disposal' = [disposal EXCEPT ![t] = n] /\ n.object # i
        <3>1. CASE \E j \in watching : inst[j].toggle
            <4>1. c \in watching
                BY <3>1
            <4>2. c # i
                BY <4>1
            <4> DEFINE n == [object |-> c, at |-> "cancel"]
            <4>3. disposal' = [disposal EXCEPT ![t] = n]
                BY <1>3, <3>1 DEF Dispose
            <4>4. n.object # i
                BY <4>2
            <4> HIDE DEF n
            <4> QED
                BY <4>3, <4>4
        <3>2. CASE ~(\E j \in watching : inst[j].toggle)
            BY <1>0, <1>3, <3>2 DEF Dispose
        <3> QED
            BY <3>1, <3>2
    <2> QED
        BY <1>0, <2>1, <2>2
<1>4. ASSUME NEW t \in Threads, NEW g \in GObjects, Ref(t, g) \/ Unref(t, g)
      PROVE  Goal
    BY <1>1, <1>4 DEF Ref, Unref
<1>5. CASE JSStep \/ (\E t \in Threads : Deliver(t))
    BY <1>1, <1>5 DEF JSStep, Reuse, Associate, AddProperty, Forget, jsUnchanged, Deliver
<1>6. CASE QueueStep
    BY <1>1, <1>6 DEF QueueStep, DispatchIdle, DrainOne, DrainDangling, DrainEnd,
                      IdleDestroyNotify, loopUnchanged
<1>7. CASE GCStep
    BY <1>1, <1>7 DEF GCStep, DisposalRaces, CollectNow, TriggerGC, Mark, SweepStart, SweepEnd,
                      FinalizeEnd, Disassociate, FinalizeRelease, FinalizeCancel, SweepOne,
                      FinalizeOne, gcUnchanged, loopUnchanged
<1>8. CASE DisposeStep
    BY <1>1, <1>8 DEF DisposeStep, DisposeContext, Shutdown, ContextDisposeNotify, FinalGC,
                      Destroy, PrepareEnd, DestroyContext, PrepareOne, gcUnchanged, loopUnchanged
<1>9. CASE LeaveRef \/ Over \/ UNCHANGED vars
    BY <1>1, <1>9 DEF LeaveRef, Over, vars
<1> QED
    BY <1>2, <1>3, <1>4, <1>5, <1>6, <1>7, <1>8, <1>9 DEF Next, GLibStep

(* A wrapper that is rooted when the disposal of its object begins.        *)
LEMMA NewlyDisposed ==
    ASSUME TypeOK, LeadsBack, DisposalsAreLive, NEW i \in Insts, Tied(i), Marked(i),
           inst'[i].wrapper = "root"
    PROVE  Unroots(i)'
<1>1. PICK t \in Threads, g \in GObjects : Dispose(t, g) /\ i \in Watching(g)
    BY DEF Marked
<1>2. inst[i].wrapper = "root" /\ inst[i].toggle
    BY DEF Marked, Loosened, Tied
<1>3. disposal' = [disposal EXCEPT ![t] = [object |-> i, at |-> "cancel"]]
    BY <1>1, <1>2, DisposalBegins
<1>4. \A u \in Threads : disposal[u].object # i
    BY ConstantsAssumption DEF DisposalsAreLive, Marked
<1>5. disposal'[t] = [object |-> i, at |-> "cancel"]
      /\ \A u \in Threads : u # t => disposal'[u].object # i
    BY <1>3, <1>4 DEF TypeOK
<1> QED
    BY <1>5 DEF Unroots, Comes, Disposing

LEMMA NextUnroots ==
    ASSUME TypeOK, CurTaken, LeadsBack, DisposalsAreLive, DirectionsExclusive,
           DeadStaysUnrooted, LeftAreDead, AllTied, [Next]_vars, ~stopped, ~destroying,
           NEW i \in Insts, Unroots(i)
    PROVE  Unroots(i)'
<1> SUFFICES ASSUME inst'[i].live, inst'[i].disposed, inst'[i].wrapper = "root", i \notin late'
             PROVE  Unroots(i)'
    BY DEF Unroots
<1>1. Tied(i) /\ InstanceStep(i)
    BY EveryInstanceStep DEF AllTied
<1>2. CASE inst[i].live /\ inst[i].disposed /\ inst[i].wrapper = "root" /\ ~(pc = "js" /\ JSStep)
    <2>1. i \notin late
        <3>1. CASE GLibStep
            BY <3>1, GLibKeeps
        <3>2. CASE ~GLibStep
            <4>1. late' = late
                BY <1>2, <3>2
                DEF Next, Over, vars, JSStep, JSRuns, Reuse, Associate, AddProperty, Forget,
                    QueueStep, DispatchIdle, DrainOne, DrainDangling, DrainEnd,
                    IdleDestroyNotify, GCStep, DisposalRaces, CollectNow, TriggerGC, Mark,
                    SweepStart, SweepEnd, FinalizeEnd, Disassociate, FinalizeRelease,
                    FinalizeCancel, SweepOne, FinalizeOne, DisposeStep, DisposeContext, Shutdown,
                    ContextDisposeNotify, FinalGC, Destroy, PrepareEnd, DestroyContext,
                    PrepareOne, gcUnchanged, loopUnchanged
            <4> QED
                BY <4>1
        <3> QED
            BY <3>1, <3>2
    <2>2. ASSUME NEW t \in Threads, DisposalStep(t), disposal[t].object = i
          PROVE  Unroots(i)'
        BY <1>2, <2>1, <2>2, OwnStep
    <2>3. CASE \A t \in Threads : ~(DisposalStep(t) /\ disposal[t].object = i)
        <3>1. /\ IsQueued(i, "DOWN") => IsQueued(i, "DOWN")'
              /\ ~AnythingQueued(i) => ~AnythingQueued(i)'
            BY <1>2, <2>3, DisposedQueued
        <3>2. \A t \in Threads : /\ disposal[t].object = i => disposal'[t] = disposal[t]
                                 /\ disposal'[t].object = i => disposal'[t] = disposal[t]
            BY <1>2, <2>3, DisposalStays
        <3>3. /\ IsQueued(i, "DOWN") \/ Disposing(i)
              /\ \A t \in Threads : disposal[t].object = i => Comes(i, t)
            BY <1>2, <2>1 DEF Unroots
        <3> QED
            BY <3>1, <3>2, <3>3 DEF Unroots, Comes, Disposing
    <2> QED
        BY <2>2, <2>3
<1>3. CASE JSStep
    <2>1. inst[i].disposed /\ inst[i].live /\ inst[i].wrapper = "root"
        <3>1. ~Marked(i) /\ ~Freed(i) /\ ~LosesObject(i) /\ ~Begins(i) /\ ~GainsToggle(i)
            <4>1. ~Free.live
                BY DEF Free
            <4>2. UNCHANGED gstate
                BY <1>3 DEF JSStep, Reuse, Associate, AddProperty, Forget, jsUnchanged
            <4>3. ~Marked(i)
                BY <4>2 DEF Marked, Dispose, TypeOK
            <4> QED
                BY <4>1, <4>3 DEF Freed, LosesObject, Begins, GainsToggle
        <3> QED
            BY <1>1, <3>1 DEF InstanceStep, Retained, SameInstance, Loosened, RootedBy,
                              LosesToggle
    <2>2. i \notin late
        <3>1. ASSUME NEW g \in GObjects, NEW k \in Insts, Associate(g, k)
              PROVE  i \notin late
            BY <2>1, <3>1 DEF Associate
        <3>2. CASE ~(\E g \in GObjects, k \in Insts : Associate(g, k))
            BY <1>3, <3>2 DEF JSStep, Reuse, AddProperty, Forget
        <3> QED
            BY <3>1, <3>2
    <2>3. UNCHANGED <<q, disposal>>
        BY <1>3 DEF JSStep, Reuse, Associate, AddProperty, Forget, jsUnchanged
    <2>4. /\ IsQueued(i, "DOWN") \/ Disposing(i)
          /\ \A t \in Threads : disposal[t].object = i => Comes(i, t)
        BY <2>1, <2>2 DEF Unroots
    <2> QED
        BY <2>3, <2>4 DEF Unroots, Comes, Disposing, IsQueued, AnythingQueued, Positions
<1>4. CASE Marked(i)
    BY <1>1, <1>4, NewlyDisposed
<1>5. ~RootedBy(i) /\ ~GainsToggle(i)
    BY DEF RootedBy, SameInstance, GainsToggle
<1>6. ~Begins(i) /\ ~LosesObject(i)
    BY DEF Begins, LosesObject
<1>7. ~Freed(i)
    <2>1. ~Free.disposed
        BY DEF Free
    <2> QED
        BY <2>1 DEF Freed
<1>8. Retained(i) \/ LosesToggle(i) =>
          inst[i].live /\ inst[i].disposed /\ inst[i].wrapper = "root"
    BY DEF Retained, SameInstance, LosesToggle, Loosened
<1> QED
    BY <1>1, <1>2, <1>3, <1>4, <1>5, <1>6, <1>7, <1>8 DEF InstanceStep

(* A wrapper whose object another thread disposes of while it is rooted is *)
(* unrooted all the same: the notification that gobj_dispose_notify()      *)
(* makes, after it has cancelled under a lock of its own, is neither       *)
(* annihilated by a toggle that was there before nor cancelled before it   *)
(* is handled, whatever the sweep, the destructors and the other threads   *)
(* do, without any order of GLib's notifications.  Exempt are instances    *)
(* that a notification came to after the toggle reference had gone.        *)
THEOREM DisposalUnroots == Spec => []DisposedGetsUnrooted
<1> DEFINE U == ~stopped => \A i \in Insts : Unroots(i)
<1>1. Init => U
    <2>1. ~Free.live
        BY DEF Free
    <2> QED
        BY <2>1 DEF Init, Unroots
<1>2. TypeOK /\ CurTaken /\ LeadsBack /\ DisposalsAreLive /\ DirectionsExclusive
        /\ DeadStaysUnrooted /\ LeftAreDead /\ AllTied /\ RootingInv /\ U /\ [Next]_vars => U'
    <2> SUFFICES ASSUME TypeOK, CurTaken, LeadsBack, DisposalsAreLive, DirectionsExclusive,
                        DeadStaysUnrooted, LeftAreDead, AllTied, RootingInv, U, [Next]_vars,
                        ~stopped', NEW i \in Insts
                 PROVE  Unroots(i)'
        OBVIOUS
    <2>1. ~stopped /\ ~destroying
        BY StoppedForGood DEF RootingInv
    <2> QED
        BY <2>1, NextUnroots
<1>3. U => DisposedGetsUnrooted
    BY DEF Unroots, DisposedGetsUnrooted
<1> HIDE DEF U
<1> QED
    BY <1>1, <1>2, <1>3, TypeCorrect, LeadsBackHolds, DisposalsHold, OppositesAnnihilate,
       LeftHolds, TiedHolds, RootingInvHolds, PTL DEF Spec

------------------------------
(* The end of the context.                                                 *)

(* m_destroying is set from prepare_shutdown() on, and what follows is the *)
(* last collection.                                                        *)
Ending ==
    /\ destroying <=> (pc \in {"prepare", "teardown", "done"} \/ why = "teardown")
    /\ destroying => pc \in {"prepare", "teardown", "done", "drain", "mark", "sweepstart",
                             "sweep", "disassociate", "finalize", "release", "cancel"}

LEMMA NextEnding == Ending /\ [Next]_vars => Ending'
<1> SUFFICES ASSUME Ending, [Next]_vars
             PROVE  Ending'
    OBVIOUS
<1>1. CASE GLibStep \/ JSStep \/ UNCHANGED vars \/ Over
    <2>1. UNCHANGED <<pc, why>>
        BY <1>1, OthersLeaveControl DEF Over
    <2>2. ~Destroy \/ destroying' = destroying
        BY <1>1, <2>1 DEF Destroy, Over, vars
    <2>3. destroying' = destroying
        BY <2>2, OnlyDestroy
    <2> QED
        BY <2>1, <2>3 DEF Ending
<1>2. CASE QueueStep
    BY <1>2 DEF QueueStep, DispatchIdle, DrainOne, DrainDangling, DrainEnd, IdleDestroyNotify,
                StartDrain, loopUnchanged, Ending
<1>3. CASE GCStep
    <2>1. CASE CollectNow \/ TriggerGC
        BY <2>1 DEF CollectNow, TriggerGC, StartDrain, gcUnchanged, Ending
    <2>2. CASE Mark \/ SweepStart \/ SweepEnd \/ Disassociate
        BY <2>2 DEF Mark, SweepStart, SweepEnd, Disassociate, gcUnchanged, Ending
    <2>3. CASE FinalizeRelease \/ FinalizeCancel \/ DisposalRaces
        BY <2>3 DEF FinalizeRelease, FinalizeCancel, DisposalRaces, gcUnchanged, Ending
    <2>4. CASE FinalizeEnd
        <3>1. /\ pc = "finalize" /\ UNCHANGED <<why, destroying>>
              /\ why = "final" => pc' = "destroy"
              /\ why = "teardown" => pc' = "done"
              /\ why \notin {"final", "teardown"} => pc' = "js"
            BY <2>4 DEF FinalizeEnd, loopUnchanged
        <3> QED
            BY <3>1 DEF Ending
    <2>5. ASSUME NEW i \in Insts, SweepOne(i) \/ FinalizeOne(i)
          PROVE  Ending'
        BY <2>5 DEF SweepOne, FinalizeOne, gcUnchanged, Ending
    <2> QED
        BY <1>3, <2>1, <2>2, <2>3, <2>4, <2>5 DEF GCStep
<1>4. CASE DisposeStep
    <2>1. CASE DisposeContext \/ Shutdown \/ ContextDisposeNotify \/ FinalGC
        BY <2>1 DEF DisposeContext, Shutdown, ContextDisposeNotify, FinalGC, StartDrain,
                    gcUnchanged, loopUnchanged, Ending
    <2>2. CASE Destroy
        BY <2>2 DEF Destroy, Ending
    <2>3. CASE PrepareEnd \/ DestroyContext \/ \E i \in Insts : PrepareOne(i)
        BY <2>3 DEF PrepareEnd, DestroyContext, PrepareOne, StartDrain, gcUnchanged, Ending
    <2> QED
        BY <1>4, <2>1, <2>2, <2>3 DEF DisposeStep
<1> QED
    BY <1>1, <1>2, <1>3, <1>4 DEF Next

(* prepare_shutdown() leaves no wrapper rooted, and nothing roots one any  *)
(* more.                                                                   *)
NoneRooted ==
    destroying => \A i \in Insts : inst[i].wrapper = "root" => pc = "prepare" /\ i \in todo

LEMMA NextNoneRooted ==
    ASSUME TypeOK, CurTaken, StoppedIsEmpty, destroying => stopped, AllTied, Ending, NoneRooted,
           [Next]_vars
    PROVE  NoneRooted'
<1> SUFFICES ASSUME destroying', NEW i \in Insts, inst'[i].wrapper = "root"
             PROVE  pc' = "prepare" /\ i \in todo'
    BY DEF NoneRooted
<1>1. CASE Destroy
    BY <1>1 DEF Destroy, AllTied, Tied
<1>2. CASE ~Destroy
    <2>1. destroying
        BY <1>2, OnlyDestroy
    <2>2. InstanceStep(i)
        BY EveryInstanceStep
    <2>3. inst[i].wrapper = "root"
        <3>1. ~RootedBy(i)
            BY <2>1 DEF RootedBy, StoppedIsEmpty
        <3>2. ~GainsToggle(i) /\ ~Begins(i)
            BY <2>1 DEF GainsToggle, Begins, Ending
        <3>3. ~LosesObject(i) /\ ~Freed(i)
            <4>1. Free.wrapper = "null"
                BY DEF Free
            <4> QED
                BY <4>1 DEF LosesObject, Freed
        <3>4. Loosened(i)
            BY <2>2, <3>1, <3>2, <3>3 DEF InstanceStep, Retained, Marked, LosesToggle
        <3> QED
            BY <3>4 DEF Loosened
    <2>4. pc = "prepare" /\ i \in todo
        BY <2>1, <2>3 DEF NoneRooted
    <2>5. ASSUME NEW j \in Insts, PrepareOne(j)
          PROVE  pc' = "prepare" /\ i \in todo'
        <3>1. inst' = [inst EXCEPT ![j] = Unlinked(Lost(@))]
            BY <2>5 DEF PrepareOne
        <3>2. i # j
            BY <3>1, ReleasedStep DEF LosesObject
        <3> QED
            BY <2>4, <2>5, <3>2 DEF PrepareOne
    <2>6. CASE UNCHANGED <<pc, todo>>
        BY <2>4, <2>6
    <2>7. UNCHANGED <<pc, todo>> \/ \E j \in Insts : PrepareOne(j)
        BY <2>4, OthersLeaveControl
        DEF Next, Over, vars, QueueStep, DispatchIdle, DrainOne, DrainDangling, DrainEnd,
            IdleDestroyNotify, GCStep, DisposalRaces, CollectNow, TriggerGC, Mark, SweepStart,
            SweepEnd, FinalizeEnd, Disassociate,
            FinalizeRelease, FinalizeCancel, SweepOne, FinalizeOne, DisposeStep, DisposeContext,
            Shutdown, ContextDisposeNotify, FinalGC, Destroy, PrepareEnd, DestroyContext
    <2> QED
        BY <2>5, <2>6, <2>7
<1> QED
    BY <1>1, <1>2

(* An object that nobody holds has been finalized.                         *)
Unheld == \A g \in GObjects : owners[g] = {} /\ Holders(g) = {} => gstate[g] = "finalized"

LEMMA KeptUnheld ==
    ASSUME Unheld, UNCHANGED <<owners, gstate>>,
           \A i \in Insts : inst[i].live /\ inst[i].ptr # NoObj =>
               inst'[i].live /\ inst'[i].ptr = inst[i].ptr
    PROVE  Unheld'
BY ConstantsAssumption DEF Unheld, Holders

(* g_object_unref() of the last reference.                                 *)
LEMMA ReleasedUnheld ==
    ASSUME TypeOK, Unheld, NEW c \in Insts, gstate' = Released(c), UNCHANGED owners,
           \A i \in Insts : i # c => inst'[i] = inst[i]
    PROVE  Unheld'
<1> SUFFICES ASSUME NEW g \in GObjects, owners[g] = {}, Holders(g)' = {}
             PROVE  gstate'[g] = "finalized"
    BY DEF Unheld
<1>1. Holders(g) \subseteq {c}
    BY DEF Holders
<1>2. CASE Holders(g) = {}
    <2>1. gstate[g] = "finalized"
        BY <1>2 DEF Unheld
    <2> QED
        BY <2>1 DEF Released, TypeOK
<1>3. CASE Holders(g) = {c}
    <2>1. inst[c].ptr = g
        BY <1>3 DEF Holders
    <2>2. Finalizes(c)
        BY <1>3, <2>1 DEF Finalizes
    <2> QED
        BY <2>1, <2>2 DEF Released, TypeOK
<1> QED
    BY <1>1, <1>2, <1>3

LEMMA NextUnheld ==
    ASSUME TypeOK, CurTaken, LeadsBack, Unheld, [Next]_vars
    PROVE  Unheld'
<1>0. inst \in [Insts -> Instance] /\ owners \in [GObjects -> SUBSET Threads]
    BY DEF TypeOK
<1>1. CASE GLibStep
    <2>1. \A i \in Insts : inst'[i].live = inst[i].live /\ inst'[i].ptr = inst[i].ptr
        BY <1>1, GLibKeeps
    <2>2. \A g \in GObjects : Holders(g)' = Holders(g)
        BY <2>1 DEF Holders
    <2>3. CASE LeaveRef \/ \E t \in Threads : Deliver(t) \/ DisposalStep(t)
        <3>1. UNCHANGED <<owners, gstate>>
            BY <2>3 DEF LeaveRef, Deliver, DisposalStep, DisposeCancels, DisposeNotifies,
                        DisposeReturns, disposalUnchanged
        <3> QED
            BY <2>1, <3>1, KeptUnheld
    <2>4. ASSUME NEW t \in Threads, NEW g \in GObjects, Ref(t, g)
          PROVE  Unheld'
        BY <1>0, <2>2, <2>4 DEF Ref, Unheld
    <2>5. ASSUME NEW t \in Threads, NEW g \in GObjects, Unref(t, g)
          PROVE  Unheld'
        <3> SUFFICES ASSUME NEW h \in GObjects, owners'[h] = {}, Holders(h)' = {}
                     PROVE  gstate'[h] = "finalized"
            BY DEF Unheld
        <3>1. CASE h # g
            BY <1>0, <2>2, <2>5, <3>1 DEF Unref, Unheld, TypeOK
        <3>2. CASE h = g
            BY <1>0, <2>2, <2>5, <3>2 DEF Unref, TypeOK
        <3> QED
            BY <3>1, <3>2
    <2>6. ASSUME NEW t \in Threads, NEW g \in GObjects, Dispose(t, g)
          PROVE  Unheld'
        <3>1. owners[g] # {} /\ owners' = owners /\ gstate' = [gstate EXCEPT ![g] = "disposed"]
            BY <2>6 DEF Dispose
        <3> QED
            BY <2>2, <3>1 DEF Unheld, TypeOK
    <2> QED
        BY <1>1, <2>3, <2>4, <2>5, <2>6 DEF GLibStep
<1>2. CASE JSStep
    <2>1. ASSUME NEW i \in Insts, inst[i].live, inst[i].ptr # NoObj
          PROVE  inst'[i].live /\ inst'[i].ptr = inst[i].ptr
        <3>1. ASSUME NEW g \in GObjects, Reuse(g)
              PROVE  inst'[i].live /\ inst'[i].ptr = inst[i].ptr
            <4>1. PICK k \in Insts : k = qdata[g]
                BY <3>1 DEF Reuse, TypeOK
            <4>2. inst' = [inst EXCEPT ![k] = [inst[k] EXCEPT !.reach = TRUE]]
                BY <3>1, <4>1 DEF Reuse
            <4> QED
                BY <1>0, <2>1, <4>2 DEF Instance
        <3>2. ASSUME NEW g \in GObjects, NEW k \in Insts, Associate(g, k)
              PROVE  inst'[i].live /\ inst'[i].ptr = inst[i].ptr
            <4>1. inst'[i] = inst[i]
                BY <1>0, <2>1, <3>2 DEF Associate
            <4> QED
                BY <2>1, <4>1
        <3>3. ASSUME NEW k \in Insts, AddProperty(k)
              PROVE  inst'[i].live /\ inst'[i].ptr = inst[i].ptr
            BY <1>0, <2>1, <3>3 DEF AddProperty, Instance
        <3>4. ASSUME NEW k \in Insts, Forget(k)
              PROVE  inst'[i].live /\ inst'[i].ptr = inst[i].ptr
            BY <1>0, <2>1, <3>4 DEF Forget, Instance
        <3> QED
            BY <1>2, <3>1, <3>2, <3>3, <3>4 DEF JSStep
    <2>2. UNCHANGED <<owners, gstate>>
        BY <1>2 DEF JSStep, Reuse, Associate, AddProperty, Forget, jsUnchanged
    <2> QED
        BY <2>1, <2>2, KeptUnheld
<1>3. CASE QueueStep
    <2>1. ASSUME NEW i \in Insts
          PROVE  inst'[i].live = inst[i].live /\ inst'[i].ptr = inst[i].ptr
        <3>1. CASE DrainOne
            <4>1. Head(q) \in Item /\ Handled(Head(q))
                BY <3>1, HeadTailProperties DEF DrainOne, TypeOK, QueueTypeOK
            <4> QED
                BY <4>1, HandledKeeps
        <3>2. CASE DispatchIdle \/ DrainDangling \/ DrainEnd \/ IdleDestroyNotify
            BY <3>2 DEF DispatchIdle, DrainDangling, DrainEnd, IdleDestroyNotify
        <3> QED
            BY <1>3, <3>1, <3>2 DEF QueueStep
    <2>2. UNCHANGED <<owners, gstate>>
        BY <1>3 DEF QueueStep, DispatchIdle, DrainOne, DrainDangling, DrainEnd,
                    IdleDestroyNotify, loopUnchanged
    <2> QED
        BY <2>1, <2>2, KeptUnheld
<1>4. CASE GCStep
    <2>1. CASE \/ CollectNow \/ TriggerGC \/ SweepStart \/ SweepEnd \/ FinalizeEnd
               \/ DisposalRaces
        BY <2>1, KeptUnheld DEF CollectNow, TriggerGC, SweepStart, SweepEnd, FinalizeEnd,
                                DisposalRaces, gcUnchanged, loopUnchanged
    <2>2. CASE Mark
        <3>1. \A i \in Insts : inst'[i].live = inst[i].live /\ inst'[i].ptr = inst[i].ptr
            BY <1>0, <2>2 DEF Mark, Instance
        <3> QED
            BY <2>2, <3>1, KeptUnheld DEF Mark, gcUnchanged
    <2>3. CASE Disassociate
        <3>1. PICK c \in Insts : c = cur
            BY <2>3 DEF Disassociate, CurTaken
        <3>2. inst' = [inst EXCEPT ![c] = Unlinked(Lost(@))] /\ gstate' = Released(c)
              /\ UNCHANGED owners
            BY <2>3, <3>1 DEF Disassociate, gcUnchanged
        <3> QED
            BY <1>0, <3>2, ReleasedUnheld
    <2>4. CASE FinalizeRelease
        <3>1. PICK c \in Insts : c = cur
            BY <2>4 DEF FinalizeRelease, CurTaken
        <3>2. inst' = [inst EXCEPT ![c] = Lost(@)] /\ gstate' = Released(c) /\ UNCHANGED owners
            BY <2>4, <3>1 DEF FinalizeRelease, gcUnchanged
        <3> QED
            BY <1>0, <3>2, ReleasedUnheld
    <2>5. CASE FinalizeCancel
        <3>1. inst[cur].ptr = NoObj
            BY <2>5 DEF FinalizeCancel, LeadsBack
        <3>2. \A i \in Insts : i # cur => inst'[i] = inst[i]
            BY <1>0, <2>5 DEF FinalizeCancel
        <3> QED
            BY <2>5, <3>1, <3>2, KeptUnheld DEF FinalizeCancel, gcUnchanged
    <2>6. ASSUME NEW i \in Insts, SweepOne(i) \/ FinalizeOne(i)
          PROVE  Unheld'
        <3>1. \A j \in Insts : inst[j].ptr # NoObj => inst'[j] = inst[j]
            BY <1>0, <2>6 DEF SweepOne, FinalizeOne
        <3> QED
            BY <2>6, <3>1, KeptUnheld DEF SweepOne, FinalizeOne, gcUnchanged
    <2> QED
        BY <1>4, <2>1, <2>2, <2>3, <2>4, <2>5, <2>6 DEF GCStep
<1>5. CASE DisposeStep
    <2>1. CASE DisposeContext \/ Shutdown \/ FinalGC \/ Destroy \/ PrepareEnd \/ DestroyContext
        BY <2>1, KeptUnheld DEF DisposeContext, Shutdown, FinalGC, Destroy, PrepareEnd,
                                DestroyContext, gcUnchanged, loopUnchanged
    <2>2. CASE ContextDisposeNotify
        <3>1. \A i \in Insts : inst'[i].live = inst[i].live /\ inst'[i].ptr = inst[i].ptr
            BY <1>0, <2>2 DEF ContextDisposeNotify, Instance
        <3> QED
            BY <2>2, <3>1, KeptUnheld DEF ContextDisposeNotify, gcUnchanged
    <2>3. ASSUME NEW i \in Insts, PrepareOne(i)
          PROVE  Unheld'
        BY <1>0, <2>3, ReleasedUnheld DEF PrepareOne, gcUnchanged
    <2> QED
        BY <1>5, <2>1, <2>2, <2>3 DEF DisposeStep
<1>6. CASE UNCHANGED vars \/ Over
    BY <1>6, KeptUnheld DEF vars, Over
<1> QED
    BY <1>1, <1>2, <1>3, <1>4, <1>5, <1>6 DEF Next

(* JS_DestroyContext() collects every instance that is left.               *)
LastDead ==
    /\ why = "teardown" /\ pc \in {"sweepstart", "sweep", "disassociate", "finalize", "release",
                                   "cancel"}
       => \A i \in Insts : inst[i].live => inst[i].dead
    /\ pc = "done" => \A i \in Insts : ~inst[i].live

LEMMA NextLastDead ==
    ASSUME TypeOK, CurTaken, DeadAreLeft, Ending, NoneRooted, LastDead, [Next]_vars
    PROVE  LastDead'
<1>0. inst \in [Insts -> Instance]
    BY DEF TypeOK
<1>1. CASE GLibStep
    <2>1. \A i \in Insts : inst'[i].live = inst[i].live /\ inst'[i].dead = inst[i].dead
        BY <1>1, GLibKeeps, GLibKeepsDead
    <2> QED
        BY <1>1, <2>1, OthersLeaveControl DEF LastDead
<1>2. CASE UNCHANGED vars \/ Over
    BY <1>2 DEF vars, Over, LastDead
<1>3. CASE JSStep
    <2>1. pc' = "js"
        BY <1>3 DEF JSStep, Reuse, Associate, AddProperty, Forget, JSRuns, jsUnchanged
    <2> QED
        BY <2>1 DEF LastDead
<1>4. CASE QueueStep
    <2>1. pc' \notin {"sweepstart", "sweep", "disassociate", "finalize", "release", "cancel",
                      "done"}
        BY <1>4 DEF QueueStep, DispatchIdle, DrainOne, DrainDangling, DrainEnd,
                    IdleDestroyNotify, StartDrain
    <2> QED
        BY <2>1 DEF LastDead
<1>5. CASE GCStep
    <2>1. CASE CollectNow \/ TriggerGC
        <3>1. pc' \in {"js", "drain"}
            BY <2>1 DEF CollectNow, TriggerGC, StartDrain
        <3> QED
            BY <3>1 DEF LastDead
    <2>2. CASE Mark
        <3>1. pc' = "sweepstart" /\ why' = why /\ pc = "mark"
            BY <2>2 DEF Mark
        <3>2. ASSUME why = "teardown", NEW i \in Insts, inst'[i].live
              PROVE  inst'[i].dead
            <4>1. inst[i].wrapper # "root"
                BY <3>1, <3>2 DEF Ending, NoneRooted
            <4> DEFINE b == /\ inst[i].live /\ inst[i].wrapper # "root"
                            /\ inst[i].reach => why = "teardown"
            <4>2. inst'[i] = [inst[i] EXCEPT !.dead = b]
                BY <2>2 DEF Mark
            <4>3. inst[i].live => b
                BY <3>2, <4>1
            <4> HIDE DEF b
            <4>4. inst'[i].live = inst[i].live /\ inst'[i].dead = b
                BY <1>0, <4>2 DEF Instance
            <4> QED
                BY <3>2, <4>3, <4>4
        <3> QED
            BY <3>1, <3>2 DEF LastDead
    <2>3. CASE SweepStart \/ SweepEnd \/ DisposalRaces
        BY <2>3 DEF SweepStart, SweepEnd, DisposalRaces, LastDead
    <2>4. CASE FinalizeEnd
        <3>1. pc = "finalize" /\ todo = {} /\ UNCHANGED <<inst, why>>
            BY <2>4 DEF FinalizeEnd
        <3>2. \A i \in Insts : ~inst[i].dead
            BY <3>1, ConstantsAssumption DEF DeadAreLeft, CurTaken
        <3>3. pc' = "done" => why = "teardown"
            BY <2>4 DEF FinalizeEnd
        <3>4. pc' \in {"destroy", "done", "js"}
            BY <2>4 DEF FinalizeEnd
        <3> QED
            BY <3>1, <3>2, <3>3, <3>4 DEF LastDead
    <2>5. ASSUME UNCHANGED why, pc' # "done",
                 pc \in {"sweepstart", "sweep", "disassociate", "finalize", "release", "cancel"},
                 \A i \in Insts : \/ inst'[i].live = inst[i].live /\ inst'[i].dead = inst[i].dead
                                  \/ ~inst'[i].live
          PROVE  LastDead'
        BY <2>5 DEF LastDead
    <2>6. \A r \in Instance : /\ Lost(r).live = r.live /\ Lost(r).dead = r.dead
                              /\ Unlinked(Lost(r)).live = r.live
                              /\ Unlinked(Lost(r)).dead = r.dead
        BY DEF Lost, Unlinked, Instance
    <2>7. CASE Disassociate
        <3>1. PICK c \in Insts : c = cur
            BY <2>7 DEF Disassociate, CurTaken
        <3>2. inst' = [inst EXCEPT ![c] = Unlinked(Lost(inst[c]))]
            BY <2>7, <3>1 DEF Disassociate
        <3>3. \A i \in Insts : inst'[i].live = inst[i].live /\ inst'[i].dead = inst[i].dead
            BY <1>0, <2>6, <3>2
        <3> QED
            BY <2>5, <2>7, <3>3 DEF Disassociate
    <2>8. CASE FinalizeRelease
        <3>1. PICK c \in Insts : c = cur
            BY <2>8 DEF FinalizeRelease, CurTaken
        <3>2. inst' = [inst EXCEPT ![c] = Lost(inst[c])]
            BY <2>8, <3>1 DEF FinalizeRelease
        <3>3. \A i \in Insts : inst'[i].live = inst[i].live /\ inst'[i].dead = inst[i].dead
            BY <1>0, <2>6, <3>2
        <3> QED
            BY <2>5, <2>8, <3>3 DEF FinalizeRelease
    <2>9. ~Free.live
        BY DEF Free
    <2>10. CASE FinalizeCancel
        <3>1. \A i \in Insts : inst'[i] = Free \/ inst'[i] = inst[i]
            BY <1>0, <2>10 DEF FinalizeCancel
        <3>2. \A i \in Insts : \/ inst'[i].live = inst[i].live /\ inst'[i].dead = inst[i].dead
                               \/ ~inst'[i].live
            BY <2>9, <3>1
        <3> QED
            BY <2>5, <2>10, <3>2 DEF FinalizeCancel
    <2>11. ASSUME NEW j \in Insts, SweepOne(j) \/ FinalizeOne(j)
           PROVE  LastDead'
        <3>1. \A i \in Insts : inst'[i] = Free \/ inst'[i] = inst[i]
            BY <1>0, <2>11 DEF SweepOne, FinalizeOne
        <3>2. \A i \in Insts : \/ inst'[i].live = inst[i].live /\ inst'[i].dead = inst[i].dead
                               \/ ~inst'[i].live
            BY <2>9, <3>1
        <3>3. UNCHANGED why /\ pc \in {"sweep", "finalize"}
              /\ pc' \in {"sweep", "disassociate", "finalize", "release"}
            BY <2>11 DEF SweepOne, FinalizeOne
        <3> QED
            BY <2>5, <3>2, <3>3
    <2> QED
        BY <1>5, <2>1, <2>2, <2>3, <2>4, <2>7, <2>8, <2>10, <2>11 DEF GCStep
<1>6. CASE DisposeStep
    <2>1. pc' \notin {"sweepstart", "sweep", "disassociate", "finalize", "release", "cancel",
                      "done"}
        BY <1>6 DEF DisposeStep, DisposeContext, Shutdown, ContextDisposeNotify, FinalGC,
                    Destroy,
                    PrepareEnd, DestroyContext, PrepareOne, StartDrain
    <2> QED
        BY <2>1 DEF LastDead
<1> QED
    BY <1>1, <1>2, <1>3, <1>4, <1>5, <1>6 DEF Next

(* When the context is gone no ObjectInstance is left, and every GObject   *)
(* that only a wrapper held has been finalized: prepare_shutdown()         *)
(* releases what is still rooted, the final collection everything else,    *)
(* and no toggle roots a wrapper between the two.                          *)
THEOREM NothingOutlivesContext == Spec => []AllReleasedAtEnd
<1>1. Init => Ending /\ NoneRooted /\ LastDead /\ Unheld
    <2>1. Init => Unheld
        BY ConstantsAssumption DEF Init, Unheld
    <2> QED
        BY <2>1 DEF Init, Ending, NoneRooted, LastDead
<1>2. TypeOK /\ CurTaken /\ LeadsBack /\ StoppedIsEmpty /\ RootingInv /\ AllTied /\ DeadAreLeft
        /\ Ending /\ NoneRooted /\ LastDead /\ Unheld /\ [Next]_vars
        => Ending' /\ NoneRooted' /\ LastDead' /\ Unheld'
    <2> SUFFICES ASSUME TypeOK, CurTaken, LeadsBack, StoppedIsEmpty, RootingInv, AllTied,
                        DeadAreLeft, Ending, NoneRooted, LastDead, Unheld, [Next]_vars
                 PROVE  Ending' /\ NoneRooted' /\ LastDead' /\ Unheld'
        OBVIOUS
    <2>1. destroying => stopped
        BY DEF RootingInv
    <2> QED
        BY <2>1, NextEnding, NextNoneRooted, NextLastDead, NextUnheld
<1>3. LastDead /\ Unheld => AllReleasedAtEnd
    BY DEF LastDead, Unheld, AllReleasedAtEnd, Holders
<1> QED
    BY <1>1, <1>2, <1>3, TypeCorrect, LeadsBackHolds, AliveHolds, RootingInvHolds, TiedHolds,
       LeftHolds, PTL DEF Spec
------------------------------
(* Invocation: what holds of the calls under way, and of each closure.       *)

(* Argument j of frame f is converted and not released.                     *)
Pending(f, j) == j <= f.done /\ (f.phase = "release" => f.pos <= j)

(* A call back has no arguments; a call of C has those of its function, and *)
(* has converted as many as its phase says.  It holds a closure once.       *)
FrameInv(f) ==
    /\ f.phase = "run" =>
         f.fn = NoFunction /\ f.runs \in Closures /\ f.args = << >> /\ f.this = NoObject
    /\ f.phase # "run" =>
         /\ f.fn \in Functions /\ f.runs = NoClosure
         /\ DOMAIN f.args = DOMAIN Signature[f.fn]
         /\ 1 <= f.pos /\ f.done <= Len(f.args)
         /\ f.phase = "in" => f.pos = f.done + 1
         /\ f.phase = "c" => f.done = Len(f.args)
    /\ \A j, l \in DOMAIN f.args :
         f.args[j] \in Closures /\ f.args[j] = f.args[l] => j = l

(* What is pending is of its kind, what is not has been given back; data    *)
(* that C took or gjs freed says how the call went.                         *)
ArgInv(f, j) ==
    /\ Pending(f, j) =>
         /\ Signature[f.fn][j] = "full" => f.args[j] \in {"ours", "theirs"}
         /\ Signature[f.fn][j] = "boxed" => f.args[j] \in Closures
         /\ Signature[f.fn][j] \in TrampolineKinds => f.args[j] \in Closures \cup {"unset"}
    /\ ~Pending(f, j) => f.args[j] # "ours" /\ f.args[j] \notin Closures
    /\ j > f.done => f.args[j] = "unset"
    /\ f.args[j] = "lost" => f.failed /\ f.phase = "release"
    /\ f.args[j] = "theirs" => ~f.threw /\ f.phase = "release"
    /\ f.args[j] = "ours" /\ f.phase = "release" => f.failed \/ f.threw

(* What holds of each call by itself.                                       *)
GoodFrame(f) == FrameInv(f) /\ \A j \in DOMAIN f.args : ArgInv(f, j)

StackInv == \A i \in DOMAIN stack : GoodFrame(stack[i])

(* The wrapper that a call has as this exists.                              *)
ThisInv == \A i \in DOMAIN stack : stack[i].this \in wrappers \cup {NoObject}

(* No two calls hold the same closure.                                      *)
ApartInv ==
    \A i, k \in DOMAIN stack :
        i # k => ClosureArgs(stack[i]) \cap ClosureArgs(stack[k]) = {}

(* A closure argument was made for that argument.                           *)
KindsMatch(f, R) ==
    \A j \in DOMAIN f.args : f.args[j] \in Closures => R[f.args[j]].kind = Signature[f.fn][j]

KindsInv == \A i \in DOMAIN stack : KindsMatch(stack[i], closure)

(* Who may hold a closure of which kind.                                    *)
HolderInv(c) ==
    /\ c \in handles => closure[c].kind \in {"notified", "boxed", "signal"}
    /\ c \in extras \cup asyncs => closure[c].kind = "async"
    /\ c \in forever => closure[c].kind \in {"undying", "forever"}
    /\ c \notin extras \cap asyncs
    /\ c \in nested => closure[c].kind \in TrampolineKinds

(* The reference that outlives the call is there.                           *)
Outlives(c) ==
    /\ closure[c].kind = "notified" => c \in handles
    /\ closure[c].kind = "async" => c \in extras
    /\ closure[c].kind \in {"undying", "forever"} => c \in forever

(* A call that C is in has passed c.                                        *)
InC(c) == \E i \in DOMAIN stack : stack[i].phase = "c" /\ c \in ClosureArgs(stack[i])

(* What C may call: who sees to it that it has not been freed, by kind.     *)
ExposedInv(c) ==
    context # "gone" /\ c \in exposed =>
        /\ closure[c].kind # "unused" /\ Outlives(c)
        /\ closure[c].kind = "signal" => c \in handles
        /\ closure[c].kind = "call" => InC(c)
        /\ closure[c].kind = "boxed" => c \in handles \/ InC(c)
        /\ closure[c].kind = "async" => Runs(c) = {}

(* A call that is converting its arguments has made c.                      *)
InNew(c) == \E i \in DOMAIN stack : stack[i].phase = "in" /\ c \in ClosureArgs(stack[i])

(* Of a new closure C knows nothing yet.                                    *)
NewInv(c) == InNew(c) => c \notin exposed /\ Runs(c) = {} /\ Outlives(c)

(* An async closure runs once, and keeps its extra reference till it ends.  *)
AsyncInv(c) ==
    closure[c].kind = "async" /\ Runs(c) # {} =>
        c \in extras /\ c \notin exposed /\ \A i, k \in Runs(c) : i = k

(* Rooted with an entry in the set that is still to be visited, or traced   *)
(* from a wrapper, or without a function.                                   *)
RecordInv(r, visited, W) ==
    /\ r.callable = "rooted" <=> r.registered /\ ~visited
    /\ r.callable = "traced" => r.object \in W
    /\ r.callable # "none" => r.refs > 0
    /\ visited => r.registered /\ r.callable = "none"
    /\ r.object # NoObject => r.callable = "traced"
    /\ r.kind = "unused" => r = UnusedClosure

KeptInv == \A c \in Closures : RecordInv(closure[c], c \in notified, wrappers)

(* The context ends on an empty stack.                                      *)
ContextInv ==
    /\ context # "alive" => stack = << >>
    /\ context = "alive" => notified = {}
    /\ context = "gone" => asyncs = {}

(* The closure that a call holds as its argument j.                         *)
Own(f, j) == IF f.args[j] \in Closures THEN f.args[j] ELSE NoClosure

(* release() finds in the cache the closure that the call has made, unless  *)
(* it was made by a function called within itself, and so is what it finds. *)
CacheMatches(f, K, N) ==
    \A j \in DOMAIN f.args :
        Pending(f, j) /\ Signature[f.fn][j] \in TrampolineKinds =>
            \/ K[f.fn][j] = Own(f, j)
            \/ {K[f.fn][j], Own(f, j)} \subseteq N \cup {NoClosure}

CacheInv == \A i \in DOMAIN stack : CacheMatches(stack[i], cache, nested)

(* The closures that a call has made for callback arguments.                *)
Callbacks(f) ==
    {c \in Closures : \E j \in DOMAIN f.args :
        f.args[j] = c /\ Signature[f.fn][j] \in TrampolineKinds}

(* What two calls of one function hold at a time is in nested.              *)
OverlapInv ==
    \A i, k \in DOMAIN stack :
        i # k /\ stack[i].fn \in Functions /\ stack[i].fn = stack[k].fn =>
            Callbacks(stack[i]) \subseteq nested

OwnInv(c) == HolderInv(c) /\ ExposedInv(c) /\ NewInv(c) /\ AsyncInv(c)

OwnersInv == \A c \in Closures : OwnInv(c)

(* A call that releases its arguments is on top of the stack.               *)
ReleaseInv == \A i \in DOMAIN stack : i # Len(stack) => stack[i].phase # "release"

CallInv == /\ CallTypeOK /\ StackInv /\ ThisInv /\ ApartInv /\ KindsInv /\ ContextInv
           /\ CacheInv /\ OverlapInv /\ ReleaseInv /\ OwnersInv /\ KeptInv /\ RefsAccounted
           /\ ContextLeavesNothing

------------------------------
(* Dropping references: the record that is left.                            *)
LEMMA UnreffedRecord ==
    ASSUME NEW r \in ClosureRecord, NEW n \in Nat
    PROVE  /\ Unreffed(r, n) \in ClosureRecord
           /\ Unreffed(r, n).refs = r.refs - n
           /\ Unreffed(r, n).kind = r.kind
           /\ n = 0 => Unreffed(r, n) = r
<1> DEFINE i == IF n > 0 /\ r.refs <= n THEN Invalidated(r) ELSE r
<1>1. i \in ClosureRecord /\ i.refs = r.refs /\ i.kind = r.kind
    BY DEF ClosureRecord, Invalidated
<1>2. Unreffed(r, n) = [i EXCEPT !.refs = r.refs - n]
    BY <1>1 DEF Unreffed, ClosureRecord
<1>3. n = 0 => i = r /\ r.refs - n = r.refs
    BY DEF ClosureRecord
<1> HIDE DEF i
<1>4. r.refs \in Int /\ r.refs - n \in Int
    BY DEF ClosureRecord
<1> QED
    BY <1>1, <1>2, <1>3, <1>4 DEF ClosureRecord

LEMMA UnreffedKept ==
    ASSUME NEW r \in ClosureRecord, NEW n \in Nat, n > 0 => r.kind # "unused",
           NEW v \in BOOLEAN, NEW W \in SUBSET Objects, RecordInv(r, v, W)
    PROVE  RecordInv(Unreffed(r, n), v, W)
<1>1. CASE n = 0
    BY <1>1, UnreffedRecord
<1>2. CASE n # 0 /\ r.refs <= n
    <2>1. r.kind # "unused" /\ n > 0
        BY <1>2
    <2> QED
        BY <1>2, <2>1, ClosureAssumption DEF RecordInv, ClosureRecord, Unreffed, Invalidated
<1>3. CASE n # 0 /\ ~(r.refs <= n)
    <2>1. r.kind # "unused" /\ r.refs - n > 0
        BY <1>3 DEF ClosureRecord
    <2> QED
        BY <1>3, <2>1, ClosureAssumption DEF RecordInv, ClosureRecord, Unreffed
<1> QED
    BY <1>1, <1>2, <1>3 DEF ClosureRecord

LEMMA InvalidatedKept ==
    ASSUME NEW r \in ClosureRecord, NEW v \in BOOLEAN, NEW W \in SUBSET Objects,
           NEW dead \in SUBSET Objects, RecordInv(r, v, W)
    PROVE  LET u == IF r.object \in dead THEN Invalidated(r) ELSE r IN
           /\ u \in ClosureRecord
           /\ u.refs = r.refs
           /\ u.kind = r.kind
           /\ RecordInv(u, v, W \ dead)
<1>1. CASE r.object \in dead
    <2>1. r.callable = "traced" /\ r.kind # "unused"
        BY <1>1, ClosureAssumption DEF RecordInv, UnusedClosure
    <2> QED
        BY <1>1, <2>1, ClosureAssumption DEF RecordInv, ClosureRecord, Invalidated
<1>2. CASE r.object \notin dead
    BY <1>2 DEF RecordInv
<1> QED
    BY <1>1, <1>2

(* The stack and its top.                                                   *)
LEMMA StackTop ==
    ASSUME CallTypeOK
    PROVE  /\ Len(stack) \in Nat
           /\ DOMAIN stack = 1..Len(stack)
           /\ \A i \in DOMAIN stack : stack[i] \in Frame
           /\ stack # << >> => Len(stack) \in DOMAIN stack /\ Top \in Frame
BY LenProperties, EmptySeq DEF CallTypeOK, Top

LEMMA TopReplaced ==
    ASSUME CallTypeOK, stack # << >>, NEW f \in Frame, SetTop(f)
    PROVE  /\ stack' \in Seq(Frame)
           /\ Len(stack') = Len(stack)
           /\ DOMAIN stack' = DOMAIN stack
           /\ stack'[Len(stack)] = f
           /\ \A i \in DOMAIN stack : i # Len(stack) => stack'[i] = stack[i]
<1>1. /\ Len(stack) \in Nat /\ DOMAIN stack = 1..Len(stack) /\ Len(stack) \in DOMAIN stack
      /\ \A i \in DOMAIN stack : stack[i] \in Frame
    BY StackTop
<1>2. stack' \in [1..Len(stack) -> Frame]
    BY <1>1 DEF SetTop, CallTypeOK
<1>3. stack' \in Seq(Frame) /\ Len(stack') = Len(stack)
    BY <1>1, <1>2, SameLength
<1> QED
    BY <1>1, <1>2, <1>3 DEF SetTop

LEMMA FramePushed ==
    ASSUME CallTypeOK, NEW f \in Frame, stack' = Append(stack, f)
    PROVE  /\ stack' \in Seq(Frame)
           /\ Len(stack') = Len(stack) + 1
           /\ DOMAIN stack' = DOMAIN stack \cup {Len(stack) + 1}
           /\ Len(stack) + 1 \notin DOMAIN stack
           /\ stack'[Len(stack) + 1] = f
           /\ \A i \in DOMAIN stack : stack'[i] = stack[i]
<1>1. /\ stack' \in Seq(Frame) /\ Len(stack) \in Nat /\ Len(stack') = Len(stack) + 1
      /\ \A i \in 1..Len(stack) : stack'[i] = stack[i]
      /\ stack'[Len(stack) + 1] = f
    BY Pushed DEF CallTypeOK
<1>2. DOMAIN stack' = 1..(Len(stack) + 1) /\ DOMAIN stack = 1..Len(stack)
    BY <1>1, StackTop, LenProperties
<1> QED
    BY <1>1, <1>2

LEMMA FramePopped ==
    ASSUME CallTypeOK, stack # << >>, Pop
    PROVE  /\ stack' \in Seq(Frame)
           /\ DOMAIN stack' = DOMAIN stack \ {Len(stack)}
           /\ \A i \in DOMAIN stack' : stack'[i] = stack[i]
<1>1. Len(stack) \in Nat /\ Len(stack) >= 1 /\ DOMAIN stack = 1..Len(stack)
    BY StackTop
<1>2. /\ stack' \in Seq(Frame) /\ Len(stack') = Len(stack) - 1
      /\ \A i \in 1..Len(stack) - 1 : stack'[i] = stack[i]
    BY <1>1, SubSeqProperties DEF Pop, CallTypeOK
<1>3. DOMAIN stack' = 1..(Len(stack) - 1)
    BY <1>1, <1>2, LenProperties
<1> QED
    BY <1>1, <1>2, <1>3

------------------------------
(* The calls of a closure that are under way, counted.                      *)
LEMMA RunsCounted ==
    ASSUME CallTypeOK, NEW c \in Closures
    PROVE  /\ IsFiniteSet(Runs(c))
           /\ Cardinality(Runs(c)) \in Nat
           /\ Cardinality(Runs(c)) = 0 <=> Runs(c) = {}
<1>1. Len(stack) \in Nat /\ Runs(c) \in SUBSET (1..Len(stack))
    BY StackTop DEF Runs
<1> QED
    BY <1>1, PositionsFinite, FS_EmptySet

LEMMA RunsPushed ==
    ASSUME CallTypeOK, NEW f \in Frame, stack' = Append(stack, f), NEW c \in Closures
    PROVE  /\ c = f.runs => Cardinality(Runs(c)') = Cardinality(Runs(c)) + 1
           /\ c = f.runs => Runs(c)' = Runs(c) \cup {Len(stack) + 1}
           /\ c # f.runs => Runs(c)' = Runs(c)
<1>1. /\ DOMAIN stack' = DOMAIN stack \cup {Len(stack) + 1}
      /\ Len(stack) + 1 \notin DOMAIN stack
      /\ stack'[Len(stack) + 1] = f
      /\ \A i \in DOMAIN stack : stack'[i] = stack[i]
    BY FramePushed
<1>2. CASE c = f.runs
    <2>1. Runs(c)' = Runs(c) \cup {Len(stack) + 1} /\ Len(stack) + 1 \notin Runs(c)
        BY <1>1, <1>2 DEF Runs
    <2> QED
        BY <1>2, <2>1, RunsCounted, FS_AddElement
<1>3. CASE c # f.runs
    BY <1>1, <1>3 DEF Runs
<1> QED
    BY <1>2, <1>3

LEMMA RunsPopped ==
    ASSUME CallTypeOK, stack # << >>, Pop, NEW c \in Closures
    PROVE  /\ Runs(c)' = Runs(c) \ {Len(stack)}
           /\ c = Top.runs => Len(stack) \in Runs(c)
           /\ c = Top.runs => Cardinality(Runs(c)') = Cardinality(Runs(c)) - 1
           /\ c # Top.runs => Runs(c)' = Runs(c)
<1>1. /\ DOMAIN stack' = DOMAIN stack \ {Len(stack)}
      /\ \A i \in DOMAIN stack' : stack'[i] = stack[i]
    BY FramePopped
<1>2. Len(stack) \in DOMAIN stack
    BY StackTop
<1>3. Runs(c)' = Runs(c) \ {Len(stack)}
    BY <1>1, <1>2 DEF Runs
<1>4. c = Top.runs <=> Len(stack) \in Runs(c)
    BY <1>2 DEF Runs, Top
<1>5. Len(stack) \in Runs(c) => Cardinality(Runs(c) \ {Len(stack)}) = Cardinality(Runs(c)) - 1
    BY RunsCounted, FS_RemoveElement
<1>6. Len(stack) \notin Runs(c) => Runs(c) \ {Len(stack)} = Runs(c)
    OBVIOUS
<1> QED
    BY <1>3, <1>4, <1>5, <1>6

LEMMA RunsReplaced ==
    ASSUME CallTypeOK, stack # << >>, NEW f \in Frame, SetTop(f), f.runs = Top.runs,
           NEW c \in Closures
    PROVE  Runs(c)' = Runs(c)
BY TopReplaced, StackTop DEF Runs, Top

(* The closures that the calls under way hold.                              *)
LEMMA HeldPushed ==
    ASSUME CallTypeOK, NEW f \in Frame, stack' = Append(stack, f), ClosureArgs(f) = {},
           NEW c \in Closures
    PROVE  HeldByCall(c)' <=> HeldByCall(c)
BY FramePushed DEF HeldByCall

LEMMA HeldPopped ==
    ASSUME CallTypeOK, stack # << >>, Pop, ClosureArgs(Top) = {}, NEW c \in Closures
    PROVE  HeldByCall(c)' <=> HeldByCall(c)
BY FramePopped, StackTop DEF HeldByCall, Top

LEMMA HeldReplaced ==
    ASSUME CallTypeOK, ApartInv, stack # << >>, NEW f \in Frame, SetTop(f),
           NEW c \in Closures
    PROVE  /\ (c \in ClosureArgs(Top) <=> c \in ClosureArgs(f)) => (HeldByCall(c)' <=> HeldByCall(c))
           /\ c \in ClosureArgs(f) => HeldByCall(c)'
           /\ c \in ClosureArgs(Top) => HeldByCall(c)
           /\ c \in ClosureArgs(Top) /\ c \notin ClosureArgs(f) => ~HeldByCall(c)'
<1>1. /\ DOMAIN stack' = DOMAIN stack
      /\ stack'[Len(stack)] = f
      /\ \A i \in DOMAIN stack : i # Len(stack) => stack'[i] = stack[i]
      /\ Len(stack) \in DOMAIN stack
    BY TopReplaced, StackTop
<1> QED
    BY <1>1 DEF HeldByCall, ApartInv, Top

(* What holds of each frame, as the stack changes.                          *)
LEMMA PushKeeps ==
    ASSUME CallTypeOK, StackInv, ApartInv, NEW f \in Frame, stack' = Append(stack, f),
           GoodFrame(f), ClosureArgs(f) = {}, ReleaseInv,
           stack # << >> => Top.phase # "release"
    PROVE  StackInv' /\ ApartInv' /\ ReleaseInv'
<1>1. /\ DOMAIN stack' = DOMAIN stack \cup {Len(stack) + 1}
      /\ stack'[Len(stack) + 1] = f
      /\ \A i \in DOMAIN stack : stack'[i] = stack[i]
      /\ Len(stack') = Len(stack) + 1
    BY FramePushed
<1>2. \A i \in DOMAIN stack' : stack'[i] = f \/ (i \in DOMAIN stack /\ stack'[i] = stack[i])
    BY <1>1
<1>3. StackInv' /\ ApartInv'
    BY <1>1, <1>2 DEF StackInv, ApartInv
<1>4. \A i \in DOMAIN stack : stack[i].phase # "release"
    BY EmptySeq DEF ReleaseInv, Top, CallTypeOK
<1>5. ReleaseInv'
    BY <1>1, <1>4 DEF ReleaseInv
<1> QED
    BY <1>3, <1>5

LEMMA PopKeeps ==
    ASSUME CallTypeOK, stack # << >>, Pop, StackInv, ApartInv, OverlapInv, ReleaseInv,
           UNCHANGED nested
    PROVE  StackInv' /\ ApartInv' /\ OverlapInv' /\ ReleaseInv'
<1>1. /\ DOMAIN stack' = DOMAIN stack \ {Len(stack)}
      /\ \A i \in DOMAIN stack' : stack'[i] = stack[i]
    BY FramePopped
<1>2. StackInv' /\ ApartInv' /\ OverlapInv'
    BY <1>1 DEF StackInv, ApartInv, OverlapInv
<1>3. ReleaseInv'
    BY <1>1 DEF ReleaseInv
<1> QED
    BY <1>2, <1>3

LEMMA ReplaceKeeps ==
    ASSUME CallTypeOK, StackInv, ApartInv, ThisInv, OverlapInv, ReleaseInv, stack # << >>,
           NEW f \in Frame, SetTop(f), GoodFrame(f), f.fn = Top.fn, f.this = Top.this,
           \A c \in ClosureArgs(f) : c \in ClosureArgs(Top) \/ ~HeldByCall(c),
           CacheMatches(f, cache', nested'),
           \A i \in DOMAIN stack : i # Len(stack) => CacheMatches(stack[i], cache', nested'),
           nested \subseteq nested',
           WithinItself => Callbacks(f) \subseteq Callbacks(Top) \cup nested',
           UNCHANGED wrappers
    PROVE  /\ StackInv' /\ ApartInv' /\ ThisInv' /\ OverlapInv' /\ ReleaseInv' /\ CacheInv'
           /\ stack' \in Seq(Frame)
<1>1. /\ DOMAIN stack' = DOMAIN stack
      /\ stack'[Len(stack)] = f
      /\ \A i \in DOMAIN stack : i # Len(stack) => stack'[i] = stack[i]
      /\ Len(stack) \in DOMAIN stack
      /\ Top = stack[Len(stack)]
      /\ Len(stack') = Len(stack)
      /\ stack' \in Seq(Frame)
    BY TopReplaced, StackTop DEF Top
<1>2. StackInv' /\ ThisInv' /\ ReleaseInv' /\ CacheInv'
    BY <1>1 DEF StackInv, ThisInv, ReleaseInv, CacheInv
<1>3. \A i \in DOMAIN stack : i # Len(stack) => ClosureArgs(f) \cap ClosureArgs(stack[i]) = {}
    BY <1>1 DEF ApartInv, HeldByCall
<1>4. ApartInv'
    <2> SUFFICES ASSUME NEW i \in DOMAIN stack, NEW k \in DOMAIN stack, i # k
                 PROVE  ClosureArgs(stack'[i]) \cap ClosureArgs(stack'[k]) = {}
        BY <1>1 DEF ApartInv
    <2> QED
        BY <1>1, <1>3 DEF ApartInv
<1>5. \A i \in DOMAIN stack : stack'[i].fn = stack[i].fn
    BY <1>1
<1>6. OverlapInv'
    <2> SUFFICES ASSUME NEW i \in DOMAIN stack, NEW k \in DOMAIN stack, i # k,
                        stack[i].fn \in Functions, stack[i].fn = stack[k].fn
                 PROVE  Callbacks(stack'[i]) \subseteq nested'
        BY <1>1, <1>5 DEF OverlapInv
    <2>1. Callbacks(stack[i]) \subseteq nested'
        BY DEF OverlapInv
    <2>2. CASE i = Len(stack)
        <3>1. WithinItself
            BY <1>1, <2>2 DEF WithinItself
        <3> QED
            BY <1>1, <2>1, <2>2, <3>1
    <2>3. CASE i # Len(stack)
        BY <1>1, <2>1, <2>3
    <2> QED
        BY <2>2, <2>3
<1> QED
    BY <1>1, <1>2, <1>4, <1>6

LEMMA PhasesPushed ==
    ASSUME CallTypeOK, NEW f \in Frame, stack' = Append(stack, f), ClosureArgs(f) = {},
           NEW c \in Closures
    PROVE  (InC(c)' <=> InC(c)) /\ (InNew(c)' <=> InNew(c))
<1>1. /\ DOMAIN stack' = DOMAIN stack \cup {Len(stack) + 1}
      /\ stack'[Len(stack) + 1] = f
      /\ \A i \in DOMAIN stack : stack'[i] = stack[i]
    BY FramePushed
<1> QED
    BY <1>1 DEF InC, InNew

LEMMA PhasesPopped ==
    ASSUME CallTypeOK, stack # << >>, Pop, Top.phase \notin {"in", "c"}, NEW c \in Closures
    PROVE  (InC(c)' <=> InC(c)) /\ (InNew(c)' <=> InNew(c))
<1>1. /\ DOMAIN stack' = DOMAIN stack \ {Len(stack)}
      /\ \A i \in DOMAIN stack' : stack'[i] = stack[i]
    BY FramePopped
<1> QED
    BY <1>1 DEF InC, InNew, Top

LEMMA PhasesReplaced ==
    ASSUME CallTypeOK, stack # << >>, NEW f \in Frame, SetTop(f), NEW c \in Closures
    PROVE  /\ InC(c) => InC(c)' \/ (Top.phase = "c" /\ c \in ClosureArgs(Top))
           /\ f.phase = "c" /\ c \in ClosureArgs(f) => InC(c)'
           /\ InNew(c)' => InNew(c) \/ (f.phase = "in" /\ c \in ClosureArgs(f))
           /\ Top.phase = "in" /\ c \in ClosureArgs(Top) => InNew(c)
<1>1. /\ DOMAIN stack' = DOMAIN stack
      /\ stack'[Len(stack)] = f
      /\ \A i \in DOMAIN stack : i # Len(stack) => stack'[i] = stack[i]
      /\ Len(stack) \in DOMAIN stack
      /\ Top = stack[Len(stack)]
    BY TopReplaced, StackTop DEF Top
<1> QED
    BY <1>1 DEF InC, InNew

(* A closure whose holders stay as they are.                                *)
LEMMA OwnStays ==
    ASSUME NEW c \in Closures, OwnInv(c),
           closure'[c].kind = closure[c].kind,
           Runs(c)' = Runs(c), InC(c) => InC(c)', InNew(c)' => InNew(c),
           c \in handles' <=> c \in handles, c \in extras' <=> c \in extras,
           c \in asyncs' => c \in asyncs, c \in forever' <=> c \in forever,
           c \in exposed' => c \in exposed,
           c \in nested' => c \in nested \/ closure[c].kind \in TrampolineKinds,
           context' = "gone" \/ context # "gone"
    PROVE  OwnInv(c)'
BY DEF OwnInv, HolderInv, ExposedInv, NewInv, AsyncInv, Outlives

LEMMA KindsStay ==
    ASSUME CallTypeOK, KindsInv,
           \A c \in Closures : HeldByCall(c) => closure'[c].kind = closure[c].kind
    PROVE  \A i \in DOMAIN stack : KindsMatch(stack[i], closure')
BY DEF KindsInv, KindsMatch, HeldByCall, ClosureArgs

(* A closure that is not made yet has no holder.                            *)
LEMMA UnusedUnheld ==
    ASSUME CallInv, NEW c \in Closures, closure[c] = UnusedClosure
    PROVE  /\ Runs(c) = {} /\ Cardinality(Runs(c)) = 0
           /\ ~HeldByCall(c) /\ ~InC(c) /\ ~InNew(c)
           /\ c \notin handles \cup extras \cup asyncs \cup forever
           /\ c \notin notified \cup nested
           /\ context # "gone" => c \notin exposed
<1>1. Cardinality(Runs(c)) \in Nat /\ (Cardinality(Runs(c)) = 0 <=> Runs(c) = {})
    BY RunsCounted DEF CallInv
<1>7. c \notin nested
    BY DEF CallInv, OwnersInv, OwnInv, HolderInv, UnusedClosure, TrampolineKinds
<1>2. 0 = Cardinality(Runs(c)) + One(HeldByCall(c)) + One(c \in handles)
          + One(c \in extras) + One(c \in asyncs) + One(c \in forever)
    BY <1>7 DEF CallInv, RefsAccounted, UnusedClosure
<1>3. /\ Cardinality(Runs(c)) = 0 /\ ~HeldByCall(c)
      /\ c \notin handles \cup extras \cup asyncs \cup forever
    BY <1>1, <1>2 DEF One
<1>4. ~InC(c) /\ ~InNew(c)
    BY <1>3 DEF InC, InNew, HeldByCall
<1>5. c \notin notified
    BY DEF CallInv, KeptInv, RecordInv, UnusedClosure
<1>6. context # "gone" => c \notin exposed
    BY DEF CallInv, OwnersInv, OwnInv, ExposedInv, UnusedClosure
<1> QED
    BY <1>1, <1>3, <1>4, <1>5, <1>6, <1>7

LEMMA NewRecord ==
    ASSUME NEW k \in ClosureKinds, NEW o \in Objects \cup {NoObject}, NEW n \in Nat, n > 0,
           NEW W \in SUBSET Objects, o \in W \cup {NoObject}
    PROVE  /\ NewClosure(k, o, n) \in ClosureRecord
           /\ RecordInv(NewClosure(k, o, n), FALSE, W)
           /\ NewClosure(k, o, n).refs = n
           /\ NewClosure(k, o, n).kind = k
<1>1. k # "unused"
    BY DEF ClosureKinds, TrampolineKinds
<1>2. IsTraced(k, o) => o # NoObject
    BY DEF IsTraced
<1>3. NewClosure(k, o, n) \in ClosureRecord
    BY DEF NewClosure, ClosureRecord
<1> QED
    BY <1>1, <1>2, <1>3, ClosureAssumption DEF NewClosure, RecordInv

(* A step that changes the stack alone, and what the calls hold not at all.  *)
LEMMA OnlyStack ==
    ASSUME CallInv,
           UNCHANGED <<closure, wrappers, handles, extras, asyncs, forever, exposed,
                       context, notified>>,
           nested \subseteq nested',
           \A c \in Closures : c \in nested' => c \in nested \/ closure[c].kind \in TrampolineKinds,
           \A c \in Closures : Runs(c)' = Runs(c) /\ (HeldByCall(c)' <=> HeldByCall(c)),
           \A c \in Closures : (InC(c) => InC(c)') /\ (InNew(c)' => InNew(c)),
           context = "alive"
    PROVE  /\ OwnersInv' /\ KeptInv' /\ RefsAccounted' /\ ContextInv'
           /\ ContextLeavesNothing'
<1>1. OwnersInv'
    BY OwnStays DEF CallInv, OwnersInv
<1>2. RefsAccounted'
    BY DEF CallInv, RefsAccounted, One
<1> QED
    BY <1>1, <1>2 DEF CallInv, KeptInv, ContextInv, ContextLeavesNothing

------------------------------
(* Each action keeps the invariant.                                         *)
LEMMA ConnectKeeps ==
    ASSUME CallInv, NEW c \in Closures, NEW o \in Objects, Connect(c, o)
    PROVE  CallInv'
<1> DEFINE r == NewClosure("signal", o, 1)
<1>1. /\ CallTypeOK /\ closure[c] = UnusedClosure /\ o \in wrappers /\ context = "alive"
      /\ closure' = [closure EXCEPT ![c] = r]
      /\ handles' = handles \cup {c} /\ exposed' = exposed \cup {c}
      /\ UNCHANGED <<wrappers, cache, stack, extras, asyncs, forever, context, notified, nested>>
    BY DEF CallInv, Connect, JSActs
<1>2. /\ Runs(c) = {} /\ Cardinality(Runs(c)) = 0
      /\ ~HeldByCall(c) /\ ~InC(c) /\ ~InNew(c)
      /\ c \notin handles \cup extras \cup asyncs \cup forever
      /\ c \notin notified \cup nested
    BY <1>1, UnusedUnheld
<1>3. r \in ClosureRecord /\ RecordInv(r, FALSE, wrappers) /\ r.refs = 1 /\ r.kind = "signal"
    <2>1. /\ "signal" \in ClosureKinds /\ wrappers \in SUBSET Objects
          /\ o \in wrappers \cup {NoObject} /\ o \in Objects \cup {NoObject}
          /\ 1 \in Nat /\ 1 > 0
        BY <1>1 DEF CallTypeOK, ClosureKinds
    <2> QED
        BY <2>1, NewRecord
<1> HIDE DEF r
<1>4. /\ closure' \in [Closures -> ClosureRecord]
      /\ closure'[c] = r
      /\ \A d \in Closures : d # c => closure'[d] = closure[d]
    BY <1>1, <1>3 DEF CallTypeOK
<1>5. CallTypeOK'
    BY <1>1, <1>4 DEF CallTypeOK
<1>6. KindsInv'
    BY <1>1, <1>2, <1>4, KindsStay DEF CallInv, KindsInv
<1>7. OwnersInv'
    <2> SUFFICES ASSUME NEW d \in Closures PROVE OwnInv(d)'
        BY DEF OwnersInv
    <2>1. Runs(d)' = Runs(d) /\ (InC(d)' <=> InC(d)) /\ (InNew(d)' <=> InNew(d))
        BY <1>1 DEF Runs, InC, InNew
    <2>2. CASE d = c
        BY <1>1, <1>2, <1>3, <1>4, <2>1, <2>2
           DEF OwnInv, HolderInv, ExposedInv, NewInv, AsyncInv, Outlives
    <2>3. CASE d # c
        BY <1>1, <1>4, <2>1, <2>3, OwnStays DEF CallInv, OwnersInv
    <2> QED
        BY <2>2, <2>3
<1>8. KeptInv'
    <2> SUFFICES ASSUME NEW d \in Closures
                 PROVE  RecordInv(closure'[d], d \in notified, wrappers)
        BY <1>1 DEF KeptInv
    <2>1. CASE d = c
        <3>1. (d \in notified) = FALSE
            BY <1>2, <2>1
        <3> QED
            BY <1>3, <1>4, <2>1, <3>1
    <2>2. CASE d # c
        BY <1>4, <2>2 DEF CallInv, KeptInv
    <2> QED
        BY <2>1, <2>2
<1>9. RefsAccounted'
    <2> SUFFICES ASSUME NEW d \in Closures, d \notin nested'
                 PROVE  closure'[d].refs =
                          Cardinality(Runs(d)') + One(HeldByCall(d)') + One(d \in handles')
                          + One(d \in extras') + One(d \in asyncs') + One(d \in forever')
        BY DEF RefsAccounted
    <2>1. Runs(d)' = Runs(d) /\ (HeldByCall(d)' <=> HeldByCall(d))
        BY <1>1 DEF Runs, HeldByCall
    <2>2. CASE d = c
        BY <1>1, <1>2, <1>3, <1>4, <2>1, <2>2 DEF One
    <2>3. CASE d # c
        BY <1>1, <1>4, <2>1, <2>3 DEF CallInv, RefsAccounted, One
    <2> QED
        BY <2>2, <2>3
<1>10. /\ StackInv' /\ ThisInv' /\ ApartInv' /\ ContextInv' /\ CacheInv' /\ OverlapInv'
       /\ ReleaseInv' /\ ContextLeavesNothing'
    BY <1>1 DEF CallInv, StackInv, ThisInv, ApartInv, ContextInv, CacheInv, OverlapInv,
                ReleaseInv, ContextLeavesNothing
<1> QED
    BY <1>5, <1>6, <1>7, <1>8, <1>9, <1>10 DEF CallInv

LEMMA CallKeeps ==
    ASSUME CallInv, NEW f \in Functions, NEW o \in Objects \cup {NoObject}, Call(f, o)
    PROVE  CallInv'
<1> DEFINE g == [fn |-> f, runs |-> NoClosure, this |-> o, phase |-> "in", pos |-> 1, done |-> 0,
                 args |-> [j \in DOMAIN Signature[f] |-> "unset"], failed |-> FALSE, threw |-> FALSE]
<1>1. /\ CallTypeOK /\ context = "alive" /\ o \in wrappers \cup {NoObject}
      /\ stack # << >> => Top.phase \in {"run", "in"}
      /\ stack' = Append(stack, g) /\ nested' = nested \cup CallbacksOf(f)
      /\ UNCHANGED <<closure, wrappers, cache, handles, extras, asyncs, forever, exposed,
                     context, notified>>
    BY DEF CallInv, Call, JSActs
<1>2. Signature[f] \in Seq(ArgKinds) /\ DOMAIN Signature[f] = 1..Len(Signature[f])
      /\ Len(Signature[f]) \in Nat
    BY InvocationAssumption, LenProperties
<1>3. "unset" \notin Closures
    BY InvocationAssumption DEF ArgMarks
<1>4. g \in Frame
    <2>1. g.args \in Seq(Closures \cup ArgMarks)
        BY <1>2, SameLength DEF ArgMarks
    <2> QED
        BY <2>1 DEF Frame
<1>5. GoodFrame(g) /\ ClosureArgs(g) = {} /\ CacheMatches(g, cache, nested') /\ KindsMatch(g, closure)
      /\ g.this = o /\ g.fn = f /\ g.runs = NoClosure /\ g.phase = "in"
    <2>1. \A j \in DOMAIN g.args : j \in Nat /\ j >= 1 /\ g.args[j] = "unset" /\ ~Pending(g, j)
        BY <1>2 DEF Pending
    <2>2. FrameInv(g)
        <3>1. Len(g.args) \in Nat
            BY <1>4, LenProperties DEF Frame
        <3> QED
            BY <1>3, <2>1, <3>1 DEF FrameInv
    <2>3. \A j \in DOMAIN g.args : ArgInv(g, j)
        BY <1>3, <2>1 DEF ArgInv
    <2> QED
        BY <1>3, <2>1, <2>2, <2>3 DEF GoodFrame, ClosureArgs, CacheMatches, KindsMatch
<1> HIDE DEF g
<1>6. /\ DOMAIN stack' = DOMAIN stack \cup {Len(stack) + 1}
      /\ stack'[Len(stack) + 1] = g
      /\ \A i \in DOMAIN stack : stack'[i] = stack[i]
      /\ stack' \in Seq(Frame)
    BY <1>1, <1>4, FramePushed
<1>7. StackInv' /\ ApartInv' /\ ReleaseInv'
    BY <1>1, <1>4, <1>5, PushKeeps DEF CallInv
<1>8. ThisInv' /\ KindsInv' /\ CacheInv'
    <2>1. \A i \in DOMAIN stack : CacheMatches(stack[i], cache, nested')
        BY <1>1 DEF CallInv, CacheInv, CacheMatches
    <2> QED
        BY <1>1, <1>5, <1>6, <2>1 DEF CallInv, ThisInv, KindsInv, CacheInv
<1>9. OverlapInv'
    <2> SUFFICES ASSUME NEW i \in DOMAIN stack', NEW k \in DOMAIN stack', i # k,
                        stack'[i].fn \in Functions, stack'[i].fn = stack'[k].fn
                 PROVE  Callbacks(stack'[i]) \subseteq nested'
        BY DEF OverlapInv
    <2>1. CASE i = Len(stack) + 1
        BY <1>5, <1>6, <2>1 DEF Callbacks, ClosureArgs
    <2>2. CASE i # Len(stack) + 1 /\ k = Len(stack) + 1
        <3>1. i \in DOMAIN stack /\ stack'[i] = stack[i] /\ stack[i].fn = f
            BY <1>5, <1>6, <2>2
        <3>2. Callbacks(stack[i]) \subseteq CallbacksOf(f)
            BY <3>1 DEF Callbacks, CallbacksOf
        <3> QED
            BY <1>1, <3>1, <3>2
    <2>3. CASE i # Len(stack) + 1 /\ k # Len(stack) + 1
        BY <1>1, <1>6, <2>3 DEF CallInv, OverlapInv
    <2> QED
        BY <2>1, <2>2, <2>3
<1>10. /\ OwnersInv' /\ KeptInv' /\ RefsAccounted' /\ ContextInv' /\ ContextLeavesNothing'
    <2>1. \A c \in Closures : c # g.runs
        BY <1>5, InvocationAssumption
    <2>2. \A c \in Closures : Runs(c)' = Runs(c)
        BY <1>1, <1>4, <2>1, RunsPushed
    <2>3. \A c \in Closures : HeldByCall(c)' <=> HeldByCall(c)
        BY <1>1, <1>4, <1>5, HeldPushed
    <2>4. \A c \in Closures : (InC(c)' <=> InC(c)) /\ (InNew(c)' <=> InNew(c))
        BY <1>1, <1>4, <1>5, PhasesPushed
    <2>5. \A c \in CallbacksOf(f) : closure[c].kind \in TrampolineKinds
        BY DEF CallbacksOf, CallInv, KindsInv, KindsMatch
    <2> QED
        BY <1>1, <2>2, <2>3, <2>4, <2>5, OnlyStack
<1>11. CallTypeOK'
    BY <1>1, <1>6 DEF CallTypeOK, CallbacksOf
<1> QED
    BY <1>7, <1>8, <1>9, <1>10, <1>11 DEF CallInv

(* What is known of the call on top of the stack.                           *)
LEMMA TopKnown ==
    ASSUME CallInv, stack # << >>
    PROVE  /\ Len(stack) \in DOMAIN stack /\ Top = stack[Len(stack)] /\ Top \in Frame
           /\ GoodFrame(Top) /\ KindsMatch(Top, closure) /\ CacheMatches(Top, cache, nested)
           /\ Top.pos \in Nat /\ Top.done \in Nat /\ Len(Top.args) \in Nat
           /\ DOMAIN Top.args = 1..Len(Top.args)
           /\ Top.args \in Seq(Closures \cup ArgMarks)
           /\ \A j \in DOMAIN Top.args : Top.args[j] \in Closures \cup ArgMarks
           /\ Top.this \in wrappers \cup {NoObject}
<1>1. Len(stack) \in DOMAIN stack /\ Top \in Frame /\ Top = stack[Len(stack)]
    BY StackTop DEF CallInv, Top
<1>2. /\ Top.args \in Seq(Closures \cup ArgMarks) /\ Top.pos \in Nat /\ Top.done \in Nat
    BY <1>1 DEF Frame
<1>3. /\ Len(Top.args) \in Nat /\ DOMAIN Top.args = 1..Len(Top.args)
      /\ \A j \in DOMAIN Top.args : Top.args[j] \in Closures \cup ArgMarks
    BY <1>2, LenProperties, ElementOfSeq
<1> QED
    BY <1>1, <1>2, <1>3 DEF CallInv, StackInv, KindsInv, CacheInv, ThisInv

LEMMA ConvertingKnown ==
    ASSUME CallInv, Converting
    PROVE  /\ Top.fn \in Functions /\ Top.runs = NoClosure /\ Top.pos \in DOMAIN Top.args
           /\ DOMAIN Top.args = DOMAIN Signature[Top.fn]
           /\ Top.pos = Top.done + 1 /\ Top.args[Top.pos] = "unset"
           /\ ArgKind \in ArgKinds
<1>1. stack # << >> /\ Top.phase = "in" /\ Top.pos <= Len(Top.args)
    BY DEF Converting
<1>2. /\ GoodFrame(Top) /\ Top.pos \in Nat /\ Top.done \in Nat /\ Len(Top.args) \in Nat
      /\ DOMAIN Top.args = 1..Len(Top.args)
    BY <1>1, TopKnown
<1>3. /\ Top.fn \in Functions /\ Top.runs = NoClosure /\ Top.pos \in DOMAIN Top.args
      /\ DOMAIN Top.args = DOMAIN Signature[Top.fn] /\ Top.pos = Top.done + 1
    BY <1>1, <1>2 DEF GoodFrame, FrameInv
<1>4. Top.args[Top.pos] = "unset"
    BY <1>2, <1>3 DEF GoodFrame, ArgInv
<1>5. ArgKind \in ArgKinds
    <2>1. Signature[Top.fn] \in Seq(ArgKinds)
        BY <1>3, InvocationAssumption
    <2> QED
        BY <1>3, <2>1, LenProperties, ElementOfSeq DEF ArgKind
<1> QED
    BY <1>3, <1>4, <1>5

(* The frame after the conversion of an argument to v.                      *)
LEMMA ConvertedFrame ==
    ASSUME CallInv, Converting, NEW v \in Closures \cup {"unset", "ours"}, Converted(v),
           v \in Closures => ~HeldByCall(v),
           ArgKind = "full" => v = "ours",
           ArgKind = "boxed" => v \in Closures,
           ArgKind \in TrampolineKinds => v \in Closures \cup {"unset"}
    PROVE  LET f == [Top EXCEPT !.pos = @ + 1, !.done = @ + 1, !.args[Top.pos] = v] IN
           /\ f \in Frame /\ GoodFrame(f) /\ SetTop(f)
           /\ f.fn = Top.fn /\ f.this = Top.this /\ f.runs = Top.runs /\ f.phase = "in"
           /\ f.done = Top.pos /\ DOMAIN f.args = DOMAIN Top.args
           /\ f.args[Top.pos] = v
           /\ \A j \in DOMAIN f.args : j # Top.pos => f.args[j] = Top.args[j]
           /\ ClosureArgs(f) = ClosureArgs(Top) \cup ({v} \cap Closures)
<1> DEFINE f == [Top EXCEPT !.pos = @ + 1, !.done = @ + 1, !.args[Top.pos] = v]
<1>1. stack # << >> /\ Top.phase = "in"
    BY DEF Converting
<1>2. /\ Top \in Frame /\ GoodFrame(Top) /\ Top.pos \in Nat /\ Top.done \in Nat
      /\ Len(Top.args) \in Nat /\ DOMAIN Top.args = 1..Len(Top.args)
      /\ Top.args \in Seq(Closures \cup ArgMarks)
      /\ Len(stack) \in DOMAIN stack /\ Top = stack[Len(stack)]
    BY <1>1, TopKnown
<1>3. /\ Top.fn \in Functions /\ Top.runs = NoClosure /\ Top.pos \in DOMAIN Top.args
      /\ DOMAIN Top.args = DOMAIN Signature[Top.fn]
      /\ Top.pos = Top.done + 1 /\ Top.args[Top.pos] = "unset"
    BY ConvertingKnown
<1>4. /\ f.fn = Top.fn /\ f.this = Top.this /\ f.runs = Top.runs /\ f.phase = "in"
      /\ f.pos = Top.pos + 1 /\ f.done = Top.pos /\ f.failed = Top.failed /\ f.threw = Top.threw
      /\ f.args = [Top.args EXCEPT ![Top.pos] = v]
    BY <1>1, <1>2, <1>3 DEF Frame
<1>5. /\ DOMAIN f.args = DOMAIN Top.args /\ f.args[Top.pos] = v
      /\ \A j \in DOMAIN f.args : j # Top.pos => f.args[j] = Top.args[j]
    BY <1>3, <1>4
<1>6. f.args \in Seq(Closures \cup ArgMarks) /\ Len(f.args) = Len(Top.args)
    <2>1. v \in Closures \cup ArgMarks
        BY DEF ArgMarks
    <2>2. \A j \in DOMAIN Top.args : Top.args[j] \in Closures \cup ArgMarks
        BY <1>1, TopKnown
    <2> HIDE DEF f
    <2>3. f.args \in [1..Len(Top.args) -> Closures \cup ArgMarks]
        BY <1>2, <1>4, <2>1, <2>2
    <2> QED
        BY <1>2, <2>3, SameLength
<1>7. f \in Frame
    <2> DEFINE A == [Top.args EXCEPT ![Top.pos] = v]
    <2>1. A \in Seq(Closures \cup ArgMarks) /\ Top.pos + 1 \in Nat /\ Top.done + 1 \in Nat
        BY <1>2, <1>4, <1>6
    <2>2. f = [Top EXCEPT !.pos = Top.pos + 1, !.done = Top.done + 1, !.args = A]
        BY <1>2 DEF Frame
    <2> HIDE DEF A, f
    <2> QED
        BY <1>2, <2>1, <2>2 DEF Frame
<1>8. Closures \cap {"unset", "ours", "theirs", "lost"} = {}
    BY InvocationAssumption DEF ArgMarks
<1>9. ClosureArgs(f) = ClosureArgs(Top) \cup ({v} \cap Closures)
    BY <1>3, <1>5, <1>8 DEF ClosureArgs
<1>10. v \in Closures => \A j \in DOMAIN Top.args : Top.args[j] # v
    BY <1>2 DEF HeldByCall, ClosureArgs
<1> HIDE DEF f
<1>11. FrameInv(f)
    <2>1. \A j, l \in DOMAIN f.args :
             f.args[j] \in Closures /\ f.args[j] = f.args[l] => j = l
        BY <1>2, <1>5, <1>10 DEF GoodFrame, FrameInv
    <2>2. 1 <= f.pos /\ f.pos = f.done + 1 /\ f.done <= Len(f.args)
        BY <1>2, <1>3, <1>4, <1>6
    <2> QED
        BY <1>3, <1>4, <1>5, <2>1, <2>2 DEF FrameInv
<1>12. \A j \in DOMAIN f.args : ArgInv(f, j)
    <2> SUFFICES ASSUME NEW j \in DOMAIN f.args PROVE ArgInv(f, j)
        OBVIOUS
    <2>1. j \in Nat /\ ArgInv(Top, j)
        BY <1>2, <1>5 DEF GoodFrame
    <2>2. CASE j = Top.pos
        <3>1. /\ f.args[j] = v /\ j = f.done /\ f.phase = "in" /\ Signature[f.fn][j] = ArgKind
              /\ v \notin {"theirs", "lost"}
            BY <1>4, <1>5, <1>8, <2>2 DEF ArgKind
        <3>2. Pending(f, j) /\ ~(j > f.done)
            BY <2>1, <3>1 DEF Pending
        <3> QED
            BY <3>1, <3>2 DEF ArgInv
    <2>3. CASE j # Top.pos
        BY <1>1, <1>2, <1>3, <1>4, <1>5, <2>1, <2>3 DEF ArgInv, Pending
    <2> QED
        BY <2>2, <2>3
<1> QED
    BY <1>4, <1>5, <1>7, <1>9, <1>11, <1>12 DEF GoodFrame, Converted, f

(* A conversion, as far as the stack and the caches go.                     *)
LEMMA ConvertedKeeps ==
    ASSUME CallInv, Converting, NEW v \in Closures \cup {"unset", "ours"}, Converted(v),
           v \in Closures => ~HeldByCall(v),
           ArgKind = "full" => v = "ours",
           ArgKind = "boxed" => v \in Closures,
           ArgKind \in TrampolineKinds => v \in Closures \cup {"unset"},
           ArgKind \in TrampolineKinds =>
             cache' = [cache EXCEPT ![Top.fn][Top.pos] = IF v \in Closures THEN v ELSE NoClosure],
           ArgKind \notin TrampolineKinds => cache' = cache,
           nested \subseteq nested',
           WithinItself /\ ArgKind \in TrampolineKinds /\ v \in Closures => v \in nested',
           UNCHANGED wrappers
    PROVE  /\ StackInv' /\ ApartInv' /\ ThisInv' /\ OverlapInv' /\ ReleaseInv' /\ CacheInv'
           /\ stack' \in Seq(Frame)
           /\ DOMAIN cache' = Functions
           /\ \A f \in Functions :
                cache'[f] \in [DOMAIN Signature[f] -> Closures \cup {NoClosure}]
           /\ \A c \in Closures : Runs(c)' = Runs(c)
           /\ \A c \in Closures : HeldByCall(c)' <=> HeldByCall(c) \/ c = v
           /\ \A c \in Closures : InC(c) => InC(c)'
           /\ \A c \in Closures : InNew(c)' => InNew(c) \/ c = v
           /\ /\ \A c \in Closures : HeldByCall(c) => closure'[c].kind = closure[c].kind
              /\ v \in Closures => closure'[v].kind = ArgKind
              => KindsInv'
<1> DEFINE g == [Top EXCEPT !.pos = @ + 1, !.done = @ + 1, !.args[Top.pos] = v]
           w == IF v \in Closures THEN v ELSE NoClosure
<1>1. stack # << >> /\ Top.phase = "in" /\ CallTypeOK
    BY DEF Converting, CallInv
<1>2. /\ Len(stack) \in DOMAIN stack /\ Top = stack[Len(stack)]
      /\ KindsMatch(Top, closure) /\ CacheMatches(Top, cache, nested)
      /\ Top.pos \in Nat /\ Top.done \in Nat
      /\ DOMAIN Top.args = 1..Len(Top.args) /\ Len(Top.args) \in Nat
    BY <1>1, TopKnown
<1>3. /\ Top.fn \in Functions /\ Top.pos \in DOMAIN Top.args
      /\ DOMAIN Top.args = DOMAIN Signature[Top.fn] /\ Top.pos = Top.done + 1
    BY ConvertingKnown
<1>4. /\ g \in Frame /\ GoodFrame(g) /\ SetTop(g)
      /\ g.fn = Top.fn /\ g.this = Top.this /\ g.runs = Top.runs /\ g.phase = "in"
      /\ g.done = Top.pos /\ DOMAIN g.args = DOMAIN Top.args
      /\ g.args[Top.pos] = v
      /\ \A j \in DOMAIN g.args : j # Top.pos => g.args[j] = Top.args[j]
      /\ ClosureArgs(g) = ClosureArgs(Top) \cup ({v} \cap Closures)
    BY ConvertedFrame
<1> HIDE DEF g
<1>5. /\ DOMAIN cache' = Functions
      /\ \A f \in Functions : cache'[f] \in [DOMAIN Signature[f] -> Closures \cup {NoClosure}]
    <2>1. CASE ArgKind \in TrampolineKinds
        <3>1. w \in Closures \cup {NoClosure}
            OBVIOUS
        <3> HIDE DEF w
        <3> QED
            BY <1>1, <1>3, <2>1, <3>1 DEF CallTypeOK, w
    <2>2. CASE ArgKind \notin TrampolineKinds
        BY <1>1, <2>2 DEF CallTypeOK
    <2> QED
        BY <2>1, <2>2
<1>6. \A f \in Functions : \A j \in DOMAIN Signature[f] :
         ~(f = Top.fn /\ j = Top.pos /\ ArgKind \in TrampolineKinds) => cache'[f][j] = cache[f][j]
    BY <1>1, <1>3 DEF CallTypeOK
<1>7. ArgKind \in TrampolineKinds => cache'[Top.fn][Top.pos] = w
    BY <1>1, <1>3 DEF CallTypeOK
<1> HIDE DEF w
<1>8. CacheMatches(g, cache', nested')
    <2> SUFFICES ASSUME NEW j \in DOMAIN g.args, Pending(g, j),
                        Signature[g.fn][j] \in TrampolineKinds
                 PROVE  \/ cache'[g.fn][j] = Own(g, j)
                        \/ {cache'[g.fn][j], Own(g, j)} \subseteq nested' \cup {NoClosure}
        BY DEF CacheMatches
    <2>1. CASE j = Top.pos
        BY <1>4, <1>7, <2>1 DEF ArgKind, Own, w
    <2>2. CASE j # Top.pos
        <3>1. Pending(Top, j) /\ j \in DOMAIN Top.args
            BY <1>1, <1>2, <1>3, <1>4, <2>2 DEF Pending
        <3>2. cache'[Top.fn][j] = cache[Top.fn][j]
            BY <1>3, <1>6, <2>2, <3>1
        <3>3. Own(g, j) = Own(Top, j)
            BY <1>4, <2>2 DEF Own
        <3> QED
            BY <1>2, <1>4, <3>1, <3>2, <3>3 DEF CacheMatches
    <2> QED
        BY <2>1, <2>2
<1>9. \A i \in DOMAIN stack : i # Len(stack) => CacheMatches(stack[i], cache', nested')
    <2> SUFFICES ASSUME NEW i \in DOMAIN stack, i # Len(stack)
                 PROVE  CacheMatches(stack[i], cache', nested')
        OBVIOUS
    <2>1. CacheMatches(stack[i], cache, nested)
        BY DEF CallInv, CacheInv
    <2>2. FrameInv(stack[i])
        BY DEF CallInv, StackInv, GoodFrame
    <2>3. CASE stack[i].phase = "run"
        BY <2>2, <2>3, EmptySeq DEF CacheMatches, FrameInv
    <2>4. CASE stack[i].phase # "run"
        <3>1. /\ stack[i].fn \in Functions
              /\ DOMAIN stack[i].args = DOMAIN Signature[stack[i].fn]
            BY <2>2, <2>4 DEF FrameInv
        <3> SUFFICES ASSUME NEW j \in DOMAIN stack[i].args, Pending(stack[i], j),
                            Signature[stack[i].fn][j] \in TrampolineKinds
                     PROVE  \/ cache'[stack[i].fn][j] = Own(stack[i], j)
                            \/ {cache'[stack[i].fn][j], Own(stack[i], j)}
                                 \subseteq nested' \cup {NoClosure}
            BY DEF CacheMatches
        <3>2. CASE stack[i].fn = Top.fn /\ j = Top.pos
            <4>1. WithinItself /\ Callbacks(stack[i]) \subseteq nested
                BY <1>2, <1>3, <3>2 DEF WithinItself, CallInv, OverlapInv
            <4>2. Own(stack[i], j) \in nested' \cup {NoClosure}
                BY <4>1 DEF Own, Callbacks
            <4>3. cache'[stack[i].fn][j] \in nested' \cup {NoClosure}
                BY <1>7, <3>2, <4>1 DEF ArgKind, w
            <4> QED
                BY <4>2, <4>3
        <3>3. CASE ~(stack[i].fn = Top.fn /\ j = Top.pos)
            BY <1>6, <2>1, <3>1, <3>3 DEF CacheMatches
        <3> QED
            BY <3>2, <3>3
    <2> QED
        BY <2>3, <2>4
<1>10. \A c \in ClosureArgs(g) : c \in ClosureArgs(Top) \/ ~HeldByCall(c)
    BY <1>4
<1>11. /\ StackInv' /\ ApartInv' /\ ThisInv' /\ OverlapInv' /\ ReleaseInv' /\ CacheInv'
       /\ stack' \in Seq(Frame)
    <2>1. WithinItself => Callbacks(g) \subseteq Callbacks(Top) \cup nested'
        <3> SUFFICES ASSUME WithinItself, NEW c \in Callbacks(g)
                     PROVE  c \in Callbacks(Top) \cup nested'
            OBVIOUS
        <3>1. PICK j \in DOMAIN g.args : /\ g.args[j] = c /\ c \in Closures
                                         /\ Signature[Top.fn][j] \in TrampolineKinds
            BY <1>4 DEF Callbacks
        <3>2. CASE j = Top.pos
            BY <1>4, <3>1, <3>2 DEF ArgKind
        <3>3. CASE j # Top.pos
            BY <1>4, <3>1, <3>3 DEF Callbacks
        <3> QED
            BY <3>2, <3>3
    <2> QED
        BY <1>1, <1>4, <1>8, <1>9, <1>10, <2>1, ReplaceKeeps DEF CallInv
<1>12. \A c \in Closures : Runs(c)' = Runs(c)
    BY <1>1, <1>4, RunsReplaced
<1>13. \A c \in Closures : HeldByCall(c)' <=> HeldByCall(c) \/ c = v
    <2> SUFFICES ASSUME NEW c \in Closures PROVE HeldByCall(c)' <=> HeldByCall(c) \/ c = v
        OBVIOUS
    <2>1. /\ (c \in ClosureArgs(Top) <=> c \in ClosureArgs(g)) => (HeldByCall(c)' <=> HeldByCall(c))
          /\ c \in ClosureArgs(g) => HeldByCall(c)'
        BY <1>1, <1>4, HeldReplaced DEF CallInv
    <2> QED
        BY <1>4, <2>1
<1>14. \A c \in Closures : (InC(c) => InC(c)') /\ (InNew(c)' => InNew(c) \/ c = v)
    <2> SUFFICES ASSUME NEW c \in Closures
                 PROVE  (InC(c) => InC(c)') /\ (InNew(c)' => InNew(c) \/ c = v)
        OBVIOUS
    <2>1. /\ InC(c) => InC(c)' \/ (Top.phase = "c" /\ c \in ClosureArgs(Top))
          /\ InNew(c)' => InNew(c) \/ (g.phase = "in" /\ c \in ClosureArgs(g))
          /\ Top.phase = "in" /\ c \in ClosureArgs(Top) => InNew(c)
        BY <1>1, <1>4, PhasesReplaced
    <2> QED
        BY <1>1, <1>4, <2>1
<1>15. ASSUME \A c \in Closures : HeldByCall(c) => closure'[c].kind = closure[c].kind,
              v \in Closures => closure'[v].kind = ArgKind
       PROVE  KindsInv'
    <2>1. \A i \in DOMAIN stack : KindsMatch(stack[i], closure')
        BY <1>1, <1>15, KindsStay DEF CallInv
    <2>2. KindsMatch(g, closure')
        BY <1>2, <1>4, <1>15, <2>1 DEF KindsMatch, ArgKind
    <2>3. /\ DOMAIN stack' = DOMAIN stack /\ stack'[Len(stack)] = g
          /\ \A i \in DOMAIN stack : i # Len(stack) => stack'[i] = stack[i]
        BY <1>1, <1>4, TopReplaced
    <2> QED
        BY <2>1, <2>2, <2>3 DEF KindsInv
<1> QED
    BY <1>5, <1>11, <1>12, <1>13, <1>14, <1>15

LEMMA ConvertNullKeeps ==
    ASSUME CallInv, ConvertNull
    PROVE  CallInv'
<1>1. /\ Converting /\ ArgKind \in TrampolineKinds /\ context = "alive" /\ CallTypeOK
      /\ Converted("unset")
      /\ cache' = [cache EXCEPT ![Top.fn][Top.pos] = NoClosure]
      /\ UNCHANGED <<closure, wrappers, handles, extras, asyncs, forever, exposed, context,
                     notified, nested>>
    BY DEF CallInv, ConvertNull, Converting
<1>2. "unset" \notin Closures /\ ArgKind \notin {"full", "boxed"}
    BY <1>1, InvocationAssumption DEF ArgMarks, TrampolineKinds
<1>3. cache' = [cache EXCEPT ![Top.fn][Top.pos] =
                  IF "unset" \in Closures THEN "unset" ELSE NoClosure]
    BY <1>1, <1>2
<1>4. /\ StackInv' /\ ApartInv' /\ ThisInv' /\ OverlapInv' /\ ReleaseInv' /\ CacheInv'
      /\ stack' \in Seq(Frame)
      /\ DOMAIN cache' = Functions
      /\ \A f \in Functions :
           cache'[f] \in [DOMAIN Signature[f] -> Closures \cup {NoClosure}]
      /\ \A c \in Closures : Runs(c)' = Runs(c)
      /\ \A c \in Closures : HeldByCall(c)' <=> HeldByCall(c)
      /\ \A c \in Closures : (InC(c) => InC(c)') /\ (InNew(c)' => InNew(c))
      /\ KindsInv'
    BY <1>1, <1>2, <1>3, ConvertedKeeps
<1>5. /\ OwnersInv' /\ KeptInv' /\ RefsAccounted' /\ ContextInv' /\ ContextLeavesNothing'
    BY <1>1, <1>4, OnlyStack
<1>6. CallTypeOK'
    BY <1>1, <1>4 DEF CallTypeOK
<1> QED
    BY <1>4, <1>5, <1>6 DEF CallInv

LEMMA ConvertDataKeeps ==
    ASSUME CallInv, ConvertData
    PROVE  CallInv'
<1>1. /\ Converting /\ ArgKind = "full" /\ context = "alive" /\ CallTypeOK
      /\ Converted("ours") /\ cache' = cache
      /\ UNCHANGED <<closure, wrappers, handles, extras, asyncs, forever, exposed, context,
                     notified, nested>>
    BY DEF CallInv, ConvertData, Converting
<1>2. "ours" \notin Closures /\ ArgKind \notin TrampolineKinds /\ ArgKind # "boxed"
    BY <1>1, InvocationAssumption DEF ArgMarks, TrampolineKinds
<1>3. /\ StackInv' /\ ApartInv' /\ ThisInv' /\ OverlapInv' /\ ReleaseInv' /\ CacheInv'
      /\ stack' \in Seq(Frame)
      /\ \A c \in Closures : Runs(c)' = Runs(c)
      /\ \A c \in Closures : HeldByCall(c)' <=> HeldByCall(c)
      /\ \A c \in Closures : (InC(c) => InC(c)') /\ (InNew(c)' => InNew(c))
      /\ KindsInv'
    BY <1>1, <1>2, ConvertedKeeps
<1>4. /\ OwnersInv' /\ KeptInv' /\ RefsAccounted' /\ ContextInv' /\ ContextLeavesNothing'
    BY <1>1, <1>3, OnlyStack
<1>5. CallTypeOK'
    BY <1>1, <1>3 DEF CallTypeOK
<1> QED
    BY <1>3, <1>4, <1>5 DEF CallInv

(* The call on top goes on, and holds no closure that it did not hold.      *)
LEMMA TopChanged ==
    ASSUME CallInv, stack # << >>, NEW f \in Frame, SetTop(f), GoodFrame(f),
           f.fn = Top.fn, f.this = Top.this, f.runs = Top.runs,
           DOMAIN f.args = DOMAIN Top.args,
           \A j \in DOMAIN f.args : f.args[j] \in Closures => f.args[j] = Top.args[j],
           \A j \in DOMAIN f.args : Pending(f, j) =>
             Pending(Top, j) /\ (Top.args[j] \in Closures => f.args[j] = Top.args[j]),
           UNCHANGED <<wrappers, cache, nested>>
    PROVE  /\ StackInv' /\ ApartInv' /\ ThisInv' /\ OverlapInv' /\ ReleaseInv' /\ CacheInv'
           /\ stack' \in Seq(Frame)
           /\ \A c \in Closures : Runs(c)' = Runs(c)
           /\ \A c \in Closures : IF c \in ClosureArgs(Top)
                THEN /\ HeldByCall(c)
                     /\ HeldByCall(c)' <=> c \in ClosureArgs(f)
                     /\ InC(c) <=> Top.phase = "c"
                     /\ InNew(c) <=> Top.phase = "in"
                     /\ InC(c)' <=> f.phase = "c" /\ c \in ClosureArgs(f)
                     /\ InNew(c)' <=> f.phase = "in" /\ c \in ClosureArgs(f)
                ELSE /\ HeldByCall(c)' <=> HeldByCall(c)
                     /\ InC(c)' <=> InC(c)
                     /\ InNew(c)' <=> InNew(c)
           /\ (\A c \in Closures : HeldByCall(c) => closure'[c].kind = closure[c].kind)
              => KindsInv'
<1>1. /\ CallTypeOK /\ Len(stack) \in DOMAIN stack /\ Top = stack[Len(stack)]
      /\ KindsMatch(Top, closure) /\ CacheMatches(Top, cache, nested)
    BY TopKnown DEF CallInv
<1>2. ClosureArgs(f) \subseteq ClosureArgs(Top)
    BY DEF ClosureArgs
<1>3. CacheMatches(f, cache', nested')
    <2> SUFFICES ASSUME NEW j \in DOMAIN f.args, Pending(f, j),
                        Signature[f.fn][j] \in TrampolineKinds
                 PROVE  \/ cache'[f.fn][j] = Own(f, j)
                        \/ {cache'[f.fn][j], Own(f, j)} \subseteq nested' \cup {NoClosure}
        BY DEF CacheMatches
    <2>1. Own(f, j) = Own(Top, j) /\ Pending(Top, j)
        BY DEF Own
    <2> QED
        BY <1>1, <2>1 DEF CacheMatches
<1>4. \A i \in DOMAIN stack : CacheMatches(stack[i], cache', nested')
    BY DEF CallInv, CacheInv
<1>5. /\ StackInv' /\ ApartInv' /\ ThisInv' /\ OverlapInv' /\ ReleaseInv' /\ CacheInv'
      /\ stack' \in Seq(Frame)
    <2>1. \A c \in ClosureArgs(f) : c \in ClosureArgs(Top) \/ ~HeldByCall(c)
        BY <1>2
    <2>2. Callbacks(f) \subseteq Callbacks(Top)
        BY DEF Callbacks
    <2> QED
        BY <1>1, <1>3, <1>4, <2>1, <2>2, ReplaceKeeps DEF CallInv
<1>6. \A c \in Closures : Runs(c)' = Runs(c)
    BY <1>1, RunsReplaced
<1>7. /\ DOMAIN stack' = DOMAIN stack /\ stack'[Len(stack)] = f
      /\ \A i \in DOMAIN stack : i # Len(stack) => stack'[i] = stack[i]
    BY <1>1, TopReplaced
<1>8. ASSUME NEW c \in Closures, c \in ClosureArgs(Top)
      PROVE  /\ HeldByCall(c)
             /\ HeldByCall(c)' <=> c \in ClosureArgs(f)
             /\ InC(c) <=> Top.phase = "c"
             /\ InNew(c) <=> Top.phase = "in"
             /\ InC(c)' <=> f.phase = "c" /\ c \in ClosureArgs(f)
             /\ InNew(c)' <=> f.phase = "in" /\ c \in ClosureArgs(f)
    <2>1. \A i \in DOMAIN stack : i # Len(stack) =>
             c \notin ClosureArgs(stack[i]) /\ c \notin ClosureArgs(stack'[i])
        BY <1>1, <1>7, <1>8 DEF CallInv, ApartInv
    <2>2. HeldByCall(c)' <=> c \in ClosureArgs(f)
        BY <1>1, <1>7, <2>1 DEF HeldByCall
    <2>3. (InC(c)' <=> f.phase = "c" /\ c \in ClosureArgs(f))
          /\ (InNew(c)' <=> f.phase = "in" /\ c \in ClosureArgs(f))
        BY <1>1, <1>7, <2>1 DEF InC, InNew
    <2>4. HeldByCall(c) /\ (InC(c) <=> Top.phase = "c") /\ (InNew(c) <=> Top.phase = "in")
        BY <1>1, <1>8, <2>1 DEF HeldByCall, InC, InNew
    <2> QED
        BY <2>2, <2>3, <2>4
<1>9. ASSUME NEW c \in Closures, c \notin ClosureArgs(Top)
      PROVE  /\ HeldByCall(c)' <=> HeldByCall(c)
             /\ InC(c)' <=> InC(c)
             /\ InNew(c)' <=> InNew(c)
    <2>1. c \notin ClosureArgs(f)
        BY <1>2, <1>9
    <2> QED
        BY <1>1, <1>7, <1>9, <2>1 DEF HeldByCall, InC, InNew
<1>10. ASSUME \A c \in Closures : HeldByCall(c) => closure'[c].kind = closure[c].kind
       PROVE  KindsInv'
    <2>1. \A i \in DOMAIN stack : KindsMatch(stack[i], closure')
        BY <1>1, <1>10, KindsStay DEF CallInv
    <2>2. KindsMatch(f, closure')
        BY <1>1, <2>1 DEF KindsMatch
    <2> QED
        BY <1>7, <2>1, <2>2 DEF KindsInv
<1> QED
    BY <1>5, <1>6, <1>8, <1>9, <1>10

LEMMA ConvertFailsKeeps ==
    ASSUME CallInv, ConvertFails
    PROVE  CallInv'
<1> DEFINE f == [Top EXCEPT !.phase = "release", !.pos = 1, !.failed = TRUE]
<1>1. /\ Converting /\ stack # << >> /\ Top.phase = "in" /\ context = "alive" /\ CallTypeOK
      /\ SetTop(f)
      /\ UNCHANGED <<closure, wrappers, cache, handles, extras, asyncs, forever, exposed,
                     context, notified, nested>>
    BY DEF CallInv, ConvertFails, Converting
<1>2. /\ Top \in Frame /\ GoodFrame(Top) /\ Top.done \in Nat /\ DOMAIN Top.args = 1..Len(Top.args)
    BY <1>1, TopKnown
<1>3. /\ f \in Frame /\ f.phase = "release" /\ f.pos = 1 /\ f.failed = TRUE
      /\ f.fn = Top.fn /\ f.this = Top.this /\ f.runs = Top.runs /\ f.args = Top.args
      /\ f.done = Top.done /\ f.threw = Top.threw
    BY <1>2 DEF Frame
<1> HIDE DEF f
<1>4. \A j \in DOMAIN f.args : Pending(f, j) <=> Pending(Top, j)
    BY <1>1, <1>2, <1>3 DEF Pending
<1>5. GoodFrame(f)
    <2>1. FrameInv(f)
        <3>1. FrameInv(Top)
            BY <1>2 DEF GoodFrame
        <3> QED
            BY <1>1, <1>3, <3>1 DEF FrameInv
    <2>2. \A j \in DOMAIN f.args : ArgInv(f, j)
        BY <1>1, <1>2, <1>3, <1>4 DEF GoodFrame, ArgInv
    <2> QED
        BY <2>1, <2>2 DEF GoodFrame
<1>6. /\ StackInv' /\ ApartInv' /\ ThisInv' /\ OverlapInv' /\ ReleaseInv' /\ CacheInv'
      /\ stack' \in Seq(Frame)
      /\ \A c \in Closures : Runs(c)' = Runs(c) /\ (HeldByCall(c)' <=> HeldByCall(c))
      /\ \A c \in Closures : (InC(c) => InC(c)') /\ (InNew(c)' => InNew(c))
      /\ KindsInv'
    <2>1. ClosureArgs(f) = ClosureArgs(Top)
        BY <1>3 DEF ClosureArgs
    <2> QED
        BY <1>1, <1>3, <1>4, <1>5, <2>1, TopChanged
<1>7. /\ OwnersInv' /\ KeptInv' /\ RefsAccounted' /\ ContextInv' /\ ContextLeavesNothing'
    BY <1>1, <1>6, OnlyStack
<1>8. CallTypeOK'
    BY <1>1, <1>6 DEF CallTypeOK
<1> QED
    BY <1>6, <1>7, <1>8 DEF CallInv

LEMMA EnterCKeeps ==
    ASSUME CallInv, EnterC
    PROVE  CallInv'
<1> DEFINE f == [Top EXCEPT !.phase = "c"]
<1>1. /\ stack # << >> /\ Top.phase = "in" /\ Top.pos > Len(Top.args)
      /\ context = "alive" /\ CallTypeOK /\ SetTop(f)
      /\ exposed' = exposed \cup ClosureArgs(Top)
      /\ UNCHANGED <<closure, wrappers, cache, handles, extras, asyncs, forever,
                     context, notified, nested>>
    BY DEF CallInv, EnterC
<1>2. /\ Top \in Frame /\ GoodFrame(Top) /\ Top.done \in Nat /\ Top.pos \in Nat
      /\ DOMAIN Top.args = 1..Len(Top.args) /\ Len(Top.args) \in Nat
      /\ KindsMatch(Top, closure)
    BY <1>1, TopKnown
<1>3. /\ f \in Frame /\ f.phase = "c" /\ f.pos = Top.pos /\ f.failed = Top.failed
      /\ f.fn = Top.fn /\ f.this = Top.this /\ f.runs = Top.runs /\ f.args = Top.args
      /\ f.done = Top.done /\ f.threw = Top.threw
    BY <1>2 DEF Frame
<1> HIDE DEF f
<1>4. \A j \in DOMAIN f.args : Pending(f, j) <=> Pending(Top, j)
    BY <1>1, <1>3 DEF Pending
<1>5. GoodFrame(f)
    <2>1. FrameInv(f)
        <3>1. FrameInv(Top)
            BY <1>2 DEF GoodFrame
        <3>2. Top.pos = Top.done + 1 /\ Top.done <= Len(Top.args) /\ 1 <= Top.pos
            BY <1>1, <3>1 DEF FrameInv
        <3>3. Top.done = Len(Top.args)
            BY <1>1, <1>2, <3>2
        <3> QED
            BY <1>1, <1>3, <3>1, <3>2, <3>3 DEF FrameInv
    <2>2. \A j \in DOMAIN f.args : ArgInv(f, j)
        BY <1>1, <1>2, <1>3, <1>4 DEF GoodFrame, ArgInv
    <2> QED
        BY <2>1, <2>2 DEF GoodFrame
<1>6. ClosureArgs(f) = ClosureArgs(Top)
    BY <1>3 DEF ClosureArgs
<1>7. /\ StackInv' /\ ApartInv' /\ ThisInv' /\ OverlapInv' /\ ReleaseInv' /\ CacheInv'
      /\ stack' \in Seq(Frame)
      /\ \A c \in Closures : Runs(c)' = Runs(c) /\ (HeldByCall(c)' <=> HeldByCall(c))
      /\ \A c \in Closures : IF c \in ClosureArgs(Top) THEN InNew(c) /\ InC(c)' /\ ~InNew(c)'
                             ELSE (InC(c)' <=> InC(c)) /\ (InNew(c)' <=> InNew(c))
      /\ KindsInv'
    BY <1>1, <1>3, <1>4, <1>5, <1>6, TopChanged
<1>8. OwnersInv'
    <2> SUFFICES ASSUME NEW c \in Closures PROVE OwnInv(c)'
        BY DEF OwnersInv
    <2>1. OwnInv(c)
        BY DEF CallInv, OwnersInv
    <2>2. CASE c \in ClosureArgs(Top)
        <3>1. Runs(c) = {} /\ Outlives(c)
            BY <1>7, <2>1, <2>2 DEF OwnInv, NewInv
        <3>2. closure[c].kind \in ArgKinds
            <4>1. Top.fn \in Functions /\ DOMAIN Top.args = DOMAIN Signature[Top.fn]
                BY <1>1, <1>2 DEF GoodFrame, FrameInv
            <4>2. PICK j \in DOMAIN Top.args : Top.args[j] = c
                BY <2>2 DEF ClosureArgs
            <4>3. Signature[Top.fn] \in Seq(ArgKinds)
                BY <4>1, InvocationAssumption
            <4>4. Signature[Top.fn][j] \in ArgKinds
                BY <4>1, <4>3, LenProperties, ElementOfSeq
            <4> QED
                BY <1>2, <4>2, <4>4 DEF KindsMatch
        <3>3. closure[c].kind \notin {"unused", "signal"}
            BY <3>2 DEF ArgKinds, TrampolineKinds
        <3>4. InC(c)' /\ ~InNew(c)' /\ Runs(c)' = {}
            BY <1>7, <2>2, <3>1
        <3> QED
            BY <1>1, <2>1, <3>1, <3>3, <3>4
               DEF OwnInv, HolderInv, ExposedInv, NewInv, AsyncInv, Outlives
    <2>3. CASE c \notin ClosureArgs(Top)
        BY <1>1, <1>7, <2>1, <2>3, OwnStays
    <2> QED
        BY <2>2, <2>3
<1>9. KeptInv' /\ RefsAccounted' /\ ContextInv' /\ ContextLeavesNothing'
    <2>1. RefsAccounted'
        BY <1>1, <1>7 DEF CallInv, RefsAccounted, One
    <2> QED
        BY <1>1, <2>1 DEF CallInv, KeptInv, ContextInv, ContextLeavesNothing
<1>10. CallTypeOK'
    BY <1>1, <1>7 DEF CallTypeOK, ClosureArgs
<1> QED
    BY <1>7, <1>8, <1>9, <1>10 DEF CallInv

LEMMA ReturnFromCKeeps ==
    ASSUME CallInv, NEW throws \in BOOLEAN, NEW fails \in BOOLEAN, ReturnFromC(throws, fails)
    PROVE  CallInv'
<1> DEFINE A == [j \in DOMAIN Top.args |-> IF Top.args[j] = "ours" /\ ~throws
                                           THEN "theirs" ELSE Top.args[j]]
           f == [Top EXCEPT !.phase = "release", !.pos = 1, !.failed = fails, !.threw = throws,
                            !.args = A]
           gone == {c \in ClosureArgs(Top) : \/ closure[c].kind = "call"
                                             \/ closure[c].kind = "boxed" /\ c \notin handles}
<1>1. /\ stack # << >> /\ Top.phase = "c" /\ context = "alive" /\ CallTypeOK
    BY DEF CallInv, ReturnFromC, CActs
<1>2. /\ Top \in Frame /\ GoodFrame(Top) /\ Top.done \in Nat /\ Top.pos \in Nat
      /\ DOMAIN Top.args = 1..Len(Top.args) /\ Len(Top.args) \in Nat
      /\ \A j \in DOMAIN Top.args : Top.args[j] \in Closures \cup ArgMarks
    BY <1>1, TopKnown
<1>3. /\ SetTop(f) /\ exposed' = exposed \ gone
      /\ UNCHANGED <<closure, wrappers, cache, handles, extras, asyncs, forever,
                     context, notified, nested>>
    <2>1. f = [Top EXCEPT !.phase = "release", !.pos = 1, !.failed = fails, !.threw = throws,
                          !.args = [j \in DOMAIN @ |-> IF @[j] = "ours" /\ ~throws
                                                       THEN "theirs" ELSE @[j]]]
        BY <1>2 DEF Frame
    <2> QED
        BY <2>1 DEF ReturnFromC
<1>4. "ours" \notin Closures /\ "theirs" \notin Closures /\ "theirs" \in ArgMarks
    BY InvocationAssumption DEF ArgMarks
<1>5. A \in Seq(Closures \cup ArgMarks) /\ Len(A) = Len(Top.args) /\ DOMAIN A = DOMAIN Top.args
    <2>1. A \in [1..Len(Top.args) -> Closures \cup ArgMarks]
        BY <1>2, <1>4
    <2> QED
        BY <1>2, <2>1, SameLength
<1>6. \A j \in DOMAIN Top.args :
         A[j] = IF Top.args[j] = "ours" /\ ~throws THEN "theirs" ELSE Top.args[j]
    OBVIOUS
<1> HIDE DEF A
<1>7. /\ f \in Frame /\ f.phase = "release" /\ f.pos = 1 /\ f.failed = fails /\ f.threw = throws
      /\ f.fn = Top.fn /\ f.this = Top.this /\ f.runs = Top.runs /\ f.args = A
      /\ f.done = Top.done
    BY <1>2, <1>5 DEF Frame
<1> HIDE DEF f
<1>8. \A j \in DOMAIN f.args : Pending(f, j) <=> Pending(Top, j)
    BY <1>1, <1>2, <1>5, <1>7 DEF Pending
<1>9. \A j \in DOMAIN f.args : f.args[j] \in Closures \/ Top.args[j] \in Closures
                                 => f.args[j] = Top.args[j]
    BY <1>4, <1>5, <1>6, <1>7
<1>10. GoodFrame(f)
    <2>1. FrameInv(f)
        <3>1. FrameInv(Top)
            BY <1>2 DEF GoodFrame
        <3>2. f.done <= Len(f.args) /\ DOMAIN f.args = DOMAIN Top.args
            BY <1>1, <1>5, <1>7, <3>1 DEF FrameInv
        <3>3. \A j, l \in DOMAIN f.args :
                 f.args[j] \in Closures /\ f.args[j] = f.args[l] => j = l
            BY <1>9, <3>1, <3>2 DEF FrameInv
        <3> QED
            BY <1>1, <1>7, <3>1, <3>2, <3>3 DEF FrameInv
    <2>2. ASSUME NEW j \in DOMAIN f.args PROVE ArgInv(f, j)
        <3>1. ArgInv(Top, j) /\ j \in DOMAIN Top.args
            BY <1>2, <1>5, <1>7 DEF GoodFrame
        <3>2. f.args[j] = IF Top.args[j] = "ours" /\ ~throws THEN "theirs" ELSE Top.args[j]
            BY <1>6, <1>7, <3>1
        <3>3. Pending(f, j) <=> Pending(Top, j)
            BY <1>8
        <3>4. Top.args[j] \notin {"theirs", "lost"}
            BY <1>1, <3>1 DEF ArgInv
        <3>5. CASE Top.args[j] = "ours"
            <4>1. Pending(Top, j) /\ Pending(f, j) /\ ~(j > f.done)
                BY <1>7, <3>1, <3>3, <3>5 DEF ArgInv
            <4>2. Signature[f.fn][j] \notin TrampolineKinds \cup {"boxed"}
                BY <1>4, <1>7, <3>1, <3>5, <4>1, InvocationAssumption DEF ArgInv, ArgMarks
            <4> QED
                BY <1>4, <1>7, <3>2, <3>5, <4>1, <4>2 DEF ArgInv
        <3>6. CASE Top.args[j] # "ours"
            BY <1>7, <3>1, <3>2, <3>3, <3>4, <3>6 DEF ArgInv
        <3> QED
            BY <3>5, <3>6
    <2> QED
        BY <2>1, <2>2 DEF GoodFrame
<1>11. ClosureArgs(f) = ClosureArgs(Top)
    BY <1>5, <1>7, <1>9 DEF ClosureArgs
<1>12. /\ StackInv' /\ ApartInv' /\ ThisInv' /\ OverlapInv' /\ ReleaseInv' /\ CacheInv'
       /\ stack' \in Seq(Frame)
       /\ \A c \in Closures : Runs(c)' = Runs(c) /\ (HeldByCall(c)' <=> HeldByCall(c))
       /\ \A c \in Closures : IF c \in ClosureArgs(Top) THEN ~InC(c)' /\ ~InNew(c)'
                              ELSE (InC(c)' <=> InC(c)) /\ (InNew(c)' <=> InNew(c))
       /\ KindsInv'
    <2>1. DOMAIN f.args = DOMAIN Top.args
        BY <1>5, <1>7
    <2> QED
        BY <1>1, <1>3, <1>7, <1>8, <1>9, <1>10, <1>11, <2>1, TopChanged
<1>13. OwnersInv'
    <2> SUFFICES ASSUME NEW c \in Closures PROVE OwnInv(c)'
        BY DEF OwnersInv
    <2>1. OwnInv(c)
        BY DEF CallInv, OwnersInv
    <2>2. CASE c \in ClosureArgs(Top)
        <3>1. ~InC(c)' /\ ~InNew(c)' /\ Runs(c)' = Runs(c)
            BY <1>12, <2>2
        <3>2. c \in exposed' => c \in exposed /\ closure[c].kind # "call"
                                /\ (closure[c].kind = "boxed" => c \in handles)
            BY <1>3, <2>2
        <3> QED
            BY <1>3, <2>1, <3>1, <3>2
               DEF OwnInv, HolderInv, ExposedInv, NewInv, AsyncInv, Outlives
    <2>3. CASE c \notin ClosureArgs(Top)
        BY <1>1, <1>3, <1>12, <2>1, <2>3, OwnStays
    <2> QED
        BY <2>2, <2>3
<1>14. KeptInv' /\ RefsAccounted' /\ ContextInv' /\ ContextLeavesNothing'
    <2>1. RefsAccounted'
        BY <1>3, <1>12 DEF CallInv, RefsAccounted, One
    <2> QED
        BY <1>1, <1>3, <2>1 DEF CallInv, KeptInv, ContextInv, ContextLeavesNothing
<1>15. CallTypeOK'
    BY <1>1, <1>3, <1>12 DEF CallTypeOK
<1> QED
    BY <1>12, <1>13, <1>14, <1>15 DEF CallInv

(* The frame after the release of an argument, which then holds v.          *)
LEMMA ReleasedKeeps ==
    ASSUME CallInv, Releasing, NEW v \in ArgMarks, ReleaseLeaves(v),
           v # "ours",
           v = "lost" => Top.failed,
           v = "theirs" => ~Top.threw,
           UNCHANGED <<wrappers, cache, nested>>
    PROVE  /\ StackInv' /\ ApartInv' /\ ThisInv' /\ OverlapInv' /\ ReleaseInv' /\ CacheInv'
           /\ stack' \in Seq(Frame)
           /\ \A c \in Closures : Runs(c)' = Runs(c)
           /\ \A c \in Closures : (InC(c) => InC(c)') /\ (InNew(c)' => InNew(c))
           /\ \A c \in Closures : IF c = Top.args[Top.pos] THEN HeldByCall(c) /\ ~HeldByCall(c)'
                                  ELSE HeldByCall(c)' <=> HeldByCall(c)
           /\ (\A c \in Closures : HeldByCall(c) => closure'[c].kind = closure[c].kind)
              => KindsInv'
<1> DEFINE A == [Top.args EXCEPT ![Top.pos] = v]
           f == [Top EXCEPT !.pos = Top.pos + 1, !.args = A]
<1>1. /\ stack # << >> /\ Top.phase = "release" /\ Top.pos <= Top.done /\ CallTypeOK
    BY DEF Releasing, CallInv
<1>2. /\ Top \in Frame /\ GoodFrame(Top) /\ Top.pos \in Nat /\ Top.done \in Nat
      /\ Len(Top.args) \in Nat /\ DOMAIN Top.args = 1..Len(Top.args)
      /\ \A j \in DOMAIN Top.args : Top.args[j] \in Closures \cup ArgMarks
    BY <1>1, TopKnown
<1>3. FrameInv(Top) /\ Top.pos \in DOMAIN Top.args
    <2>1. FrameInv(Top)
        BY <1>2 DEF GoodFrame
    <2>2. 1 <= Top.pos /\ Top.done <= Len(Top.args)
        BY <1>1, <2>1 DEF FrameInv
    <2> QED
        BY <1>1, <1>2, <2>1, <2>2
<1>4. SetTop(f)
    <2>1. f = [Top EXCEPT !.pos = @ + 1, !.args[Top.pos] = v]
        BY <1>2 DEF Frame
    <2> QED
        BY <2>1 DEF ReleaseLeaves
<1>5. v \notin Closures
    BY InvocationAssumption
<1>6. /\ A \in Seq(Closures \cup ArgMarks) /\ Len(A) = Len(Top.args) /\ DOMAIN A = DOMAIN Top.args
      /\ A[Top.pos] = v /\ \A j \in DOMAIN Top.args : j # Top.pos => A[j] = Top.args[j]
    <2>1. A \in [1..Len(Top.args) -> Closures \cup ArgMarks]
        BY <1>2
    <2> QED
        BY <1>2, <1>3, <2>1, SameLength
<1> HIDE DEF A
<1>7. /\ f \in Frame /\ f.phase = "release" /\ f.pos = Top.pos + 1 /\ f.failed = Top.failed
      /\ f.threw = Top.threw /\ f.fn = Top.fn /\ f.this = Top.this /\ f.runs = Top.runs
      /\ f.args = A /\ f.done = Top.done
    <2>1. Top \in Frame /\ Top.phase = "release" /\ Top.pos + 1 \in Nat
          /\ A \in Seq(Closures \cup ArgMarks)
        BY <1>1, <1>2, <1>6
    <2> QED
        BY <2>1 DEF Frame
<1> HIDE DEF f
<1>8. \A j \in DOMAIN f.args : j \in Nat /\ (Pending(f, j) <=> Pending(Top, j) /\ j # Top.pos)
    BY <1>1, <1>2, <1>6, <1>7 DEF Pending
<1>9. GoodFrame(f)
    <2>1. FrameInv(f)
        <3>1. \A j, l \in DOMAIN f.args :
                 f.args[j] \in Closures /\ f.args[j] = f.args[l] => j = l
            BY <1>3, <1>5, <1>6, <1>7 DEF FrameInv
        <3>2. 1 <= f.pos /\ f.done <= Len(f.args) /\ DOMAIN f.args = DOMAIN Top.args
            BY <1>1, <1>2, <1>3, <1>6, <1>7 DEF FrameInv
        <3> QED
            BY <1>1, <1>3, <1>7, <3>1, <3>2 DEF FrameInv
    <2>2. ASSUME NEW j \in DOMAIN f.args PROVE ArgInv(f, j)
        <3>1. ArgInv(Top, j) /\ j \in DOMAIN Top.args /\ j \in Nat
            BY <1>2, <1>6, <1>7, <1>8 DEF GoodFrame
        <3>2. CASE j = Top.pos
            <4>1. ~Pending(f, j) /\ f.args[j] = v /\ ~(j > f.done)
                BY <1>1, <1>2, <1>6, <1>7, <1>8, <3>2
            <4> QED
                BY <1>5, <1>7, <4>1 DEF ArgInv
        <3>3. CASE j # Top.pos
            <4>1. f.args[j] = Top.args[j] /\ (Pending(f, j) <=> Pending(Top, j))
                BY <1>6, <1>7, <1>8, <3>1, <3>3
            <4> QED
                BY <1>1, <1>7, <3>1, <4>1 DEF ArgInv
        <3> QED
            BY <3>2, <3>3
    <2> QED
        BY <2>1, <2>2 DEF GoodFrame
<1>10. /\ StackInv' /\ ApartInv' /\ ThisInv' /\ OverlapInv' /\ ReleaseInv' /\ CacheInv'
       /\ stack' \in Seq(Frame)
       /\ \A c \in Closures : Runs(c)' = Runs(c)
       /\ \A c \in Closures : IF c \in ClosureArgs(Top)
            THEN /\ HeldByCall(c)
                 /\ HeldByCall(c)' <=> c \in ClosureArgs(f)
                 /\ ~InC(c) /\ ~InNew(c)'
            ELSE /\ HeldByCall(c)' <=> HeldByCall(c)
                 /\ InC(c)' <=> InC(c)
                 /\ InNew(c)' <=> InNew(c)
       /\ (\A c \in Closures : HeldByCall(c) => closure'[c].kind = closure[c].kind)
          => KindsInv'
    <2>1. DOMAIN f.args = DOMAIN Top.args
        BY <1>6, <1>7
    <2>2. \A j \in DOMAIN f.args : f.args[j] \in Closures => f.args[j] = Top.args[j]
        BY <1>5, <1>6, <1>7
    <2>3. \A j \in DOMAIN f.args : Pending(f, j) =>
             Pending(Top, j) /\ (Top.args[j] \in Closures => f.args[j] = Top.args[j])
        BY <1>6, <1>7, <1>8
    <2> QED
        BY <1>1, <1>4, <1>7, <1>9, <2>1, <2>2, <2>3, TopChanged
<1>11. ASSUME NEW c \in Closures
       PROVE  IF c = Top.args[Top.pos] THEN HeldByCall(c) /\ ~HeldByCall(c)'
              ELSE HeldByCall(c)' <=> HeldByCall(c)
    <2>1. CASE c = Top.args[Top.pos]
        <3>1. c \in ClosureArgs(Top)
            BY <1>3, <2>1 DEF ClosureArgs
        <3>2. c \notin ClosureArgs(f)
            BY <1>3, <1>5, <1>6, <1>7, <2>1 DEF ClosureArgs, FrameInv
        <3> QED
            BY <1>10, <2>1, <3>1, <3>2
    <2>2. CASE c # Top.args[Top.pos]
        <3>1. c \in ClosureArgs(Top) <=> c \in ClosureArgs(f)
            BY <1>3, <1>5, <1>6, <1>7, <2>2 DEF ClosureArgs
        <3> QED
            BY <1>10, <2>2, <3>1
    <2> QED
        BY <2>1, <2>2
<1> QED
    BY <1>10, <1>11

(* What is known of the argument that is released.                          *)
LEMMA ReleasingKnown ==
    ASSUME CallInv, Releasing
    PROVE  /\ ArgKind = "full" => Top.args[Top.pos] \in {"ours", "theirs"}
           /\ ArgKind = "boxed" => Top.args[Top.pos] \in Closures
           /\ ArgKind \in TrampolineKinds =>
                /\ Top.args[Top.pos] \in Closures \cup {"unset"}
                /\ \/ cache[Top.fn][Top.pos] = Own(Top, Top.pos)
                   \/ {cache[Top.fn][Top.pos], Own(Top, Top.pos)} \subseteq nested \cup {NoClosure}
           /\ Top.args[Top.pos] = "theirs" => ~Top.threw
           /\ Top.args[Top.pos] = "ours" => Top.failed \/ Top.threw
<1>1. /\ stack # << >> /\ Top.phase = "release" /\ Top.pos <= Top.done /\ CallTypeOK
    BY DEF Releasing, CallInv
<1>2. /\ Top \in Frame /\ GoodFrame(Top) /\ Top.pos \in Nat /\ Top.done \in Nat
      /\ Len(Top.args) \in Nat /\ DOMAIN Top.args = 1..Len(Top.args)
      /\ CacheMatches(Top, cache, nested)
    BY <1>1, TopKnown
<1>3. Top.pos \in DOMAIN Top.args
    <2>1. FrameInv(Top)
        BY <1>2 DEF GoodFrame
    <2>2. 1 <= Top.pos /\ Top.done <= Len(Top.args)
        BY <1>1, <2>1 DEF FrameInv
    <2> QED
        BY <1>1, <1>2, <2>2
<1>4. Pending(Top, Top.pos) /\ ArgInv(Top, Top.pos)
    BY <1>1, <1>2, <1>3 DEF Pending, GoodFrame
<1> QED
    BY <1>1, <1>2, <1>3, <1>4 DEF ArgInv, ArgKind, CacheMatches

(* A closure with references to drop has been made.                         *)
LEMMA DropsKnown ==
    ASSUME CallInv, NEW c \in Closures, NEW n \in Nat, n > 0,
           c \notin nested => n <= closure[c].refs
    PROVE  closure[c].kind # "unused"
<1>1. CASE c \in nested
    BY <1>1 DEF CallInv, OwnersInv, OwnInv, HolderInv, TrampolineKinds
<1>2. CASE c \notin nested
    BY <1>2 DEF CallInv, KeptInv, RecordInv, UnusedClosure
<1> QED
    BY <1>1, <1>2

(* A call that held closure own drops a reference on closure c, which is    *)
(* the same but for those in nested.                                        *)
LEMMA HolderGone ==
    ASSUME CallInv, context = "alive", NEW c, NEW own,
           closure' = [d \in Closures |-> IF d = c THEN Unreffed(closure[d], 1) ELSE closure[d]],
           UNCHANGED <<wrappers, handles, extras, asyncs, forever, exposed, context, notified,
                       nested>>,
           \A d \in Closures \ nested : d = c <=> d = own,
           \A d \in Closures : IF d = own THEN HeldByCall(d) /\ ~HeldByCall(d)'
                               ELSE HeldByCall(d)' <=> HeldByCall(d),
           \A d \in Closures : Runs(d)' = Runs(d),
           \A d \in Closures : (InC(d) => InC(d)') /\ (InNew(d)' => InNew(d))
    PROVE  /\ OwnersInv' /\ KeptInv' /\ RefsAccounted' /\ ContextInv'
           /\ ContextLeavesNothing'
           /\ closure' \in [Closures -> ClosureRecord]
           /\ \A d \in Closures : closure'[d].kind = closure[d].kind
<1>1. /\ CallTypeOK
      /\ \A d \in Closures \ nested :
           /\ closure[d].refs = Cardinality(Runs(d)) + One(HeldByCall(d)) + One(d \in handles)
                                + One(d \in extras) + One(d \in asyncs) + One(d \in forever)
           /\ Cardinality(Runs(d)) \in Nat
    BY RunsCounted DEF CallInv, RefsAccounted
<1>2. ASSUME NEW d \in Closures
      PROVE  /\ closure'[d] \in ClosureRecord
             /\ closure'[d].kind = closure[d].kind
             /\ closure'[d].refs = closure[d].refs - One(d = c)
             /\ RecordInv(closure'[d], d \in notified, wrappers)
    <2>1. /\ closure[d] \in ClosureRecord /\ closure[d].refs \in Int
          /\ RecordInv(closure[d], d \in notified, wrappers)
          /\ wrappers \in SUBSET Objects /\ (d \in notified) \in BOOLEAN
        BY <1>1 DEF CallInv, KeptInv, CallTypeOK, ClosureRecord
    <2>2. CASE d = c
        <3>1. d \notin nested => 1 <= closure[d].refs
            BY <1>1, <2>2 DEF One
        <3>2. closure[d].kind # "unused"
            BY <3>1, DropsKnown
        <3>3. closure'[d] = Unreffed(closure[d], 1)
            BY <2>2
        <3> QED
            BY <2>1, <2>2, <3>2, <3>3, UnreffedRecord, UnreffedKept DEF One
    <2>3. CASE d # c
        BY <2>1, <2>3 DEF One
    <2> QED
        BY <2>2, <2>3
<1>3. closure' \in [Closures -> ClosureRecord]
    BY <1>2
<1>4. OwnersInv'
    BY <1>2, OwnStays DEF CallInv, OwnersInv
<1>5. KeptInv'
    BY <1>2 DEF KeptInv
<1>6. RefsAccounted'
    <2> SUFFICES ASSUME NEW d \in Closures, d \notin nested'
                 PROVE  closure'[d].refs =
                          Cardinality(Runs(d)') + One(HeldByCall(d)') + One(d \in handles')
                          + One(d \in extras') + One(d \in asyncs') + One(d \in forever')
        BY DEF RefsAccounted
    <2>1. closure'[d].refs = closure[d].refs - One(d = own) /\ Runs(d)' = Runs(d)
        BY <1>2
    <2>2. CASE d = own
        BY <1>1, <2>1, <2>2 DEF One
    <2>3. CASE d # own
        BY <1>1, <2>1, <2>3 DEF One
    <2> QED
        BY <2>2, <2>3
<1> QED
    BY <1>2, <1>3, <1>4, <1>5, <1>6 DEF CallInv, ContextInv, ContextLeavesNothing

LEMMA ReleaseCallbackKeeps ==
    ASSUME CallInv, ReleaseCallback
    PROVE  CallInv'
<1> DEFINE k == cache[Top.fn][Top.pos]
           own == Top.args[Top.pos]
<1>1. /\ Releasing /\ context = "alive" /\ CallTypeOK /\ stack # << >>
      /\ closure' = [c \in Closures |-> IF c = k THEN Unreffed(closure[c], 1) ELSE closure[c]]
      /\ ReleaseLeaves("unset") /\ "unset" \in ArgMarks
      /\ UNCHANGED <<wrappers, cache, handles, extras, asyncs, forever, exposed, context,
                     notified, nested>>
    BY DEF CallInv, ReleaseCallback, Releasing, ArgMarks
<1>2. k = Own(Top, Top.pos) \/ {k, Own(Top, Top.pos)} \subseteq nested \cup {NoClosure}
    BY <1>1, ReleasingKnown DEF ReleaseCallback
<1>3. \A d \in Closures \ nested : d = k <=> d = own
    BY <1>2, InvocationAssumption DEF Own
<1>4. /\ StackInv' /\ ApartInv' /\ ThisInv' /\ OverlapInv' /\ ReleaseInv' /\ CacheInv'
      /\ stack' \in Seq(Frame)
      /\ \A d \in Closures : Runs(d)' = Runs(d)
      /\ \A d \in Closures : (InC(d) => InC(d)') /\ (InNew(d)' => InNew(d))
      /\ \A d \in Closures : IF d = own THEN HeldByCall(d) /\ ~HeldByCall(d)'
                             ELSE HeldByCall(d)' <=> HeldByCall(d)
      /\ (\A d \in Closures : HeldByCall(d) => closure'[d].kind = closure[d].kind) => KindsInv'
    BY <1>1, ReleasedKeeps
<1> HIDE DEF k, own
<1>5. /\ OwnersInv' /\ KeptInv' /\ RefsAccounted' /\ ContextInv' /\ ContextLeavesNothing'
      /\ closure' \in [Closures -> ClosureRecord]
      /\ \A d \in Closures : closure'[d].kind = closure[d].kind
    BY <1>1, <1>3, <1>4, HolderGone
<1>6. CallTypeOK' /\ KindsInv'
    BY <1>1, <1>4, <1>5 DEF CallTypeOK
<1> QED
    BY <1>4, <1>5, <1>6 DEF CallInv

LEMMA ReleaseBoxedKeeps ==
    ASSUME CallInv, ReleaseBoxed
    PROVE  CallInv'
<1> DEFINE c == Top.args[Top.pos]
<1>1. /\ Releasing /\ context = "alive" /\ CallTypeOK /\ c \in Closures
      /\ closure' = [closure EXCEPT ![c] = Unreffed(closure[c], 1)]
      /\ ReleaseLeaves("unset") /\ "unset" \in ArgMarks
      /\ UNCHANGED <<wrappers, cache, handles, extras, asyncs, forever, exposed, context,
                     notified, nested>>
    BY ReleasingKnown DEF CallInv, ReleaseBoxed, Releasing, ArgMarks
<1> HIDE DEF c
<1>2. /\ StackInv' /\ ApartInv' /\ ThisInv' /\ OverlapInv' /\ ReleaseInv' /\ CacheInv'
      /\ stack' \in Seq(Frame)
      /\ \A d \in Closures : Runs(d)' = Runs(d)
      /\ \A d \in Closures : (InC(d) => InC(d)') /\ (InNew(d)' => InNew(d))
      /\ \A d \in Closures : IF d = c THEN HeldByCall(d) /\ ~HeldByCall(d)'
                             ELSE HeldByCall(d)' <=> HeldByCall(d)
      /\ (\A d \in Closures : HeldByCall(d) => closure'[d].kind = closure[d].kind) => KindsInv'
    BY <1>1, ReleasedKeeps DEF c
<1>3. /\ OwnersInv' /\ KeptInv' /\ RefsAccounted' /\ ContextInv' /\ ContextLeavesNothing'
      /\ closure' \in [Closures -> ClosureRecord]
      /\ \A d \in Closures : closure'[d].kind = closure[d].kind
    <2>1. closure' = [d \in Closures |-> IF d = c THEN Unreffed(closure[d], 1) ELSE closure[d]]
        BY <1>1 DEF CallTypeOK
    <2> QED
        BY <1>1, <1>2, <2>1, HolderGone
<1>4. CallTypeOK' /\ KindsInv'
    BY <1>1, <1>2, <1>3 DEF CallTypeOK
<1> QED
    BY <1>2, <1>3, <1>4 DEF CallInv

LEMMA ReleaseDataKeeps ==
    ASSUME CallInv, ReleaseData
    PROVE  CallInv'
<1> DEFINE a == Top.args[Top.pos]
           v == AfterCall(Top, a)
<1>1. /\ Releasing /\ context = "alive" /\ CallTypeOK /\ stack # << >>
      /\ a \in {"ours", "theirs"}
      /\ a = "theirs" => ~Top.threw
      /\ a = "ours" => Top.failed \/ Top.threw
      /\ ReleaseLeaves(v)
      /\ UNCHANGED <<closure, wrappers, cache, handles, extras, asyncs, forever, exposed,
                     context, notified, nested>>
    BY ReleasingKnown DEF CallInv, ReleaseData, Releasing
<1>2. a \notin Closures
    BY <1>1, InvocationAssumption DEF ArgMarks
<1>3. Top.failed \in BOOLEAN /\ Top.threw \in BOOLEAN
    BY <1>1, TopKnown DEF Frame
<1> HIDE DEF a
<1>4. v \in ArgMarks /\ v # "ours" /\ (v = "lost" => Top.failed) /\ (v = "theirs" => ~Top.threw)
    BY <1>1, <1>3 DEF AfterCall, ArgMarks
<1> HIDE DEF v
<1>5. /\ StackInv' /\ ApartInv' /\ ThisInv' /\ OverlapInv' /\ ReleaseInv' /\ CacheInv'
      /\ stack' \in Seq(Frame)
      /\ \A d \in Closures : Runs(d)' = Runs(d) /\ (HeldByCall(d)' <=> HeldByCall(d))
      /\ \A d \in Closures : (InC(d) => InC(d)') /\ (InNew(d)' => InNew(d))
      /\ KindsInv'
    BY <1>1, <1>2, <1>4, ReleasedKeeps DEF a
<1>6. /\ OwnersInv' /\ KeptInv' /\ RefsAccounted' /\ ContextInv' /\ ContextLeavesNothing'
    BY <1>1, <1>5, OnlyStack
<1>7. CallTypeOK'
    BY <1>1, <1>5 DEF CallTypeOK
<1> QED
    BY <1>5, <1>6, <1>7 DEF CallInv

LEMMA CallEndsKeeps ==
    ASSUME CallInv, CallEnds
    PROVE  CallInv'
<1>1. /\ stack # << >> /\ Top.phase = "release" /\ Top.pos > Top.done /\ context = "alive"
      /\ CallTypeOK /\ Pop
      /\ UNCHANGED <<closure, wrappers, cache, handles, extras, asyncs, forever, exposed,
                     context, notified, nested>>
    BY DEF CallInv, CallEnds
<1>2. /\ Top \in Frame /\ GoodFrame(Top) /\ Top.pos \in Nat /\ Top.done \in Nat
      /\ DOMAIN Top.args = 1..Len(Top.args) /\ Len(Top.args) \in Nat
    BY <1>1, TopKnown
<1>3. ClosureArgs(Top) = {} /\ Top.runs = NoClosure
    <2>1. \A j \in DOMAIN Top.args : ~Pending(Top, j)
        BY <1>1, <1>2 DEF Pending
    <2> QED
        BY <1>1, <1>2, <2>1 DEF GoodFrame, ArgInv, FrameInv, ClosureArgs
<1>4. StackInv' /\ ApartInv' /\ OverlapInv' /\ ReleaseInv'
    BY <1>1, PopKeeps DEF CallInv
<1>5. /\ DOMAIN stack' \subseteq DOMAIN stack /\ \A i \in DOMAIN stack' : stack'[i] = stack[i]
      /\ stack' \in Seq(Frame)
    BY <1>1, FramePopped
<1>6. ThisInv' /\ KindsInv' /\ CacheInv' /\ CallTypeOK'
    BY <1>1, <1>5 DEF CallInv, ThisInv, KindsInv, CacheInv, CallTypeOK
<1>7. /\ OwnersInv' /\ KeptInv' /\ RefsAccounted' /\ ContextInv' /\ ContextLeavesNothing'
    <2>1. \A c \in Closures : c # Top.runs
        BY <1>3, InvocationAssumption
    <2>2. \A c \in Closures : Runs(c)' = Runs(c)
        BY <1>1, <2>1, RunsPopped
    <2>3. \A c \in Closures : HeldByCall(c)' <=> HeldByCall(c)
        BY <1>1, <1>3, HeldPopped
    <2>4. \A c \in Closures : (InC(c)' <=> InC(c)) /\ (InNew(c)' <=> InNew(c))
        BY <1>1, PhasesPopped
    <2> QED
        BY <1>1, <2>2, <2>3, <2>4, OnlyStack
<1> QED
    BY <1>4, <1>6, <1>7 DEF CallInv

(* A conversion makes closure c.                                            *)
LEMMA ConvertCallbackKeeps ==
    ASSUME CallInv, NEW c \in Closures, ConvertCallback(c)
    PROVE  CallInv'
<1> DEFINE r == NewClosure(ArgKind, Top.this, RefsTaken(ArgKind))
<1>1. /\ Converting /\ ArgKind \in TrampolineKinds /\ context = "alive" /\ CallTypeOK
      /\ stack # << >> /\ closure[c] = UnusedClosure
      /\ closure' = [closure EXCEPT ![c] = r]
      /\ cache' = [cache EXCEPT ![Top.fn][Top.pos] = c]
      /\ Converted(c)
      /\ handles' = IF ArgKind = "notified" THEN handles \cup {c} ELSE handles
      /\ extras' = IF ArgKind = "async" THEN extras \cup {c} ELSE extras
      /\ forever' = IF ArgKind \in {"undying", "forever"} THEN forever \cup {c} ELSE forever
      /\ nested' = IF WithinItself THEN nested \cup {c} ELSE nested
      /\ UNCHANGED <<wrappers, asyncs, exposed, context, notified>>
    BY DEF CallInv, ConvertCallback, Converting
<1>2. /\ Runs(c) = {} /\ Cardinality(Runs(c)) = 0
      /\ ~HeldByCall(c) /\ ~InC(c) /\ ~InNew(c)
      /\ c \notin handles \cup extras \cup asyncs \cup forever
      /\ c \notin notified \cup nested /\ c \notin exposed
    BY <1>1, UnusedUnheld
<1>3. /\ r \in ClosureRecord /\ RecordInv(r, FALSE, wrappers) /\ r.refs = RefsTaken(ArgKind)
      /\ r.kind = ArgKind
    <2>1. /\ ArgKind \in ClosureKinds /\ wrappers \in SUBSET Objects
          /\ Top.this \in wrappers \cup {NoObject} /\ Top.this \in Objects \cup {NoObject}
        BY <1>1, TopKnown DEF CallTypeOK, ClosureKinds
    <2>2. RefsTaken(ArgKind) \in Nat /\ RefsTaken(ArgKind) > 0
        BY DEF RefsTaken
    <2> QED
        BY <2>1, <2>2, NewRecord
<1> HIDE DEF r
<1>4. /\ closure' \in [Closures -> ClosureRecord]
      /\ closure'[c] = r
      /\ \A d \in Closures : d # c => closure'[d] = closure[d]
    BY <1>1, <1>3 DEF CallTypeOK
<1>5. /\ StackInv' /\ ApartInv' /\ ThisInv' /\ OverlapInv' /\ ReleaseInv' /\ CacheInv'
      /\ stack' \in Seq(Frame)
      /\ DOMAIN cache' = Functions
      /\ \A f \in Functions :
           cache'[f] \in [DOMAIN Signature[f] -> Closures \cup {NoClosure}]
      /\ \A d \in Closures : Runs(d)' = Runs(d)
      /\ \A d \in Closures : HeldByCall(d)' <=> HeldByCall(d) \/ d = c
      /\ \A d \in Closures : InC(d) => InC(d)'
      /\ \A d \in Closures : InNew(d)' => InNew(d) \/ d = c
      /\ KindsInv'
    <2>1. /\ ArgKind \notin {"full", "boxed"}
          /\ cache' = [cache EXCEPT ![Top.fn][Top.pos] = IF c \in Closures THEN c ELSE NoClosure]
        BY <1>1 DEF TrampolineKinds
    <2>2. /\ \A d \in Closures : HeldByCall(d) => closure'[d].kind = closure[d].kind
          /\ closure'[c].kind = ArgKind
        BY <1>2, <1>3, <1>4
    <2> QED
        BY <1>1, <1>2, <2>1, <2>2, ConvertedKeeps
<1>6. CallTypeOK'
    BY <1>1, <1>4, <1>5 DEF CallTypeOK
<1>7. OwnersInv'
    <2> SUFFICES ASSUME NEW d \in Closures PROVE OwnInv(d)'
        BY DEF OwnersInv
    <2>1. CASE d = c
        <3>1. /\ Runs(c)' = {} /\ c \notin exposed' /\ c \notin asyncs'
              /\ closure'[c].kind = ArgKind
            BY <1>1, <1>2, <1>3, <1>4, <1>5
        <3>2. Outlives(c)'
            BY <1>1, <3>1 DEF Outlives
        <3> QED
            BY <1>1, <1>2, <2>1, <3>1, <3>2 DEF OwnInv, HolderInv, ExposedInv, NewInv, AsyncInv
    <2>2. CASE d # c
        BY <1>1, <1>4, <1>5, <2>2, OwnStays DEF CallInv, OwnersInv
    <2> QED
        BY <2>1, <2>2
<1>8. KeptInv'
    <2> SUFFICES ASSUME NEW d \in Closures
                 PROVE  RecordInv(closure'[d], d \in notified, wrappers)
        BY <1>1 DEF KeptInv
    <2>1. CASE d = c
        <3>1. (d \in notified) = FALSE
            BY <1>2, <2>1
        <3> QED
            BY <1>3, <1>4, <2>1, <3>1
    <2>2. CASE d # c
        BY <1>4, <2>2 DEF CallInv, KeptInv
    <2> QED
        BY <2>1, <2>2
<1>9. RefsAccounted'
    <2> SUFFICES ASSUME NEW d \in Closures, d \notin nested'
                 PROVE  closure'[d].refs =
                          Cardinality(Runs(d)') + One(HeldByCall(d)') + One(d \in handles')
                          + One(d \in extras') + One(d \in asyncs') + One(d \in forever')
        BY DEF RefsAccounted
    <2>1. CASE d = c
        <3>1. Cardinality(Runs(d)') = 0 /\ HeldByCall(d)' /\ d \notin asyncs'
              /\ closure'[d].refs = RefsTaken(ArgKind)
            BY <1>1, <1>2, <1>3, <1>4, <1>5, <2>1
        <3>2. CASE ArgKind = "call"
            <4>1. d \notin handles' /\ d \notin extras' /\ d \notin forever'
                BY <1>1, <1>2, <2>1, <3>2
            <4> QED
                BY <3>1, <3>2, <4>1 DEF One, RefsTaken
        <3>3. CASE ArgKind = "notified"
            <4>1. d \in handles' /\ d \notin extras' /\ d \notin forever'
                BY <1>1, <1>2, <2>1, <3>3
            <4> QED
                BY <3>1, <3>3, <4>1 DEF One, RefsTaken
        <3>4. CASE ArgKind = "async"
            <4>1. d \notin handles' /\ d \in extras' /\ d \notin forever'
                BY <1>1, <1>2, <2>1, <3>4
            <4> QED
                BY <3>1, <3>4, <4>1 DEF One, RefsTaken
        <3>5. CASE ArgKind \in {"undying", "forever"}
            <4>1. d \notin handles' /\ d \notin extras' /\ d \in forever'
                BY <1>1, <1>2, <2>1, <3>5
            <4> QED
                BY <3>1, <3>5, <4>1 DEF One, RefsTaken
        <3> QED
            BY <1>1, <3>2, <3>3, <3>4, <3>5 DEF TrampolineKinds
    <2>2. CASE d # c
        <3>1. /\ d \in handles' <=> d \in handles
              /\ d \in extras' <=> d \in extras
              /\ d \in forever' <=> d \in forever
            BY <1>1, <2>2
        <3> QED
            BY <1>1, <1>4, <1>5, <2>2, <3>1 DEF CallInv, RefsAccounted, One
    <2> QED
        BY <2>1, <2>2
<1>10. ContextInv' /\ ContextLeavesNothing'
    BY <1>1 DEF CallInv, ContextInv, ContextLeavesNothing
<1> QED
    BY <1>5, <1>6, <1>7, <1>8, <1>9, <1>10 DEF CallInv

LEMMA ConvertBoxedKeeps ==
    ASSUME CallInv, NEW c \in Closures, ConvertBoxed(c)
    PROVE  CallInv'
<1> DEFINE r == NewClosure("boxed", NoObject, 1)
<1>1. /\ Converting /\ ArgKind = "boxed" /\ context = "alive" /\ CallTypeOK
      /\ stack # << >> /\ closure[c] = UnusedClosure
      /\ closure' = [closure EXCEPT ![c] = r]
      /\ Converted(c)
      /\ UNCHANGED <<wrappers, cache, handles, extras, asyncs, forever, exposed, context,
                     notified, nested>>
    BY DEF CallInv, ConvertBoxed, Converting
<1>2. /\ Runs(c) = {} /\ Cardinality(Runs(c)) = 0
      /\ ~HeldByCall(c) /\ ~InC(c) /\ ~InNew(c)
      /\ c \notin handles \cup extras \cup asyncs \cup forever
      /\ c \notin notified \cup nested /\ c \notin exposed
    BY <1>1, UnusedUnheld
<1>3. r \in ClosureRecord /\ RecordInv(r, FALSE, wrappers) /\ r.refs = 1 /\ r.kind = "boxed"
    <2>1. /\ "boxed" \in ClosureKinds /\ wrappers \in SUBSET Objects
          /\ NoObject \in wrappers \cup {NoObject} /\ NoObject \in Objects \cup {NoObject}
          /\ 1 \in Nat /\ 1 > 0
        BY <1>1 DEF CallTypeOK, ClosureKinds
    <2> QED
        BY <2>1, NewRecord
<1> HIDE DEF r
<1>4. /\ closure' \in [Closures -> ClosureRecord]
      /\ closure'[c] = r
      /\ \A d \in Closures : d # c => closure'[d] = closure[d]
    BY <1>1, <1>3 DEF CallTypeOK
<1>5. /\ StackInv' /\ ApartInv' /\ ThisInv' /\ OverlapInv' /\ ReleaseInv' /\ CacheInv'
      /\ stack' \in Seq(Frame)
      /\ \A d \in Closures : Runs(d)' = Runs(d)
      /\ \A d \in Closures : HeldByCall(d)' <=> HeldByCall(d) \/ d = c
      /\ \A d \in Closures : InC(d) => InC(d)'
      /\ \A d \in Closures : InNew(d)' => InNew(d) \/ d = c
      /\ KindsInv'
    <2>1. ArgKind \notin TrampolineKinds /\ ArgKind # "full"
        BY <1>1 DEF TrampolineKinds
    <2>2. /\ \A d \in Closures : HeldByCall(d) => closure'[d].kind = closure[d].kind
          /\ closure'[c].kind = ArgKind
        BY <1>1, <1>2, <1>3, <1>4
    <2> QED
        BY <1>1, <1>2, <2>1, <2>2, ConvertedKeeps
<1>6. CallTypeOK'
    BY <1>1, <1>4, <1>5 DEF CallTypeOK
<1>7. OwnersInv'
    <2> SUFFICES ASSUME NEW d \in Closures PROVE OwnInv(d)'
        BY DEF OwnersInv
    <2>1. CASE d = c
        <3>1. /\ Runs(c)' = {} /\ c \notin exposed' /\ closure'[c].kind = "boxed"
            BY <1>1, <1>2, <1>3, <1>4, <1>5
        <3> QED
            BY <1>1, <1>2, <2>1, <3>1
               DEF OwnInv, HolderInv, ExposedInv, NewInv, AsyncInv, Outlives
    <2>2. CASE d # c
        BY <1>1, <1>4, <1>5, <2>2, OwnStays DEF CallInv, OwnersInv
    <2> QED
        BY <2>1, <2>2
<1>8. KeptInv'
    <2> SUFFICES ASSUME NEW d \in Closures
                 PROVE  RecordInv(closure'[d], d \in notified, wrappers)
        BY <1>1 DEF KeptInv
    <2>1. CASE d = c
        <3>1. (d \in notified) = FALSE
            BY <1>2, <2>1
        <3> QED
            BY <1>3, <1>4, <2>1, <3>1
    <2>2. CASE d # c
        BY <1>4, <2>2 DEF CallInv, KeptInv
    <2> QED
        BY <2>1, <2>2
<1>9. RefsAccounted'
    <2> SUFFICES ASSUME NEW d \in Closures, d \notin nested'
                 PROVE  closure'[d].refs =
                          Cardinality(Runs(d)') + One(HeldByCall(d)') + One(d \in handles')
                          + One(d \in extras') + One(d \in asyncs') + One(d \in forever')
        BY DEF RefsAccounted
    <2>1. CASE d = c
        <3>1. /\ Cardinality(Runs(d)') = 0 /\ HeldByCall(d)' /\ closure'[d].refs = 1
              /\ d \notin handles' /\ d \notin extras' /\ d \notin asyncs' /\ d \notin forever'
            BY <1>1, <1>2, <1>3, <1>4, <1>5, <2>1
        <3> QED
            BY <3>1 DEF One
    <2>2. CASE d # c
        BY <1>1, <1>4, <1>5, <2>2 DEF CallInv, RefsAccounted, One
    <2> QED
        BY <2>1, <2>2
<1>10. ContextInv' /\ ContextLeavesNothing'
    BY <1>1 DEF CallInv, ContextInv, ContextLeavesNothing
<1> QED
    BY <1>5, <1>6, <1>7, <1>8, <1>9, <1>10 DEF CallInv

LEMMA CallBackKeeps ==
    ASSUME CallInv, NEW c \in Closures, CallBack(c)
    PROVE  CallInv'
<1> DEFINE f == [fn |-> NoFunction, runs |-> c, this |-> NoObject, phase |-> "run", pos |-> 1,
                 done |-> 0, args |-> << >>, failed |-> FALSE, threw |-> FALSE]
           r == [closure[c] EXCEPT !.refs = closure[c].refs + 1]
<1>1. /\ context = "alive" /\ CallTypeOK /\ c \in exposed /\ closure[c].callable # "none"
      /\ stack # << >> => Top.phase = "c"
      /\ closure' = [closure EXCEPT ![c] = r]
      /\ stack' = Append(stack, f)
      /\ exposed' = IF closure[c].kind = "async" THEN exposed \ {c} ELSE exposed
      /\ UNCHANGED <<wrappers, cache, handles, extras, asyncs, forever, context, notified, nested>>
    BY DEF CallInv, CallBack, CActs, Entered
<1>2. /\ OwnInv(c) /\ RecordInv(closure[c], c \in notified, wrappers) /\ closure[c] \in ClosureRecord
    BY <1>1 DEF CallInv, OwnersInv, KeptInv, CallTypeOK
<1>3. /\ r \in ClosureRecord /\ r.refs = closure[c].refs + 1 /\ r.kind = closure[c].kind
      /\ RecordInv(r, c \in notified, wrappers)
    <2>1. closure[c].refs \in Int /\ closure[c].refs + 1 \in Int /\ closure[c].refs + 1 > 0
        BY <1>1, <1>2 DEF ClosureRecord, RecordInv
    <2>2. /\ r \in ClosureRecord /\ r.refs = closure[c].refs + 1 /\ r.kind = closure[c].kind
          /\ r.callable = closure[c].callable /\ r.registered = closure[c].registered
          /\ r.object = closure[c].object
        BY <1>2, <2>1 DEF ClosureRecord
    <2>3. closure[c].kind # "unused"
        BY <1>1, <1>2 DEF RecordInv, UnusedClosure
    <2> HIDE DEF r
    <2> QED
        BY <1>2, <2>1, <2>2, <2>3 DEF RecordInv
<1> HIDE DEF r
<1>4. /\ closure' \in [Closures -> ClosureRecord]
      /\ closure'[c] = r
      /\ \A d \in Closures : d # c => closure'[d] = closure[d]
      /\ \A d \in Closures : closure'[d].kind = closure[d].kind
    BY <1>1, <1>3 DEF CallTypeOK
<1>5. /\ f \in Frame /\ f.fn = NoFunction /\ f.runs = c /\ f.this = NoObject /\ f.phase = "run"
      /\ DOMAIN f.args = {}
    BY EmptySeq DEF Frame
<1>6. GoodFrame(f) /\ ClosureArgs(f) = {} /\ CacheMatches(f, cache, nested) /\ KindsMatch(f, closure')
    <2>1. f.args = << >>
        OBVIOUS
    <2> HIDE DEF f
    <2> QED
        BY <1>5, <2>1 DEF GoodFrame, FrameInv, ClosureArgs, CacheMatches, KindsMatch
<1> HIDE DEF f
<1>7. /\ DOMAIN stack' = DOMAIN stack \cup {Len(stack) + 1}
      /\ stack'[Len(stack) + 1] = f
      /\ \A i \in DOMAIN stack : stack'[i] = stack[i]
      /\ stack' \in Seq(Frame)
    BY <1>1, <1>5, FramePushed
<1>8. StackInv' /\ ApartInv' /\ ReleaseInv'
    BY <1>1, <1>5, <1>6, PushKeeps DEF CallInv
<1>9. \A i \in DOMAIN stack : KindsMatch(stack[i], closure')
    BY <1>1, <1>4, KindsStay DEF CallInv
<1>10. ThisInv' /\ KindsInv' /\ CacheInv' /\ OverlapInv'
    <2>1. \A i \in DOMAIN stack' : stack'[i] = f \/ (i \in DOMAIN stack /\ stack'[i] = stack[i])
        BY <1>7
    <2>2. f.fn \notin Functions
        BY <1>5, InvocationAssumption
    <2>3. OverlapInv'
        <3> SUFFICES ASSUME NEW i \in DOMAIN stack', NEW k \in DOMAIN stack', i # k,
                            stack'[i].fn \in Functions, stack'[i].fn = stack'[k].fn
                     PROVE  Callbacks(stack'[i]) \subseteq nested'
            BY DEF OverlapInv
        <3>1. /\ i \in DOMAIN stack /\ stack'[i] = stack[i]
              /\ k \in DOMAIN stack /\ stack'[k] = stack[k]
            BY <2>1, <2>2
        <3> QED
            BY <1>1, <3>1 DEF CallInv, OverlapInv
    <2> QED
        BY <1>1, <1>5, <1>6, <1>7, <1>9, <2>1, <2>3 DEF CallInv, ThisInv, KindsInv, CacheInv
<1>11. /\ Runs(c)' = Runs(c) \cup {Len(stack) + 1}
       /\ Cardinality(Runs(c)') = Cardinality(Runs(c)) + 1
       /\ \A d \in Closures : d # c => Runs(d)' = Runs(d)
    BY <1>1, <1>5, RunsPushed
<1>12. \A d \in Closures : HeldByCall(d)' <=> HeldByCall(d)
    BY <1>1, <1>5, <1>6, HeldPushed
<1>13. \A d \in Closures : (InC(d)' <=> InC(d)) /\ (InNew(d)' <=> InNew(d))
    BY <1>1, <1>5, <1>6, PhasesPushed
<1>14. OwnersInv'
    <2> SUFFICES ASSUME NEW d \in Closures PROVE OwnInv(d)'
        BY DEF OwnersInv
    <2>1. CASE d = c
        <3>1. ~InNew(c) /\ ~InNew(c)'
            BY <1>1, <1>2, <1>13 DEF OwnInv, NewInv
        <3>2. HolderInv(c)'
            BY <1>1, <1>2, <1>4 DEF OwnInv, HolderInv
        <3>3. ExposedInv(c)'
            BY <1>1, <1>2, <1>4, <1>13 DEF OwnInv, ExposedInv, Outlives
        <3>4. AsyncInv(c)'
            <4> SUFFICES ASSUME closure[c].kind = "async"
                         PROVE  c \in extras /\ c \notin exposed' /\ \A i, k \in Runs(c)' : i = k
                BY <1>1, <1>4 DEF AsyncInv
            <4>1. c \in extras /\ Runs(c) = {}
                BY <1>1, <1>2 DEF OwnInv, ExposedInv, Outlives
            <4> QED
                BY <1>1, <1>11, <4>1
        <3> QED
            BY <2>1, <3>1, <3>2, <3>3, <3>4 DEF OwnInv, NewInv
    <2>2. CASE d # c
        BY <1>1, <1>4, <1>11, <1>13, <2>2, OwnStays DEF CallInv, OwnersInv
    <2> QED
        BY <2>1, <2>2
<1>15. KeptInv'
    <2> SUFFICES ASSUME NEW d \in Closures PROVE RecordInv(closure'[d], d \in notified, wrappers)
        BY <1>1 DEF KeptInv
    <2>1. CASE d = c
        BY <1>3, <1>4, <2>1
    <2>2. CASE d # c
        BY <1>4, <2>2 DEF CallInv, KeptInv
    <2> QED
        BY <2>1, <2>2
<1>16. RefsAccounted'
    <2> SUFFICES ASSUME NEW d \in Closures, d \notin nested'
                 PROVE  closure'[d].refs =
                          Cardinality(Runs(d)') + One(HeldByCall(d)') + One(d \in handles')
                          + One(d \in extras') + One(d \in asyncs') + One(d \in forever')
        BY DEF RefsAccounted
    <2>1. closure[d].refs = Cardinality(Runs(d)) + One(HeldByCall(d)) + One(d \in handles)
                            + One(d \in extras) + One(d \in asyncs) + One(d \in forever)
          /\ Cardinality(Runs(d)) \in Nat
        BY <1>1, RunsCounted DEF CallInv, RefsAccounted
    <2>2. CASE d = c
        <3>1. /\ closure'[d].refs = closure[d].refs + 1
              /\ Cardinality(Runs(d)') = Cardinality(Runs(d)) + 1
              /\ HeldByCall(d)' <=> HeldByCall(d)
              /\ UNCHANGED <<handles, extras, asyncs, forever>>
            BY <1>1, <1>3, <1>4, <1>11, <1>12, <2>2
        <3> QED
            BY <2>1, <3>1 DEF One
    <2>3. CASE d # c
        BY <1>1, <1>4, <1>11, <1>12, <2>1, <2>3 DEF One
    <2> QED
        BY <2>2, <2>3
<1>17. CallTypeOK'
    BY <1>1, <1>4, <1>7 DEF CallTypeOK
<1>18. ContextInv' /\ ContextLeavesNothing'
    BY <1>1 DEF CallInv, ContextInv, ContextLeavesNothing
<1> QED
    BY <1>8, <1>10, <1>14, <1>15, <1>16, <1>17, <1>18 DEF CallInv

(* The stack, the wrappers and the caches stay, and no closure changes its   *)
(* kind.                                                                    *)
LEMMA StackStays ==
    ASSUME CallInv, UNCHANGED <<stack, cache, wrappers, nested>>,
           \A d \in Closures : closure'[d].kind = closure[d].kind
    PROVE  /\ StackInv' /\ ApartInv' /\ ThisInv' /\ OverlapInv' /\ ReleaseInv' /\ CacheInv'
           /\ KindsInv'
           /\ \A d \in Closures : /\ Runs(d)' = Runs(d)
                                  /\ HeldByCall(d)' <=> HeldByCall(d)
                                  /\ InC(d)' <=> InC(d)
                                  /\ InNew(d)' <=> InNew(d)
<1>1. KindsInv'
    BY KindsStay DEF CallInv, KindsInv
<1>2. StackInv' /\ ApartInv' /\ ThisInv' /\ OverlapInv' /\ ReleaseInv' /\ CacheInv'
    BY DEF CallInv, StackInv, ApartInv, ThisInv, OverlapInv, ReleaseInv, CacheInv
<1> QED
    BY <1>1, <1>2 DEF Runs, HeldByCall, InC, InNew

LEMMA BlockedKeeps ==
    ASSUME CallInv, NEW c \in Closures, Blocked(c)
    PROVE  CallInv'
<1>1. /\ context = "alive" /\ CallTypeOK
      /\ exposed' = exposed \ {c}
      /\ UNCHANGED <<closure, wrappers, cache, stack, handles, extras, asyncs, forever,
                     context, notified, nested>>
    BY DEF CallInv, Blocked, CActs
<1>2. /\ StackInv' /\ ApartInv' /\ ThisInv' /\ OverlapInv' /\ ReleaseInv' /\ CacheInv'
      /\ KindsInv'
      /\ \A d \in Closures : /\ Runs(d)' = Runs(d)
                             /\ HeldByCall(d)' <=> HeldByCall(d)
                             /\ InC(d)' <=> InC(d)
                             /\ InNew(d)' <=> InNew(d)
    BY <1>1, StackStays
<1>3. OwnersInv'
    BY <1>1, <1>2, OwnStays DEF CallInv, OwnersInv
<1>4. RefsAccounted'
    BY <1>1, <1>2 DEF CallInv, RefsAccounted, One
<1>5. CallTypeOK' /\ KeptInv' /\ ContextInv' /\ ContextLeavesNothing'
    BY <1>1 DEF CallInv, CallTypeOK, KeptInv, ContextInv, ContextLeavesNothing
<1> QED
    BY <1>2, <1>3, <1>4, <1>5 DEF CallInv

LEMMA KeepBoxedKeeps ==
    ASSUME CallInv, NEW c \in Closures, KeepBoxed(c)
    PROVE  CallInv'
<1> DEFINE r == [closure[c] EXCEPT !.refs = closure[c].refs + 1]
<1>1. /\ context = "alive" /\ CallTypeOK /\ c \in exposed /\ c \notin handles
      /\ closure[c].kind = "boxed"
      /\ closure' = [closure EXCEPT ![c] = r]
      /\ handles' = handles \cup {c}
      /\ UNCHANGED <<wrappers, cache, stack, extras, asyncs, forever, exposed, context,
                     notified, nested>>
    BY DEF CallInv, KeepBoxed, CActs, CallTypeOK
<1>2. /\ OwnInv(c) /\ RecordInv(closure[c], c \in notified, wrappers) /\ closure[c] \in ClosureRecord
    BY <1>1 DEF CallInv, OwnersInv, KeptInv, CallTypeOK
<1>3. /\ r \in ClosureRecord /\ r.refs = closure[c].refs + 1 /\ r.kind = "boxed"
      /\ RecordInv(r, c \in notified, wrappers)
    <2>1. /\ closure[c].refs \in Int /\ closure[c].refs + 1 \in Int
          /\ closure[c].callable # "none" => closure[c].refs + 1 > 0
        BY <1>2 DEF ClosureRecord, RecordInv
    <2>2. /\ r \in ClosureRecord /\ r.refs = closure[c].refs + 1 /\ r.kind = closure[c].kind
          /\ r.callable = closure[c].callable /\ r.registered = closure[c].registered
          /\ r.object = closure[c].object
        BY <1>2, <2>1 DEF ClosureRecord
    <2> HIDE DEF r
    <2> QED
        BY <1>1, <1>2, <2>1, <2>2 DEF RecordInv
<1> HIDE DEF r
<1>4. /\ closure' \in [Closures -> ClosureRecord]
      /\ closure'[c] = r
      /\ \A d \in Closures : d # c => closure'[d] = closure[d]
      /\ \A d \in Closures : closure'[d].kind = closure[d].kind
    BY <1>1, <1>3 DEF CallTypeOK
<1>5. /\ StackInv' /\ ApartInv' /\ ThisInv' /\ OverlapInv' /\ ReleaseInv' /\ CacheInv'
      /\ KindsInv'
      /\ \A d \in Closures : /\ Runs(d)' = Runs(d)
                             /\ HeldByCall(d)' <=> HeldByCall(d)
                             /\ InC(d)' <=> InC(d)
                             /\ InNew(d)' <=> InNew(d)
    BY <1>1, <1>4, StackStays
<1>6. OwnersInv'
    <2> SUFFICES ASSUME NEW d \in Closures PROVE OwnInv(d)'
        BY DEF OwnersInv
    <2>1. CASE d = c
        BY <1>1, <1>2, <1>4, <1>5, <2>1
           DEF OwnInv, HolderInv, ExposedInv, NewInv, AsyncInv, Outlives
    <2>2. CASE d # c
        BY <1>1, <1>4, <1>5, <2>2, OwnStays DEF CallInv, OwnersInv
    <2> QED
        BY <2>1, <2>2
<1>7. KeptInv'
    <2> SUFFICES ASSUME NEW d \in Closures PROVE RecordInv(closure'[d], d \in notified, wrappers)
        BY <1>1 DEF KeptInv
    <2>1. CASE d = c
        BY <1>3, <1>4, <2>1
    <2>2. CASE d # c
        BY <1>4, <2>2 DEF CallInv, KeptInv
    <2> QED
        BY <2>1, <2>2
<1>8. RefsAccounted'
    <2> SUFFICES ASSUME NEW d \in Closures, d \notin nested'
                 PROVE  closure'[d].refs =
                          Cardinality(Runs(d)') + One(HeldByCall(d)') + One(d \in handles')
                          + One(d \in extras') + One(d \in asyncs') + One(d \in forever')
        BY DEF RefsAccounted
    <2>1. closure[d].refs = Cardinality(Runs(d)) + One(HeldByCall(d)) + One(d \in handles)
                            + One(d \in extras) + One(d \in asyncs) + One(d \in forever)
          /\ Cardinality(Runs(d)) \in Nat
        BY <1>1, RunsCounted DEF CallInv, RefsAccounted
    <2>2. CASE d = c
        BY <1>1, <1>3, <1>4, <1>5, <2>1, <2>2 DEF One
    <2>3. CASE d # c
        BY <1>1, <1>4, <1>5, <2>1, <2>3 DEF One
    <2> QED
        BY <2>2, <2>3
<1>9. CallTypeOK' /\ ContextInv' /\ ContextLeavesNothing'
    BY <1>1, <1>4 DEF CallInv, CallTypeOK, ContextInv, ContextLeavesNothing
<1> QED
    BY <1>5, <1>6, <1>7, <1>8, <1>9 DEF CallInv

LEMMA DropHandleKeeps ==
    ASSUME CallInv, NEW c \in Closures, DropHandle(c)
    PROVE  CallInv'
<1> DEFINE r == Unreffed(closure[c], 1)
<1>1. /\ CallTypeOK /\ c \in handles /\ c \in exposed
      /\ CActs \/ context = "gone" \/ (JSActs /\ closure[c].kind = "signal")
      /\ closure' = [closure EXCEPT ![c] = r]
      /\ handles' = handles \ {c}
      /\ exposed' = IF closure[c].kind = "boxed" /\ HeldByCall(c)
                    THEN exposed ELSE exposed \ {c}
      /\ UNCHANGED <<wrappers, cache, stack, extras, asyncs, forever, context, notified, nested>>
    BY DEF CallInv, DropHandle
<1>2. /\ OwnInv(c) /\ RecordInv(closure[c], c \in notified, wrappers) /\ closure[c] \in ClosureRecord
      /\ closure[c].refs \in Int /\ wrappers \in SUBSET Objects /\ (c \in notified) \in BOOLEAN
    BY <1>1 DEF CallInv, OwnersInv, KeptInv, CallTypeOK, ClosureRecord
<1>3. closure[c].kind # "unused"
    BY <1>1, <1>2 DEF OwnInv, HolderInv
<1>4. /\ r \in ClosureRecord /\ r.refs = closure[c].refs - 1 /\ r.kind = closure[c].kind
      /\ RecordInv(r, c \in notified, wrappers)
    BY <1>2, <1>3, UnreffedRecord, UnreffedKept
<1>5. closure[c].callable = "none" => r.callable = "none"
    BY <1>2 DEF Unreffed, Invalidated, ClosureRecord
<1> HIDE DEF r
<1>6. /\ closure' \in [Closures -> ClosureRecord]
      /\ closure'[c] = r
      /\ \A d \in Closures : d # c => closure'[d] = closure[d]
      /\ \A d \in Closures : closure'[d].kind = closure[d].kind
    BY <1>1, <1>4 DEF CallTypeOK
<1>7. /\ StackInv' /\ ApartInv' /\ ThisInv' /\ OverlapInv' /\ ReleaseInv' /\ CacheInv'
      /\ KindsInv'
      /\ \A d \in Closures : /\ Runs(d)' = Runs(d)
                             /\ HeldByCall(d)' <=> HeldByCall(d)
                             /\ InC(d)' <=> InC(d)
                             /\ InNew(d)' <=> InNew(d)
    BY <1>1, <1>6, StackStays
<1>8. OwnersInv'
    <2> SUFFICES ASSUME NEW d \in Closures PROVE OwnInv(d)'
        BY DEF OwnersInv
    <2>1. CASE d = c
        <3>1. ~InNew(c)
            BY <1>1, <1>2 DEF OwnInv, NewInv
        <3>2. HolderInv(c)' /\ NewInv(c)' /\ AsyncInv(c)'
            BY <1>1, <1>2, <1>6, <1>7, <3>1 DEF OwnInv, HolderInv, NewInv, AsyncInv
        <3>3. ExposedInv(c)'
            <4> SUFFICES ASSUME context # "gone", c \in exposed' PROVE ExposedInv(c)'
                BY <1>1 DEF ExposedInv
            <4>1. closure[c].kind = "boxed" /\ HeldByCall(c)
                BY <1>1
            <4>2. PICK i \in DOMAIN stack : c \in ClosureArgs(stack[i])
                BY <4>1 DEF HeldByCall
            <4>3. CActs
                BY <1>1, <4>1
            <4>4. stack[i].phase # "run"
                <5>1. GoodFrame(stack[i])
                    BY DEF CallInv, StackInv
                <5> QED
                    BY <4>2, <5>1, EmptySeq DEF GoodFrame, FrameInv, ClosureArgs
            <4>5. stack[i].phase # "in"
                BY <3>1, <4>2 DEF InNew
            <4>6. stack[i].phase # "release"
                BY <4>3, EmptySeq, <1>1 DEF CallInv, ReleaseInv, CActs, Top, CallTypeOK
            <4>7. stack[i].phase = "c"
                <5>1. stack[i] \in Frame
                    BY <1>1, StackTop
                <5> QED
                    BY <4>4, <4>5, <4>6, <5>1 DEF Frame
            <4>8. InC(c)'
                BY <1>7, <4>2, <4>7 DEF InC
            <4> QED
                BY <1>1, <1>6, <4>1, <4>8 DEF ExposedInv, Outlives
        <3> QED
            BY <2>1, <3>2, <3>3 DEF OwnInv
    <2>2. CASE d # c
        BY <1>1, <1>6, <1>7, <2>2, OwnStays DEF CallInv, OwnersInv
    <2> QED
        BY <2>1, <2>2
<1>9. KeptInv'
    <2> SUFFICES ASSUME NEW d \in Closures PROVE RecordInv(closure'[d], d \in notified, wrappers)
        BY <1>1 DEF KeptInv
    <2>1. CASE d = c
        BY <1>4, <1>6, <2>1
    <2>2. CASE d # c
        BY <1>6, <2>2 DEF CallInv, KeptInv
    <2> QED
        BY <2>1, <2>2
<1>10. RefsAccounted'
    <2> SUFFICES ASSUME NEW d \in Closures, d \notin nested'
                 PROVE  closure'[d].refs =
                          Cardinality(Runs(d)') + One(HeldByCall(d)') + One(d \in handles')
                          + One(d \in extras') + One(d \in asyncs') + One(d \in forever')
        BY DEF RefsAccounted
    <2>1. closure[d].refs = Cardinality(Runs(d)) + One(HeldByCall(d)) + One(d \in handles)
                            + One(d \in extras) + One(d \in asyncs) + One(d \in forever)
          /\ Cardinality(Runs(d)) \in Nat
        BY <1>1, RunsCounted DEF CallInv, RefsAccounted
    <2>2. CASE d = c
        <3>1. /\ closure'[d].refs = closure[d].refs - 1
              /\ Runs(d)' = Runs(d) /\ (HeldByCall(d)' <=> HeldByCall(d))
              /\ d \in handles /\ d \notin handles'
              /\ UNCHANGED <<extras, asyncs, forever>>
            BY <1>1, <1>4, <1>6, <1>7, <2>2
        <3> QED
            BY <2>1, <3>1 DEF One
    <2>3. CASE d # c
        BY <1>1, <1>6, <1>7, <2>1, <2>3 DEF One
    <2> QED
        BY <2>2, <2>3
<1>11. CallTypeOK' /\ ContextInv'
    BY <1>1, <1>6 DEF CallInv, CallTypeOK, ContextInv
<1>12. ContextLeavesNothing'
    BY <1>1, <1>5, <1>6 DEF CallInv, ContextLeavesNothing
<1> QED
    BY <1>7, <1>8, <1>9, <1>10, <1>11, <1>12 DEF CallInv

------------------------------
(* What a collection leaves of a closure.                                   *)
LEMMA CollectedRecord ==
    ASSUME CallInv, NEW d \in Closures, NEW Q \in SUBSET Closures, NEW dead \in SUBSET Objects,
           NEW n \in Nat,
           d \notin nested => One(d \in Q) + One(d \in Disconnected(dead)) + n <= closure[d].refs
    PROVE  LET u == Collected(d, Q, dead, n) IN
           /\ u \in ClosureRecord
           /\ u.refs = closure[d].refs - (One(d \in Q) + One(d \in Disconnected(dead)) + n)
           /\ u.kind = closure[d].kind
           /\ RecordInv(u, d \in notified, wrappers \ dead)
<1> DEFINE i == IF closure[d].object \in dead THEN Invalidated(closure[d]) ELSE closure[d]
           m == One(d \in Q) + One(d \in Disconnected(dead)) + n
<1>1. /\ closure[d] \in ClosureRecord /\ RecordInv(closure[d], d \in notified, wrappers)
      /\ wrappers \in SUBSET Objects /\ wrappers \ dead \in SUBSET Objects
      /\ (d \in notified) \in BOOLEAN
    BY DEF CallInv, CallTypeOK, KeptInv
<1>2. /\ i \in ClosureRecord /\ i.refs = closure[d].refs /\ i.kind = closure[d].kind
      /\ RecordInv(i, d \in notified, wrappers \ dead)
    BY <1>1, InvalidatedKept
<1>3. m \in Nat /\ (d \notin nested => m <= closure[d].refs)
    BY DEF One
<1>4. Collected(d, Q, dead, n) = Unreffed(i, m)
    BY DEF Collected, Orphaned
<1> HIDE DEF i, m
<1>5. /\ Unreffed(i, m) \in ClosureRecord /\ Unreffed(i, m).refs = i.refs - m
      /\ Unreffed(i, m).kind = i.kind
    BY <1>2, <1>3, UnreffedRecord
<1>6. RecordInv(Unreffed(i, m), d \in notified, wrappers \ dead)
    <2>1. m > 0 => i.kind # "unused"
        BY <1>2, <1>3, DropsKnown
    <2> QED
        BY <1>1, <1>2, <1>3, <2>1, UnreffedKept
<1> QED
    BY <1>2, <1>4, <1>5, <1>6 DEF m

LEMMA CollectKeeps ==
    ASSUME CallInv, NEW dead \in SUBSET Objects, Collect(dead)
    PROVE  CallInv'
<1>1. /\ CallTypeOK /\ context = "alive"
      /\ dead \subseteq wrappers \ {stack[i].this : i \in DOMAIN stack}
      /\ closure' = [c \in Closures |-> Collected(c, asyncs, dead, 0)]
      /\ asyncs' = {}
      /\ wrappers' = wrappers \ dead
      /\ handles' = handles \ Disconnected(dead)
      /\ exposed' = exposed \ Disconnected(dead)
      /\ UNCHANGED <<cache, stack, extras, forever, context, notified, nested>>
    BY DEF CallInv, Collect, Collectable
<1>2. ASSUME NEW d \in Closures
      PROVE  /\ closure'[d] \in ClosureRecord
             /\ closure'[d].refs = closure[d].refs - (One(d \in asyncs) + One(d \in Disconnected(dead)))
             /\ closure'[d].kind = closure[d].kind
             /\ RecordInv(closure'[d], d \in notified', wrappers')
    <2>1. Cardinality(Runs(d)) \in Nat
        BY <1>1, RunsCounted
    <2>2. d \in Disconnected(dead) => d \in handles
        BY DEF Disconnected
    <2>3. d \notin nested =>
            One(d \in asyncs) + One(d \in Disconnected(dead)) + 0 <= closure[d].refs
        BY <2>1, <2>2 DEF CallInv, RefsAccounted, One
    <2>4. One(d \in asyncs) + One(d \in Disconnected(dead)) + 0
            = One(d \in asyncs) + One(d \in Disconnected(dead))
        BY DEF One
    <2>5. asyncs \in SUBSET Closures
        BY <1>1 DEF CallTypeOK
    <2>6. closure'[d] = Collected(d, asyncs, dead, 0)
        BY <1>1
    <2>7. /\ closure'[d] \in ClosureRecord
          /\ closure'[d].refs
               = closure[d].refs - (One(d \in asyncs) + One(d \in Disconnected(dead)) + 0)
          /\ closure'[d].kind = closure[d].kind
          /\ RecordInv(closure'[d], d \in notified, wrappers \ dead)
        <3>1. PICK n \in Nat : n = 0
            OBVIOUS
        <3>2. d \notin nested =>
                One(d \in asyncs) + One(d \in Disconnected(dead)) + n <= closure[d].refs
            BY <2>3, <3>1
        <3>3. /\ Collected(d, asyncs, dead, n) \in ClosureRecord
              /\ Collected(d, asyncs, dead, n).refs
                   = closure[d].refs - (One(d \in asyncs) + One(d \in Disconnected(dead)) + n)
              /\ Collected(d, asyncs, dead, n).kind = closure[d].kind
              /\ RecordInv(Collected(d, asyncs, dead, n), d \in notified, wrappers \ dead)
            BY <2>5, <3>2, CollectedRecord
        <3> QED
            BY <2>6, <3>1, <3>3
    <2> QED
        BY <1>1, <2>4, <2>7
<1>3. \A d \in Closures : /\ Runs(d)' = Runs(d)
                          /\ HeldByCall(d)' <=> HeldByCall(d)
                          /\ InC(d)' <=> InC(d)
                          /\ InNew(d)' <=> InNew(d)
    BY <1>1 DEF Runs, HeldByCall, InC, InNew
<1>4. /\ StackInv' /\ ApartInv' /\ OverlapInv' /\ ReleaseInv' /\ CacheInv' /\ KindsInv'
    <2>1. KindsInv'
        BY <1>1, <1>2, KindsStay DEF CallInv, KindsInv
    <2> QED
        BY <1>1, <2>1 DEF CallInv, StackInv, ApartInv, OverlapInv, ReleaseInv, CacheInv
<1>5. ThisInv'
    BY <1>1 DEF CallInv, ThisInv
<1>6. OwnersInv'
    <2> SUFFICES ASSUME NEW d \in Closures PROVE OwnInv(d)'
        BY DEF OwnersInv
    <2>1. OwnInv(d) /\ closure'[d].kind = closure[d].kind
        BY <1>2 DEF CallInv, OwnersInv
    <2>2. closure[d].kind # "signal" => (d \in handles' <=> d \in handles)
        BY <1>1 DEF Disconnected
    <2>3. d \in exposed' => d \in exposed /\ (d \in handles => d \in handles')
        BY <1>1
    <2>4. d \in handles' => d \in handles
        BY <1>1
    <2>5. HolderInv(d)'
        BY <1>1, <2>1, <2>4 DEF OwnInv, HolderInv
    <2>6. Outlives(d) => Outlives(d)'
        BY <1>1, <2>1, <2>2 DEF Outlives
    <2>7. ExposedInv(d)'
        BY <1>1, <1>3, <2>1, <2>3, <2>6 DEF OwnInv, ExposedInv
    <2>8. NewInv(d)' /\ AsyncInv(d)'
        BY <1>1, <1>3, <2>1, <2>3, <2>6 DEF OwnInv, NewInv, AsyncInv
    <2> QED
        BY <2>5, <2>7, <2>8 DEF OwnInv
<1>7. KeptInv'
    BY <1>1, <1>2 DEF KeptInv
<1>8. RefsAccounted'
    <2> SUFFICES ASSUME NEW d \in Closures, d \notin nested'
                 PROVE  closure'[d].refs =
                          Cardinality(Runs(d)') + One(HeldByCall(d)') + One(d \in handles')
                          + One(d \in extras') + One(d \in asyncs') + One(d \in forever')
        BY DEF RefsAccounted
    <2>1. closure[d].refs = Cardinality(Runs(d)) + One(HeldByCall(d)) + One(d \in handles)
                            + One(d \in extras) + One(d \in asyncs) + One(d \in forever)
          /\ Cardinality(Runs(d)) \in Nat
        BY <1>1, RunsCounted DEF CallInv, RefsAccounted
    <2>2. /\ closure'[d].refs
               = closure[d].refs - (One(d \in asyncs) + One(d \in Disconnected(dead)))
          /\ Runs(d)' = Runs(d) /\ (HeldByCall(d)' <=> HeldByCall(d))
          /\ d \notin asyncs'
          /\ d \in handles' <=> d \in handles /\ d \notin Disconnected(dead)
          /\ d \in Disconnected(dead) => d \in handles
          /\ UNCHANGED <<extras, forever>>
        BY <1>1, <1>2, <1>3 DEF Disconnected
    <2> QED
        BY <2>1, <2>2 DEF One
<1>9. CallTypeOK'
    <2>1. closure' \in [Closures -> ClosureRecord]
        BY <1>1, <1>2
    <2> QED
        BY <1>1, <2>1 DEF CallTypeOK
<1>10. ContextInv' /\ ContextLeavesNothing'
    BY <1>1 DEF CallInv, ContextInv, ContextLeavesNothing
<1> QED
    BY <1>4, <1>5, <1>6, <1>7, <1>8, <1>9, <1>10 DEF CallInv

LEMMA CallBackEndsKeeps ==
    ASSUME CallInv, NEW collects \in BOOLEAN, NEW dead \in SUBSET Objects,
           CallBackEnds(collects, dead)
    PROVE  CallInv'
<1>1. CallTypeOK /\ context = "alive" /\ stack # << >> /\ Top.phase = "run" /\ Pop
    BY DEF CallInv, CallBackEnds
<1>2. Top.runs \in Closures /\ ClosureArgs(Top) = {} /\ Len(stack) \in DOMAIN stack
    <2>1. Top \in Frame /\ GoodFrame(Top) /\ Len(stack) \in DOMAIN stack
        BY <1>1, TopKnown
    <2>2. Top.runs \in Closures /\ Top.args = << >>
        BY <1>1, <2>1 DEF GoodFrame, FrameInv
    <2> QED
        BY <2>1, <2>2, EmptySeq DEF ClosureArgs
<1>21. PICK c \in Closures : c = Top.runs
    BY <1>2
<1> DEFINE queued == IF closure[c].kind = "async" THEN asyncs \cup {c} ELSE asyncs
           Q == IF collects THEN queued ELSE {}
<1>20. /\ dead \subseteq wrappers \ {stack[i].this : i \in DOMAIN stack}
       /\ closure' = [d \in Closures |-> Collected(d, Q, dead, One(d = c))]
       /\ asyncs' = IF collects THEN {} ELSE queued
       /\ extras' = extras \ {c}
       /\ wrappers' = wrappers \ dead
       /\ handles' = handles \ Disconnected(dead)
       /\ exposed' = exposed \ Disconnected(dead)
       /\ UNCHANGED <<cache, forever, context, notified, nested>>
    BY <1>21 DEF CallBackEnds, Collectable
<1>3. /\ Runs(c)' = Runs(c) \ {Len(stack)} /\ Len(stack) \in Runs(c)
      /\ Cardinality(Runs(c)') = Cardinality(Runs(c)) - 1
      /\ \A d \in Closures : d # c => Runs(d)' = Runs(d)
    BY <1>1, <1>2, <1>21, RunsPopped
<1>4. \A d \in Closures : HeldByCall(d)' <=> HeldByCall(d)
    BY <1>1, <1>20, <1>2, HeldPopped
<1>5. \A d \in Closures : (InC(d)' <=> InC(d)) /\ (InNew(d)' <=> InNew(d))
    BY <1>1, <1>20, PhasesPopped
<1>6. OwnInv(c)
    BY <1>2 DEF CallInv, OwnersInv
<1>7. /\ closure[c].kind = "async" => c \in extras /\ c \notin asyncs /\ c \notin exposed
                                      /\ Runs(c)' = {}
      /\ closure[c].kind # "async" => c \notin extras /\ c \notin asyncs
    <2>1. closure[c].kind # "async" => c \notin extras /\ c \notin asyncs
        BY <1>6 DEF OwnInv, HolderInv
    <2>2. closure[c].kind = "async" => c \in extras /\ c \notin asyncs /\ c \notin exposed
        BY <1>3, <1>6 DEF OwnInv, HolderInv, AsyncInv
    <2>3. closure[c].kind = "async" => Runs(c)' = {}
        BY <1>3, <1>6 DEF OwnInv, AsyncInv
    <2> QED
        BY <2>1, <2>2, <2>3
<1>8. queued \in SUBSET Closures /\ Q \in SUBSET Closures
    BY <1>1, <1>20, <1>2 DEF CallTypeOK
<1>9. \A d \in Closures : /\ d \in Q <=> collects /\ d \in queued
                          /\ d \in queued <=> d \in asyncs \/ (d = c /\ closure[c].kind = "async")
    OBVIOUS
<1> HIDE DEF queued, Q
<1>10. ASSUME NEW d \in Closures
       PROVE  /\ closure'[d] \in ClosureRecord
              /\ closure'[d].refs = closure[d].refs -
                   (One(d \in Q) + One(d \in Disconnected(dead)) + One(d = c))
              /\ closure'[d].kind = closure[d].kind
              /\ RecordInv(closure'[d], d \in notified', wrappers')
    <2>1. /\ d \notin nested =>
               closure[d].refs = Cardinality(Runs(d)) + One(HeldByCall(d)) + One(d \in handles)
                                 + One(d \in extras) + One(d \in asyncs) + One(d \in forever)
          /\ Cardinality(Runs(d)) \in Nat
        BY <1>1, <1>20, RunsCounted DEF CallInv, RefsAccounted
    <2>2. d = c => Cardinality(Runs(d)) >= 1
        <3>1. Cardinality(Runs(c)) = 0 => Runs(c) = {}
            BY <1>1, <1>20, <1>2, RunsCounted
        <3> QED
            BY <1>3, <2>1, <3>1
    <2>3. d \in Disconnected(dead) => d \in handles
        BY DEF Disconnected
    <2>4. d \in Q => d \in asyncs \/ d \in extras
        BY <1>7, <1>9
    <2>5. d \notin nested =>
            One(d \in Q) + One(d \in Disconnected(dead)) + One(d = c) <= closure[d].refs
        BY <2>1, <2>2, <2>3, <2>4 DEF One
    <2>6. PICK n \in Nat : n = One(d = c)
        BY DEF One
    <2>7. closure'[d] = Collected(d, Q, dead, n)
        BY <1>20, <2>6
    <2>8. /\ closure'[d] \in ClosureRecord
          /\ closure'[d].refs = closure[d].refs -
               (One(d \in Q) + One(d \in Disconnected(dead)) + n)
          /\ closure'[d].kind = closure[d].kind
          /\ RecordInv(closure'[d], d \in notified, wrappers \ dead)
        <3>1. d \notin nested =>
                One(d \in Q) + One(d \in Disconnected(dead)) + n <= closure[d].refs
            BY <2>5, <2>6
        <3>2. Q \in SUBSET Closures
            BY <1>8
        <3>3. /\ Collected(d, Q, dead, n) \in ClosureRecord
              /\ Collected(d, Q, dead, n).refs = closure[d].refs -
                   (One(d \in Q) + One(d \in Disconnected(dead)) + n)
              /\ Collected(d, Q, dead, n).kind = closure[d].kind
              /\ RecordInv(Collected(d, Q, dead, n), d \in notified, wrappers \ dead)
            BY <3>1, <3>2, CollectedRecord
        <3> QED
            BY <2>7, <3>3
    <2> QED
        BY <1>20, <2>6, <2>8
<1>11. StackInv' /\ ApartInv' /\ OverlapInv' /\ ReleaseInv'
    BY <1>1, <1>20, PopKeeps DEF CallInv
<1>12. /\ DOMAIN stack' \subseteq DOMAIN stack /\ \A i \in DOMAIN stack' : stack'[i] = stack[i]
       /\ stack' \in Seq(Frame)
    BY <1>1, <1>20, FramePopped
<1>13. ThisInv' /\ CacheInv'
    BY <1>1, <1>20, <1>12 DEF CallInv, ThisInv, CacheInv
<1>14. KindsInv'
    <2>1. \A i \in DOMAIN stack : KindsMatch(stack[i], closure')
        BY <1>1, <1>20, <1>10, KindsStay DEF CallInv
    <2> QED
        BY <1>12, <2>1 DEF KindsInv
<1>15. OwnersInv'
    <2> SUFFICES ASSUME NEW d \in Closures PROVE OwnInv(d)'
        BY DEF OwnersInv
    <2>1. OwnInv(d) /\ closure'[d].kind = closure[d].kind
        BY <1>10 DEF CallInv, OwnersInv
    <2>2. closure[d].kind # "signal" => (d \in handles' <=> d \in handles)
        BY <1>1, <1>20 DEF Disconnected
    <2>3. d \in exposed' => d \in exposed /\ (d \in handles => d \in handles')
        BY <1>1, <1>20
    <2>4. d \in handles' => d \in handles
        BY <1>1, <1>20
    <2>5. d \in asyncs' => d \in asyncs \/ (d = c /\ closure[c].kind = "async")
        BY <1>1, <1>20, <1>9
    <2>6. HolderInv(d)'
        BY <1>1, <1>20, <2>1, <2>4, <2>5 DEF OwnInv, HolderInv
    <2>7. CASE d = c
        <3>1. ~InNew(c) /\ ~InNew(c)'
            BY <1>3, <1>5, <1>6, <1>2 DEF OwnInv, NewInv
        <3>2. ExposedInv(c)'
            <4>1. CASE closure[c].kind = "async"
                BY <1>1, <1>20, <1>7, <4>1 DEF ExposedInv
            <4>2. CASE closure[c].kind # "async"
                BY <1>1, <1>20, <1>2, <1>5, <2>1, <2>2, <2>3, <2>7, <4>2
                   DEF OwnInv, ExposedInv, Outlives
            <4> QED
                BY <4>1, <4>2
        <3>3. AsyncInv(c)'
            BY <1>7, <2>1, <2>7 DEF AsyncInv
        <3> QED
            BY <2>6, <2>7, <3>1, <3>2, <3>3 DEF OwnInv, NewInv
    <2>8. CASE d # c
        <3>1. d \in extras' <=> d \in extras
            BY <1>1, <1>20, <2>8
        <3>2. Outlives(d) => Outlives(d)'
            BY <1>1, <1>20, <2>1, <2>2, <3>1 DEF Outlives
        <3>3. ExposedInv(d)'
            BY <1>1, <1>20, <1>3, <1>5, <2>1, <2>3, <2>8, <3>2 DEF OwnInv, ExposedInv
        <3>4. NewInv(d)' /\ AsyncInv(d)'
            BY <1>1, <1>20, <1>3, <1>5, <2>1, <2>3, <2>8, <3>1, <3>2 DEF OwnInv, NewInv, AsyncInv
        <3> QED
            BY <2>6, <3>3, <3>4 DEF OwnInv
    <2> QED
        BY <2>7, <2>8
<1>16. KeptInv'
    BY <1>1, <1>20, <1>10 DEF KeptInv
<1>17. RefsAccounted'
    <2> SUFFICES ASSUME NEW d \in Closures, d \notin nested'
                 PROVE  closure'[d].refs =
                          Cardinality(Runs(d)') + One(HeldByCall(d)') + One(d \in handles')
                          + One(d \in extras') + One(d \in asyncs') + One(d \in forever')
        BY DEF RefsAccounted
    <2>1. closure[d].refs = Cardinality(Runs(d)) + One(HeldByCall(d)) + One(d \in handles)
                            + One(d \in extras) + One(d \in asyncs) + One(d \in forever)
          /\ Cardinality(Runs(d)) \in Nat
        BY <1>1, <1>20, RunsCounted DEF CallInv, RefsAccounted
    <2>2. closure'[d].refs = closure[d].refs -
            (One(d \in Q) + One(d \in Disconnected(dead)) + One(d = c))
        BY <1>10
    <2>3. /\ HeldByCall(d)' <=> HeldByCall(d)
          /\ d \in handles' <=> d \in handles /\ d \notin Disconnected(dead)
          /\ d \in Disconnected(dead) => d \in handles
          /\ forever' = forever
        BY <1>1, <1>20, <1>4 DEF Disconnected
    <2>4. Cardinality(Runs(d)') = Cardinality(Runs(d)) - One(d = c)
        <3>1. CASE d = c
            <4>1. Cardinality(Runs(d)') = Cardinality(Runs(d)) - 1 /\ One(d = c) = 1
                BY <1>3, <3>1 DEF One
            <4> QED
                BY <4>1
        <3>2. CASE d # c
            <4>1. Runs(d)' = Runs(d) /\ One(d = c) = 0
                BY <1>3, <3>2 DEF One
            <4> QED
                BY <2>1, <4>1
        <3> QED
            BY <3>1, <3>2
    <2>5. One(d \in extras') + One(d \in asyncs') = One(d \in extras) + One(d \in asyncs) - One(d \in Q)
        BY <1>1, <1>20, <1>7, <1>9 DEF One
    <2>6. One(d \in handles') = One(d \in handles) - One(d \in Disconnected(dead))
        BY <2>3 DEF One
    <2>7. /\ One(d \in handles) \in Nat /\ One(d \in Disconnected(dead)) \in Nat
          /\ One(d \in extras) \in Nat /\ One(d \in asyncs) \in Nat /\ One(d \in Q) \in Nat
          /\ One(d \in forever) \in Nat /\ One(HeldByCall(d)) \in Nat /\ One(d = c) \in Nat
          /\ One(d \in extras') \in Nat /\ One(d \in asyncs') \in Nat
          /\ One(HeldByCall(d)') = One(HeldByCall(d)) /\ One(d \in forever') = One(d \in forever)
        BY <2>3 DEF One
    <2> QED
        BY <2>1, <2>2, <2>4, <2>5, <2>6, <2>7
<1>18. CallTypeOK'
    <2>1. closure' \in [Closures -> ClosureRecord]
        BY <1>1, <1>20, <1>10
    <2> QED
        BY <1>1, <1>20, <1>8, <1>12, <2>1 DEF CallTypeOK
<1>19. ContextInv' /\ ContextLeavesNothing'
    BY <1>1, <1>20 DEF CallInv, ContextInv, ContextLeavesNothing
<1> QED
    BY <1>11, <1>13, <1>14, <1>15, <1>16, <1>17, <1>18, <1>19 DEF CallInv

------------------------------
LEMMA DisposeBeginsKeeps ==
    ASSUME CallInv, DisposeBegins
    PROVE  CallInv'
<1>1. /\ CallTypeOK /\ context = "alive" /\ context' = "notifying" /\ stack = << >>
      /\ UNCHANGED <<closure, wrappers, cache, stack, handles, extras, asyncs, forever,
                     exposed, notified, nested>>
    BY DEF CallInv, DisposeBegins
<1>2. /\ StackInv' /\ ApartInv' /\ ThisInv' /\ OverlapInv' /\ ReleaseInv' /\ CacheInv'
      /\ KindsInv'
      /\ \A d \in Closures : /\ Runs(d)' = Runs(d)
                             /\ HeldByCall(d)' <=> HeldByCall(d)
                             /\ InC(d)' <=> InC(d)
                             /\ InNew(d)' <=> InNew(d)
    BY <1>1, StackStays
<1>3. OwnersInv'
    BY <1>1, <1>2, OwnStays DEF CallInv, OwnersInv
<1>4. RefsAccounted'
    BY <1>1, <1>2 DEF CallInv, RefsAccounted, One
<1>5. CallTypeOK' /\ KeptInv' /\ ContextInv' /\ ContextLeavesNothing'
    BY <1>1 DEF CallInv, CallTypeOK, KeptInv, ContextInv, ContextLeavesNothing
<1> QED
    BY <1>2, <1>3, <1>4, <1>5 DEF CallInv

(* The closure told by the context stays in the set, and has no function.   *)
LEMMA ToldKept ==
    ASSUME NEW r \in ClosureRecord, NEW W \in SUBSET Objects, RecordInv(r, FALSE, W), r.registered
    PROVE  /\ ContextFinalized(r) \in ClosureRecord
           /\ ContextFinalized(r).refs = r.refs
           /\ ContextFinalized(r).kind = r.kind
           /\ RecordInv(ContextFinalized(r), TRUE, W)
<1> DEFINE u == [r EXCEPT !.callable = "none", !.object = NoObject]
<1>1. r.callable = "rooted"
    BY DEF RecordInv
<1>2. ContextFinalized(r) = u
    BY <1>1 DEF ContextFinalized
<1>3. /\ u \in ClosureRecord /\ u.refs = r.refs /\ u.kind = r.kind
      /\ u.callable = "none" /\ u.object = NoObject /\ u.registered
    BY DEF ClosureRecord
<1>4. r.kind # "unused"
    BY <1>1 DEF RecordInv, UnusedClosure
<1> HIDE DEF u
<1> QED
    BY <1>2, <1>3, <1>4 DEF RecordInv

LEMMA NotifyOneKeeps ==
    ASSUME CallInv, NEW c \in Closures, NEW dropped \in SUBSET Closures, NotifyOne(c, dropped)
    PROVE  CallInv'
<1> DEFINE t(d) == IF d = c THEN ContextFinalized(closure[d]) ELSE closure[d]
<1>1. /\ CallTypeOK /\ context = "notifying" /\ closure[c].registered /\ c \notin notified
      /\ dropped \subseteq handles /\ stack = << >>
      /\ closure' = [d \in Closures |-> Unreffed(t(d), One(d \in dropped))]
      /\ notified' = notified \cup {c}
      /\ handles' = handles \ dropped
      /\ exposed' = exposed \ dropped
      /\ UNCHANGED <<wrappers, cache, stack, extras, asyncs, forever, context, nested>>
    BY DEF CallInv, NotifyOne, ContextInv
<1>2. ASSUME NEW d \in Closures
      PROVE  /\ closure'[d] \in ClosureRecord
             /\ closure'[d].refs = closure[d].refs - One(d \in dropped)
             /\ closure'[d].kind = closure[d].kind
             /\ RecordInv(closure'[d], d \in notified', wrappers)
    <2>1. /\ closure[d] \in ClosureRecord /\ RecordInv(closure[d], d \in notified, wrappers)
          /\ wrappers \in SUBSET Objects /\ (d \in notified) \in BOOLEAN
          /\ (d \in notified') \in BOOLEAN
        BY <1>1 DEF CallInv, CallTypeOK, KeptInv
    <2>2. /\ t(d) \in ClosureRecord /\ t(d).refs = closure[d].refs /\ t(d).kind = closure[d].kind
          /\ RecordInv(t(d), d \in notified', wrappers)
        <3>1. CASE d = c
            <4>1. (d \in notified) = FALSE /\ (d \in notified') = TRUE
                BY <1>1, <3>1
            <4>2. t(d) = ContextFinalized(closure[d]) /\ closure[d].registered
                BY <1>1, <3>1
            <4> HIDE DEF t
            <4>3. RecordInv(closure[d], FALSE, wrappers)
                BY <2>1, <4>1
            <4> QED
                BY <2>1, <4>1, <4>2, <4>3, ToldKept
        <3>2. CASE d # c
            <4>1. t(d) = closure[d] /\ (d \in notified') = (d \in notified)
                BY <1>1, <3>2
            <4> QED
                BY <2>1, <4>1
        <3> QED
            BY <3>1, <3>2
    <2>3. closure'[d] = Unreffed(t(d), One(d \in dropped))
        BY <1>1
    <2> HIDE DEF t
    <2>4. PICK n \in Nat : n = One(d \in dropped) /\ (n > 0 => t(d).kind # "unused")
        <3>1. d \in dropped => closure[d].kind # "unused"
            BY <1>1 DEF CallInv, OwnersInv, OwnInv, HolderInv
        <3> QED
            BY <2>2, <3>1 DEF One
    <2>5. /\ Unreffed(t(d), n) \in ClosureRecord /\ Unreffed(t(d), n).refs = t(d).refs - n
          /\ Unreffed(t(d), n).kind = t(d).kind
        BY <2>2, <2>4, UnreffedRecord
    <2>6. RecordInv(Unreffed(t(d), n), d \in notified', wrappers)
        BY <2>1, <2>2, <2>4, UnreffedKept
    <2> QED
        BY <2>2, <2>3, <2>4, <2>5, <2>6
<1>3. /\ StackInv' /\ ApartInv' /\ ThisInv' /\ OverlapInv' /\ ReleaseInv' /\ CacheInv'
      /\ KindsInv'
      /\ \A d \in Closures : /\ Runs(d)' = Runs(d)
                             /\ HeldByCall(d)' <=> HeldByCall(d)
                             /\ InC(d)' <=> InC(d)
                             /\ InNew(d)' <=> InNew(d)
    BY <1>1, <1>2, StackStays
<1>4. OwnersInv'
    <2> SUFFICES ASSUME NEW d \in Closures PROVE OwnInv(d)'
        BY DEF OwnersInv
    <2>1. OwnInv(d) /\ closure'[d].kind = closure[d].kind
        BY <1>2 DEF CallInv, OwnersInv
    <2>2. ~InNew(d)' /\ Runs(d) = {}
        BY <1>1, <1>3, EmptySeq DEF InNew, Runs
    <2>3. d \in exposed' => d \in exposed /\ (d \in handles => d \in handles')
        BY <1>1
    <2>4. HolderInv(d)'
        BY <1>1, <2>1 DEF OwnInv, HolderInv
    <2>5. ExposedInv(d)'
        BY <1>1, <1>3, <2>1, <2>3 DEF OwnInv, ExposedInv, Outlives
    <2> QED
        BY <1>3, <2>2, <2>4, <2>5 DEF OwnInv, NewInv, AsyncInv
<1>5. KeptInv'
    BY <1>1, <1>2 DEF KeptInv
<1>6. RefsAccounted'
    <2> SUFFICES ASSUME NEW d \in Closures, d \notin nested'
                 PROVE  closure'[d].refs =
                          Cardinality(Runs(d)') + One(HeldByCall(d)') + One(d \in handles')
                          + One(d \in extras') + One(d \in asyncs') + One(d \in forever')
        BY DEF RefsAccounted
    <2>1. closure[d].refs = Cardinality(Runs(d)) + One(HeldByCall(d)) + One(d \in handles)
                            + One(d \in extras) + One(d \in asyncs) + One(d \in forever)
          /\ Cardinality(Runs(d)) \in Nat
        BY <1>1, RunsCounted DEF CallInv, RefsAccounted
    <2>2. /\ closure'[d].refs = closure[d].refs - One(d \in dropped)
          /\ Runs(d)' = Runs(d) /\ (HeldByCall(d)' <=> HeldByCall(d))
          /\ d \in handles' <=> d \in handles /\ d \notin dropped
          /\ d \in dropped => d \in handles
          /\ UNCHANGED <<extras, asyncs, forever>>
        BY <1>1, <1>2, <1>3
    <2> QED
        BY <2>1, <2>2 DEF One
<1>7. CallTypeOK'
    <2>1. closure' \in [Closures -> ClosureRecord]
        BY <1>1, <1>2
    <2> QED
        BY <1>1, <2>1 DEF CallTypeOK
<1>8. ContextInv' /\ ContextLeavesNothing'
    BY <1>1 DEF CallInv, ContextInv, ContextLeavesNothing
<1> QED
    BY <1>3, <1>4, <1>5, <1>6, <1>7, <1>8 DEF CallInv

LEMMA DisposeEndsKeeps ==
    ASSUME CallInv, DisposeEnds
    PROVE  CallInv'
<1>1. /\ CallTypeOK /\ context = "notifying" /\ context' = "gone" /\ stack = << >>
      /\ \A c \in Closures : closure[c].registered => c \in notified
      /\ closure' = [c \in Closures |-> Collected(c, asyncs, wrappers, One(c \in forever))]
      /\ asyncs' = {} /\ forever' = {} /\ wrappers' = {}
      /\ handles' = handles \ Disconnected(wrappers)
      /\ exposed' = exposed \ Disconnected(wrappers)
      /\ UNCHANGED <<cache, stack, extras, notified, nested>>
    BY DEF CallInv, DisposeEnds, ContextInv
<1>2. ASSUME NEW d \in Closures
      PROVE  /\ closure'[d] \in ClosureRecord
             /\ closure'[d].refs = closure[d].refs -
                  (One(d \in asyncs) + One(d \in Disconnected(wrappers)) + One(d \in forever))
             /\ closure'[d].kind = closure[d].kind
             /\ RecordInv(closure'[d], d \in notified', wrappers')
    <2>1. Cardinality(Runs(d)) \in Nat
        BY <1>1, RunsCounted
    <2>2. d \in Disconnected(wrappers) => d \in handles
        BY DEF Disconnected
    <2>3. d \notin nested =>
            One(d \in asyncs) + One(d \in Disconnected(wrappers)) + One(d \in forever)
              <= closure[d].refs
        BY <2>1, <2>2 DEF CallInv, RefsAccounted, One
    <2>4. PICK n \in Nat : n = One(d \in forever)
        BY DEF One
    <2>5. asyncs \in SUBSET Closures /\ wrappers \in SUBSET Objects
        BY <1>1 DEF CallTypeOK
    <2>6. closure'[d] = Collected(d, asyncs, wrappers, n)
        BY <1>1, <2>4
    <2>7. d \notin nested =>
            One(d \in asyncs) + One(d \in Disconnected(wrappers)) + n <= closure[d].refs
        BY <2>3, <2>4
    <2>8. /\ Collected(d, asyncs, wrappers, n) \in ClosureRecord
          /\ Collected(d, asyncs, wrappers, n).refs = closure[d].refs -
               (One(d \in asyncs) + One(d \in Disconnected(wrappers)) + n)
          /\ Collected(d, asyncs, wrappers, n).kind = closure[d].kind
          /\ RecordInv(Collected(d, asyncs, wrappers, n), d \in notified, wrappers \ wrappers)
        BY <2>5, <2>7, CollectedRecord
    <2>9. wrappers' = wrappers \ wrappers /\ notified' = notified
        BY <1>1
    <2> QED
        BY <2>4, <2>6, <2>8, <2>9
<1>3. \A d \in Closures : /\ Runs(d)' = Runs(d)
                          /\ HeldByCall(d)' <=> HeldByCall(d)
                          /\ Runs(d)' = {} /\ ~InNew(d)'
    BY <1>1, EmptySeq DEF Runs, HeldByCall, InNew
<1>4. /\ StackInv' /\ ApartInv' /\ ThisInv' /\ OverlapInv' /\ ReleaseInv' /\ CacheInv' /\ KindsInv'
    BY <1>1, EmptySeq DEF StackInv, ApartInv, ThisInv, OverlapInv, ReleaseInv, CacheInv, KindsInv
<1>5. OwnersInv'
    <2> SUFFICES ASSUME NEW d \in Closures PROVE OwnInv(d)'
        BY DEF OwnersInv
    <2>1. OwnInv(d) /\ closure'[d].kind = closure[d].kind
        BY <1>2 DEF CallInv, OwnersInv
    <2> QED
        BY <1>1, <1>3, <2>1 DEF OwnInv, HolderInv, ExposedInv, NewInv, AsyncInv
<1>6. KeptInv'
    BY <1>2 DEF KeptInv
<1>7. RefsAccounted'
    <2> SUFFICES ASSUME NEW d \in Closures, d \notin nested'
                 PROVE  closure'[d].refs =
                          Cardinality(Runs(d)') + One(HeldByCall(d)') + One(d \in handles')
                          + One(d \in extras') + One(d \in asyncs') + One(d \in forever')
        BY DEF RefsAccounted
    <2>1. closure[d].refs = Cardinality(Runs(d)) + One(HeldByCall(d)) + One(d \in handles)
                            + One(d \in extras) + One(d \in asyncs) + One(d \in forever)
          /\ Cardinality(Runs(d)) \in Nat
        BY <1>1, RunsCounted DEF CallInv, RefsAccounted
    <2>2. /\ closure'[d].refs = closure[d].refs -
               (One(d \in asyncs) + One(d \in Disconnected(wrappers)) + One(d \in forever))
          /\ Runs(d)' = Runs(d) /\ (HeldByCall(d)' <=> HeldByCall(d))
          /\ d \in handles' <=> d \in handles /\ d \notin Disconnected(wrappers)
          /\ d \in Disconnected(wrappers) => d \in handles
          /\ d \notin asyncs' /\ d \notin forever'
          /\ UNCHANGED extras
        BY <1>1, <1>2, <1>3 DEF Disconnected
    <2> QED
        BY <2>1, <2>2 DEF One
<1>8. CallTypeOK'
    <2>1. closure' \in [Closures -> ClosureRecord]
        BY <1>1, <1>2
    <2> QED
        BY <1>1, <2>1 DEF CallTypeOK
<1>9. ContextLeavesNothing'
    <2> SUFFICES ASSUME NEW d \in Closures PROVE closure'[d].callable = "none"
        BY DEF ContextLeavesNothing
    <2>1. closure'[d] \in ClosureRecord /\ RecordInv(closure'[d], d \in notified', {})
        BY <1>1, <1>2
    <2>2. closure'[d].registered => closure[d].registered
        <3>1. closure'[d] = Collected(d, asyncs, wrappers, One(d \in forever))
            BY <1>1
        <3>2. closure[d] \in ClosureRecord
            BY <1>1 DEF CallTypeOK
        <3> QED
            BY <3>1, <3>2 DEF Collected, Unreffed, Invalidated, ClosureRecord
    <2>3. closure'[d].callable # "rooted"
        BY <1>1, <2>1, <2>2 DEF RecordInv
    <2>4. closure'[d].callable # "traced"
        BY <2>1 DEF RecordInv
    <2> QED
        BY <2>1, <2>3, <2>4 DEF ClosureRecord
<1>10. ContextInv'
    BY <1>1 DEF CallInv, ContextInv
<1> QED
    BY <1>4, <1>5, <1>6, <1>7, <1>8, <1>9, <1>10 DEF CallInv

------------------------------
LEMMA InitCalls == CallInit => CallInv
<1> SUFFICES ASSUME CallInit PROVE CallInv
    OBVIOUS
<1>1. /\ closure = [c \in Closures |-> UnusedClosure] /\ wrappers = Objects
      /\ cache = [f \in Functions |-> [j \in DOMAIN Signature[f] |-> NoClosure]]
      /\ stack = << >> /\ stack \in Seq(Frame) /\ DOMAIN stack = {}
      /\ handles = {} /\ extras = {} /\ asyncs = {} /\ forever = {}
      /\ exposed = {} /\ notified = {} /\ nested = {} /\ context = "alive"
    BY EmptySeq DEF CallInit
<1>2. UnusedClosure \in ClosureRecord /\ UnusedClosure.refs = 0
      /\ UnusedClosure.kind = "unused" /\ RecordInv(UnusedClosure, FALSE, Objects)
    BY DEF UnusedClosure, ClosureRecord, RecordInv
<1>3. CallTypeOK
    BY <1>1, <1>2 DEF CallTypeOK
<1>4. /\ StackInv /\ ThisInv /\ ApartInv /\ KindsInv /\ ContextInv /\ CacheInv /\ OverlapInv
      /\ ReleaseInv /\ ContextLeavesNothing
    BY <1>1 DEF StackInv, ThisInv, ApartInv, KindsInv, ContextInv, CacheInv, OverlapInv,
                ReleaseInv, ContextLeavesNothing
<1>5. \A c \in Closures : Runs(c) = {} /\ ~HeldByCall(c) /\ ~InNew(c)
    BY <1>1 DEF Runs, HeldByCall, InNew
<1>6. OwnersInv
    BY <1>1, <1>5 DEF OwnersInv, OwnInv, HolderInv, ExposedInv, NewInv, AsyncInv
<1>7. KeptInv
    <2> SUFFICES ASSUME NEW c \in Closures PROVE RecordInv(closure[c], c \in notified, wrappers)
        BY DEF KeptInv
    <2>1. (c \in notified) = FALSE /\ closure[c] = UnusedClosure /\ wrappers = Objects
        BY <1>1
    <2> QED
        BY <1>2, <2>1
<1>8. RefsAccounted
    <2> SUFFICES ASSUME NEW c \in Closures
                 PROVE  closure[c].refs =
                          Cardinality(Runs(c)) + One(HeldByCall(c)) + One(c \in handles)
                          + One(c \in extras) + One(c \in asyncs) + One(c \in forever)
        BY DEF RefsAccounted
    <2>1. closure[c].refs = 0 /\ Cardinality(Runs(c)) = 0 /\ ~HeldByCall(c)
        BY <1>1, <1>2, <1>5, FS_EmptySet
    <2> QED
        BY <1>1, <2>1 DEF One
<1> QED
    BY <1>3, <1>4, <1>6, <1>7, <1>8 DEF CallInv

LEMMA StutterKeeps ==
    ASSUME CallInv, UNCHANGED invocationVars
    PROVE  CallInv'
<1>1. UNCHANGED <<closure, wrappers, cache, stack, handles, extras, asyncs, forever, exposed,
                  context, notified, nested>>
    BY DEF invocationVars
<1>2. /\ StackInv' /\ ApartInv' /\ ThisInv' /\ OverlapInv' /\ ReleaseInv' /\ CacheInv'
      /\ KindsInv'
      /\ \A d \in Closures : /\ Runs(d)' = Runs(d)
                             /\ HeldByCall(d)' <=> HeldByCall(d)
                             /\ InC(d)' <=> InC(d)
                             /\ InNew(d)' <=> InNew(d)
    BY <1>1, StackStays
<1>3. OwnersInv'
    BY <1>1, <1>2, OwnStays DEF CallInv, OwnersInv
<1>4. RefsAccounted'
    BY <1>1, <1>2 DEF CallInv, RefsAccounted, One
<1>5. CallTypeOK' /\ KeptInv' /\ ContextInv' /\ ContextLeavesNothing'
    BY <1>1 DEF CallInv, CallTypeOK, KeptInv, ContextInv, ContextLeavesNothing
<1> QED
    BY <1>2, <1>3, <1>4, <1>5 DEF CallInv

LEMMA EachCallStep ==
    ASSUME CallInv, [CallNext]_invocationVars
    PROVE  CallInv'
<1>1. CASE ScriptStep
    BY <1>1, ConnectKeeps, CallKeeps DEF ScriptStep
<1>2. CASE InvokeStep
    BY <1>2, ConvertCallbackKeeps, ConvertBoxedKeeps, ConvertNullKeeps, ConvertDataKeeps,
       ConvertFailsKeeps, EnterCKeeps, ReturnFromCKeeps, ReleaseCallbackKeeps,
       ReleaseBoxedKeeps, ReleaseDataKeeps, CallEndsKeeps DEF InvokeStep
<1>3. CASE GarbageStep
    BY <1>3, CollectKeeps DEF GarbageStep
<1>4. CASE CStep
    BY <1>4, CallBackKeeps, BlockedKeeps, KeepBoxedKeeps, DropHandleKeeps, CallBackEndsKeeps
       DEF CStep
<1>5. CASE ContextStep
    BY <1>5, DisposeBeginsKeeps, NotifyOneKeeps, DisposeEndsKeeps DEF ContextStep
<1>6. CASE UNCHANGED invocationVars
    BY <1>6, StutterKeeps
<1> QED
    BY <1>1, <1>2, <1>3, <1>4, <1>5, <1>6 DEF CallNext

(* The invariant of Invocation.                                              *)
THEOREM CallsInvariant == CallSpec => []CallInv
<1>1. CallInv /\ [CallNext]_invocationVars => CallInv'
    BY EachCallStep
<1> QED
    BY <1>1, InitCalls, PTL DEF CallSpec

(* The calls under way and the closures are of their types.                 *)
THEOREM CallTypeCorrect == CallSpec => []CallTypeOK
<1>1. CallSpec => []CallInv
    BY CallsInvariant
<1>2. CallInv => CallTypeOK
    BY DEF CallInv
<1> QED
    BY <1>1, <1>2, PTL

(* A closure has as many references as it has holders, so that none is      *)
(* freed under one of them or outlives them all, unless calls of one        *)
(* function, one within another, have made it.                              *)
THEOREM HoldersAreCounted == CallSpec => []RefsAccounted
<1>1. CallSpec => []CallInv
    BY CallsInvariant
<1>2. CallInv => RefsAccounted
    BY DEF CallInv
<1> QED
    BY <1>1, <1>2, PTL

(* C never calls a closure that has been freed, unless calls of one         *)
(* function, one within another, have made it.                              *)
THEOREM NoCallOfFreed == CallSpec => []CallableIsAlive
<1>1. CallSpec => []CallInv
    BY CallsInvariant
<1>2. CallInv => CallableIsAlive
    <2> SUFFICES ASSUME CallInv, context # "gone", NEW c \in exposed, c \notin nested
                 PROVE  closure[c].refs > 0
        BY DEF CallableIsAlive
    <2>1. c \in Closures /\ closure[c] \in ClosureRecord
        BY DEF CallInv, CallTypeOK
    <2>2. /\ closure[c].kind # "unused" /\ Outlives(c)
          /\ closure[c].kind = "signal" => c \in handles
          /\ closure[c].kind = "call" => InC(c)
          /\ closure[c].kind = "boxed" => c \in handles \/ InC(c)
        BY <2>1 DEF CallInv, OwnersInv, OwnInv, ExposedInv
    <2>3. InC(c) => HeldByCall(c)
        BY DEF InC, HeldByCall
    <2>4. HeldByCall(c) \/ c \in handles \/ c \in extras \/ c \in forever
        BY <2>1, <2>2, <2>3 DEF ClosureRecord, ClosureKinds, TrampolineKinds, Outlives
    <2>5. /\ closure[c].refs = Cardinality(Runs(c)) + One(HeldByCall(c)) + One(c \in handles)
                               + One(c \in extras) + One(c \in asyncs) + One(c \in forever)
          /\ Cardinality(Runs(c)) \in Nat
        BY <2>1, RunsCounted DEF CallInv, RefsAccounted
    <2> QED
        BY <2>4, <2>5 DEF One
<1> QED
    BY <1>1, <1>2, PTL

(* The function of a closure is rooted or traced for as long as it is set,  *)
(* and m_destroy_notifications has exactly the closures that dispose() has  *)
(* still to tell or has told.                                               *)
THEOREM FunctionsAreKept == CallSpec => []CallableIsKept
<1>1. CallSpec => []CallInv
    BY CallsInvariant
<1>2. CallInv => CallableIsKept
    BY DEF CallInv, KeptInv, RecordInv, CallableIsKept
<1> QED
    BY <1>1, <1>2, PTL

(* Once the context is gone no closure has a function.                      *)
THEOREM ContextTakesFunctions == CallSpec => []ContextLeavesNothing
<1>1. CallSpec => []CallInv
    BY CallsInvariant
<1>2. CallInv => ContextLeavesNothing
    BY DEF CallInv
<1> QED
    BY <1>1, <1>2, PTL

(* invoke() releases the arguments that it has converted, each once, and no *)
(* other, except that calls of one function, one within another, may        *)
(* release each other's closures; what C has taken it frees only when the   *)
(* conversion of a result failed.                                           *)
THEOREM ArgumentsReleasedOnce == CallSpec => []ReleasesItsOwn
<1>1. CallSpec => []CallInv
    BY CallsInvariant
<1>2. CallInv => ReleasesItsOwn
    <2> SUFFICES ASSUME CallInv, NEW i \in DOMAIN stack
                 PROVE  LET f == stack[i] IN
                        /\ f.phase = "release" => \A j \in DOMAIN f.args :
                             /\ j < f.pos => f.args[j] # "ours" /\ f.args[j] \notin Closures
                             /\ j > f.done => f.args[j] = "unset"
                        /\ \A j \in DOMAIN f.args : f.args[j] = "lost" => f.failed
                        /\ \A j \in DOMAIN f.args : Mistaken(f, j) =>
                             {f.args[j], cache[f.fn][j]} \cap Closures \subseteq nested
        BY DEF ReleasesItsOwn
    <2>1. stack[i] \in Frame /\ GoodFrame(stack[i])
        BY StackTop DEF CallInv, StackInv
    <2>2. stack[i].pos \in Nat /\ DOMAIN stack[i].args \subseteq Nat
        BY <2>1, LenProperties DEF Frame
    <2>3. ASSUME NEW j \in DOMAIN stack[i].args
          PROVE  /\ stack[i].phase = "release" =>
                      /\ j < stack[i].pos => stack[i].args[j] # "ours"
                                             /\ stack[i].args[j] \notin Closures
                      /\ j > stack[i].done => stack[i].args[j] = "unset"
                 /\ stack[i].args[j] = "lost" => stack[i].failed
        <3>1. ArgInv(stack[i], j) /\ j \in Nat
            BY <2>1, <2>2 DEF GoodFrame
        <3>2. stack[i].phase = "release" /\ j < stack[i].pos => ~Pending(stack[i], j)
            BY <2>2, <3>1 DEF Pending
        <3> QED
            BY <3>1, <3>2 DEF ArgInv
    <2>4. ASSUME NEW j \in DOMAIN stack[i].args, Mistaken(stack[i], j)
          PROVE  {stack[i].args[j], cache[stack[i].fn][j]} \cap Closures \subseteq nested
        <3>1. Pending(stack[i], j) /\ cache[stack[i].fn][j] # Own(stack[i], j)
            BY <2>4 DEF Mistaken, Pending, Own
        <3>2. {cache[stack[i].fn][j], Own(stack[i], j)} \subseteq nested \cup {NoClosure}
            BY <2>4, <3>1 DEF Mistaken, CallInv, CacheInv, CacheMatches
        <3> QED
            BY <3>2, InvocationAssumption DEF Own
    <2> QED
        BY <2>3, <2>4
<1> QED
    BY <1>1, <1>2, PTL

=============================================================================
