---------------------------- MODULE ToggleQueue ----------------------------
(***************************************************************************)
(* gi/toggle.h and gi/toggle.cpp: the queue through which any thread tells *)
(* the thread that runs JavaScript to root ("UP") or unroot ("DOWN") the   *)
(* wrapper of a GObject.  The queue is a deque guarded by a spin lock that *)
(* its holder may take again, drained by one GLib idle source, and closed  *)
(* when the context goes away.                                             *)
(*                                                                         *)
(* This module holds the queue's state and the operations on it; the       *)
(* threads that call them are in ObjectWrapper.                            *)
(***************************************************************************)
EXTENDS Integers, Kept

CONSTANTS
    Insts,      \* ObjectInstance structures, the queue's "object" pointers
    Threads,    \* threads that may enqueue
    NoThread    \* std::thread::id(), the holder of a free lock

ASSUME NoThreadAssumption == NoThread \notin Threads

VARIABLES
    q,        \* the deque: a sequence of [object, direction]
    holder,   \* m_holder: the thread that has the lock
    idle,     \* the idle source: m_idle_id is 0 exactly when this is "none"
    stopped   \* m_shutdown

Direction == {"DOWN", "UP"}
Item == [object : Insts, direction : Direction]

(* "attached": waiting in the main context; "running": idle_handle_toggle  *)
(* is on the stack; "returned": it has returned and GLib has yet to call   *)
(* idle_destroy_notify.                                                    *)
IdleState == {"none", "attached", "running", "returned"}

QueueTypeOK ==
    /\ q \in Seq(Item)
    /\ holder \in Threads \cup {NoThread}
    /\ idle \in IdleState
    /\ stopped \in BOOLEAN

QueueInit ==
    /\ q = << >>
    /\ holder = NoThread
    /\ idle = "none"
    /\ stopped = FALSE

-----------------------------------------------------------------------------
Opposite(d) == IF d = "UP" THEN "DOWN" ELSE "UP"

(* find_operation_locked(): where obj waits to be toggled in direction d.  *)
Positions(obj, d) == {k \in 1..Len(q) : q[k] = [object |-> obj, direction |-> d]}

(* is_queued(), both halves of its pair and their disjunction.             *)
IsQueued(obj, d) == Positions(obj, d) # {}
AnythingQueued(obj) == \E d \in Direction : IsQueued(obj, d)

(* The lock can be taken by t: it is free, or t already has it.            *)
CanLock(t) == holder \in {NoThread, t}

(* cancel(): every item about obj leaves the queue.                        *)
Cancelled(obj) == Keep(q, {k \in 1..Len(q) : q[k].object # obj})

(* A way to get enqueue() wrong: the opposite toggle is removed, but the    *)
(* new one appended all the same.                                          *)
MutantNoReturn(obj, d) ==
    IF stopped THEN q
    ELSE Append(Keep(q, (1..Len(q)) \ Positions(obj, Opposite(d))),
                [object |-> obj, direction |-> d])

(* enqueue(): what becomes of a queue s that waits for the main thread.    *)
(* After shutdown nothing is accepted.  A toggle that meets its opposite   *)
(* removes it, and neither happens.                                        *)
Enqueued(obj, d) ==
    IF stopped THEN q
    ELSE IF IsQueued(obj, Opposite(d))
    THEN Keep(q, (1..Len(q)) \ {Nth(Positions(obj, Opposite(d)), 1)})
    ELSE Append(q, [object |-> obj, direction |-> d])

(* The rest of enqueue(): an item that was appended needs an idle source;  *)
(* one is added unless m_idle_id says that there is one.                   *)
Wake(obj, d) ==
    idle' = IF idle = "none" /\ ~stopped /\ ~IsQueued(obj, Opposite(d))
            THEN "attached" ELSE idle

Enqueue(obj, d) == q' = Enqueued(obj, d) /\ Wake(obj, d)

=============================================================================
