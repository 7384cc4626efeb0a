------------------------------ MODULE Closures ------------------------------
(***************************************************************************)
(* Gjs::Closure (gi/closure.cpp) on top of GObject's reference-counted     *)
(* GClosure: a JavaScript function that C may call.  What happens to one   *)
(* closure is an operator on its record, so that a step that touches many  *)
(* of them is a function over all closures.                                *)
(***************************************************************************)
EXTENDS Integers

CONSTANTS
    Closures,     \* the closures there may ever be
    Objects,      \* GObjects with a JavaScript wrapper
    NoObject      \* no wrapper

ASSUME ClosureAssumption == NoObject \notin Objects

(* The callback arguments of introspected functions, by scope: "notified"   *)
(* has a GDestroyNotify and "undying" is a notified callback without one.   *)
(* "boxed" is a GClosure argument, "signal" is made by connect().           *)
TrampolineKinds == {"call", "async", "notified", "undying", "forever"}
ClosureKinds == TrampolineKinds \cup {"boxed", "signal"}

(* m_callable is "rooted" in the garbage collector, "traced" from the       *)
(* wrapper of object (which has the closure in m_closures), or reset, and   *)
(* then m_cx is null too.  registered: in m_destroy_notifications.  With no *)
(* references it is freed; fewer than none are undefined behaviour.         *)
ClosureRecord == [kind : ClosureKinds \cup {"unused"}, refs : Int,
                  callable : {"rooted", "traced", "none"}, registered : BOOLEAN,
                  object : Objects \cup {NoObject}]

UnusedClosure == [kind |-> "unused", refs |-> 0, callable |-> "none",
                  registered |-> FALSE, object |-> NoObject]

One(b) == IF b THEN 1 ELSE 0

MutantIsTraced(k, o) == k \in {"signal", "notified", "undying"}

(* Notified callbacks of GObject methods, and signal handlers.              *)
IsTraced(k, o) == k \in {"signal", "notified", "undying"} /\ o # NoObject

(* The constructor, and associate_closure() for the traced ones.            *)
NewClosure(k, o, n) ==
    LET traced == IsTraced(k, o) IN
    [kind |-> k, refs |-> n, callable |-> IF traced THEN "traced" ELSE "rooted",
     registered |-> ~traced, object |-> IF traced THEN o ELSE NoObject]

(* g_closure_invalidate(): closure_invalidated() or closure_set_invalid(),  *)
(* and the object's closure_invalidated_notify().                           *)
Invalidated(r) ==
    IF r.callable = "none" THEN r
    ELSE [r EXCEPT !.callable = "none", !.registered = FALSE, !.object = NoObject]

MutantContextFinalized(r) == Invalidated(r)

(* global_context_finalized(): m_cx goes first, so that the entry that is   *)
(* being visited stays in the set.                                          *)
ContextFinalized(r) ==
    IF r.callable = "none" THEN r
    ELSE [r EXCEPT !.callable = "none", !.object = NoObject]

(* g_closure_unref(), n times: the last reference invalidates and frees.    *)
Unreffed(r, n) ==
    [(IF n > 0 /\ r.refs <= n THEN Invalidated(r) ELSE r) EXCEPT !.refs = @ - n]

=============================================================================
