-------------------------- MODULE Tweener_proofs --------------------------
(***************************************************************************)
(* For any tweens, scopes, callbacks and depth of nesting: a slot that a   *)
(* function of tweener.js works on does not move, a frame comes to each    *)
(* tween once, no property of an object is driven by two tweens, and no    *)
(* tween is completed twice.                                               *)
(***************************************************************************)
EXTENDS Tweener, Lists_proofs

(* Tweener's Activation, about the first n of the tween objects.            *)
ActivationTo(n) ==
    [in : {"frame", "update", "add"},
     at : {"loop", "scan", "push", "immediate", "entry", "set", "calls",
           "onStart", "onUpdate", "onCall", "onComplete", "onOverwrite"},
     i : Nat, tween : 0..n, over : BOOLEAN, scopes : Seq(Scopes),
     want : Seq(Request), seen : SUBSET (1..n)]

(* Two tweens that _removeTweensByTime() must not leave in the list          *)
(* together: OneDriver forbids it.                                          *)
Conflict(t, u) ==
    /\ t.scope = u.scope
    /\ t.props \cap u.props # {}
    /\ Meet(t, u)
    /\ ~t.moved /\ ~u.moved

(* What holds of the tween objects and of _tweenList at every step.          *)
Sound(T, L, c) ==
    /\ T \in Seq(Tween) /\ L \in Seq(0..Len(T)) /\ c \in Nat
    /\ \A i, j \in 1..Len(L) : i # j /\ L[i] # 0 /\ L[j] # 0 =>
          L[i] # L[j] /\ ~Conflict(T[L[i]], T[L[j]])
    /\ \A i \in 1..Len(L) : L[i] # 0 /\ T[L[i]].isPaused => T[L[i]].timePaused <= c

(* addTween() has made a tween and has not put it into the list yet.         *)
Pending(a) == a.in = "add" /\ a.at \in {"scan", "onOverwrite", "push"}

(* What holds of an activation by its place. _updateTweens() is the first of *)
(* the stack; it has come to all the slots before a.i and to none behind it. *)
FrameFits(L, d, a) ==
    /\ d = 1 /\ a.at = "loop" /\ a.i >= 1
    /\ \A i \in 1..Len(L) : L[i] # 0 =>
          /\ i < a.i => L[i] \in a.seen
          /\ i > a.i => L[i] \notin a.seen

(* _updateTweenByIndex() works on the slot that its caller is at.            *)
UpdateFits(L, S, d, a) ==
    /\ d > 1
    /\ a.at \in {"entry", "set", "calls", "onStart", "onUpdate", "onCall", "onComplete"}
    /\ a.tween # 0
    /\ a.i \in 1..Len(L) /\ L[a.i] \in {a.tween, 0}
    /\ S[d - 1].i = a.i
    /\ \/ S[d - 1].in = "frame" /\ a.tween \in S[d - 1].seen
       \/ S[d - 1].in = "add" /\ S[d - 1].at = "immediate"

(* addTween() is here for one request: the program asked for it.             *)
AddFits(a) ==
    /\ a.at \in {"loop", "scan", "push", "immediate", "onOverwrite"}
    /\ Len(a.want) = 1 /\ a.want[1] \in Requests

(* A tween that is not in the list yet: the slots that _removeTweensByTime() *)
(* has passed do not conflict with it, and nobody else has seen it.          *)
PendingFits(T, L, S, d, a) ==
    /\ a.tween # 0 /\ ~T[a.tween].isPaused
    /\ a.at = "scan" => a.i \in 1..(Len(L) + 1)
    /\ a.at = "onOverwrite" => a.i \in 1..Len(L)
    /\ \A i \in 1..Len(L) : L[i] # 0 =>
          /\ L[i] # a.tween
          /\ a.at = "push" \/ i < a.i => ~Conflict(T[a.tween], T[L[i]])
    /\ \A e \in 1..(d - 1) :
          /\ a.tween \notin S[e].seen
          /\ Pending(S[e]) => S[e].tween # a.tween

Fits(T, L, S, d) ==
    /\ S[d] \in ActivationTo(Len(T))
    /\ S[d].in = "frame" => FrameFits(L, d, S[d])
    /\ S[d].in = "update" => UpdateFits(L, S, d, S[d])
    /\ S[d].in = "add" => AddFits(S[d])
    /\ Pending(S[d]) => PendingFits(T, L, S, d, S[d])
    /\ d > 1 => S[d].in = "update" \/ S[d - 1].at \in UserPoints

(* The inductive invariant for the list: SlotStays, EachOncePerFrame and     *)
(* OneDriver follow from it.                                                *)
TweenInv ==
    /\ Sound(tweens, list, clock)
    /\ stack \in Seq(ActivationTo(Len(tweens)))
    /\ \A d \in 1..Len(stack) : Fits(tweens, list, stack, d)
    /\ ~engine => list = << >> /\ stack = << >>

(* What it is for a tween to be completed once: no two functions work on a  *)
(* tween that is being updated, and such a tween has no other slot.         *)
Busy(a) == a.in = "update" \/ Pending(a)
Completing(a) == a.in = "update" /\ a.at = "onComplete"

UpdatesApart ==
    \A d, e \in 1..Len(stack) :
       stack[d].in = "update" /\ d # e /\ Busy(stack[e]) => stack[d].tween # stack[e].tween

UpdatesAlone ==
    \A d \in 1..Len(stack) : \A i \in 1..Len(list) :
       stack[d].in = "update" /\ list[i] = stack[d].tween => i = stack[d].i

Finished(t) ==
    /\ \A i \in 1..Len(list) : list[i] # t
    /\ \A d \in 1..Len(stack) : Busy(stack[d]) => stack[d].tween # t

Finishes ==
    \A t \in 1..Len(tweens) :
       \/ tweens[t].completed = 0
       \/ /\ tweens[t].completed = 1
          /\ \/ \E d \in 1..Len(stack) : Completing(stack[d]) /\ stack[d].tween = t
             \/ Finished(t)

FinishInv == UpdatesApart /\ UpdatesAlone /\ Finishes

-----------------------------------------------------------------------------
(* u is what has become of the tween t, or a part of it.                    *)
Kin(t, u) ==
    /\ u.scope = t.scope
    /\ u.props \subseteq t.props
    /\ ~u.moved => /\ ~t.moved
                   /\ u.timeStart = t.timeStart /\ u.timeComplete = t.timeComplete

LEMMA KinSame == \A t : Kin(t, t)
BY DEF Kin

LEMMA KinConflict ==
    ASSUME NEW t, NEW u, NEW t2, NEW u2, Kin(t, t2), Kin(u, u2), ~Conflict(t, u)
    PROVE  ~Conflict(t2, u2)
BY DEF Kin, Conflict, Meet

LEMMA ConflictSymmetric ==
    ASSUME NEW t, NEW u, Conflict(t, u)
    PROVE  Conflict(u, t)
BY DEF Conflict, Meet

(* Tweens live on, slots are emptied, and the list grows at its end.        *)
Softer(T, L, T2, L2) ==
    /\ Len(T) <= Len(T2)
    /\ \A t \in 1..Len(T) :
          /\ Kin(T[t], T2[t])
          /\ (\A i \in 1..Len(L) : L[i] # t) => T2[t].isPaused = T[t].isPaused
    /\ Len(L) <= Len(L2)
    /\ \A i \in 1..Len(L) : L2[i] = L[i] \/ L2[i] = 0

LEMMA ActivationsGrow ==
    ASSUME NEW m \in Nat, NEW n \in Nat, m <= n, NEW a \in ActivationTo(m)
    PROVE  a \in ActivationTo(n)
BY DEF ActivationTo

LEMMA FitsSofter ==
    ASSUME NEW T, NEW L, NEW T2, NEW L2, NEW S, NEW d \in Nat,
           Len(T) \in Nat, Len(T2) \in Nat, Len(L) \in Nat, Len(L2) \in Nat,
           \A i \in 1..Len(L) : L[i] \in 0..Len(T),
           Fits(T, L, S, d), Softer(T, L, T2, L2),
           \A i \in 1..Len(L2) : i > Len(L) /\ L2[i] # 0 =>
              /\ L2[i] \notin S[d].seen
              /\ Pending(S[d]) => /\ L2[i] # S[d].tween
                                  /\ S[d].at # "push"
              /\ S[d].in = "frame" => S[d].i <= Len(L)
    PROVE  Fits(T2, L2, S, d)
<1> DEFINE a == S[d]
           m == Len(L)
<1>1. a \in ActivationTo(Len(T)) /\ a.i \in Nat /\ a.tween \in 0..Len(T)
    BY DEF Fits, ActivationTo
<1>2. a \in ActivationTo(Len(T2))
    BY <1>1, ActivationsGrow DEF Softer
<1>3. /\ Len(T) <= Len(T2) /\ m <= Len(L2) /\ m \in Nat
      /\ \A t \in 1..Len(T) : Kin(T[t], T2[t])
      /\ \A t \in 1..Len(T) :
            (\A i \in 1..m : L[i] # t) => T2[t].isPaused = T[t].isPaused
      /\ \A i \in 1..m : L2[i] = L[i] \/ L2[i] = 0
      /\ 1..m \subseteq 1..Len(L2)
    BY DEF Softer
<1> HIDE DEF m
<1>4. \A i \in 1..Len(L2) : i \in 1..m \/ i > m
    BY <1>3
<1>5. ASSUME a.in = "frame"
      PROVE  FrameFits(L2, d, a)
    <2>1. /\ d = 1 /\ a.at = "loop" /\ a.i >= 1
          /\ \A i \in 1..m : L[i] # 0 =>
                /\ i < a.i => L[i] \in a.seen
                /\ i > a.i => L[i] \notin a.seen
        BY <1>5 DEF Fits, FrameFits, m
    <2>2. ASSUME NEW i \in 1..Len(L2), L2[i] # 0
          PROVE  /\ i < a.i => L2[i] \in a.seen
                 /\ i > a.i => L2[i] \notin a.seen
        <3>1. CASE i \in 1..m
            BY <2>1, <2>2, <3>1, <1>3
        <3>2. CASE i > m
            BY <2>2, <3>2, <1>5, <1>1, <1>3 DEF m
        <3> QED
            BY <3>1, <3>2, <1>4
    <2> QED
        BY <2>1, <2>2 DEF FrameFits
<1>6. ASSUME a.in = "update"
      PROVE  UpdateFits(L2, S, d, a)
    <2>1. UpdateFits(L, S, d, a)
        BY <1>6 DEF Fits
    <2>2. a.i \in 1..m /\ (L[a.i] = a.tween \/ L[a.i] = 0)
        BY <2>1 DEF UpdateFits, m
    <2>3. a.i \in 1..Len(L2) /\ (L2[a.i] = a.tween \/ L2[a.i] = 0)
        BY <2>2, <1>3
    <2> QED
        BY <2>1, <2>3 DEF UpdateFits
<1>7. ASSUME Pending(a)
      PROVE  PendingFits(T2, L2, S, d, a)
    <2>1. PendingFits(T, L, S, d, a)
        BY <1>7 DEF Fits
    <2>2. /\ a.tween \in 1..Len(T)
          /\ a.at = "scan" => a.i \in 1..(m + 1)
          /\ a.at = "onOverwrite" => a.i \in 1..m
          /\ ~T[a.tween].isPaused
          /\ \A i \in 1..m : L[i] # 0 =>
                /\ L[i] # a.tween
                /\ a.at = "push" \/ i < a.i => ~Conflict(T[a.tween], T[L[i]])
          /\ a.at \in {"scan", "onOverwrite", "push"}
        BY <2>1, <1>1, <1>7 DEF PendingFits, m, Pending
    <2>3. /\ a.at = "scan" => a.i \in 1..(Len(L2) + 1)
          /\ a.at = "onOverwrite" => a.i \in 1..Len(L2)
        BY <2>2, <1>3
    <2>4. ASSUME NEW i \in 1..Len(L2), L2[i] # 0
          PROVE  /\ L2[i] # a.tween
                 /\ a.at = "push" \/ i < a.i => ~Conflict(T2[a.tween], T2[L2[i]])
        <3>1. CASE i \in 1..m
            <4>1. L2[i] = L[i] /\ L[i] \in 1..Len(T)
                BY <3>1, <2>4, <1>3 DEF m
            <4>2. L[i] # a.tween
                BY <4>1, <2>2, <3>1, <2>4
            <4>3. Kin(T[a.tween], T2[a.tween]) /\ Kin(T[L[i]], T2[L[i]])
                BY <4>1, <1>3, <2>2
            <4>4. a.at = "push" \/ i < a.i => ~Conflict(T[a.tween], T[L[i]])
                BY <3>1, <2>2, <2>4, <4>1
            <4>5. a.at = "push" \/ i < a.i => ~Conflict(T2[a.tween], T2[L[i]])
                BY <4>3, <4>4, KinConflict
            <4> QED
                BY <4>1, <4>2, <4>5
        <3>2. CASE i > m
            <4>1. L2[i] # a.tween /\ a.at # "push"
                BY <3>2, <2>4, <1>7 DEF m
            <4>2. ~(i < a.i)
                BY <4>1, <2>2, <3>2, <1>3, <1>1
            <4> QED
                BY <4>1, <4>2
        <3> QED
            BY <3>1, <3>2, <1>4
    <2>5. ~T2[a.tween].isPaused
        <3>1. \A i \in 1..m : L[i] # a.tween
            BY <2>2
        <3> QED
            BY <3>1, <2>2, <1>3
    <2>6. /\ a.tween # 0
          /\ \A e \in 1..(d - 1) :
                /\ a.tween \notin S[e].seen
                /\ Pending(S[e]) => S[e].tween # a.tween
        BY <2>1 DEF PendingFits
    <2> HIDE DEF a
    <2> QED
        BY <2>3, <2>4, <2>5, <2>6 DEF PendingFits
<1>8. /\ a.in = "add" => AddFits(a)
      /\ d > 1 => a.in = "update" \/ S[d - 1].at \in UserPoints
    BY DEF Fits
<1> QED
    BY <1>2, <1>5, <1>6, <1>7, <1>8 DEF Fits

LEMMA FitsAgree ==
    ASSUME NEW T, NEW L, NEW S, NEW S2, NEW d \in Nat \ {0},
           \A e \in 1..d : S2[e] = S[e], Fits(T, L, S, d)
    PROVE  Fits(T, L, S2, d)
<1>1. S2[d] = S[d]
    OBVIOUS
<1>2. d > 1 => S2[d - 1] = S[d - 1]
    OBVIOUS
<1>3. \A e \in 1..(d - 1) : S2[e] = S[e]
    OBVIOUS
<1>4. S[d].in = "update" => UpdateFits(L, S2, d, S2[d])
    BY <1>1, <1>2 DEF Fits, UpdateFits
<1>5. Pending(S[d]) => PendingFits(T, L, S2, d, S2[d])
    BY <1>1, <1>3 DEF Fits, PendingFits
<1> QED
    BY <1>1, <1>2, <1>4, <1>5 DEF Fits

LEMMA StackGrows ==
    ASSUME NEW m \in Nat, NEW n \in Nat, m <= n, NEW S \in Seq(ActivationTo(m))
    PROVE  S \in Seq(ActivationTo(n))
<1>1. ActivationTo(m) \subseteq ActivationTo(n)
    BY ActivationsGrow
<1> QED
    BY <1>1, SeqMonotonic

LEMMA Facts ==
    ASSUME TweenInv
    PROVE  /\ tweens \in Seq(Tween) /\ list \in Seq(0..Len(tweens)) /\ clock \in Nat
           /\ stack \in Seq(ActivationTo(Len(tweens)))
           /\ Len(tweens) \in Nat /\ Len(list) \in Nat /\ Len(stack) \in Nat
           /\ \A t \in 1..Len(tweens) : tweens[t] \in Tween
           /\ \A i \in 1..Len(list) : list[i] \in 0..Len(tweens)
           /\ \A d \in 1..Len(stack) : stack[d] \in ActivationTo(Len(tweens))
<1>1. /\ tweens \in Seq(Tween) /\ list \in Seq(0..Len(tweens)) /\ clock \in Nat
      /\ stack \in Seq(ActivationTo(Len(tweens)))
    BY DEF TweenInv, Sound
<1> QED
    BY <1>1, LenProperties, ElementOfSeq

LEMMA TopIs ==
    ASSUME TweenInv, stack # << >>
    PROVE  /\ Len(stack) \in Nat \ {0} /\ Len(stack) \in 1..Len(stack)
           /\ Top = stack[Len(stack)] /\ Top \in ActivationTo(Len(tweens))
           /\ Fits(tweens, list, stack, Len(stack))
           /\ Under \in Seq(ActivationTo(Len(tweens)))
           /\ Len(Under) = Len(stack) - 1
           /\ \A d \in 1..(Len(stack) - 1) : Under[d] = stack[d]
<1>1. stack \in Seq(ActivationTo(Len(tweens)))
    BY Facts
<1>2. /\ Len(stack) \in Nat \ {0}
      /\ Top = stack[Len(stack)] /\ Top \in ActivationTo(Len(tweens))
      /\ Under \in Seq(ActivationTo(Len(tweens)))
      /\ Len(Under) = Len(stack) - 1
      /\ \A d \in 1..(Len(stack) - 1) : Under[d] = stack[d]
    BY <1>1, Popped DEF Top, Under
<1>3. Len(stack) \in 1..Len(stack)
    BY <1>2
<1> QED
    BY <1>2, <1>3 DEF TweenInv

(* What is under the innermost function waits in a callback or for an       *)
(* update to return.                                                        *)
LEMMA Below ==
    ASSUME TweenInv, NEW d \in 1..Len(stack), d < Len(stack) \/ UserCode
    PROVE  /\ stack[d].in = "frame" => stack[d].i \in 1..Len(list)
           /\ Pending(stack[d]) => stack[d].at = "onOverwrite"
<1>1. Len(stack) \in Nat /\ Fits(tweens, list, stack, d)
    BY Facts DEF TweenInv
<1>2. CASE stack[d].at \in UserPoints
    BY <1>1, <1>2 DEF Fits, FrameFits, Pending, UserPoints
<1>3. CASE d < Len(stack) /\ stack[d].at \notin UserPoints
    <2>1. d + 1 \in 1..Len(stack) /\ d + 1 > 1 /\ (d + 1) - 1 = d
        BY <1>1, <1>3
    <2>2. Fits(tweens, list, stack, d + 1)
        BY <2>1 DEF TweenInv
    <2>3. UpdateFits(list, stack, d + 1, stack[d + 1])
        BY <2>1, <2>2, <1>3 DEF Fits
    <2>4. /\ stack[d].i = stack[d + 1].i
          /\ stack[d + 1].i \in 1..Len(list)
          /\ stack[d].in = "frame" \/ stack[d].at = "immediate"
        BY <2>1, <2>3 DEF UpdateFits
    <2> QED
        BY <2>4 DEF Pending
<1>4. CASE d = Len(stack) /\ UserCode
    <2>1. stack # << >>
        BY <1>1, EmptySeq
    <2> QED
        BY <2>1, <1>2, <1>4, TopIs DEF UserCode
<1> QED
    BY <1>1, <1>2, <1>3, <1>4

(* The functions under the innermost ones are not disturbed.                *)
LEMMA Undisturbed ==
    ASSUME TweenInv, NEW n \in 0..Len(stack),
           n < Len(stack) \/ UserCode \/ Len(list') = Len(list),
           Softer(tweens, list, tweens', list'),
           Len(tweens') \in Nat, Len(list') \in Nat,
           \A i \in 1..Len(list') : i > Len(list) /\ list'[i] # 0 =>
               \/ list'[i] > Len(tweens)
               \/ \A d \in 1..n : /\ list'[i] \notin stack[d].seen
                                  /\ Pending(stack[d]) => list'[i] # stack[d].tween,
           \A d \in 1..n : stack'[d] = stack[d]
    PROVE  \A d \in 1..n : Fits(tweens', list', stack', d)
<1> SUFFICES ASSUME NEW d \in 1..n
             PROVE  Fits(tweens', list', stack', d)
    OBVIOUS
<1>1. /\ Len(tweens) \in Nat /\ Len(list) \in Nat /\ Len(stack) \in Nat
      /\ \A i \in 1..Len(list) : list[i] \in 0..Len(tweens)
      /\ \A e \in 1..Len(stack) : stack[e] \in ActivationTo(Len(tweens))
    BY Facts
<1> DEFINE l == Len(stack)
<1>2. l \in Nat /\ n <= l /\ n \in Nat
    BY <1>1
<1>3. d \in Nat \ {0} /\ d \in 1..l
    <2> HIDE DEF l
    <2> QED
        BY <1>2
<1>4. Fits(tweens, list, stack, d) /\ stack[d] \in ActivationTo(Len(tweens))
    BY <1>3, <1>1 DEF TweenInv
<1>5. stack[d].seen \subseteq 1..Len(tweens) /\ stack[d].tween \in 0..Len(tweens)
    BY <1>4 DEF ActivationTo
<1>6. ASSUME NEW i \in 1..Len(list'), i > Len(list), list'[i] # 0
      PROVE  /\ list'[i] \notin stack[d].seen
             /\ Pending(stack[d]) => /\ list'[i] # stack[d].tween
                                     /\ stack[d].at # "push"
             /\ stack[d].in = "frame" => stack[d].i <= Len(list)
    <2>1. Len(list') # Len(list)
        BY <1>1, <1>6
    <2>2. d < l \/ UserCode
        <3> HIDE DEF l
        <3>1. CASE n < l
            BY <3>1, <1>2
        <3> QED
            BY <3>1, <2>1 DEF l
    <2>3. /\ stack[d].in = "frame" => stack[d].i \in 1..Len(list)
          /\ Pending(stack[d]) => stack[d].at = "onOverwrite"
        BY <1>3, <2>2, Below DEF l
    <2>4. list'[i] \notin stack[d].seen /\ (Pending(stack[d]) => list'[i] # stack[d].tween)
        <3>1. CASE list'[i] > Len(tweens)
            <4> DEFINE t == list'[i]
                       m == Len(tweens)
            <4> HIDE DEF t, m
            <4>1. t > m /\ m \in Nat /\ stack[d].seen \subseteq 1..m /\ stack[d].tween \in 0..m
                BY <3>1, <1>1, <1>5 DEF t, m
            <4>2. t \notin 0..m /\ t \notin 1..m
                BY <4>1
            <4> QED
                BY <4>1, <4>2 DEF t
        <3>2. CASE ~(list'[i] > Len(tweens))
            <4>1. \A e \in 1..n : /\ list'[i] \notin stack[e].seen
                                  /\ Pending(stack[e]) => list'[i] # stack[e].tween
                BY <1>6, <3>2
            <4> QED
                BY <4>1
        <3> QED
            BY <3>1, <3>2
    <2> QED
        BY <2>3, <2>4, <1>1
<1>7. Fits(tweens', list', stack, d)
    <2> HIDE DEF l
    <2>1. \A i \in 1..Len(list') : i > Len(list) /\ list'[i] # 0 =>
              /\ list'[i] \notin stack[d].seen
              /\ Pending(stack[d]) => /\ list'[i] # stack[d].tween
                                      /\ stack[d].at # "push"
              /\ stack[d].in = "frame" => stack[d].i <= Len(list)
        BY <1>6
    <2> QED
        BY <1>1, <1>3, <1>4, <2>1, FitsSofter
<1>8. \A e \in 1..d : stack'[e] = stack[e]
    BY <1>2
<1> QED
    BY <1>3, <1>7, <1>8, FitsAgree

(* Fresh: what a step adds to the list is not what a function at or under   *)
(* position n of the stack has seen or is about to add.                     *)
Fresh(n) ==
    \A i \in 1..Len(list') : i > Len(list) /\ list'[i] # 0 =>
       \/ list'[i] > Len(tweens)
       \/ \A d \in 1..n : /\ list'[i] \notin stack[d].seen
                          /\ Pending(stack[d]) => list'[i] # stack[d].tween

(* A step that leaves the lowest n functions of the stack alone and puts    *)
(* others above them.                                                       *)
LEMMA Restacked ==
    ASSUME TweenInv, NEW n \in 0..Len(stack),
           n < Len(stack) \/ UserCode \/ Len(list') = Len(list),
           Softer(tweens, list, tweens', list'), Sound(tweens', list', clock'), Fresh(n),
           stack' \in Seq(ActivationTo(Len(tweens'))),
           \A d \in 1..n : stack'[d] = stack[d],
           \A d \in 1..Len(stack') : d > n => Fits(tweens', list', stack', d),
           engine'
    PROVE  TweenInv'
<1>1. /\ Len(tweens') \in Nat /\ Len(list') \in Nat /\ Len(stack') \in Nat
    BY LenProperties DEF Sound
<1>2. \A d \in 1..n : Fits(tweens', list', stack', d)
    BY <1>1, Undisturbed DEF Fresh
<1>3. Len(stack) \in Nat
    BY Facts
<1>4. \A d \in 1..Len(stack') : d \in 1..n \/ d > n
    BY <1>1, <1>3
<1>5. \A d \in 1..Len(stack') : Fits(tweens', list', stack', d)
    BY <1>2, <1>4
<1> QED
    BY <1>5 DEF TweenInv

LEMMA EngineIsOn ==
    ASSUME TweenInv, stack # << >>
    PROVE  engine
BY DEF TweenInv

LEMMA Retopped ==
    ASSUME TweenInv, stack # << >>,
           NEW a \in ActivationTo(Len(tweens')), stack' = Append(Under, a),
           Softer(tweens, list, tweens', list'), Sound(tweens', list', clock'),
           Fresh(Len(stack) - 1), engine' = engine,
           Fits(tweens', list', stack', Len(stack))
    PROVE  TweenInv'
<1> DEFINE l == Len(stack)
<1>1. /\ l \in Nat \ {0}
      /\ Under \in Seq(ActivationTo(Len(tweens)))
      /\ Len(Under) = l - 1
      /\ \A d \in 1..(l - 1) : Under[d] = stack[d]
    BY TopIs
<1>2. Len(tweens) \in Nat /\ Len(tweens') \in Nat /\ Len(tweens) <= Len(tweens')
    BY Facts, LenProperties DEF Sound, Softer
<1>3. Under \in Seq(ActivationTo(Len(tweens')))
    BY <1>1, <1>2, StackGrows
<1>4. /\ stack' \in Seq(ActivationTo(Len(tweens')))
      /\ Len(stack') = Len(Under) + 1
      /\ \A d \in 1..Len(Under) : stack'[d] = Under[d]
    BY <1>3, Pushed
<1> HIDE DEF l
<1>5. Len(stack') = l /\ \A d \in 1..(l - 1) : stack'[d] = stack[d]
    BY <1>1, <1>4
<1>6. \A d \in 1..l : d > l - 1 => d = l
    BY <1>1
<1>7. l - 1 \in 0..l /\ l - 1 < l
    BY <1>1
<1>8. \A d \in 1..Len(stack') : d > l - 1 => Fits(tweens', list', stack', d)
    BY <1>5, <1>6 DEF l
<1>9. engine'
    BY EngineIsOn
<1> QED
    BY <1>4, <1>5, <1>7, <1>8, <1>9, Restacked DEF l

LEMMA Dropped ==
    ASSUME TweenInv, stack # << >>, stack' = Under,
           Softer(tweens, list, tweens', list'), Sound(tweens', list', clock'),
           Fresh(Len(stack) - 1), engine' = engine
    PROVE  TweenInv'
<1> DEFINE l == Len(stack)
<1>1. /\ l \in Nat \ {0}
      /\ Under \in Seq(ActivationTo(Len(tweens)))
      /\ Len(Under) = l - 1
      /\ \A d \in 1..(l - 1) : Under[d] = stack[d]
    BY TopIs
<1>2. Len(tweens) \in Nat /\ Len(tweens') \in Nat /\ Len(tweens) <= Len(tweens')
    BY Facts, LenProperties DEF Sound, Softer
<1>3. stack' \in Seq(ActivationTo(Len(tweens')))
    BY <1>1, <1>2, StackGrows
<1> HIDE DEF l
<1>4. \A d \in 1..(l - 1) : ~(d > l - 1)
    BY <1>1
<1>5. l - 1 \in 0..l /\ l - 1 < l
    BY <1>1
<1>6. engine'
    BY EngineIsOn
<1>7. \A d \in 1..Len(stack') : d > l - 1 => Fits(tweens', list', stack', d)
    BY <1>1, <1>4
<1>8. \A d \in 1..(l - 1) : stack'[d] = stack[d]
    BY <1>1
<1> QED
    BY <1>3, <1>5, <1>6, <1>7, <1>8, Restacked DEF l

LEMMA Called1 ==
    ASSUME TweenInv,
           NEW a \in ActivationTo(Len(tweens')), stack' = Append(stack, a),
           UserCode \/ Len(list') = Len(list),
           Softer(tweens, list, tweens', list'), Sound(tweens', list', clock'),
           Fresh(Len(stack)), engine',
           Fits(tweens', list', stack', Len(stack) + 1)
    PROVE  TweenInv'
<1> DEFINE l == Len(stack)
<1>1. l \in Nat /\ stack \in Seq(ActivationTo(Len(tweens)))
    BY Facts
<1>2. Len(tweens) \in Nat /\ Len(tweens') \in Nat /\ Len(tweens) <= Len(tweens')
    BY Facts, LenProperties DEF Sound, Softer
<1>3. stack \in Seq(ActivationTo(Len(tweens')))
    BY <1>1, <1>2, StackGrows
<1>4. /\ stack' \in Seq(ActivationTo(Len(tweens')))
      /\ Len(stack') = l + 1
      /\ \A d \in 1..l : stack'[d] = stack[d]
    BY <1>3, Pushed
<1> HIDE DEF l
<1>5. \A d \in 1..(l + 1) : d > l => d = l + 1
    BY <1>1
<1>6. l \in 0..l
    BY <1>1
<1>7. \A d \in 1..Len(stack') : d > l => Fits(tweens', list', stack', d)
    BY <1>4, <1>5 DEF l
<1> QED
    BY <1>4, <1>6, <1>7, Restacked DEF l

LEMMA RetoppedAndCalled ==
    ASSUME TweenInv, stack # << >>,
           NEW a \in ActivationTo(Len(tweens')), NEW b \in ActivationTo(Len(tweens')),
           stack' = Append(Append(Under, a), b),
           Softer(tweens, list, tweens', list'), Sound(tweens', list', clock'),
           Fresh(Len(stack) - 1), engine' = engine,
           Fits(tweens', list', stack', Len(stack)),
           Fits(tweens', list', stack', Len(stack) + 1)
    PROVE  TweenInv'
<1> DEFINE l == Len(stack)
           m == Append(Under, a)
<1>1. /\ l \in Nat \ {0}
      /\ Under \in Seq(ActivationTo(Len(tweens)))
      /\ Len(Under) = l - 1
      /\ \A d \in 1..(l - 1) : Under[d] = stack[d]
    BY TopIs
<1>2. Len(tweens) \in Nat /\ Len(tweens') \in Nat /\ Len(tweens) <= Len(tweens')
    BY Facts, LenProperties DEF Sound, Softer
<1>3. Under \in Seq(ActivationTo(Len(tweens')))
    BY <1>1, <1>2, StackGrows
<1>4. /\ m \in Seq(ActivationTo(Len(tweens')))
      /\ Len(m) = Len(Under) + 1
      /\ \A d \in 1..Len(Under) : m[d] = Under[d]
    BY <1>3, Pushed
<1>5. /\ stack' \in Seq(ActivationTo(Len(tweens')))
      /\ Len(stack') = Len(m) + 1
      /\ \A d \in 1..Len(m) : stack'[d] = m[d]
    <2>1. stack' = Append(m, b) /\ m \in Seq(ActivationTo(Len(tweens')))
        BY <1>4
    <2> HIDE DEF m
    <2> QED
        BY <2>1, Pushed
<1> HIDE DEF l, m
<1>6. Len(stack') = l + 1 /\ \A d \in 1..(l - 1) : stack'[d] = stack[d]
    BY <1>1, <1>4, <1>5
<1>7. \A d \in 1..(l + 1) : d > l - 1 => d = l \/ d = l + 1
    BY <1>1
<1>8. l - 1 \in 0..l /\ l - 1 < l
    BY <1>1
<1>9. \A d \in 1..Len(stack') : d > l - 1 => Fits(tweens', list', stack', d)
    BY <1>6, <1>7 DEF l
<1>10. engine'
    BY EngineIsOn
<1> QED
    BY <1>5, <1>6, <1>8, <1>9, <1>10, Restacked DEF l

(* What a return leaves: the function under the innermost one is replaced.  *)
LEMMA CallerIs ==
    ASSUME TweenInv, stack # << >>, Len(stack) > 1
    PROVE  /\ Len(stack) \in Nat /\ Len(stack) - 1 \in 1..Len(stack)
           /\ Caller = stack[Len(stack) - 1] /\ Caller \in ActivationTo(Len(tweens))
           /\ Fits(tweens, list, stack, Len(stack) - 1)
           /\ Front(Under) \in Seq(ActivationTo(Len(tweens)))
           /\ Len(Front(Under)) = Len(stack) - 2
           /\ \A d \in 1..(Len(stack) - 2) : Front(Under)[d] = stack[d]
<1> DEFINE l == Len(stack)
           u == Under
           n == Len(Under)
<1>1. /\ l \in Nat \ {0} /\ u \in Seq(ActivationTo(Len(tweens)))
      /\ n = l - 1 /\ \A d \in 1..(l - 1) : u[d] = stack[d]
    BY TopIs
<1>2. l > 1
    OBVIOUS
<1>3. u # << >>
    <2>1. n # 0
        <3> HIDE DEF l, n
        <3> QED
            BY <1>1, <1>2
    <2> QED
        BY <1>1, <2>1, EmptySeq
<1>4. /\ Front(u) \in Seq(ActivationTo(Len(tweens)))
      /\ Len(Front(u)) = n - 1
      /\ \A d \in 1..(n - 1) : Front(u)[d] = u[d]
      /\ Last(u) = u[n] /\ Last(u) \in ActivationTo(Len(tweens))
    <2> HIDE DEF u
    <2> QED
        BY <1>1, <1>3, Popped DEF u
<1>5. Caller = Last(u)
    BY DEF Caller
<1> HIDE DEF l, u, n
<1>6. l - 1 \in 1..l /\ l - 1 \in 1..(l - 1) /\ n - 1 = l - 2 /\ \A d \in 1..(l - 2) : d \in 1..(l - 1)
    BY <1>1, <1>2
<1>7. Fits(tweens, list, stack, l - 1)
    BY <1>6 DEF TweenInv, l
<1> QED
    BY <1>1, <1>4, <1>5, <1>6, <1>7 DEF l, u, n

LEMMA CallerReplaced ==
    ASSUME TweenInv, stack # << >>, Len(stack) > 1,
           NEW a \in ActivationTo(Len(tweens')), stack' = Append(Front(Under), a),
           Softer(tweens, list, tweens', list'), Sound(tweens', list', clock'),
           Fresh(Len(stack) - 2), engine' = engine,
           Fits(tweens', list', stack', Len(stack) - 1)
    PROVE  TweenInv'
<1> DEFINE l == Len(stack)
           f == Front(Under)
<1>1. /\ l \in Nat /\ l > 1
      /\ f \in Seq(ActivationTo(Len(tweens)))
      /\ Len(f) = l - 2
      /\ \A d \in 1..(l - 2) : f[d] = stack[d]
    BY CallerIs
<1>2. Len(tweens) \in Nat /\ Len(tweens') \in Nat /\ Len(tweens) <= Len(tweens')
    BY Facts, LenProperties DEF Sound, Softer
<1> HIDE DEF f
<1>3. f \in Seq(ActivationTo(Len(tweens')))
    BY <1>1, <1>2, StackGrows
<1>4. /\ stack' \in Seq(ActivationTo(Len(tweens')))
      /\ Len(stack') = Len(f) + 1
      /\ \A d \in 1..Len(f) : stack'[d] = f[d]
    BY <1>3, Pushed DEF f
<1> HIDE DEF l
<1>5. Len(stack') = l - 1 /\ \A d \in 1..(l - 2) : stack'[d] = stack[d]
    BY <1>1, <1>4
<1>6. \A d \in 1..(l - 1) : d > l - 2 => d = l - 1
    BY <1>1
<1>7. l - 2 \in 0..l /\ l - 2 < l
    BY <1>1
<1>8. \A d \in 1..Len(stack') : d > l - 2 => Fits(tweens', list', stack', d)
    BY <1>5, <1>6 DEF l
<1>9. engine'
    BY EngineIsOn
<1> QED
    BY <1>4, <1>5, <1>7, <1>8, <1>9, Restacked DEF l

-----------------------------------------------------------------------------
(* What steps do to the tweens and the list.                                *)
LEMMA ClearedIs ==
    ASSUME NEW n \in Nat, NEW L \in Seq(0..n), NEW slots
    PROVE  /\ Cleared(L, slots) \in Seq(0..n) /\ Len(Cleared(L, slots)) = Len(L)
           /\ \A i \in 1..Len(L) : Cleared(L, slots)[i] = IF i \in slots THEN 0 ELSE L[i]
<1>1. Len(L) \in Nat /\ DOMAIN L = 1..Len(L) /\ \A i \in 1..Len(L) : L[i] \in 0..n
    BY LenProperties, ElementOfSeq
<1> DEFINE l == Len(L)
           f == [i \in 1..l |-> IF i \in slots THEN 0 ELSE L[i]]
<1>2. Cleared(L, slots) = f
    BY <1>1 DEF Cleared
<1>3. f \in [1..l -> 0..n]
    BY <1>1
<1>4. \A i \in 1..l : f[i] = IF i \in slots THEN 0 ELSE L[i]
    OBVIOUS
<1>5. f \in Seq(0..n) /\ Len(f) = l
    <2> HIDE DEF f, l
    <2>1. l \in Nat
        BY <1>1 DEF l
    <2> QED
        BY <2>1, <1>3, SameLength
<1> QED
    BY <1>2, <1>4, <1>5

LEMMA NothingMoves ==
    ASSUME TweenInv, UNCHANGED <<tweens, list>>, clock' \in Nat, clock <= clock'
    PROVE  /\ Softer(tweens, list, tweens', list') /\ Sound(tweens', list', clock')
           /\ Len(list') = Len(list) /\ Len(tweens') = Len(tweens) /\ \A n : Fresh(n)
<1>1. Sound(tweens, list, clock) /\ Len(tweens) \in Nat /\ Len(list) \in Nat
    BY Facts DEF TweenInv
<1>2. Softer(tweens, list, tweens, list)
    BY <1>1, KinSame DEF Softer
<1>3. Sound(tweens, list, clock')
    <2>1. ASSUME NEW i \in 1..Len(list), list[i] # 0, tweens[list[i]].isPaused
          PROVE  tweens[list[i]].timePaused <= clock'
        <3>1. list[i] \in 1..Len(tweens)
            BY <2>1, Facts
        <3>2. tweens[list[i]].timePaused \in Nat /\ clock \in Nat
            BY <3>1, Facts DEF Tween
        <3>3. tweens[list[i]].timePaused <= clock
            BY <1>1, <2>1 DEF Sound
        <3> QED
            BY <3>2, <3>3
    <2> QED
        BY <1>1, <2>1 DEF Sound
<1>4. \A n : Fresh(n)
    BY <1>1 DEF Fresh
<1> QED
    BY <1>2, <1>3, <1>4

LEMMA SoundSofter ==
    ASSUME TweenInv, NEW T \in Seq(Tween), NEW L \in Seq(0..Len(T)),
           Softer(tweens, list, T, L), Len(L) = Len(list),
           \A i \in 1..Len(list) : L[i] # 0 /\ T[list[i]].isPaused =>
              T[list[i]].timePaused <= clock
    PROVE  Sound(T, L, clock)
<1>1. /\ clock \in Nat /\ Len(list) \in Nat /\ Len(tweens) \in Nat
      /\ \A i \in 1..Len(list) : list[i] \in 0..Len(tweens)
    BY Facts
<1>2. /\ \A t \in 1..Len(tweens) : Kin(tweens[t], T[t])
      /\ \A i \in 1..Len(list) : L[i] = list[i] \/ L[i] = 0
    BY DEF Softer
<1>3. ASSUME NEW i \in 1..Len(list), NEW j \in 1..Len(list), i # j, L[i] # 0, L[j] # 0
      PROVE  L[i] # L[j] /\ ~Conflict(T[L[i]], T[L[j]])
    <2>1. /\ L[i] = list[i] /\ L[j] = list[j]
          /\ list[i] \in 1..Len(tweens) /\ list[j] \in 1..Len(tweens)
        BY <1>1, <1>2, <1>3
    <2>2. list[i] # list[j] /\ ~Conflict(tweens[list[i]], tweens[list[j]])
        BY <2>1, <1>3 DEF TweenInv, Sound
    <2>3. Kin(tweens[list[i]], T[list[i]]) /\ Kin(tweens[list[j]], T[list[j]])
        BY <2>1, <1>2
    <2> QED
        BY <2>1, <2>2, <2>3, KinConflict
<1>4. \A i \in 1..Len(L) : L[i] # 0 /\ T[L[i]].isPaused => T[L[i]].timePaused <= clock
    BY <1>2
<1> QED
    BY <1>1, <1>3, <1>4 DEF Sound

(* Slots are emptied, or not.                                               *)
Thinned(L, M) == M = L \/ \E slots : M = Cleared(L, slots)

LEMMA ThinnedIs ==
    ASSUME TweenInv, NEW L, Thinned(list, L)
    PROVE  /\ L \in Seq(0..Len(tweens)) /\ Len(L) = Len(list)
           /\ \A i \in 1..Len(list) : L[i] = list[i] \/ L[i] = 0
BY Facts, ClearedIs DEF Thinned

(* One tween changes, or none, and slots may be emptied.                    *)
Touched(t, T) ==
    \/ T = tweens
    \/ /\ t \in 1..Len(tweens)
       /\ \E u \in Tween :
             /\ Kin(tweens[t], u)
             /\ u.isPaused = tweens[t].isPaused /\ u.timePaused = tweens[t].timePaused
             /\ T = [tweens EXCEPT ![t] = u]

LEMMA TouchedIs ==
    ASSUME TweenInv, NEW t, NEW T, Touched(t, T)
    PROVE  /\ T \in Seq(Tween) /\ Len(T) = Len(tweens)
           /\ \A s \in 1..Len(tweens) :
                 /\ Kin(tweens[s], T[s])
                 /\ T[s].isPaused = tweens[s].isPaused /\ T[s].timePaused = tweens[s].timePaused
<1>1. tweens \in Seq(Tween) /\ Len(tweens) \in Nat
    BY Facts
<1>2. CASE T = tweens
    BY <1>1, <1>2, KinSame
<1>3. CASE T # tweens
    <2>1. PICK u \in Tween :
             /\ t \in 1..Len(tweens)
             /\ Kin(tweens[t], u)
             /\ u.isPaused = tweens[t].isPaused /\ u.timePaused = tweens[t].timePaused
             /\ T = [tweens EXCEPT ![t] = u]
        BY <1>3 DEF Touched
    <2>2. T \in Seq(Tween) /\ Len(T) = Len(tweens)
        BY <1>1, <2>1, ExceptSeq
    <2>3. \A s \in 1..Len(tweens) : T[s] = IF s = t THEN u ELSE tweens[s]
        BY <1>1, <2>1, LenProperties
    <2> QED
        BY <2>1, <2>2, <2>3, KinSame
<1> QED
    BY <1>2, <1>3

LEMMA OneMovesIn ==
    ASSUME TweenInv, NEW t, NEW T, Touched(t, T), NEW L, Thinned(list, L)
    PROVE  /\ Softer(tweens, list, T, L) /\ Sound(T, L, clock)
           /\ Len(L) = Len(list) /\ Len(T) = Len(tweens)
<1>1. /\ Len(list) \in Nat /\ Len(tweens) \in Nat
      /\ \A i \in 1..Len(list) : list[i] \in 0..Len(tweens)
    BY Facts
<1>2. /\ T \in Seq(Tween) /\ Len(T) = Len(tweens)
      /\ \A s \in 1..Len(tweens) :
            /\ Kin(tweens[s], T[s])
            /\ T[s].isPaused = tweens[s].isPaused /\ T[s].timePaused = tweens[s].timePaused
    BY TouchedIs
<1>3. /\ L \in Seq(0..Len(T)) /\ Len(L) = Len(list)
      /\ \A i \in 1..Len(list) : L[i] = list[i] \/ L[i] = 0
    BY <1>2, ThinnedIs
<1>4. Softer(tweens, list, T, L)
    BY <1>1, <1>2, <1>3 DEF Softer
<1>5. ASSUME NEW i \in 1..Len(list), L[i] # 0, T[list[i]].isPaused
      PROVE  T[list[i]].timePaused <= clock
    <2>1. L[i] = list[i] /\ list[i] \in 1..Len(tweens) /\ list[i] # 0
        BY <1>1, <1>3, <1>5
    <2>2. tweens[list[i]].isPaused /\ T[list[i]].timePaused = tweens[list[i]].timePaused
        BY <2>1, <1>2, <1>5
    <2> QED
        BY <2>1, <2>2 DEF TweenInv, Sound
<1> QED
    BY <1>2, <1>3, <1>4, <1>5, SoundSofter

LEMMA OneMoves ==
    ASSUME TweenInv, NEW t, Touched(t, tweens'), Thinned(list, list'), clock' = clock
    PROVE  /\ Softer(tweens, list, tweens', list') /\ Sound(tweens', list', clock')
           /\ Len(list') = Len(list) /\ Len(tweens') = Len(tweens) /\ \A n : Fresh(n)
<1>1. /\ Softer(tweens, list, tweens', list') /\ Sound(tweens', list', clock)
      /\ Len(list') = Len(list) /\ Len(tweens') = Len(tweens)
    BY OneMovesIn
<1>2. \A n : Fresh(n)
    BY <1>1, Facts DEF Fresh
<1> QED
    BY <1>1, <1>2

-----------------------------------------------------------------------------
(* _updateTweenByIndex() goes on.                                           *)
UpdatePoints == {"entry", "set", "calls", "onStart", "onUpdate", "onCall", "onComplete"}

LEMMA TopReplaced ==
    ASSUME TweenInv, stack # << >>, NEW m \in Nat, Len(tweens) <= m,
           NEW a \in ActivationTo(m), stack' = Append(Under, a)
    PROVE  /\ stack'[Len(stack)] = a
           /\ \A d \in 1..(Len(stack) - 1) : stack'[d] = stack[d]
<1>1. Under \in Seq(ActivationTo(Len(tweens))) /\ Len(tweens) \in Nat
    BY TopIs, Facts
<1>2. Under \in Seq(ActivationTo(m))
    BY <1>1, StackGrows
<1>3. /\ \A d \in 1..Len(Under) : stack'[d] = Under[d]
      /\ stack'[Len(Under) + 1] = a
    BY <1>2, Pushed
<1> DEFINE l == Len(stack)
<1>4. /\ l \in Nat \ {0} /\ Len(Under) = l - 1 /\ \A d \in 1..(l - 1) : Under[d] = stack[d]
    BY TopIs
<1> HIDE DEF l
<1>5. Len(Under) + 1 = l
    BY <1>4
<1> QED
    BY <1>3, <1>4, <1>5 DEF l

LEMMA UpdateStep ==
    ASSUME TweenInv, stack # << >>, Top.in = "update",
           NEW a \in ActivationTo(Len(tweens')), a.in = "update", a.at \in UpdatePoints,
           a.i = Top.i, a.tween = Top.tween, stack' = Append(Under, a),
           Softer(tweens, list, tweens', list'), Sound(tweens', list', clock'),
           Fresh(Len(stack) - 1), engine' = engine
    PROVE  TweenInv'
<1> DEFINE l == Len(stack)
<1>1. /\ l \in Nat \ {0} /\ Top = stack[l] /\ Fits(tweens, list, stack, l)
    BY TopIs
<1>2. Len(tweens') \in Nat /\ Len(tweens) <= Len(tweens')
    BY LenProperties DEF Sound, Softer
<1>3. stack'[l] = a /\ \A d \in 1..(l - 1) : stack'[d] = stack[d]
    BY <1>2, TopReplaced
<1>4. /\ \A i \in 1..Len(list) : list'[i] = list[i] \/ list'[i] = 0
      /\ Len(list) \in Nat /\ Len(list') \in Nat /\ Len(list) <= Len(list')
    BY Facts, LenProperties DEF Softer, Sound
<1> HIDE DEF l
<1>5. UpdateFits(list, stack, l, Top)
    BY <1>1 DEF Fits
<1>6. l > 1 /\ l - 1 \in 1..(l - 1)
    BY <1>1, <1>5 DEF UpdateFits
<1>7. stack'[l - 1] = stack[l - 1]
    BY <1>3, <1>6
<1>8. a.i \in 1..Len(list') /\ list'[a.i] \in {a.tween, 0}
    BY <1>4, <1>5 DEF UpdateFits
<1>9. UpdateFits(list', stack', l, a)
    BY <1>5, <1>7, <1>8 DEF UpdateFits, UpdatePoints
<1>10. Fits(tweens', list', stack', l)
    BY <1>3, <1>9 DEF Fits, Pending
<1> QED
    BY <1>10, Retopped DEF l

(* The tween that is being updated.                                         *)
LEMMA MineIs ==
    ASSUME TweenInv, stack # << >>, Top.in = "update"
    PROVE  /\ Top.tween \in 1..Len(tweens) /\ Mine = tweens[Top.tween] /\ Mine \in Tween
           /\ Len(stack) > 1
           /\ Top.i \in 1..Len(list) /\ list[Top.i] \in {Top.tween, 0}
           /\ Caller.i = Top.i
           /\ \/ Caller.in = "frame" /\ Top.tween \in Caller.seen
              \/ Caller.in = "add" /\ Caller.at = "immediate"
<1>1. /\ Top = stack[Len(stack)] /\ Fits(tweens, list, stack, Len(stack))
      /\ Top \in ActivationTo(Len(tweens))
    BY TopIs
<1>2. UpdateFits(list, stack, Len(stack), Top)
    BY <1>1 DEF Fits
<1>3. Top.tween \in 1..Len(tweens) /\ Len(stack) > 1
    <2> DEFINE n == Len(tweens)
    <2>1. n \in Nat /\ Top.tween \in 0..n
        BY <1>1, Facts DEF ActivationTo
    <2>2. Top.tween # 0 /\ Len(stack) > 1
        BY <1>2 DEF UpdateFits
    <2> HIDE DEF n
    <2>3. Top.tween \in 1..n
        BY <2>1, <2>2
    <2> QED
        BY <2>2, <2>3 DEF n
<1>4. Caller = stack[Len(stack) - 1]
    BY <1>3, CallerIs
<1> QED
    BY <1>2, <1>3, <1>4, Facts DEF UpdateFits, Mine

LEMMA EnterStep == ASSUME TweenInv, Enter PROVE TweenInv'
<1>1. stack # << >> /\ Top.in = "update"
    BY DEF Enter, In
<1>2. Mine \in Tween /\ clock \in Nat /\ Top \in ActivationTo(Len(tweens))
    BY <1>1, MineIs, Facts, TopIs
<1>3. Over \in BOOLEAN
    BY <1>2 DEF Over
<1> DEFINE p == CASE Mine.isCaller -> "calls"
                  [] ~Mine.isCaller /\ Mine.hasStarted -> "set"
                  [] OTHER -> "onStart"
           a == [Top EXCEPT !.over = Over, !.at = p]
<1>4. p \in {"calls", "set", "onStart"}
    OBVIOUS
<1>5. /\ Softer(tweens, list, tweens', list') /\ Sound(tweens', list', clock')
      /\ Len(tweens') = Len(tweens) /\ \A n : Fresh(n)
    BY <1>2, NothingMoves DEF Enter
<1>6. stack' = Append(Under, a)
    BY DEF Enter
<1> HIDE DEF p
<1>7. /\ a \in ActivationTo(Len(tweens)) /\ a.in = "update" /\ a.at \in UpdatePoints
      /\ a.i = Top.i /\ a.tween = Top.tween
    BY <1>1, <1>2, <1>3, <1>4 DEF ActivationTo, UpdatePoints
<1>8. engine' = engine
    BY DEF Enter
<1> HIDE DEF a
<1> QED
    BY <1>1, <1>5, <1>6, <1>7, <1>8, UpdateStep

(* A step that only moves the update on.                                    *)
LEMMA UpdateGoesTo ==
    ASSUME TweenInv, stack # << >>, Top.in = "update", NEW p \in UpdatePoints, At(p),
           Softer(tweens, list, tweens', list'), Sound(tweens', list', clock'),
           Len(tweens') = Len(tweens), \A n : Fresh(n), engine' = engine
    PROVE  TweenInv'
<1> DEFINE a == [Top EXCEPT !.at = p]
<1>1. Top \in ActivationTo(Len(tweens))
    BY TopIs
<1>2. /\ a \in ActivationTo(Len(tweens)) /\ a.in = "update" /\ a.at \in UpdatePoints
      /\ a.i = Top.i /\ a.tween = Top.tween
    BY <1>1 DEF ActivationTo, UpdatePoints
<1>3. stack' = Append(Under, a)
    BY DEF At
<1> HIDE DEF a
<1> QED
    BY <1>2, <1>3, UpdateStep

LEMMA StartedStep == ASSUME TweenInv, Started PROVE TweenInv'
<1>1. stack # << >> /\ Top.in = "update" /\ At("onUpdate") /\ UNCHANGED <<list, engine, clock>>
    BY DEF Started, In
<1> DEFINE u == [Mine EXCEPT !.hasStarted = TRUE]
<1>2. Top.tween \in 1..Len(tweens) /\ Mine = tweens[Top.tween] /\ Mine \in Tween
    BY <1>1, MineIs
<1>3. tweens' = [tweens EXCEPT ![Top.tween] = u]
    BY DEF Started, Mine
<1>4. /\ u \in Tween /\ Kin(tweens[Top.tween], u)
      /\ u.isPaused = tweens[Top.tween].isPaused /\ u.timePaused = tweens[Top.tween].timePaused
    BY <1>2 DEF Tween, Kin
<1> HIDE DEF u
<1>5. /\ Softer(tweens, list, tweens', list') /\ Sound(tweens', list', clock')
      /\ Len(tweens') = Len(tweens) /\ \A n : Fresh(n)
    <2>1. Touched(Top.tween, tweens') /\ Thinned(list, list')
        BY <1>1, <1>2, <1>3, <1>4 DEF Touched, Thinned
    <2> QED
        BY <1>1, <2>1, OneMoves
<1>6. "onUpdate" \in UpdatePoints
    BY DEF UpdatePoints
<1> QED
    BY <1>1, <1>5, <1>6, UpdateGoesTo

LEMMA PlainSteps ==
    ASSUME TweenInv, SetProperties \/ CallDue
    PROVE  TweenInv'
<1>1. /\ stack # << >> /\ Top.in = "update"
      /\ At("onUpdate") \/ At("onCall")
      /\ UNCHANGED <<tweens, list, engine, clock>>
    BY DEF SetProperties, CallDue, In
<1>2. clock \in Nat
    BY Facts
<1>3. /\ Softer(tweens, list, tweens', list') /\ Sound(tweens', list', clock')
      /\ Len(tweens') = Len(tweens) /\ \A n : Fresh(n)
    BY <1>1, <1>2, NothingMoves
<1>4. "onUpdate" \in UpdatePoints /\ "onCall" \in UpdatePoints
    BY DEF UpdatePoints
<1> QED
    BY <1>1, <1>3, <1>4, UpdateGoesTo

LEMMA CompleteStep ==
    ASSUME TweenInv, stack # << >>, Top.in = "update", Complete
    PROVE  TweenInv'
<1>1. At("onComplete") /\ UNCHANGED <<list, engine, clock>>
    BY DEF Complete
<1> DEFINE u == [Mine EXCEPT !.completed = @ + 1]
<1>2. Top.tween \in 1..Len(tweens) /\ Mine = tweens[Top.tween] /\ Mine \in Tween
    BY MineIs
<1>3. tweens' = [tweens EXCEPT ![Top.tween] = u]
    BY DEF Complete, Mine
<1>4. /\ u \in Tween /\ Kin(tweens[Top.tween], u)
      /\ u.isPaused = tweens[Top.tween].isPaused /\ u.timePaused = tweens[Top.tween].timePaused
    <2>1. Mine.completed + 1 \in Nat
        BY <1>2 DEF Tween
    <2>2. u \in Tween
        BY <1>2, <2>1 DEF Tween
    <2>3. /\ u.scope = Mine.scope /\ u.props = Mine.props /\ u.moved = Mine.moved
          /\ u.timeStart = Mine.timeStart /\ u.timeComplete = Mine.timeComplete
          /\ u.isPaused = Mine.isPaused /\ u.timePaused = Mine.timePaused
        BY <1>2 DEF Tween
    <2> HIDE DEF u
    <2> QED
        BY <1>2, <2>2, <2>3 DEF Kin
<1> HIDE DEF u
<1>5. /\ Softer(tweens, list, tweens', list') /\ Sound(tweens', list', clock')
      /\ Len(tweens') = Len(tweens) /\ \A n : Fresh(n)
    <2>1. Touched(Top.tween, tweens') /\ Thinned(list, list')
        BY <1>1, <1>2, <1>3, <1>4 DEF Touched, Thinned
    <2> QED
        BY <1>1, <2>1, OneMoves
<1>6. "onComplete" \in UpdatePoints
    BY DEF UpdatePoints
<1> QED
    BY <1>1, <1>5, <1>6, UpdateGoesTo

-----------------------------------------------------------------------------
(* Returns of _updateTweenByIndex().                                        *)

(* Without one of its slots the list is as sound.                           *)
LEMMA RemovedIs ==
    ASSUME NEW n \in Nat, NEW L \in Seq(0..n), NEW p \in 1..Len(L)
    PROVE  /\ RemoveAt(L, p) \in Seq(0..n)
           /\ Len(RemoveAt(L, p)) \in Nat
           /\ \A i \in 1..Len(RemoveAt(L, p)) :
                 /\ i < p => i \in 1..Len(L) /\ RemoveAt(L, p)[i] = L[i]
                 /\ i >= p => i + 1 \in 1..Len(L) /\ RemoveAt(L, p)[i] = L[i + 1]
<1> DEFINE l == Len(L)
           m == Len(RemoveAt(L, p))
<1>1. /\ RemoveAt(L, p) \in Seq(0..n)
      /\ m = l - 1
      /\ \A i \in 1..l - 1 : RemoveAt(L, p)[i] = IF i < p THEN L[i] ELSE L[i + 1]
    BY RemoveAtElements
<1>2. l \in Nat /\ p \in 1..l /\ m \in Nat
    BY <1>1, LenProperties
<1> HIDE DEF l, m
<1>3. \A i \in 1..m : /\ i < p => i \in 1..l /\ RemoveAt(L, p)[i] = L[i]
                      /\ i >= p => i + 1 \in 1..l /\ RemoveAt(L, p)[i] = L[i + 1]
    BY <1>1, <1>2
<1> QED
    BY <1>1, <1>2, <1>3 DEF l, m

LEMMA SoundRemoved ==
    ASSUME NEW T, NEW L, NEW c, Sound(T, L, c), NEW p \in 1..Len(L)
    PROVE  Sound(T, RemoveAt(L, p), c)
<1> DEFINE R == RemoveAt(L, p)
           Was(i) == IF i < p THEN i ELSE i + 1
           n == Len(T)
           l == Len(L)
           m == Len(R)
<1>1. T \in Seq(Tween) /\ n \in Nat /\ L \in Seq(0..n) /\ l \in Nat /\ p \in 1..l
    BY LenProperties DEF Sound
<1>2. /\ R \in Seq(0..n) /\ m \in Nat
      /\ \A i \in 1..m : Was(i) \in 1..l /\ R[i] = L[Was(i)]
    <2> HIDE DEF n
    <2>1. n \in Nat /\ L \in Seq(0..n) /\ p \in 1..Len(L)
        BY <1>1
    <2>2. /\ RemoveAt(L, p) \in Seq(0..n)
          /\ Len(RemoveAt(L, p)) \in Nat
          /\ \A i \in 1..Len(RemoveAt(L, p)) :
                /\ i < p => i \in 1..Len(L) /\ RemoveAt(L, p)[i] = L[i]
                /\ i >= p => i + 1 \in 1..Len(L) /\ RemoveAt(L, p)[i] = L[i + 1]
        BY <2>1, RemovedIs, Zenon
    <2>3. R = RemoveAt(L, p) /\ m = Len(RemoveAt(L, p)) /\ l = Len(L)
        OBVIOUS
    <2> HIDE DEF R, l, m
    <2>4. p \in Nat
        BY <1>1
    <2> QED
        BY <2>2, <2>3, <2>4
<1> HIDE DEF R, n, l, m
<1>3. \A i, j \in 1..m : i # j => Was(i) # Was(j)
    <2>1. p \in Nat
        BY <1>1
    <2> QED
        BY <2>1
<1> HIDE DEF Was
<1>4. /\ \A i, j \in 1..m : i # j /\ R[i] # 0 /\ R[j] # 0 =>
            R[i] # R[j] /\ ~Conflict(T[R[i]], T[R[j]])
      /\ \A i \in 1..m : R[i] # 0 /\ T[R[i]].isPaused => T[R[i]].timePaused <= c
    BY <1>2, <1>3 DEF Sound, l
<1> QED
    BY <1>1, <1>2, <1>4 DEF Sound, R, m, n

(* A frame takes the slot that it is at out of the list.                    *)
LEMMA FrameRemoves ==
    ASSUME TweenInv, NEW L, Sound(tweens', L, clock), Len(tweens') = Len(tweens),
           Len(stack') = 1, stack' \in Seq(ActivationTo(Len(tweens))),
           stack'[1] = stack[1], stack[1].in = "frame",
           FrameFits(L, 1, stack[1]), stack[1].i \in 1..Len(L),
           list' = RemoveAt(L, stack[1].i), UNCHANGED <<engine, clock>>, engine
    PROVE  TweenInv'
<1> DEFINE a == stack[1]
           R == RemoveAt(L, a.i)
<1>1. Sound(tweens', list', clock')
    BY SoundRemoved
<1>2. Len(tweens) \in Nat /\ L \in Seq(0..Len(tweens)) /\ Len(L) \in Nat
    BY Facts, LenProperties DEF Sound
<1>3. /\ Len(R) \in Nat
      /\ \A i \in 1..Len(R) : /\ i < a.i => i \in 1..Len(L) /\ R[i] = L[i]
                              /\ i >= a.i => i + 1 \in 1..Len(L) /\ R[i] = L[i + 1]
    BY <1>2, RemovedIs
<1>4. a.i \in Nat /\ a.i >= 1
    BY <1>2
<1>5. ASSUME NEW i \in 1..Len(R), R[i] # 0
      PROVE  /\ i < a.i => R[i] \in a.seen
             /\ i > a.i => R[i] \notin a.seen
    <2> HIDE DEF R, a
    <2>1. \A j \in 1..Len(L) : L[j] # 0 => /\ j < a.i => L[j] \in a.seen
                                           /\ j > a.i => L[j] \notin a.seen
        BY DEF FrameFits, a
    <2>2. CASE i < a.i
        BY <2>1, <2>2, <1>3, <1>4, <1>5
    <2>3. CASE i >= a.i
        <3>1. i + 1 \in 1..Len(L) /\ R[i] = L[i + 1] /\ i + 1 > a.i
            BY <2>3, <1>3, <1>4
        <3> QED
            BY <3>1, <2>1, <2>3, <1>4, <1>5
    <2> QED
        BY <2>2, <2>3, <1>4
<1>6. FrameFits(list', 1, a)
    <2>1. list' = R
        OBVIOUS
    <2>2. a.at = "loop"
        BY DEF FrameFits
    <2> HIDE DEF R, a
    <2> QED
        BY <2>1, <2>2, <1>4, <1>5 DEF FrameFits
<1>7. stack'[1] = a /\ a.in = "frame" /\ a \in ActivationTo(Len(tweens'))
    <2>1. 1 \in 1..Len(stack')
        OBVIOUS
    <2>2. stack'[1] \in ActivationTo(Len(tweens))
        BY <2>1, ElementOfSeq
    <2> QED
        BY <2>2
<1>8. Fits(tweens', list', stack', 1)
    BY <1>6, <1>7 DEF Fits, Pending
<1>9. \A d \in 1..Len(stack') : d = 1
    OBVIOUS
<1> QED
    BY <1>1, <1>8, <1>9 DEF TweenInv

(* It is the frame at the bottom of the stack, or an immediate addition,    *)
(* that an update returns to.                                               *)
LEMMA FrameIsCaller ==
    ASSUME TweenInv, stack # << >>, Len(stack) > 1, Caller.in = "frame"
    PROVE  /\ Len(stack) = 2 /\ Caller = stack[1] /\ Len(Under) = 1
           /\ Under \in Seq(ActivationTo(Len(tweens))) /\ Under[1] = stack[1]
           /\ FrameFits(list, 1, Caller)
<1> DEFINE l == Len(stack)
<1>1. /\ l \in Nat /\ Caller = stack[l - 1] /\ Fits(tweens, list, stack, l - 1)
    BY CallerIs
<1>2. l - 1 = 1 /\ FrameFits(list, l - 1, Caller)
    BY <1>1 DEF Fits, FrameFits
<1>3. /\ Len(Under) = l - 1 /\ \A d \in 1..(l - 1) : Under[d] = stack[d]
      /\ Under \in Seq(ActivationTo(Len(tweens)))
    BY TopIs
<1> HIDE DEF l
<1>4. l = 2
    BY <1>1, <1>2
<1> QED
    BY <1>1, <1>2, <1>3, <1>4 DEF l

LEMMA ReturnStep ==
    ASSUME TweenInv, stack # << >>, Top.in = "update", NEW keep \in BOOLEAN, Return(keep),
           Touched(Top.tween, tweens'), UNCHANGED <<engine, clock>>
    PROVE  TweenInv'
<1> DEFINE K == Remaining(keep)
<1>1. /\ Len(stack) > 1
      /\ Top.i \in 1..Len(list) /\ list[Top.i] \in {Top.tween, 0}
      /\ Caller.i = Top.i
      /\ \/ Caller.in = "frame" /\ Top.tween \in Caller.seen
         \/ Caller.in = "add" /\ Caller.at = "immediate"
    BY MineIs
<1>2. Thinned(list, Emptied) /\ Thinned(list, K)
    BY DEF Thinned, Emptied, Remaining
<1>3. /\ Len(stack) \in Nat /\ Caller = stack[Len(stack) - 1]
      /\ Caller \in ActivationTo(Len(tweens))
      /\ Fits(tweens, list, stack, Len(stack) - 1)
      /\ Front(Under) \in Seq(ActivationTo(Len(tweens)))
      /\ Len(Front(Under)) = Len(stack) - 2
      /\ \A d \in 1..(Len(stack) - 2) : Front(Under)[d] = stack[d]
    BY <1>1, CallerIs
<1>4. /\ Softer(tweens, list, tweens', K) /\ Sound(tweens', K, clock)
      /\ Len(K) = Len(list) /\ Len(tweens') = Len(tweens)
    BY <1>2, OneMovesIn
<1>5. engine
    BY EngineIsOn
<1>6. Len(tweens) \in Nat /\ Len(list) \in Nat
    BY Facts
<1>7. ASSUME NEW a \in ActivationTo(Len(tweens)), stack' = Append(Front(Under), a)
      PROVE  /\ stack'[Len(stack) - 1] = a
             /\ \A d \in 1..(Len(stack) - 2) : stack'[d] = stack[d]
    <2> DEFINE f == Front(Under)
               l == Len(stack)
    <2>1. stack' = Append(f, a) /\ f \in Seq(ActivationTo(Len(tweens)))
        BY <1>3, <1>7
    <2>2. Len(f) = l - 2 /\ \A d \in 1..(l - 2) : f[d] = stack[d]
        BY <1>3
    <2> HIDE DEF f
    <2>3. stack'[Len(f) + 1] = a /\ \A d \in 1..Len(f) : stack'[d] = f[d]
        BY <2>1, Pushed
    <2>4. Len(f) + 1 = l - 1
        BY <2>2, <1>3
    <2> QED
        BY <2>2, <2>3, <2>4
<1>8. CASE ReturnToAdd
    <2> DEFINE a == [Caller EXCEPT !.at = "loop"]
               l == Len(stack)
    <2>1. Caller.in = "add" /\ list' = Emptied /\ stack' = Append(Front(Under), a)
        BY <1>8 DEF ReturnToAdd
    <2>2. /\ Softer(tweens, list, tweens', list') /\ Sound(tweens', list', clock')
          /\ Len(list') = Len(list) /\ Len(tweens') = Len(tweens) /\ \A n : Fresh(n)
        BY <2>1, <1>2, OneMoves
    <2>3. /\ a \in ActivationTo(Len(tweens)) /\ a.in = "add" /\ a.at = "loop" /\ a.want = Caller.want
        BY <2>1, <1>3 DEF ActivationTo
    <2> HIDE DEF a
    <2>4. /\ stack'[l - 1] = a /\ \A d \in 1..(l - 2) : stack'[d] = stack[d]
        BY <2>1, <2>3, <1>7
    <2>5. AddFits(a)
        BY <2>1, <2>3, <1>3 DEF Fits, AddFits
    <2>6. l - 1 > 1 => stack'[(l - 1) - 1].at \in UserPoints
        <3> SUFFICES ASSUME l - 1 > 1
                     PROVE  stack'[(l - 1) - 1].at \in UserPoints
            OBVIOUS
        <3>1. stack[(l - 1) - 1].at \in UserPoints
            BY <2>1, <1>3 DEF Fits
        <3>2. (l - 1) - 1 \in 1..(l - 2)
            <4> HIDE DEF l
            <4> QED
                BY <1>3 DEF l
        <3> QED
            BY <2>4, <3>1, <3>2
    <2>7. Fits(tweens', list', stack', l - 1)
        <3> HIDE DEF l
        <3> QED
            BY <2>2, <2>3, <2>4, <2>5, <2>6 DEF Fits, Pending
    <2>8. stack' = Append(Front(Under), a)
        BY <2>1
    <2> QED
        BY <2>2, <2>3, <2>7, <2>8, <1>1, CallerReplaced
<1>9. ASSUME Caller.in = "frame"
      PROVE  /\ Top.tween \in Caller.seen
             /\ Len(stack) = 2 /\ Caller = stack[1] /\ Len(Under) = 1
             /\ Under \in Seq(ActivationTo(Len(tweens))) /\ Under[1] = stack[1]
             /\ FrameFits(list, 1, Caller) /\ FrameFits(K, 1, Caller)
             /\ Caller.i \in 1..Len(K)
    <2>1. /\ Len(stack) = 2 /\ Caller = stack[1] /\ Len(Under) = 1
          /\ Under \in Seq(ActivationTo(Len(tweens))) /\ Under[1] = stack[1]
          /\ FrameFits(list, 1, Caller)
        BY <1>1, <1>9, FrameIsCaller
    <2>2. Top.tween \in Caller.seen
        BY <1>1, <1>9
    <2>3. \A i \in 1..Len(list) : K[i] = list[i] \/ K[i] = 0
        BY <1>4 DEF Softer
    <2>4. FrameFits(K, 1, Caller)
        BY <2>1, <2>3, <1>4 DEF FrameFits
    <2> QED
        BY <2>1, <2>2, <2>4, <1>1, <1>4
<1>10. CASE ReturnToFrame(keep) /\ K[Caller.i] = 0
    <2>1. Caller.in = "frame" /\ list' = RemoveAt(K, Caller.i) /\ stack' = Under
        BY <1>10 DEF ReturnToFrame
    <2>2. /\ Len(stack) = 2 /\ Caller = stack[1] /\ Len(Under) = 1
          /\ Under \in Seq(ActivationTo(Len(tweens))) /\ Under[1] = stack[1]
          /\ FrameFits(K, 1, Caller) /\ Caller.i \in 1..Len(K)
        BY <2>1, <1>9
    <2> HIDE DEF K
    <2> QED
        BY <2>1, <2>2, <1>4, <1>5, FrameRemoves
<1>11. CASE ReturnToFrame(keep) /\ K[Caller.i] # 0
    <2> DEFINE a == [Caller EXCEPT !.i = @ + 1]
               l == Len(stack)
    <2>1. Caller.in = "frame" /\ list' = K /\ stack' = Append(Front(Under), a)
        BY <1>11 DEF ReturnToFrame
    <2>2. /\ Top.tween \in Caller.seen /\ l = 2
          /\ FrameFits(list, 1, Caller) /\ FrameFits(K, 1, Caller)
        BY <2>1, <1>9
    <2>3. /\ Softer(tweens, list, tweens', list') /\ Sound(tweens', list', clock')
          /\ Len(list') = Len(list) /\ Len(tweens') = Len(tweens) /\ \A n : Fresh(n)
        BY <2>1, <1>2, OneMoves
    <2>4. Caller.i \in Nat /\ Caller.i + 1 \in Nat
        BY <1>3 DEF ActivationTo
    <2>5. /\ a \in ActivationTo(Len(tweens)) /\ a.in = "frame" /\ a.at = Caller.at
          /\ a.i = Caller.i + 1 /\ a.seen = Caller.seen
        BY <2>1, <2>4, <1>3 DEF ActivationTo
    <2> HIDE DEF a
    <2>6. stack'[l - 1] = a
        BY <2>1, <2>5, <1>7
    <2>7. K[Caller.i] \in Caller.seen
        <3>1. K[Top.i] = list[Top.i] \/ K[Top.i] = 0
            BY <1>1, <1>4 DEF Softer
        <3> QED
            BY <3>1, <2>2, <1>1, <1>11
    <2>8. FrameFits(list', 1, a)
        <3>1. /\ a.at = "loop" /\ a.i >= 1
            BY <2>2, <2>4, <2>5 DEF FrameFits
        <3>2. ASSUME NEW i \in 1..Len(K), K[i] # 0
              PROVE  /\ i < Caller.i + 1 => K[i] \in Caller.seen
                     /\ i > Caller.i + 1 => K[i] \notin Caller.seen
            <4>1. /\ i < Caller.i => K[i] \in Caller.seen
                  /\ i > Caller.i => K[i] \notin Caller.seen
                BY <2>2, <3>2 DEF FrameFits
            <4>2. i \in Nat
                BY <1>4, <1>6
            <4> HIDE DEF K
            <4>3. i < Caller.i + 1 => i < Caller.i \/ i = Caller.i
                BY <2>4, <4>2
            <4>4. i > Caller.i + 1 => i > Caller.i
                BY <2>4, <4>2
            <4> QED
                BY <2>7, <4>1, <4>3, <4>4
        <3> HIDE DEF K
        <3> QED
            BY <2>1, <2>5, <3>1, <3>2 DEF FrameFits
    <2>9. Fits(tweens', list', stack', l - 1)
        BY <2>2, <2>3, <2>5, <2>6, <2>8 DEF Fits, Pending
    <2>10. stack' = Append(Front(Under), a)
        BY <2>1
    <2> QED
        BY <2>3, <2>5, <2>9, <2>10, <1>1, CallerReplaced
<1> QED
    BY <1>8, <1>10, <1>11 DEF Return, ReturnToFrame

LEMMA UpdateReturns ==
    ASSUME TweenInv, NotYet \/ SkipUpdate \/ Completed \/ CallNotDue
    PROVE  TweenInv'
<1>1. /\ stack # << >> /\ Top.in = "update"
      /\ Return(TRUE) \/ Return(FALSE)
      /\ UNCHANGED <<tweens, engine, clock>>
    BY DEF NotYet, SkipUpdate, Completed, CallNotDue, In
<1>2. Touched(Top.tween, tweens')
    BY <1>1 DEF Touched
<1> QED
    BY <1>1, <1>2, ReturnStep

LEMMA UpdatedStep == ASSUME TweenInv, Updated PROVE TweenInv'
<1>1. stack # << >> /\ Top.in = "update"
    BY DEF Updated, In
<1>2. CASE Complete
    BY <1>1, <1>2, CompleteStep
<1>3. CASE Return(TRUE) /\ UNCHANGED <<tweens, engine, clock>>
    <2>1. Touched(Top.tween, tweens')
        BY <1>3 DEF Touched
    <2> QED
        BY <1>1, <1>3, <2>1, ReturnStep
<1> QED
    BY <1>2, <1>3 DEF Updated

LEMMA CalledBackStep == ASSUME TweenInv, CalledBack PROVE TweenInv'
<1>1. stack # << >> /\ Top.in = "update" /\ UNCHANGED <<engine, clock>>
    BY DEF CalledBack, In
<1> DEFINE n == Mine.timesCalled + 1
           u == [Mine EXCEPT !.timesCalled = n]
           v == [Mine EXCEPT !.timesCalled = n, !.completed = @ + 1]
<1>2. Top.tween \in 1..Len(tweens) /\ Mine = tweens[Top.tween] /\ Mine \in Tween
    BY <1>1, MineIs
<1>3. tweens \in Seq(Tween) /\ DOMAIN tweens = 1..Len(tweens)
    BY Facts, LenProperties
<1>4. n \in Nat /\ Mine.completed + 1 \in Nat
    BY <1>2 DEF Tween
<1>5. /\ \/ /\ tweens' = [tweens EXCEPT ![Top.tween] = v]
            /\ At("onComplete") /\ list' = list
         \/ /\ tweens' = [tweens EXCEPT ![Top.tween] = u]
            /\ Return(TRUE)
         \/ /\ tweens' = [tweens EXCEPT ![Top.tween] = u]
            /\ At("calls") /\ list' = list
    <2> DEFINE called == [tweens EXCEPT ![Top.tween].timesCalled = n]
    <2>1. called = [tweens EXCEPT ![Top.tween] = u]
        BY DEF Mine
    <2>2. [called EXCEPT ![Top.tween].completed = @ + 1] = [tweens EXCEPT ![Top.tween] = v]
        BY <1>2, <1>3, <1>4 DEF Mine, Tween
    <2> HIDE DEF n, u, v
    <2> QED
        BY <2>1, <2>2 DEF CalledBack, n
<1> HIDE DEF n
<1>6. /\ u \in Tween /\ v \in Tween
      /\ Kin(Mine, u) /\ u.isPaused = Mine.isPaused /\ u.timePaused = Mine.timePaused
      /\ Kin(Mine, v) /\ v.isPaused = Mine.isPaused /\ v.timePaused = Mine.timePaused
    <2>1. u \in Tween /\ v \in Tween
        BY <1>2, <1>4 DEF Tween
    <2>2. /\ u.scope = Mine.scope /\ u.props = Mine.props /\ u.moved = Mine.moved
          /\ u.timeStart = Mine.timeStart /\ u.timeComplete = Mine.timeComplete
          /\ u.isPaused = Mine.isPaused /\ u.timePaused = Mine.timePaused
          /\ v.scope = Mine.scope /\ v.props = Mine.props /\ v.moved = Mine.moved
          /\ v.timeStart = Mine.timeStart /\ v.timeComplete = Mine.timeComplete
          /\ v.isPaused = Mine.isPaused /\ v.timePaused = Mine.timePaused
        BY <1>2 DEF Tween
    <2> HIDE DEF u, v
    <2> QED
        BY <2>1, <2>2 DEF Kin
<1> HIDE DEF u, v
<1>7. Touched(Top.tween, tweens')
    BY <1>2, <1>5, <1>6 DEF Touched
<1>8. CASE Return(TRUE)
    BY <1>1, <1>7, <1>8, ReturnStep
<1>9. CASE list' = list /\ (At("onComplete") \/ At("calls"))
    <2>1. Thinned(list, list')
        BY <1>9 DEF Thinned
    <2>2. /\ Softer(tweens, list, tweens', list') /\ Sound(tweens', list', clock')
          /\ Len(tweens') = Len(tweens) /\ \A k : Fresh(k)
        BY <1>1, <1>7, <2>1, OneMoves
    <2>3. "onComplete" \in UpdatePoints /\ "calls" \in UpdatePoints
        BY DEF UpdatePoints
    <2> QED
        BY <1>1, <1>9, <2>2, <2>3, UpdateGoesTo
<1> QED
    BY <1>5, <1>8, <1>9

-----------------------------------------------------------------------------
(* addTween(), addCaller().                                                 *)
LEMMA AddStep ==
    ASSUME TweenInv, NEW scopes \in Targets, NEW r \in Requests, Add(scopes, r)
    PROVE  TweenInv'
<1> DEFINE a == [Called("add", "loop", 0, 0) EXCEPT !.scopes = scopes, !.want = <<r>>]
           l == Len(stack)
<1>1. /\ UserCode /\ engine' /\ UNCHANGED <<tweens, clock>>
      /\ stack' = Append(stack, a)
      /\ list' = list
    BY DEF Add, TweenInv
<1>2. Len(tweens) \in Nat /\ clock \in Nat /\ l \in Nat /\ stack \in Seq(ActivationTo(Len(tweens)))
    BY Facts
<1>3. scopes \in Seq(Scopes) /\ r \in Request /\ <<r>> \in Seq(Request)
    BY ProgramsAssumption
<1>4. /\ a \in ActivationTo(Len(tweens))
      /\ a.in = "add" /\ a.at = "loop" /\ a.want = <<r>>
    <2> DEFINE n == Len(tweens)
               w == <<r>>
    <2>2. n \in Nat /\ w \in Seq(Request)
        BY <1>2, <1>3
    <2>3. a = [Called("add", "loop", 0, 0) EXCEPT !.scopes = scopes, !.want = w] /\ w = <<r>>
        OBVIOUS
    <2> HIDE DEF a, n, w
    <2>4. 0 \in 0..n /\ {} \in SUBSET (1..n) /\ 0 \in Nat
        BY <2>2
    <2>5. a \in ActivationTo(n)
        BY <2>2, <2>3, <2>4, <1>3 DEF ActivationTo, Called
    <2>6. a.in = "add" /\ a.at = "loop" /\ a.want = w
        BY <2>3 DEF Called
    <2> QED
        BY <2>3, <2>5, <2>6 DEF n
<1>5. /\ Softer(tweens, list, tweens', list') /\ Sound(tweens', list', clock')
      /\ Len(list') = Len(list) /\ Len(tweens') = Len(tweens) /\ \A n : Fresh(n)
    BY <1>1, <1>2, NothingMoves
<1> HIDE DEF a
<1>6. /\ stack'[l + 1] = a
      /\ \A d \in 1..l : stack'[d] = stack[d]
    BY <1>1, <1>2, <1>4, Pushed
<1>7. AddFits(a)
    BY <1>4 DEF AddFits
<1>8. l + 1 > 1 => stack'[(l + 1) - 1].at \in UserPoints
    <2> SUFFICES ASSUME l + 1 > 1
                 PROVE  stack'[(l + 1) - 1].at \in UserPoints
        OBVIOUS
    <2>1. l \in 1..l /\ (l + 1) - 1 = l /\ l # 0
        <3> HIDE DEF l
        <3> QED
            BY <1>2
    <2>2. stack # << >>
        BY <2>1, EmptySeq
    <2>3. stack[l].at \in UserPoints
        BY <2>2, <1>1, TopIs DEF UserCode
    <2> QED
        BY <2>1, <2>3, <1>6
<1>9. Fits(tweens', list', stack', l + 1)
    <2> HIDE DEF l
    <2> QED
        BY <1>4, <1>5, <1>6, <1>7, <1>8 DEF Fits, Pending
<1> QED
    BY <1>1, <1>4, <1>5, <1>9, Called1

LEMMA AddDoneStep == ASSUME TweenInv, AddDone \/ OverwriteThrows PROVE TweenInv'
<1>1. stack # << >> /\ stack' = Under /\ UNCHANGED <<tweens, list, engine, clock>>
    BY DEF AddDone, OverwriteThrows, In
<1>2. clock \in Nat
    BY Facts
<1>3. /\ Softer(tweens, list, tweens', list') /\ Sound(tweens', list', clock')
      /\ \A n : Fresh(n)
    BY <1>1, <1>2, NothingMoves
<1> QED
    BY <1>1, <1>3, Dropped

LEMMA FrameDoneStep == ASSUME TweenInv, FrameDone PROVE TweenInv'
<1>1. stack # << >> /\ stack' = Under /\ UNCHANGED <<tweens, list, engine, clock>>
    BY DEF FrameDone, In
<1>2. clock \in Nat
    BY Facts
<1>3. /\ Softer(tweens, list, tweens', list') /\ Sound(tweens', list', clock')
      /\ \A n : Fresh(n)
    BY <1>1, <1>2, NothingMoves
<1> QED
    BY <1>1, <1>3, Dropped

(* _addTweenOrCaller() goes on.                                             *)
AddPoints == {"loop", "scan", "push", "immediate", "onOverwrite"}

LEMMA AddTopIs ==
    ASSUME TweenInv, stack # << >>, Top.in = "add"
    PROVE  /\ AddFits(Top) /\ Want \in Requests
           /\ Len(stack) > 1 => stack[Len(stack) - 1].at \in UserPoints
           /\ Pending(Top) => /\ PendingFits(tweens, list, stack, Len(stack), Top)
                              /\ Top.tween \in 1..Len(tweens) /\ Mine \in Tween
<1>1. /\ Top = stack[Len(stack)] /\ Fits(tweens, list, stack, Len(stack))
      /\ Top \in ActivationTo(Len(tweens))
    BY TopIs
<1>2. AddFits(Top)
    BY <1>1 DEF Fits
<1>3. Want = Top.want[1]
    BY DEF Want
<1>4. ASSUME Pending(Top)
      PROVE  /\ PendingFits(tweens, list, stack, Len(stack), Top)
             /\ Top.tween \in 1..Len(tweens) /\ Mine \in Tween
    <2>1. PendingFits(tweens, list, stack, Len(stack), Top)
        BY <1>1, <1>4 DEF Fits
    <2> DEFINE n == Len(tweens)
    <2>2. n \in Nat /\ Top.tween \in 0..n /\ Top.tween # 0
        BY <1>1, <2>1, Facts DEF ActivationTo, PendingFits
    <2> HIDE DEF n
    <2>3. Top.tween \in 1..n
        BY <2>2
    <2> QED
        BY <2>1, <2>3, Facts DEF n, Mine
<1> QED
    BY <1>1, <1>2, <1>3, <1>4 DEF Fits, AddFits

LEMMA AddGoesOn ==
    ASSUME TweenInv, stack # << >>, Top.in = "add",
           NEW a \in ActivationTo(Len(tweens')), a.in = "add", a.at \in AddPoints,
           a.want = Top.want, stack' = Append(Under, a),
           Softer(tweens, list, tweens', list'), Sound(tweens', list', clock'),
           Fresh(Len(stack) - 1), engine' = engine,
           Pending(a) => PendingFits(tweens', list', stack, Len(stack), a)
    PROVE  TweenInv'
<1> DEFINE l == Len(stack)
<1>1. l \in Nat \ {0}
    BY TopIs
<1>2. Len(tweens') \in Nat /\ Len(tweens) <= Len(tweens')
    BY LenProperties DEF Sound, Softer
<1>3. stack'[l] = a /\ \A d \in 1..(l - 1) : stack'[d] = stack[d]
    BY <1>2, TopReplaced
<1>4. AddFits(a)
    BY AddTopIs DEF AddFits, AddPoints
<1>5. l > 1 => stack[l - 1].at \in UserPoints
    BY AddTopIs
<1> HIDE DEF l
<1>6. l > 1 => stack'[l - 1].at \in UserPoints
    <2>1. l > 1 => l - 1 \in 1..(l - 1)
        BY <1>1
    <2> QED
        BY <2>1, <1>3, <1>5
<1>7. Pending(a) => PendingFits(tweens', list', stack', l, a)
    BY <1>3 DEF PendingFits, l
<1>8. Fits(tweens', list', stack', l)
    BY <1>3, <1>4, <1>6, <1>7 DEF Fits
<1> QED
    BY <1>8, Retopped DEF l

LEMMA ScanStep == ASSUME TweenInv, Scan PROVE TweenInv'
<1>1. /\ stack # << >> /\ Top.in = "add" /\ Top.at = "scan"
      /\ UNCHANGED <<tweens, list, engine, clock>>
    BY DEF Scan, In
<1>2. clock \in Nat /\ Len(list) \in Nat /\ Len(tweens) \in Nat
    BY Facts
<1>3. /\ Softer(tweens, list, tweens', list') /\ Sound(tweens', list', clock')
      /\ Len(tweens') = Len(tweens) /\ \A n : Fresh(n)
    BY <1>1, <1>2, NothingMoves
<1>4. /\ PendingFits(tweens, list, stack, Len(stack), Top)
      /\ Top.tween \in 1..Len(tweens) /\ Mine = tweens[Top.tween]
    BY <1>1, AddTopIs DEF Pending, Mine
<1>5. Top.i \in 1..(Len(list) + 1) /\ Top.i \in Nat
    BY <1>1, <1>2, <1>4 DEF PendingFits
<1>6. Top \in ActivationTo(Len(tweens))
    BY <1>1, TopIs
<1> DEFINE p == [Top EXCEPT !.at = "push"]
           o == [Top EXCEPT !.at = "onOverwrite"]
           s == [Top EXCEPT !.i = @ + 1]
<1>7. \/ Top.i > Len(list) /\ stack' = Append(Under, p)
      \/ Top.i <= Len(list) /\ stack' = Append(Under, o)
      \/ /\ Top.i <= Len(list) /\ stack' = Append(Under, s)
         /\ ~(Live(Top.i) /\ Overlap(Mine, TweenAt(Top.i)))
    <2>1. Top.i > Len(list) \/ Top.i <= Len(list)
        BY <1>2, <1>5
    <2> HIDE DEF p, o, s
    <2> QED
        BY <2>1 DEF Scan, p, o, s
<1>8. /\ p \in ActivationTo(Len(tweens)) /\ o \in ActivationTo(Len(tweens))
      /\ p.in = "add" /\ p.at = "push" /\ p.want = Top.want /\ p.tween = Top.tween /\ p.i = Top.i
      /\ o.in = "add" /\ o.at = "onOverwrite" /\ o.want = Top.want /\ o.tween = Top.tween
      /\ o.i = Top.i
    BY <1>1, <1>6 DEF ActivationTo
<1>9. /\ s \in ActivationTo(Len(tweens))
      /\ s.in = "add" /\ s.at = "scan" /\ s.want = Top.want /\ s.tween = Top.tween
      /\ s.i = Top.i + 1
    <2>1. Top.i + 1 \in Nat
        BY <1>5
    <2> QED
        BY <2>1, <1>1, <1>6 DEF ActivationTo
<1> HIDE DEF p, o, s
<1>10. CASE Top.i > Len(list) /\ stack' = Append(Under, p)
    <2>1. \A i \in 1..Len(list) : i < Top.i
        BY <1>2, <1>5, <1>10
    <2>2. PendingFits(tweens', list', stack, Len(stack), p)
        BY <2>1, <1>1, <1>4, <1>8 DEF PendingFits
    <2> QED
        BY <2>2, <1>1, <1>3, <1>8, <1>10, AddGoesOn DEF AddPoints
<1>11. CASE Top.i <= Len(list) /\ stack' = Append(Under, o)
    <2>1. Top.i \in 1..Len(list)
        BY <1>2, <1>5, <1>11
    <2>2. PendingFits(tweens', list', stack, Len(stack), o)
        BY <2>1, <1>1, <1>4, <1>8 DEF PendingFits
    <2> QED
        BY <2>2, <1>1, <1>3, <1>8, <1>11, AddGoesOn DEF AddPoints
<1>12. CASE /\ Top.i <= Len(list) /\ stack' = Append(Under, s)
            /\ ~(Live(Top.i) /\ Overlap(Mine, TweenAt(Top.i)))
    <2>1. Top.i + 1 \in 1..(Len(list) + 1)
        BY <1>2, <1>5, <1>12
    <2>2. \A i \in 1..Len(list) : i < Top.i + 1 => i < Top.i \/ i = Top.i
        BY <1>2, <1>5
    <2>3. list[Top.i] # 0 => ~Conflict(tweens[Top.tween], tweens[list[Top.i]])
        BY <1>4, <1>12 DEF Live, TweenAt, Overlap, Conflict, Meet
    <2>4. PendingFits(tweens', list', stack, Len(stack), s)
        <3>1. \A i \in 1..Len(list) : list[i] # 0 =>
                 /\ list[i] # s.tween
                 /\ s.at = "push" \/ i < s.i => ~Conflict(tweens[s.tween], tweens[list[i]])
            <4> SUFFICES ASSUME NEW i \in 1..Len(list), list[i] # 0
                         PROVE  /\ list[i] # s.tween
                                /\ i < s.i => ~Conflict(tweens[s.tween], tweens[list[i]])
                BY <1>9
            <4>1. /\ list[i] # Top.tween
                  /\ i < Top.i => ~Conflict(tweens[Top.tween], tweens[list[i]])
                BY <1>4 DEF PendingFits
            <4> QED
                BY <4>1, <2>2, <2>3, <1>9
        <3>2. /\ s.tween # 0 /\ ~tweens[s.tween].isPaused
              /\ \A e \in 1..(Len(stack) - 1) :
                    /\ s.tween \notin stack[e].seen
                    /\ Pending(stack[e]) => stack[e].tween # s.tween
            BY <1>4, <1>9 DEF PendingFits
        <3>3. s.at = "scan" /\ s.i \in 1..(Len(list) + 1)
            BY <2>1, <1>9
        <3> QED
            BY <3>1, <3>2, <3>3, <1>1 DEF PendingFits
    <2> QED
        BY <2>4, <1>1, <1>3, <1>9, <1>12, AddGoesOn DEF AddPoints
<1> QED
    BY <1>7, <1>10, <1>11, <1>12

LEMMA OverwriteStep == ASSUME TweenInv, Overwrite PROVE TweenInv'
<1> DEFINE t == list[Top.i]
           left == TweenAt(Top.i).props \ Mine.props
           u == [tweens[t] EXCEPT !.props = left]
           a == [Top EXCEPT !.at = "scan", !.i = @ + 1]
<1>1. /\ stack # << >> /\ Top.in = "add" /\ Top.at = "onOverwrite"
      /\ Top.i \in 1..Len(list) /\ t # 0
      /\ UNCHANGED <<engine, clock>>
    BY DEF Overwrite, In, Slots, Live
<1>2. /\ tweens' = [tweens EXCEPT ![t] = u]
      /\ list' = Cleared(list, IF left = {} THEN {Top.i} ELSE {})
      /\ stack' = Append(Under, a)
    BY DEF Overwrite
<1>3. /\ PendingFits(tweens, list, stack, Len(stack), Top)
      /\ Top.tween \in 1..Len(tweens) /\ Mine = tweens[Top.tween]
    BY <1>1, AddTopIs DEF Pending, Mine
<1>4. /\ tweens \in Seq(Tween) /\ DOMAIN tweens = 1..Len(tweens)
      /\ Len(list) \in Nat /\ t \in 1..Len(tweens) /\ tweens[t] \in Tween
    <2>1. t \in 0..Len(tweens) /\ Len(tweens) \in Nat
        BY <1>1, Facts
    <2> QED
        BY <1>1, <2>1, Facts, LenProperties
<1>5. /\ u \in Tween /\ Kin(tweens[t], u) /\ u.props \cap Mine.props = {}
      /\ u.isPaused = tweens[t].isPaused /\ u.timePaused = tweens[t].timePaused
    <2>1. left \in SUBSET Props /\ left \subseteq tweens[t].props /\ left \cap Mine.props = {}
        BY <1>4 DEF Tween, TweenAt
    <2> HIDE DEF left
    <2> QED
        BY <2>1, <1>4 DEF Tween, Kin
<1>6. Touched(t, tweens') /\ Thinned(list, list')
    <2> HIDE DEF u, left, t
    <2> QED
        BY <1>2, <1>4, <1>5 DEF Touched, Thinned
<1>7. /\ Softer(tweens, list, tweens', list') /\ Sound(tweens', list', clock')
      /\ Len(list') = Len(list) /\ Len(tweens') = Len(tweens) /\ \A n : Fresh(n)
    BY <1>1, <1>6, OneMoves
<1>8. Top \in ActivationTo(Len(tweens)) /\ Top.i + 1 \in Nat
    BY <1>1, <1>4, TopIs
<1>9. /\ a \in ActivationTo(Len(tweens))
      /\ a.in = "add" /\ a.at = "scan" /\ a.want = Top.want /\ a.tween = Top.tween
      /\ a.i = Top.i + 1
    BY <1>1, <1>8 DEF ActivationTo
<1>10. t # Top.tween
    BY <1>1, <1>3 DEF PendingFits
<1>11. /\ tweens'[t] = u
       /\ tweens'[Top.tween] = Mine
       /\ \A s \in 1..Len(tweens) : Kin(tweens[s], tweens'[s])
       /\ \A i \in 1..Len(list) : list'[i] = list[i] \/ list'[i] = 0
    <2> HIDE DEF t, u, left
    <2>1. tweens'[t] = u /\ tweens'[Top.tween] = Mine
        BY <1>2, <1>3, <1>4, <1>10
    <2> QED
        BY <2>1, <1>7 DEF Softer
<1> HIDE DEF a, u, left
<1>12. ASSUME NEW i \in 1..Len(list), list'[i] # 0
       PROVE  /\ list'[i] # a.tween
              /\ i < a.i => ~Conflict(tweens'[a.tween], tweens'[list'[i]])
    <2>1. /\ list'[i] = list[i] /\ list[i] # 0
        BY <1>11, <1>12
    <2>2. /\ list[i] # Top.tween /\ list[i] \in 1..Len(tweens)
          /\ i < Top.i => ~Conflict(tweens[Top.tween], tweens[list[i]])
        <3>1. list[i] \in 0..Len(tweens) /\ Len(tweens) \in Nat
            BY Facts
        <3>2. list[i] \in 1..Len(tweens)
            BY <2>1, <3>1
        <3> QED
            BY <2>1, <3>2, <1>3 DEF PendingFits
    <2>3. i < Top.i => ~Conflict(tweens'[Top.tween], tweens'[list[i]])
        <3>1. Kin(tweens[Top.tween], tweens'[Top.tween]) /\ Kin(tweens[list[i]], tweens'[list[i]])
            BY <2>2, <1>3, <1>11
        <3> QED
            BY <3>1, <2>2, KinConflict
    <2>4. ~Conflict(Mine, u)
        BY <1>5 DEF Conflict
    <2>5. i < Top.i + 1 => i < Top.i \/ i = Top.i
        BY <1>1, <1>4
    <2>6. i = Top.i => list[i] = t
        OBVIOUS
    <2> QED
        BY <2>1, <2>2, <2>3, <2>4, <2>5, <2>6, <1>9, <1>11
<1>13. PendingFits(tweens', list', stack, Len(stack), a)
    <2>1. Top.i + 1 \in 1..(Len(list') + 1)
        BY <1>1, <1>4, <1>7
    <2>2. /\ a.tween # 0
          /\ \A e \in 1..(Len(stack) - 1) :
                /\ a.tween \notin stack[e].seen
                /\ Pending(stack[e]) => stack[e].tween # a.tween
        BY <1>3, <1>9 DEF PendingFits
    <2>3. ~tweens'[a.tween].isPaused
        BY <1>3, <1>9, <1>11 DEF PendingFits
    <2> QED
        BY <2>1, <2>2, <2>3, <1>7, <1>9, <1>12 DEF PendingFits
<1> QED
    BY <1>1, <1>2, <1>7, <1>9, <1>13, AddGoesOn DEF AddPoints

LEMMA AddNextStep == ASSUME TweenInv, AddNext PROVE TweenInv'
<1> DEFINE n == Len(tweens)
           u == Made(Head(Top.scopes), Want)
           p == IF Want.count > 0 THEN "push" ELSE "scan"
           a == [Top EXCEPT !.scopes = Tail(@), !.tween = n + 1, !.i = 1, !.at = p]
<1>1. /\ stack # << >> /\ Top.in = "add" /\ Top.scopes # << >>
      /\ tweens' = Append(tweens, u)
      /\ stack' = Append(Under, a)
      /\ UNCHANGED <<list, engine, clock>>
    BY DEF AddNext, In
<1>2. /\ tweens \in Seq(Tween) /\ n \in Nat /\ Len(list) \in Nat /\ clock \in Nat
      /\ list \in Seq(0..n) /\ \A i \in 1..Len(list) : list[i] \in 0..n
    BY Facts
<1>3. /\ Top \in ActivationTo(n) /\ Want \in Request
      /\ Want.count > 0 => Want.props = {}
    BY <1>1, TopIs, AddTopIs, ProgramsAssumption
<1>4. Head(Top.scopes) \in Scopes /\ Tail(Top.scopes) \in Seq(Scopes)
    <2>1. Top.scopes \in Seq(Scopes)
        BY <1>3 DEF ActivationTo
    <2> QED
        BY <2>1, <1>1, HeadTailProperties
<1>5. u \in Tween /\ ~u.isPaused /\ (Want.count > 0 => u.props = {})
    <2>1. clock + Want.delay \in Nat /\ clock + Want.delay + Want.time \in Nat
        BY <1>2, <1>3 DEF Request
    <2>2. (Want.count > 0) \in BOOLEAN
        OBVIOUS
    <2> QED
        BY <2>1, <2>2, <1>3, <1>4 DEF Made, Tween, Request
<1>6. /\ tweens' \in Seq(Tween) /\ Len(tweens') = n + 1
      /\ \A t \in 1..n : tweens'[t] = tweens[t]
      /\ tweens'[n + 1] = u
    <2> HIDE DEF u
    <2> QED
        BY <1>1, <1>2, <1>5, Pushed
<1> HIDE DEF u, p
<1>7. p \in {"push", "scan"} /\ (p = "push" => Want.count > 0)
    BY DEF p
<1>8. /\ a \in ActivationTo(Len(tweens'))
      /\ a.in = "add" /\ a.at = p /\ a.want = Top.want /\ a.tween = n + 1 /\ a.i = 1
    <2>1. /\ Top \in ActivationTo(n + 1) /\ n + 1 \in 0..(n + 1)
        BY <1>2, <1>3, ActivationsGrow
    <2> DEFINE m == n + 1
    <2>2. Top \in ActivationTo(m) /\ m \in 0..m /\ Len(tweens') = m
        BY <2>1, <1>6
    <2>3. a = [Top EXCEPT !.scopes = Tail(@), !.tween = m, !.i = 1, !.at = p]
        OBVIOUS
    <2>4. m = n + 1
        OBVIOUS
    <2> HIDE DEF m, a, n
    <2>5. a \in ActivationTo(m) /\ a.in = "add" /\ a.at = p /\ a.want = Top.want /\ a.tween = m /\ a.i = 1
        BY <2>2, <2>3, <1>1, <1>4, <1>7 DEF ActivationTo
    <2> QED
        BY <2>2, <2>4, <2>5
<1> HIDE DEF a
<1>9. Softer(tweens, list, tweens', list')
    <2> HIDE DEF n
    <2> QED
        BY <1>1, <1>2, <1>6, KinSame DEF Softer, n
<1>10. Sound(tweens', list', clock')
    <2>1. list' \in Seq(0..Len(tweens'))
        <3>1. 0..n \subseteq 0..(n + 1)
            BY <1>2
        <3> HIDE DEF n
        <3> QED
            BY <3>1, <1>1, <1>2, <1>6, SeqMonotonic
    <2>2. ASSUME NEW i \in 1..Len(list), list'[i] # 0, tweens'[list[i]].isPaused
          PROVE  tweens'[list[i]].timePaused <= clock
        <3>1. list[i] \in 1..n
            BY <2>2, <1>1, <1>2
        <3>2. tweens'[list[i]] = tweens[list[i]]
            BY <3>1, <1>6
        <3> QED
            BY <3>2, <2>2, <1>1 DEF TweenInv, Sound
    <2>3. Sound(tweens', list', clock)
        BY <2>1, <2>2, <1>1, <1>6, <1>9, SoundSofter
    <2> QED
        BY <2>3, <1>1
<1>11. \A k : Fresh(k)
    BY <1>1, <1>2 DEF Fresh
<1>12. PendingFits(tweens', list', stack, Len(stack), a)
    <2>1. ~tweens'[a.tween].isPaused /\ a.tween # 0
        BY <1>2, <1>5, <1>6, <1>8
    <2>2. /\ a.at = "scan" => a.i \in 1..(Len(list') + 1)
          /\ a.at # "onOverwrite"
        BY <1>1, <1>2, <1>7, <1>8
    <2>3. ASSUME NEW i \in 1..Len(list'), list'[i] # 0
          PROVE  /\ list'[i] # a.tween
                 /\ a.at = "push" \/ i < a.i => ~Conflict(tweens'[a.tween], tweens'[list'[i]])
        <3>1. list'[i] # n + 1
            BY <1>1, <1>2
        <3>2. ~(i < 1)
            BY <1>1, <1>2
        <3>3. a.at = "push" => ~Conflict(u, tweens'[list'[i]])
            BY <1>5, <1>7, <1>8 DEF Conflict
        <3> QED
            BY <3>1, <3>2, <3>3, <1>6, <1>8
    <2>4. ASSUME NEW e \in 1..(Len(stack) - 1)
          PROVE  /\ a.tween \notin stack[e].seen
                 /\ Pending(stack[e]) => stack[e].tween # a.tween
        <3>1. e \in 1..Len(stack)
            BY Facts
        <3>2. stack[e] \in ActivationTo(n)
            BY <3>1, Facts
        <3>3. stack[e].seen \subseteq 1..n /\ stack[e].tween \in 0..n
            BY <3>2 DEF ActivationTo
        <3> HIDE DEF n
        <3>4. n + 1 \notin stack[e].seen /\ stack[e].tween # n + 1
            BY <3>3, <1>2
        <3> QED
            BY <3>4, <1>8
    <2> QED
        BY <2>1, <2>2, <2>3, <2>4 DEF PendingFits
<1>13. p \in AddPoints
    BY <1>7 DEF AddPoints
<1> QED
    BY <1>1, <1>8, <1>9, <1>10, <1>11, <1>12, <1>13, AddGoesOn

(* Two functions where there was one.                                       *)
LEMMA TopAndCall ==
    ASSUME TweenInv, stack # << >>,
           NEW m \in Nat, Len(tweens) <= m, NEW a \in ActivationTo(m), NEW b \in ActivationTo(m),
           stack' = Append(Append(Under, a), b)
    PROVE  /\ stack'[Len(stack)] = a /\ stack'[Len(stack) + 1] = b
           /\ \A d \in 1..(Len(stack) - 1) : stack'[d] = stack[d]
<1> DEFINE l == Len(stack)
           s == Append(Under, a)
<1>1. /\ l \in Nat \ {0}
      /\ Under \in Seq(ActivationTo(Len(tweens))) /\ Len(Under) = l - 1
      /\ \A d \in 1..(l - 1) : Under[d] = stack[d]
    BY TopIs
<1>2. Under \in Seq(ActivationTo(m)) /\ Len(tweens) \in Nat
    BY <1>1, Facts, StackGrows
<1>3. /\ s \in Seq(ActivationTo(m)) /\ Len(s) = Len(Under) + 1
      /\ s[Len(Under) + 1] = a /\ \A d \in 1..Len(Under) : s[d] = Under[d]
    BY <1>2, Pushed
<1>4. stack' = Append(s, b)
    OBVIOUS
<1> HIDE DEF s
<1>5. stack'[Len(s) + 1] = b /\ \A d \in 1..Len(s) : stack'[d] = s[d]
    BY <1>3, <1>4, Pushed
<1> HIDE DEF l
<1>6. Len(s) = l /\ Len(Under) + 1 = l /\ l \in 1..l /\ \A d \in 1..(l - 1) : d \in 1..l
    BY <1>1, <1>3
<1> QED
    BY <1>1, <1>3, <1>5, <1>6 DEF l

(* An update begins.                                                        *)
LEMMA EntryIs ==
    ASSUME NEW n \in Nat, NEW i \in Nat, NEW t \in 0..n
    PROVE  /\ Called("update", "entry", i, t) \in ActivationTo(n)
           /\ Called("update", "entry", i, t).in = "update"
           /\ Called("update", "entry", i, t).at = "entry"
           /\ Called("update", "entry", i, t).i = i
           /\ Called("update", "entry", i, t).tween = t
<1>1. << >> \in Seq(Scopes) /\ << >> \in Seq(Request) /\ {} \in SUBSET (1..n)
    OBVIOUS
<1> QED
    BY <1>1 DEF Called, ActivationTo

LEMMA EntryFits ==
    ASSUME NEW T, NEW L, NEW S, NEW d \in Nat \ {0}, NEW t \in 1..Len(T), Len(T) \in Nat,
           NEW i \in 1..Len(L), Len(L) \in Nat, L[i] = t,
           S[d + 1] = Called("update", "entry", i, t), S[d].i = i,
           \/ S[d].in = "frame" /\ t \in S[d].seen
           \/ S[d].in = "add" /\ S[d].at = "immediate"
    PROVE  Fits(T, L, S, d + 1)
<1> DEFINE b == S[d + 1]
<1>1. t \in 0..Len(T) /\ t # 0 /\ i \in Nat
    OBVIOUS
<1>2. /\ b \in ActivationTo(Len(T))
      /\ b.in = "update" /\ b.at = "entry" /\ b.i = i /\ b.tween = t
    BY <1>1, EntryIs
<1>3. d + 1 > 1 /\ (d + 1) - 1 = d
    OBVIOUS
<1> HIDE DEF b
<1>4. UpdateFits(L, S, d + 1, b)
    BY <1>1, <1>2, <1>3 DEF UpdateFits
<1> QED
    BY <1>2, <1>4 DEF Fits, Pending, b

LEMMA PushStep == ASSUME TweenInv, Push PROVE TweenInv'
<1> DEFINE t == Top.tween
           m == Len(list)
           n == Len(tweens)
<1>1. /\ stack # << >> /\ Top.in = "add" /\ Top.at = "push"
      /\ list' = Append(list, t) /\ UNCHANGED <<tweens, engine, clock>>
    BY DEF Push, In
<1>2. /\ PendingFits(tweens, list, stack, Len(stack), Top)
      /\ t \in 1..n
    BY <1>1, AddTopIs DEF Pending
<1>3. /\ tweens \in Seq(Tween) /\ n \in Nat /\ m \in Nat /\ clock \in Nat
      /\ list \in Seq(0..n)
    BY Facts
<1>4. /\ list' \in Seq(0..n) /\ Len(list') = m + 1
      /\ list'[m + 1] = t
      /\ \A i \in 1..m : list'[i] = list[i]
    <2>1. t \in 0..n
        BY <1>2, <1>3
    <2> HIDE DEF n, t
    <2> QED
        BY <1>1, <1>3, <2>1, Pushed
<1> HIDE DEF m, t, n
<1>5. Softer(tweens, list, tweens', list')
    <2>1. m <= m + 1 /\ n <= n
        BY <1>3
    <2> QED
        BY <2>1, <1>1, <1>4, KinSame DEF Softer, m, n
<1>6. /\ ~tweens[t].isPaused
      /\ \A i \in 1..m : list[i] # 0 => list[i] # t /\ ~Conflict(tweens[t], tweens[list[i]])
    BY <1>1, <1>2 DEF PendingFits, m, t
<1>7. \A i \in 1..(m + 1) : i \in 1..m \/ i = m + 1
    BY <1>3
<1>8. Sound(tweens', list', clock')
    <2>1. ASSUME NEW i \in 1..(m + 1), NEW j \in 1..(m + 1), i # j, list'[i] # 0, list'[j] # 0
          PROVE  list'[i] # list'[j] /\ ~Conflict(tweens[list'[i]], tweens[list'[j]])
        <3>1. CASE i \in 1..m /\ j \in 1..m
            BY <3>1, <2>1, <1>4 DEF TweenInv, Sound, m
        <3>2. CASE i = m + 1 /\ j \in 1..m
            BY <3>2, <2>1, <1>4, <1>6
        <3>3. CASE i \in 1..m /\ j = m + 1
            <4>1. list'[i] = list[i] /\ list'[j] = t
                BY <3>3, <1>4
            <4>2. list[i] # t /\ ~Conflict(tweens[t], tweens[list[i]])
                BY <4>1, <3>3, <2>1, <1>6
            <4> QED
                BY <4>1, <4>2, ConflictSymmetric
        <3> QED
            BY <3>1, <3>2, <3>3, <2>1, <1>7
    <2>2. ASSUME NEW i \in 1..(m + 1), list'[i] # 0, tweens[list'[i]].isPaused
          PROVE  tweens[list'[i]].timePaused <= clock
        <3>1. i \in 1..m
            BY <2>2, <1>4, <1>6, <1>7
        <3> QED
            BY <3>1, <2>2, <1>4 DEF TweenInv, Sound, m
    <2>3. tweens' \in Seq(Tween) /\ list' \in Seq(0..Len(tweens')) /\ clock' \in Nat
        BY <1>1, <1>3, <1>4 DEF n
    <2>4. \A i, j \in 1..Len(list') : i # j /\ list'[i] # 0 /\ list'[j] # 0 =>
             list'[i] # list'[j] /\ ~Conflict(tweens'[list'[i]], tweens'[list'[j]])
        BY <2>1, <1>1, <1>4
    <2>5. \A i \in 1..Len(list') : list'[i] # 0 /\ tweens'[list'[i]].isPaused =>
             tweens'[list'[i]].timePaused <= clock'
        BY <2>2, <1>1, <1>4
    <2> QED
        BY <2>3, <2>4, <2>5 DEF Sound
<1>9. Fresh(Len(stack) - 1)
    <2>1. ASSUME NEW i \in 1..Len(list'), i > m
          PROVE  list'[i] = t
        BY <2>1, <1>3, <1>4
    <2>2. \A d \in 1..(Len(stack) - 1) : /\ t \notin stack[d].seen
                                         /\ Pending(stack[d]) => stack[d].tween # t
        BY <1>2 DEF PendingFits, t
    <2> QED
        BY <2>1, <2>2 DEF Fresh, m
<1>10. Top \in ActivationTo(n)
    BY <1>1, TopIs DEF n
<1>11. CASE stack' = Append(Under, [Top EXCEPT !.at = "loop"])
    <2> DEFINE a == [Top EXCEPT !.at = "loop"]
    <2>1. /\ a \in ActivationTo(n) /\ a.in = "add" /\ a.at = "loop" /\ a.want = Top.want
        BY <1>1, <1>10 DEF ActivationTo
    <2>2. stack' = Append(Under, a)
        BY <1>11
    <2> HIDE DEF a
    <2>3. ~Pending(a) /\ a.at \in AddPoints
        BY <2>1 DEF Pending, AddPoints
    <2>4. a \in ActivationTo(Len(tweens'))
        BY <2>1, <1>1 DEF n
    <2> QED
        BY <2>1, <2>2, <2>3, <2>4, <1>1, <1>5, <1>8, <1>9, AddGoesOn
<1>12. CASE stack' = Append(Append(Under, [Top EXCEPT !.at = "immediate", !.i = Len(list) + 1]),
                            Called("update", "entry", Len(list) + 1, Top.tween))
    <2> DEFINE a == [Top EXCEPT !.at = "immediate", !.i = m + 1]
               b == Called("update", "entry", m + 1, t)
               l == Len(stack)
    <2>1. m + 1 \in Nat /\ m + 1 \in 1..(m + 1) /\ t \in 0..n /\ n \in Nat
        BY <1>2, <1>3
    <2>2. /\ a \in ActivationTo(n) /\ a.in = "add" /\ a.at = "immediate"
          /\ a.want = Top.want /\ a.i = m + 1
        BY <2>1, <1>1, <1>10 DEF ActivationTo
    <2>3. b \in ActivationTo(n)
        BY <2>1, EntryIs
    <2>4. stack' = Append(Append(Under, a), b)
        BY <1>12 DEF m, t
    <2>5. l \in Nat \ {0}
        BY <1>1, TopIs
    <2>6. Len(tweens) <= n /\ n = Len(tweens')
        BY <1>1, <1>3 DEF n
    <2> HIDE DEF a, l
    <2>7. /\ stack'[l] = a /\ stack'[l + 1] = b
          /\ \A d \in 1..(l - 1) : stack'[d] = stack[d]
        <3> HIDE DEF b
        <3> QED
            BY <2>1, <2>2, <2>3, <2>4, <2>6, <1>1, TopAndCall DEF l
    <2>8. AddFits(a) /\ ~Pending(a)
        BY <2>2, <1>1, AddTopIs DEF AddFits, Pending
    <2>9. l > 1 => stack'[l - 1].at \in UserPoints
        <3>1. l > 1 => l - 1 \in 1..(l - 1)
            BY <2>5
        <3> QED
            BY <3>1, <2>7, <1>1, AddTopIs DEF l
    <2>10. Fits(tweens', list', stack', l)
        BY <2>2, <2>6, <2>7, <2>8, <2>9 DEF Fits
    <2>11. Fits(tweens', list', stack', l + 1)
        <3>1. t \in 1..Len(tweens') /\ Len(tweens') \in Nat /\ m + 1 \in 1..Len(list') /\ Len(list') \in Nat
            BY <2>1, <2>6, <1>2, <1>4
        <3> QED
            BY <3>1, <2>2, <2>5, <2>7, <1>4, EntryFits
    <2> HIDE DEF b
    <2> QED
        BY <2>2, <2>3, <2>4, <2>6, <2>10, <2>11, <1>1, <1>5, <1>8, <1>9, RetoppedAndCalled DEF l
<1> QED
    BY <1>11, <1>12 DEF Push

-----------------------------------------------------------------------------
(* The frames.                                                              *)
LEMMA FrameStep == ASSUME TweenInv, Frame PROVE TweenInv'
<1>1. /\ stack = << >> /\ UNCHANGED tweens /\ engine
      /\ tweens \in Seq(Tween) /\ clock \in Nat
      /\ Len(tweens) \in Nat /\ Len(list) \in Nat
    BY Facts DEF Frame
<1>2. CASE NoTween
    <2>1. ~engine' /\ list' = << >> /\ clock' = 0 /\ stack' = << >>
        BY <1>2 DEF Frame
    <2>2. /\ << >> \in Seq(0..Len(tweens)) /\ << >> \in Seq(ActivationTo(Len(tweens)))
          /\ \A d \in 1..Len(<< >>) : FALSE
        OBVIOUS
    <2>3. Sound(tweens', list', clock')
        BY <2>1, <2>2, <1>1 DEF Sound
    <2> QED
        BY <2>1, <2>2, <2>3, <1>1 DEF TweenInv
<1>3. CASE ~NoTween
    <2> DEFINE a == Called("frame", "loop", 1, 0)
    <2>1. /\ clock' = Tick /\ stack' = Append(stack, a) /\ UNCHANGED <<tweens, list, engine>>
        BY <1>3 DEF Frame
    <2>2. clock' \in Nat /\ clock <= clock'
        BY <2>1, <1>1 DEF Tick
    <2>3. /\ Softer(tweens, list, tweens', list') /\ Sound(tweens', list', clock')
          /\ Len(list') = Len(list) /\ Len(tweens') = Len(tweens) /\ \A n : Fresh(n)
        BY <2>1, <2>2, NothingMoves
    <2>4. /\ a \in ActivationTo(Len(tweens)) /\ a.in = "frame" /\ a.at = "loop"
          /\ a.i = 1 /\ a.seen = {}
        <3> DEFINE n == Len(tweens)
        <3>1. /\ << >> \in Seq(Scopes) /\ << >> \in Seq(Request) /\ {} \in SUBSET (1..n)
              /\ 0 \in 0..n /\ 1 \in Nat
            BY <1>1
        <3> HIDE DEF n
        <3>2. /\ a \in ActivationTo(n) /\ a.in = "frame" /\ a.at = "loop"
              /\ a.i = 1 /\ a.seen = {}
            BY <3>1 DEF Called, ActivationTo
        <3> QED
            BY <3>2 DEF n
    <2> HIDE DEF a
    <2>5. Len(stack) = 0 /\ stack \in Seq(ActivationTo(Len(tweens)))
        BY <1>1, Facts
    <2>6. stack' = << a >> /\ stack'[1] = a
        BY <2>1, <1>1
    <2>7. FrameFits(list', 1, a)
        BY <2>1, <2>4, <1>1 DEF FrameFits
    <2>8. Fits(tweens', list', stack', 1)
        BY <2>3, <2>4, <2>6, <2>7 DEF Fits, Pending
    <2>9. Fits(tweens', list', stack', Len(stack) + 1)
        BY <2>5, <2>8
    <2>10. engine' /\ a \in ActivationTo(Len(tweens'))
        BY <2>1, <2>3, <2>4, <1>1
    <2> QED
        BY <2>1, <2>3, <2>9, <2>10, Called1
<1> QED
    BY <1>2, <1>3

(* The frame is alone on the stack when it goes on.                         *)
LEMMA FrameIs ==
    ASSUME TweenInv, stack # << >>, Top.in = "frame"
    PROVE  /\ Len(stack) = 1 /\ Top = stack[1] /\ FrameFits(list, 1, Top)
           /\ Top \in ActivationTo(Len(tweens)) /\ Top.i \in Nat
<1>1. /\ Top = stack[Len(stack)] /\ Fits(tweens, list, stack, Len(stack))
      /\ Top \in ActivationTo(Len(tweens))
    BY TopIs
<1>2. FrameFits(list, Len(stack), Top)
    BY <1>1 DEF Fits
<1> QED
    BY <1>1, <1>2 DEF FrameFits, ActivationTo

(* The tween in the slot that the frame is at becomes one of those seen.    *)
LEMMA SeenGrows ==
    ASSUME TweenInv, stack # << >>, Top.in = "frame", Top.i \in 1..Len(list), list[Top.i] # 0,
           NEW a, a.at = "loop", a.i = Top.i \/ a.i = Top.i + 1,
           a.seen = Top.seen \cup {list[Top.i]}
    PROVE  FrameFits(list, 1, a)
<1>1. /\ FrameFits(list, 1, Top) /\ Top.i \in Nat /\ Len(list) \in Nat
    BY FrameIs, Facts
<1>2. ASSUME NEW i \in 1..Len(list), list[i] # 0
      PROVE  /\ i < a.i => list[i] \in a.seen
             /\ i > a.i => list[i] \notin a.seen
    <2>1. /\ i < Top.i => list[i] \in Top.seen
          /\ i > Top.i => list[i] \notin Top.seen
        BY <1>1, <1>2 DEF FrameFits
    <2>2. i # Top.i => list[i] # list[Top.i]
        BY <1>2 DEF TweenInv, Sound
    <2>3. /\ i < a.i => i < Top.i \/ i = Top.i
          /\ i > a.i => i > Top.i /\ i # Top.i
        BY <1>1
    <2> QED
        BY <2>1, <2>2, <2>3
<1>3. a.i >= 1
    BY <1>1 DEF FrameFits
<1> QED
    BY <1>2, <1>3 DEF FrameFits

LEMMA FrameUpdatesStep == ASSUME TweenInv, FrameUpdates PROVE TweenInv'
<1> DEFINE i == Top.i
           t == list[i]
           n == Len(tweens)
           a == [Top EXCEPT !.seen = @ \cup {t}]
           b == Called("update", "entry", i, t)
<1>1. /\ stack # << >> /\ Top.in = "frame" /\ i \in 1..Len(list) /\ t # 0
      /\ stack' = Append(Append(Under, a), b)
      /\ UNCHANGED <<tweens, list, engine, clock>>
    BY DEF FrameUpdates, In, Slots, Live
<1>2. /\ n \in Nat /\ Len(list) \in Nat /\ clock \in Nat /\ t \in 0..n
    BY <1>1, Facts
<1>3. /\ Len(stack) = 1 /\ Top \in ActivationTo(n) /\ i \in Nat /\ FrameFits(list, 1, Top)
    BY <1>1, FrameIs
<1>4. /\ Softer(tweens, list, tweens', list') /\ Sound(tweens', list', clock')
      /\ Len(list') = Len(list) /\ Len(tweens') = Len(tweens) /\ \A k : Fresh(k)
    BY <1>1, <1>2, NothingMoves
<1> HIDE DEF n, t
<1>5. t \in 1..n
    BY <1>1, <1>2
<1>6. /\ a \in ActivationTo(n) /\ a.in = "frame" /\ a.at = Top.at /\ a.i = i
      /\ a.seen = Top.seen \cup {t}
    <2>1. Top.seen \cup {t} \in SUBSET (1..n)
        BY <1>3, <1>5 DEF ActivationTo
    <2> QED
        BY <2>1, <1>1, <1>3 DEF ActivationTo
<1>7. b \in ActivationTo(n)
    BY <1>2, <1>3, EntryIs
<1>8. stack'[1] = a /\ stack'[2] = b
    <2>1. Len(tweens) <= n
        BY <1>2 DEF n
    <2> HIDE DEF a, b
    <2>2. stack'[Len(stack)] = a /\ stack'[Len(stack) + 1] = b
        BY <2>1, <1>1, <1>2, <1>6, <1>7, TopAndCall
    <2> QED
        BY <2>2, <1>3
<1>9. FrameFits(list, 1, a)
    <2>1. a.at = "loop"
        BY <1>3, <1>6 DEF FrameFits
    <2> QED
        BY <2>1, <1>1, <1>6, SeenGrows DEF t
<1> HIDE DEF a
<1>10. Fits(tweens', list', stack', 1)
    BY <1>1, <1>6, <1>8, <1>9 DEF Fits, Pending, n
<1>11. Fits(tweens', list', stack', 2)
    <2>1. /\ t \in 1..Len(tweens') /\ Len(tweens') \in Nat
          /\ i \in 1..Len(list') /\ Len(list') \in Nat /\ list'[i] = t
        BY <1>1, <1>2, <1>5 DEF n, t
    <2>2. stack'[1 + 1] = b /\ stack'[1].i = i /\ stack'[1].in = "frame" /\ t \in stack'[1].seen
        BY <1>6, <1>8
    <2>3. Fits(tweens', list', stack', 1 + 1)
        BY <2>1, <2>2, EntryFits
    <2> QED
        BY <2>3
<1>12. /\ a \in ActivationTo(Len(tweens')) /\ b \in ActivationTo(Len(tweens'))
       /\ Fits(tweens', list', stack', Len(stack)) /\ Fits(tweens', list', stack', Len(stack) + 1)
    BY <1>1, <1>3, <1>6, <1>7, <1>10, <1>11 DEF n
<1> HIDE DEF b
<1> QED
    BY <1>1, <1>4, <1>12, RetoppedAndCalled

LEMMA FramePassesStep == ASSUME TweenInv, FramePasses PROVE TweenInv'
<1> DEFINE t == list[Top.i]
           n == Len(tweens)
           a == [Top EXCEPT !.i = @ + 1, !.seen = @ \cup {t}]
<1>1. /\ stack # << >> /\ Top.in = "frame" /\ Top.i \in 1..Len(list) /\ t # 0
      /\ stack' = Append(Under, a)
      /\ UNCHANGED <<tweens, list, engine, clock>>
    BY DEF FramePasses, In, Slots, Live
<1>2. /\ n \in Nat /\ Len(list) \in Nat /\ clock \in Nat /\ t \in 0..n
    BY <1>1, Facts
<1>3. /\ Len(stack) = 1 /\ Top \in ActivationTo(n) /\ Top.i + 1 \in Nat /\ FrameFits(list, 1, Top)
    BY <1>1, FrameIs
<1>4. /\ Softer(tweens, list, tweens', list') /\ Sound(tweens', list', clock')
      /\ Len(list') = Len(list) /\ Len(tweens') = Len(tweens) /\ \A k : Fresh(k)
    BY <1>1, <1>2, NothingMoves
<1> HIDE DEF n, t
<1>5. t \in 1..n
    BY <1>1, <1>2
<1>6. /\ a \in ActivationTo(n) /\ a.in = "frame" /\ a.at = Top.at /\ a.i = Top.i + 1
      /\ a.seen = Top.seen \cup {t}
    <2>1. Top.seen \cup {t} \in SUBSET (1..n)
        BY <1>3, <1>5 DEF ActivationTo
    <2> QED
        BY <2>1, <1>1, <1>3 DEF ActivationTo
<1> HIDE DEF a
<1>7. stack'[1] = a
    <2>1. Len(tweens) <= n
        BY <1>2 DEF n
    <2>2. stack'[Len(stack)] = a
        BY <2>1, <1>1, <1>2, <1>6, TopReplaced
    <2> QED
        BY <2>2, <1>3
<1>8. FrameFits(list, 1, a)
    <2>1. a.at = "loop"
        BY <1>3, <1>6 DEF FrameFits
    <2> QED
        BY <2>1, <1>1, <1>6, SeenGrows DEF t
<1>9. Fits(tweens', list', stack', 1)
    BY <1>1, <1>6, <1>7, <1>8 DEF Fits, Pending, n
<1>10. /\ a \in ActivationTo(Len(tweens')) /\ Fits(tweens', list', stack', Len(stack))
    BY <1>1, <1>3, <1>6, <1>9 DEF n
<1> QED
    BY <1>1, <1>4, <1>10, Retopped

LEMMA FrameDropsStep == ASSUME TweenInv, FrameDrops PROVE TweenInv'
<1>1. /\ stack # << >> /\ Top.in = "frame" /\ Top.i \in 1..Len(list)
      /\ list' = RemoveAt(list, Top.i)
      /\ UNCHANGED <<tweens, engine, clock, stack>>
    BY DEF FrameDrops, In, Slots
<1>2. /\ Len(stack) = 1 /\ Top = stack[1] /\ FrameFits(list, 1, Top)
    BY <1>1, FrameIs
<1>3. Sound(tweens', list, clock) /\ stack' \in Seq(ActivationTo(Len(tweens))) /\ engine
    BY <1>1, Facts, EngineIsOn DEF TweenInv
<1> QED
    BY <1>1, <1>2, <1>3, FrameRemoves

-----------------------------------------------------------------------------
(* pauseTweens(), resumeTweens(), removeTweens().                           *)
OnTime(t) == t.isPaused => t.timePaused <= clock

LEMMA KinOfKin ==
    ASSUME NEW t, NEW u, NEW v, Kin(t, u), Kin(u, v)
    PROVE  Kin(t, v)
BY DEF Kin

(* Times that are put off by nothing stay.                                  *)
LEMMA AffectedIs ==
    ASSUME NEW t \in Tween, clock \in Nat, OnTime(t), NEW op
    PROVE  /\ Affected(op, t) \in Tween /\ Kin(t, Affected(op, t)) /\ OnTime(Affected(op, t))
           /\ Affected(op, t).props = t.props /\ Affected(op, t).completed = t.completed
<1>1. /\ t.timePaused \in Nat /\ t.timeStart \in Nat /\ t.timeComplete \in Nat
      /\ t.isPaused \in BOOLEAN /\ t.moved \in BOOLEAN
    BY DEF Tween
<1>2. Kin(t, t)
    BY KinSame
<1>3. /\ Paused(t) \in Tween /\ Kin(t, Paused(t)) /\ OnTime(Paused(t))
      /\ Paused(t).props = t.props /\ Paused(t).completed = t.completed
    <2>1. CASE t.isPaused
        BY <2>1, <1>2 DEF Paused
    <2>2. CASE ~t.isPaused
        <3> DEFINE u == [t EXCEPT !.isPaused = TRUE, !.timePaused = clock]
        <3>1. /\ u \in Tween /\ u.scope = t.scope /\ u.props = t.props /\ u.moved = t.moved
              /\ u.timeStart = t.timeStart /\ u.timeComplete = t.timeComplete
              /\ u.timePaused = clock /\ u.completed = t.completed
            BY DEF Tween
        <3>2. Paused(t) = u
            BY <2>2 DEF Paused
        <3> HIDE DEF u
        <3> QED
            BY <3>1, <3>2 DEF Kin, OnTime
    <2> QED
        BY <2>1, <2>2, <1>1
<1>4. /\ Resumed(t) \in Tween /\ Kin(t, Resumed(t)) /\ OnTime(Resumed(t))
      /\ Resumed(t).props = t.props /\ Resumed(t).completed = t.completed
    <2>1. CASE ~t.isPaused
        BY <2>1, <1>2 DEF Resumed
    <2>2. CASE t.isPaused
        <3> DEFINE late == clock > t.timePaused
                   b == t.timeStart + clock - t.timePaused
                   e == t.timeComplete + clock - t.timePaused
                   m == t.moved \/ late
                   u == [t EXCEPT !.isPaused = FALSE, !.timePaused = 0, !.moved = m,
                                  !.timeStart = b, !.timeComplete = e]
        <3>1. t.timePaused <= clock
            BY <2>2 DEF OnTime
        <3>2. b \in Nat /\ e \in Nat /\ (~late => b = t.timeStart /\ e = t.timeComplete)
            BY <3>1, <1>1
        <3>3. m \in BOOLEAN /\ (~m => ~t.moved /\ ~late)
            BY <1>1
        <3>4. Resumed(t) = u
            BY <2>2 DEF Resumed
        <3> HIDE DEF b, e, m, late
        <3>5. /\ u \in Tween /\ u.scope = t.scope /\ u.props = t.props
              /\ u.moved = m /\ u.timeStart = b /\ u.timeComplete = e
              /\ u.isPaused = FALSE /\ u.completed = t.completed
            BY <3>2, <3>3 DEF Tween
        <3> HIDE DEF u
        <3> QED
            BY <3>2, <3>3, <3>4, <3>5 DEF Kin, OnTime
    <2> QED
        BY <2>1, <2>2, <1>1
<1> QED
    BY <1>2, <1>3, <1>4 DEF Affected

LEMMA PartIs ==
    ASSUME NEW t \in Tween, NEW props, OnTime(t)
    PROVE  /\ Part(t, props) \in Tween /\ Rest(t, props) \in Tween
           /\ Kin(t, Part(t, props)) /\ Kin(t, Rest(t, props))
           /\ OnTime(Part(t, props)) /\ OnTime(Rest(t, props))
           /\ Part(t, props).props \subseteq props /\ Rest(t, props).props \cap props = {}
           /\ Part(t, props).completed = 0 /\ Rest(t, props).completed = t.completed
<1> DEFINE in == t.props \cap props
           out == t.props \ props
           u == [t EXCEPT !.props = in, !.completed = 0]
           v == [t EXCEPT !.props = out]
<1>1. in \in SUBSET Props /\ out \in SUBSET Props
    BY DEF Tween
<1>2. in \subseteq props /\ out \cap props = {} /\ in \subseteq t.props /\ out \subseteq t.props
    OBVIOUS
<1>3. Part(t, props) = u /\ Rest(t, props) = v
    BY DEF Part, Rest
<1> HIDE DEF in, out
<1>4. /\ u \in Tween /\ u.scope = t.scope /\ u.props = in /\ u.moved = t.moved
      /\ u.timeStart = t.timeStart /\ u.timeComplete = t.timeComplete
      /\ u.isPaused = t.isPaused /\ u.timePaused = t.timePaused /\ u.completed = 0
    BY <1>1 DEF Tween
<1>5. /\ v \in Tween /\ v.scope = t.scope /\ v.props = out /\ v.moved = t.moved
      /\ v.timeStart = t.timeStart /\ v.timeComplete = t.timeComplete
      /\ v.isPaused = t.isPaused /\ v.timePaused = t.timePaused /\ v.completed = t.completed
    BY <1>1 DEF Tween
<1> HIDE DEF u, v
<1> QED
    BY <1>2, <1>3, <1>4, <1>5 DEF Kin, OnTime

(* What Affect() makes of n tweens and of a list of m, c of which it splits. *)
AffectedAs(n, m, split, c, props) ==
    /\ c \in Nat
    /\ \A k \in 1..c : Nth(split, k) \in split
    /\ \A j, k \in 1..c : j # k => Nth(split, j) # Nth(split, k)
    /\ tweens' \in Seq(Tween) /\ Len(tweens') = n + c
    /\ \A t \in 1..n :
          /\ Kin(tweens[t], tweens'[t]) /\ tweens'[t].completed = tweens[t].completed
          /\ (\A i \in 1..m : list[i] # t) => tweens'[t] = tweens[t]
    /\ \A i \in 1..m : list[i] # 0 => OnTime(tweens'[list[i]])
    /\ \A s \in split : tweens'[list[s]].props \cap props = {}
    /\ \A k \in 1..c : /\ Kin(tweens[list[Nth(split, k)]], tweens'[n + k])
                       /\ OnTime(tweens'[n + k])
                       /\ tweens'[n + k].props \subseteq props
                       /\ tweens'[n + k].completed = 0
    /\ list' \in Seq(0..(n + c)) /\ Len(list') = m + c
    /\ \A i \in 1..m : list'[i] = list[i] \/ list'[i] = 0
    /\ \A k \in 1..c : list'[m + k] = 0 \/ list'[m + k] = n + k

LEMMA AffectIs ==
    ASSUME TweenInv, NEW op, NEW H \in SUBSET Slots, \A i \in H : Live(i), NEW props,
           Affect(op, H, props)
    PROVE  AffectedAs(Len(tweens), Len(list), Splits(H, props),
                      Cardinality(Splits(H, props)), props)
<1> DEFINE n == Len(tweens)
           m == Len(list)
           split == Splits(H, props)
           c == Cardinality(split)
           whole == H \ split
           parted == Keep(list, split)
           now(t) == CASE \E i \in whole : list[i] = t -> Affected(op, tweens[t])
                       [] \E i \in split : list[i] = t -> Rest(tweens[t], props)
                       [] OTHER -> tweens[t]
           clone(k) == Affected(op, Part(tweens[parted[k]], props))
           cleared == Cleared(list, IF op = "remove" THEN whole ELSE {})
           more(k) == IF op = "remove" THEN 0 ELSE n + k
           olds == [t \in 1..n |-> now(t)]
           clones == [k \in 1..Len(parted) |-> clone(k)]
           new == [k \in 1..Len(parted) |-> more(k)]
<1>1. /\ tweens' = olds \o clones
      /\ list' = cleared \o new
    BY DEF Affect
<1>2. /\ tweens \in Seq(Tween) /\ list \in Seq(0..n)
      /\ n \in Nat /\ m \in Nat /\ clock \in Nat
      /\ \A t \in 1..n : tweens[t] \in Tween
      /\ \A i \in 1..m : list[i] \in 0..n
    BY Facts
<1> HIDE DEF n, m
<1>3. /\ split \in SUBSET (1..m) /\ split \subseteq H /\ H \subseteq 1..m
      /\ \A i \in H : list[i] # 0 /\ list[i] \in 1..n
    <2>1. split \subseteq H /\ H \subseteq 1..m
        BY DEF Splits, Slots, m
    <2>2. \A i \in H : list[i] # 0 /\ list[i] \in 0..n
        BY <2>1, <1>2 DEF Live
    <2>3. \A i \in H : list[i] \in 1..n
        BY <2>2, <1>2
    <2> HIDE DEF split
    <2> QED
        BY <2>1, <2>2, <2>3
<1> HIDE DEF split
<1>4. c \in Nat
    BY <1>2, <1>3, PositionsFinite
<1>5. /\ \A k \in 1..c : Nth(split, k) \in split /\ parted[k] = list[Nth(split, k)]
      /\ Len(parted) = c
    BY <1>2, <1>3, KeepItems DEF m
<1>6. \A j, k \in 1..c : j # k => Nth(split, j) # Nth(split, k)
    BY <1>2, <1>3, NthApart
<1> HIDE DEF c
<1>7. \A i \in 1..m : list[i] # 0 => OnTime(tweens[list[i]])
    BY DEF TweenInv, Sound, OnTime, m
<1> HIDE DEF parted
<1>8. \A s \in split : \A i \in whole : list[i] # list[s]
    <2> SUFFICES ASSUME NEW s \in split, NEW i \in whole
                 PROVE  list[i] # list[s]
        OBVIOUS
    <2>1. i # s /\ i \in 1..m /\ s \in 1..m /\ list[i] # 0 /\ list[s] # 0
        BY <1>3
    <2> QED
        BY <2>1 DEF TweenInv, Sound, m
<1>9. ASSUME NEW t \in 1..n
      PROVE  /\ now(t) \in Tween /\ Kin(tweens[t], now(t))
             /\ now(t).completed = tweens[t].completed
             /\ (\A i \in 1..m : list[i] # t) => now(t) = tweens[t]
             /\ (\E i \in 1..m : list[i] = t) => OnTime(now(t))
             /\ (\E s \in split : list[s] = t) => now(t).props \cap props = {}
    <2>1. CASE \E i \in whole : list[i] = t
        <3>1. PICK i \in whole : list[i] = t
            BY <2>1
        <3>2. i \in 1..m /\ list[i] # 0
            BY <3>1, <1>3
        <3>3. OnTime(tweens[t]) /\ tweens[t] \in Tween
            BY <3>1, <3>2, <1>2, <1>7
        <3>4. ~\E s \in split : list[s] = t
            BY <3>1, <1>8
        <3>5. now(t) = Affected(op, tweens[t])
            BY <2>1, <3>4
        <3>6. Affected(op, tweens[t]) \in Tween /\ Kin(tweens[t], Affected(op, tweens[t]))
              /\ OnTime(Affected(op, tweens[t]))
              /\ Affected(op, tweens[t]).completed = tweens[t].completed
            BY <3>3, <1>2, AffectedIs
        <3> HIDE DEF now, whole
        <3> QED
            BY <3>1, <3>2, <3>4, <3>5, <3>6
    <2>2. CASE (~\E i \in whole : list[i] = t) /\ \E i \in split : list[i] = t
        <3>1. PICK i \in split : list[i] = t
            BY <2>2
        <3>2. i \in 1..m /\ list[i] # 0
            BY <3>1, <1>3
        <3>3. OnTime(tweens[t]) /\ tweens[t] \in Tween
            BY <3>1, <3>2, <1>2, <1>7
        <3>4. now(t) = Rest(tweens[t], props)
            BY <2>2
        <3>5. /\ Rest(tweens[t], props) \in Tween /\ Kin(tweens[t], Rest(tweens[t], props))
              /\ OnTime(Rest(tweens[t], props)) /\ Rest(tweens[t], props).props \cap props = {}
              /\ Rest(tweens[t], props).completed = tweens[t].completed
            BY <3>3, PartIs
        <3> HIDE DEF now, whole
        <3> QED
            BY <3>1, <3>2, <3>4, <3>5
    <2>3. CASE (~\E i \in whole : list[i] = t) /\ ~\E i \in split : list[i] = t
        <3>1. now(t) = tweens[t]
            BY <2>3
        <3>2. tweens[t] \in Tween /\ Kin(tweens[t], tweens[t])
            BY <1>2, KinSame
        <3>3. (\E i \in 1..m : list[i] = t) => OnTime(tweens[t])
            BY <1>2, <1>7
        <3> HIDE DEF now, whole
        <3> QED
            BY <2>3, <3>1, <3>2, <3>3
    <2> QED
        BY <2>1, <2>2, <2>3
<1>10. ASSUME NEW k \in 1..c
       PROVE  /\ clone(k) \in Tween /\ Kin(tweens[list[Nth(split, k)]], clone(k))
              /\ OnTime(clone(k)) /\ clone(k).props \subseteq props /\ clone(k).completed = 0
    <2> DEFINE t == tweens[list[Nth(split, k)]]
    <2>1. Nth(split, k) \in 1..m /\ list[Nth(split, k)] \in 1..n /\ list[Nth(split, k)] # 0
        BY <1>3, <1>5
    <2>2. t \in Tween /\ OnTime(t)
        BY <2>1, <1>2, <1>7
    <2>3. clone(k) = Affected(op, Part(t, props))
        BY <1>5
    <2> HIDE DEF t, clone
    <2>4. /\ Part(t, props) \in Tween /\ OnTime(Part(t, props)) /\ Kin(t, Part(t, props))
          /\ Part(t, props).props \subseteq props /\ Part(t, props).completed = 0
        BY <2>2, PartIs
    <2>5. /\ clone(k) \in Tween /\ Kin(Part(t, props), clone(k)) /\ OnTime(clone(k))
          /\ clone(k).props = Part(t, props).props /\ clone(k).completed = 0
        BY <2>3, <2>4, <1>2, AffectedIs
    <2> QED
        BY <2>4, <2>5, KinOfKin DEF t
<1>11. /\ cleared \in Seq(0..n) /\ Len(cleared) = m
       /\ \A i \in 1..m : cleared[i] = list[i] \/ cleared[i] = 0
    <2> DEFINE slots == IF op = "remove" THEN whole ELSE {}
    <2>1. cleared = Cleared(list, slots)
        OBVIOUS
    <2> HIDE DEF slots, cleared, whole
    <2>2. n \in Nat /\ list \in Seq(0..n)
        BY <1>2
    <2>3. /\ Cleared(list, slots) \in Seq(0..n) /\ Len(Cleared(list, slots)) = Len(list)
          /\ \A i \in 1..Len(list) : Cleared(list, slots)[i] = IF i \in slots THEN 0 ELSE list[i]
        BY <2>2, ClearedIs
    <2> QED
        BY <2>1, <2>3 DEF m
<1> HIDE DEF now, clone, cleared, whole
<1>12. /\ olds \in Seq(Tween) /\ Len(olds) = n /\ \A t \in 1..n : olds[t] = now(t)
    <2>1. olds \in [1..n -> Tween]
        BY <1>9
    <2> QED
        BY <2>1, <1>2, SameLength
<1>13. /\ clones \in Seq(Tween) /\ Len(clones) = c /\ \A k \in 1..c : clones[k] = clone(k)
    <2>1. clones \in [1..c -> Tween]
        BY <1>5, <1>10
    <2> QED
        BY <2>1, <1>4, <1>5, SameLength
<1>14. /\ new \in Seq(0..(n + c)) /\ Len(new) = c
       /\ \A k \in 1..c : new[k] = 0 \/ new[k] = n + k
    <2>1. \A k \in 1..c : more(k) \in 0..(n + c) /\ (more(k) = 0 \/ more(k) = n + k)
        BY <1>2, <1>4
    <2> HIDE DEF more
    <2>2. new \in [1..c -> 0..(n + c)]
        BY <2>1, <1>5
    <2>3. \A k \in 1..c : new[k] = more(k)
        BY <1>5
    <2> QED
        BY <2>1, <2>2, <2>3, <1>4, SameLength
<1> HIDE DEF olds, clones, new
<1>15. /\ tweens' \in Seq(Tween) /\ Len(tweens') = n + c
       /\ \A t \in 1..n : tweens'[t] = now(t)
       /\ \A k \in 1..c : tweens'[n + k] = clone(k)
    <2>1. /\ tweens' \in Seq(Tween) /\ Len(tweens') = Len(olds) + Len(clones)
          /\ \A i \in 1..(Len(olds) + Len(clones)) : tweens'[i] =
                IF i <= Len(olds) THEN olds[i] ELSE clones[i - Len(olds)]
        BY <1>1, <1>12, <1>13, ConcatProperties
    <2>2. \A t \in 1..n : t \in 1..(n + c) /\ t <= n
        BY <1>2, <1>4
    <2>3. \A k \in 1..c : n + k \in 1..(n + c) /\ ~(n + k <= n) /\ (n + k) - n = k
        BY <1>2, <1>4
    <2>4. tweens' \in Seq(Tween) /\ Len(tweens') = n + c
        BY <2>1, <1>12, <1>13
    <2>5. \A i \in 1..(n + c) : tweens'[i] = IF i <= n THEN olds[i] ELSE clones[i - n]
        BY <2>1, <1>12, <1>13
    <2>6. \A t \in 1..n : tweens'[t] = now(t)
        BY <2>2, <2>5, <1>12
    <2>7. \A k \in 1..c : tweens'[n + k] = clone(k)
        BY <2>3, <2>5, <1>13
    <2> QED
        BY <2>4, <2>6, <2>7
<1>16. /\ list' \in Seq(0..(n + c)) /\ Len(list') = m + c
       /\ \A i \in 1..m : list'[i] = cleared[i]
       /\ \A k \in 1..c : list'[m + k] = new[k]
    <2>1. cleared \in Seq(0..(n + c))
        <3>1. 0..n \subseteq 0..(n + c)
            BY <1>2, <1>4
        <3> QED
            BY <3>1, <1>11, SeqMonotonic
    <2>2. /\ list' \in Seq(0..(n + c)) /\ Len(list') = Len(cleared) + Len(new)
          /\ \A i \in 1..(Len(cleared) + Len(new)) : list'[i] =
                IF i <= Len(cleared) THEN cleared[i] ELSE new[i - Len(cleared)]
        BY <2>1, <1>1, <1>14, ConcatProperties
    <2>3. \A i \in 1..m : i \in 1..(m + c) /\ i <= m
        BY <1>2, <1>4
    <2>4. \A k \in 1..c : m + k \in 1..(m + c) /\ ~(m + k <= m) /\ (m + k) - m = k
        BY <1>2, <1>4
    <2>5. list' \in Seq(0..(n + c)) /\ Len(list') = m + c
        BY <2>2, <1>11, <1>14
    <2>6. \A i \in 1..(m + c) : list'[i] = IF i <= m THEN cleared[i] ELSE new[i - m]
        BY <2>2, <1>11, <1>14
    <2>7. \A i \in 1..m : list'[i] = cleared[i]
        BY <2>3, <2>6
    <2>8. \A k \in 1..c : list'[m + k] = new[k]
        BY <2>4, <2>6
    <2> QED
        BY <2>5, <2>7, <2>8
<1>17. \A i \in 1..m : list[i] # 0 => OnTime(tweens'[list[i]])
    <2> SUFFICES ASSUME NEW i \in 1..m, list[i] # 0
                 PROVE  OnTime(tweens'[list[i]])
        OBVIOUS
    <2>1. list[i] \in 1..n
        BY <1>2
    <2>2. OnTime(now(list[i]))
        BY <2>1, <1>9
    <2> QED
        BY <2>1, <2>2, <1>15
<1>18. \A s \in split : tweens'[list[s]].props \cap props = {}
    BY <1>3, <1>9, <1>15
<1>19. \A t \in 1..n : /\ Kin(tweens[t], tweens'[t])
                       /\ tweens'[t].completed = tweens[t].completed
                       /\ (\A i \in 1..m : list[i] # t) => tweens'[t] = tweens[t]
    BY <1>9, <1>15
<1>20. \A k \in 1..c : /\ Kin(tweens[list[Nth(split, k)]], tweens'[n + k])
                       /\ OnTime(tweens'[n + k])
                       /\ tweens'[n + k].props \subseteq props
                       /\ tweens'[n + k].completed = 0
    BY <1>10, <1>15
<1>21. AffectedAs(n, m, split, c, props)
    BY <1>4, <1>5, <1>6, <1>11, <1>14, <1>15, <1>16, <1>17, <1>18, <1>19, <1>20 DEF AffectedAs
<1> QED
    BY <1>21 DEF n, m, split, c
(* The part that is split off and the one that is left have no property in  *)
(* common; any two others were two tweens before.                           *)
LEMMA AffectSound ==
    ASSUME TweenInv, NEW n, n = Len(tweens), NEW m, m = Len(list), NEW split, NEW c, NEW props,
           AffectedAs(n, m, split, c, props), clock' = clock,
           \A s \in split : s \in 1..m /\ list[s] # 0
    PROVE  Sound(tweens', list', clock')
<1> DEFINE org(i) == IF i <= m THEN i ELSE Nth(split, i - m)
<1>1. /\ n \in Nat /\ m \in Nat /\ clock \in Nat
      /\ \A i \in 1..m : list[i] \in 0..n
    BY Facts
<1>2. /\ c \in Nat
      /\ \A k \in 1..c : Nth(split, k) \in split
      /\ \A j, k \in 1..c : j # k => Nth(split, j) # Nth(split, k)
      /\ tweens' \in Seq(Tween) /\ Len(tweens') = n + c
      /\ list' \in Seq(0..(n + c)) /\ Len(list') = m + c
    BY DEF AffectedAs
<1>3. ASSUME NEW i \in 1..(m + c), list'[i] # 0
      PROVE  /\ org(i) \in 1..m /\ list[org(i)] \in 1..n /\ list[org(i)] # 0
             /\ Kin(tweens[list[org(i)]], tweens'[list'[i]])
             /\ OnTime(tweens'[list'[i]])
             /\ i <= m => org(i) = i /\ list'[i] = list[i]
             /\ i > m => /\ org(i) \in split /\ list'[i] = n + (i - m)
                         /\ tweens'[list'[i]].props \subseteq props
    <2>1. CASE i <= m
        <3>1. i \in 1..m /\ org(i) = i /\ ~(i > m)
            BY <2>1, <1>1, <1>2
        <3> HIDE DEF org
        <3>2. list'[i] = list[i]
            BY <1>3, <3>1 DEF AffectedAs
        <3>3. list[i] \in 1..n
            BY <1>1, <1>3, <3>1, <3>2
        <3> QED
            BY <1>3, <2>1, <3>1, <3>2, <3>3 DEF AffectedAs
    <2>2. CASE i > m
        <3> DEFINE k == i - m
        <3>1. k \in 1..c /\ i = m + k /\ ~(i <= m)
            BY <2>2, <1>1, <1>2
        <3>2. org(i) = Nth(split, k)
            BY <3>1
        <3> HIDE DEF org, k
        <3>3. org(i) \in split
            BY <3>1, <3>2, <1>2
        <3>4. list'[i] = n + k
            BY <1>3, <3>1 DEF AffectedAs
        <3>5. /\ Kin(tweens[list[org(i)]], tweens'[n + k]) /\ OnTime(tweens'[n + k])
              /\ tweens'[n + k].props \subseteq props
            BY <3>1, <3>2 DEF AffectedAs
        <3>6. org(i) \in 1..m /\ list[org(i)] # 0
            BY <3>3
        <3>7. list[org(i)] \in 1..n
            BY <3>6, <1>1
        <3> QED
            BY <2>2, <3>1, <3>3, <3>4, <3>5, <3>6, <3>7 DEF k
    <2>3. i <= m \/ i > m
        BY <1>1, <1>2
    <2> HIDE DEF org
    <2> QED
        BY <2>1, <2>2, <2>3
<1>4. ASSUME NEW i \in 1..(m + c), NEW j \in 1..(m + c), i < j, list'[i] # 0, list'[j] # 0
      PROVE  list'[i] # list'[j] /\ ~Conflict(tweens'[list'[i]], tweens'[list'[j]])
    <2>1. CASE org(i) # org(j)
        <3> HIDE DEF org
        <3>1. /\ list[org(i)] # list[org(j)]
              /\ ~Conflict(tweens[list[org(i)]], tweens[list[org(j)]])
            BY <2>1, <1>3, <1>4 DEF TweenInv, Sound
        <3>2. ~Conflict(tweens'[list'[i]], tweens'[list'[j]])
            BY <3>1, <1>3, <1>4, KinConflict
        <3>3. list'[i] # list'[j]
            <4>1. CASE j <= m
                <5>1. i <= m
                    BY <4>1, <1>4, <1>1, <1>2
                <5> QED
                    BY <4>1, <5>1, <3>1, <1>3, <1>4
            <4>2. CASE i <= m /\ j > m
                <5>1. list'[i] \in 1..n
                    BY <4>2, <1>3, <1>4
                <5>2. list'[j] = n + (j - m)
                    BY <4>2, <1>3, <1>4
                <5> QED
                    BY <4>2, <5>1, <5>2, <1>1, <1>2
            <4>3. CASE i > m /\ j > m
                <5>1. list'[i] = n + (i - m) /\ list'[j] = n + (j - m)
                    BY <4>3, <1>3, <1>4
                <5> QED
                    BY <5>1, <1>4, <1>1, <1>2
            <4>4. m \in Nat /\ c \in Nat
                BY <1>1, <1>2
            <4>5. j <= m \/ (i <= m /\ j > m) \/ (i > m /\ j > m)
                BY <4>4
            <4> QED
                BY <4>1, <4>2, <4>3, <4>5
        <3> QED
            BY <3>2, <3>3
    <2>2. CASE org(i) = org(j)
        <3>1. j > m
            <4>1. CASE j <= m
                <5>1. i <= m
                    BY <4>1, <1>4, <1>1, <1>2
                <5>2. org(i) = i /\ org(j) = j
                    BY <4>1, <5>1
                <5> QED
                    BY <5>2, <2>2, <1>4
            <4> QED
                BY <4>1, <1>1, <1>2
        <3>2. i <= m
            <4>1. CASE i > m
                <5>1. i - m \in 1..c /\ j - m \in 1..c /\ i - m # j - m /\ ~(i <= m) /\ ~(j <= m)
                    BY <4>1, <3>1, <1>4, <1>1, <1>2
                <5>2. org(i) = Nth(split, i - m) /\ org(j) = Nth(split, j - m)
                    BY <5>1
                <5> QED
                    BY <5>1, <5>2, <2>2, <1>2
            <4> QED
                BY <4>1, <1>1, <1>2
        <3> HIDE DEF org
        <3>3. list'[i] = list[i] /\ org(i) = i /\ list[i] \in 1..n
            BY <3>2, <1>3, <1>4
        <3>4. /\ i \in split /\ list'[j] = n + (j - m)
              /\ tweens'[list'[j]].props \subseteq props
            BY <3>1, <3>3, <2>2, <1>3, <1>4
        <3>5. tweens'[list'[i]].props \cap props = {}
            BY <3>3, <3>4 DEF AffectedAs
        <3>6. tweens'[list'[i]].props \cap tweens'[list'[j]].props = {}
            BY <3>4, <3>5
        <3>7. ~Conflict(tweens'[list'[i]], tweens'[list'[j]])
            BY <3>6 DEF Conflict
        <3>8. list'[i] # list'[j]
            BY <3>1, <3>3, <3>4, <1>1, <1>2
        <3> QED
            BY <3>7, <3>8
    <2> QED
        BY <2>1, <2>2
<1> HIDE DEF org
<1>5. ASSUME NEW i \in 1..(m + c), NEW j \in 1..(m + c), i # j, list'[i] # 0, list'[j] # 0
      PROVE  list'[i] # list'[j] /\ ~Conflict(tweens'[list'[i]], tweens'[list'[j]])
    <2>1. CASE i < j
        BY <2>1, <1>4, <1>5
    <2>2. CASE j < i
        <3>1. list'[j] # list'[i] /\ ~Conflict(tweens'[list'[j]], tweens'[list'[i]])
            BY <2>2, <1>4, <1>5
        <3> QED
            BY <3>1, ConflictSymmetric
    <2> QED
        BY <2>1, <2>2, <1>5, <1>1, <1>2
<1>6. \A i \in 1..(m + c) : list'[i] # 0 /\ tweens'[list'[i]].isPaused =>
         tweens'[list'[i]].timePaused <= clock
    BY <1>3 DEF OnTime
<1> QED
    BY <1>1, <1>2, <1>5, <1>6 DEF Sound

LEMMA AffectSoft ==
    ASSUME TweenInv, NEW n, n = Len(tweens), NEW m, m = Len(list), NEW split, NEW c, NEW props,
           AffectedAs(n, m, split, c, props)
    PROVE  Softer(tweens, list, tweens', list') /\ \A k : Fresh(k)
<1>1. n \in Nat /\ m \in Nat /\ c \in Nat
    BY Facts DEF AffectedAs
<1>2. /\ Len(tweens') = n + c /\ Len(list') = m + c
      /\ \A t \in 1..n : /\ Kin(tweens[t], tweens'[t])
                         /\ (\A i \in 1..m : list[i] # t) => tweens'[t] = tweens[t]
      /\ \A i \in 1..m : list'[i] = list[i] \/ list'[i] = 0
      /\ \A k \in 1..c : list'[m + k] = 0 \/ list'[m + k] = n + k
    BY DEF AffectedAs
<1>3. n <= Len(tweens') /\ m <= Len(list')
    BY <1>1, <1>2
<1>4. Softer(tweens, list, tweens', list')
    BY <1>2, <1>3 DEF Softer
<1>5. ASSUME NEW i \in 1..Len(list'), i > m, list'[i] # 0
      PROVE  list'[i] > n
    <2> DEFINE k == i - m
    <2>1. k \in 1..c /\ m + k = i
        BY <1>1, <1>2, <1>5
    <2> HIDE DEF k
    <2>2. list'[i] = n + k
        BY <1>2, <1>5, <2>1
    <2> QED
        BY <1>1, <2>1, <2>2
<1> QED
    BY <1>4, <1>5 DEF Fresh

LEMMA AffectStep ==
    ASSUME TweenInv, UserCode, NEW op, NEW H \in SUBSET Slots, \A i \in H : Live(i), NEW props,
           Affect(op, H, props), UNCHANGED <<engine, clock, stack>>, engine
    PROVE  TweenInv'
<1> DEFINE n == Len(tweens)
           m == Len(list)
           split == Splits(H, props)
           c == Cardinality(split)
<1>1. AffectedAs(n, m, split, c, props)
    BY AffectIs
<1>2. \A s \in split : s \in 1..m /\ list[s] # 0
    BY DEF Splits, Slots, Live
<1> HIDE DEF split, c
<1>3. Sound(tweens', list', clock')
    BY <1>1, <1>2, AffectSound
<1>4. Softer(tweens, list, tweens', list') /\ \A k : Fresh(k)
    BY <1>1, AffectSoft
<1>5. Len(stack) \in Nat /\ n \in Nat /\ Len(tweens') \in Nat /\ n <= Len(tweens')
      /\ stack \in Seq(ActivationTo(n))
    BY <1>1, Facts DEF AffectedAs
<1>6. stack' \in Seq(ActivationTo(Len(tweens')))
    BY <1>5, StackGrows
<1>7. \A d \in 1..Len(stack') : ~(d > Len(stack))
    BY <1>5
<1>8. Len(stack) \in 0..Len(stack)
    BY <1>5
<1> QED
    BY <1>3, <1>4, <1>6, <1>7, <1>8, Restacked

LEMMA AffectTweensStep ==
    ASSUME TweenInv, NEW op, NEW scopes, NEW props, AffectTweens(op, scopes, props)
    PROVE  TweenInv'
<1>1. PICK k \in 1..Len(scopes) : /\ Hits(scopes[k], props) # {}
                                  /\ Affect(op, Hits(scopes[k], props), props)
    BY DEF AffectTweens
<1> DEFINE H == Hits(scopes[k], props)
<1>2. H \in SUBSET Slots /\ \A i \in H : Live(i)
    BY DEF Hits, Walked
<1>3. engine
    <2> SUFFICES ASSUME ~engine PROVE FALSE
        OBVIOUS
    <2>1. list = << >>
        BY DEF TweenInv
    <2>2. Slots = {}
        BY <2>1 DEF Slots
    <2> QED
        BY <2>2, <1>1, <1>2
<1>4. UserCode /\ UNCHANGED <<engine, clock, stack>>
    BY DEF AffectTweens
<1>5. Affect(op, H, props)
    BY <1>1
<1> HIDE DEF H
<1> QED
    BY <1>2, <1>3, <1>4, <1>5, AffectStep

LEMMA AffectAllStep ==
    ASSUME TweenInv, NEW op, AffectAll(op)
    PROVE  TweenInv'
<1> DEFINE H == {i \in Slots : Live(i)}
<1>1. /\ H \in SUBSET Slots /\ \A i \in H : Live(i)
      /\ Affect(op, H, {}) /\ UserCode /\ UNCHANGED <<engine, clock, stack>>
    BY DEF AffectAll
<1>2. CASE engine
    <2> HIDE DEF H
    <2> QED
        BY <1>1, <1>2, AffectStep
<1>3. CASE ~engine
    <2>1. list = << >> /\ stack = << >> /\ Slots = {}
        BY <1>3 DEF TweenInv, Slots
    <2>2. H = {}
        BY <2>1
    <2> HIDE DEF H
    <2> DEFINE n == Len(tweens)
               split == Splits(H, {})
               c == Cardinality(split)
    <2>3. split = {}
        BY DEF Splits
    <2>4. c = 0
        BY <2>3, FS_EmptySet
    <2>5. AffectedAs(n, Len(list), split, c, {})
        BY <1>1, AffectIs
    <2> HIDE DEF c, split
    <2>6. Sound(tweens', list', clock')
        BY <2>3, <2>5, <1>1, AffectSound
    <2>7. list' \in Seq(0..(n + c)) /\ Len(list') = Len(list) + c
        BY <2>5 DEF AffectedAs
    <2>8. list' = << >>
        BY <2>1, <2>4, <2>7
    <2>9. stack' = << >>
        BY <2>1, <1>1
    <2> QED
        BY <2>6, <2>8, <2>9 DEF TweenInv
<1> QED
    BY <1>2, <1>3
-----------------------------------------------------------------------------
LEMMA TweenInit == Init => TweenInv
<1> SUFFICES ASSUME Init PROVE TweenInv
    OBVIOUS
<1>1. tweens = << >> /\ list = << >> /\ stack = << >> /\ clock = 0 /\ engine = FALSE
    BY DEF Init
<1>2. Sound(tweens, list, clock)
    BY <1>1 DEF Sound
<1>3. stack \in Seq(ActivationTo(Len(tweens)))
    BY <1>1
<1>4. 1..Len(stack) = {}
    BY <1>1
<1> QED
    BY <1>1, <1>2, <1>3, <1>4 DEF TweenInv

LEMMA TweenNext == TweenInv /\ [Next]_vars => TweenInv'
<1> SUFFICES ASSUME TweenInv, [Next]_vars PROVE TweenInv'
    OBVIOUS
<1>1. CASE \E scopes \in Targets, r \in Requests : Add(scopes, r)
    BY <1>1, AddStep
<1>2. CASE \E op \in {"pause", "resume", "remove"}, scopes \in Targets, props \in Named :
              AffectTweens(op, scopes, props)
    BY <1>2, AffectTweensStep
<1>3. CASE \E op \in {"pause", "resume", "remove"} : AffectAll(op)
    BY <1>3, AffectAllStep
<1>4. CASE Frame
    BY <1>4, FrameStep
<1>5. CASE Running
    <2>1. CASE AddNext
        BY <2>1, AddNextStep
    <2>2. CASE AddDone
        BY <2>2, AddDoneStep
    <2>3. CASE Scan
        BY <2>3, ScanStep
    <2>4. CASE Push
        BY <2>4, PushStep
    <2>5. CASE Enter
        BY <2>5, EnterStep
    <2>6. CASE NotYet \/ SkipUpdate \/ CallNotDue
        BY <2>6, UpdateReturns
    <2>7. CASE SetProperties \/ CallDue
        BY <2>7, PlainSteps
    <2>8. CASE FrameUpdates
        BY <2>8, FrameUpdatesStep
    <2>9. CASE FramePasses
        BY <2>9, FramePassesStep
    <2>10. CASE FrameDrops
        BY <2>10, FrameDropsStep
    <2>11. CASE FrameDone
        BY <2>11, FrameDoneStep
    <2> QED
        BY <1>5, <2>1, <2>2, <2>3, <2>4, <2>5, <2>6, <2>7, <2>8, <2>9, <2>10, <2>11 DEF Running
<1>6. CASE CallbackReturns
    <2>1. CASE Overwrite
        BY <2>1, OverwriteStep
    <2>2. CASE OverwriteThrows
        BY <2>2, AddDoneStep
    <2>3. CASE Started
        BY <2>3, StartedStep
    <2>4. CASE Updated
        BY <2>4, UpdatedStep
    <2>5. CASE Completed
        BY <2>5, UpdateReturns
    <2>6. CASE CalledBack
        BY <2>6, CalledBackStep
    <2> QED
        BY <1>6, <2>1, <2>2, <2>3, <2>4, <2>5, <2>6 DEF CallbackReturns
<1>7. CASE UNCHANGED vars
    <2>1. /\ tweens' = tweens /\ list' = list /\ engine' = engine
          /\ clock' = clock /\ stack' = stack
        BY <1>7 DEF vars
    <2> QED
        BY <2>1 DEF TweenInv
<1> QED
    BY <1>1, <1>2, <1>3, <1>4, <1>5, <1>6, <1>7 DEF Next

(* What fits at each place of the stack always does (tweener.js: the walks  *)
(* of _updateTweens() and of removeTweensByTime(), the callbacks they make).*)
THEOREM TweensFit == Spec => []TweenInv
<1>1. Init => TweenInv
    BY TweenInit
<1>2. TweenInv /\ [Next]_vars => TweenInv'
    BY TweenNext
<1> QED
    BY <1>1, <1>2, PTL DEF Spec

(* The index that an update and its caller go on using is never another     *)
(* tween's (_updateTweenByIndex(): _removeTweenByIndex() keeps the slot).   *)
THEOREM SlotsStay == Spec => []SlotStays
<1>1. TweenInv => SlotStays
    <2> SUFFICES ASSUME TweenInv, NEW d \in 1..Len(stack), stack[d].in = "update"
                 PROVE  stack[d].i \in Slots /\ list[stack[d].i] \in {stack[d].tween, 0}
        BY DEF SlotStays
    <2> QED
        BY DEF TweenInv, Fits, UpdateFits, Slots
<1> QED
    BY <1>1, TweensFit, PTL

(* A frame comes to every tween of the list once, whatever its callbacks    *)
(* add to the list and take out of it (_updateTweens()).                    *)
THEOREM FramesComeToEachOnce == Spec => []EachOncePerFrame
<1>1. TweenInv => EachOncePerFrame
    <2> SUFFICES ASSUME TweenInv, NEW d \in 1..Len(stack), stack[d].in = "frame",
                        NEW i \in Slots, Live(i)
                 PROVE  IF i < stack[d].i THEN list[i] \in stack[d].seen
                        ELSE i > stack[d].i => list[i] \notin stack[d].seen
        BY DEF EachOncePerFrame
    <2> QED
        BY DEF TweenInv, Fits, FrameFits, Slots, Live
<1> QED
    BY <1>1, TweensFit, PTL

(* No two tweens in the list move the same property of the same object at   *)
(* the same time, unless one has been put off by a resume                   *)
(* (removeTweensByTime(), _splitTweens()).                                  *)
THEOREM OneTweenDrives == Spec => []OneDriver
<1>1. TweenInv => OneDriver
    <2> SUFFICES ASSUME TweenInv, NEW i \in Slots, NEW j \in Slots, i < j, Live(i), Live(j),
                        TweenAt(i).scope = TweenAt(j).scope
                 PROVE  \/ TweenAt(i).props \cap TweenAt(j).props = {}
                        \/ ~Meet(TweenAt(i), TweenAt(j))
                        \/ TweenAt(i).moved \/ TweenAt(j).moved
        BY DEF OneDriver
    <2>1. i \in 1..Len(list) /\ j \in 1..Len(list) /\ i # j /\ list[i] # 0 /\ list[j] # 0
        BY Facts DEF Slots, Live
    <2>2. ~Conflict(tweens[list[i]], tweens[list[j]])
        BY <2>1 DEF TweenInv, Sound
    <2> QED
        BY <2>2 DEF Conflict, TweenAt
<1> QED
    BY <1>1, TweensFit, PTL

(* The clock and the engine, which few steps touch.                         *)
Timed == clock \in 0..MaxTime /\ engine \in BOOLEAN

LEMMA TimedStep == Timed /\ [Next]_vars => Timed'
<1> SUFFICES ASSUME Timed, [Next]_vars PROVE Timed'
    OBVIOUS
<1>1. CASE Frame
    <2>1. (clock' = 0 \/ clock' = Tick) /\ (engine' = FALSE \/ engine' = engine)
        BY <1>1 DEF Frame
    <2>2. clock' \in 0..MaxTime
        BY <2>1, BoundsAssumption DEF Tick, Timed
    <2> QED
        BY <2>1, <2>2 DEF Timed
<1>2. CASE ~Frame
    <2>1. clock' = clock /\ (engine' = TRUE \/ engine' = engine)
        BY <1>2 DEF Next, vars, Add, AffectTweens, AffectAll, Running, CallbackReturns,
              AddNext, AddDone, Scan, Push, Enter, NotYet, SetProperties, SkipUpdate, CallDue,
              CallNotDue, FrameUpdates, FramePasses, FrameDrops, FrameDone,
              Overwrite, OverwriteThrows, Started, Updated, Completed, CalledBack, Complete
    <2> QED
        BY <2>1 DEF Timed
<1> QED
    BY <1>1, <1>2

(* The variables have their types.                                          *)
THEOREM TweensTyped == Spec => []TypeOK
<1>1. Init => Timed
    <2> SUFFICES ASSUME Init PROVE Timed
        OBVIOUS
    <2>1. clock \in 0..MaxTime
        BY BoundsAssumption DEF Init
    <2>2. engine \in BOOLEAN
        BY Zenon DEF Init
    <2> QED
        BY <2>1, <2>2 DEF Timed
<1>2. Timed /\ [Next]_vars => Timed'
    BY TimedStep
<1>3. TweenInv /\ Timed => TypeOK
    BY DEF TweenInv, Sound, TypeOK, Activation, ActivationTo, Timed
<1> QED
    BY <1>1, <1>2, <1>3, TweensFit, PTL DEF Spec
-----------------------------------------------------------------------------
(* What the stack holds after a step, whatever the function on top becomes. *)
LEMMA AnyPushed ==
    ASSUME NEW T, NEW S \in Seq(T), NEW a
    PROVE  /\ Len(S) \in Nat /\ Len(Append(S, a)) = Len(S) + 1
           /\ Append(S, a)[Len(S) + 1] = a
           /\ \A d \in 1..Len(S) : Append(S, a)[d] = S[d]
           /\ Append(S, a) \in Seq(T \cup {a})
<1>1. S \in Seq(T \cup {a}) /\ a \in T \cup {a}
    <2>1. T \subseteq T \cup {a}
        OBVIOUS
    <2> QED
        BY <2>1, SeqMonotonic
<1> QED
    BY <1>1, Pushed

LEMMA TopBecomes ==
    ASSUME TweenInv, stack # << >>, NEW a, stack' = Append(Under, a)
    PROVE  /\ Len(stack) \in Nat \ {0} /\ Len(stack') = Len(stack) /\ stack'[Len(stack)] = a
           /\ \A d \in 1..(Len(stack) - 1) : stack'[d] = stack[d]
<1> DEFINE l == Len(stack)
           U == Under
<1>1. /\ l \in Nat \ {0} /\ Len(U) = l - 1 /\ \A d \in 1..(l - 1) : U[d] = stack[d]
      /\ U \in Seq(ActivationTo(Len(tweens)))
    BY TopIs
<1>2. stack' = Append(U, a)
    OBVIOUS
<1> HIDE DEF l, U
<1>3. /\ Len(stack') = Len(U) + 1 /\ stack'[Len(U) + 1] = a
      /\ \A d \in 1..Len(U) : stack'[d] = U[d]
    BY <1>1, <1>2, AnyPushed
<1>4. Len(U) + 1 = l
    BY <1>1
<1> QED
    BY <1>1, <1>3, <1>4 DEF l

LEMMA TopGoes ==
    ASSUME TweenInv, stack # << >>, stack' = Under
    PROVE  /\ Len(stack) \in Nat \ {0} /\ Len(stack') = Len(stack) - 1
           /\ \A d \in 1..(Len(stack) - 1) : stack'[d] = stack[d]
BY TopIs

LEMMA CallerBecomes ==
    ASSUME TweenInv, stack # << >>, Len(stack) > 1, NEW a, stack' = Append(Front(Under), a)
    PROVE  /\ Len(stack) \in Nat \ {0} /\ Len(stack') = Len(stack) - 1
           /\ stack'[Len(stack) - 1] = a
           /\ \A d \in 1..(Len(stack) - 2) : stack'[d] = stack[d]
<1> DEFINE l == Len(stack)
           U == Front(Under)
<1>1. /\ l \in Nat \ {0} /\ l > 1 /\ Len(U) = l - 2 /\ \A d \in 1..(l - 2) : U[d] = stack[d]
      /\ U \in Seq(ActivationTo(Len(tweens)))
    BY CallerIs, TopIs
<1>2. stack' = Append(U, a)
    OBVIOUS
<1> HIDE DEF l, U
<1>3. /\ Len(stack') = Len(U) + 1 /\ stack'[Len(U) + 1] = a
      /\ \A d \in 1..Len(U) : stack'[d] = U[d]
    BY <1>1, <1>2, AnyPushed
<1>4. Len(U) + 1 = l - 1
    BY <1>1
<1> QED
    BY <1>1, <1>3, <1>4 DEF l

LEMMA TopCalls ==
    ASSUME TweenInv, stack # << >>, NEW a, NEW b, stack' = Append(Append(Under, a), b)
    PROVE  /\ Len(stack) \in Nat \ {0} /\ Len(stack') = Len(stack) + 1
           /\ stack'[Len(stack)] = a /\ stack'[Len(stack) + 1] = b
           /\ \A d \in 1..(Len(stack) - 1) : stack'[d] = stack[d]
<1> DEFINE l == Len(stack)
           U == Under
           V == Append(U, a)
<1>1. /\ l \in Nat \ {0} /\ Len(U) = l - 1 /\ \A d \in 1..(l - 1) : U[d] = stack[d]
      /\ U \in Seq(ActivationTo(Len(tweens)))
    BY TopIs
<1>2. stack' = Append(V, b)
    OBVIOUS
<1> HIDE DEF l, U
<1>3. /\ Len(V) = Len(U) + 1 /\ V[Len(U) + 1] = a
      /\ \A d \in 1..Len(U) : V[d] = U[d]
      /\ V \in Seq(ActivationTo(Len(tweens)) \cup {a})
    BY <1>1, AnyPushed
<1>4. Len(U) + 1 = l
    BY <1>1
<1> HIDE DEF V
<1>5. /\ Len(stack') = Len(V) + 1 /\ stack'[Len(V) + 1] = b
      /\ \A d \in 1..Len(V) : stack'[d] = V[d]
    BY <1>2, <1>3, AnyPushed
<1>6. Len(V) = l /\ l \in 1..l /\ \A d \in 1..(l - 1) : d \in 1..l /\ d \in 1..Len(U)
    BY <1>1, <1>3, <1>4
<1> QED
    BY <1>1, <1>3, <1>4, <1>5, <1>6 DEF l

(* A step of the functions that begin no update and complete no tween.      *)
Same(a, b) == a.in = b.in /\ a.tween = b.tween /\ (a.in = "update" => a.i = b.i)

Carried ==
    /\ \A d \in 1..Len(stack') : Busy(stack'[d]) =>
          \/ d \in 1..Len(stack) /\ Busy(stack[d]) /\ Same(stack'[d], stack[d])
          \/ stack'[d].in = "add" /\ stack'[d].tween > Len(tweens)
    /\ \A d \in 1..Len(stack) : Completing(stack[d]) =>
          d \in 1..Len(stack') /\ Completing(stack'[d]) /\ Same(stack'[d], stack[d])

Listed ==
    \A i \in 1..Len(list') : list'[i] # 0 =>
       \/ list'[i] > Len(tweens)
       \/ i \in 1..Len(list) /\ list'[i] = list[i]
       \/ /\ \E j \in 1..Len(list) : list'[i] = list[j]
          /\ \A d \in 1..Len(stack') : stack'[d].in # "update"

Counted ==
    \A t \in 1..Len(tweens') :
       tweens'[t].completed = IF t <= Len(tweens) THEN tweens[t].completed ELSE 0

LEMMA BusyIs ==
    ASSUME TweenInv, NEW d \in 1..Len(stack), Busy(stack[d])
    PROVE  stack[d].tween \in 1..Len(tweens)
<1>1. stack[d] \in ActivationTo(Len(tweens)) /\ Fits(tweens, list, stack, d) /\ Len(tweens) \in Nat
    BY Facts DEF TweenInv
<1>2. stack[d].tween # 0
    BY <1>1 DEF Busy, Fits, UpdateFits, PendingFits
<1>3. stack[d].tween \in 0..Len(tweens)
    BY <1>1 DEF ActivationTo
<1> QED
    BY <1>1, <1>2, <1>3

LEMMA FinishKept ==
    ASSUME TweenInv, FinishInv, TweenInv', Carried, Listed, Counted
    PROVE  FinishInv'
<1> DEFINE n == Len(tweens)
<1>1. /\ n \in Nat /\ Len(tweens') \in Nat
      /\ \A d \in 1..Len(stack) : Busy(stack[d]) => stack[d].tween \in 1..n
    <2>1. n \in Nat /\ \A d \in 1..Len(stack) : Busy(stack[d]) => stack[d].tween \in 1..n
        BY Facts, BusyIs
    <2>2. tweens' \in Seq(Tween)
        BY DEF TweenInv, Sound
    <2> QED
        BY <2>1, <2>2, LenProperties
<1>2. \A d \in 1..Len(stack') : Busy(stack'[d]) => stack'[d].tween # 0
    BY DEF TweenInv, Fits, Busy, UpdateFits, PendingFits
<1> HIDE DEF n
<1>3. ASSUME NEW d \in 1..Len(stack'), stack'[d].in = "update"
      PROVE  /\ d \in 1..Len(stack) /\ stack[d].in = "update" /\ stack'[d].tween = stack[d].tween
             /\ stack'[d].i = stack[d].i /\ stack'[d].tween \in 1..n
    BY <1>1, <1>3 DEF Carried, Busy, Same
<1>4. UpdatesApart'
    <2> SUFFICES ASSUME NEW d \in 1..Len(stack'), NEW e \in 1..Len(stack'),
                        stack'[d].in = "update", d # e, Busy(stack'[e])
                 PROVE  stack'[d].tween # stack'[e].tween
        BY DEF UpdatesApart
    <2>1. /\ d \in 1..Len(stack) /\ stack[d].in = "update" /\ stack'[d].tween = stack[d].tween
          /\ stack'[d].tween \in 1..n
        BY <1>3
    <2>2. CASE e \in 1..Len(stack) /\ Busy(stack[e]) /\ Same(stack'[e], stack[e])
        BY <2>1, <2>2 DEF FinishInv, UpdatesApart, Same
    <2>3. CASE stack'[e].tween > Len(tweens)
        BY <2>1, <2>3, <1>1 DEF n
    <2> QED
        BY <2>2, <2>3 DEF Carried
<1>5. UpdatesAlone'
    <2> SUFFICES ASSUME NEW d \in 1..Len(stack'), NEW i \in 1..Len(list'),
                        stack'[d].in = "update", list'[i] = stack'[d].tween
                 PROVE  i = stack'[d].i
        BY DEF UpdatesAlone
    <2>1. /\ d \in 1..Len(stack) /\ stack[d].in = "update" /\ stack'[d].tween = stack[d].tween
          /\ stack'[d].tween \in 1..n /\ stack'[d].i = stack[d].i
        BY <1>3
    <2>2. list'[i] # 0 /\ ~(list'[i] > Len(tweens))
        BY <2>1, <1>1 DEF n
    <2>3. i \in 1..Len(list) /\ list'[i] = list[i]
        BY <2>2 DEF Listed
    <2> QED
        BY <2>1, <2>3 DEF FinishInv, UpdatesAlone
<1>6. Finishes'
    <2> SUFFICES ASSUME NEW t \in 1..Len(tweens'), tweens'[t].completed # 0
                 PROVE  /\ tweens'[t].completed = 1
                        /\ \/ \E d \in 1..Len(stack') :
                                 Completing(stack'[d]) /\ stack'[d].tween = t
                           \/ Finished(t)'
        BY DEF Finishes
    <2>1. t \in 1..n /\ tweens'[t].completed = tweens[t].completed
        BY <1>1 DEF Counted, n
    <2>2. tweens[t].completed = 1
        BY <2>1 DEF FinishInv, Finishes, n
    <2>3. CASE \E d \in 1..Len(stack) : Completing(stack[d]) /\ stack[d].tween = t
        BY <2>1, <2>2, <2>3 DEF Carried, Same
    <2>4. CASE Finished(t)
        <3>1. \A i \in 1..Len(list') : list'[i] # t
            <4> SUFFICES ASSUME NEW i \in 1..Len(list'), list'[i] = t PROVE FALSE
                OBVIOUS
            <4>1. list'[i] # 0 /\ ~(list'[i] > Len(tweens))
                BY <2>1, <1>1 DEF n
            <4>2. \E j \in 1..Len(list) : list[j] = t
                BY <4>1 DEF Listed
            <4> QED
                BY <4>2, <2>4 DEF Finished
        <3>2. \A d \in 1..Len(stack') : Busy(stack'[d]) => stack'[d].tween # t
            <4> SUFFICES ASSUME NEW d \in 1..Len(stack'), Busy(stack'[d]), stack'[d].tween = t
                         PROVE  FALSE
                OBVIOUS
            <4>1. ~(stack'[d].tween > Len(tweens))
                BY <2>1, <1>1 DEF n
            <4>2. d \in 1..Len(stack) /\ Busy(stack[d]) /\ stack[d].tween = t
                BY <4>1 DEF Carried, Same
            <4> QED
                BY <4>2, <2>4 DEF Finished
        <3> QED
            BY <3>1, <3>2, <2>1, <2>2 DEF Finished
    <2> QED
        BY <2>1, <2>2, <2>3, <2>4 DEF FinishInv, Finishes, n
<1> QED
    BY <1>4, <1>5, <1>6 DEF FinishInv
LEMMA ThinnedListed == ASSUME TweenInv, Thinned(list, list') PROVE Listed
<1>1. /\ Len(list') = Len(list)
      /\ \A i \in 1..Len(list) : list'[i] = list[i] \/ list'[i] = 0
    BY ThinnedIs
<1> QED
    BY <1>1 DEF Listed

LEMMA SameCounted == ASSUME TweenInv, tweens' = tweens PROVE Counted
BY Facts DEF Counted

LEMMA RetoppedKept ==
    ASSUME TweenInv, FinishInv, TweenInv', stack # << >>, NEW a, stack' = Append(Under, a),
           \/ ~Busy(a)
           \/ Busy(Top) /\ Same(a, Top)
           \/ a.in = "add" /\ a.tween > Len(tweens),
           ~Completing(Top), Listed, Counted
    PROVE  FinishInv'
<1> DEFINE l == Len(stack)
<1>1. /\ l \in Nat \ {0} /\ Len(stack') = l /\ stack'[l] = a
      /\ \A d \in 1..(l - 1) : stack'[d] = stack[d]
    BY TopBecomes
<1>2. Top = stack[l]
    BY TopIs
<1> HIDE DEF l
<1>3. \A d \in 1..l : d = l \/ d \in 1..(l - 1)
    BY <1>1
<1>4. Carried
    BY <1>1, <1>2, <1>3 DEF Carried, Same, l
<1> QED
    BY <1>4, FinishKept

LEMMA DroppedKept ==
    ASSUME TweenInv, FinishInv, TweenInv', stack # << >>, stack' = Under,
           ~Completing(Top), Listed, Counted
    PROVE  FinishInv'
<1> DEFINE l == Len(stack)
<1>1. /\ l \in Nat \ {0} /\ Len(stack') = l - 1
      /\ \A d \in 1..(l - 1) : stack'[d] = stack[d]
    BY TopGoes
<1>2. Top = stack[l]
    BY TopIs
<1> HIDE DEF l
<1>3. \A d \in 1..l : d = l \/ d \in 1..(l - 1)
    BY <1>1
<1>4. \A d \in 1..(l - 1) : d \in 1..l
    BY <1>1
<1>5. Carried
    BY <1>1, <1>2, <1>3, <1>4 DEF Carried, Same, l
<1> QED
    BY <1>5, FinishKept

LEMMA StackKept ==
    ASSUME TweenInv, FinishInv, TweenInv', stack' = stack, Listed, Counted
    PROVE  FinishInv'
<1>1. Carried
    BY DEF Carried, Same
<1> QED
    BY <1>1, FinishKept

LEMMA CalledKept ==
    ASSUME TweenInv, FinishInv, TweenInv', NEW a, stack' = Append(stack, a), ~Busy(a),
           Listed, Counted
    PROVE  FinishInv'
<1> DEFINE l == Len(stack)
<1>1. /\ l \in Nat /\ Len(stack') = l + 1 /\ stack'[l + 1] = a
      /\ \A d \in 1..l : stack'[d] = stack[d]
    BY AnyPushed, Facts
<1> HIDE DEF l
<1>2. \A d \in 1..(l + 1) : d = l + 1 \/ d \in 1..l
    BY <1>1
<1>3. \A d \in 1..l : d \in 1..(l + 1)
    BY <1>1
<1>4. Carried
    BY <1>1, <1>2, <1>3 DEF Carried, Same, l
<1> QED
    BY <1>4, FinishKept

(* A function that goes on with what it was at.                             *)
LEMMA GoesOnKept ==
    ASSUME TweenInv, FinishInv, TweenInv', stack # << >>, NEW a, stack' = Append(Under, a),
           a.in = Top.in, a.tween = Top.tween, a.i = Top.i, Busy(a) => Busy(Top),
           Top.at # "onComplete", Thinned(list, list'), Counted
    PROVE  FinishInv'
<1>1. Listed
    BY ThinnedListed
<1>2. ~Completing(Top)
    BY DEF Completing
<1> QED
    BY <1>1, <1>2, RetoppedKept DEF Same

LEMMA PointKept ==
    ASSUME TweenInv, FinishInv, TweenInv', stack # << >>, Top.in = "update",
           Top.at # "onComplete", NEW p, At(p), Thinned(list, list'), Counted
    PROVE  FinishInv'
<1> DEFINE a == [Top EXCEPT !.at = p]
<1>1. Top \in ActivationTo(Len(tweens))
    BY TopIs
<1>2. /\ stack' = Append(Under, a) /\ a.in = Top.in /\ a.tween = Top.tween /\ a.i = Top.i
    BY <1>1 DEF At, ActivationTo
<1>3. Busy(Top)
    BY DEF Busy
<1> HIDE DEF a
<1> QED
    BY <1>2, <1>3, GoesOnKept

(* What a return of an update leaves.                                       *)
LEMMA ReturnIs ==
    ASSUME TweenInv, stack # << >>, Top.in = "update", NEW keep \in BOOLEAN, Return(keep)
    PROVE  /\ \A d \in 1..Len(stack') : Busy(stack'[d]) =>
                 d \in 1..(Len(stack) - 1) /\ stack'[d] = stack[d]
           /\ \A d \in 1..(Len(stack) - 1) : Completing(stack[d]) =>
                 d \in 1..Len(stack') /\ stack'[d] = stack[d]
           /\ Listed
           /\ ~keep => \A i \in 1..Len(list') : list'[i] # 0 =>
                          \E j \in 1..Len(list) : j # Top.i /\ list[j] = list'[i]
<1> DEFINE K == Remaining(keep)
           l == Len(stack)
<1>1. Thinned(list, Emptied) /\ Thinned(list, K)
    BY DEF Thinned, Emptied, Remaining
<1>2. /\ l > 1 /\ Top.i \in 1..Len(list) /\ Caller.i = Top.i
    BY MineIs
<1>3. /\ l \in Nat \ {0} /\ Caller = stack[l - 1] /\ Caller \in ActivationTo(Len(tweens))
      /\ Len(tweens) \in Nat /\ list \in Seq(0..Len(tweens))
    BY <1>2, CallerIs, TopIs, Facts
<1>4. /\ Len(Emptied) = Len(list) /\ Emptied[Top.i] = 0
      /\ \A i \in 1..Len(list) : Emptied[i] = list[i] \/ Emptied[i] = 0
    BY <1>2, <1>3, ClearedIs DEF Emptied
<1>5. ~keep => K = Emptied
    BY DEF Remaining
<1>6. ASSUME NEW a, stack' = Append(Front(Under), a), ~Busy(a), ~Completing(Caller)
      PROVE  /\ \A d \in 1..Len(stack') : Busy(stack'[d]) =>
                   d \in 1..(l - 1) /\ stack'[d] = stack[d]
             /\ \A d \in 1..(l - 1) : Completing(stack[d]) =>
                   d \in 1..Len(stack') /\ stack'[d] = stack[d]
    <2>1. /\ Len(stack') = l - 1 /\ stack'[l - 1] = a
          /\ \A d \in 1..(l - 2) : stack'[d] = stack[d]
        BY <1>2, <1>6, CallerBecomes
    <2> HIDE DEF l
    <2>2. \A d \in 1..(l - 1) : d = l - 1 \/ d \in 1..(l - 2)
        BY <1>2, <1>3
    <2> QED
        BY <1>3, <1>6, <2>1, <2>2
<1>7. CASE ReturnToAdd
    <2> DEFINE a == [Caller EXCEPT !.at = "loop"]
    <2>1. /\ Caller.in = "add" /\ list' = Emptied /\ stack' = Append(Front(Under), a)
          /\ a.in = "add" /\ a.at = "loop"
        BY <1>3, <1>7 DEF ReturnToAdd, ActivationTo
    <2> HIDE DEF a
    <2>2. ~Busy(a) /\ ~Completing(Caller)
        BY <2>1 DEF Busy, Pending, Completing
    <2>3. Listed
        BY <2>1, <1>1, ThinnedListed
    <2>4. \A i \in 1..Len(list') : list'[i] # 0 =>
             \E j \in 1..Len(list) : j # Top.i /\ list[j] = list'[i]
        BY <2>1, <1>4
    <2> QED
        BY <2>1, <2>2, <2>3, <2>4, <1>6
<1>8. CASE ReturnToFrame(keep) /\ K[Caller.i] = 0
    <2>1. Caller.in = "frame" /\ list' = RemoveAt(K, Caller.i) /\ stack' = Under
        BY <1>8 DEF ReturnToFrame
    <2>2. /\ l = 2 /\ Len(stack') = 1 /\ stack'[1] = stack[1] /\ stack[1].in = "frame"
        BY <2>1, <1>2, FrameIsCaller
    <2>3. \A d \in 1..1 : d = 1
        OBVIOUS
    <2>4. /\ \A d \in 1..Len(stack') : stack'[d].in # "update" /\ ~Busy(stack'[d])
          /\ \A d \in 1..(l - 1) : ~Completing(stack[d])
        BY <2>2, <2>3 DEF Busy, Pending, Completing
    <2>5. /\ K \in Seq(0..Len(tweens)) /\ Len(K) = Len(list)
          /\ \A i \in 1..Len(list) : K[i] = list[i] \/ K[i] = 0
        BY <1>1, ThinnedIs
    <2>6. Len(list) \in Nat /\ Top.i \in 1..Len(K) /\ K[Top.i] = 0
        BY <1>2, <1>8, <2>5, Facts
    <2> HIDE DEF K, l
    <2>7. \A i \in 1..Len(list') : \E j \in 1..Len(K) : j # Top.i /\ list'[i] = K[j]
        <3>1. /\ Len(list') \in Nat
              /\ \A i \in 1..Len(list') :
                  /\ i < Top.i => i \in 1..Len(K) /\ list'[i] = K[i]
                  /\ i >= Top.i => i + 1 \in 1..Len(K) /\ list'[i] = K[i + 1]
            <4> DEFINE p == Top.i
                       n == Len(tweens)
            <4>1. list' = RemoveAt(K, p) /\ K \in Seq(0..n) /\ n \in Nat /\ p \in 1..Len(K)
                BY <2>1, <2>5, <2>6, <1>2, <1>3
            <4> HIDE DEF p, n
            <4>2. /\ Len(list') \in Nat
                  /\ \A i \in 1..Len(list') :
                      /\ i < p => i \in 1..Len(K) /\ list'[i] = K[i]
                      /\ i >= p => i + 1 \in 1..Len(K) /\ list'[i] = K[i + 1]
                BY <4>1, RemovedIs
            <4> QED
                BY <4>2 DEF p
        <3>2. Top.i \in Nat
            BY <1>2, <2>6
        <3> QED
            BY <3>1, <3>2
    <2>8. \A i \in 1..Len(list') : list'[i] # 0 =>
             \E j \in 1..Len(list) : j # Top.i /\ list[j] = list'[i]
        BY <2>5, <2>7
    <2>9. Listed
        BY <2>4, <2>8 DEF Listed
    <2> QED
        BY <2>4, <2>8, <2>9 DEF l
<1>9. CASE ReturnToFrame(keep) /\ K[Caller.i] # 0
    <2> DEFINE a == [Caller EXCEPT !.i = @ + 1]
    <2>1. /\ Caller.in = "frame" /\ list' = K /\ stack' = Append(Front(Under), a)
          /\ a.in = "frame"
        BY <1>3, <1>9 DEF ReturnToFrame, ActivationTo
    <2> HIDE DEF a
    <2>2. ~Busy(a) /\ ~Completing(Caller)
        BY <2>1 DEF Busy, Pending, Completing
    <2>3. Listed
        BY <2>1, <1>1, ThinnedListed
    <2>4. keep
        BY <1>2, <1>4, <1>5, <1>9
    <2> QED
        BY <2>1, <2>2, <2>3, <2>4, <1>6
<1> QED
    BY <1>7, <1>8, <1>9 DEF Return, ReturnToFrame

LEMMA ReturnKept ==
    ASSUME TweenInv, FinishInv, TweenInv', stack # << >>, Top.in = "update",
           Top.at # "onComplete", NEW keep \in BOOLEAN, Return(keep), Counted
    PROVE  FinishInv'
<1> DEFINE l == Len(stack)
<1>1. /\ \A d \in 1..Len(stack') : Busy(stack'[d]) => d \in 1..(l - 1) /\ stack'[d] = stack[d]
      /\ \A d \in 1..(l - 1) : Completing(stack[d]) =>
            d \in 1..Len(stack') /\ stack'[d] = stack[d]
      /\ Listed
    BY ReturnIs
<1>2. l \in Nat \ {0} /\ Top = stack[l]
    BY TopIs
<1> HIDE DEF l
<1>3. \A d \in 1..l : d = l \/ d \in 1..(l - 1)
    BY <1>2
<1>4. \A d \in 1..(l - 1) : d \in 1..l
    BY <1>2
<1>5. Carried
    BY <1>1, <1>2, <1>3, <1>4 DEF Carried, Same, Completing, l
<1> QED
    BY <1>1, <1>5, FinishKept
LEMMA OneCounted ==
    ASSUME TweenInv, NEW t \in 1..Len(tweens), NEW u, u.completed = tweens[t].completed,
           tweens' = [tweens EXCEPT ![t] = u]
    PROVE  Counted
<1> DEFINE n == Len(tweens)
<1>1. DOMAIN tweens = 1..n /\ n \in Nat
    BY Facts, LenProperties
<1>2. Len(tweens') = n
    BY <1>1, LenProperties, Facts, ExceptSeq
<1>3. \A s \in 1..n : tweens'[s] = IF s = t THEN u ELSE tweens[s]
    BY <1>1
<1>4. \A s \in 1..n : s <= n
    BY <1>1
<1> HIDE DEF n
<1>5. \A s \in 1..n : tweens'[s].completed = tweens[s].completed
    BY <1>3
<1> QED
    BY <1>2, <1>4, <1>5 DEF Counted, n

LEMMA AddsFinish ==
    ASSUME TweenInv, FinishInv, TweenInv',
           \/ \E scopes \in Targets, r \in Requests : Add(scopes, r)
           \/ AddNext \/ AddDone \/ OverwriteThrows \/ Scan
    PROVE  FinishInv'
<1>1. ASSUME NEW scopes \in Targets, NEW r \in Requests, Add(scopes, r)
      PROVE  FinishInv'
    <2> DEFINE w == <<r>>
               a == [Called("add", "loop", 0, 0) EXCEPT !.scopes = scopes, !.want = w]
    <2>1. /\ tweens' = tweens /\ stack' = Append(stack, a) /\ list' = list
        BY <1>1 DEF Add, TweenInv
    <2> HIDE DEF w
    <2>2. a.in = "add" /\ a.at = "loop"
        BY DEF Called
    <2> HIDE DEF a
    <2>3. ~Busy(a)
        BY <2>2 DEF Busy, Pending
    <2>4. Listed /\ Counted
        BY <2>1, ThinnedListed, SameCounted DEF Thinned
    <2> QED
        BY <2>1, <2>3, <2>4, CalledKept
<1>2. ASSUME AddNext
      PROVE  FinishInv'
    <2> DEFINE n == Len(tweens)
               m == n + 1
               u == Made(Head(Top.scopes), Want)
               p == IF Want.count > 0 THEN "push" ELSE "scan"
               a == [Top EXCEPT !.scopes = Tail(@), !.tween = m, !.i = 1, !.at = p]
    <2>1. /\ stack # << >> /\ Top.in = "add" /\ Top.at = "loop"
          /\ tweens' = Append(tweens, u) /\ stack' = Append(Under, a) /\ list' = list
        BY <1>2 DEF AddNext, In
    <2>2. Top \in ActivationTo(n) /\ n \in Nat /\ tweens \in Seq(Tween) /\ m > n
        BY <2>1, TopIs, Facts
    <2>3. u.completed = 0
        BY DEF Made
    <2> HIDE DEF u, p, m
    <2>4. a.in = "add" /\ a.tween = m
        BY <2>1, <2>2 DEF ActivationTo
    <2> HIDE DEF a, n
    <2>5. Counted
        <3>1. /\ Len(tweens') = n + 1 /\ tweens'[n + 1] = u
              /\ \A t \in 1..n : tweens'[t] = tweens[t]
            BY <2>1, <2>2, AnyPushed DEF n
        <3>2. \A t \in 1..(n + 1) : IF t <= n THEN t \in 1..n ELSE t = n + 1
            BY <2>2
        <3> QED
            BY <2>3, <3>1, <3>2 DEF Counted, n
    <2>6. Listed /\ ~Completing(Top)
        BY <2>1, ThinnedListed DEF Thinned, Completing
    <2> QED
        BY <2>1, <2>2, <2>4, <2>5, <2>6, RetoppedKept DEF n
<1>3. ASSUME AddDone \/ OverwriteThrows
      PROVE  FinishInv'
    <2>1. /\ stack # << >> /\ Top.in = "add" /\ stack' = Under /\ tweens' = tweens /\ list' = list
        BY <1>3 DEF AddDone, OverwriteThrows, In
    <2>2. Listed /\ Counted /\ ~Completing(Top)
        BY <2>1, ThinnedListed, SameCounted DEF Thinned, Completing
    <2> QED
        BY <2>1, <2>2, DroppedKept
<1>4. ASSUME Scan
      PROVE  FinishInv'
    <2>1. /\ stack # << >> /\ Top.in = "add" /\ Top.at = "scan" /\ tweens' = tweens /\ list' = list
        BY <1>4 DEF Scan, In
    <2>2. Top \in ActivationTo(Len(tweens))
        BY <2>1, TopIs
    <2>3. \E a : stack' = Append(Under, a) /\ a.in = Top.in /\ a.tween = Top.tween
        <3>1. stack' = Append(Under, [Top EXCEPT !.at = "push"])
              \/ stack' = Append(Under, [Top EXCEPT !.at = "onOverwrite"])
              \/ stack' = Append(Under, [Top EXCEPT !.i = @ + 1])
            BY <1>4 DEF Scan
        <3>2. /\ [Top EXCEPT !.at = "push"].in = Top.in
              /\ [Top EXCEPT !.at = "push"].tween = Top.tween
              /\ [Top EXCEPT !.at = "onOverwrite"].in = Top.in
              /\ [Top EXCEPT !.at = "onOverwrite"].tween = Top.tween
              /\ [Top EXCEPT !.i = @ + 1].in = Top.in
              /\ [Top EXCEPT !.i = @ + 1].tween = Top.tween
            BY <2>2 DEF ActivationTo
        <3> QED
            BY <3>1, <3>2
    <2>4. PICK a : stack' = Append(Under, a) /\ a.in = Top.in /\ a.tween = Top.tween
        BY <2>3
    <2>5. Same(a, Top) /\ Busy(Top) /\ ~Completing(Top)
        BY <2>1, <2>4 DEF Same, Busy, Pending, Completing
    <2>6. Listed /\ Counted
        BY <2>1, ThinnedListed, SameCounted DEF Thinned
    <2> QED
        BY <2>1, <2>4, <2>5, <2>6, RetoppedKept
<1> QED
    BY <1>1, <1>2, <1>3, <1>4

LEMMA OverwriteFinish ==
    ASSUME TweenInv, FinishInv, TweenInv', Overwrite
    PROVE  FinishInv'
<1> DEFINE t == list[Top.i]
           left == TweenAt(Top.i).props \ Mine.props
           u == [tweens[t] EXCEPT !.props = left]
           a == [Top EXCEPT !.at = "scan", !.i = @ + 1]
<1>1. /\ stack # << >> /\ Top.in = "add" /\ Top.at = "onOverwrite"
      /\ Top.i \in 1..Len(list) /\ t # 0
      /\ tweens' = [tweens EXCEPT ![t] = u]
      /\ list' = Cleared(list, IF left = {} THEN {Top.i} ELSE {})
      /\ stack' = Append(Under, a)
    BY DEF Overwrite, In, Slots, Live
<1>2. t \in 1..Len(tweens) /\ tweens[t] \in Tween /\ Top \in ActivationTo(Len(tweens))
    <2>1. t \in 0..Len(tweens) /\ Len(tweens) \in Nat
        BY <1>1, Facts
    <2> QED
        BY <1>1, <2>1, Facts, TopIs
<1> HIDE DEF left
<1>3. u.completed = tweens[t].completed
    BY <1>2 DEF Tween
<1>4. a.in = Top.in /\ a.tween = Top.tween
    BY <1>2 DEF ActivationTo
<1> HIDE DEF u, a, t
<1>5. Listed /\ Counted
    <2>1. Thinned(list, list')
        BY <1>1 DEF Thinned
    <2> QED
        BY <2>1, <1>1, <1>2, <1>3, ThinnedListed, OneCounted
<1>6. Same(a, Top) /\ Busy(Top) /\ ~Completing(Top)
    BY <1>1, <1>4 DEF Same, Busy, Pending, Completing
<1> QED
    BY <1>1, <1>5, <1>6, RetoppedKept

LEMMA AffectFinish ==
    ASSUME TweenInv, FinishInv, TweenInv',
           \/ \E op, scopes, props : AffectTweens(op, scopes, props)
           \/ \E op : AffectAll(op)
    PROVE  FinishInv'
<1> SUFFICES ASSUME NEW op, NEW H \in SUBSET Slots, \A i \in H : Live(i), NEW props,
                    Affect(op, H, props), stack' = stack
             PROVE  FinishInv'
    <2>1. ASSUME NEW op, NEW scopes, NEW props, AffectTweens(op, scopes, props)
          PROVE  FinishInv'
        <3>1. PICK k \in 1..Len(scopes) : Affect(op, Hits(scopes[k], props), props)
            BY <2>1 DEF AffectTweens
        <3> DEFINE H == Hits(scopes[k], props)
        <3>2. H \in SUBSET Slots /\ \A i \in H : Live(i)
            BY DEF Hits, Walked
        <3>3. Affect(op, H, props) /\ stack' = stack
            BY <2>1, <3>1 DEF AffectTweens
        <3> HIDE DEF H
        <3> QED
            BY <3>2, <3>3
    <2>2. ASSUME NEW op, AffectAll(op)
          PROVE  FinishInv'
        <3> DEFINE H == {i \in Slots : Live(i)}
        <3>1. H \in SUBSET Slots /\ (\A i \in H : Live(i)) /\ Affect(op, H, {}) /\ stack' = stack
            BY <2>2 DEF AffectAll
        <3> HIDE DEF H
        <3> QED
            BY <3>1
    <2> QED
        BY <2>1, <2>2
<1> DEFINE n == Len(tweens)
           m == Len(list)
           split == Splits(H, props)
           c == Cardinality(split)
<1>1. AffectedAs(n, m, split, c, props)
    BY AffectIs
<1> HIDE DEF split, c
<1>2. n \in Nat /\ m \in Nat /\ c \in Nat
    BY <1>1, Facts DEF AffectedAs
<1> HIDE DEF n, m
<1>3. \A t \in 1..(n + c) : IF t <= n THEN t \in 1..n ELSE t - n \in 1..c /\ n + (t - n) = t
    BY <1>2
<1>4. \A t \in 1..(m + c) : IF t <= m THEN t \in 1..m ELSE t - m \in 1..c /\ m + (t - m) = t
    BY <1>2
<1>5. Counted
    <2>1. Len(tweens') = n + c
        BY <1>1 DEF AffectedAs
    <2> SUFFICES ASSUME NEW t \in 1..(n + c)
                 PROVE  tweens'[t].completed = IF t <= n THEN tweens[t].completed ELSE 0
        BY <2>1 DEF Counted, n
    <2>2. CASE t <= n
        BY <2>2, <1>1, <1>3 DEF AffectedAs
    <2>3. CASE ~(t <= n)
        <3> DEFINE k == t - n
        <3>1. k \in 1..c /\ n + k = t
            BY <2>3, <1>3
        <3> HIDE DEF k
        <3> QED
            BY <2>3, <3>1, <1>1 DEF AffectedAs
    <2> QED
        BY <2>2, <2>3
<1>6. Listed
    <2>1. Len(list') = m + c
        BY <1>1 DEF AffectedAs
    <2> SUFFICES ASSUME NEW i \in 1..(m + c), list'[i] # 0
                 PROVE  list'[i] > n \/ (i \in 1..m /\ list'[i] = list[i])
        BY <2>1 DEF Listed, n, m
    <2>2. CASE i <= m
        BY <2>2, <1>1, <1>4 DEF AffectedAs
    <2>3. CASE ~(i <= m)
        <3> DEFINE k == i - m
        <3>1. k \in 1..c /\ m + k = i
            BY <2>3, <1>4
        <3> HIDE DEF k
        <3>2. list'[i] = n + k
            BY <3>1, <1>1 DEF AffectedAs
        <3> QED
            BY <3>1, <3>2, <1>2
    <2> QED
        BY <2>2, <2>3
<1> QED
    BY <1>5, <1>6, StackKept
(* A tween is completed for the first time: nothing else works on it.       *)
LEMMA CompleteKept ==
    ASSUME TweenInv, FinishInv, TweenInv', stack # << >>, Top.in = "update",
           Top.at # "onComplete", At("onComplete"), list' = list, Len(tweens') = Len(tweens),
           \A t \in 1..Len(tweens) :
              tweens'[t].completed = IF t = Top.tween THEN tweens[t].completed + 1
                                                      ELSE tweens[t].completed
    PROVE  FinishInv'
<1> DEFINE l == Len(stack)
           a == [Top EXCEPT !.at = "onComplete"]
<1>1. /\ Top = stack[l] /\ l \in 1..l /\ l \in Nat \ {0}
      /\ Top \in ActivationTo(Len(tweens))
    BY TopIs
<1>2. /\ stack' = Append(Under, a) /\ a.in = "update" /\ a.at = "onComplete"
      /\ a.tween = Top.tween /\ a.i = Top.i
    BY <1>1 DEF At, ActivationTo
<1> HIDE DEF a
<1>3. /\ Len(stack') = l /\ stack'[l] = a /\ \A d \in 1..(l - 1) : stack'[d] = stack[d]
    BY <1>2, TopBecomes
<1>4. Top.tween \in 1..Len(tweens)
    BY MineIs
<1> HIDE DEF l
<1>5. \A d \in 1..l : d = l \/ d \in 1..(l - 1)
    BY <1>1
<1>6. \A d \in 1..l : /\ stack'[d].in = stack[d].in /\ stack'[d].tween = stack[d].tween
                      /\ stack'[d].i = stack[d].i
                      /\ Busy(stack'[d]) <=> Busy(stack[d])
                      /\ d # l => stack'[d] = stack[d]
    BY <1>1, <1>2, <1>3, <1>5 DEF Busy, Pending
<1>7. UpdatesApart'
    BY <1>3, <1>6 DEF FinishInv, UpdatesApart, l
<1>8. UpdatesAlone'
    BY <1>3, <1>6 DEF FinishInv, UpdatesAlone, l
<1>9. tweens[Top.tween].completed = 0
    <2> SUFFICES ASSUME tweens[Top.tween].completed # 0 PROVE FALSE
        OBVIOUS
    <2>1. CASE Finished(Top.tween)
        BY <2>1, <1>1 DEF Finished, Busy, l
    <2>2. CASE \E d \in 1..l : Completing(stack[d]) /\ stack[d].tween = Top.tween
        <3>1. PICK d \in 1..l : Completing(stack[d]) /\ stack[d].tween = Top.tween
            BY <2>2
        <3>2. d # l /\ Busy(stack[d])
            BY <3>1, <1>1 DEF Completing, Busy
        <3> QED
            BY <3>1, <3>2, <1>1 DEF FinishInv, UpdatesApart, l
    <2> QED
        BY <2>1, <2>2, <1>4 DEF FinishInv, Finishes, l
<1>10. Finishes'
    <2> SUFFICES ASSUME NEW t \in 1..Len(tweens), tweens'[t].completed # 0
                 PROVE  /\ tweens'[t].completed = 1
                        /\ \/ \E d \in 1..Len(stack') :
                                 Completing(stack'[d]) /\ stack'[d].tween = t
                           \/ Finished(t)'
        BY DEF Finishes
    <2>1. CASE t = Top.tween
        <3>1. tweens'[t].completed = 1
            BY <2>1, <1>9
        <3>2. Completing(stack'[l]) /\ stack'[l].tween = t
            BY <2>1, <1>2, <1>3 DEF Completing
        <3> QED
            BY <3>1, <3>2, <1>1, <1>3
    <2>2. CASE t # Top.tween
        <3>1. tweens'[t].completed = 1 /\ tweens[t].completed = 1
            BY <2>2 DEF FinishInv, Finishes
        <3>2. CASE \E d \in 1..l : Completing(stack[d]) /\ stack[d].tween = t
            <4>1. PICK d \in 1..l : Completing(stack[d]) /\ stack[d].tween = t
                BY <3>2
            <4>2. stack'[d] = stack[d]
                BY <4>1, <2>2, <1>1, <1>6
            <4> QED
                BY <4>1, <4>2, <3>1, <1>3
        <3>3. CASE Finished(t)
            BY <3>1, <3>3, <1>3, <1>6 DEF Finished, l
        <3> QED
            BY <3>1, <3>2, <3>3 DEF FinishInv, Finishes, l
    <2> QED
        BY <2>1, <2>2
<1> QED
    BY <1>7, <1>8, <1>10 DEF FinishInv

LEMMA UpdatesFinish ==
    ASSUME TweenInv, FinishInv, TweenInv',
           \/ Enter \/ NotYet \/ Started \/ SetProperties \/ SkipUpdate
           \/ Updated \/ CallDue \/ CallNotDue \/ CalledBack
    PROVE  FinishInv'
<1>1. stack # << >> /\ Top.in = "update" /\ Top.at # "onComplete"
    BY DEF Enter, NotYet, Started, SetProperties, SkipUpdate, Updated, CallDue, CallNotDue,
           CalledBack, In
<1>2. /\ Top.tween \in 1..Len(tweens) /\ Mine = tweens[Top.tween] /\ Mine \in Tween
      /\ Top \in ActivationTo(Len(tweens))
    BY <1>1, MineIs, TopIs
<1>3. list' = list => Thinned(list, list')
    BY DEF Thinned
<1>4. CASE Enter
    <2> DEFINE p == CASE Mine.isCaller -> "calls"
                      [] ~Mine.isCaller /\ Mine.hasStarted -> "set"
                      [] OTHER -> "onStart"
               o == Over
               a == [Top EXCEPT !.over = o, !.at = p]
    <2>1. stack' = Append(Under, a) /\ list' = list /\ tweens' = tweens
        BY <1>4 DEF Enter
    <2> HIDE DEF o, p
    <2>2. a.in = Top.in /\ a.tween = Top.tween /\ a.i = Top.i
        BY <1>2 DEF ActivationTo
    <2> HIDE DEF a
    <2>3. Busy(Top) /\ Counted
        BY <1>1, <2>1, SameCounted DEF Busy
    <2> QED
        BY <2>1, <2>2, <2>3, <1>1, <1>3, GoesOnKept
<1>5. CASE SetProperties \/ CallDue
    <2>1. list' = list /\ tweens' = tweens /\ (At("onUpdate") \/ At("onCall"))
        BY <1>5 DEF SetProperties, CallDue
    <2>2. Counted
        BY <2>1, SameCounted
    <2> QED
        BY <2>1, <2>2, <1>1, <1>3, PointKept
<1>6. CASE Started
    <2> DEFINE u == [Mine EXCEPT !.hasStarted = TRUE]
    <2>1. list' = list /\ At("onUpdate") /\ tweens' = [tweens EXCEPT ![Top.tween] = u]
        BY <1>6 DEF Started, Mine
    <2>2. u.completed = Mine.completed
        BY <1>2 DEF Tween
    <2> HIDE DEF u
    <2>3. Counted
        BY <2>1, <2>2, <1>2, OneCounted
    <2> QED
        BY <2>1, <2>3, <1>1, <1>3, PointKept
<1>7. CASE tweens' = tweens /\ Return(TRUE)
    BY <1>1, <1>7, SameCounted, ReturnKept
<1>8. ASSUME Complete
      PROVE  FinishInv'
    <2>1. /\ tweens' = [tweens EXCEPT ![Top.tween].completed = @ + 1]
          /\ At("onComplete") /\ list' = list
        BY <1>8 DEF Complete
    <2>2. /\ tweens \in Seq(Tween) /\ DOMAIN tweens = 1..Len(tweens)
          /\ \A t \in 1..Len(tweens) : tweens[t] \in Tween
        BY Facts, LenProperties
    <2>3. Len(tweens') = Len(tweens)
        BY <2>1, <2>2, <1>2, ExceptSeq
    <2>4. \A t \in 1..Len(tweens) :
             tweens'[t].completed = IF t = Top.tween THEN tweens[t].completed + 1
                                                     ELSE tweens[t].completed
        BY <2>1, <2>2 DEF Tween
    <2> QED
        BY <2>1, <2>3, <2>4, <1>1, CompleteKept
<1>9. CASE CalledBack
    <2> DEFINE n == Mine.timesCalled + 1
               u == [Mine EXCEPT !.timesCalled = n]
               called == [tweens EXCEPT ![Top.tween].timesCalled = n]
    <2>1. called = [tweens EXCEPT ![Top.tween] = u]
        BY DEF Mine
    <2>2. u.completed = Mine.completed
        BY <1>2 DEF Tween
    <2> HIDE DEF n, u
    <2>3. CASE tweens' = called /\ Return(TRUE)
        <3>1. Counted
            BY <2>1, <2>2, <2>3, <1>2, OneCounted
        <3> QED
            BY <3>1, <2>3, <1>1, ReturnKept
    <2>4. CASE tweens' = called /\ At("calls") /\ list' = list
        <3>1. Counted
            BY <2>1, <2>2, <2>4, <1>2, OneCounted
        <3> QED
            BY <3>1, <2>4, <1>1, <1>3, PointKept
    <2>5. CASE /\ tweens' = [called EXCEPT ![Top.tween].completed = @ + 1]
               /\ At("onComplete") /\ list' = list
        <3>1. /\ tweens \in Seq(Tween) /\ DOMAIN tweens = 1..Len(tweens)
              /\ \A t \in 1..Len(tweens) : tweens[t] \in Tween
            BY Facts, LenProperties
        <3> DEFINE v == [u EXCEPT !.completed = @ + 1]
        <3>2. called[Top.tween] = u
            BY <2>1, <3>1, <1>2
        <3>3. tweens' = [tweens EXCEPT ![Top.tween] = v]
            <4> HIDE DEF called
            <4>1. tweens' = [called EXCEPT ![Top.tween] = v]
                BY <2>5, <3>2
            <4> HIDE DEF v
            <4> QED
                BY <2>1, <3>1, <4>1
        <3>4. v.completed = Mine.completed + 1
            BY <2>2, <1>2 DEF Tween, u
        <3> HIDE DEF v, called
        <3>5. Len(tweens') = Len(tweens)
            BY <3>1, <3>3, <1>2, ExceptSeq
        <3>6. \A t \in 1..Len(tweens) :
                 tweens'[t].completed = IF t = Top.tween THEN tweens[t].completed + 1
                                                         ELSE tweens[t].completed
            BY <3>1, <3>3, <3>4, <1>2
        <3> QED
            BY <2>5, <3>5, <3>6, <1>1, CompleteKept
    <2> QED
        BY <2>3, <2>4, <2>5, <1>9 DEF CalledBack, n
<1> QED
    BY <1>4, <1>5, <1>6, <1>7, <1>8, <1>9
       DEF NotYet, SkipUpdate, CallNotDue, Updated
(* The tween whose onComplete returns is out of the list.                   *)
LEMMA CompletedFinish ==
    ASSUME TweenInv, FinishInv, TweenInv', Completed
    PROVE  FinishInv'
<1> DEFINE l == Len(stack)
           n == Len(tweens)
<1>1. /\ stack # << >> /\ Top.in = "update" /\ Top.at = "onComplete" /\ Return(FALSE)
      /\ tweens' = tweens
    BY DEF Completed, In
<1>2. /\ \A d \in 1..Len(stack') : Busy(stack'[d]) => d \in 1..(l - 1) /\ stack'[d] = stack[d]
      /\ \A d \in 1..(l - 1) : Completing(stack[d]) =>
            d \in 1..Len(stack') /\ stack'[d] = stack[d]
      /\ Listed
      /\ \A i \in 1..Len(list') : list'[i] # 0 =>
            \E j \in 1..Len(list) : j # Top.i /\ list[j] = list'[i]
    BY <1>1, ReturnIs
<1>3. l \in Nat \ {0} /\ l \in 1..l /\ Top = stack[l] /\ n \in Nat
    BY <1>1, TopIs, Facts
<1>4. /\ \A d \in 1..l : Busy(stack[d]) => stack[d].tween \in 1..n
      /\ \A d \in 1..Len(stack') : Busy(stack'[d]) => stack'[d].tween # 0
    BY BusyIs DEF TweenInv, Fits, Busy, UpdateFits, PendingFits
<1> HIDE DEF l
<1>5. \A d \in 1..l : d = l \/ d \in 1..(l - 1)
    BY <1>3
<1>6. \A d \in 1..(l - 1) : d \in 1..l /\ d # l
    BY <1>3
<1>7. UpdatesApart'
    <2> SUFFICES ASSUME NEW d \in 1..Len(stack'), NEW e \in 1..Len(stack'),
                        stack'[d].in = "update", d # e, Busy(stack'[e])
                 PROVE  stack'[d].tween # stack'[e].tween
        BY DEF UpdatesApart
    <2>1. Busy(stack'[d])
        BY DEF Busy
    <2>2. d \in 1..l /\ stack'[d] = stack[d] /\ e \in 1..l /\ stack'[e] = stack[e]
        BY <2>1, <1>2, <1>6
    <2> QED
        BY <2>2 DEF FinishInv, UpdatesApart, l
<1>8. UpdatesAlone'
    <2> SUFFICES ASSUME NEW d \in 1..Len(stack'), NEW i \in 1..Len(list'),
                        stack'[d].in = "update", list'[i] = stack'[d].tween
                 PROVE  i = stack'[d].i
        BY DEF UpdatesAlone
    <2>1. Busy(stack'[d]) /\ d \in 1..l /\ stack'[d] = stack[d]
        BY <1>2, <1>6 DEF Busy
    <2>2. list'[i] \in 1..n
        BY <2>1, <1>4
    <2>3. list'[i] # 0 /\ ~(list'[i] > n)
        BY <2>2, <1>3
    <2>4. i \in 1..Len(list) /\ list'[i] = list[i]
        BY <2>3, <1>2 DEF Listed
    <2> QED
        BY <2>1, <2>4 DEF FinishInv, UpdatesAlone, l
<1>9. ASSUME NEW t \in 1..n, Finished(t)
      PROVE  Finished(t)'
    <2>1. t # 0
        BY <1>3
    <2>2. \A i \in 1..Len(list') : list'[i] # t
        BY <2>1, <1>2, <1>9 DEF Finished
    <2>3. \A d \in 1..Len(stack') : Busy(stack'[d]) => stack'[d].tween # t
        BY <1>2, <1>6, <1>9 DEF Finished, l
    <2> QED
        BY <2>2, <2>3 DEF Finished
<1>10. ASSUME NEW t \in 1..n, t = Top.tween
       PROVE  Finished(t)'
    <2>1. Top.tween # 0 /\ Busy(Top)
        BY <1>1, MineIs DEF Busy
    <2>2. \A i \in 1..Len(list') : list'[i] # Top.tween
        <3> SUFFICES ASSUME NEW i \in 1..Len(list'), list'[i] = Top.tween PROVE FALSE
            OBVIOUS
        <3>1. PICK j \in 1..Len(list) : j # Top.i /\ list[j] = Top.tween
            BY <2>1, <1>2
        <3> QED
            BY <3>1, <1>1, <1>3 DEF FinishInv, UpdatesAlone, l
    <2>3. \A d \in 1..Len(stack') : Busy(stack'[d]) => stack'[d].tween # Top.tween
        <3> SUFFICES ASSUME NEW d \in 1..Len(stack'), Busy(stack'[d])
                     PROVE  stack'[d].tween # Top.tween
            OBVIOUS
        <3>1. d \in 1..l /\ d # l /\ stack'[d] = stack[d]
            BY <1>2, <1>6
        <3>2. stack[l].tween # stack[d].tween
            BY <3>1, <1>1, <1>3 DEF FinishInv, UpdatesApart, l
        <3> QED
            BY <3>1, <3>2, <1>3
    <2> QED
        BY <2>2, <2>3, <1>10 DEF Finished
<1>11. Finishes'
    <2> SUFFICES ASSUME NEW t \in 1..n, tweens[t].completed # 0
                 PROVE  /\ tweens[t].completed = 1
                        /\ \/ \E d \in 1..Len(stack') :
                                 Completing(stack'[d]) /\ stack'[d].tween = t
                           \/ Finished(t)'
        BY <1>1 DEF Finishes
    <2>1. tweens[t].completed = 1
        BY DEF FinishInv, Finishes
    <2>2. CASE Finished(t)
        BY <2>1, <2>2, <1>9
    <2>3. CASE \E d \in 1..l : Completing(stack[d]) /\ stack[d].tween = t
        <3>1. PICK d \in 1..l : Completing(stack[d]) /\ stack[d].tween = t
            BY <2>3
        <3>2. CASE d = l
            <4>1. t = Top.tween
                BY <3>1, <3>2, <1>3
            <4>2. Finished(t)'
                BY <4>1, <1>10
            <4> QED
                BY <4>2, <2>1
        <3>3. CASE d \in 1..(l - 1)
            <4>1. d \in 1..Len(stack') /\ stack'[d] = stack[d]
                BY <3>1, <3>3, <1>2
            <4> QED
                BY <3>1, <4>1, <2>1
        <3> QED
            BY <3>2, <3>3, <1>5
    <2> QED
        BY <2>1, <2>2, <2>3 DEF FinishInv, Finishes, l
<1> QED
    BY <1>7, <1>8, <1>11 DEF FinishInv

(* An update begins of a tween in the list, or of one that is going there.  *)
Begun(t, k) ==
    /\ \/ \E i \in 1..Len(list) : list[i] = t
       \/ \E d \in 1..Len(stack) : Busy(stack[d]) /\ stack[d].tween = t
    /\ \A i \in 1..Len(list') : list'[i] # 0 =>
          \/ list'[i] = t
          \/ i \in 1..Len(list) /\ list'[i] = list[i]
    /\ \A i \in 1..Len(list') : list'[i] = t => i = k
    /\ \A d \in 1..Len(stack') : Busy(stack'[d]) =>
          \/ d \in 1..Len(stack) /\ stack'[d] = stack[d] /\ stack[d].tween # t
          \/ /\ d = Len(stack') /\ stack'[d].in = "update"
             /\ stack'[d].tween = t /\ stack'[d].i = k
    /\ \A d \in 1..Len(stack) : Completing(stack[d]) =>
          d \in 1..Len(stack') /\ stack'[d] = stack[d]

LEMMA BegunKept ==
    ASSUME TweenInv, FinishInv, TweenInv', tweens' = tweens,
           NEW t \in 1..Len(tweens), NEW k, Begun(t, k)
    PROVE  FinishInv'
<1>1. \A d \in 1..Len(stack') : Busy(stack'[d]) => stack'[d].tween # 0
    BY DEF TweenInv, Fits, Busy, UpdateFits, PendingFits
<1>2. UpdatesApart'
    <2> SUFFICES ASSUME NEW d \in 1..Len(stack'), NEW e \in 1..Len(stack'),
                        stack'[d].in = "update", d # e, Busy(stack'[e])
                 PROVE  stack'[d].tween # stack'[e].tween
        BY DEF UpdatesApart
    <2>1. Busy(stack'[d])
        BY DEF Busy
    <2>2. CASE d = Len(stack') \/ e = Len(stack')
        BY <2>1, <2>2 DEF Begun, FinishInv, UpdatesApart
    <2>3. CASE d # Len(stack') /\ e # Len(stack')
        BY <2>1, <2>3 DEF Begun, FinishInv, UpdatesApart
    <2> QED
        BY <2>2, <2>3
<1>3. UpdatesAlone'
    <2> SUFFICES ASSUME NEW d \in 1..Len(stack'), NEW i \in 1..Len(list'),
                        stack'[d].in = "update", list'[i] = stack'[d].tween
                 PROVE  i = stack'[d].i
        BY DEF UpdatesAlone
    <2>1. Busy(stack'[d]) /\ list'[i] # 0
        BY <1>1 DEF Busy
    <2> QED
        BY <2>1 DEF Begun, FinishInv, UpdatesAlone
<1>4. Finishes'
    <2> SUFFICES ASSUME NEW s \in 1..Len(tweens), tweens[s].completed # 0
                 PROVE  /\ tweens[s].completed = 1
                        /\ \/ \E d \in 1..Len(stack') :
                                 Completing(stack'[d]) /\ stack'[d].tween = s
                           \/ Finished(s)'
        BY DEF Finishes
    <2>1. tweens[s].completed = 1
        BY DEF FinishInv, Finishes
    <2>2. CASE Finished(s)
        <3>1. s # t /\ s # 0
            BY <2>2, Facts DEF Begun, Finished
        <3>2. \A i \in 1..Len(list') : list'[i] # s
            BY <3>1, <2>2 DEF Begun, Finished
        <3>3. \A d \in 1..Len(stack') : Busy(stack'[d]) => stack'[d].tween # s
            BY <3>1, <2>2 DEF Begun, Finished
        <3> QED
            BY <2>1, <3>2, <3>3 DEF Finished
    <2>3. CASE \E d \in 1..Len(stack) : Completing(stack[d]) /\ stack[d].tween = s
        BY <2>1, <2>3 DEF Begun
    <2> QED
        BY <2>1, <2>2, <2>3 DEF FinishInv, Finishes
<1> QED
    BY <1>2, <1>3, <1>4 DEF FinishInv
(* Nothing is busy but the innermost functions, of which one goes on.       *)
LEMMA PushFinish ==
    ASSUME TweenInv, FinishInv, TweenInv', Push
    PROVE  FinishInv'
<1> DEFINE t == Top.tween
           m == Len(list)
           l == Len(stack)
           k == m + 1
<1>1. /\ stack # << >> /\ Top.in = "add" /\ Top.at = "push"
      /\ list' = Append(list, t) /\ tweens' = tweens
    BY DEF Push, In
<1>2. /\ PendingFits(tweens, list, stack, l, Top) /\ t \in 1..Len(tweens)
      /\ Busy(Top) /\ ~Completing(Top)
    BY <1>1, AddTopIs DEF Pending, Busy, Completing
<1>3. /\ m \in Nat /\ l \in Nat \ {0} /\ l \in 1..l /\ Top = stack[l]
      /\ list \in Seq(0..Len(tweens)) /\ Top \in ActivationTo(Len(tweens))
    BY <1>1, TopIs, Facts
<1>4. Len(list') = k /\ list'[k] = t /\ \A i \in 1..m : list'[i] = list[i]
    BY <1>1, <1>3, AnyPushed
<1>5. \A i \in 1..m : list[i] = 0 \/ list[i] # t
    BY <1>2 DEF PendingFits
<1>6. t # 0
    BY <1>2, Facts
<1> HIDE DEF l, m, t
<1>7. \A i \in 1..k : i \in 1..m \/ i = k
    BY <1>3
<1> HIDE DEF k
<1>8. \A d \in 1..(l - 1) : d \in 1..l /\ d # l
    BY <1>3
<1>9. \A d \in 1..l : d \in 1..(l - 1) \/ d = l
    BY <1>3
<1>10. \A d \in 1..(l - 1) : Busy(stack[d]) => stack[d].tween # t
    <2> SUFFICES ASSUME NEW d \in 1..(l - 1), Busy(stack[d]) PROVE stack[d].tween # t
        OBVIOUS
    <2>1. CASE stack[d].in = "update"
        BY <2>1, <1>2, <1>3, <1>8 DEF FinishInv, UpdatesApart, l, t
    <2>2. CASE Pending(stack[d])
        BY <2>2, <1>2 DEF PendingFits, t
    <2> QED
        BY <2>1, <2>2 DEF Busy
<1>11. /\ \A i \in 1..Len(list') : list'[i] # 0 =>
             list'[i] = t \/ (i \in 1..Len(list) /\ list'[i] = list[i])
       /\ \A i \in 1..Len(list') : list'[i] = t => i = k
    BY <1>4, <1>5, <1>6, <1>7 DEF m
<1>12. \E d \in 1..Len(stack) : Busy(stack[d]) /\ stack[d].tween = t
    BY <1>2, <1>3 DEF l, t
<1>13. CASE stack' = Append(Under, [Top EXCEPT !.at = "loop"])
    <2> DEFINE a == [Top EXCEPT !.at = "loop"]
    <2>1. stack' = Append(Under, a) /\ a.in = "add" /\ a.at = "loop"
        BY <1>1, <1>3, <1>13 DEF ActivationTo
    <2> HIDE DEF a
    <2>2. ~Busy(a)
        BY <2>1 DEF Busy, Pending
    <2>3. Len(stack') = l /\ stack'[l] = a /\ \A d \in 1..(l - 1) : stack'[d] = stack[d]
        BY <2>1, <1>1, TopBecomes DEF l
    <2>4. \A d \in 1..Len(stack') : Busy(stack'[d]) =>
             d \in 1..Len(stack) /\ stack'[d] = stack[d] /\ stack[d].tween # t
        BY <2>2, <2>3, <1>8, <1>9, <1>10 DEF l
    <2>5. \A d \in 1..Len(stack) : Completing(stack[d]) =>
             d \in 1..Len(stack') /\ stack'[d] = stack[d]
        BY <2>3, <1>2, <1>3, <1>8, <1>9 DEF l
    <2>6. Begun(t, k)
        BY <2>4, <2>5, <1>11, <1>12 DEF Begun
    <2> QED
        BY <2>6, <1>1, <1>2, BegunKept DEF t
<1>14. CASE stack' = Append(Append(Under, [Top EXCEPT !.at = "immediate", !.i = Len(list) + 1]),
                            Called("update", "entry", Len(list) + 1, Top.tween))
    <2> DEFINE a == [Top EXCEPT !.at = "immediate", !.i = k]
               b == Called("update", "entry", k, t)
    <2>1. stack' = Append(Append(Under, a), b)
        BY <1>14 DEF k, m, t
    <2>2. a.in = "add" /\ a.at = "immediate" /\ b.in = "update" /\ b.tween = t /\ b.i = k
        BY <1>1, <1>3 DEF ActivationTo, Called
    <2> HIDE DEF a, b
    <2>3. ~Busy(a)
        BY <2>2 DEF Busy, Pending
    <2>4. /\ Len(stack') = l + 1 /\ stack'[l] = a /\ stack'[l + 1] = b
          /\ \A d \in 1..(l - 1) : stack'[d] = stack[d]
        BY <2>1, <1>1, TopCalls DEF l
    <2>5. \A d \in 1..(l + 1) : d \in 1..(l - 1) \/ d = l \/ d = l + 1
        BY <1>3
    <2>6. \A d \in 1..(l - 1) : d \in 1..(l + 1)
        BY <1>3
    <2>7. \A d \in 1..Len(stack') : Busy(stack'[d]) =>
             \/ d \in 1..Len(stack) /\ stack'[d] = stack[d] /\ stack[d].tween # t
             \/ d = Len(stack') /\ stack'[d].in = "update" /\ stack'[d].tween = t
                /\ stack'[d].i = k
        BY <2>2, <2>3, <2>4, <2>5, <1>8, <1>10 DEF l
    <2>8. \A d \in 1..Len(stack) : Completing(stack[d]) =>
             d \in 1..Len(stack') /\ stack'[d] = stack[d]
        BY <2>4, <2>6, <1>2, <1>3, <1>9 DEF l
    <2>9. Begun(t, k)
        BY <2>7, <2>8, <1>11, <1>12 DEF Begun
    <2> QED
        BY <2>9, <1>1, <1>2, BegunKept DEF t
<1> QED
    BY <1>13, <1>14 DEF Push

LEMMA FramesFinish ==
    ASSUME TweenInv, FinishInv, TweenInv',
           Frame \/ FrameUpdates \/ FramePasses \/ FrameDrops \/ FrameDone
    PROVE  FinishInv'
<1>1. ASSUME tweens' = tweens, list' = list
      PROVE  Listed /\ Counted
    BY <1>1, ThinnedListed, SameCounted DEF Thinned
<1>2. CASE Frame
    <2>1. /\ tweens' = tweens /\ stack = << >>
          /\ \/ list' = << >> /\ stack' = << >> /\ list = << >>
             \/ list' = list /\ stack' = Append(stack, Called("frame", "loop", 1, 0))
        BY <1>2 DEF Frame, NoTween
    <2>2. Listed /\ Counted
        BY <2>1, <1>1
    <2> DEFINE a == Called("frame", "loop", 1, 0)
    <2>3. ~Busy(a)
        BY DEF Called, Busy, Pending
    <2> HIDE DEF a
    <2>4. CASE stack' = Append(stack, a)
        BY <2>2, <2>3, <2>4, CalledKept
    <2>5. CASE stack' = << >>
        BY <2>1, <2>2, <2>5, StackKept
    <2> QED
        BY <2>1, <2>4, <2>5 DEF a
<1>3. ASSUME FrameUpdates \/ FramePasses \/ FrameDrops \/ FrameDone
      PROVE  /\ stack # << >> /\ Top.in = "frame" /\ ~Completing(Top) /\ tweens' = tweens
             /\ Len(stack) = 1 /\ Top = stack[1] /\ Top \in ActivationTo(Len(tweens))
             /\ Counted
             /\ \A d \in 1..Len(stack) : stack[d].in = "frame" /\ ~Completing(stack[d])
    <2>1. stack # << >> /\ Top.in = "frame" /\ tweens' = tweens
        BY <1>3 DEF FrameUpdates, FramePasses, FrameDrops, FrameDone, In
    <2>2. Len(stack) = 1 /\ Top = stack[1] /\ Top \in ActivationTo(Len(tweens))
        BY <2>1, FrameIs
    <2>3. \A d \in 1..1 : d = 1
        OBVIOUS
    <2>4. Counted
        BY <2>1, SameCounted
    <2> QED
        BY <2>1, <2>2, <2>3, <2>4 DEF Completing
<1>4. CASE FrameUpdates
    <2> DEFINE i == Top.i
               t == list[i]
               a == [Top EXCEPT !.seen = @ \cup {t}]
               b == Called("update", "entry", i, t)
    <2>1. /\ i \in 1..Len(list) /\ t # 0 /\ list' = list
          /\ stack' = Append(Append(Under, a), b)
        BY <1>4 DEF FrameUpdates, Slots, Live
    <2>2. t \in 1..Len(tweens)
        BY <2>1, Facts
    <2> HIDE DEF t, i
    <2>3. a.in = "frame" /\ b.in = "update" /\ b.tween = t /\ b.i = i
        BY <1>3, <1>4 DEF ActivationTo, Called
    <2> HIDE DEF a, b
    <2>4. Len(stack') = 2 /\ stack'[1] = a /\ stack'[2] = b
        <3>1. Len(stack') = Len(stack) + 1 /\ stack'[Len(stack)] = a /\ stack'[Len(stack) + 1] = b
            BY <2>1, <1>3, <1>4, TopCalls
        <3> QED
            BY <3>1, <1>3, <1>4
    <2>5. ~Busy(a)
        BY <2>3 DEF Busy, Pending
    <2>6. \A d \in 1..2 : d = 1 \/ d = 2
        OBVIOUS
    <2>7. \A d \in 1..Len(stack') : Busy(stack'[d]) =>
             d = Len(stack') /\ stack'[d].in = "update" /\ stack'[d].tween = t /\ stack'[d].i = i
        BY <2>3, <2>4, <2>5, <2>6
    <2>8. \A j \in 1..Len(list) : list[j] = t => j = i
        BY <2>1 DEF TweenInv, Sound, t
    <2>9. Begun(t, i)
        <3>1. list[i] = t
            BY DEF t
        <3> QED
            BY <2>1, <2>7, <2>8, <3>1, <1>3, <1>4 DEF Begun
    <2> QED
        BY <2>2, <2>9, <1>3, <1>4, BegunKept
<1>5. CASE FramePasses
    <2> DEFINE t == list[Top.i]
               a == [Top EXCEPT !.i = @ + 1, !.seen = @ \cup {t}]
    <2>1. list' = list /\ stack' = Append(Under, a)
        BY <1>5 DEF FramePasses
    <2> HIDE DEF t
    <2>2. a.in = "frame"
        BY <1>3, <1>5 DEF ActivationTo
    <2> HIDE DEF a
    <2>3. ~Busy(a)
        BY <2>2 DEF Busy, Pending
    <2> QED
        BY <2>1, <2>3, <1>1, <1>3, <1>5, RetoppedKept
<1>6. CASE FrameDrops
    <2> DEFINE p == Top.i
               n == Len(tweens)
    <2>1. /\ p \in 1..Len(list) /\ list' = RemoveAt(list, p) /\ stack' = stack
          /\ list \in Seq(0..n) /\ n \in Nat
        BY <1>6, Facts DEF FrameDrops, Slots
    <2> HIDE DEF p, n
    <2>2. /\ Len(list') \in Nat
          /\ \A i \in 1..Len(list') :
                /\ i < p => i \in 1..Len(list) /\ list'[i] = list[i]
                /\ i >= p => i + 1 \in 1..Len(list) /\ list'[i] = list[i + 1]
        BY <2>1, RemovedIs
    <2>3. p \in Nat
        BY <1>3, <1>6 DEF ActivationTo, p
    <2>4. \A i \in 1..Len(list') : \E j \in 1..Len(list) : list'[i] = list[j]
        BY <2>2, <2>3
    <2>5. Listed
        BY <2>1, <2>4, <1>3, <1>6 DEF Listed
    <2> QED
        BY <2>1, <2>5, <1>3, <1>6, StackKept
<1>7. CASE FrameDone
    <2>1. list' = list /\ stack' = Under
        BY <1>7 DEF FrameDone
    <2> QED
        BY <2>1, <1>1, <1>3, <1>7, DroppedKept
<1> QED
    BY <1>2, <1>4, <1>5, <1>6, <1>7

LEMMA FinishNext == TweenInv /\ FinishInv /\ [Next]_vars => FinishInv'
<1> SUFFICES ASSUME TweenInv, FinishInv, [Next]_vars PROVE FinishInv'
    OBVIOUS
<1>1. TweenInv'
    BY TweenNext
<1>2. CASE \E scopes \in Targets, r \in Requests : Add(scopes, r)
    BY <1>1, <1>2, AddsFinish
<1>3. CASE \/ \E op \in {"pause", "resume", "remove"}, scopes \in Targets, props \in Named :
                 AffectTweens(op, scopes, props)
           \/ \E op \in {"pause", "resume", "remove"} : AffectAll(op)
    BY <1>1, <1>3, AffectFinish
<1>4. CASE Frame
    BY <1>1, <1>4, FramesFinish
<1>5. CASE Running
    <2>1. CASE AddNext \/ AddDone \/ Scan
        BY <1>1, <2>1, AddsFinish
    <2>2. CASE Push
        BY <1>1, <2>2, PushFinish
    <2>3. CASE Enter \/ NotYet \/ SetProperties \/ SkipUpdate \/ CallDue \/ CallNotDue
        BY <1>1, <2>3, UpdatesFinish
    <2>4. CASE FrameUpdates \/ FramePasses \/ FrameDrops \/ FrameDone
        BY <1>1, <2>4, FramesFinish
    <2> QED
        BY <1>5, <2>1, <2>2, <2>3, <2>4 DEF Running
<1>6. CASE CallbackReturns
    <2>1. CASE Overwrite
        BY <1>1, <2>1, OverwriteFinish
    <2>2. CASE OverwriteThrows
        BY <1>1, <2>2, AddsFinish
    <2>3. CASE Started \/ Updated \/ CalledBack
        BY <1>1, <2>3, UpdatesFinish
    <2>4. CASE Completed
        BY <1>1, <2>4, CompletedFinish
    <2> QED
        BY <1>6, <2>1, <2>2, <2>3, <2>4 DEF CallbackReturns
<1>7. CASE UNCHANGED vars
    <2>1. tweens' = tweens /\ list' = list /\ stack' = stack
        BY <1>7 DEF vars
    <2>2. Listed /\ Counted
        BY <2>1, ThinnedListed, SameCounted DEF Thinned
    <2> QED
        BY <2>1, <2>2, <1>1, StackKept
<1> QED
    BY <1>2, <1>3, <1>4, <1>5, <1>6, <1>7 DEF Next

(* onComplete is called once for each tween, which is out of the list when  *)
(* the update that called it has returned (_updateTweenByIndex(),           *)
(* _updateTweens(), _addTweenOrCaller()).                                   *)
THEOREM EachCompletesOnce == Spec => []CompletedOnce
<1>1. Init => FinishInv
    <2> SUFFICES ASSUME Init PROVE FinishInv
        OBVIOUS
    <2>1. 1..Len(tweens) = {} /\ 1..Len(stack) = {}
        BY DEF Init
    <2> QED
        BY <2>1 DEF FinishInv, UpdatesApart, UpdatesAlone, Finishes
<1>2. TweenInv /\ FinishInv /\ [Next]_vars => FinishInv'
    BY FinishNext
<1>3. FinishInv => CompletedOnce
    BY DEF FinishInv, Finishes, Finished, CompletedOnce, Completing, Slots
<1> QED
    BY <1>1, <1>2, <1>3, TweensFit, PTL DEF Spec

=============================================================================
