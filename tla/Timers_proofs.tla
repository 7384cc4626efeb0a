--------------------------- MODULE Timers_proofs ---------------------------
(***************************************************************************)
(* For any delays, any width of integers, any number of timers, microtasks *)
(* and nested main loops: a timeout is called once, a cleared timer is not *)
(* called, the map has what can still be cleared, and microtasks go before *)
(* the next timer.                                                         *)
(***************************************************************************)
EXTENDS Timers, Lists_proofs

-----------------------------------------------------------------------------
(* The frames there may be when n timers have been set.                     *)
FrameOf(n) == [in : {"loop", "handler", "drain", "job"}, timer : 0..n,
               ready : SUBSET (1..n), thrown : BOOLEAN]

LEMMA FramesGrow ==
    ASSUME NEW n \in Nat
    PROVE  Seq(FrameOf(n)) \subseteq Seq(FrameOf(n + 1))
<1>1. FrameOf(n) \subseteq FrameOf(n + 1)
    BY DEF FrameOf
<1> QED
    BY <1>1, SeqMonotonic

-----------------------------------------------------------------------------
(* Which frame is entered from which: a handler and its drain from a loop,  *)
(* a loop and the drain of the job queue's source from a handler or from    *)
(* nothing, a microtask from a drain.                                       *)
NestsAt(d) ==
    /\ stack[d].in \in {"loop", "job"} => stack[d].timer = 0
    /\ stack[d].in = "handler" => stack[d].timer # 0 /\ d > 1 /\ stack[d - 1].in = "loop"
    /\ stack[d].in = "drain" /\ stack[d].timer # 0 => d > 1 /\ stack[d - 1].in = "loop"
    /\ stack[d].in = "loop" \/ (stack[d].in = "drain" /\ stack[d].timer = 0) =>
            d = 1 \/ stack[d - 1].in = "handler"
    /\ stack[d].in = "job" => d > 1 /\ stack[d - 1].in = "drain"
WellNested == \A d \in 1..Len(stack) : NestsAt(d)

(* One iteration at most has sources to dispatch, none of them on the stack. *)
OneHasReady ==
    /\ \A d, e \in 1..Len(stack) : stack[d].ready # {} /\ stack[e].ready # {} => d = e
    /\ \A d, e \in 1..Len(stack) : stack[e].timer \notin stack[d].ready

(* A timeout that has been called cannot be called again.                   *)
CalledIsOver ==
    \A t \in 1..Len(timers) :
        ~timers[t].interval /\ timers[t].calls # 0 =>
            /\ timers[t].calls = 1
            /\ t \notin timeouts \/ ~timers[t].attached \/ OnStack(t)

ClearedIsOut == \A t \in 1..Len(timers) : timers[t].outcome = "cleared" => t \notin timeouts

(* The map has no timeout whose handler has returned.                       *)
DrainsAreOut ==
    \A d \in 1..Len(stack) :
        stack[d].in = "drain" /\ stack[d].timer # 0 /\ ~timers[stack[d].timer].interval =>
            stack[d].timer \notin timeouts

(* An iteration dispatches with the job queue empty, or after a throw.      *)
DrainedOrThrown == In("loop") => jobs = 0 \/ Top.thrown

TimersInv ==
    /\ TypeOK
    /\ WellNested
    /\ OneHasReady
    /\ CalledIsOver
    /\ ClearedIsOut
    /\ MapMatchesSources
    /\ DrainsAreOut
    /\ DrainedOrThrown

LEMMA Types ==
    ASSUME TypeOK
    PROVE  /\ Len(timers) \in Nat
           /\ timers \in Seq(Timer)
           /\ \A t \in 1..Len(timers) : timers[t] \in Timer
           /\ Frame = FrameOf(Len(timers))
           /\ stack \in Seq(FrameOf(Len(timers)))
           /\ Len(stack) \in Nat
           /\ \A d \in 1..Len(stack) : stack[d] \in FrameOf(Len(timers))
           /\ MaxTime \in Nat /\ MaxJobs \in Nat /\ Limit \in Nat \ {0}
           /\ clock \in Nat /\ jobs \in Nat /\ queued \in Nat
<1>1. Frame = FrameOf(Len(timers))
    BY DEF Frame, FrameOf
<1>2. /\ Len(timers) \in Nat /\ Len(stack) \in Nat
      /\ \A t \in 1..Len(timers) : timers[t] \in Timer
      /\ \A d \in 1..Len(stack) : stack[d] \in Frame
    BY LenProperties, ElementOfSeq DEF TypeOK
<1> QED
    BY <1>1, <1>2, TimersAssumption DEF TypeOK

LEMMA TopTypes ==
    ASSUME TypeOK, stack # << >>
    PROVE  /\ Len(stack) \in Nat \ {0}
           /\ Top = stack[Len(stack)]
           /\ Top \in FrameOf(Len(timers))
           /\ Under \in Seq(FrameOf(Len(timers)))
           /\ Len(Under) = Len(stack) - 1
           /\ \A d \in 1..Len(stack) - 1 : Under[d] = stack[d]
    BY Types, Popped DEF Top, Under

LEMMA TimerChanged ==
    ASSUME TypeOK, NEW t \in 1..Len(timers), NEW r \in Timer, timers' = [timers EXCEPT ![t] = r]
    PROVE  /\ timers' \in Seq(Timer)
           /\ Len(timers') = Len(timers)
           /\ \A u \in 1..Len(timers) : u # t => timers'[u] = timers[u]
           /\ timers'[t] = r
<1>1. timers \in Seq(Timer)
    BY Types
<1>2. /\ timers' \in Seq(Timer)
      /\ Len(timers') = Len(timers)
      /\ \A u \in 1..Len(timers) : timers'[u] = IF u = t THEN r ELSE timers[u]
    BY <1>1, ExceptSeq
<1> QED
    BY <1>2

(* A source is destroyed, and nothing else about the timers changes.        *)
DestroyedIs(t) ==
    /\ timers' \in Seq(Timer)
    /\ Len(timers') = Len(timers)
    /\ \A u \in 1..Len(timers) : u # t => timers'[u] = timers[u]
    /\ timers'[t].attached = FALSE
    /\ timers'[t].interval = timers[t].interval
    /\ timers'[t].calls = timers[t].calls
    /\ timers'[t].outcome = timers[t].outcome

LEMMA SourceDestroyed ==
    ASSUME TypeOK, NEW t \in 1..Len(timers), timers' = Destroyed(t)
    PROVE  DestroyedIs(t)
<1> DEFINE r == [timers[t] EXCEPT !.attached = FALSE]
<1>1. timers \in Seq(Timer) /\ timers[t] \in Timer
    BY Types
<1>2. /\ r \in Timer /\ r.attached = FALSE /\ r.interval = timers[t].interval
      /\ r.calls = timers[t].calls /\ r.outcome = timers[t].outcome
    BY <1>1 DEF Timer
<1>3. timers' = [timers EXCEPT ![t] = r]
    BY <1>1 DEF Destroyed
<1> HIDE DEF r
<1> QED
    BY <1>2, <1>3, TimerChanged DEF DestroyedIs

LEMMA TimersInit == Init => TimersInv
<1> SUFFICES ASSUME Init PROVE TimersInv
    OBVIOUS
<1>1. Len(timers) = 0 /\ Len(stack) = 0 /\ stack = << >>
    BY EmptySeq DEF Init
<1>2. TypeOK
    BY TimersAssumption, EmptySeq DEF Init, TypeOK
<1> QED
    BY <1>1, <1>2 DEF TimersInv, WellNested, OneHasReady, CalledIsOver, ClearedIsOut,
                     MapMatchesSources, DrainsAreOut, DrainedOrThrown, In

-----------------------------------------------------------------------------
(* A stack that only loses frames and sources to dispatch.                  *)
Shrinks ==
    /\ Len(stack') \in Nat
    /\ Len(stack') <= Len(stack)
    /\ \A d \in 1..Len(stack') :
          /\ stack'[d].in = stack[d].in
          /\ stack'[d].timer = stack[d].timer
          /\ stack'[d].ready \subseteq stack[d].ready

LEMMA ShrinkStep ==
    ASSUME TypeOK, WellNested, OneHasReady, Shrinks
    PROVE  WellNested' /\ OneHasReady'
<1>1. Len(stack) \in Nat
    BY Types
<1>2. 1..Len(stack') \subseteq 1..Len(stack)
    BY <1>1 DEF Shrinks
<1>3. WellNested'
    <2> SUFFICES ASSUME NEW d \in 1..Len(stack') PROVE NestsAt(d)'
        BY DEF WellNested
    <2>1. NestsAt(d)
        BY <1>2 DEF WellNested
    <2>2. d > 1 => d - 1 \in 1..Len(stack')
        BY DEF Shrinks
    <2>3. d = 1 \/ d > 1
        BY DEF Shrinks
    <2> QED
        BY <2>1, <2>2, <2>3 DEF NestsAt, Shrinks
<1>4. OneHasReady'
    BY <1>2 DEF OneHasReady, Shrinks
<1> QED
    BY <1>3, <1>4

(* A frame on top of those there were.                                      *)
Grows(x) ==
    /\ Len(stack') = Len(stack) + 1
    /\ stack'[Len(stack) + 1] = x
    /\ \A d \in 1..Len(stack) :
          /\ stack'[d].in = stack[d].in
          /\ stack'[d].timer = stack[d].timer
          /\ stack'[d].ready \subseteq stack[d].ready

LEMMA GrowStep ==
    ASSUME TypeOK, WellNested, OneHasReady, NEW x, Grows(x), x.timer \notin x.ready,
           NEW m \in Nat, m = Len(stack) + 1, NestsAt(m)',
           \A d \in 1..Len(stack) :
               /\ x.timer \notin stack'[d].ready /\ stack[d].timer \notin x.ready
               /\ x.ready = {} \/ stack'[d].ready = {}
    PROVE  WellNested' /\ OneHasReady'
<1>1. Len(stack) \in Nat
    BY Types
<1>2. \A d \in 1..Len(stack') : d \in 1..Len(stack) \/ d = m
    BY <1>1 DEF Grows
<1>3. \A d \in 1..Len(stack) : NestsAt(d)'
    <2> SUFFICES ASSUME NEW d \in 1..Len(stack) PROVE NestsAt(d)'
        OBVIOUS
    <2>1. NestsAt(d)
        BY DEF WellNested
    <2>2. d > 1 => d - 1 \in 1..Len(stack)
        BY <1>1
    <2>3. d = 1 \/ d > 1
        BY <1>1
    <2> QED
        BY <2>1, <2>2, <2>3 DEF NestsAt, Grows
<1>4. WellNested'
    BY <1>2, <1>3 DEF WellNested
<1>5. OneHasReady'
    BY <1>1, <1>2 DEF OneHasReady, Grows
<1> QED
    BY <1>4, <1>5

LEMMA SetTimerStep ==
    ASSUME TimersInv, NEW interval \in BOOLEAN, NEW delay \in Delays, SetTimer(interval, delay)
    PROVE  TimersInv'
<1> DEFINE n == Len(timers)
           x == [interval |-> interval, delay |-> ValidDelay(delay),
                 due |-> clock + ValidDelay(delay), attached |-> TRUE,
                 calls |-> 0, outcome |-> "none"]
<1>1. TypeOK
    BY DEF TimersInv
<1>2. n \in Nat /\ timers \in Seq(Timer) /\ clock \in Nat
    BY <1>1, Types
<1>3. ValidDelay(delay) \in Nat
    <2> DEFINE m == 2 * Limit
    <2>1. m \in Nat \ {0} /\ delay + Limit \in Int /\ Limit \in Nat
        BY TimersAssumption
    <2> HIDE DEF m
    <2>2. (delay + Limit) % m \in Int
        BY <2>1
    <2> QED
        BY <2>1, <2>2 DEF ValidDelay, m
<1>4. x \in Timer
    BY <1>2, <1>3 DEF Timer
<1>5. timers' = Append(timers, x) /\ timeouts' = timeouts \cup {n + 1}
    BY DEF SetTimer
<1>6. UNCHANGED <<clock, jobs, queued, stack>>
    BY DEF SetTimer
<1> HIDE DEF x
<1>7. /\ timers' \in Seq(Timer)
      /\ Len(timers') = n + 1
      /\ \A t \in 1..n : timers'[t] = timers[t]
      /\ timers'[n + 1] = x
    BY <1>2, <1>4, <1>5, Pushed
<1>8. TypeOK'
    <2>1. stack' \in Seq(Frame')
        <3>1. stack \in Seq(FrameOf(n))
            BY <1>1, Types
        <3>2. stack' \in Seq(FrameOf(n + 1))
            BY <1>2, <1>6, <3>1, FramesGrow
        <3>3. Frame' = FrameOf(n + 1)
            BY <1>7 DEF Frame, FrameOf
        <3> QED
            BY <3>2, <3>3
    <2>2. timeouts' \subseteq 1..Len(timers')
        <3>1. timeouts \subseteq 1..n
            BY <1>1 DEF TypeOK
        <3> HIDE DEF n
        <3> QED
            BY <1>2, <1>5, <1>7, <3>1
    <2> QED
        BY <1>1, <1>6, <1>7, <2>1, <2>2 DEF TypeOK
<1>9. WellNested' /\ OneHasReady'
    BY <1>6 DEF TimersInv, WellNested, NestsAt, OneHasReady
<1>10. \A t \in 1..Len(timers') : t \in 1..n \/ t = n + 1
    BY <1>2, <1>7
<1>11. n + 1 \in timeouts' /\ \A t \in 1..n : t \in timeouts' <=> t \in timeouts
    BY <1>2, <1>5
<1>12. \A t \in 1..n : OnStack(t)' <=> OnStack(t)
    BY <1>6 DEF OnStack
<1> HIDE DEF n
<1>13. CalledIsOver'
    BY <1>7, <1>10, <1>11, <1>12 DEF CalledIsOver, TimersInv, x, n
<1>14. ClearedIsOut'
    BY <1>7, <1>10, <1>11, <1>12 DEF ClearedIsOut, TimersInv, x, n
<1>15. MapMatchesSources'
    BY <1>7, <1>10, <1>11, <1>12 DEF MapMatchesSources, TimersInv, x, n
<1>16. DrainedOrThrown'
    BY <1>6 DEF DrainedOrThrown, TimersInv, In, Top
<1>17. DrainsAreOut'
    <2>1. \A d \in 1..Len(stack) : stack[d].timer # 0 => stack[d].timer \in 1..n
        BY <1>1, Types DEF FrameOf, n
    <2> QED
        BY <1>6, <1>7, <1>11, <2>1 DEF DrainsAreOut, TimersInv, n
<1> QED
    BY <1>8, <1>9, <1>13, <1>14, <1>15, <1>16, <1>17 DEF TimersInv

LEMMA ClearStep ==
    ASSUME TimersInv, NEW t \in timeouts, Clear(t)
    PROVE  TimersInv'
<1>1. TypeOK
    BY DEF TimersInv
<1>2. t \in 1..Len(timers) /\ timers[t] \in Timer
    BY <1>1, Types DEF TypeOK
<1>3. /\ timers' = [Destroyed(t) EXCEPT ![t].outcome = "cleared"]
      /\ timeouts' = timeouts \ {t}
      /\ UNCHANGED <<clock, jobs, queued, stack>>
    BY DEF Clear
<1>4. /\ timers' \in Seq(Timer)
      /\ Len(timers') = Len(timers)
      /\ \A u \in 1..Len(timers) : u # t => timers'[u] = timers[u]
      /\ timers'[t] = [timers[t] EXCEPT !.attached = FALSE, !.outcome = "cleared"]
    <2> DEFINE r == [timers[t] EXCEPT !.attached = FALSE, !.outcome = "cleared"]
    <2>1. r \in Timer
        BY <1>2 DEF Timer
    <2>2. timers' = [timers EXCEPT ![t] = r]
        BY <1>1, <1>2, <1>3, Types DEF Destroyed, Timer
    <2> HIDE DEF r
    <2>3. /\ timers' \in Seq(Timer)
          /\ Len(timers') = Len(timers)
          /\ \A u \in 1..Len(timers) : u # t => timers'[u] = timers[u]
          /\ timers'[t] = r
        BY <1>1, <1>2, <2>1, <2>2, TimerChanged
    <2> QED
        BY <2>3 DEF r
<1>5. TypeOK'
    BY <1>1, <1>3, <1>4 DEF TypeOK, Frame
<1>6. WellNested' /\ OneHasReady'
    BY <1>3 DEF TimersInv, WellNested, NestsAt, OneHasReady
<1>7. \A u \in 1..Len(timers) : OnStack(u)' <=> OnStack(u)
    BY <1>3 DEF OnStack
<1>8. /\ timers'[t].attached = FALSE
      /\ timers'[t].calls = timers[t].calls
      /\ timers'[t].interval = timers[t].interval
    BY <1>2, <1>4 DEF Timer
<1>9. CalledIsOver'
    BY <1>2, <1>3, <1>4, <1>7, <1>8 DEF CalledIsOver, TimersInv
<1>10. ClearedIsOut'
    BY <1>2, <1>3, <1>4, <1>7 DEF ClearedIsOut, TimersInv
<1>11. MapMatchesSources'
    BY <1>2, <1>3, <1>4, <1>7, <1>8 DEF MapMatchesSources, TimersInv
<1>12. DrainedOrThrown'
    BY <1>3 DEF DrainedOrThrown, TimersInv, In, Top
<1>13. DrainsAreOut'
    <2>1. \A d \in 1..Len(stack) : stack[d].timer # 0 => stack[d].timer \in 1..Len(timers)
        BY <1>1, Types DEF FrameOf
    <2> QED
        BY <1>3, <1>4, <1>8, <2>1 DEF DrainsAreOut, TimersInv
<1> QED
    BY <1>5, <1>6, <1>9, <1>10, <1>11, <1>12, <1>13 DEF TimersInv

(* Time and the number of microtasks are nobody's concern while JavaScript  *)
(* runs.                                                                    *)
LEMMA QuietStep ==
    ASSUME TimersInv, Tick \/ QueueMicrotask
    PROVE  TimersInv'
<1>1. UNCHANGED <<timers, timeouts, stack>> /\ UserCode
    BY DEF Tick, QueueMicrotask
<1>2. TypeOK'
    BY <1>1, Types DEF TimersInv, TypeOK, Frame, Tick, QueueMicrotask
<1>3. /\ WellNested' /\ OneHasReady' /\ CalledIsOver' /\ ClearedIsOut'
      /\ MapMatchesSources' /\ DrainsAreOut'
    BY <1>1 DEF TimersInv, WellNested, NestsAt, OneHasReady, CalledIsOver, ClearedIsOut,
                MapMatchesSources, DrainsAreOut, OnStack
<1>4. DrainedOrThrown'
    BY <1>1 DEF DrainedOrThrown, In, Top, UserCode
<1> QED
    BY <1>2, <1>3, <1>4 DEF TimersInv

-----------------------------------------------------------------------------
LEMMA EnteredIs ==
    ASSUME TypeOK, NEW f \in {"loop", "handler", "drain", "job"}, NEW t \in 0..Len(timers)
    PROVE  Entered(f, t) \in FrameOf(Len(timers))
BY DEF Entered, FrameOf

(* Steps that change nothing about the timers.                              *)
LEMMA TimersStay ==
    ASSUME TimersInv, UNCHANGED <<timers, timeouts>>,
           \A t \in 1..Len(timers) : OnStack(t) => OnStack(t)'
    PROVE  CalledIsOver' /\ ClearedIsOut' /\ MapMatchesSources'
BY DEF TimersInv, CalledIsOver, ClearedIsOut, MapMatchesSources

(* The iteration takes over what the others have not dispatched.            *)
LEMMA IterateStep ==
    ASSUME TimersInv, Iterate
    PROVE  TimersInv' /\ Last(stack').in # "handler"
<1> DEFINE n == Len(stack)
           F == FrameOf(Len(timers))
           outer == [d \in DOMAIN stack |-> [stack[d] EXCEPT !.ready = {}]]
<1>1. TypeOK
    BY DEF TimersInv
<1>2. n \in Nat /\ DOMAIN stack = 1..n /\ \A d \in 1..n : stack[d] \in F
    BY <1>1, Types, LenProperties
<1>3. UNCHANGED <<timers, timeouts, clock, jobs, queued>>
    BY DEF Iterate
<1>4. /\ outer \in Seq(F)
      /\ Len(outer) = n
      /\ \A d \in 1..n : /\ outer[d].in = stack[d].in
                         /\ outer[d].timer = stack[d].timer
                         /\ outer[d].ready = {}
    <2>1. \A d \in 1..n : [stack[d] EXCEPT !.ready = {}] \in F
        BY <1>2 DEF FrameOf
    <2>2. outer \in [1..n -> F]
        BY <1>2, <2>1
    <2>3. \A d \in 1..n : /\ outer[d].in = stack[d].in
                         /\ outer[d].timer = stack[d].timer
                         /\ outer[d].ready = {}
        BY <1>2 DEF FrameOf
    <2> HIDE DEF outer
    <2>4. outer \in Seq(F) /\ Len(outer) = n
        BY <1>2, <2>2, SameLength
    <2> QED
        BY <2>3, <2>4
<1>5. PICK x \in F :
         /\ stack' = Append(outer, x)
         /\ x.timer = 0 /\ x.in \in {"loop", "drain"}
         /\ x.in = "loop" => jobs = 0
         /\ x.ready \subseteq Ready
    <2> DEFINE drain == Entered("drain", 0)
               loop == [Entered("loop", 0) EXCEPT !.ready = Ready]
    <2>1. drain \in F /\ drain.timer = 0 /\ drain.in = "drain" /\ drain.ready = {}
        BY <1>1, Types DEF Entered, FrameOf
    <2>2. loop \in F /\ loop.timer = 0 /\ loop.in = "loop" /\ loop.ready = Ready
        <3>1. Ready \subseteq 1..Len(timers) /\ 0 \in 0..Len(timers)
            BY <1>1, Types DEF Ready
        <3> DEFINE r == Ready
                   e == Entered("loop", 0)
        <3>2. r \subseteq 1..Len(timers)
            BY <3>1
        <3>3. e \in F /\ e.in = "loop" /\ e.timer = 0
            BY <1>1, <3>1, EnteredIs DEF Entered
        <3> HIDE DEF r, e
        <3>4. LET o == [e EXCEPT !.ready = r] IN
                  o \in F /\ o.timer = 0 /\ o.in = "loop" /\ o.ready = r
            BY <3>2, <3>3 DEF FrameOf
        <3> QED
            BY <3>4 DEF r, e
    <2>3. stack' = IF jobs > 0 THEN Append(outer, drain) ELSE Append(outer, loop)
        BY DEF Iterate
    <2>4. ~(jobs > 0) => jobs = 0
        BY <1>1, Types
    <2> HIDE DEF drain, loop, outer
    <2> QED
        BY <2>1, <2>2, <2>3, <2>4
<1>6. n # 0 => stack[n].in = "handler"
    <2>1. CASE stack = << >>
        BY <2>1, EmptySeq
    <2>2. CASE stack # << >>
        BY <1>1, <2>2, TopTypes DEF Iterate
    <2> QED
        BY <2>1, <2>2
<1> HIDE DEF outer
<1>7. /\ stack' \in Seq(F)
      /\ Len(stack') = n + 1
      /\ \A d \in 1..n : stack'[d] = outer[d]
      /\ stack'[n + 1] = x
      /\ stack' # << >>
      /\ Last(stack') = x
    BY <1>4, <1>5, Pushed
<1>8. TypeOK'
    <2>1. Frame' = F
        BY <1>3 DEF Frame, FrameOf
    <2> QED
        BY <1>1, <1>3, <1>7, <2>1 DEF TypeOK
<1>9. WellNested' /\ OneHasReady'
    <2>1. PICK m \in Nat : m = n + 1
        BY <1>2
    <2>2. NestsAt(m)'
        <3>1. stack'[m] = x
            BY <1>7, <2>1
        <3>2. m = 1 \/ stack'[m - 1].in = "handler"
            <4>1. m - 1 = n /\ (n # 0 => n \in 1..n)
                BY <1>2, <2>1
            <4>2. n # 0 => stack'[n].in = stack[n].in
                BY <1>4, <1>7, <4>1
            <4> QED
                BY <1>6, <2>1, <4>1, <4>2
        <3> QED
            BY <1>5, <3>1, <3>2 DEF NestsAt
    <2>3. Grows(x)
        BY <1>4, <1>7 DEF Grows
    <2>4. \A d \in 1..n : stack[d].timer \notin x.ready /\ 0 \notin x.ready
        BY <1>5 DEF Ready, OnStack
    <2>5. x.timer \notin x.ready
        BY <1>5 DEF Ready
    <2> QED
        BY <1>1, <1>4, <1>5, <1>7, <2>1, <2>2, <2>3, <2>4, <2>5, GrowStep DEF TimersInv
<1>10. \A t \in 1..Len(timers) : OnStack(t) => OnStack(t)'
    BY <1>2, <1>4, <1>7 DEF OnStack
<1>11. CalledIsOver' /\ ClearedIsOut' /\ MapMatchesSources'
    BY <1>3, <1>10, TimersStay
<1>12. DrainsAreOut'
    BY <1>2, <1>3, <1>4, <1>5, <1>7 DEF DrainsAreOut, TimersInv
<1>13. DrainedOrThrown'
    BY <1>3, <1>5, <1>7 DEF DrainedOrThrown, In, Top
<1>14. Last(stack').in # "handler"
    BY <1>5, <1>7
<1> QED
    BY <1>8, <1>9, <1>11, <1>12, <1>13, <1>14 DEF TimersInv

(* A handler is called.                                                     *)
LEMMA CallStep ==
    ASSUME TimersInv, NEW t \in Top.ready, In("loop"),
           timers[t].attached, t \in timeouts,
           stack' = Append(Append(Under, Passed(t)), Entered("handler", t)),
           timers' = [timers EXCEPT ![t].calls = IF @ < 2 THEN @ + 1 ELSE @],
           UNCHANGED <<timeouts, clock, jobs, queued>>
    PROVE  TimersInv' /\ Last(stack').timer = t
<1> DEFINE n == Len(stack)
           F == FrameOf(Len(timers))
           x == Entered("handler", t)
           p == Passed(t)
           r == [timers[t] EXCEPT !.calls = IF @ < 2 THEN @ + 1 ELSE @]
<1>1. TypeOK /\ stack # << >> /\ Top.in = "loop"
    BY DEF TimersInv, In
<1>2. /\ n \in Nat \ {0} /\ Top = stack[n] /\ Top \in F
      /\ Under \in Seq(F) /\ Len(Under) = n - 1
      /\ \A d \in 1..n - 1 : Under[d] = stack[d]
      /\ \A d \in 1..n : stack[d] \in F
    BY <1>1, TopTypes, Types
<1>3. t \in 1..Len(timers) /\ timers[t] \in Timer /\ Len(timers) \in Nat
    BY <1>1, <1>2, Types DEF FrameOf
<1>4. /\ p \in F /\ p.in = "loop" /\ p.timer = Top.timer
      /\ p.ready = Top.ready \ {t}
    BY <1>1, <1>2 DEF Passed, FrameOf
<1>5. x \in F /\ x.in = "handler" /\ x.timer = t /\ x.ready = {}
    BY <1>1, <1>3, EnteredIs DEF Entered
<1> HIDE DEF p, x
<1>6. /\ stack' \in Seq(F)
      /\ Len(stack') = n + 1
      /\ \A d \in 1..n - 1 : stack'[d] = stack[d]
      /\ stack'[n] = p
      /\ stack'[n + 1] = x
      /\ stack' # << >> /\ Last(stack') = x
    <2> DEFINE u == Append(Under, p)
    <2>1. /\ u \in Seq(F) /\ Len(u) = n
          /\ \A d \in 1..n - 1 : u[d] = stack[d]
          /\ u[n] = p
        <3>1. Len(Under) + 1 = n
            BY <1>2
        <3>2. /\ u \in Seq(F) /\ Len(u) = Len(Under) + 1
              /\ \A d \in 1..Len(Under) : u[d] = Under[d]
              /\ u[Len(Under) + 1] = p
            BY <1>2, <1>4, Pushed
        <3> HIDE DEF u
        <3> QED
            BY <1>2, <3>1, <3>2
    <2> HIDE DEF u
    <2>2. stack' = Append(u, x)
        BY DEF u, p, x
    <2>3. /\ stack' \in Seq(F) /\ Len(stack') = n + 1
          /\ \A d \in 1..n : stack'[d] = u[d]
          /\ stack'[n + 1] = x
          /\ stack' # << >> /\ Last(stack') = x
        <3>1. x \in F
            BY <1>5
        <3> HIDE DEF n, F
        <3>2. /\ Append(u, x) \in Seq(F)
              /\ Len(Append(u, x)) = Len(u) + 1
              /\ \A d \in 1..Len(u) : Append(u, x)[d] = u[d]
              /\ Append(u, x)[Len(u) + 1] = x
              /\ Append(u, x) # << >>
              /\ Last(Append(u, x)) = x
            BY <2>1, <3>1, Pushed
        <3> QED
            BY <2>1, <2>2, <3>2
    <2>4. n \in 1..n /\ \A d \in 1..n - 1 : d \in 1..n
        BY <1>2
    <2> HIDE DEF n, F
    <2> QED
        BY <2>1, <2>3, <2>4
<1>7. r \in Timer
    <2> DEFINE c == IF timers[t].calls < 2 THEN timers[t].calls + 1 ELSE timers[t].calls
    <2>1. c \in 0..2
        BY <1>3 DEF Timer
    <2>2. r = [timers[t] EXCEPT !.calls = c]
        OBVIOUS
    <2> HIDE DEF c
    <2> QED
        BY <1>3, <2>1, <2>2 DEF Timer
<1>8. timers' = [timers EXCEPT ![t] = r]
    BY <1>1, <1>3, Types DEF Timer
<1>9. r.attached = TRUE /\ r.interval = timers[t].interval /\ r.outcome = timers[t].outcome
      /\ (timers[t].calls = 0 => r.calls = 1)
    BY <1>3 DEF Timer
<1> HIDE DEF r
<1>10. /\ timers' \in Seq(Timer)
       /\ Len(timers') = Len(timers)
       /\ \A u \in 1..Len(timers) : u # t => timers'[u] = timers[u]
       /\ timers'[t] = r
    BY <1>1, <1>3, <1>7, <1>8, TimerChanged
<1>11. TypeOK'
    <2>1. Frame' = F
        BY <1>10 DEF Frame, FrameOf
    <2> QED
        BY <1>1, <1>6, <1>10, <2>1 DEF TypeOK
<1>12. \A d \in 1..n : stack[d].timer # t /\ (d # n => stack[d].ready = {})
    BY <1>2 DEF TimersInv, OneHasReady
<1>13. /\ \A d \in 1..n : /\ stack'[d].in = stack[d].in
                          /\ stack'[d].timer = stack[d].timer
                          /\ stack'[d].ready \subseteq stack[d].ready
                          /\ t \notin stack'[d].ready
    <2>1. \A d \in 1..n : d = n \/ d \in 1..n - 1
        BY <1>2
    <2>2. \A d \in 1..n - 1 : d \in 1..n /\ d # n
        BY <1>2
    <2> QED
        BY <1>1, <1>2, <1>4, <1>6, <1>12, <2>1, <2>2
<1>14. WellNested' /\ OneHasReady'
    <2>1. PICK m \in Nat : m = n + 1
        BY <1>2
    <2>2. NestsAt(m)'
        <3>1. m - 1 = n /\ m > 1
            BY <1>2, <2>1
        <3>2. stack'[m] = x /\ stack'[m - 1] = p
            BY <1>6, <2>1, <3>1
        <3>3. t # 0
            BY <1>3
        <3> QED
            BY <1>4, <1>5, <3>1, <3>2, <3>3 DEF NestsAt
    <2>3. Grows(x)
        BY <1>6, <1>13 DEF Grows
    <2> QED
        BY <1>1, <1>5, <1>13, <2>1, <2>2, <2>3, GrowStep DEF TimersInv
<1>15. \A u \in 1..Len(timers) : OnStack(u) \/ u = t => OnStack(u)'
    <2> SUFFICES ASSUME NEW u \in 1..Len(timers), OnStack(u) \/ u = t
                 PROVE  \E d \in 1..Len(stack') : stack'[d].timer = u
        BY DEF OnStack
    <2>1. CASE u = t
        <3>1. n + 1 \in 1..Len(stack')
            BY <1>2, <1>6
        <3> QED
            BY <1>5, <1>6, <2>1, <3>1
    <2>2. CASE OnStack(u)
        <3>1. PICK d \in 1..n : stack[d].timer = u
            BY <2>2 DEF OnStack
        <3>2. d \in 1..Len(stack') /\ stack'[d].timer = u
            BY <1>2, <1>6, <1>13, <3>1
        <3> QED
            BY <3>2
    <2> QED
        BY <2>1, <2>2
<1>16. CalledIsOver'
    <2>1. ~timers[t].interval => timers[t].calls = 0
        BY <1>3, <1>12 DEF TimersInv, CalledIsOver, OnStack
    <2> QED
        BY <1>3, <1>9, <1>10, <1>15, <2>1 DEF CalledIsOver, TimersInv
<1>17. ClearedIsOut'
    BY <1>3, <1>9, <1>10 DEF ClearedIsOut, TimersInv
<1>18. MapMatchesSources'
    BY <1>3, <1>9, <1>10, <1>15 DEF MapMatchesSources, TimersInv
<1>19. DrainsAreOut'
    <2>1. \A d \in 1..Len(stack') : d \in 1..n \/ stack'[d] = x
        BY <1>2, <1>6
    <2>2. \A d \in 1..n : stack[d].timer # 0 => stack[d].timer \in 1..Len(timers)
        BY <1>2, <1>3 DEF FrameOf
    <2> QED
        BY <1>5, <1>10, <1>12, <1>13, <2>1, <2>2 DEF DrainsAreOut, TimersInv
<1>20. DrainedOrThrown'
    BY <1>5, <1>6 DEF DrainedOrThrown, In, Top
<1> QED
    BY <1>5, <1>6, <1>11, <1>14, <1>16, <1>17, <1>18, <1>19, <1>20 DEF TimersInv

(* A source that is no longer attached, or no longer in the map.            *)
LEMMA PassStep ==
    ASSUME TimersInv, NEW t \in Top.ready, In("loop"),
           ~(timers[t].attached /\ t \in timeouts),
           stack' = Append(Under, Passed(t)),
           timers' = Destroyed(t),
           UNCHANGED <<timeouts, clock, jobs, queued>>
    PROVE  TimersInv' /\ Len(stack') = Len(stack)
<1> DEFINE n == Len(stack)
           F == FrameOf(Len(timers))
           p == Passed(t)
<1>1. TypeOK /\ stack # << >> /\ Top.in = "loop"
    BY DEF TimersInv, In
<1>2. /\ n \in Nat \ {0} /\ Top = stack[n] /\ Top \in F
      /\ Under \in Seq(F) /\ Len(Under) = n - 1
      /\ \A d \in 1..n - 1 : Under[d] = stack[d]
      /\ \A d \in 1..n : stack[d] \in F
    BY <1>1, TopTypes, Types
<1>3. t \in 1..Len(timers) /\ timers[t] \in Timer /\ Len(timers) \in Nat
    BY <1>1, <1>2, Types DEF FrameOf
<1>4. /\ p \in F /\ p.in = "loop" /\ p.timer = Top.timer /\ p.thrown = Top.thrown
      /\ p.ready = Top.ready \ {t}
    BY <1>1, <1>2 DEF Passed, FrameOf
<1> HIDE DEF p
<1>5. /\ stack' \in Seq(F) /\ Len(stack') = n
      /\ \A d \in 1..n - 1 : stack'[d] = stack[d]
      /\ stack'[n] = p
      /\ stack' # << >> /\ Last(stack') = p
    <2>1. Len(Under) + 1 = n /\ stack' = Append(Under, p)
        BY <1>2 DEF p
    <2> QED
        BY <1>2, <1>4, <2>1, Pushed
<1>6. DestroyedIs(t)
    BY <1>1, <1>3, SourceDestroyed
<1>7. TypeOK'
    <2>1. Frame' = F
        BY <1>6 DEF Frame, FrameOf, DestroyedIs
    <2> QED
        BY <1>1, <1>5, <1>6, <2>1 DEF TypeOK, DestroyedIs
<1>8. \A d \in 1..n : /\ stack'[d].in = stack[d].in
                     /\ stack'[d].timer = stack[d].timer
                     /\ stack'[d].ready \subseteq stack[d].ready
    <2>1. \A d \in 1..n : d = n \/ d \in 1..n - 1
        BY <1>2
    <2> QED
        BY <1>1, <1>2, <1>4, <1>5, <2>1
<1>9. WellNested' /\ OneHasReady'
    <2>1. Shrinks
        BY <1>2, <1>5, <1>8 DEF Shrinks
    <2> QED
        BY <1>1, <2>1, ShrinkStep DEF TimersInv
<1>10. \A u \in 1..Len(timers) : OnStack(u) => OnStack(u)'
    BY <1>5, <1>8 DEF OnStack
<1>11. CalledIsOver'
    BY <1>3, <1>6, <1>10 DEF CalledIsOver, TimersInv, DestroyedIs
<1>12. ClearedIsOut'
    BY <1>3, <1>6, <1>10 DEF ClearedIsOut, TimersInv, DestroyedIs
<1>13. MapMatchesSources'
    BY <1>3, <1>6, <1>10 DEF MapMatchesSources, TimersInv, DestroyedIs
<1>14. DrainsAreOut'
    <2> SUFFICES ASSUME NEW d \in 1..n, stack[d].in = "drain", stack[d].timer # 0,
                        ~timers'[stack[d].timer].interval
                 PROVE  stack[d].timer \notin timeouts
        BY <1>5, <1>8 DEF DrainsAreOut
    <2> DEFINE u == stack[d].timer
    <2>1. u \in 1..Len(timers)
        BY <1>2, <1>3 DEF FrameOf
    <2>2. timers'[u].interval = timers[u].interval
        BY <1>6, <2>1 DEF DestroyedIs
    <2> QED
        BY <2>2 DEF DrainsAreOut, TimersInv
<1>15. DrainedOrThrown'
    BY <1>1, <1>4, <1>5 DEF DrainedOrThrown, TimersInv, In, Top
<1> QED
    BY <1>5, <1>7, <1>9, <1>11, <1>12, <1>13, <1>14, <1>15 DEF TimersInv

(* The frame on top returns.                                                *)
LEMMA PopIs ==
    ASSUME TimersInv, stack # << >>, stack' = Under
    PROVE  /\ stack' \in Seq(FrameOf(Len(timers)))
           /\ Len(stack') = Len(stack) - 1
           /\ Len(stack) \in Nat \ {0}
           /\ \A d \in 1..Len(stack') : d \in 1..Len(stack) /\ stack'[d] = stack[d]
           /\ WellNested' /\ OneHasReady'
           /\ \A u \in 1..Len(timers) : OnStack(u) => u = Top.timer \/ OnStack(u)'
           /\ stack' # << >> => Len(stack) > 1 /\ Last(stack') = stack[Len(stack) - 1]
<1> DEFINE n == Len(stack)
           F == FrameOf(Len(timers))
<1>1. TypeOK
    BY DEF TimersInv
<1>2. /\ n \in Nat \ {0} /\ Top = stack[n]
      /\ stack' \in Seq(F) /\ Len(stack') = n - 1
      /\ \A d \in 1..n - 1 : stack'[d] = stack[d]
    BY <1>1, TopTypes
<1>3. \A d \in 1..Len(stack') : d \in 1..n /\ d # n /\ stack'[d] = stack[d]
    <2>1. \A d \in 1..n - 1 : d \in 1..n /\ d # n
        BY <1>2
    <2> QED
        BY <1>2, <2>1
<1>4. Shrinks
    BY <1>2, <1>3 DEF Shrinks
<1>5. WellNested' /\ OneHasReady'
    BY <1>1, <1>4, ShrinkStep DEF TimersInv
<1>6. \A d \in 1..n : d = n \/ d \in 1..Len(stack')
    BY <1>2
<1>7. \A u \in 1..Len(timers) : OnStack(u) => u = Top.timer \/ OnStack(u)'
    BY <1>2, <1>3, <1>6 DEF OnStack
<1>8. stack' # << >> => n > 1 /\ Last(stack') = stack[n - 1]
    <2> SUFFICES ASSUME stack' # << >> PROVE n > 1 /\ Last(stack') = stack[n - 1]
        OBVIOUS
    <2>1. Len(stack') \in Nat \ {0} /\ Last(stack') = stack'[Len(stack')]
        BY <1>2, Popped
    <2> QED
        BY <1>2, <1>3, <2>1
<1> QED
    BY <1>2, <1>3, <1>5, <1>7, <1>8

(* The end of an iteration, of a microtask, or of the drain by the source   *)
(* of the job queue: no timer is concerned.                                 *)
LEMMA DoneStep ==
    ASSUME TimersInv, stack # << >>, stack' = Under, Top.timer = 0,
           UNCHANGED <<timers, timeouts, clock, jobs, queued>>
    PROVE  TimersInv'
<1> DEFINE n == Len(stack)
<1>1. TypeOK /\ n \in Nat \ {0} /\ Top = stack[n]
    BY TopTypes DEF TimersInv
<1>2. TypeOK'
    <2>1. Frame' = FrameOf(Len(timers))
        BY DEF Frame, FrameOf
    <2> QED
        BY <1>1, <2>1, PopIs DEF TypeOK
<1>3. WellNested' /\ OneHasReady'
    BY PopIs
<1>4. CalledIsOver' /\ ClearedIsOut' /\ MapMatchesSources'
    <2>1. \A u \in 1..Len(timers) : OnStack(u) => OnStack(u)'
        BY PopIs
    <2> QED
        BY <2>1, TimersStay
<1>5. DrainsAreOut'
    BY PopIs DEF DrainsAreOut, TimersInv
<1>6. DrainedOrThrown'
    <2>1. stack' # << >> => n > 1 /\ Last(stack') = stack[n - 1]
        BY PopIs
    <2>2. n > 1 => stack[n - 1].in \in {"handler", "drain"} \/ Top.in = "handler"
        <3>1. Top.in \in {"loop", "handler", "drain", "job"}
            BY <1>1, TopTypes DEF FrameOf
        <3>2. NestsAt(n)
            BY <1>1 DEF TimersInv, WellNested
        <3> QED
            BY <1>1, <3>1, <3>2 DEF NestsAt
    <2>3. Top.in # "handler"
        BY <1>1 DEF TimersInv, WellNested, NestsAt
    <2> QED
        BY <2>1, <2>2, <2>3 DEF DrainedOrThrown, In, Top
<1> QED
    BY <1>2, <1>3, <1>4, <1>5, <1>6 DEF TimersInv

LEMMA RunJobStep ==
    ASSUME TimersInv, RunJob
    PROVE  TimersInv' /\ Last(stack').in = "job"
<1> DEFINE n == Len(stack)
           F == FrameOf(Len(timers))
           x == Entered("job", 0)
<1>1. TypeOK /\ n \in Nat \ {0} /\ Top = stack[n] /\ Top.in = "drain"
    BY TopTypes DEF TimersInv, RunJob, In
<1>2. x \in F /\ x.in = "job" /\ x.timer = 0 /\ x.ready = {}
    BY <1>1, Types, EnteredIs DEF Entered
<1> HIDE DEF x
<1>3. stack' = Append(stack, x) /\ UNCHANGED <<timers, timeouts, clock, queued>> /\ jobs' = jobs - 1
    BY DEF RunJob, x
<1>4. /\ stack' \in Seq(F) /\ Len(stack') = n + 1
      /\ \A d \in 1..n : stack'[d] = stack[d]
      /\ stack'[n + 1] = x
      /\ stack' # << >> /\ Last(stack') = x
    BY <1>1, <1>2, <1>3, Types, Pushed
<1>5. TypeOK'
    <2>1. Frame' = F
        BY <1>3 DEF Frame, FrameOf
    <2>2. jobs' \in 0..queued
        BY <1>1, <1>3, Types DEF TypeOK, RunJob
    <2> QED
        BY <1>1, <1>3, <1>4, <2>1, <2>2 DEF TypeOK
<1>6. WellNested' /\ OneHasReady'
    <2>1. PICK m \in Nat : m = n + 1
        BY <1>1
    <2>2. NestsAt(m)'
        <3>1. m - 1 = n /\ m > 1
            BY <1>1, <2>1
        <3>2. stack'[m] = x /\ stack'[m - 1] = Top
            BY <1>1, <1>4, <2>1, <3>1
        <3> QED
            BY <1>1, <1>2, <3>1, <3>2 DEF NestsAt
    <2>3. Grows(x)
        BY <1>4 DEF Grows
    <2>4. \A d \in 1..n : 0 \notin stack[d].ready
        BY <1>1, Types DEF FrameOf
    <2> QED
        BY <1>1, <1>2, <1>4, <2>1, <2>2, <2>3, <2>4, GrowStep DEF TimersInv
<1>7. \A u \in 1..Len(timers) : OnStack(u) => OnStack(u)'
    BY <1>1, <1>4 DEF OnStack
<1>8. CalledIsOver' /\ ClearedIsOut' /\ MapMatchesSources'
    BY <1>3, <1>7, TimersStay
<1>9. DrainsAreOut'
    BY <1>1, <1>2, <1>3, <1>4 DEF DrainsAreOut, TimersInv
<1>10. DrainedOrThrown'
    BY <1>2, <1>4 DEF DrainedOrThrown, In, Top
<1> QED
    BY <1>2, <1>4, <1>5, <1>6, <1>8, <1>9, <1>10 DEF TimersInv

(* The handler has returned: a timeout leaves the map, and its closure      *)
(* drains the queue.                                                        *)
LEMMA ReturnsStep ==
    ASSUME TimersInv, Returns
    PROVE  TimersInv' /\ Len(stack') = Len(stack)
<1> DEFINE n == Len(stack)
           F == FrameOf(Len(timers))
<1>1. /\ TypeOK /\ n \in Nat \ {0} /\ Top = stack[n] /\ Top.in = "handler" /\ Top \in F
      /\ Under \in Seq(F) /\ Len(Under) = n - 1
      /\ \A d \in 1..n - 1 : Under[d] = stack[d]
    BY TopTypes DEF TimersInv, Returns, In
<1>2. NestsAt(n)
    BY <1>1 DEF TimersInv, WellNested
<1>h. PICK h \in 0..Len(timers) : h = Top.timer
    BY <1>1 DEF FrameOf
<1> DEFINE x == Entered("drain", h)
<1>3. h # 0 /\ n > 1 /\ stack[n - 1].in = "loop" /\ h \in 1..Len(timers)
    BY <1>1, <1>2, <1>h, Types DEF NestsAt
<1>4. x \in F /\ x.in = "drain" /\ x.timer = h /\ x.ready = {}
    BY <1>1, <1>3, Types, EnteredIs DEF Entered
<1> HIDE DEF x
<1>5. stack' = Append(Under, x) /\ UNCHANGED <<timers, clock, jobs, queued>>
      /\ timeouts' = Released(h)
    BY <1>h DEF Returns, x
<1>6. /\ stack' \in Seq(F) /\ Len(stack') = n
      /\ \A d \in 1..n - 1 : stack'[d] = stack[d]
      /\ stack'[n] = x
      /\ stack' # << >> /\ Last(stack') = x
    <2>1. /\ stack' \in Seq(F) /\ Len(stack') = Len(Under) + 1
          /\ \A d \in 1..Len(Under) : stack'[d] = Under[d]
          /\ stack'[Len(Under) + 1] = x
          /\ stack' # << >> /\ Last(stack') = x
        BY <1>1, <1>4, <1>5, Pushed
    <2>2. Len(Under) + 1 = n
        BY <1>1
    <2> QED
        BY <1>1, <2>1, <2>2
<1>7. timeouts' \subseteq timeouts /\ \A u \in timeouts \ timeouts' : u = h /\ ~timers[h].interval
    BY <1>5 DEF Released
<1>8. TypeOK'
    <2>1. Frame' = F
        BY <1>5 DEF Frame, FrameOf
    <2> QED
        BY <1>1, <1>5, <1>6, <1>7, <2>1 DEF TypeOK
<1>9. \A d \in 1..n : d = n \/ d \in 1..n - 1
    BY <1>1
<1>10. \A d \in 1..n : stack'[d].timer = stack[d].timer /\ stack'[d].ready \subseteq stack[d].ready
    BY <1>1, <1>4, <1>6, <1>9, <1>h
<1>11. WellNested'
    <2> SUFFICES ASSUME NEW d \in 1..n PROVE NestsAt(d)'
        BY <1>6 DEF WellNested
    <2>1. CASE d = n
        <3>1. n - 1 \in 1..n - 1
            BY <1>1, <1>3
        <3>2. stack'[d] = x /\ stack'[d - 1] = stack[n - 1]
            BY <1>6, <2>1, <3>1
        <3> QED
            BY <1>3, <1>4, <2>1, <3>2 DEF NestsAt
    <2>2. CASE d \in 1..n - 1
        <3>1. NestsAt(d)
            BY <1>1, <2>2 DEF TimersInv, WellNested
        <3>2. d = 1 \/ (d > 1 /\ d - 1 \in 1..n - 1)
            BY <1>1, <2>2
        <3>3. stack'[d] = stack[d] /\ (d > 1 => stack'[d - 1] = stack[d - 1])
            BY <1>6, <2>2, <3>2
        <3> QED
            BY <3>1, <3>2, <3>3 DEF NestsAt
    <2> QED
        BY <1>9, <2>1, <2>2
<1>12. OneHasReady'
    BY <1>6, <1>10 DEF OneHasReady, TimersInv
<1>13. \A u \in 1..Len(timers) : OnStack(u) => OnStack(u)'
    BY <1>6, <1>10 DEF OnStack
<1>14. OnStack(h)'
    BY <1>1, <1>4, <1>6 DEF OnStack
<1>15. CalledIsOver'
    BY <1>5, <1>7, <1>13 DEF CalledIsOver, TimersInv
<1>16. ClearedIsOut'
    BY <1>5, <1>7 DEF ClearedIsOut, TimersInv
<1>17. MapMatchesSources'
    BY <1>5, <1>7, <1>13, <1>14 DEF MapMatchesSources, TimersInv
<1>18. DrainsAreOut'
    <2>1. ~timers[h].interval => h \notin timeouts'
        BY <1>5 DEF Released
    <2> QED
        BY <1>4, <1>5, <1>6, <1>7, <1>9, <2>1 DEF DrainsAreOut, TimersInv
<1>19. DrainedOrThrown'
    BY <1>4, <1>6 DEF DrainedOrThrown, In, Top
<1> QED
    BY <1>6, <1>8, <1>11, <1>12, <1>15, <1>16, <1>17, <1>18, <1>19 DEF TimersInv

(* The handler has thrown: its source is destroyed, and if it was still in  *)
(* the map it stays there.                                                  *)
LEMMA ThrowsStep ==
    ASSUME TimersInv, Throws
    PROVE  TimersInv' /\ Len(stack') = Len(stack) - 1
<1> DEFINE n == Len(stack)
           F == FrameOf(Len(timers))
           y == [Last(Under) EXCEPT !.thrown = TRUE]
<1>1. /\ TypeOK /\ stack # << >> /\ n \in Nat \ {0} /\ Top = stack[n]
      /\ Top.in = "handler" /\ Top \in F
      /\ Under \in Seq(F) /\ Len(Under) = n - 1
      /\ \A d \in 1..n - 1 : Under[d] = stack[d]
    BY TopTypes DEF TimersInv, Throws, In
<1>2. NestsAt(n)
    BY <1>1 DEF TimersInv, WellNested
<1>h. PICK h \in 0..Len(timers) : h = Top.timer
    BY <1>1 DEF FrameOf
<1> DEFINE r == [timers[h] EXCEPT !.attached = FALSE,
                                  !.outcome = IF h \in timeouts THEN "threw" ELSE @]
<1>3. h # 0 /\ n > 1 /\ stack[n - 1].in = "loop" /\ h \in 1..Len(timers)
    BY <1>1, <1>2, <1>h, Types DEF NestsAt
<1>4. Under # << >> /\ Last(Under) = stack[n - 1] /\ Last(Under) \in F
    <2>1. Under # << >>
        BY <1>1, <1>3, EmptySeq
    <2>2. Last(Under) = Under[n - 1] /\ Last(Under) \in F
        BY <1>1, <2>1, Popped
    <2>3. n - 1 \in 1..n - 1
        BY <1>1, <1>3
    <2> QED
        BY <1>1, <2>1, <2>2, <2>3
<1>5. /\ y \in F /\ y.in = "loop" /\ y.timer = stack[n - 1].timer
      /\ y.ready = stack[n - 1].ready /\ y.thrown = TRUE
    BY <1>3, <1>4 DEF FrameOf
<1> HIDE DEF y
<1>6. /\ stack' \in Seq(F) /\ Len(stack') = n - 1
      /\ \A d \in 1..n - 2 : stack'[d] = stack[d]
      /\ stack'[n - 1] = y
      /\ stack' # << >> /\ Last(stack') = y
    <2> DEFINE u == Front(Under)
    <2>1. /\ u \in Seq(F) /\ Len(u) = n - 2
          /\ \A d \in 1..n - 2 : u[d] = stack[d]
        <3>1. /\ u \in Seq(F) /\ Len(u) = Len(Under) - 1
              /\ \A d \in 1..Len(Under) - 1 : u[d] = Under[d]
            BY <1>1, <1>4, Popped
        <3>2. Len(Under) - 1 = n - 2 /\ \A d \in 1..n - 2 : d \in 1..n - 1
            BY <1>1
        <3> QED
            BY <1>1, <3>1, <3>2
    <2>2. stack' = Append(u, y)
        BY DEF Throws, y
    <2> HIDE DEF u
    <2>3. /\ stack' \in Seq(F) /\ Len(stack') = Len(u) + 1
          /\ \A d \in 1..Len(u) : stack'[d] = u[d]
          /\ stack'[Len(u) + 1] = y
          /\ stack' # << >> /\ Last(stack') = y
        BY <1>5, <2>1, <2>2, Pushed
    <2>4. Len(u) + 1 = n - 1
        BY <1>1, <2>1
    <2> QED
        BY <2>1, <2>3, <2>4
<1>7. /\ r \in Timer /\ r.attached = FALSE /\ r.interval = timers[h].interval
      /\ r.calls = timers[h].calls
      /\ r.outcome = IF h \in timeouts THEN "threw" ELSE timers[h].outcome
    <2>1. timers[h] \in Timer
        BY <1>1, <1>3, Types
    <2> DEFINE o == IF h \in timeouts THEN "threw" ELSE timers[h].outcome
    <2>2. o \in {"none", "cleared", "threw"}
        BY <2>1 DEF Timer
    <2>3. r = [timers[h] EXCEPT !.attached = FALSE, !.outcome = o]
        BY <2>1 DEF Timer
    <2> HIDE DEF o, r
    <2>4. /\ r \in Timer /\ r.attached = FALSE /\ r.interval = timers[h].interval
          /\ r.calls = timers[h].calls /\ r.outcome = o
        BY <2>1, <2>2, <2>3 DEF Timer
    <2> QED
        BY <2>4 DEF o
<1>8. timers' = [timers EXCEPT ![h] = r] /\ UNCHANGED <<timeouts, clock, jobs, queued>>
    <2>1. timers' = Thrown(h)
        BY <1>h DEF Throws
    <2>2. timers \in Seq(Timer) /\ timers[h] \in Timer
        BY <1>1, <1>3, Types
    <2> QED
        BY <1>3, <2>1, <2>2 DEF Thrown, Destroyed, Throws, Timer
<1> HIDE DEF r
<1>9. /\ timers' \in Seq(Timer)
      /\ Len(timers') = Len(timers)
      /\ \A u \in 1..Len(timers) : u # h => timers'[u] = timers[u]
      /\ timers'[h] = r
    BY <1>1, <1>3, <1>7, <1>8, TimerChanged
<1>10. TypeOK'
    <2>1. Frame' = F
        BY <1>9 DEF Frame, FrameOf
    <2> QED
        BY <1>1, <1>6, <1>8, <1>9, <2>1 DEF TypeOK
<1>11. \A d \in 1..Len(stack') : /\ d \in 1..n
                                /\ stack'[d].in = stack[d].in
                                /\ stack'[d].timer = stack[d].timer
                                /\ stack'[d].ready \subseteq stack[d].ready
    <2>1. \A d \in 1..n - 1 : d \in 1..n /\ (d = n - 1 \/ d \in 1..n - 2)
        BY <1>1
    <2> QED
        BY <1>3, <1>5, <1>6, <2>1
<1>12. WellNested' /\ OneHasReady'
    <2>1. Shrinks
        BY <1>1, <1>3, <1>6, <1>11 DEF Shrinks
    <2> QED
        BY <1>1, <2>1, ShrinkStep DEF TimersInv
<1>13. \A u \in 1..Len(timers) : u # h /\ OnStack(u) => OnStack(u)'
    <2>1. \A d \in 1..n : d = n \/ d \in 1..Len(stack')
        BY <1>1, <1>6
    <2> QED
        BY <1>1, <1>h, <1>11, <2>1 DEF OnStack
<1>14. CalledIsOver'
    BY <1>3, <1>7, <1>8, <1>9, <1>13 DEF CalledIsOver, TimersInv
<1>15. ClearedIsOut'
    BY <1>3, <1>7, <1>8, <1>9 DEF ClearedIsOut, TimersInv
<1>16. MapMatchesSources'
    BY <1>3, <1>7, <1>8, <1>9, <1>13 DEF MapMatchesSources, TimersInv
<1>17. DrainsAreOut'
    <2>1. \A d \in 1..n : stack[d].timer # 0 => stack[d].timer \in 1..Len(timers)
        BY <1>1, Types DEF FrameOf
    <2> QED
        BY <1>7, <1>8, <1>9, <1>11, <2>1 DEF DrainsAreOut, TimersInv
<1>18. DrainedOrThrown'
    BY <1>5, <1>6 DEF DrainedOrThrown, In, Top
<1> QED
    BY <1>6, <1>10, <1>12, <1>14, <1>15, <1>16, <1>17, <1>18 DEF TimersInv

(* The queue is empty again: a timeout's source is destroyed, an interval's *)
(* gets a new expiration.                                                   *)
LEMMA DrainDoneStep ==
    ASSUME TimersInv, DrainDone
    PROVE  TimersInv'
<1> DEFINE n == Len(stack)
           F == FrameOf(Len(timers))
<1>1. /\ TypeOK /\ stack # << >> /\ n \in Nat \ {0} /\ Top = stack[n]
      /\ Top.in = "drain" /\ Top \in F
    BY TopTypes DEF TimersInv, DrainDone, In
<1>2. stack' = Under /\ UNCHANGED <<timeouts, clock, jobs, queued>> /\ jobs = 0
    BY DEF DrainDone
<1>3. CASE Top.timer = 0
    BY <1>1, <1>2, <1>3, DoneStep DEF DrainDone
<1>4. CASE Top.timer # 0
    <2>h. PICK h \in 1..Len(timers) : h = Top.timer
        BY <1>1, <1>4, Types DEF FrameOf
    <2>1. timers' = Returned(h)
        BY <1>4, <2>h DEF DrainDone
    <2>2. /\ timers' \in Seq(Timer)
          /\ Len(timers') = Len(timers)
          /\ \A u \in 1..Len(timers) : u # h => timers'[u] = timers[u]
          /\ timers'[h].interval = timers[h].interval
          /\ timers'[h].calls = timers[h].calls
          /\ timers'[h].outcome = timers[h].outcome
          /\ timers'[h].attached <=> timers[h].attached /\ timers[h].interval
        <3>1. CASE timers[h].interval
            <4> DEFINE r == [timers[h] EXCEPT !.due = clock + timers[h].delay]
            <4>1. timers[h] \in Timer /\ timers \in Seq(Timer)
                BY <1>1, Types
            <4>2. clock + timers[h].delay \in Nat
                <5>1. clock \in Nat
                    BY <1>1, Types
                <5>2. timers[h].delay \in Nat
                    BY <4>1 DEF Timer
                <5> QED
                    BY <5>1, <5>2
            <4>3. /\ r \in Timer /\ r.interval = timers[h].interval
                  /\ r.calls = timers[h].calls /\ r.outcome = timers[h].outcome
                  /\ r.attached = timers[h].attached
                BY <4>1, <4>2 DEF Timer
            <4>4. timers' = [timers EXCEPT ![h] = r]
                BY <2>1, <3>1, <4>1 DEF Returned
            <4> HIDE DEF r
            <4> QED
                <5>1. /\ timers' \in Seq(Timer)
                      /\ Len(timers') = Len(timers)
                      /\ \A u \in 1..Len(timers) : u # h => timers'[u] = timers[u]
                      /\ timers'[h] = r
                    BY <1>1, <4>3, <4>4, TimerChanged
                <5> QED
                    BY <3>1, <4>3, <5>1
        <3>2. CASE ~timers[h].interval
            <4>1. timers' = Destroyed(h)
                BY <2>1, <3>2 DEF Returned
            <4> QED
                BY <1>1, <3>2, <4>1, SourceDestroyed DEF DestroyedIs
        <3> QED
            BY <3>1, <3>2
    <2>3. TypeOK'
        <3>1. Frame' = F
            BY <2>2 DEF Frame, FrameOf
        <3> QED
            BY <1>1, <1>2, <2>2, <3>1, PopIs DEF TypeOK
    <2>4. WellNested' /\ OneHasReady'
        BY <1>1, <1>2, PopIs
    <2>5. \A u \in 1..Len(timers) : u # h /\ OnStack(u) => OnStack(u)'
        BY <1>1, <1>2, <2>h, PopIs
    <2>6. timers[h].interval \/ h \notin timeouts
        BY <1>1, <1>4, <2>h DEF DrainsAreOut, TimersInv
    <2>7. CalledIsOver'
        BY <1>2, <2>2, <2>5 DEF CalledIsOver, TimersInv
    <2>8. ClearedIsOut'
        BY <1>2, <2>2 DEF ClearedIsOut, TimersInv
    <2>9. MapMatchesSources'
        BY <1>2, <2>2, <2>5, <2>6 DEF MapMatchesSources, TimersInv
    <2>10. DrainsAreOut'
        <3>1. \A d \in 1..n : stack[d].timer # 0 => stack[d].timer \in 1..Len(timers)
            BY <1>1, Types DEF FrameOf
        <3> QED
            <4>1. \A u \in 1..Len(timers) : timers'[u].interval = timers[u].interval
                BY <2>2
            <4>2. \A d \in 1..Len(stack') : d \in 1..n /\ stack'[d] = stack[d]
                BY <1>1, <1>2, PopIs
            <4> QED
                BY <1>2, <3>1, <4>1, <4>2 DEF DrainsAreOut, TimersInv
    <2>11. DrainedOrThrown'
        BY <1>2 DEF DrainedOrThrown
    <2> QED
        BY <2>3, <2>4, <2>7, <2>8, <2>9, <2>10, <2>11 DEF TimersInv
<1> QED
    BY <1>3, <1>4

LEMMA TimersNext == TimersInv /\ [Next]_vars => TimersInv'
<1> SUFFICES ASSUME TimersInv, [Next]_vars PROVE TimersInv'
    OBVIOUS
<1>1. CASE \E interval \in BOOLEAN, delay \in Delays : SetTimer(interval, delay)
    BY <1>1, SetTimerStep
<1>2. CASE \E t \in timeouts : Clear(t)
    BY <1>2, ClearStep
<1>3. CASE QueueMicrotask \/ Tick
    BY <1>3, QuietStep
<1>4. CASE Iterate
    BY <1>4, IterateStep
<1>5. CASE Dispatch
    <2>1. PICK t \in Top.ready :
             IF timers[t].attached /\ t \in timeouts
             THEN /\ stack' = Append(Append(Under, Passed(t)), Entered("handler", t))
                  /\ timers' = [timers EXCEPT ![t].calls = IF @ < 2 THEN @ + 1 ELSE @]
             ELSE /\ stack' = Append(Under, Passed(t))
                  /\ timers' = Destroyed(t)
        BY <1>5 DEF Dispatch
    <2>2. In("loop") /\ UNCHANGED <<timeouts, clock, jobs, queued>>
        BY <1>5 DEF Dispatch
    <2>3. CASE timers[t].attached /\ t \in timeouts
        BY <2>1, <2>2, <2>3, CallStep
    <2>4. CASE ~(timers[t].attached /\ t \in timeouts)
        BY <2>1, <2>2, <2>4, PassStep
    <2> QED
        BY <2>3, <2>4
<1>6. CASE IterationDone \/ JobDone
    <2>1. stack # << >> /\ stack' = Under /\ UNCHANGED <<timers, timeouts, clock, jobs, queued>>
        BY <1>6 DEF IterationDone, JobDone, In
    <2>2. Top.timer = 0
        <3>1. Top = stack[Len(stack)] /\ Len(stack) \in Nat \ {0}
            BY <2>1, TopTypes DEF TimersInv
        <3>2. NestsAt(Len(stack))
            BY <3>1 DEF TimersInv, WellNested
        <3> QED
            BY <1>6, <3>1, <3>2 DEF NestsAt, IterationDone, JobDone, In
    <2> QED
        BY <2>1, <2>2, DoneStep
<1>7. CASE RunJob
    BY <1>7, RunJobStep
<1>8. CASE Returns
    BY <1>8, ReturnsStep
<1>9. CASE Throws
    BY <1>9, ThrowsStep
<1>10. CASE DrainDone
    BY <1>10, DrainDoneStep
<1>11. CASE UNCHANGED vars
    <2>1. TypeOK'
        BY <1>11 DEF vars, TimersInv, TypeOK, Frame
    <2> QED
        BY <1>11, <2>1 DEF vars, TimersInv, WellNested, NestsAt, OneHasReady, CalledIsOver,
               ClearedIsOut, MapMatchesSources, DrainsAreOut, DrainedOrThrown, OnStack, In, Top
<1> QED
    BY <1>1, <1>2, <1>3, <1>4, <1>5, <1>6, <1>7, <1>8, <1>9, <1>10, <1>11 DEF Next, Running

LEMMA TimersInvariant == Spec => []TimersInv
BY TimersInit, TimersNext, PTL DEF Spec

-----------------------------------------------------------------------------
(* Only the dispatch of a source that the map has enters its handler.       *)
LEMMA HandlerEntered ==
    ASSUME TimersInv, Next, NEW t \in 1..Len(timers), EntersHandler(t)
    PROVE  t \in timeouts /\ In("loop")
<1>1. TypeOK /\ Len(stack) \in Nat /\ Len(stack') > Len(stack)
    BY Types DEF TimersInv, EntersHandler
<1>2. Last(stack').in = "handler" /\ Last(stack').timer = t
    BY DEF EntersHandler
<1>3. ~UNCHANGED stack
    BY <1>1
<1>4. ~(\E interval \in BOOLEAN, delay \in Delays : SetTimer(interval, delay))
    BY <1>3 DEF SetTimer
<1>5. ~(\E u \in timeouts : Clear(u))
    BY <1>3 DEF Clear
<1>6. ~QueueMicrotask /\ ~Tick
    BY <1>3 DEF QueueMicrotask, Tick
<1>7. ~Iterate
    BY <1>2, IterateStep
<1>8. ~IterationDone /\ ~JobDone /\ ~DrainDone
    <2>1. SUFFICES ASSUME stack # << >>, stack' = Under PROVE FALSE
        BY DEF IterationDone, JobDone, DrainDone, In
    <2>2. Len(stack') = Len(stack) - 1
        BY <2>1, PopIs
    <2> QED
        BY <1>1, <2>2
<1>9. ~RunJob
    BY <1>2, RunJobStep
<1>10. ~Returns
    BY <1>1, ReturnsStep
<1>11. ~Throws
    BY <1>1, ThrowsStep
<1>12. Dispatch
    BY <1>4, <1>5, <1>6, <1>7, <1>8, <1>9, <1>10, <1>11 DEF Next, Running
<1>13. PICK u \in Top.ready :
          IF timers[u].attached /\ u \in timeouts
          THEN /\ stack' = Append(Append(Under, Passed(u)), Entered("handler", u))
               /\ timers' = [timers EXCEPT ![u].calls = IF @ < 2 THEN @ + 1 ELSE @]
          ELSE /\ stack' = Append(Under, Passed(u))
               /\ timers' = Destroyed(u)
    BY <1>12 DEF Dispatch
<1>14. In("loop") /\ UNCHANGED <<timeouts, clock, jobs, queued>>
    BY <1>12 DEF Dispatch
<1>15. CASE timers[u].attached /\ u \in timeouts
    BY <1>2, <1>13, <1>14, <1>15, CallStep
<1>16. CASE ~(timers[u].attached /\ u \in timeouts)
    BY <1>1, <1>13, <1>14, <1>16, PassStep
<1> QED
    BY <1>15, <1>16

(* In every reachable state each variable keeps its type: the map and the   *)
(* stack name timers that were set, and no delay is negative.               *)
THEOREM TimersTypeCorrect == Spec => []TypeOK
<1>1. TimersInv => TypeOK
    BY DEF TimersInv
<1> QED
    BY <1>1, TimersInvariant, PTL

(* Whatever a handler does -- run main loops, throw, clear, set timers --    *)
(* the map has each source that may still call, and besides these only what *)
(* a throwing handler has left there.                                       *)
THEOREM SourcesAreInTheMap == Spec => []MapMatchesSources
<1>1. TimersInv => MapMatchesSources
    BY DEF TimersInv
<1> QED
    BY <1>1, TimersInvariant, PTL

(* setTimeout() never calls its handler a second time.                      *)
THEOREM TimeoutsCallOnce == Spec => []OnceEach
<1>1. TimersInv => OnceEach
    <2> SUFFICES ASSUME TimersInv, NEW t \in 1..Len(timers), ~timers[t].interval
                 PROVE  timers[t].calls <= 1
        BY DEF OnceEach
    <2>1. timers[t].calls = 0 \/ timers[t].calls = 1
        BY DEF TimersInv, CalledIsOver
    <2> QED
        BY <2>1
<1> QED
    BY <1>1, TimersInvariant, PTL

(* No step enters the handler of a timer that has been cleared.             *)
THEOREM ClearedIsNeverCalled == Spec => ClearedStaysQuiet
<1> DEFINE Quiet == \A t \in 1..Len(timers) : EntersHandler(t) => timers[t].outcome # "cleared"
<1>1. TimersInv /\ [Next]_vars => [Quiet]_vars
    <2> SUFFICES ASSUME TimersInv, Next PROVE Quiet
        BY DEF vars
    <2> QED
        BY HandlerEntered DEF TimersInv, ClearedIsOut
<1>2. Spec => [][Quiet]_vars
    BY <1>1, TimersInvariant, PTL DEF Spec
<1> QED
    BY <1>2 DEF ClearedStaysQuiet

(* No step enters a handler while microtasks of another wait, unless a      *)
(* handler of the same iteration has thrown.                                *)
THEOREM MicrotasksGoFirst == Spec => MicrotasksFirst
<1> DEFINE Drained == \A t \in 1..Len(timers) :
                          EntersHandler(t) => jobs = 0 \/ Last(stack).thrown
<1>1. TimersInv /\ [Next]_vars => [Drained]_vars
    <2> SUFFICES ASSUME TimersInv, Next PROVE Drained
        BY DEF vars
    <2> QED
        BY HandlerEntered DEF TimersInv, DrainedOrThrown, Top
<1>2. Spec => [][Drained]_vars
    BY <1>1, TimersInvariant, PTL DEF Spec
<1> QED
    BY <1>2 DEF MicrotasksFirst

=============================================================================
