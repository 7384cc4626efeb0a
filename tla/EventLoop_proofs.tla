-------------------------- MODULE EventLoop_proofs --------------------------
(***************************************************************************)
(* For any number of jobs, frames, nested loops, imports and stops of the  *)
(* debugger: the queue is drained at most once at a time, no job gets lost *)
(* between the drains, and none starts after System.exit().                *)
(*                                                                         *)
(* The invariant is about the call stack.  A stop of the debugger divides  *)
(* it; each part belongs to one queue, the part above the innermost stop   *)
(* to m_job_queue and the part below a stop to the queue that it saved.    *)
(***************************************************************************)
EXTENDS EventLoop, SequenceTheorems, FiniteSetTheorems, TLAPS

(* Frames and jobs without the bounds of the model.                        *)
AnyJob == [id : Nat, tag : Tag]
Queue == Seq(AnyJob)
AnyFrame == [kind : Kind, ix : Nat, tasks : Nat, saved : Queue, was : BOOLEAN, kill : BOOLEAN]

StopKind == {"debugger", "debugjobs", "resume"}
CalledKind == {"job", "import"}
PlainKind == Kind \ (DrainKind \cup StopKind)

DrainsOf(s) == {i \in 1..Len(s) : s[i].kind \in DrainKind}
StopsOf(s) == {i \in 1..Len(s) : s[i].kind \in StopKind}

(* The drain at l is in the part of the stack that the stop at k has       *)
(* interrupted; the part above all stops has k = 0.                        *)
InPart(s, k, l) ==
    /\ l \in DrainsOf(s)
    /\ k < l
    /\ \A m \in StopsOf(s) : ~(k < m /\ m < l)

(* What a drain has passed is blank.                                       *)
Passed(f, q) == f.ix <= Len(q) /\ \A j \in 1..f.ix : q[j] = Blank

(* The part that belongs to the queue q and the flag d has a drain if the  *)
(* flag is set, and then the queue is blank up to where it is.             *)
PartIs(s, k, d, q) ==
    /\ \A l \in DrainsOf(s) : InPart(s, k, l) => d /\ Passed(s[l], q)
    /\ d => \E l \in DrainsOf(s) : InPart(s, k, l)

Separate(s) ==
    \A i, j \in DrainsOf(s) : i < j => \E k \in StopsOf(s) : i < k /\ k < j

SavedParts(s) == \A k \in StopsOf(s) : PartIs(s, k, s[k].was, s[k].saved)
Orderly(s, d, q) == Separate(s) /\ PartIs(s, 0, d, q) /\ SavedParts(s)

(* A job is called by a drain, the debugger stops JavaScript of the        *)
(* program, and only a stop has a queue.                                   *)
Fits(f, s) ==
    /\ f.kind \in CalledKind => s # << >> /\ Head(s).kind \in DrainKind
    /\ f.kind \in StopKind => s # << >> /\ Head(s).kind \in JSKind \ StopKind
    /\ f.kind \notin StopKind => f.saved = << >>

Nested(s) ==
    \A i \in 1..Len(s) :
        /\ s[i].kind \in CalledKind => i < Len(s) /\ s[i + 1].kind \in DrainKind
        /\ s[i].kind \in StopKind => i < Len(s) /\ s[i + 1].kind \in JSKind \ StopKind
        /\ s[i].kind \notin StopKind => s[i].saved = << >>

LoopTypes ==
    /\ slots \in Queue
    /\ draining \in BOOLEAN
    /\ attached \in {"yes", "destroyed"}
    /\ stack \in Seq(AnyFrame)
    /\ cleanups \in Nat
    /\ loads \in Nat
    /\ born \in Nat

Sound(s, d, q) == Orderly(s, d, q) /\ Nested(s)
LoopInv == LoopTypes /\ Sound(stack, draining, slots)

(* The jobs in a queue, and in all the queues there are.                   *)
JobsOf(q) == {q[j] : j \in 1..Len(q)} \ {Blank}
SavedJobs(s) == UNION {JobsOf(s[k].saved) : k \in 1..Len(s)}
AllJobs(s, q) == JobsOf(q) \cup SavedJobs(s)

-----------------------------------------------------------------------------
(* A stack with one frame more.                                            *)
LEMMA Pushed ==
    ASSUME NEW S, NEW s \in Seq(S), NEW f \in S
    PROVE  /\ <<f>> \o s \in Seq(S)
           /\ Len(<<f>> \o s) = Len(s) + 1
           /\ (<<f>> \o s)[1] = f
           /\ \A i \in 1..Len(s) : (<<f>> \o s)[i + 1] = s[i]
           /\ <<f>> \o s # << >>
           /\ Head(<<f>> \o s) = f
           /\ Tail(<<f>> \o s) = s
<1> DEFINE t == <<f>> \o s
<1>1. <<f>> \in Seq(S) /\ Len(<<f>>) = 1 /\ <<f>>[1] = f
    OBVIOUS
<1>2. Len(s) \in Nat
    BY LenProperties
<1>3. /\ t \in Seq(S) /\ Len(t) = 1 + Len(s)
      /\ \A i \in 1..1 + Len(s) : t[i] = IF i <= 1 THEN <<f>>[i] ELSE s[i - 1]
    BY <1>1, ConcatProperties
<1> HIDE DEF t
<1>4. t[1] = f /\ \A i \in 1..Len(s) : t[i + 1] = s[i]
    BY <1>1, <1>2, <1>3
<1>5. t # << >>
    BY <1>2, <1>3
<1>6. Head(t) = f
    BY <1>3, <1>4, <1>5
<1>7. Tail(t) \in Seq(S) /\ Len(Tail(t)) = Len(s) /\ \A i \in 1..Len(s) : Tail(t)[i] = t[i + 1]
    BY <1>2, <1>3, <1>5, HeadTailProperties
<1>8. Tail(t) = s
    BY <1>4, <1>7, SeqEqual
<1> QED
    BY <1>2, <1>3, <1>4, <1>5, <1>6, <1>8 DEF t

(* A stack is its top frame and the rest.                                  *)
LEMMA TopAndRest ==
    ASSUME NEW S, NEW s \in Seq(S), s # << >>
    PROVE  /\ Head(s) \in S
           /\ Tail(s) \in Seq(S)
           /\ s = <<Head(s)>> \o Tail(s)
<1>1. Head(s) \in S /\ Tail(s) \in Seq(S) /\ Len(Tail(s)) = Len(s) - 1
      /\ \A i \in 1..Len(Tail(s)) : Tail(s)[i] = s[i + 1]
    BY HeadTailProperties
<1>2. Len(s) \in Nat \ {0} /\ Head(s) = s[1]
    BY EmptySeq
<1> DEFINE h == Head(s)
           r == Tail(s)
           t == <<h>> \o r
<1> HIDE DEF h, r
<1>3. /\ t \in Seq(S) /\ Len(t) = Len(r) + 1 /\ t[1] = h
      /\ \A i \in 1..Len(r) : t[i + 1] = r[i]
    BY <1>1, Pushed DEF h, r
<1> HIDE DEF t
<1>4. \A i \in 1..Len(s) : s[i] = t[i]
    <2> SUFFICES ASSUME NEW i \in 1..Len(s)
                 PROVE  s[i] = t[i]
        OBVIOUS
    <2>1. CASE i = 1
        BY <1>2, <1>3, <2>1 DEF h
    <2>2. CASE i # 1
        <3>1. i - 1 \in 1..Len(r) /\ (i - 1) + 1 = i
            BY <1>1, <1>2, <2>2 DEF r
        <3>2. t[(i - 1) + 1] = r[i - 1] /\ r[i - 1] = s[(i - 1) + 1]
            BY <1>1, <1>3, <3>1 DEF r
        <3> QED
            BY <3>1, <3>2
    <2> QED
        BY <2>1, <2>2
<1>5. Len(t) = Len(s)
    BY <1>1, <1>2, <1>3 DEF r
<1>6. s = t
    BY <1>3, <1>4, <1>5, SeqEqual
<1> QED
    BY <1>1, <1>6 DEF t, h, r
-----------------------------------------------------------------------------
(* The parts of a stack with one frame more: t is f above s.               *)
Above(t, f, s) ==
    /\ s \in Seq(AnyFrame)
    /\ t \in Seq(AnyFrame)
    /\ f \in AnyFrame
    /\ Len(s) \in Nat
    /\ Len(t) = Len(s) + 1
    /\ t[1] = f
    /\ \A i \in 1..Len(s) : t[i + 1] = s[i]

LEMMA PushedAbove ==
    ASSUME NEW s \in Seq(AnyFrame), NEW f \in AnyFrame
    PROVE  Above(<<f>> \o s, f, s)
BY Pushed, LenProperties DEF Above

LEMMA Shift ==
    ASSUME NEW t, NEW f, NEW s, Above(t, f, s)
    PROVE  /\ \A i \in DrainsOf(s) : i \in Nat \ {0} /\ i + 1 \in DrainsOf(t)
           /\ \A i \in DrainsOf(t) : i \in Nat \ {0} /\ (i # 1 => i - 1 \in DrainsOf(s))
           /\ 1 \in DrainsOf(t) <=> f.kind \in DrainKind
           /\ \A i \in StopsOf(s) : i \in Nat \ {0} /\ i + 1 \in StopsOf(t)
           /\ \A i \in StopsOf(t) : i \in Nat \ {0} /\ (i # 1 => i - 1 \in StopsOf(s))
           /\ 1 \in StopsOf(t) <=> f.kind \in StopKind
           /\ \A i \in DrainsOf(s) \cup StopsOf(s) : t[i + 1] = s[i]
           /\ \A i \in DrainsOf(t) \cup StopsOf(t) : i # 1 => t[i] = s[i - 1]
<1>1. \A i \in 1..Len(t) : i # 1 => i - 1 \in 1..Len(s) /\ t[i] = s[i - 1]
    <2> SUFFICES ASSUME NEW i \in 1..Len(t), i # 1
                 PROVE  i - 1 \in 1..Len(s) /\ t[i] = s[i - 1]
        OBVIOUS
    <2>1. i - 1 \in 1..Len(s) /\ (i - 1) + 1 = i
        BY DEF Above
    <2>2. t[(i - 1) + 1] = s[i - 1]
        BY <2>1 DEF Above
    <2> QED
        BY <2>1, <2>2
<1>2. \A i \in 1..Len(s) : i + 1 \in 1..Len(t) /\ t[i + 1] = s[i]
    BY DEF Above
<1>3. 1 \in 1..Len(t) /\ t[1] = f
    BY DEF Above
<1> QED
    BY <1>1, <1>2, <1>3 DEF DrainsOf, StopsOf

LEMMA PartShift ==
    ASSUME NEW t, NEW f, NEW s, Above(t, f, s), NEW k \in Nat
    PROVE  /\ \A l \in DrainsOf(s) : InPart(s, k, l) <=> InPart(t, k + 1, l + 1)
           /\ \A l \in DrainsOf(t) : InPart(t, k + 1, l) =>
                                          l - 1 \in DrainsOf(s) /\ InPart(s, k, l - 1)
<1>1. \A l \in DrainsOf(s) : InPart(s, k, l) <=> InPart(t, k + 1, l + 1)
    <2> SUFFICES ASSUME NEW l \in DrainsOf(s)
                 PROVE  InPart(s, k, l) <=> InPart(t, k + 1, l + 1)
        OBVIOUS
    <2>1. l \in Nat \ {0} /\ l + 1 \in DrainsOf(t)
        BY Shift
    <2>2. ASSUME InPart(s, k, l)
          PROVE  InPart(t, k + 1, l + 1)
        <3>1. \A m \in StopsOf(t) : ~(k + 1 < m /\ m < l + 1)
            <4> SUFFICES ASSUME NEW m \in StopsOf(t), k + 1 < m, m < l + 1
                         PROVE  FALSE
                OBVIOUS
            <4>1. m \in Nat /\ m # 1
                BY Shift
            <4>2. m - 1 \in StopsOf(s) /\ k < m - 1 /\ m - 1 < l
                BY <2>1, <4>1, Shift
            <4> QED
                BY <2>2, <4>2 DEF InPart
        <3> QED
            BY <2>1, <2>2, <3>1 DEF InPart
    <2>3. ASSUME InPart(t, k + 1, l + 1)
          PROVE  InPart(s, k, l)
        <3>1. \A m \in StopsOf(s) : ~(k < m /\ m < l)
            <4> SUFFICES ASSUME NEW m \in StopsOf(s), k < m, m < l
                         PROVE  FALSE
                OBVIOUS
            <4>1. m \in Nat /\ m + 1 \in StopsOf(t)
                BY Shift
            <4>2. k + 1 < m + 1 /\ m + 1 < l + 1
                BY <2>1, <4>1
            <4> QED
                BY <2>3, <4>1, <4>2 DEF InPart
        <3> QED
            BY <2>1, <2>3, <3>1 DEF InPart
    <2> QED
        BY <2>2, <2>3
<1>2. \A l \in DrainsOf(t) : InPart(t, k + 1, l) =>
                                   l - 1 \in DrainsOf(s) /\ InPart(s, k, l - 1)
    <2> SUFFICES ASSUME NEW l \in DrainsOf(t), InPart(t, k + 1, l)
                 PROVE  l - 1 \in DrainsOf(s) /\ InPart(s, k, l - 1)
        OBVIOUS
    <2>1. l \in Nat /\ l # 1
        BY Shift DEF InPart
    <2>2. l - 1 \in DrainsOf(s) /\ (l - 1) + 1 = l
        BY <2>1, Shift
    <2> QED
        BY <1>1, <2>2
<1> QED
    BY <1>1, <1>2

(* A part that is not on top stays what it is.                             *)
LEMMA PartStays ==
    ASSUME NEW t, NEW f, NEW s, Above(t, f, s), NEW k \in Nat, NEW d \in BOOLEAN, NEW q
    PROVE  PartIs(t, k + 1, d, q) <=> PartIs(s, k, d, q)
<1>1. ASSUME PartIs(t, k + 1, d, q)
      PROVE  PartIs(s, k, d, q)
    <2>1. \A l \in DrainsOf(s) : InPart(s, k, l) => d /\ Passed(s[l], q)
        <3> SUFFICES ASSUME NEW l \in DrainsOf(s), InPart(s, k, l)
                     PROVE  d /\ Passed(s[l], q)
            OBVIOUS
        <3>1. l + 1 \in DrainsOf(t) /\ InPart(t, k + 1, l + 1) /\ t[l + 1] = s[l]
            BY PartShift, Shift
        <3> QED
            BY <1>1, <3>1 DEF PartIs
    <2>2. d => \E l \in DrainsOf(s) : InPart(s, k, l)
        BY <1>1, PartShift DEF PartIs
    <2> QED
        BY <2>1, <2>2 DEF PartIs
<1>2. ASSUME PartIs(s, k, d, q)
      PROVE  PartIs(t, k + 1, d, q)
    <2>1. \A l \in DrainsOf(t) : InPart(t, k + 1, l) => d /\ Passed(t[l], q)
        <3> SUFFICES ASSUME NEW l \in DrainsOf(t), InPart(t, k + 1, l)
                     PROVE  d /\ Passed(t[l], q)
            OBVIOUS
        <3>1. l - 1 \in DrainsOf(s) /\ InPart(s, k, l - 1)
            BY PartShift
        <3>2. l # 1
            BY <3>1, Shift
        <3>3. t[l] = s[l - 1]
            BY <3>2, Shift
        <3> QED
            BY <1>2, <3>1, <3>3 DEF PartIs
    <2>2. d => \E l \in DrainsOf(t) : InPart(t, k + 1, l)
        <3> SUFFICES ASSUME d
                     PROVE  \E l \in DrainsOf(t) : InPart(t, k + 1, l)
            OBVIOUS
        <3>1. PICK l \in DrainsOf(s) : InPart(s, k, l)
            BY <1>2 DEF PartIs
        <3>2. l + 1 \in DrainsOf(t) /\ InPart(t, k + 1, l + 1)
            BY <3>1, PartShift, Shift
        <3> QED
            BY <3>2
    <2> QED
        BY <2>1, <2>2 DEF PartIs
<1> QED
    BY <1>1, <1>2
LEMMA SeparateGrows ==
    ASSUME NEW t, NEW f, NEW s, Above(t, f, s)
    PROVE  Separate(t) <=> /\ Separate(s)
                           /\ f.kind \in DrainKind => \A l \in DrainsOf(s) : ~InPart(s, 0, l)
<1>1. ASSUME Separate(t)
      PROVE  Separate(s)
    <2> SUFFICES ASSUME NEW i \in DrainsOf(s), NEW j \in DrainsOf(s), i < j
                 PROVE  \E k \in StopsOf(s) : i < k /\ k < j
        BY DEF Separate
    <2>1. i \in Nat /\ j \in Nat /\ i + 1 \in DrainsOf(t) /\ j + 1 \in DrainsOf(t)
        BY Shift
    <2>2. i + 1 < j + 1
        BY <2>1
    <2>3. PICK k \in StopsOf(t) : i + 1 < k /\ k < j + 1
        BY <1>1, <2>1, <2>2 DEF Separate
    <2>4. k \in Nat /\ k # 1
        BY <2>1, <2>3, Shift
    <2>5. k - 1 \in StopsOf(s) /\ i < k - 1 /\ k - 1 < j
        BY <2>1, <2>3, <2>4, Shift
    <2> QED
        BY <2>5
<1>2. ASSUME Separate(t), f.kind \in DrainKind, NEW l \in DrainsOf(s)
      PROVE  ~InPart(s, 0, l)
    <2>1. l \in Nat \ {0} /\ l + 1 \in DrainsOf(t) /\ 1 \in DrainsOf(t)
        BY <1>2, Shift
    <2>2. 1 < l + 1
        BY <2>1
    <2>3. PICK k \in StopsOf(t) : 1 < k /\ k < l + 1
        BY <1>2, <2>1, <2>2 DEF Separate
    <2>4. k \in Nat /\ k # 1
        BY <2>3, Shift
    <2>5. k - 1 \in StopsOf(s) /\ 0 < k - 1 /\ k - 1 < l
        BY <2>1, <2>3, <2>4, Shift
    <2> QED
        BY <2>5 DEF InPart
<1>3. ASSUME Separate(s),
             f.kind \in DrainKind => \A l \in DrainsOf(s) : ~InPart(s, 0, l)
      PROVE  Separate(t)
    <2> SUFFICES ASSUME NEW i \in DrainsOf(t), NEW j \in DrainsOf(t), i < j
                 PROVE  \E k \in StopsOf(t) : i < k /\ k < j
        BY DEF Separate
    <2>1. i \in Nat \ {0} /\ j \in Nat \ {0} /\ j # 1
        BY Shift
    <2>2. j - 1 \in DrainsOf(s)
        BY <2>1, Shift
    <2>3. CASE i # 1
        <3>1. i - 1 \in DrainsOf(s) /\ i - 1 < j - 1
            BY <2>1, <2>3, Shift
        <3>2. PICK k \in StopsOf(s) : i - 1 < k /\ k < j - 1
            BY <1>3, <2>2, <3>1 DEF Separate
        <3>3. k \in Nat /\ k + 1 \in StopsOf(t)
            BY Shift
        <3>4. i < k + 1 /\ k + 1 < j
            BY <2>1, <3>2, <3>3
        <3> QED
            BY <3>3, <3>4
    <2>4. CASE i = 1
        <3>1. f.kind \in DrainKind
            BY <2>4, Shift
        <3>2. ~InPart(s, 0, j - 1)
            BY <1>3, <2>2, <3>1
        <3>3. PICK k \in StopsOf(s) : 0 < k /\ k < j - 1
            BY <2>1, <2>2, <2>4, <3>2 DEF InPart
        <3>4. k \in Nat /\ k + 1 \in StopsOf(t)
            BY Shift
        <3>5. i < k + 1 /\ k + 1 < j
            BY <2>1, <2>4, <3>3, <3>4
        <3> QED
            BY <3>4, <3>5
    <2> QED
        BY <2>3, <2>4
<1> QED
    BY <1>1, <1>2, <1>3

LEMMA SavedPartsGrow ==
    ASSUME NEW t, NEW f, NEW s, Above(t, f, s)
    PROVE  SavedParts(t) <=> /\ SavedParts(s)
                             /\ f.kind \in StopKind => PartIs(s, 0, f.was, f.saved)
<1>1. f.was \in BOOLEAN
    BY DEF Above, AnyFrame
<1>2. \A k \in StopsOf(s) : k \in Nat /\ s[k].was \in BOOLEAN
    <2>1. \A k \in 1..Len(s) : k \in Nat /\ s[k] \in AnyFrame
        BY ElementOfSeq DEF Above
    <2>2. \A k \in 1..Len(s) : s[k].was \in BOOLEAN
        BY <2>1 DEF AnyFrame
    <2> QED
        BY <2>1, <2>2 DEF StopsOf
<1>3. ASSUME SavedParts(t)
      PROVE  SavedParts(s)
    <2> SUFFICES ASSUME NEW k \in StopsOf(s)
                 PROVE  PartIs(s, k, s[k].was, s[k].saved)
        BY DEF SavedParts
    <2>1. k + 1 \in StopsOf(t) /\ t[k + 1] = s[k]
        BY Shift
    <2>2. PartIs(t, k + 1, s[k].was, s[k].saved)
        BY <1>3, <2>1 DEF SavedParts
    <2> QED
        BY <1>2, <2>2, PartStays
<1>4. ASSUME SavedParts(t), f.kind \in StopKind
      PROVE  PartIs(s, 0, f.was, f.saved)
    <2>1. 1 \in StopsOf(t) /\ t[1] = f
        BY <1>4, Shift DEF Above
    <2>2. PartIs(t, 0 + 1, f.was, f.saved)
        BY <1>4, <2>1 DEF SavedParts
    <2> QED
        BY <1>1, <2>2, PartStays
<1>5. ASSUME SavedParts(s), f.kind \in StopKind => PartIs(s, 0, f.was, f.saved)
      PROVE  SavedParts(t)
    <2> SUFFICES ASSUME NEW k \in StopsOf(t)
                 PROVE  PartIs(t, k, t[k].was, t[k].saved)
        BY DEF SavedParts
    <2>1. CASE k = 1
        <3>1. f.kind \in StopKind /\ t[1] = f
            BY <2>1, Shift DEF Above
        <3>2. PartIs(t, 0 + 1, f.was, f.saved)
            BY <1>1, <1>5, <3>1, PartStays
        <3> QED
            BY <2>1, <3>1, <3>2
    <2>2. CASE k # 1
        <3>1. k \in Nat /\ k - 1 \in StopsOf(s) /\ t[k] = s[k - 1]
            BY <2>2, Shift
        <3> DEFINE m == k - 1
        <3>2. m \in StopsOf(s) /\ m \in Nat /\ m + 1 = k /\ t[k] = s[m]
            BY <1>2, <3>1
        <3> HIDE DEF m
        <3>3. PartIs(t, m + 1, s[m].was, s[m].saved)
            BY <1>2, <1>5, <3>2, PartStays DEF SavedParts
        <3> QED
            BY <3>2, <3>3
    <2> QED
        BY <2>1, <2>2
<1> QED
    BY <1>3, <1>4, <1>5

(* The part on top, when a frame comes over it.                            *)
LEMMA TopPart ==
    ASSUME NEW t, NEW f, NEW s, Above(t, f, s), NEW d \in BOOLEAN, NEW q
    PROVE  /\ f.kind \notin DrainKind \cup StopKind =>
                  (PartIs(t, 0, d, q) <=> PartIs(s, 0, d, q))
           /\ f.kind \in StopKind => (PartIs(t, 0, d, q) <=> ~d)
           /\ f.kind \in DrainKind /\ (\A l \in DrainsOf(s) : ~InPart(s, 0, l)) =>
                  (PartIs(t, 0, d, q) <=> d /\ Passed(f, q))
<1>1. \A l \in DrainsOf(t) : l \in Nat \ {0}
    BY Shift
<1>2. t[1] = f
    BY DEF Above
<1>3. ASSUME f.kind \notin DrainKind \cup StopKind
      PROVE  PartIs(t, 0, d, q) <=> PartIs(s, 0, d, q)
    <2>1. 1 \notin DrainsOf(t) /\ 1 \notin StopsOf(t)
        BY <1>3, Shift
    <2>2. \A m \in StopsOf(t) : m \in Nat \ {0} /\ m # 1
        BY <2>1, Shift
    <2>3. \A l \in DrainsOf(t) : l # 1 /\ (InPart(t, 0, l) <=> InPart(t, 0 + 1, l))
        BY <1>1, <2>1, <2>2 DEF InPart
    <2>4. PartIs(t, 0, d, q) <=> PartIs(t, 0 + 1, d, q)
        BY <2>3 DEF PartIs
    <2> QED
        BY <2>4, PartStays
<1>4. ASSUME f.kind \in StopKind
      PROVE  PartIs(t, 0, d, q) <=> ~d
    <2>1. f.kind \notin DrainKind
        BY <1>4 DEF StopKind, DrainKind
    <2>2. 1 \notin DrainsOf(t) /\ 1 \in StopsOf(t)
        BY <1>4, <2>1, Shift
    <2>3. \A l \in DrainsOf(t) : ~InPart(t, 0, l)
        BY <1>1, <2>2 DEF InPart
    <2> QED
        BY <2>3 DEF PartIs
<1>5. ASSUME f.kind \in DrainKind, \A l \in DrainsOf(s) : ~InPart(s, 0, l)
      PROVE  PartIs(t, 0, d, q) <=> d /\ Passed(f, q)
    <2>1. f.kind \notin StopKind
        BY <1>5 DEF StopKind, DrainKind
    <2>2. 1 \in DrainsOf(t) /\ 1 \notin StopsOf(t)
        BY <1>5, <2>1, Shift
    <2>3. \A m \in StopsOf(t) : m \in Nat \ {0} /\ m # 1
        BY <2>2, Shift
    <2>4. InPart(t, 0, 1)
        BY <2>2, <2>3 DEF InPart
    <2>5. \A l \in DrainsOf(t) : l # 1 => ~InPart(t, 0, l)
        <3> SUFFICES ASSUME NEW l \in DrainsOf(t), l # 1, InPart(t, 0, l)
                     PROVE  FALSE
            OBVIOUS
        <3>1. InPart(t, 0 + 1, l)
            BY <1>1, <2>3 DEF InPart
        <3>2. l - 1 \in DrainsOf(s) /\ InPart(s, 0, l - 1)
            BY <3>1, PartShift
        <3> QED
            BY <1>5, <3>2
    <2> QED
        BY <1>2, <2>2, <2>4, <2>5 DEF PartIs
<1> QED
    BY <1>3, <1>4, <1>5

LEMMA NoDrain ==
    ASSUME NEW s, NEW k, NEW q
    PROVE  PartIs(s, k, FALSE, q) <=> \A l \in DrainsOf(s) : ~InPart(s, k, l)
BY DEF PartIs

-----------------------------------------------------------------------------
(* What an orderly stack is, frame by frame.                               *)
LEMMA OverPlain ==
    ASSUME NEW t, NEW f, NEW s, Above(t, f, s), NEW d \in BOOLEAN, NEW q,
           f.kind \notin DrainKind \cup StopKind
    PROVE  Orderly(t, d, q) <=> Orderly(s, d, q)
BY SeparateGrows, SavedPartsGrow, TopPart DEF Orderly

LEMMA OverStop ==
    ASSUME NEW t, NEW f, NEW s, Above(t, f, s), NEW d \in BOOLEAN, NEW q, f.kind \in StopKind
    PROVE  Orderly(t, d, q) <=> ~d /\ Orderly(s, f.was, f.saved)
<1>1. f.kind \notin DrainKind
    BY DEF StopKind, DrainKind
<1> QED
    BY <1>1, SeparateGrows, SavedPartsGrow, TopPart DEF Orderly

LEMMA OverDrain ==
    ASSUME NEW t, NEW f, NEW s, Above(t, f, s), NEW d \in BOOLEAN, NEW q, NEW p,
           f.kind \in DrainKind
    PROVE  Orderly(t, d, q) <=> d /\ Passed(f, q) /\ Orderly(s, FALSE, p)
<1>1. f.kind \notin StopKind
    BY DEF StopKind, DrainKind
<1> DEFINE none == \A l \in DrainsOf(s) : ~InPart(s, 0, l)
<1>2. PartIs(s, 0, FALSE, p) <=> none
    BY NoDrain
<1>3. Separate(t) <=> Separate(s) /\ none
    BY SeparateGrows
<1>4. SavedParts(t) <=> SavedParts(s)
    BY <1>1, SavedPartsGrow
<1>5. none => (PartIs(t, 0, d, q) <=> d /\ Passed(f, q))
    BY TopPart
<1> HIDE DEF none
<1> QED
    BY <1>2, <1>3, <1>4, <1>5 DEF Orderly

LEMMA NestedGrows ==
    ASSUME NEW t, NEW f, NEW s, Above(t, f, s)
    PROVE  Nested(t) <=> Nested(s) /\ Fits(f, s)
<1>1. s # << >> => Head(s) = s[1] /\ 1 \in 1..Len(s)
    BY EmptySeq DEF Above
<1>2. s = << >> => Len(s) = 0
    OBVIOUS
<1>3. \A i \in 1..Len(s) : i \in Nat /\ i + 1 \in 1..Len(t) /\ t[i + 1] = s[i]
    BY DEF Above
<1>4. \A i \in 1..Len(s) : i < Len(s) => i + 1 \in 1..Len(s) /\ t[(i + 1) + 1] = s[i + 1]
                                          /\ i + 1 < Len(t)
    BY <1>3 DEF Above
<1>5. ASSUME Nested(t)
      PROVE  Nested(s)
    <2> SUFFICES ASSUME NEW i \in 1..Len(s)
                 PROVE  /\ s[i].kind \in CalledKind => i < Len(s) /\ s[i + 1].kind \in DrainKind
                        /\ s[i].kind \in StopKind =>
                              i < Len(s) /\ s[i + 1].kind \in JSKind \ StopKind
                        /\ s[i].kind \notin StopKind => s[i].saved = << >>
        BY DEF Nested
    <2>1. /\ t[i + 1].kind \in CalledKind =>
                i + 1 < Len(t) /\ t[(i + 1) + 1].kind \in DrainKind
          /\ t[i + 1].kind \in StopKind =>
                i + 1 < Len(t) /\ t[(i + 1) + 1].kind \in JSKind \ StopKind
          /\ t[i + 1].kind \notin StopKind => t[i + 1].saved = << >>
        BY <1>3, <1>5 DEF Nested
    <2>2. i + 1 < Len(t) => i < Len(s)
        BY DEF Above
    <2> QED
        BY <1>3, <1>4, <2>1, <2>2
<1>6. ASSUME Nested(t)
      PROVE  Fits(f, s)
    <2>1. 1 \in 1..Len(t) /\ t[1] = f
        BY DEF Above
    <2>2. /\ f.kind \in CalledKind => 1 < Len(t) /\ t[1 + 1].kind \in DrainKind
          /\ f.kind \in StopKind => 1 < Len(t) /\ t[1 + 1].kind \in JSKind \ StopKind
          /\ f.kind \notin StopKind => f.saved = << >>
        BY <1>6, <2>1 DEF Nested
    <2>3. 1 < Len(t) => s # << >> /\ t[1 + 1] = Head(s)
        BY <1>1, <1>2, <1>3 DEF Above
    <2> QED
        BY <2>2, <2>3 DEF Fits
<1>7. ASSUME Nested(s), Fits(f, s)
      PROVE  Nested(t)
    <2> SUFFICES ASSUME NEW i \in 1..Len(t)
                 PROVE  /\ t[i].kind \in CalledKind => i < Len(t) /\ t[i + 1].kind \in DrainKind
                        /\ t[i].kind \in StopKind =>
                              i < Len(t) /\ t[i + 1].kind \in JSKind \ StopKind
                        /\ t[i].kind \notin StopKind => t[i].saved = << >>
        BY DEF Nested
    <2>1. CASE i = 1
        <3>1. t[i] = f
            BY <2>1 DEF Above
        <3>2. s # << >> => i < Len(t) /\ t[i + 1] = Head(s)
            BY <1>1, <1>3, <2>1 DEF Above
        <3> QED
            BY <1>7, <3>1, <3>2 DEF Fits
    <2>2. CASE i # 1
        <3> DEFINE m == i - 1
        <3>1. m \in 1..Len(s) /\ m + 1 = i
            BY <2>2 DEF Above
        <3> HIDE DEF m
        <3>2. /\ s[m].kind \in CalledKind => m < Len(s) /\ s[m + 1].kind \in DrainKind
              /\ s[m].kind \in StopKind =>
                    m < Len(s) /\ s[m + 1].kind \in JSKind \ StopKind
              /\ s[m].kind \notin StopKind => s[m].saved = << >>
            BY <1>7, <3>1 DEF Nested
        <3> QED
            BY <1>3, <1>4, <3>1, <3>2
    <2> QED
        BY <2>1, <2>2
<1> QED
    BY <1>5, <1>6, <1>7
-----------------------------------------------------------------------------
LEMMA SavedGrow ==
    ASSUME NEW t, NEW f, NEW s, Above(t, f, s)
    PROVE  SavedJobs(t) = JobsOf(f.saved) \cup SavedJobs(s)
<1>1. \A i \in 1..Len(s) : i + 1 \in 1..Len(t) /\ t[i + 1] = s[i]
    BY DEF Above
<1>2. 1 \in 1..Len(t) /\ t[1] = f
    BY DEF Above
<1>3. \A i \in 1..Len(t) : i # 1 => i - 1 \in 1..Len(s) /\ t[i] = s[i - 1]
    <2> SUFFICES ASSUME NEW i \in 1..Len(t), i # 1
                 PROVE  i - 1 \in 1..Len(s) /\ t[i] = s[i - 1]
        OBVIOUS
    <2>1. i - 1 \in 1..Len(s) /\ (i - 1) + 1 = i
        BY DEF Above
    <2>2. t[(i - 1) + 1] = s[i - 1]
        BY <1>1, <2>1
    <2> QED
        BY <2>1, <2>2
<1>4. ASSUME NEW x
      PROVE  x \in SavedJobs(t) <=> x \in JobsOf(f.saved) \cup SavedJobs(s)
    <2>1. ASSUME x \in SavedJobs(t)
          PROVE  x \in JobsOf(f.saved) \cup SavedJobs(s)
        <3>1. PICK i \in 1..Len(t) : x \in JobsOf(t[i].saved)
            BY <2>1 DEF SavedJobs
        <3> QED
            BY <1>2, <1>3, <3>1 DEF SavedJobs
    <2>2. ASSUME x \in JobsOf(f.saved) \cup SavedJobs(s)
          PROVE  x \in SavedJobs(t)
        BY <1>1, <1>2, <2>2 DEF SavedJobs
    <2> QED
        BY <2>1, <2>2
<1> QED
    BY <1>4

LEMMA NoJobs == JobsOf(<< >>) = {}
<1>1. 1..Len(<< >>) = {}
    OBVIOUS
<1> QED
    BY <1>1 DEF JobsOf

LEMMA WithPlain ==
    ASSUME NEW s \in Seq(AnyFrame), NEW f \in AnyFrame, NEW d \in BOOLEAN, NEW q,
           f.kind \in PlainKind \ CalledKind, f.saved = << >>
    PROVE  /\ Sound(<<f>> \o s, d, q) <=> Sound(s, d, q)
           /\ SavedJobs(<<f>> \o s) = SavedJobs(s)
<1> DEFINE t == <<f>> \o s
<1>1. Above(t, f, s)
    BY PushedAbove
<1> HIDE DEF t
<1>2. f.kind \notin DrainKind \cup StopKind /\ Fits(f, s)
    BY DEF PlainKind, Fits
<1>3. Sound(t, d, q) <=> Sound(s, d, q)
    BY <1>1, <1>2, OverPlain, NestedGrows DEF Sound
<1>4. SavedJobs(t) = SavedJobs(s)
    <2>1. JobsOf(f.saved) = {}
        BY NoJobs
    <2>2. SavedJobs(t) = JobsOf(f.saved) \cup SavedJobs(s)
        BY <1>1, SavedGrow
    <2> QED
        BY <2>1, <2>2
<1> QED
    BY <1>3, <1>4 DEF t

LEMMA WithCalled ==
    ASSUME NEW s \in Seq(AnyFrame), NEW f \in AnyFrame, NEW d \in BOOLEAN, NEW q,
           f.kind \in CalledKind
    PROVE  /\ Sound(<<f>> \o s, d, q) <=>
                  /\ Sound(s, d, q)
                  /\ f.saved = << >>
                  /\ s # << >> /\ Head(s).kind \in DrainKind
           /\ SavedJobs(<<f>> \o s) = JobsOf(f.saved) \cup SavedJobs(s)
<1> DEFINE t == <<f>> \o s
<1>1. Above(t, f, s)
    BY PushedAbove
<1> HIDE DEF t
<1>2. f.kind \notin DrainKind /\ f.kind \notin StopKind
    BY DEF CalledKind, DrainKind, StopKind
<1>3. Fits(f, s) <=> s # << >> /\ Head(s).kind \in DrainKind /\ f.saved = << >>
    BY <1>2 DEF Fits
<1>4. Sound(t, d, q) <=> Sound(s, d, q) /\ Fits(f, s)
    BY <1>1, <1>2, OverPlain, NestedGrows DEF Sound
<1>5. SavedJobs(t) = JobsOf(f.saved) \cup SavedJobs(s)
    BY <1>1, SavedGrow
<1> QED
    BY <1>3, <1>4, <1>5 DEF t

(* A part without a drain needs no queue.                                  *)
LEMMA AnyQueue ==
    ASSUME NEW s, NEW p, NEW q
    PROVE  Sound(s, FALSE, p) <=> Sound(s, FALSE, q)
<1>1. PartIs(s, 0, FALSE, p) <=> PartIs(s, 0, FALSE, q)
    BY NoDrain
<1> QED
    BY <1>1 DEF Sound, Orderly

LEMMA WithDrain ==
    ASSUME NEW s \in Seq(AnyFrame), NEW f \in AnyFrame, NEW d \in BOOLEAN, NEW q,
           f.kind \in DrainKind
    PROVE  /\ Sound(<<f>> \o s, d, q) <=>
                  /\ d = TRUE
                  /\ Passed(f, q)
                  /\ f.saved = << >>
                  /\ Sound(s, FALSE, q)
           /\ SavedJobs(<<f>> \o s) = JobsOf(f.saved) \cup SavedJobs(s)
<1> DEFINE t == <<f>> \o s
<1>1. Above(t, f, s)
    BY PushedAbove
<1> HIDE DEF t
<1>2. f.kind \notin CalledKind /\ f.kind \notin StopKind
    BY DEF CalledKind, DrainKind, StopKind
<1>3. Fits(f, s) <=> f.saved = << >>
    BY <1>2 DEF Fits
<1>4. Orderly(t, d, q) <=> d /\ Passed(f, q) /\ Orderly(s, FALSE, q)
    BY <1>1, OverDrain
<1>5. Nested(t) <=> Nested(s) /\ Fits(f, s)
    BY <1>1, NestedGrows
<1>6. SavedJobs(t) = JobsOf(f.saved) \cup SavedJobs(s)
    BY <1>1, SavedGrow
<1>7. d <=> d = TRUE
    OBVIOUS
<1> QED
    BY <1>7, <1>3, <1>4, <1>5, <1>6 DEF t, Sound

LEMMA DrainOff ==
    ASSUME NEW s \in Seq(AnyFrame), NEW f \in AnyFrame, NEW d \in BOOLEAN, NEW q,
           f.kind \in DrainKind, Sound(<<f>> \o s, d, q)
    PROVE  /\ d = TRUE
           /\ Passed(f, q)
           /\ f.saved = << >>
           /\ Sound(s, FALSE, q)
           /\ SavedJobs(<<f>> \o s) = SavedJobs(s)
<1>1. SavedJobs(<<f>> \o s) = JobsOf(f.saved) \cup SavedJobs(s)
    BY WithDrain
<1>2. f.saved = << >> /\ Passed(f, q) /\ Sound(s, FALSE, q) /\ d = TRUE
    <2>1. Sound(<<f>> \o s, d, q) <=>
                  /\ d = TRUE
                  /\ Passed(f, q)
                  /\ f.saved = << >>
                  /\ Sound(s, FALSE, q)
        BY WithDrain
    <2> QED
        BY <2>1
<1>3. JobsOf(f.saved) = {}
    BY <1>2, NoJobs
<1> QED
    BY <1>1, <1>2, <1>3

LEMMA DrainOn ==
    ASSUME NEW s \in Seq(AnyFrame), NEW f \in AnyFrame, NEW q,
           f.kind \in DrainKind, Passed(f, q), f.saved = << >>, Sound(s, FALSE, q)
    PROVE  /\ <<f>> \o s \in Seq(AnyFrame)
           /\ Sound(<<f>> \o s, TRUE, q)
           /\ SavedJobs(<<f>> \o s) = SavedJobs(s)
<1>1. SavedJobs(<<f>> \o s) = JobsOf(f.saved) \cup SavedJobs(s)
    BY WithDrain
<1>2. Sound(<<f>> \o s, TRUE, q)
    BY WithDrain
<1>3. JobsOf(f.saved) = {}
    BY NoJobs
<1> QED
    BY <1>1, <1>2, <1>3, Pushed

LEMMA WithStop ==
    ASSUME NEW s \in Seq(AnyFrame), NEW f \in AnyFrame, NEW d \in BOOLEAN, NEW q,
           f.kind \in StopKind
    PROVE  /\ Sound(<<f>> \o s, d, q) <=>
                  /\ d = FALSE
                  /\ s # << >> /\ Head(s).kind \in JSKind \ StopKind
                  /\ Sound(s, f.was, f.saved)
           /\ SavedJobs(<<f>> \o s) = JobsOf(f.saved) \cup SavedJobs(s)
<1> DEFINE t == <<f>> \o s
<1>1. Above(t, f, s)
    BY PushedAbove
<1> HIDE DEF t
<1>2. f.kind \notin CalledKind
    BY DEF CalledKind, StopKind
<1>3. Fits(f, s) <=> s # << >> /\ Head(s).kind \in JSKind \ StopKind
    BY <1>2 DEF Fits
<1>4. Orderly(t, d, q) <=> ~d /\ Orderly(s, f.was, f.saved)
    BY <1>1, OverStop
<1>5. Nested(t) <=> Nested(s) /\ Fits(f, s)
    BY <1>1, NestedGrows
<1>6. SavedJobs(t) = JobsOf(f.saved) \cup SavedJobs(s)
    BY <1>1, SavedGrow
<1>7. ~d <=> d = FALSE
    OBVIOUS
<1> QED
    BY <1>7, <1>3, <1>4, <1>5, <1>6 DEF t, Sound

LEMMA Alone ==
    ASSUME NEW d \in BOOLEAN, NEW q
    PROVE  (Sound(<< >>, d, q) <=> d = FALSE) /\ SavedJobs(<< >>) = {}
<1>1. 1..Len(<< >>) = {}
    OBVIOUS
<1>2. DrainsOf(<< >>) = {} /\ StopsOf(<< >>) = {}
    BY <1>1 DEF DrainsOf, StopsOf
<1>3. Orderly(<< >>, d, q) <=> ~d
    BY <1>2 DEF Orderly, Separate, PartIs, SavedParts
<1> QED
    BY <1>1, <1>3 DEF Sound, Nested, SavedJobs

(* Nobody has passed what is added to a queue.                             *)
LEMMA Enqueued ==
    ASSUME NEW s \in Seq(AnyFrame), NEW d \in BOOLEAN, NEW q \in Queue,
           NEW job \in AnyJob, Sound(s, d, q)
    PROVE  /\ Append(q, job) \in Queue
           /\ Sound(s, d, Append(q, job))
           /\ JobsOf(q) \subseteq JobsOf(Append(q, job))
<1> DEFINE u == Append(q, job)
<1>1. u \in Queue /\ Len(u) = Len(q) + 1 /\ Len(q) \in Nat
      /\ \A j \in 1..Len(q) : u[j] = q[j]
    BY AppendProperties, LenProperties DEF Queue
<1> HIDE DEF u
<1>2. \A l \in DrainsOf(s) : Passed(s[l], q) => Passed(s[l], u)
    <2> SUFFICES ASSUME NEW l \in DrainsOf(s), Passed(s[l], q)
                 PROVE  Passed(s[l], u)
        OBVIOUS
    <2>1. s[l] \in AnyFrame
        BY ElementOfSeq DEF DrainsOf
    <2>2. PICK x \in Nat : x = s[l].ix
        BY <2>1 DEF AnyFrame
    <2>3. x <= Len(q) /\ \A j \in 1..x : q[j] = Blank
        BY <2>2 DEF Passed
    <2>4. x <= Len(u) /\ \A j \in 1..x : u[j] = Blank
        BY <1>1, <2>3
    <2> QED
        BY <2>2, <2>4 DEF Passed
<1>3. PartIs(s, 0, d, q) => PartIs(s, 0, d, u)
    BY <1>2 DEF PartIs
<1>4. JobsOf(q) \subseteq JobsOf(u)
    BY <1>1 DEF JobsOf
<1> QED
    BY <1>1, <1>3, <1>4 DEF u, Sound, Orderly
-----------------------------------------------------------------------------
(* The steps.  Each keeps the invariant, and each but RunJob the jobs,     *)
(* unless the program has exited.                                          *)
Keeps == AllJobs(stack, slots) \subseteq AllJobs(stack', slots')
StepIsFine == LoopInv' /\ (RunJob \/ shouldExit \/ over' \/ Keeps)

LEMMA PlainFrame ==
    ASSUME NEW k \in Kind
    PROVE  /\ Plain(k) \in AnyFrame
           /\ Plain(k).kind = k /\ Plain(k).ix = 0 /\ Plain(k).saved = << >>
<1>1. << >> \in Queue
    BY DEF Queue
<1> QED
    BY <1>1 DEF Plain, AnyFrame

LEMMA Split ==
    ASSUME LoopInv, stack # << >>
    PROVE  \E f \in AnyFrame, r \in Seq(AnyFrame) :
               /\ stack = <<f>> \o r
               /\ Top = f
               /\ Tail(stack) = r
BY TopAndRest DEF LoopInv, LoopTypes, Top

(* Another top frame of the same kind, as far as it matters.               *)
LEMMA Retopped ==
    ASSUME NEW f \in AnyFrame, NEW g \in AnyFrame, NEW r \in Seq(AnyFrame),
           NEW d \in BOOLEAN, NEW q, Sound(<<f>> \o r, d, q),
           g.saved = f.saved, g.was = f.was, g.ix = f.ix,
           \/ g.kind = f.kind
           \/ {g.kind, f.kind} \subseteq StopKind
           \/ {g.kind, f.kind} \subseteq PlainKind \ CalledKind
    PROVE  /\ <<g>> \o r \in Seq(AnyFrame)
           /\ Sound(<<g>> \o r, d, q)
           /\ SavedJobs(<<g>> \o r) = SavedJobs(<<f>> \o r)
<1>0. <<g>> \o r \in Seq(AnyFrame)
    BY Pushed
<1>1. CASE {g.kind, f.kind} \subseteq StopKind
    <2>1. f.kind \in StopKind /\ g.kind \in StopKind
        BY <1>1
    <2>2. /\ d = FALSE
          /\ r # << >> /\ Head(r).kind \in JSKind \ StopKind
          /\ Sound(r, f.was, f.saved)
          /\ SavedJobs(<<f>> \o r) = JobsOf(f.saved) \cup SavedJobs(r)
        BY <2>1, WithStop
    <2>3. Sound(r, g.was, g.saved)
        BY <2>2
    <2> QED
        BY <1>0, <2>1, <2>2, <2>3, WithStop
<1>2. CASE {g.kind, f.kind} \subseteq DrainKind
    <2>1. f.kind \in DrainKind /\ g.kind \in DrainKind
        BY <1>2
    <2>2. /\ d = TRUE
          /\ Passed(f, q)
          /\ f.saved = << >>
          /\ Sound(r, FALSE, q)
          /\ SavedJobs(<<f>> \o r) = SavedJobs(r)
        BY <2>1, DrainOff
    <2>3. Passed(g, q)
        BY <2>2 DEF Passed
    <2> QED
        BY <2>1, <2>2, <2>3, DrainOn
<1>3. CASE {g.kind, f.kind} \subseteq CalledKind
    <2>1. f.kind \in CalledKind /\ g.kind \in CalledKind
        BY <1>3
    <2>2. /\ Sound(r, d, q)
          /\ f.saved = << >>
          /\ r # << >> /\ Head(r).kind \in DrainKind
          /\ SavedJobs(<<f>> \o r) = JobsOf(f.saved) \cup SavedJobs(r)
        BY <2>1, WithCalled
    <2>3. /\ Sound(<<g>> \o r, d, q)
          /\ SavedJobs(<<g>> \o r) = JobsOf(g.saved) \cup SavedJobs(r)
        BY <2>1, <2>2, WithCalled
    <2> QED
        BY <1>0, <2>2, <2>3
<1>4. CASE {g.kind, f.kind} \subseteq PlainKind \ CalledKind
    <2>1. f.kind \in PlainKind \ CalledKind /\ g.kind \in PlainKind \ CalledKind
        BY <1>4
    <2>2. f.saved = << >> /\ g.saved = << >>
        <3>1. Nested(<<f>> \o r)
            BY DEF Sound
        <3>2. Fits(f, r)
            BY <3>1, PushedAbove, NestedGrows
        <3>3. f.kind \notin StopKind
            BY <2>1 DEF PlainKind
        <3> QED
            BY <3>2, <3>3 DEF Fits
    <2>3. /\ Sound(<<f>> \o r, d, q) <=> Sound(r, d, q)
          /\ SavedJobs(<<f>> \o r) = SavedJobs(r)
        BY <2>1, <2>2, WithPlain
    <2>4. /\ Sound(<<g>> \o r, d, q) <=> Sound(r, d, q)
          /\ SavedJobs(<<g>> \o r) = SavedJobs(r)
        BY <2>1, <2>2, WithPlain
    <2> QED
        BY <1>0, <2>3, <2>4
<1>5. f.kind \in Kind /\ g.kind \in Kind
    BY DEF AnyFrame
<1> QED
    BY <1>1, <1>2, <1>3, <1>4, <1>5 DEF PlainKind

(* JavaScript ends.                                                        *)
LEMMA Leaves ==
    ASSUME NEW s \in Seq(AnyFrame), s # << >>, Head(s).kind \in JSKind,
           NEW d \in BOOLEAN, NEW q, Sound(s, d, q), NEW o,
           cleanups \in Nat, Leave(s, o)
    PROVE  /\ stack' \in Seq(AnyFrame)
           /\ Sound(stack', d, q)
           /\ SavedJobs(stack') = SavedJobs(s)
           /\ cleanups' \in Nat
<1>1. PICK f \in AnyFrame, r \in Seq(AnyFrame) :
          s = <<f>> \o r /\ Head(s) = f /\ Tail(s) = r
    BY TopAndRest
<1>2. cleanups' \in Nat
    BY DEF Leave
<1>3. CASE f.kind \in CalledKind
    <2>1. /\ Sound(r, d, q) /\ f.saved = << >>
          /\ r # << >> /\ Head(r).kind \in DrainKind
          /\ SavedJobs(s) = JobsOf(f.saved) \cup SavedJobs(r)
        BY <1>1, <1>3, WithCalled
    <2>2. PICK g \in AnyFrame, u \in Seq(AnyFrame) :
              r = <<g>> \o u /\ Head(r) = g /\ Tail(r) = u
        BY <2>1, TopAndRest
    <2>3. stack' = NextTasks(r, o)
        BY <1>1, <1>3 DEF Leave, CalledKind
    <2>4. PICK n \in Nat : n = IF o = "kill" THEN 0 ELSE cleanups
        OBVIOUS
    <2> DEFINE h == [g EXCEPT !.tasks = n]
    <2>5. stack' = <<h>> \o u
        BY <2>2, <2>3, <2>4 DEF NextTasks
    <2>6. h \in AnyFrame /\ h.kind = g.kind /\ h.saved = g.saved /\ h.ix = g.ix /\ h.was = g.was
        BY DEF AnyFrame
    <2> HIDE DEF h
    <2>7. SavedJobs(s) = SavedJobs(r)
        BY <2>1, NoJobs
    <2>8. /\ <<h>> \o u \in Seq(AnyFrame)
          /\ Sound(<<h>> \o u, d, q)
          /\ SavedJobs(<<h>> \o u) = SavedJobs(<<g>> \o u)
        <3>1. Sound(<<g>> \o u, d, q)
            BY <2>1, <2>2
        <3> QED
            BY <2>6, <3>1, Retopped
    <2> QED
        BY <1>2, <2>2, <2>5, <2>7, <2>8
<1>4. CASE f.kind = "debugger"
    <2>1. PICK kill \in BOOLEAN : kill <=> o = "kill"
        OBVIOUS
    <2> DEFINE h == [f EXCEPT !.kind = "debugjobs", !.kill = kill]
    <2>2. stack' = <<[f EXCEPT !.kind = "debugjobs", !.kill = (o = "kill")]>> \o r
        BY <1>1, <1>4 DEF Leave
    <2>3. stack' = <<h>> \o r
        BY <2>1, <2>2
    <2>4. h \in AnyFrame /\ h.kind = "debugjobs" /\ h.saved = f.saved /\ h.ix = f.ix
          /\ h.was = f.was
        BY DEF AnyFrame, Kind
    <2> HIDE DEF h
    <2>5. {h.kind, f.kind} \subseteq StopKind
        BY <1>4, <2>4 DEF StopKind
    <2> QED
        <3>1. Sound(<<f>> \o r, d, q)
            BY <1>1
        <3>2. /\ <<h>> \o r \in Seq(AnyFrame)
              /\ Sound(<<h>> \o r, d, q)
              /\ SavedJobs(<<h>> \o r) = SavedJobs(<<f>> \o r)
            BY <2>4, <2>5, <3>1, Retopped
        <3> QED
            BY <1>1, <1>2, <2>3, <3>2
<1>5. CASE f.kind \notin CalledKind /\ f.kind # "debugger"
    <2>1. stack' = r
        BY <1>1, <1>5 DEF Leave, CalledKind
    <2>2. f.kind \in PlainKind \ CalledKind
        BY <1>1, <1>5 DEF PlainKind, JSKind, DrainKind, StopKind, Kind
    <2>3. f.saved = << >>
        <3>1. Nested(<<f>> \o r)
            BY <1>1 DEF Sound
        <3>2. Fits(f, r)
            BY <3>1, PushedAbove, NestedGrows
        <3> QED
            BY <2>2, <3>2 DEF Fits, PlainKind
    <2> QED
        BY <1>1, <1>2, <2>1, <2>2, <2>3, WithPlain
<1> QED
    BY <1>3, <1>4, <1>5
(* What the steps are made of.                                             *)
OtherTypes ==
    attached \in {"yes", "destroyed"} /\ cleanups \in Nat /\ loads \in Nat /\ born \in Nat

LEMMA Fine ==
    ASSUME LoopInv, OtherTypes', slots' \in Queue, draining' \in BOOLEAN,
           stack' \in Seq(AnyFrame), Sound(stack', draining', slots'),
           JobsOf(slots) \subseteq JobsOf(slots') \/ RunJob \/ shouldExit \/ over',
           SavedJobs(stack) \subseteq SavedJobs(stack') \/ RunJob \/ shouldExit \/ over'
    PROVE  StepIsFine
BY DEF StepIsFine, Keeps, AllJobs, LoopInv, LoopTypes, OtherTypes

LEMMA NothingMoves ==
    ASSUME LoopInv, OtherTypes', UNCHANGED <<stack, draining, slots>>
    PROVE  StepIsFine
BY Fine DEF LoopInv, LoopTypes

LEMMA JobEnqueued ==
    ASSUME LoopInv, NEW job \in AnyJob, EnqueueJob(job)
    PROVE  /\ draining' = draining
           /\ attached' \in {"yes", "destroyed"}
           /\ slots' \in Queue
           /\ JobsOf(slots) \subseteq JobsOf(slots')
           /\ \A s \in Seq(AnyFrame) : Sound(s, draining, slots) => Sound(s, draining, slots')
<1>1. slots' = Append(slots, job) /\ draining' = draining
    BY DEF EnqueueJob
<1>2. slots \in Queue /\ draining \in BOOLEAN /\ Sound(stack, draining, slots)
      /\ stack \in Seq(AnyFrame)
    BY DEF LoopInv, LoopTypes
<1>3. \A s \in Seq(AnyFrame) :
          Sound(s, draining, slots) => Sound(s, draining, Append(slots, job))
    BY <1>2, Enqueued
<1>4. Append(slots, job) \in Queue /\ JobsOf(slots) \subseteq JobsOf(Append(slots, job))
    BY <1>2, Enqueued
<1>5. attached' \in {"yes", "destroyed"}
    BY DEF EnqueueJob, StartDispatcher, LoopInv, LoopTypes, IsRunning
<1> QED
    BY <1>1, <1>3, <1>4, <1>5

LEMMA IteratedIs ==
    ASSUME LoopInv, On(LoopKind)
    PROVE  \E t \in Seq(AnyFrame) :
               /\ t = Iterated
               /\ Sound(t, draining, slots)
               /\ SavedJobs(t) = SavedJobs(stack)
<1>1. stack # << >> /\ Top.kind \in LoopKind
    BY DEF On
<1>2. Sound(stack, draining, slots) /\ draining \in BOOLEAN /\ stack \in Seq(AnyFrame)
    BY DEF LoopInv, LoopTypes
<1>3. PICK f \in AnyFrame, r \in Seq(AnyFrame) :
          stack = <<f>> \o r /\ Top = f /\ Tail(stack) = r
    BY <1>1, Split
<1>4. CASE Top.kind = "spin"
    <2> DEFINE g == [f EXCEPT !.kind = "spincheck"]
    <2>1. Iterated = <<g>> \o r
        BY <1>3, <1>4 DEF Iterated, Becomes
    <2>2. g \in AnyFrame /\ g.kind = "spincheck" /\ g.saved = f.saved /\ g.ix = f.ix
          /\ g.was = f.was
        BY DEF AnyFrame, Kind
    <2> HIDE DEF g
    <2>3. {g.kind, f.kind} \subseteq PlainKind \ CalledKind
        BY <1>3, <1>4, <2>2 DEF PlainKind, CalledKind, DrainKind, StopKind, Kind, JSKind, LoopKind
    <2>4. Sound(<<f>> \o r, draining, slots)
        BY <1>2, <1>3
    <2>5. /\ <<g>> \o r \in Seq(AnyFrame)
          /\ Sound(<<g>> \o r, draining, slots)
          /\ SavedJobs(<<g>> \o r) = SavedJobs(<<f>> \o r)
        BY <1>2, <2>2, <2>3, <2>4, Retopped
    <2> QED
        BY <1>3, <2>1, <2>5
<1>5. CASE Top.kind # "spin"
    BY <1>2, <1>5 DEF Iterated
<1> QED
    BY <1>4, <1>5

LEMMA DrainStarts ==
    ASSUME LoopTypes, NEW s \in Seq(AnyFrame), Sound(s, draining, slots),
           NEW kind \in DrainKind, RunJobs(kind, s), slots' = slots
    PROVE  /\ draining' = TRUE
           /\ stack' \in Seq(AnyFrame)
           /\ Sound(stack', draining', slots')
           /\ SavedJobs(stack') = SavedJobs(s)
           /\ cleanups' \in Nat
<1>1. draining = FALSE /\ slots \in Queue /\ cleanups \in Nat
    BY DEF RunJobs, CanRunJobs, LoopTypes
<1>2. draining' = TRUE /\ cleanups' \in Nat
    BY <1>1 DEF RunJobs
<1>3. PICK n \in Nat : n = IF slots = << >> THEN cleanups ELSE 0
    BY <1>1
<1> DEFINE f == [Plain(kind) EXCEPT !.tasks = n]
<1>4. stack' = <<f>> \o s
    BY <1>3 DEF RunJobs
<1>5. kind \in Kind
    BY DEF Kind
<1>6. f \in AnyFrame /\ f.kind = kind /\ f.ix = 0 /\ f.saved = << >>
    BY <1>5, PlainFrame DEF AnyFrame, Plain
<1> HIDE DEF f
<1>7. Passed(f, slots)
    <2>1. Len(slots) \in Nat
        BY <1>1, LenProperties DEF Queue
    <2> QED
        BY <1>6, <2>1 DEF Passed
<1>8. Sound(s, FALSE, slots)
    BY <1>1
<1>9. /\ <<f>> \o s \in Seq(AnyFrame)
      /\ Sound(<<f>> \o s, TRUE, slots)
      /\ SavedJobs(<<f>> \o s) = SavedJobs(s)
    BY <1>6, <1>7, <1>8, DrainOn
<1> QED
    BY <1>2, <1>4, <1>9

(* JavaScript or a loop is entered from above the frames s.                *)
LEMMA Entered ==
    ASSUME LoopTypes, NEW s \in Seq(AnyFrame), NEW d \in BOOLEAN, NEW q, Sound(s, d, q),
           NEW k \in PlainKind \ CalledKind
    PROVE  /\ <<Plain(k)>> \o s \in Seq(AnyFrame)
           /\ Sound(<<Plain(k)>> \o s, d, q)
           /\ SavedJobs(<<Plain(k)>> \o s) = SavedJobs(s)
<1>1. Plain(k) \in AnyFrame /\ Plain(k).kind = k /\ Plain(k).saved = << >>
    BY PlainFrame DEF PlainKind
<1> DEFINE f == Plain(k)
<1> HIDE DEF f
<1>2. /\ Sound(<<f>> \o s, d, q) <=> Sound(s, d, q)
      /\ SavedJobs(<<f>> \o s) = SavedJobs(s)
    BY <1>1, WithPlain DEF f
<1>3. <<f>> \o s \in Seq(AnyFrame)
    BY <1>1, Pushed DEF f
<1> QED
    BY <1>2, <1>3 DEF f
-----------------------------------------------------------------------------
(* What JavaScript does.                                                   *)
LEMMA EnqueueFine == LoopInv /\ Enqueue => StepIsFine
<1> SUFFICES ASSUME LoopInv, Enqueue
             PROVE  StepIsFine
    OBVIOUS
<1>1. PICK job : job = [id |-> born + 1, tag |-> "script"]
    OBVIOUS
<1>2. job \in AnyJob /\ EnqueueJob(job) /\ born' \in Nat /\ loads' = loads
      /\ cleanups' = cleanups /\ stack' = stack
    BY <1>1 DEF Enqueue, LoopInv, LoopTypes, AnyJob, Tag, jsUnchanged
<1> QED
    BY <1>2, JobEnqueued, Fine DEF LoopInv, LoopTypes, OtherTypes

LEMMA SettleMainFine == ASSUME NEW tag \in {"resolved", "rejected"}, LoopInv, SettleMain(tag)
                        PROVE  StepIsFine
<1>1. PICK job : job = [id |-> born + 1, tag |-> tag]
    OBVIOUS
<1>2. job \in AnyJob /\ EnqueueJob(job) /\ born' \in Nat /\ loads' = loads
      /\ cleanups' = cleanups /\ stack' = stack
    BY <1>1 DEF SettleMain, LoopInv, LoopTypes, AnyJob, Tag, jsUnchanged
<1> QED
    BY <1>2, JobEnqueued, Fine DEF LoopInv, LoopTypes, OtherTypes

LEMMA QuietFine ==
    ASSUME LoopInv, QueueCleanup \/ SetHook \/ Reject \/ BecomesDue \/ HandleExitCode \/ Over
    PROVE  StepIsFine
<1>1. OtherTypes' /\ UNCHANGED <<stack, draining, slots>>
    BY DEF QueueCleanup, SetHook, Reject, BecomesDue, HandleExitCode, Over, LoopInv,
           LoopTypes, OtherTypes, queueVars, worldVars, flagVars, jsUnchanged, vars
<1> QED
    BY <1>1, NothingMoves

LEMMA ImportFine ==
    ASSUME LoopInv, NEW promise \in {"none", "settled", "pending"}, Import(promise)
    PROVE  StepIsFine
<1>1. CASE promise = "settled"
    <2>1. PICK job : job = [id |-> born + 1, tag |-> "import"]
        OBVIOUS
    <2>2. job \in AnyJob /\ EnqueueJob(job) /\ born' \in Nat /\ loads' = loads
          /\ cleanups' = cleanups /\ stack' = stack
        BY <1>1, <2>1 DEF Import, LoopInv, LoopTypes, AnyJob, Tag, jsUnchanged
    <2> QED
        BY <2>2, JobEnqueued, Fine DEF LoopInv, LoopTypes, OtherTypes
<1>2. CASE promise # "settled"
    <2>1. OtherTypes' /\ UNCHANGED <<stack, draining, slots>>
        BY <1>2 DEF Import, LoopInv, LoopTypes, OtherTypes, queueVars, jsUnchanged
    <2> QED
        BY <2>1, NothingMoves
<1> QED
    BY <1>1, <1>2

LEMMA MicrotasksFine == LoopInv /\ DrainMicrotaskQueue => StepIsFine
<1> SUFFICES ASSUME LoopInv, DrainMicrotaskQueue
             PROVE  StepIsFine
    OBVIOUS
<1>1. PICK s \in Seq(AnyFrame) : s = stack
    BY DEF LoopInv, LoopTypes
<1>2. RunJobs("drain", s) /\ slots' = slots /\ Sound(s, draining, slots)
    BY <1>1 DEF DrainMicrotaskQueue, LoopInv, RunJobs
<1>3. attached' = attached /\ loads' = loads /\ born' = born
    BY DEF DrainMicrotaskQueue, worldVars
<1>4. "drain" \in DrainKind
    BY DEF DrainKind
<1>5. LoopTypes
    BY DEF LoopInv
<1>6. /\ draining' = TRUE
      /\ stack' \in Seq(AnyFrame)
      /\ Sound(stack', draining', slots')
      /\ SavedJobs(stack') = SavedJobs(s)
      /\ cleanups' \in Nat
    BY <1>2, <1>4, <1>5, DrainStarts
<1> QED
    BY <1>1, <1>2, <1>3, <1>5, <1>6, Fine DEF LoopTypes, OtherTypes

(* A main loop is entered, by JavaScript or without it; JavaScript is      *)
(* entered.                                                                *)
LEMMA PushFine ==
    ASSUME LoopInv, NEW k \in PlainKind \ CalledKind, stack' = <<Plain(k)>> \o stack,
           UNCHANGED <<draining, slots, attached, cleanups, loads, born>>
    PROVE  StepIsFine
<1>1. LoopTypes /\ Sound(stack, draining, slots)
    BY DEF LoopInv
<1>2. /\ <<Plain(k)>> \o stack \in Seq(AnyFrame)
      /\ Sound(<<Plain(k)>> \o stack, draining, slots)
      /\ SavedJobs(<<Plain(k)>> \o stack) = SavedJobs(stack)
    BY <1>1, Entered DEF LoopTypes
<1> QED
    BY <1>1, <1>2, Fine DEF LoopTypes, OtherTypes

LEMMA FirstFrame ==
    ASSUME NEW k \in Kind, stack = << >>
    PROVE  <<Plain(k)>> = <<Plain(k)>> \o stack
<1>1. <<Plain(k)>> \in Seq(AnyFrame)
    BY PlainFrame
<1> QED
    BY <1>1, ConcatEmptySeq

LEMMA EntersFine ==
    ASSUME LoopInv, Nest \/ RunHook \/ HostLoop \/ \E m \in {"script", "module"} : Eval(m)
    PROVE  StepIsFine
<1>1. {"nested", "hook", "script"} \subseteq PlainKind \ CalledKind
    BY DEF PlainKind, CalledKind, DrainKind, StopKind, Kind, JSKind, LoopKind
<1>2. UNCHANGED <<draining, slots, attached, cleanups, loads, born>>
    BY DEF Nest, RunHook, HostLoop, Eval, queueVars, worldVars, flagVars
<1>3. \E k \in {"nested", "hook", "script"} :
          \/ stack' = <<Plain(k)>> \o stack
          \/ stack = << >> /\ stack' = <<Plain(k)>>
    BY DEF Nest, RunHook, HostLoop, Eval, InEval, Push
<1>4. PICK k \in {"nested", "hook", "script"} : stack' = <<Plain(k)>> \o stack
    BY <1>1, <1>3, FirstFrame DEF PlainKind
<1> QED
    BY <1>1, <1>2, <1>4, PushFine

LEMMA LeaveFine ==
    ASSUME LoopInv, NEW o, JSRuns, Leave(stack, o), UNCHANGED queueVars, UNCHANGED worldVars
    PROVE  StepIsFine
<1>1. PICK s \in Seq(AnyFrame) : s = stack
    BY DEF LoopInv, LoopTypes
<1>2. /\ s # << >> /\ Head(s).kind \in JSKind /\ Sound(s, draining, slots)
      /\ draining \in BOOLEAN /\ cleanups \in Nat
    BY <1>1 DEF JSRuns, On, Top, LoopInv, LoopTypes
<1>3. Leave(s, o)
    BY <1>1 DEF Leave
<1>4. /\ stack' \in Seq(AnyFrame)
      /\ Sound(stack', draining, slots)
      /\ SavedJobs(stack') = SavedJobs(s)
      /\ cleanups' \in Nat
    BY <1>2, <1>3, Leaves
<1>5. slots' = slots /\ draining' = draining /\ attached' = attached /\ loads' = loads
      /\ born' = born
    BY DEF queueVars, worldVars
<1> QED
    BY <1>1, <1>4, <1>5, Fine DEF LoopInv, LoopTypes, OtherTypes

LEMMA ExitFine == LoopInv /\ Exit => StepIsFine
<1> SUFFICES ASSUME LoopInv, Exit
             PROVE  StepIsFine
    OBVIOUS
<1>1. UNCHANGED queueVars /\ UNCHANGED worldVars /\ JSRuns
    BY DEF Exit
<1>2. CASE shouldExit
    <2>1. OtherTypes' /\ UNCHANGED <<stack, draining, slots>>
        BY <1>1, <1>2 DEF Exit, LoopInv, LoopTypes, OtherTypes, queueVars, worldVars
    <2> QED
        BY <2>1, NothingMoves
<1>3. CASE ~shouldExit
    <2>1. Leave(stack, "kill")
        BY <1>3 DEF Exit
    <2> QED
        BY <1>1, <2>1, LeaveFine
<1> QED
    BY <1>2, <1>3

LEMMA ReturnFine == ASSUME NEW o, LoopInv, Return(o)
                    PROVE  StepIsFine
<1>1. JSRuns /\ Leave(stack, o) /\ UNCHANGED queueVars /\ UNCHANGED worldVars
    BY DEF Return
<1> QED
    BY <1>1, LeaveFine

LEMMA InterruptFine == LoopInv /\ Interrupt => StepIsFine
<1> SUFFICES ASSUME LoopInv, Interrupt
             PROVE  StepIsFine
    OBVIOUS
<1>1. LoopTypes /\ Sound(stack, draining, slots)
    BY DEF LoopInv
<1>2. stack # << >> /\ Head(stack).kind \in JSKind \ StopKind
    BY DEF Interrupt, JSRuns, On, Top, JSKind, StopKind
<1>3. draining' = FALSE /\ slots' = << >> /\ OtherTypes'
    BY <1>1 DEF Interrupt, LoopTypes, OtherTypes, worldVars, flagVars
<1> DEFINE f == [Plain("debugger") EXCEPT !.saved = slots, !.was = draining]
<1>4. stack' = <<f>> \o stack
    BY DEF Interrupt, Push
<1>5. "debugger" \in Kind
    BY DEF Kind, JSKind
<1>6. f \in AnyFrame /\ f.kind = "debugger" /\ f.saved = slots /\ f.was = draining
    BY <1>1, <1>5, PlainFrame DEF AnyFrame, Plain, LoopTypes
<1> HIDE DEF f
<1>7. f.kind \in StopKind
    BY <1>6 DEF StopKind
<1>8. Sound(stack, f.was, f.saved)
    BY <1>1, <1>6
<1>9. /\ Sound(<<f>> \o stack, FALSE, << >>)
      /\ SavedJobs(<<f>> \o stack) = JobsOf(f.saved) \cup SavedJobs(stack)
    BY <1>1, <1>2, <1>6, <1>7, <1>8, WithStop DEF LoopTypes
<1>10. stack' \in Seq(AnyFrame)
    BY <1>1, <1>4, <1>6, Pushed DEF LoopTypes
<1>11. Keeps
    BY <1>4, <1>6, <1>9 DEF Keeps, AllJobs
<1>12. << >> \in Queue
    BY DEF Queue
<1> QED
    BY <1>3, <1>4, <1>9, <1>10, <1>11, <1>12 DEF StepIsFine, LoopInv, LoopTypes, OtherTypes

(* JavaScript or a loop ends.                                              *)
LEMMA PlainEnds ==
    ASSUME LoopInv, stack # << >>, Top.kind \in PlainKind \ CalledKind
    PROVE  /\ Tail(stack) \in Seq(AnyFrame)
           /\ Sound(Tail(stack), draining, slots)
           /\ SavedJobs(Tail(stack)) = SavedJobs(stack)
<1>1. PICK f \in AnyFrame, r \in Seq(AnyFrame) :
          stack = <<f>> \o r /\ Top = f /\ Tail(stack) = r
    BY Split
<1>2. Sound(<<f>> \o r, draining, slots) /\ draining \in BOOLEAN
    BY <1>1 DEF LoopInv, LoopTypes
<1>3. f.kind \in PlainKind \ CalledKind /\ f.kind \notin StopKind
    BY <1>1 DEF PlainKind
<1>4. f.saved = << >>
    <2>1. Nested(<<f>> \o r)
        BY <1>2 DEF Sound
    <2>2. Fits(f, r)
        BY <2>1, PushedAbove, NestedGrows
    <2> QED
        BY <1>3, <2>2 DEF Fits
<1>5. /\ Sound(<<f>> \o r, draining, slots) <=> Sound(r, draining, slots)
      /\ SavedJobs(<<f>> \o r) = SavedJobs(r)
    BY <1>2, <1>3, <1>4, WithPlain
<1> QED
    BY <1>1, <1>2, <1>5

LEMMA ModuleEvaluatedFine == ASSUME NEW settled \in {"resolved", "rejected", "pending"},
                                    LoopInv, ModuleEvaluated(settled)
                             PROVE  StepIsFine
<1>1. stack # << >> /\ Top.kind = "script" /\ stack' = Tail(stack)
      /\ loads' = loads /\ cleanups' = cleanups
    BY DEF ModuleEvaluated, On, flagVars
<1>2. "script" \in PlainKind \ CalledKind
    BY DEF PlainKind, CalledKind, DrainKind, StopKind, Kind, JSKind
<1>3. LoopTypes
    BY DEF LoopInv
<1>4. /\ stack' \in Seq(AnyFrame)
      /\ Sound(stack', draining, slots)
      /\ SavedJobs(stack') = SavedJobs(stack)
    BY <1>1, <1>2, PlainEnds
<1>5. CASE settled = "pending"
    <2>1. UNCHANGED <<slots, draining, attached, born>>
        BY <1>5 DEF ModuleEvaluated, queueVars
    <2> QED
        BY <1>1, <1>3, <1>4, <2>1, Fine DEF LoopTypes, OtherTypes
<1>6. CASE settled # "pending"
    <2>1. PICK job : job = [id |-> born + 1, tag |-> settled]
        OBVIOUS
    <2>2. job \in AnyJob /\ EnqueueJob(job) /\ born' \in Nat
        BY <1>3, <1>6, <2>1 DEF ModuleEvaluated, LoopTypes, AnyJob, Tag
    <2> QED
        BY <1>1, <1>3, <1>4, <2>2, JobEnqueued, Fine DEF LoopTypes, OtherTypes
<1> QED
    BY <1>5, <1>6
-----------------------------------------------------------------------------
(* The loop of run_jobs_fallible().                                        *)
LEMMA TwoOnTop ==
    ASSUME NEW e \in AnyFrame, NEW f \in AnyFrame, NEW r \in Seq(AnyFrame)
    PROVE  <<e, f>> \o r = <<e>> \o (<<f>> \o r)
<1>1. /\ <<e>> \in Seq(AnyFrame) /\ Len(<<e>>) = 1 /\ <<e>>[1] = e
      /\ <<f>> \in Seq(AnyFrame) /\ Len(<<f>>) = 1 /\ <<f>>[1] = f
      /\ <<e, f>> \in Seq(AnyFrame) /\ Len(<<e, f>>) = 2
      /\ <<e, f>>[1] = e /\ <<e, f>>[2] = f
    OBVIOUS
<1> DEFINE u == <<e>> \o <<f>>
<1>2. u \in Seq(AnyFrame) /\ Len(u) = 2 /\ u[1] = e /\ u[2] = f
    BY <1>1, ConcatProperties
<1> HIDE DEF u
<1>3. <<e, f>> = u
    BY <1>1, <1>2, SeqEqual
<1>4. u \o r = <<e>> \o (<<f>> \o r)
    BY <1>1, ConcatAssociative DEF u
<1> QED
    BY <1>3, <1>4

LEMMA RunTaskFine == LoopInv /\ RunTask => StepIsFine
<1> SUFFICES ASSUME LoopInv, RunTask
             PROVE  StepIsFine
    OBVIOUS
<1>1. stack # << >> /\ Top.kind \in DrainKind /\ Top.tasks > 0
    BY DEF RunTask, On
<1>2. PICK f \in AnyFrame, r \in Seq(AnyFrame) :
          stack = <<f>> \o r /\ Top = f /\ Tail(stack) = r
    BY <1>1, Split
<1>3. LoopTypes /\ Sound(<<f>> \o r, draining, slots) /\ draining \in BOOLEAN
    BY <1>2 DEF LoopInv, LoopTypes
<1>4. PICK n \in Nat : n = f.tasks - 1
    BY <1>1, <1>2 DEF AnyFrame
<1> DEFINE g == [f EXCEPT !.tasks = n]
<1>5. stack' = <<Plain("cleanup"), g>> \o r
    BY <1>2, <1>4 DEF RunTask
<1>6. g \in AnyFrame /\ g.kind = f.kind /\ g.saved = f.saved /\ g.ix = f.ix /\ g.was = f.was
    BY DEF AnyFrame
<1> HIDE DEF g
<1>7. /\ <<g>> \o r \in Seq(AnyFrame)
      /\ Sound(<<g>> \o r, draining, slots)
      /\ SavedJobs(<<g>> \o r) = SavedJobs(<<f>> \o r)
    BY <1>3, <1>6, Retopped
<1> DEFINE t == <<g>> \o r
<1>8. "cleanup" \in PlainKind \ CalledKind
    BY DEF PlainKind, CalledKind, DrainKind, StopKind, Kind, JSKind
<1>9. stack' = <<Plain("cleanup")>> \o t
    <2> DEFINE e == Plain("cleanup")
    <2>1. e \in AnyFrame
        BY <1>8, PlainFrame DEF PlainKind
    <2>2. stack' = <<e, g>> \o r
        BY <1>5
    <2> HIDE DEF e
    <2>3. <<e, g>> \o r = <<e>> \o (<<g>> \o r)
        BY <1>6, <2>1, TwoOnTop
    <2> QED
        BY <2>2, <2>3 DEF e
<1>12. t \in Seq(AnyFrame) /\ Sound(t, draining, slots) /\ SavedJobs(t) = SavedJobs(<<f>> \o r)
    BY <1>7
<1> HIDE DEF t
<1>10. /\ stack' \in Seq(AnyFrame)
       /\ Sound(stack', draining, slots)
       /\ SavedJobs(stack') = SavedJobs(t)
    <2>1. /\ <<Plain("cleanup")>> \o t \in Seq(AnyFrame)
          /\ Sound(<<Plain("cleanup")>> \o t, draining, slots)
          /\ SavedJobs(<<Plain("cleanup")>> \o t) = SavedJobs(t)
        BY <1>3, <1>8, <1>12, Entered
    <2> QED
        BY <1>9, <2>1
<1>11. UNCHANGED <<slots, draining, attached, cleanups, loads, born>>
    BY DEF RunTask, drainUnchanged, worldVars
<1> QED
    BY <1>2, <1>3, <1>12, <1>10, <1>11, Fine DEF LoopTypes, OtherTypes

(* The slot that is blanked is the first one that is not, of those that    *)
(* the drain has not passed.                                               *)
LEMMA Blanked ==
    ASSUME NEW f \in AnyFrame, NEW q \in Queue, Passed(f, q), NEW k \in (f.ix + 1)..Len(q),
           \A l \in (f.ix + 1)..Len(q) : q[l] # Blank => k <= l,
           NEW g \in AnyFrame, g.ix = k
    PROVE  /\ [q EXCEPT ![k] = Blank] \in Queue
           /\ Passed(g, [q EXCEPT ![k] = Blank])
<1> DEFINE u == [q EXCEPT ![k] = Blank]
<1>1. PICK x \in Nat : x = f.ix
    BY DEF AnyFrame
<1>2. Len(q) \in Nat /\ k \in 1..Len(q) /\ k \in (x + 1)..Len(q)
    BY <1>1, LenProperties DEF Queue
<1>3. Blank \in AnyJob
    BY DEF Blank, AnyJob, Tag
<1>4. /\ u \in Queue /\ Len(u) = Len(q)
      /\ \A j \in 1..Len(q) : u[j] = IF j = k THEN Blank ELSE q[j]
    BY <1>2, <1>3, ExceptSeq DEF Queue
<1> HIDE DEF u
<1>5. \A j \in 1..k : u[j] = Blank
    <2> SUFFICES ASSUME NEW j \in 1..k, j # k
                 PROVE  q[j] = Blank
        BY <1>2, <1>4
    <2>1. CASE j <= x
        BY <1>1, <2>1 DEF Passed
    <2>2. CASE j > x
        <3>1. j \in (x + 1)..Len(q) /\ ~(k <= j)
            BY <1>2, <2>2
        <3> QED
            BY <1>1, <3>1
    <2> QED
        BY <1>1, <2>1, <2>2
<1> QED
    BY <1>2, <1>4, <1>5 DEF Passed, u

LEMMA RunJobFine == LoopInv /\ RunJob => StepIsFine
<1> SUFFICES ASSUME LoopInv, RunJob
             PROVE  StepIsFine
    OBVIOUS
<1>1. stack # << >> /\ Top.kind \in DrainKind
    BY DEF RunJob, On
<1>2. PICK f \in AnyFrame, r \in Seq(AnyFrame) :
          stack = <<f>> \o r /\ Top = f /\ Tail(stack) = r
    BY <1>1, Split
<1>3. LoopTypes /\ Sound(<<f>> \o r, draining, slots) /\ draining \in BOOLEAN
      /\ slots \in Queue /\ cleanups \in Nat
    BY <1>2 DEF LoopInv, LoopTypes
<1>4. /\ draining = TRUE
      /\ Passed(f, slots)
      /\ f.saved = << >>
      /\ Sound(r, FALSE, slots)
    BY <1>1, <1>2, <1>3, DrainOff
<1>5. PICK k \in LeftSlots :
          LET h == [Top EXCEPT !.ix = k]
              tag == slots[k].tag
          IN /\ \A l \in LeftSlots : k <= l
             /\ slots' = [slots EXCEPT ![k] = Blank]
             /\ IF tag \in {"script", "import"}
                THEN /\ stack' = <<Plain(IF tag = "import" THEN tag ELSE "job"), h>> \o Tail(stack)
                     /\ cleanups' = cleanups
                ELSE /\ stack' = <<[h EXCEPT !.tasks = cleanups]>> \o Tail(stack)
                     /\ cleanups' = 0
    BY DEF RunJob
<1>6. k \in (f.ix + 1)..Len(slots) /\ k \in Nat
      /\ \A l \in (f.ix + 1)..Len(slots) : slots[l] # Blank => k <= l
    <2>1. f.ix \in Nat /\ Len(slots) \in Nat
        BY <1>3, LenProperties DEF AnyFrame, Queue
    <2> QED
        BY <1>2, <1>5, <2>1 DEF LeftSlots
<1>7. UNCHANGED <<draining, attached, loads, born>> /\ cleanups' \in Nat
    BY <1>3, <1>5 DEF RunJob, drainUnchanged, worldVars
<1>8. slots' \in Queue
    <2> DEFINE g == [f EXCEPT !.ix = k]
    <2>1. g \in AnyFrame /\ g.ix = k
        BY <1>6 DEF AnyFrame
    <2> HIDE DEF g
    <2> QED
        BY <1>3, <1>4, <1>5, <1>6, <2>1, Blanked
<1>9. Sound(r, FALSE, slots')
    BY <1>4, AnyQueue
<1>10. CASE slots[k].tag \in {"script", "import"}
    <2> DEFINE g == [f EXCEPT !.ix = k]
    <2>1. g \in AnyFrame /\ g.kind = f.kind /\ g.ix = k /\ g.saved = f.saved
        BY <1>6 DEF AnyFrame
    <2>2. PICK c \in CalledKind : stack' = <<Plain(c), g>> \o r
        BY <1>2, <1>5, <1>10 DEF CalledKind
    <2> HIDE DEF g
    <2>3. Passed(g, slots')
        BY <1>3, <1>4, <1>5, <1>6, <2>1, Blanked
    <2>4. /\ <<g>> \o r \in Seq(AnyFrame)
          /\ Sound(<<g>> \o r, TRUE, slots')
        BY <1>1, <1>2, <1>4, <1>9, <2>1, <2>3, DrainOn
    <2>5. c \in Kind
        BY DEF CalledKind, Kind, JSKind
    <2>6. Plain(c) \in AnyFrame /\ Plain(c).kind = c /\ Plain(c).saved = << >>
        BY <2>5, PlainFrame
    <2>7. PICK t \in Seq(AnyFrame) : t = <<g>> \o r /\ t # << >> /\ Head(t) = g
        BY <2>1, <2>4, Pushed
    <2> DEFINE h == Plain(c)
    <2>8. stack' = <<h>> \o t
        <3>1. h \in AnyFrame /\ stack' = <<h, g>> \o r
            BY <2>2, <2>6
        <3> HIDE DEF h
        <3>2. <<h, g>> \o r = <<h>> \o (<<g>> \o r)
            BY <2>1, <3>1, TwoOnTop
        <3> QED
            BY <2>7, <3>1, <3>2
    <2>9. h \in AnyFrame /\ h.kind \in CalledKind /\ h.saved = << >>
        BY <2>6
    <2> HIDE DEF h
    <2>10. Sound(t, TRUE, slots') /\ Head(t).kind \in DrainKind
        BY <1>1, <1>2, <2>1, <2>4, <2>7
    <2>11. Sound(<<h>> \o t, TRUE, slots') <=>
                  /\ Sound(t, TRUE, slots')
                  /\ h.saved = << >>
                  /\ t # << >> /\ Head(t).kind \in DrainKind
        BY <2>9, WithCalled
    <2>12. Sound(<<h>> \o t, TRUE, slots')
        BY <2>7, <2>9, <2>10, <2>11
    <2>13. <<h>> \o t \in Seq(AnyFrame)
        BY <2>9, Pushed
    <2> QED
        BY <1>3, <1>4, <1>7, <1>8, <2>8, <2>12, <2>13 DEF StepIsFine, LoopInv, LoopTypes
<1>11. CASE slots[k].tag \notin {"script", "import"}
    <2> DEFINE g == [f EXCEPT !.ix = k, !.tasks = cleanups]
    <2>1. g \in AnyFrame /\ g.kind = f.kind /\ g.ix = k /\ g.saved = f.saved
        BY <1>3, <1>6 DEF AnyFrame
    <2>2. stack' = <<g>> \o r
        BY <1>2, <1>5, <1>11
    <2> HIDE DEF g
    <2>3. Passed(g, slots')
        BY <1>3, <1>4, <1>5, <1>6, <2>1, Blanked
    <2>4. /\ <<g>> \o r \in Seq(AnyFrame)
          /\ Sound(<<g>> \o r, TRUE, slots')
        BY <1>1, <1>2, <1>4, <1>9, <2>1, <2>3, DrainOn
    <2> QED
        BY <1>3, <1>4, <1>7, <1>8, <2>2, <2>4 DEF StepIsFine, LoopInv, LoopTypes
<1> QED
    BY <1>10, <1>11

LEMMA DrainEndFine == LoopInv /\ DrainEnd => StepIsFine
<1> SUFFICES ASSUME LoopInv, DrainEnd
             PROVE  StepIsFine
    OBVIOUS
<1>1. stack # << >> /\ Top.kind \in DrainKind /\ stack' = Tail(stack)
    BY DEF DrainEnd, On
<1>2. PICK f \in AnyFrame, r \in Seq(AnyFrame) :
          stack = <<f>> \o r /\ Top = f /\ Tail(stack) = r
    BY <1>1, Split
<1>3. LoopTypes /\ Sound(<<f>> \o r, draining, slots) /\ draining \in BOOLEAN
      /\ slots \in Queue
    BY <1>2 DEF LoopInv, LoopTypes
<1>4. /\ Passed(f, slots)
      /\ Sound(r, FALSE, slots)
      /\ SavedJobs(<<f>> \o r) = SavedJobs(r)
    BY <1>1, <1>2, <1>3, DrainOff
<1>5. draining' = FALSE /\ slots' = << >>
      /\ UNCHANGED <<attached, cleanups, loads, born>>
    BY DEF DrainEnd, drainUnchanged, worldVars
<1>6. Sound(r, FALSE, << >>)
    BY <1>4, AnyQueue
<1>7. shouldExit \/ JobsOf(slots) = {}
    <2>1. LeftSlots = {} \/ shouldExit
        BY <1>3 DEF DrainEnd, MayRunJob, IsRunning, LoopTypes
    <2>2. ASSUME LeftSlots = {}, NEW j \in 1..Len(slots)
          PROVE  slots[j] = Blank
        <3>1. PICK x \in Nat : x = f.ix
            BY DEF AnyFrame
        <3>2. Len(slots) \in Nat
            BY <1>3, LenProperties DEF Queue
        <3>3. CASE j <= x
            BY <1>4, <3>1, <3>3 DEF Passed
        <3>4. CASE j > x
            <4>1. j \in (x + 1)..Len(slots)
                BY <3>2, <3>4
            <4> QED
                BY <1>2, <2>2, <3>1, <4>1 DEF LeftSlots
        <3> QED
            BY <3>1, <3>3, <3>4
    <2> QED
        BY <2>1, <2>2 DEF JobsOf
<1>8. << >> \in Queue
    BY DEF Queue
<1> QED
    BY <1>1, <1>2, <1>3, <1>4, <1>5, <1>6, <1>7, <1>8, Fine DEF LoopTypes, OtherTypes
-----------------------------------------------------------------------------
(* The debugger lets the program go on.                                    *)
LEMMA DebuggerJobsFine == LoopInv /\ DebuggerJobs => StepIsFine
<1> SUFFICES ASSUME LoopInv, DebuggerJobs
             PROVE  StepIsFine
    OBVIOUS
<1>1. stack # << >> /\ Top.kind = "debugjobs"
    BY DEF DebuggerJobs, On
<1>2. PICK f \in AnyFrame, r \in Seq(AnyFrame) :
          stack = <<f>> \o r /\ Top = f /\ Tail(stack) = r
    BY <1>1, Split
<1>3. LoopTypes /\ Sound(<<f>> \o r, draining, slots) /\ draining \in BOOLEAN
    BY <1>2 DEF LoopInv, LoopTypes
<1> DEFINE g == [f EXCEPT !.kind = "resume"]
<1>4. Becomes("resume") = <<g>> \o r
    BY <1>2 DEF Becomes
<1>5. g \in AnyFrame /\ g.kind = "resume" /\ g.saved = f.saved /\ g.ix = f.ix /\ g.was = f.was
    BY DEF AnyFrame, Kind
<1> HIDE DEF g
<1>6. {g.kind, f.kind} \subseteq StopKind
    BY <1>1, <1>2, <1>5 DEF StopKind
<1>7. /\ <<g>> \o r \in Seq(AnyFrame)
      /\ Sound(<<g>> \o r, draining, slots)
      /\ SavedJobs(<<g>> \o r) = SavedJobs(<<f>> \o r)
    BY <1>3, <1>5, <1>6, Retopped
<1>8. PICK t \in Seq(AnyFrame) :
          t = Becomes("resume") /\ Sound(t, draining, slots) /\ SavedJobs(t) = SavedJobs(stack)
    BY <1>2, <1>4, <1>7
<1>9. UNCHANGED <<slots, attached, loads, born>>
    BY DEF DebuggerJobs, worldVars
<1>10. CASE CanRunJobs
    <2>1. RunJobs("debugdrain", t)
        BY <1>8, <1>10 DEF DebuggerJobs, RunJobs
    <2>2. "debugdrain" \in DrainKind /\ slots' = slots
        BY <1>9 DEF DrainKind
    <2>3. /\ draining' = TRUE
          /\ stack' \in Seq(AnyFrame)
          /\ Sound(stack', draining', slots')
          /\ SavedJobs(stack') = SavedJobs(t)
          /\ cleanups' \in Nat
        BY <1>3, <1>8, <2>1, <2>2, DrainStarts
    <2> QED
        BY <1>3, <1>8, <1>9, <2>3, Fine DEF LoopTypes, OtherTypes
<1>11. CASE ~CanRunJobs
    <2>1. stack' = t /\ UNCHANGED <<draining, cleanups>>
        BY <1>8, <1>11 DEF DebuggerJobs
    <2> QED
        BY <1>3, <1>8, <1>9, <2>1, Fine DEF LoopTypes, OtherTypes
<1> QED
    BY <1>10, <1>11

LEMMA ResumeFine == LoopInv /\ Resume => StepIsFine
<1> SUFFICES ASSUME LoopInv, Resume
             PROVE  StepIsFine
    OBVIOUS
<1>1. stack # << >> /\ Top.kind = "resume" /\ UNCHANGED <<loads, born>>
    BY DEF Resume, On, worldVars
<1>2. PICK f \in AnyFrame, r \in Seq(AnyFrame) :
          stack = <<f>> \o r /\ Top = f /\ Tail(stack) = r
    BY <1>1, Split
<1>3. LoopTypes /\ Sound(<<f>> \o r, draining, slots) /\ draining \in BOOLEAN
      /\ cleanups \in Nat
    BY <1>2 DEF LoopInv, LoopTypes
<1>4. CASE slots # << >>
    <2>1. OtherTypes' /\ UNCHANGED <<stack, draining, slots>>
        BY <1>1, <1>3, <1>4 DEF Resume, LoopTypes, OtherTypes, queueVars
    <2> QED
        BY <2>1, NothingMoves
<1>5. CASE slots = << >>
    <2>1. f.kind \in StopKind
        BY <1>1, <1>2 DEF StopKind
    <2>2. /\ r # << >> /\ Head(r).kind \in JSKind \ StopKind
          /\ Sound(r, f.was, f.saved)
          /\ SavedJobs(<<f>> \o r) = JobsOf(f.saved) \cup SavedJobs(r)
        BY <1>3, <2>1, WithStop
    <2>3. f.was \in BOOLEAN /\ f.saved \in Queue
        BY DEF AnyFrame
    <2>4. slots' = f.saved /\ draining' = f.was /\ attached' \in {"yes", "destroyed"}
        BY <1>2, <1>3, <1>5 DEF Resume, StartDispatcher, LoopTypes, IsRunning
    <2>5. JobsOf(slots) = {}
        BY <1>5, NoJobs
    <2>6. /\ stack' \in Seq(AnyFrame)
          /\ Sound(stack', f.was, f.saved)
          /\ SavedJobs(stack') = SavedJobs(r)
          /\ cleanups' \in Nat
        <3>1. CASE f.kill
            <4>1. Leave(r, "kill")
                BY <1>2, <1>5, <3>1 DEF Resume, Leave
            <4> QED
                BY <1>3, <2>2, <2>3, <4>1, Leaves
        <3>2. CASE ~f.kill
            <4>1. stack' = r /\ cleanups' = cleanups
                BY <1>2, <1>5, <3>2 DEF Resume
            <4> QED
                BY <1>3, <2>2, <4>1
        <3> QED
            BY <3>1, <3>2
    <2>7. AllJobs(stack, slots) \subseteq AllJobs(stack', slots')
        BY <1>2, <2>2, <2>4, <2>5, <2>6 DEF AllJobs
    <2>8. LoopInv'
        BY <1>1, <1>3, <2>3, <2>4, <2>6 DEF LoopInv, LoopTypes
    <2> QED
        BY <2>7, <2>8 DEF StepIsFine, Keeps
<1> QED
    BY <1>4, <1>5

-----------------------------------------------------------------------------
(* Iterations of the main context.                                         *)
LEMMA DispatchJobsFine == LoopInv /\ DispatchJobs => StepIsFine
<1> SUFFICES ASSUME LoopInv, DispatchJobs
             PROVE  StepIsFine
    OBVIOUS
<1>1. PICK t \in Seq(AnyFrame) :
          /\ t = Iterated
          /\ Sound(t, draining, slots)
          /\ SavedJobs(t) = SavedJobs(stack)
    BY IteratedIs DEF DispatchJobs
<1>2. LoopTypes /\ UNCHANGED <<slots, loads, born>> /\ attached' \in {"yes", "destroyed"}
    BY DEF DispatchJobs, worldVars, LoopInv, LoopTypes
<1>3. CASE ~cancelled /\ CanRunJobs
    <2>1. RunJobs("dispatch", t)
        BY <1>1, <1>3 DEF DispatchJobs, RunJobs
    <2>2. "dispatch" \in DrainKind /\ slots' = slots
        BY <1>2 DEF DrainKind
    <2>3. /\ draining' = TRUE
          /\ stack' \in Seq(AnyFrame)
          /\ Sound(stack', draining', slots')
          /\ SavedJobs(stack') = SavedJobs(t)
          /\ cleanups' \in Nat
        BY <1>1, <1>2, <2>1, <2>2, DrainStarts
    <2> QED
        BY <1>1, <1>2, <2>3, Fine DEF LoopTypes, OtherTypes
<1>4. CASE cancelled \/ ~CanRunJobs
    <2>1. stack' = t /\ UNCHANGED <<draining, cleanups>>
        BY <1>1, <1>4 DEF DispatchJobs
    <2> QED
        BY <1>1, <1>2, <2>1, Fine DEF LoopTypes, OtherTypes
<1> QED
    BY <1>3, <1>4

LEMMA DispatchCallbackFine == LoopInv /\ DispatchCallback => StepIsFine
<1> SUFFICES ASSUME LoopInv, DispatchCallback
             PROVE  StepIsFine
    OBVIOUS
<1>1. PICK t \in Seq(AnyFrame) :
          /\ t = Iterated
          /\ Sound(t, draining, slots)
          /\ SavedJobs(t) = SavedJobs(stack)
    BY IteratedIs DEF DispatchCallback, Iterates
<1>2. LoopTypes /\ UNCHANGED <<slots, draining, attached, cleanups, loads, born>>
    BY DEF DispatchCallback, queueVars, flagVars, LoopInv
<1>3. "callback" \in PlainKind \ CalledKind
    BY DEF PlainKind, CalledKind, DrainKind, StopKind, Kind, JSKind
<1>4. stack' = <<Plain("callback")>> \o t
    BY <1>1 DEF DispatchCallback
<1>5. /\ <<Plain("callback")>> \o t \in Seq(AnyFrame)
      /\ Sound(<<Plain("callback")>> \o t, draining, slots)
      /\ SavedJobs(<<Plain("callback")>> \o t) = SavedJobs(t)
    BY <1>1, <1>2, <1>3, Entered DEF LoopTypes
<1> QED
    BY <1>1, <1>2, <1>4, <1>5, Fine DEF LoopTypes, OtherTypes

LEMMA LoadFinishedFine == LoopInv /\ LoadFinished => StepIsFine
<1> SUFFICES ASSUME LoopInv, LoadFinished
             PROVE  StepIsFine
    OBVIOUS
<1>1. PICK t \in Seq(AnyFrame) :
          /\ t = Iterated
          /\ Sound(t, draining, slots)
          /\ SavedJobs(t) = SavedJobs(stack)
    BY IteratedIs DEF LoadFinished, Iterates
<1>2. LoopTypes
    BY DEF LoopInv
<1>3. stack' = t /\ loads' \in Nat /\ born' \in Nat /\ cleanups' = cleanups
    BY <1>1, <1>2 DEF LoadFinished, LoopTypes
<1>4. PICK job : job = [id |-> born + 1, tag |-> "import"]
    OBVIOUS
<1>5. job \in AnyJob /\ EnqueueJob(job)
    BY <1>2, <1>4 DEF LoadFinished, LoopTypes, AnyJob, Tag
<1> QED
    BY <1>1, <1>2, <1>3, <1>5, JobEnqueued, Fine DEF LoopTypes, OtherTypes

LEMMA NothingPendingFine == LoopInv /\ NothingPending => StepIsFine
<1> SUFFICES ASSUME LoopInv, NothingPending
             PROVE  StepIsFine
    OBVIOUS
<1>1. PICK t \in Seq(AnyFrame) :
          /\ t = Iterated
          /\ Sound(t, draining, slots)
          /\ SavedJobs(t) = SavedJobs(stack)
    BY IteratedIs DEF NothingPending, Iterates
<1>2. LoopTypes /\ UNCHANGED <<slots, draining, attached, cleanups, loads, born>>
    BY DEF NothingPending, queueVars, worldVars, flagVars, LoopInv
<1>3. stack' = t
    BY <1>1 DEF NothingPending
<1> QED
    BY <1>1, <1>2, <1>3, Fine DEF LoopTypes, OtherTypes

LEMMA NestedEndsFine == LoopInv /\ NestedEnds => StepIsFine
<1> SUFFICES ASSUME LoopInv, NestedEnds
             PROVE  StepIsFine
    OBVIOUS
<1>1. stack # << >> /\ Top.kind = "nested" /\ stack' = Tail(stack)
    BY DEF NestedEnds, On
<1>2. "nested" \in PlainKind \ CalledKind
    BY DEF PlainKind, CalledKind, DrainKind, StopKind, Kind, LoopKind
<1>3. LoopTypes /\ UNCHANGED <<slots, draining, attached, cleanups, loads, born>>
    BY DEF NestedEnds, queueVars, worldVars, flagVars, LoopInv
<1>4. /\ stack' \in Seq(AnyFrame)
      /\ Sound(stack', draining, slots)
      /\ SavedJobs(stack') = SavedJobs(stack)
    BY <1>1, <1>2, PlainEnds
<1> QED
    BY <1>3, <1>4, Fine DEF LoopTypes, OtherTypes

LEMMA BeginSpinFine == LoopInv /\ BeginSpin => StepIsFine
<1> SUFFICES ASSUME LoopInv, BeginSpin
             PROVE  StepIsFine
    OBVIOUS
<1>1. LoopTypes /\ UNCHANGED <<slots, draining, attached, cleanups, loads, born>>
    BY DEF BeginSpin, spinUnchanged, queueVars, worldVars, flagVars, LoopInv
<1>2. CASE stack' = stack
    BY <1>1, <1>2, NothingMoves DEF LoopTypes, OtherTypes
<1>3. CASE stack' = <<Plain("spin")>>
    <2>1. "spin" \in PlainKind \ CalledKind /\ "spin" \in Kind
        BY DEF PlainKind, CalledKind, DrainKind, StopKind, Kind, LoopKind
    <2>2. stack' = <<Plain("spin")>> \o stack
        BY <1>3, <2>1, FirstFrame DEF BeginSpin, InEval
    <2> QED
        BY <1>1, <2>1, <2>2, PushFine
<1> QED
    BY <1>2, <1>3 DEF BeginSpin

LEMMA SpinCheckFine == LoopInv /\ SpinCheck => StepIsFine
<1> SUFFICES ASSUME LoopInv, SpinCheck
             PROVE  StepIsFine
    OBVIOUS
<1>1. stack # << >> /\ Top.kind = "spincheck"
    BY DEF SpinCheck, On
<1>2. LoopTypes /\ UNCHANGED <<slots, draining, attached, cleanups, loads, born>>
    BY DEF SpinCheck, spinUnchanged, queueVars, worldVars, flagVars, LoopInv
<1>3. {"spin", "spincheck"} \subseteq PlainKind \ CalledKind
    BY DEF PlainKind, CalledKind, DrainKind, StopKind, Kind, LoopKind
<1>4. CASE stack' = Tail(stack)
    <2>1. /\ stack' \in Seq(AnyFrame)
          /\ Sound(stack', draining, slots)
          /\ SavedJobs(stack') = SavedJobs(stack)
        BY <1>1, <1>3, <1>4, PlainEnds
    <2> QED
        BY <1>2, <2>1, Fine DEF LoopTypes, OtherTypes
<1>5. CASE stack' = Becomes("spin")
    <2>1. PICK f \in AnyFrame, r \in Seq(AnyFrame) :
              stack = <<f>> \o r /\ Top = f /\ Tail(stack) = r
        BY <1>1, Split
    <2>2. Sound(<<f>> \o r, draining, slots) /\ draining \in BOOLEAN
        BY <2>1 DEF LoopInv, LoopTypes
    <2> DEFINE g == [f EXCEPT !.kind = "spin"]
    <2>3. stack' = <<g>> \o r
        BY <1>5, <2>1 DEF Becomes
    <2>4. g \in AnyFrame /\ g.kind = "spin" /\ g.saved = f.saved /\ g.ix = f.ix
          /\ g.was = f.was
        BY DEF AnyFrame, Kind, LoopKind
    <2> HIDE DEF g
    <2>5. {g.kind, f.kind} \subseteq PlainKind \ CalledKind
        BY <1>1, <1>3, <2>1, <2>4
    <2>6. /\ <<g>> \o r \in Seq(AnyFrame)
          /\ Sound(<<g>> \o r, draining, slots)
          /\ SavedJobs(<<g>> \o r) = SavedJobs(<<f>> \o r)
        BY <2>2, <2>4, <2>5, Retopped
    <2> QED
        BY <1>2, <2>1, <2>3, <2>6, Fine DEF LoopTypes, OtherTypes
<1> QED
    BY <1>4, <1>5 DEF SpinCheck

LEMMA DrainOnErrorFine == LoopInv /\ DrainOnError => StepIsFine
<1> SUFFICES ASSUME LoopInv, DrainOnError
             PROVE  StepIsFine
    OBVIOUS
<1>1. LoopTypes /\ UNCHANGED <<slots, attached, loads, born>>
    BY DEF DrainOnError, worldVars, LoopInv
<1>2. PICK s \in Seq(AnyFrame) : s = stack
    BY <1>1 DEF LoopTypes
<1>3. CASE UNCHANGED <<stack, draining, cleanups>>
    BY <1>1, <1>3, NothingMoves DEF LoopTypes, OtherTypes
<1>4. CASE RunJobs("evaldrain", stack)
    <2>1. RunJobs("evaldrain", s) /\ Sound(s, draining, slots) /\ slots' = slots
        BY <1>1, <1>2, <1>4 DEF LoopInv, RunJobs
    <2>2. "evaldrain" \in DrainKind
        BY DEF DrainKind
    <2>3. /\ draining' = TRUE
          /\ stack' \in Seq(AnyFrame)
          /\ Sound(stack', draining', slots')
          /\ SavedJobs(stack') = SavedJobs(s)
          /\ cleanups' \in Nat
        BY <1>1, <2>1, <2>2, DrainStarts
    <2> QED
        BY <1>1, <1>2, <2>3, Fine DEF LoopTypes, OtherTypes
<1> QED
    BY <1>3, <1>4 DEF DrainOnError

LEMMA DisposeFine == LoopInv /\ Dispose => StepIsFine
<1> SUFFICES ASSUME LoopInv, Dispose
             PROVE  StepIsFine
    OBVIOUS
<1>1. stack = << >> /\ stack' = << >> /\ draining' = FALSE /\ slots' = << >> /\ over'
      /\ UNCHANGED <<attached, cleanups, loads, born>>
    BY DEF Dispose, InEval, worldVars
<1>2. << >> \in Queue /\ << >> \in Seq(AnyFrame)
    BY DEF Queue
<1>3. Sound(<< >>, FALSE, << >>)
    BY Alone
<1> QED
    BY <1>1, <1>2, <1>3, Fine DEF LoopInv, LoopTypes, OtherTypes

-----------------------------------------------------------------------------
(* The invariant, for the initial states and for each action.              *)
LEMMA StartIsSound == Init => LoopInv
<1> SUFFICES ASSUME Init
             PROVE  LoopInv
    OBVIOUS
<1>1. stack = << >> /\ slots = << >> /\ draining = FALSE /\ attached = "yes"
      /\ cleanups = 0 /\ loads = 0 /\ born = 0
    BY DEF Init, QueueInit
<1>2. << >> \in Queue /\ << >> \in Seq(AnyFrame)
    BY DEF Queue
<1>3. Sound(<< >>, FALSE, << >>)
    BY Alone
<1> QED
    BY <1>1, <1>2, <1>3 DEF LoopInv, LoopTypes

LEMMA StepFine == LoopInv /\ Next => StepIsFine
<1> SUFFICES ASSUME LoopInv, Next
             PROVE  StepIsFine
    OBVIOUS
<1>1. CASE JSStep
    <2>1. ASSUME NEW tag \in {"resolved", "rejected"}, SettleMain(tag)
          PROVE  StepIsFine
        BY <2>1, SettleMainFine
    <2>2. ASSUME NEW o \in {"ok", "throw"}, Return(o)
          PROVE  StepIsFine
        BY <2>2, ReturnFine
    <2>3. ASSUME NEW s \in {"resolved", "rejected", "pending"}, ModuleEvaluated(s)
          PROVE  StepIsFine
        BY <2>3, ModuleEvaluatedFine
    <2>4. CASE Enqueue \/ QueueCleanup \/ SetHook \/ Reject
        BY <2>4, EnqueueFine, QuietFine
    <2>6. ASSUME NEW promise \in {"none", "settled", "pending"}, Import(promise)
          PROVE  StepIsFine
        BY <2>6, ImportFine
    <2>5. CASE DrainMicrotaskQueue \/ Nest \/ Exit \/ Interrupt
        BY <2>5, MicrotasksFine, EntersFine, ExitFine, InterruptFine
    <2> QED
        BY <1>1, <2>1, <2>2, <2>3, <2>4, <2>5, <2>6 DEF JSStep
<1>2. CASE DrainStep
    BY <1>2, RunTaskFine, RunJobFine, DrainEndFine, DebuggerJobsFine, ResumeFine DEF DrainStep
<1>3. CASE LoopStep
    BY <1>3, DispatchJobsFine, DispatchCallbackFine, LoadFinishedFine, NothingPendingFine,
       NestedEndsFine, QuietFine DEF LoopStep
<1>4. CASE EvalStep
    BY <1>4, BeginSpinFine, SpinCheckFine, EntersFine, DrainOnErrorFine, QuietFine,
       DisposeFine DEF EvalStep
<1>5. CASE Over
    BY <1>5, QuietFine
<1> QED
    BY <1>1, <1>2, <1>3, <1>4, <1>5 DEF Next

LEMMA StepKeepsLoopInv == LoopInv /\ [Next]_vars => LoopInv'
<1>1. CASE Next
    BY <1>1, StepFine DEF StepIsFine
<1>2. CASE UNCHANGED vars
    BY <1>2 DEF vars, LoopInv, LoopTypes
<1> QED
    BY <1>1, <1>2

LEMMA LoopInvHolds == Spec => []LoopInv
<1> QED
    BY StartIsSound, StepKeepsLoopInv, PTL DEF Spec

-----------------------------------------------------------------------------
(* The theorems.                                                           *)
LEMMA PartIsDrains ==
    ASSUME LoopInv, NEW k \in Nat
    PROVE  DrainsFrom(k) = {l \in DrainsOf(stack) : InPart(stack, k, l)}
<1>1. Len(stack) \in Nat
    BY LenProperties DEF LoopInv, LoopTypes
<1>2. Stops = StopsOf(stack)
    BY DEF Stops, StopsOf, StopKind
<1> QED
    BY <1>1, <1>2 DEF DrainsFrom, DrainsOf, InPart

(* Two drains of one part would have a stop between them.                  *)
LEMMA AtMostOne ==
    ASSUME LoopInv, NEW k \in Nat
    PROVE  Cardinality(DrainsFrom(k)) <= 1
<1> DEFINE D == DrainsFrom(k)
<1>1. \A i, j \in D : ~(i < j)
    <2> SUFFICES ASSUME NEW i \in D, NEW j \in D, i < j
                 PROVE  FALSE
        OBVIOUS
    <2>1. i \in DrainsOf(stack) /\ j \in DrainsOf(stack) /\ k < i /\ InPart(stack, k, j)
        BY PartIsDrains DEF InPart
    <2>2. PICK m \in StopsOf(stack) : i < m /\ m < j
        BY <2>1 DEF LoopInv, Sound, Orderly, Separate
    <2>3. k < m
        BY <2>1, <2>2 DEF DrainsOf, StopsOf
    <2> QED
        BY <2>1, <2>2, <2>3 DEF InPart
<1>2. D \subseteq Nat
    BY PartIsDrains DEF DrainsOf
<1>3. CASE D = {}
    BY <1>3, FS_EmptySet
<1>4. CASE D # {}
    <2>1. PICK i : i \in D
        BY <1>4
    <2>2. D = {i}
        BY <1>1, <1>2, <2>1
    <2>3. Cardinality({i}) = 1
        BY FS_Singleton
    <2> QED
        BY <2>2, <2>3
<1> QED
    BY <1>3, <1>4

(* run_jobs_fallible() never drains a queue that is being drained already, *)
(* whether a callback, a nested main loop or the debugger calls it, and    *)
(* m_draining_job_queue tells of each program on the stack whether it has  *)
(* a drain.                                                                *)
THEOREM QueueDrainedOnce == Spec => []OneDrainAtATime
<1>1. LoopInv => OneDrainAtATime
    <2> SUFFICES ASSUME LoopInv, NEW k \in Stops \cup {0}
                 PROVE  /\ Cardinality(DrainsFrom(k)) <= 1
                        /\ (IF k = 0 THEN draining ELSE stack[k].was) <=> DrainsFrom(k) # {}
        BY DEF OneDrainAtATime
    <2>1. k \in Nat /\ (k = 0 \/ k \in StopsOf(stack))
        BY DEF Stops, StopsOf, StopKind
    <2>2. DrainsFrom(k) = {l \in DrainsOf(stack) : InPart(stack, k, l)}
        BY <2>1, PartIsDrains
    <2>3. CASE k = 0
        <3>1. PartIs(stack, 0, draining, slots)
            BY DEF LoopInv, Sound, Orderly
        <3> QED
            BY <2>1, <2>2, <2>3, <3>1, AtMostOne DEF PartIs
    <2>4. CASE k # 0
        <3>1. PartIs(stack, k, stack[k].was, stack[k].saved)
            BY <2>1, <2>4 DEF LoopInv, Sound, Orderly, SavedParts
        <3> QED
            BY <2>1, <2>2, <2>4, <3>1, AtMostOne DEF PartIs
    <2> QED
        BY <2>3, <2>4
<1> QED
    BY <1>1, LoopInvHolds, PTL

LEMMA OwingIsAll == LoopInv => Owing(Tag) = AllJobs(stack, slots)
<1> SUFFICES ASSUME LoopInv
             PROVE  Owing(Tag) = AllJobs(stack, slots)
    OBVIOUS
<1> DEFINE In(q) == {q[j] : j \in 1..Len(q)}
           All == UNION {In(q) : q \in Queues}
<1>1. slots \in Queue /\ stack \in Seq(AnyFrame)
    BY DEF LoopInv, LoopTypes
<1>2. ASSUME NEW q \in Queues
      PROVE  \A j \in 1..Len(q) : q[j].tag \in Tag
    <2>1. \A k \in 1..Len(stack) : stack[k] \in AnyFrame
        BY <1>1
    <2>2. q \in Queue
        BY <1>1, <1>2, <2>1 DEF Queues, AnyFrame
    <2>3. \A j \in 1..Len(q) : q[j] \in AnyJob
        BY <2>2 DEF Queue
    <2>4. \A job \in AnyJob : job.tag \in Tag
        BY DEF AnyJob
    <2> QED
        BY <2>3, <2>4
<1>3. Owing(Tag) = All \ {Blank}
    <2>1. \A job \in All : job.tag \in Tag
        BY <1>2
    <2> QED
        BY <2>1 DEF Owing
<1>4. \A job : job \in All <=> job \in In(slots) \/ \E k \in 1..Len(stack) : job \in In(stack[k].saved)
    BY DEF Queues
<1>5. \A job : job \in AllJobs(stack, slots) <=>
                   /\ job # Blank
                   /\ job \in In(slots) \/ \E k \in 1..Len(stack) : job \in In(stack[k].saved)
    BY DEF AllJobs, SavedJobs, JobsOf
<1> QED
    BY <1>3, <1>4, <1>5

(* A promise job stays in m_job_queue or in the queue that the debugger    *)
(* has put aside until it is run, unless System.exit() is called or the    *)
(* context disposed of.                                                    *)
THEOREM NoJobLost == Spec => NothingDropped
<1>1. LoopInv /\ LoopInv' /\ [Next]_vars =>
          [\A job \in Owing(Tag) : job \in Owing(Tag)' \/ shouldExit \/ over' \/ RunJob]_vars
    <2> SUFFICES ASSUME LoopInv, LoopInv', Next
                 PROVE  \A job \in Owing(Tag) :
                            job \in Owing(Tag)' \/ shouldExit \/ over' \/ RunJob
        OBVIOUS
    <2>1. StepIsFine
        BY StepFine
    <2>2. Owing(Tag) = AllJobs(stack, slots)
        BY OwingIsAll
    <2>3. (LoopInv => Owing(Tag) = AllJobs(stack, slots))'
        BY OwingIsAll, PTL
    <2> QED
        BY <2>1, <2>2, <2>3 DEF StepIsFine, Keeps
<1> QED
    BY <1>1, LoopInvHolds, PTL DEF Spec, NothingDropped

-----------------------------------------------------------------------------
(* NoJobAfterExit needs no invariant: no action but RunJob blanks a slot,  *)
(* and Resume, which replaces the queue, finds it empty or fails.          *)
LEMMA QueueSteps ==
    ASSUME Next
    PROVE  \/ UNCHANGED slots
           \/ \E job : slots' = Append(slots, job)
           \/ slots' = << >>
           \/ slots = << >>
           \/ ~shouldExit
<1>1. CASE JSStep
    BY <1>1 DEF JSStep, Enqueue, Import, QueueCleanup, SetHook, Reject, DrainMicrotaskQueue, Nest,
                Exit, Interrupt, SettleMain, Return, ModuleEvaluated, EnqueueJob, queueVars
<1>2. CASE DrainStep
    BY <1>2 DEF DrainStep, RunTask, RunJob, MayRunJob, DrainEnd, DebuggerJobs, Resume, queueVars
<1>3. CASE LoopStep
    BY <1>3 DEF LoopStep, DispatchJobs, DispatchCallback, LoadFinished, NothingPending,
                BecomesDue, NestedEnds, EnqueueJob, queueVars
<1>4. CASE EvalStep
    BY <1>4 DEF EvalStep, BeginSpin, SpinCheck, RunHook, DrainOnError, HandleExitCode, HostLoop,
                Dispose, Eval, spinUnchanged, queueVars
<1>5. CASE Over
    BY <1>5 DEF Over, vars
<1> QED
    BY <1>1, <1>2, <1>3, <1>4, <1>5 DEF Next

LEMMA AppendKeeps ==
    ASSUME NEW q \in Queue, NEW job
    PROVE  Unstarted(q) \subseteq Unstarted(Append(q, job))
<1>1. q \in Seq(AnyJob \cup {job}) /\ job \in AnyJob \cup {job}
    BY SeqMonotonic DEF Queue
<1>2. Len(q) \in Nat /\ Len(Append(q, job)) = Len(q) + 1
      /\ \A i \in 1..Len(q) : Append(q, job)[i] = q[i]
    BY <1>1, AppendProperties, LenProperties
<1> DEFINE t == Append(q, job)
<1> HIDE DEF t
<1>3. \A i \in 1..Len(q) : i \in 1..Len(t) /\ t[i] = q[i]
    BY <1>2 DEF t
<1>4. Unstarted(q) \subseteq Unstarted(t)
    BY <1>3 DEF Unstarted
<1> QED
    BY <1>4 DEF t

(* run_jobs_fallible() looks at m_should_exit before each job: once        *)
(* System.exit() has been called no drain on the stack begins another job, *)
(* and the debugger does not bring one back that had been taken.           *)
THEOREM NoJobStartsAfterExit == Spec => NoJobAfterExit
<1>1. LoopInv /\ [Next]_vars =>
          [shouldExit => Unstarted(slots) \subseteq Unstarted(slots') \/ slots' = << >>]_vars
    <2> SUFFICES ASSUME LoopInv, Next, shouldExit, slots' # << >>
                 PROVE  Unstarted(slots) \subseteq Unstarted(slots')
        OBVIOUS
    <2>1. slots \in Queue
        BY DEF LoopInv, LoopTypes
    <2>2. CASE UNCHANGED slots
        BY <2>2
    <2>3. CASE \E job : slots' = Append(slots, job)
        BY <2>1, <2>3, AppendKeeps
    <2>4. CASE slots = << >>
        BY <2>4 DEF Unstarted
    <2> QED
        BY <2>2, <2>3, <2>4, QueueSteps
<1> QED
    BY <1>1, LoopInvHolds, PTL DEF Spec, NoJobAfterExit

-----------------------------------------------------------------------------
(* What eval() has on the stack, and what it owes.                         *)

(* Each place of eval() runs its own kind of frame at the bottom of the    *)
(* stack, which is found nowhere else.                                     *)
BottomKind == {"script", "hook", "spin", "spincheck", "evaldrain"}
BottomOf(p) ==
    CASE p = "idle" -> {"nested"}
      [] p = "body" -> {"script"}
      [] p = "hook" -> {"hook"}
      [] p = "spin" -> {"spin", "spincheck"}
      [] p = "result" -> {"evaldrain"}
      [] OTHER -> {}

(* What the constants allow; only System.exit() kills a stopped program.   *)
Allowed(f) ==
    /\ f.kind = "nested" => CanNest
    /\ f.kind \in StopKind => CanDebug /\ (f.kill => CanExit)

Sits(f, s, p) ==
    /\ Allowed(f)
    /\ IF s = << >> THEN f.kind \in BottomOf(p) ELSE f.kind \notin BottomKind

Placed(s, p) ==
    \A i \in 1..Len(s) :
        /\ Allowed(s[i])
        /\ IF i = Len(s) THEN s[i].kind \in BottomOf(p) ELSE s[i].kind \notin BottomKind

(* No job is in two places.                                                *)
Single(q) == \A j, k \in 1..Len(q) : q[j] # Blank /\ q[j] = q[k] => j = k
Apart(s, q) ==
    /\ Single(q)
    /\ JobsOf(q) \cap SavedJobs(s) = {}
    /\ \A k \in 1..Len(s) : Single(s[k].saved)
    /\ \A k, l \in 1..Len(s) : k < l => JobsOf(s[k].saved) \cap JobsOf(s[l].saved) = {}

Known(s, q, n) == \A job \in AllJobs(s, q) : job.id \in 1..n

Located(s, p, q, n) == Placed(s, p) /\ Apart(s, q) /\ Known(s, q, n)

HasStop(s) == StopsOf(s) # {}

(* The holds that imports under evaluation and jobs have to release.       *)
ImportsOf(s) == {k \in 1..Len(s) : s[k].kind = "import"}
OwedJobs(s, q) == {job \in AllJobs(s, q) : job.tag # "script"}
Debt(s, q) == Cardinality(ImportsOf(s)) + Cardinality(OwedJobs(s, q))

-----------------------------------------------------------------------------
(* These are known of a stack from its top frame and the rest.             *)
LEMMA AboveShift ==
    ASSUME NEW t, NEW f, NEW s, Above(t, f, s)
    PROVE  /\ 1 \in 1..Len(t) /\ t[1] = f
           /\ \A i \in 1..Len(s) : i \in Nat /\ i + 1 \in 1..Len(t) /\ t[i + 1] = s[i]
           /\ \A i \in 1..Len(t) : i # 1 => i - 1 \in 1..Len(s) /\ t[i] = s[i - 1]
           /\ s = << >> <=> Len(s) = 0
<1>1. \A i \in 1..Len(s) : i + 1 \in 1..Len(t) /\ t[i + 1] = s[i]
    BY DEF Above
<1>2. 1 \in 1..Len(t) /\ t[1] = f
    BY DEF Above
<1>3. \A i \in 1..Len(t) : i # 1 => i - 1 \in 1..Len(s) /\ t[i] = s[i - 1]
    <2> SUFFICES ASSUME NEW i \in 1..Len(t), i # 1
                 PROVE  i - 1 \in 1..Len(s) /\ t[i] = s[i - 1]
        OBVIOUS
    <2>1. i - 1 \in 1..Len(s) /\ (i - 1) + 1 = i
        BY DEF Above
    <2>2. t[(i - 1) + 1] = s[i - 1]
        BY <1>1, <2>1
    <2> QED
        BY <2>1, <2>2
<1>4. s = << >> <=> Len(s) = 0
    BY EmptySeq DEF Above
<1> QED
    BY <1>1, <1>2, <1>3, <1>4

LEMMA PlacedGrows ==
    ASSUME NEW t, NEW f, NEW s, Above(t, f, s), NEW p
    PROVE  Placed(t, p) <=> Placed(s, p) /\ Sits(f, s, p)
<1>1. /\ 1 \in 1..Len(t) /\ t[1] = f
      /\ \A i \in 1..Len(s) : i \in Nat /\ i + 1 \in 1..Len(t) /\ t[i + 1] = s[i]
      /\ \A i \in 1..Len(t) : i # 1 => i - 1 \in 1..Len(s) /\ t[i] = s[i - 1]
      /\ s = << >> <=> Len(s) = 0
    BY AboveShift
<1>2. Len(s) \in Nat /\ Len(t) = Len(s) + 1
    BY DEF Above
<1> DEFINE In(u, i, n) ==
        /\ Allowed(u[i])
        /\ IF i = n THEN u[i].kind \in BottomOf(p) ELSE u[i].kind \notin BottomKind
<1>3. Placed(t, p) <=> \A i \in 1..Len(t) : In(t, i, Len(t))
    BY DEF Placed
<1>4. Placed(s, p) <=> \A i \in 1..Len(s) : In(s, i, Len(s))
    BY DEF Placed
<1>5. \A i \in 1..Len(s) : In(t, i + 1, Len(t)) <=> In(s, i, Len(s))
    BY <1>1, <1>2
<1>6. \A i \in 1..Len(t) : i # 1 => (In(t, i, Len(t)) <=> In(s, i - 1, Len(s)))
    BY <1>1, <1>2
<1>7. In(t, 1, Len(t)) <=> Sits(f, s, p)
    BY <1>1, <1>2 DEF Sits
<1> HIDE DEF In
<1> QED
    BY <1>1, <1>3, <1>4, <1>5, <1>6, <1>7

LEMMA ApartGrows ==
    ASSUME NEW t, NEW f, NEW s, Above(t, f, s), NEW q
    PROVE  Apart(t, q) <=> /\ Single(q)
                           /\ JobsOf(q) \cap (JobsOf(f.saved) \cup SavedJobs(s)) = {}
                           /\ Apart(s, f.saved)
<1>1. /\ 1 \in 1..Len(t) /\ t[1] = f
      /\ \A i \in 1..Len(s) : i \in Nat /\ i + 1 \in 1..Len(t) /\ t[i + 1] = s[i]
      /\ \A i \in 1..Len(t) : i # 1 => i - 1 \in 1..Len(s) /\ t[i] = s[i - 1]
    BY AboveShift
<1>2. SavedJobs(t) = JobsOf(f.saved) \cup SavedJobs(s)
    BY SavedGrow
<1>3. (\A k \in 1..Len(t) : Single(t[k].saved)) <=>
          Single(f.saved) /\ \A k \in 1..Len(s) : Single(s[k].saved)
    BY <1>1
<1> DEFINE J(u, k) == JobsOf(u[k].saved)
           Far(u) == \A k, l \in 1..Len(u) : k < l => J(u, k) \cap J(u, l) = {}
<1>4. \A i \in 1..Len(s) : J(t, i + 1) = J(s, i)
    BY <1>1
<1>5. \A i \in 1..Len(t) : i # 1 => J(t, i) = J(s, i - 1)
    BY <1>1
<1>6. J(t, 1) = JobsOf(f.saved)
    BY <1>1
<1>7. JobsOf(f.saved) \cap SavedJobs(s) = {} <=>
          \A i \in 1..Len(s) : JobsOf(f.saved) \cap J(s, i) = {}
    BY DEF SavedJobs
<1> HIDE DEF J
<1>8. ASSUME Far(t)
      PROVE  Far(s) /\ \A i \in 1..Len(s) : JobsOf(f.saved) \cap J(s, i) = {}
    <2>1. \A k, l \in 1..Len(s) : k < l => k + 1 < l + 1
        OBVIOUS
    <2>2. \A i \in 1..Len(s) : 1 < i + 1
        OBVIOUS
    <2>3. ASSUME NEW k \in 1..Len(s), NEW l \in 1..Len(s), k < l
          PROVE  J(s, k) \cap J(s, l) = {}
        BY <1>1, <1>4, <1>8, <2>1, <2>3
    <2>4. ASSUME NEW i \in 1..Len(s)
          PROVE  JobsOf(f.saved) \cap J(s, i) = {}
        BY <1>1, <1>4, <1>6, <1>8, <2>2, <2>4
    <2> QED
        BY <2>3, <2>4
<1>9. ASSUME Far(s), \A i \in 1..Len(s) : JobsOf(f.saved) \cap J(s, i) = {}
      PROVE  Far(t)
    <2> SUFFICES ASSUME NEW k \in 1..Len(t), NEW l \in 1..Len(t), k < l
                 PROVE  J(t, k) \cap J(t, l) = {}
        OBVIOUS
    <2>1. l # 1 /\ l - 1 \in 1..Len(s) /\ J(t, l) = J(s, l - 1)
        BY <1>1, <1>5
    <2>2. CASE k = 1
        BY <1>6, <1>9, <2>1, <2>2
    <2>3. CASE k # 1
        <3>1. k - 1 \in 1..Len(s) /\ J(t, k) = J(s, k - 1) /\ k - 1 < l - 1
            BY <1>1, <1>5, <2>3
        <3> QED
            BY <1>9, <2>1, <3>1
    <2> QED
        BY <2>2, <2>3
<1>10. Far(t) <=> Far(s) /\ JobsOf(f.saved) \cap SavedJobs(s) = {}
    BY <1>7, <1>8, <1>9
<1>11. Apart(t, q) <=> /\ Single(q)
                       /\ JobsOf(q) \cap SavedJobs(t) = {}
                       /\ \A k \in 1..Len(t) : Single(t[k].saved)
                       /\ Far(t)
    BY DEF Apart, J
<1>12. Apart(s, f.saved) <=> /\ Single(f.saved)
                             /\ JobsOf(f.saved) \cap SavedJobs(s) = {}
                             /\ \A k \in 1..Len(s) : Single(s[k].saved)
                             /\ Far(s)
    BY DEF Apart, J
<1> QED
    BY <1>2, <1>3, <1>10, <1>11, <1>12

LEMMA StopsGrow ==
    ASSUME NEW t, NEW f, NEW s, Above(t, f, s)
    PROVE  HasStop(t) <=> f.kind \in StopKind \/ HasStop(s)
<1>1. /\ \A i \in StopsOf(s) : i + 1 \in StopsOf(t)
      /\ \A i \in StopsOf(t) : i # 1 => i - 1 \in StopsOf(s)
      /\ 1 \in StopsOf(t) <=> f.kind \in StopKind
    BY Shift
<1>2. ASSUME HasStop(t)
      PROVE  f.kind \in StopKind \/ HasStop(s)
    <2>1. PICK i : i \in StopsOf(t)
        BY <1>2 DEF HasStop
    <2> QED
        BY <1>1, <2>1 DEF HasStop
<1>3. ASSUME f.kind \in StopKind \/ HasStop(s)
      PROVE  HasStop(t)
    BY <1>1, <1>3 DEF HasStop
<1> QED
    BY <1>2, <1>3

(* Imports are counted.                                                    *)
LEMMA ImportsFinite ==
    ASSUME NEW s \in Seq(AnyFrame)
    PROVE  IsFiniteSet(ImportsOf(s)) /\ Cardinality(ImportsOf(s)) \in Nat
<1>1. Len(s) \in Nat
    BY LenProperties
<1>2. IsFiniteSet(1..Len(s))
    BY <1>1, FS_Interval
<1>3. ImportsOf(s) \subseteq 1..Len(s)
    BY DEF ImportsOf
<1>4. IsFiniteSet(ImportsOf(s))
    BY <1>2, <1>3, FS_Subset
<1> QED
    BY <1>4, FS_CardinalityType

LEMMA ImportsGrow ==
    ASSUME NEW t, NEW f, NEW s, Above(t, f, s)
    PROVE  Cardinality(ImportsOf(t)) =
               Cardinality(ImportsOf(s)) + (IF f.kind = "import" THEN 1 ELSE 0)
<1>1. /\ 1 \in 1..Len(t) /\ t[1] = f
      /\ \A i \in 1..Len(s) : i \in Nat /\ i + 1 \in 1..Len(t) /\ t[i + 1] = s[i]
      /\ \A i \in 1..Len(t) : i # 1 => i - 1 \in 1..Len(s) /\ t[i] = s[i - 1]
    BY AboveShift
<1> DEFINE R == ImportsOf(t) \ {1}
           sh == [i \in ImportsOf(s) |-> i + 1]
<1>2. IsFiniteSet(ImportsOf(s)) /\ IsFiniteSet(ImportsOf(t))
      /\ Cardinality(ImportsOf(s)) \in Nat
    BY ImportsFinite DEF Above
<1>3. sh \in Bijection(ImportsOf(s), R)
    <2>1. \A i \in ImportsOf(s) : i \in Nat /\ i + 1 \in R
        BY <1>1 DEF ImportsOf
    <2>2. \A i \in R : i \in Int /\ i - 1 \in ImportsOf(s)
        BY <1>1 DEF ImportsOf
    <2>3. sh \in [ImportsOf(s) -> R]
        BY <2>1
    <2>4. \A i, j \in ImportsOf(s) : sh[i] = sh[j] => i = j
        BY <2>1
    <2>5. \A i \in R : \E j \in ImportsOf(s) : sh[j] = i
        <3> SUFFICES ASSUME NEW i \in R
                     PROVE  sh[i - 1] = i
            BY <2>2
        <3> QED
            BY <2>2
    <2> QED
        BY <2>3, <2>4, <2>5 DEF Bijection, Injection, Surjection, IsInjective
<1> HIDE DEF R, sh
<1>4. Cardinality(R) = Cardinality(ImportsOf(s)) /\ IsFiniteSet(R)
    <2>1. \E g : g \in Bijection(ImportsOf(s), R)
        BY <1>3
    <2>2. Cardinality(ImportsOf(s)) = Cardinality(R)
        BY <1>2, <2>1, FS_Bijection DEF ExistsBijection
    <2>3. IsFiniteSet(R)
        BY <1>2, FS_Subset DEF R
    <2> QED
        BY <2>2, <2>3
<1>5. CASE f.kind = "import"
    <2>1. 1 \in ImportsOf(t)
        BY <1>1, <1>5 DEF ImportsOf
    <2>2. ImportsOf(t) = R \cup {1} /\ 1 \notin R
        BY <2>1 DEF R
    <2>3. Cardinality(R \cup {1}) = Cardinality(R) + 1
        BY <1>4, <2>2, FS_AddElement
    <2> QED
        BY <1>4, <1>5, <2>2, <2>3
<1>6. CASE f.kind # "import"
    <2>1. 1 \notin ImportsOf(t)
        BY <1>1, <1>6 DEF ImportsOf
    <2>2. ImportsOf(t) = R
        BY <2>1 DEF R
    <2>3. Cardinality(ImportsOf(t)) = Cardinality(ImportsOf(s))
        BY <1>4, <2>2
    <2> QED
        BY <1>2, <1>6, <2>3
<1> QED
    BY <1>5, <1>6

(* All jobs together are finitely many.                                    *)
LEMMA ImageFinite ==
    ASSUME NEW n \in Nat, NEW g, DOMAIN g = 1..n, g = [k \in 1..n |-> g[k]]
    PROVE  IsFiniteSet({g[k] : k \in 1..n})
<1> DEFINE T == {g[k] : k \in 1..n}
<1>1. g \in Surjection(1..n, T)
    BY DEF Surjection
<1> HIDE DEF T
<1>2. IsFiniteSet(1..n)
    BY FS_Interval
<1>3. IsFiniteSet(T)
    BY <1>1, <1>2, FS_Surjection
<1> QED
    BY <1>3 DEF T

LEMMA JobsFinite ==
    ASSUME NEW q \in Queue
    PROVE  IsFiniteSet(JobsOf(q))
<1>1. Len(q) \in Nat /\ q \in [1..Len(q) -> AnyJob]
    BY LenProperties DEF Queue
<1> DEFINE n == Len(q)
<1>2. n \in Nat /\ DOMAIN q = 1..n /\ q = [k \in 1..n |-> q[k]]
    BY <1>1
<1> HIDE DEF n
<1>3. IsFiniteSet({q[k] : k \in 1..n})
    BY <1>2, ImageFinite
<1>4. JobsOf(q) \subseteq {q[k] : k \in 1..n}
    BY DEF JobsOf, n
<1> QED
    BY <1>3, <1>4, FS_Subset

LEMMA AllFinite ==
    ASSUME NEW s \in Seq(AnyFrame), NEW q \in Queue
    PROVE  IsFiniteSet(AllJobs(s, q))
<1> DEFINE n == Len(s)
           g == [k \in 1..n |-> JobsOf(s[k].saved)]
<1>1. n \in Nat /\ \A k \in 1..n : s[k] \in AnyFrame
    BY LenProperties
<1>2. \A k \in 1..n : IsFiniteSet(JobsOf(s[k].saved))
    BY <1>1, JobsFinite DEF AnyFrame
<1>3. DOMAIN g = 1..n /\ g = [k \in 1..n |-> g[k]]
    OBVIOUS
<1>4. {g[k] : k \in 1..n} = {JobsOf(s[k].saved) : k \in 1..n}
    OBVIOUS
<1> HIDE DEF g
<1>5. IsFiniteSet({g[k] : k \in 1..n})
    <2> HIDE DEF n
    <2> QED
        BY <1>1, <1>3, ImageFinite
<1>6. IsFiniteSet(SavedJobs(s))
    <2> DEFINE U == {g[k] : k \in 1..n}
    <2>1. \A T \in U : IsFiniteSet(T)
        BY <1>2, <1>4
    <2>2. SavedJobs(s) = UNION U
        BY <1>4 DEF SavedJobs
    <2> HIDE DEF U
    <2>3. IsFiniteSet(U)
        BY <1>5 DEF U
    <2> QED
        BY <2>1, <2>2, <2>3, FS_UNION
<1> QED
    BY <1>6, JobsFinite, FS_Union DEF AllJobs

LEMMA OwedFinite ==
    ASSUME NEW s \in Seq(AnyFrame), NEW q \in Queue
    PROVE  /\ IsFiniteSet(OwedJobs(s, q))
           /\ Cardinality(OwedJobs(s, q)) \in Nat
           /\ Debt(s, q) \in Nat
<1>1. IsFiniteSet(OwedJobs(s, q))
    <2>1. OwedJobs(s, q) \subseteq AllJobs(s, q)
        BY DEF OwedJobs
    <2> QED
        BY <2>1, AllFinite, FS_Subset
<1>2. Cardinality(OwedJobs(s, q)) \in Nat
    BY <1>1, FS_CardinalityType
<1> QED
    BY <1>1, <1>2, ImportsFinite DEF Debt

(* One frame more that has no queue: it is at its place, and owes one      *)
(* release if it is an import.                                             *)
LEMMA ApartBare ==
    ASSUME NEW s, NEW q, Apart(s, q)
    PROVE  Apart(s, << >>)
<1>1. Single(<< >>) /\ JobsOf(<< >>) = {}
    BY NoJobs DEF Single
<1> QED
    BY <1>1 DEF Apart

LEMMA WithOther ==
    ASSUME NEW r \in Seq(AnyFrame), NEW f \in AnyFrame, f.saved = << >>, NEW p, NEW q, NEW n
    PROVE  /\ Located(<<f>> \o r, p, q, n) <=> Located(r, p, q, n) /\ Sits(f, r, p)
           /\ AllJobs(<<f>> \o r, q) = AllJobs(r, q)
<1> DEFINE t == <<f>> \o r
<1>1. Above(t, f, r)
    BY PushedAbove
<1> HIDE DEF t
<1>2. JobsOf(f.saved) = {}
    BY NoJobs
<1>3. SavedJobs(t) = SavedJobs(r)
    <2>1. SavedJobs(t) = JobsOf(f.saved) \cup SavedJobs(r)
        BY <1>1, SavedGrow
    <2> QED
        BY <1>2, <2>1
<1>4. AllJobs(t, q) = AllJobs(r, q)
    BY <1>3 DEF AllJobs
<1>5. Placed(t, p) <=> Placed(r, p) /\ Sits(f, r, p)
    BY <1>1, PlacedGrows
<1>6. Apart(t, q) <=> Apart(r, q)
    <2>1. Apart(t, q) <=> /\ Single(q)
                          /\ JobsOf(q) \cap SavedJobs(r) = {}
                          /\ Apart(r, << >>)
        BY <1>1, <1>2, ApartGrows
    <2>2. Single(<< >>) /\ JobsOf(<< >>) = {}
        BY NoJobs DEF Single
    <2> QED
        BY <2>1, <2>2 DEF Apart
<1>7. Known(t, q, n) <=> Known(r, q, n)
    BY <1>4 DEF Known
<1> QED
    BY <1>4, <1>5, <1>6, <1>7 DEF Located, t

(* A stop of the debugger, whose own queue is empty.                       *)
LEMMA WithPause ==
    ASSUME NEW r \in Seq(AnyFrame), NEW f \in AnyFrame, NEW p, NEW n
    PROVE  /\ Located(<<f>> \o r, p, << >>, n) <=>
                  Located(r, p, f.saved, n) /\ Sits(f, r, p)
           /\ AllJobs(<<f>> \o r, << >>) = AllJobs(r, f.saved)
<1> DEFINE t == <<f>> \o r
<1>1. Above(t, f, r)
    BY PushedAbove
<1> HIDE DEF t
<1>2. JobsOf(<< >>) = {} /\ Single(<< >>)
    BY NoJobs DEF Single
<1>3. AllJobs(t, << >>) = AllJobs(r, f.saved)
    BY <1>1, <1>2, SavedGrow DEF AllJobs
<1>4. Placed(t, p) <=> Placed(r, p) /\ Sits(f, r, p)
    BY <1>1, PlacedGrows
<1>5. Apart(t, << >>) <=> Apart(r, f.saved)
    BY <1>1, <1>2, ApartGrows
<1>6. Known(t, << >>, n) <=> Known(r, f.saved, n)
    BY <1>3 DEF Known
<1> QED
    BY <1>3, <1>4, <1>5, <1>6 DEF Located, t

(* Another top frame that has the same queue.                              *)
LEMMA Changed ==
    ASSUME NEW r \in Seq(AnyFrame), NEW f \in AnyFrame, NEW g \in AnyFrame,
           g.saved = f.saved, NEW p, NEW q, NEW n,
           Located(<<f>> \o r, p, q, n), Sits(g, r, p)
    PROVE  /\ Located(<<g>> \o r, p, q, n)
           /\ AllJobs(<<g>> \o r, q) = AllJobs(<<f>> \o r, q)
<1> DEFINE t == <<f>> \o r
           u == <<g>> \o r
<1>1. Above(t, f, r) /\ Above(u, g, r)
    BY PushedAbove
<1> HIDE DEF t, u
<1>2. AllJobs(u, q) = AllJobs(t, q)
    BY <1>1, SavedGrow DEF AllJobs
<1>3. Placed(t, p) /\ Apart(t, q) /\ Known(t, q, n)
    BY DEF Located, t
<1>4. Placed(u, p)
    BY <1>1, <1>3, PlacedGrows
<1>5. Apart(u, q)
    BY <1>1, <1>3, ApartGrows
<1>6. Known(u, q, n)
    BY <1>2, <1>3 DEF Known
<1> QED
    BY <1>2, <1>4, <1>5, <1>6 DEF Located, t, u

(* What is counted on a stack.                                             *)
LEMMA Counted ==
    ASSUME NEW r \in Seq(AnyFrame), NEW f \in AnyFrame
    PROVE  /\ HasStop(<<f>> \o r) <=> f.kind \in StopKind \/ HasStop(r)
           /\ Cardinality(ImportsOf(<<f>> \o r)) =
                  Cardinality(ImportsOf(r)) + (IF f.kind = "import" THEN 1 ELSE 0)
           /\ Cardinality(ImportsOf(r)) \in Nat
BY PushedAbove, StopsGrow, ImportsGrow, ImportsFinite

LEMMA NothingOn ==
    ASSUME NEW p, NEW q
    PROVE  /\ ~HasStop(<< >>)
           /\ Cardinality(ImportsOf(<< >>)) = 0
           /\ Placed(<< >>, p)
<1>1. StopsOf(<< >>) = {} /\ ImportsOf(<< >>) = {}
    BY DEF StopsOf, ImportsOf
<1> QED
    BY <1>1, FS_EmptySet DEF HasStop, Placed

(* A job that is enqueued is a new one.                                    *)
LEMMA JobAdded ==
    ASSUME NEW q \in Queue, NEW job \in AnyJob, job # Blank, Single(q), job \notin JobsOf(q)
    PROVE  /\ JobsOf(Append(q, job)) = JobsOf(q) \cup {job}
           /\ Single(Append(q, job))
<1> DEFINE t == Append(q, job)
           n == Len(q)
<1>1. /\ n \in Nat /\ Len(t) = n + 1
      /\ \A i \in 1..n : t[i] = q[i]
      /\ t[n + 1] = job
    BY AppendProperties, LenProperties DEF Queue
<1> HIDE DEF t
<1>2. \A i \in 1..Len(t) : i = n + 1 \/ i \in 1..n
    BY <1>1
<1>3. \A i \in 1..n : i \in 1..Len(t)
    BY <1>1
<1>4. n + 1 \in 1..Len(t)
    BY <1>1
<1>5. \A x : x \in JobsOf(q) <=> x # Blank /\ \E i \in 1..n : q[i] = x
    BY DEF JobsOf
<1>6. \A x : x \in JobsOf(t) <=> x # Blank /\ \E i \in 1..Len(t) : t[i] = x
    BY DEF JobsOf
<1> HIDE DEF n
<1>7. JobsOf(t) = JobsOf(q) \cup {job}
    BY <1>1, <1>2, <1>3, <1>4, <1>5, <1>6
<1>8. \A i \in 1..n : q[i] # job
    BY <1>5
<1>9. Single(t)
    <2> SUFFICES ASSUME NEW j \in 1..Len(t), NEW k \in 1..Len(t), t[j] # Blank, t[j] = t[k]
                 PROVE  j = k
        BY DEF Single
    <2>1. CASE j \in 1..n /\ k \in 1..n
        <3>1. q[j] # Blank /\ q[j] = q[k]
            BY <1>1, <2>1
        <3> QED
            BY <2>1, <3>1 DEF Single, n
    <2>2. CASE j = n + 1 /\ k = n + 1
        BY <2>2
    <2>3. CASE j = n + 1 /\ k \in 1..n
        BY <1>1, <1>8, <2>3
    <2>4. CASE j \in 1..n /\ k = n + 1
        BY <1>1, <1>8, <2>4
    <2> QED
        BY <1>2, <2>1, <2>2, <2>3, <2>4
<1> QED
    BY <1>7, <1>9 DEF t

LEMMA NewJob ==
    ASSUME NEW s \in Seq(AnyFrame), NEW q \in Queue, NEW n \in Nat, NEW p,
           Located(s, p, q, n), NEW job \in AnyJob, job.id = n + 1
    PROVE  /\ Located(s, p, Append(q, job), n + 1)
           /\ Cardinality(OwedJobs(s, Append(q, job))) =
                  Cardinality(OwedJobs(s, q)) + (IF job.tag # "script" THEN 1 ELSE 0)
<1>1. job # Blank
    BY DEF Blank
<1>2. Placed(s, p) /\ Apart(s, q) /\ Known(s, q, n)
    BY DEF Located
<1>3. job \notin AllJobs(s, q)
    BY <1>2 DEF Known
<1>4. /\ JobsOf(Append(q, job)) = JobsOf(q) \cup {job}
      /\ Single(Append(q, job))
    BY <1>1, <1>2, <1>3, JobAdded DEF Apart, AllJobs
<1> DEFINE t == Append(q, job)
<1> HIDE DEF t
<1>5. AllJobs(s, t) = AllJobs(s, q) \cup {job}
    BY <1>4 DEF AllJobs, t
<1>6. Apart(s, t)
    BY <1>2, <1>3, <1>4 DEF Apart, AllJobs, t
<1>7. Known(s, t, n + 1)
    <2>1. \A i \in 1..n : i \in 1..(n + 1)
        OBVIOUS
    <2>2. n + 1 \in 1..(n + 1)
        OBVIOUS
    <2> QED
        BY <1>2, <1>5, <2>1, <2>2 DEF Known
<1>8. Cardinality(OwedJobs(s, t)) = Cardinality(OwedJobs(s, q)) + (IF job.tag # "script" THEN 1 ELSE 0)
    <2>1. IsFiniteSet(OwedJobs(s, q)) /\ Cardinality(OwedJobs(s, q)) \in Nat
        BY OwedFinite
    <2>2. job \notin OwedJobs(s, q)
        BY <1>3 DEF OwedJobs
    <2>3. CASE job.tag = "script"
        <3>1. OwedJobs(s, t) = OwedJobs(s, q)
            BY <1>5, <2>3 DEF OwedJobs
        <3> QED
            BY <2>1, <2>3, <3>1
    <2>4. CASE job.tag # "script"
        <3>1. OwedJobs(s, t) = OwedJobs(s, q) \cup {job}
            BY <1>5, <2>4 DEF OwedJobs
        <3>2. Cardinality(OwedJobs(s, q) \cup {job}) = Cardinality(OwedJobs(s, q)) + 1
            BY <2>1, <2>2, FS_AddElement
        <3> QED
            BY <2>4, <3>1, <3>2
    <2> QED
        BY <2>3, <2>4
<1> QED
    BY <1>2, <1>6, <1>7, <1>8 DEF Located, t

(* A job that is taken leaves.                                             *)
LEMMA JobTaken ==
    ASSUME NEW q \in Queue, NEW k \in 1..Len(q), q[k] # Blank, Single(q)
    PROVE  /\ [q EXCEPT ![k] = Blank] \in Queue
           /\ JobsOf([q EXCEPT ![k] = Blank]) = JobsOf(q) \ {q[k]}
           /\ Single([q EXCEPT ![k] = Blank])
<1> DEFINE t == [q EXCEPT ![k] = Blank]
           n == Len(q)
<1>0. Blank \in AnyJob
    BY DEF Blank, AnyJob, Tag
<1>1. /\ n \in Nat /\ t \in Queue /\ Len(t) = n
      /\ \A i \in 1..n : t[i] = IF i = k THEN Blank ELSE q[i]
    BY <1>0, ExceptSeq, LenProperties DEF Queue
<1> HIDE DEF t
<1>2. \A x : x \in JobsOf(q) <=> x # Blank /\ \E i \in 1..n : q[i] = x
    BY DEF JobsOf
<1>3. \A x : x \in JobsOf(t) <=> x # Blank /\ \E i \in 1..n : t[i] = x
    BY <1>1 DEF JobsOf
<1>4. \A i, j \in 1..n : q[i] # Blank /\ q[i] = q[j] => i = j
    BY DEF Single
<1>5. k \in 1..n
    OBVIOUS
<1>6. Single(t)
    <2> SUFFICES \A i, j \in 1..n : t[i] # Blank /\ t[i] = t[j] => i = j
        BY <1>1 DEF Single
    <2> HIDE DEF n
    <2> QED
        BY <1>1, <1>4
<1> HIDE DEF n
<1>7. JobsOf(t) = JobsOf(q) \ {q[k]}
    <2>1. ASSUME NEW x \in JobsOf(t)
          PROVE  x \in JobsOf(q) /\ x # q[k]
        BY <1>1, <1>2, <1>3, <1>4, <1>5, <2>1
    <2>2. ASSUME NEW x \in JobsOf(q), x # q[k]
          PROVE  x \in JobsOf(t)
        BY <1>1, <1>2, <1>3, <2>2
    <2> QED
        BY <2>1, <2>2
<1> QED
    BY <1>1, <1>6, <1>7 DEF t

LEMMA TakenJob ==
    ASSUME NEW s \in Seq(AnyFrame), NEW q \in Queue, NEW n, NEW p,
           Located(s, p, q, n), NEW k \in 1..Len(q), q[k] # Blank
    PROVE  /\ Located(s, p, [q EXCEPT ![k] = Blank], n)
           /\ Cardinality(OwedJobs(s, q)) =
                  Cardinality(OwedJobs(s, [q EXCEPT ![k] = Blank])) + (IF q[k].tag # "script" THEN 1 ELSE 0)
<1>2. Placed(s, p) /\ Apart(s, q) /\ Known(s, q, n)
    BY DEF Located
<1>4. /\ [q EXCEPT ![k] = Blank] \in Queue
      /\ JobsOf([q EXCEPT ![k] = Blank]) = JobsOf(q) \ {q[k]}
      /\ Single([q EXCEPT ![k] = Blank])
    BY <1>2, JobTaken DEF Apart
<1> DEFINE t == [q EXCEPT ![k] = Blank]
           job == q[k]
<1>3. job \in JobsOf(q)
    BY DEF JobsOf
<1> HIDE DEF t, job
<1>5. AllJobs(s, t) = AllJobs(s, q) \ {job} /\ job \in AllJobs(s, q)
    BY <1>2, <1>3, <1>4 DEF AllJobs, Apart, t, job
<1>6. Apart(s, t)
    BY <1>2, <1>4 DEF Apart, t
<1>7. Known(s, t, n)
    BY <1>2, <1>5 DEF Known
<1>8. Cardinality(OwedJobs(s, q)) = Cardinality(OwedJobs(s, t)) + (IF job.tag # "script" THEN 1 ELSE 0)
    <2>1. IsFiniteSet(OwedJobs(s, q)) /\ Cardinality(OwedJobs(s, q)) \in Nat
        BY OwedFinite
    <2>2. Cardinality(OwedJobs(s, t)) \in Nat
        BY <1>4, OwedFinite DEF t
    <2>3. CASE job.tag = "script"
        <3>1. OwedJobs(s, t) = OwedJobs(s, q)
            BY <1>5, <2>3 DEF OwedJobs
        <3> QED
            BY <2>1, <2>3, <3>1
    <2>4. CASE job.tag # "script"
        <3>1. OwedJobs(s, t) = OwedJobs(s, q) \ {job} /\ job \in OwedJobs(s, q)
            BY <1>5, <2>4 DEF OwedJobs
        <3>2. Cardinality(OwedJobs(s, q) \ {job}) = Cardinality(OwedJobs(s, q)) - 1
            BY <2>1, <3>1, FS_RemoveElement
        <3> QED
            BY <2>1, <2>4, <3>1, <3>2
    <2> QED
        BY <2>3, <2>4
<1> QED
    BY <1>2, <1>6, <1>7, <1>8 DEF Located, t, job

-----------------------------------------------------------------------------
(* The invariant of eval(): the frames are where they belong, the          *)
(* dispatcher is awake unless the debugger has stopped it, what is owed to *)
(* the main loop is held, and a spin that came to its end left nothing.    *)
Awake ==
    /\ cancelled => slots = << >> /\ (over \/ HasStop(stack))
    /\ ~CanNest \/ ~CanDebug => attached = "yes"

Timely ==
    /\ phase = "spin" /\ stack # << >> => ~exiting
    /\ phase = "result" /\ stack # << >> => ~ok
    /\ phase = "body" /\ mode = "module" => ~awaiting
    /\ ~CanExit => ~shouldExit

Settled ==
    phase \in {"drain", "result"} /\ ok /\ ~stop =>
        slots = << >> /\ holds = 0 /\ loads = 0 /\ ~awaiting /\ ~hook

OwedNow == 2 * loads + (IF awaiting THEN 1 ELSE 0) + Debt(stack, slots)
Balanced == ~exiting /\ ~over => holds >= OwedNow /\ (~CanExit => holds = OwedNow)

Accounted ==
    /\ holds \in Nat
    /\ awaiting \in BOOLEAN
    /\ fault # "overReleased"
    /\ Balanced

Sited == Located(stack, phase, slots, born)
EvalInv == LoopInv /\ Sited /\ Awake /\ Timely /\ Settled /\ Accounted

-----------------------------------------------------------------------------
(* What a step keeps when it leaves the place of eval() alone.             *)
LEMMA PhaseStays ==
    ASSUME EvalInv, stack # << >>, UNCHANGED <<phase, mode, ok, exiting>>,
           LoopInv', Sited', Awake', Accounted',
           phase = "body" /\ mode = "module" => ~awaiting', shouldExit' => CanExit
    PROVE  EvalInv'
<1>1. phase # "drain"
    <2>1. PICK f \in AnyFrame, r \in Seq(AnyFrame) :
              stack = <<f>> \o r /\ Top = f /\ Tail(stack) = r
        BY Split DEF EvalInv
    <2>2. Above(stack, f, r)
        BY <2>1, PushedAbove
    <2>3. Len(stack) \in 1..Len(stack)
        BY <2>2 DEF Above
    <2>4. stack[Len(stack)].kind \in BottomOf(phase)
        BY <2>3 DEF EvalInv, Sited, Located, Placed
    <2>5. BottomOf("drain") = {}
        BY DEF BottomOf
    <2> QED
        BY <2>4, <2>5
<1>2. Timely'
    BY DEF Timely, EvalInv
<1>3. Settled'
    BY <1>1 DEF Settled, Timely, EvalInv
<1> QED
    BY <1>2, <1>3 DEF EvalInv

LEMMA AwakeStays ==
    ASSUME EvalInv, UNCHANGED <<attached, cancelled>>, slots' = slots \/ slots' = << >>,
           HasStop(stack) => HasStop(stack'), over => over'
    PROVE  Awake'
BY DEF EvalInv, Awake

LEMMA AwakeNow ==
    ASSUME EvalInv, StartDispatcher
    PROVE  Awake'
<1>1. attached' = attached /\ cancelled' = FALSE
    BY DEF EvalInv, LoopInv, LoopTypes, StartDispatcher, IsRunning
<1> QED
    BY <1>1 DEF EvalInv, Awake

LEMMA DebtType ==
    ASSUME LoopInv
    PROVE  Debt(stack, slots) \in Nat /\ loads \in Nat
BY OwedFinite DEF LoopInv, LoopTypes

LEMMA BalanceStays ==
    ASSUME EvalInv, LoopInv', UNCHANGED <<holds, loads, awaiting, exiting>>, over => over',
           fault' # "overReleased",
           Debt(stack, slots)' <= Debt(stack, slots),
           ~CanExit => Debt(stack, slots)' = Debt(stack, slots)
    PROVE  Accounted'
<1>1. Debt(stack, slots) \in Nat /\ loads \in Nat
    BY DebtType DEF EvalInv
<1>2. Debt(stack, slots)' \in Nat
    <2>1. (LoopInv => Debt(stack, slots) \in Nat)'
        BY DebtType, PTL
    <2> QED
        BY <2>1
<1>3. PICK d \in Nat, e \in Nat : d = Debt(stack, slots) /\ e = Debt(stack, slots)'
    BY <1>1, <1>2
<1>4. e <= d /\ (~CanExit => e = d)
    BY <1>3
<1>5. OwedNow = 2 * loads + (IF awaiting THEN 1 ELSE 0) + d /\ OwedNow' = 2 * loads + (IF awaiting THEN 1 ELSE 0) + e
    BY <1>3 DEF OwedNow
<1>6. holds \in Nat
    BY DEF EvalInv, Accounted
<1>7. holds' = holds /\ OwedNow' <= OwedNow
    BY <1>1, <1>4, <1>5, <1>6
<1>8. ~CanExit => OwedNow' = OwedNow
    BY <1>4, <1>5
<1>9. OwedNow \in Nat /\ OwedNow' \in Nat
    BY <1>1, <1>5, <1>6
<1>10. ~over' => ~over
    OBVIOUS
<1>11. ~exiting' => ~exiting
    OBVIOUS
<1>12. Balanced'
    <2> SUFFICES ASSUME ~exiting', ~over'
                 PROVE  holds' >= OwedNow' /\ (~CanExit => holds' = OwedNow')
        BY DEF Balanced
    <2>1. holds >= OwedNow /\ (~CanExit => holds = OwedNow)
        BY <1>10, <1>11 DEF EvalInv, Accounted, Balanced
    <2>2. holds' >= OwedNow'
        BY <1>6, <1>7, <1>9, <2>1
    <2> QED
        BY <1>7, <1>8, <2>1, <2>2
<1> QED
    BY <1>12 DEF EvalInv, Accounted

(* One frame more: where it sits and what it owes.                         *)
LEMMA OnTop ==
    ASSUME NEW r \in Seq(AnyFrame), NEW f \in AnyFrame, f.saved = << >>, f.kind \notin StopKind,
           NEW p, NEW n, NEW q \in Queue
    PROVE  /\ Located(<<f>> \o r, p, q, n) <=> Located(r, p, q, n) /\ Sits(f, r, p)
           /\ HasStop(<<f>> \o r) <=> HasStop(r)
           /\ Debt(<<f>> \o r, q) = Debt(r, q) + (IF f.kind = "import" THEN 1 ELSE 0)
           /\ Debt(r, q) \in Nat
<1> DEFINE t == <<f>> \o r
<1>1. /\ Located(t, p, q, n) <=> Located(r, p, q, n) /\ Sits(f, r, p)
      /\ AllJobs(t, q) = AllJobs(r, q)
    BY WithOther
<1>2. /\ HasStop(t) <=> f.kind \in StopKind \/ HasStop(r)
      /\ Cardinality(ImportsOf(t)) =
             Cardinality(ImportsOf(r)) + (IF f.kind = "import" THEN 1 ELSE 0)
      /\ Cardinality(ImportsOf(r)) \in Nat
    BY Counted
<1>3. Cardinality(OwedJobs(r, q)) \in Nat /\ Debt(r, q) \in Nat
    BY OwedFinite
<1> HIDE DEF t
<1>4. OwedJobs(t, q) = OwedJobs(r, q)
    BY <1>1 DEF OwedJobs
<1>5. Debt(t, q) = Debt(r, q) + (IF f.kind = "import" THEN 1 ELSE 0)
    BY <1>2, <1>3, <1>4 DEF Debt
<1> QED
    BY <1>1, <1>2, <1>3, <1>5 DEF t

LEMMA OnPause ==
    ASSUME NEW r \in Seq(AnyFrame), NEW f \in AnyFrame, f.kind \in StopKind, NEW p, NEW n
    PROVE  /\ Located(<<f>> \o r, p, << >>, n) <=> Located(r, p, f.saved, n) /\ Sits(f, r, p)
           /\ HasStop(<<f>> \o r)
           /\ Debt(<<f>> \o r, << >>) = Debt(r, f.saved)
           /\ Debt(r, f.saved) \in Nat
<1> DEFINE t == <<f>> \o r
<1>0. f.kind # "import" /\ f.saved \in Queue
    BY DEF StopKind, AnyFrame
<1>1. /\ Located(t, p, << >>, n) <=> Located(r, p, f.saved, n) /\ Sits(f, r, p)
      /\ AllJobs(t, << >>) = AllJobs(r, f.saved)
    BY WithPause
<1>2. /\ HasStop(t) <=> f.kind \in StopKind \/ HasStop(r)
      /\ Cardinality(ImportsOf(t)) =
             Cardinality(ImportsOf(r)) + (IF f.kind = "import" THEN 1 ELSE 0)
      /\ Cardinality(ImportsOf(r)) \in Nat
    BY Counted
<1>3. Cardinality(OwedJobs(r, f.saved)) \in Nat /\ Debt(r, f.saved) \in Nat
    BY <1>0, OwedFinite
<1> HIDE DEF t
<1>4. OwedJobs(t, << >>) = OwedJobs(r, f.saved)
    BY <1>1 DEF OwedJobs
<1>5. Debt(t, << >>) = Debt(r, f.saved)
    BY <1>0, <1>2, <1>3, <1>4 DEF Debt
<1> QED
    BY <1>1, <1>2, <1>3, <1>5 DEF t

LEMMA Retop ==
    ASSUME NEW r \in Seq(AnyFrame), NEW f \in AnyFrame, NEW g \in AnyFrame, g.saved = f.saved,
           f.kind \in StopKind <=> g.kind \in StopKind, f.kind = "import" <=> g.kind = "import",
           NEW p, NEW n, NEW q \in Queue, Located(<<f>> \o r, p, q, n), Sits(g, r, p)
    PROVE  /\ Located(<<g>> \o r, p, q, n)
           /\ HasStop(<<g>> \o r) <=> HasStop(<<f>> \o r)
           /\ Debt(<<g>> \o r, q) = Debt(<<f>> \o r, q)
<1> DEFINE t == <<f>> \o r
           u == <<g>> \o r
<1>1. Located(u, p, q, n) /\ AllJobs(u, q) = AllJobs(t, q)
    BY Changed
<1>2. /\ HasStop(t) <=> f.kind \in StopKind \/ HasStop(r)
      /\ Cardinality(ImportsOf(t)) =
             Cardinality(ImportsOf(r)) + (IF f.kind = "import" THEN 1 ELSE 0)
    BY Counted
<1>3. /\ HasStop(u) <=> g.kind \in StopKind \/ HasStop(r)
      /\ Cardinality(ImportsOf(u)) =
             Cardinality(ImportsOf(r)) + (IF g.kind = "import" THEN 1 ELSE 0)
    BY Counted
<1> HIDE DEF t, u
<1>4. OwedJobs(u, q) = OwedJobs(t, q)
    BY <1>1 DEF OwedJobs
<1>5. Cardinality(ImportsOf(u)) = Cardinality(ImportsOf(t))
    BY <1>2, <1>3
<1>6. Debt(u, q) = Debt(t, q)
    BY <1>4, <1>5 DEF Debt
<1> QED
    BY <1>1, <1>2, <1>3, <1>6 DEF t, u

(* A stack that is as good as the one there is.                            *)
Alike(s) ==
    /\ s \in Seq(AnyFrame)
    /\ Located(s, phase, slots, born)
    /\ HasStop(s) <=> HasStop(stack)
    /\ Debt(s, slots) = Debt(stack, slots)

(* The frames that calls and drains of the program put on top.             *)
InnerKind == {"job", "cleanup", "callback", "dispatch", "drain", "debugdrain"}

LEMMA AlikeSame == EvalInv => Alike(stack)
BY DEF EvalInv, LoopInv, LoopTypes, Sited, Alike

LEMMA AlikePush ==
    ASSUME EvalInv, NEW s, Alike(s), s # << >>, NEW g \in AnyFrame, g.saved = << >>,
           g.kind \in InnerKind \/ (g.kind = "nested" /\ CanNest)
    PROVE  Alike(<<g>> \o s) /\ <<g>> \o s # << >>
<1>1. s \in Seq(AnyFrame) /\ slots \in Queue
    BY DEF Alike, EvalInv, LoopInv, LoopTypes
<1>2. g.kind \notin StopKind /\ g.kind # "import" /\ Sits(g, s, phase)
    BY DEF StopKind, InnerKind, Sits, Allowed, BottomKind
<1> DEFINE t == <<g>> \o s
<1>3. t \in Seq(AnyFrame) /\ t # << >>
    BY <1>1, Pushed
<1>4. /\ Located(t, phase, slots, born) <=> Located(s, phase, slots, born) /\ Sits(g, s, phase)
      /\ HasStop(t) <=> HasStop(s)
      /\ Debt(t, slots) = Debt(s, slots) + (IF g.kind = "import" THEN 1 ELSE 0)
      /\ Debt(s, slots) \in Nat
    BY <1>1, <1>2, OnTop
<1> HIDE DEF t
<1>5. Debt(t, slots) = Debt(s, slots)
    BY <1>2, <1>4
<1>6. Alike(t)
    BY <1>2, <1>3, <1>4, <1>5 DEF Alike
<1> QED
    BY <1>3, <1>6 DEF t

LEMMA Unsaved ==
    ASSUME LoopInv, NEW f \in AnyFrame, NEW r \in Seq(AnyFrame), stack = <<f>> \o r,
           f.kind \notin StopKind
    PROVE  f.saved = << >>
<1>1. Above(stack, f, r)
    BY PushedAbove
<1>2. Nested(stack)
    BY DEF LoopInv, Sound
<1>3. Fits(f, r)
    BY <1>1, <1>2, NestedGrows
<1> QED
    BY <1>3 DEF Fits

LEMMA AlikePop ==
    ASSUME EvalInv, NEW f \in AnyFrame, NEW r \in Seq(AnyFrame), stack = <<f>> \o r,
           f.kind \notin StopKind, f.kind # "import"
    PROVE  Alike(r)
<1>1. f.saved = << >> /\ slots \in Queue
    BY Unsaved DEF EvalInv, LoopInv, LoopTypes
<1>2. /\ Located(stack, phase, slots, born) <=> Located(r, phase, slots, born) /\ Sits(f, r, phase)
      /\ HasStop(stack) <=> HasStop(r)
      /\ Debt(stack, slots) = Debt(r, slots) + (IF f.kind = "import" THEN 1 ELSE 0)
      /\ Debt(r, slots) \in Nat
    BY <1>1, OnTop
<1>3. Debt(stack, slots) = Debt(r, slots)
    BY <1>2
<1> QED
    BY <1>2, <1>3 DEF Alike, EvalInv, Sited

LEMMA AlikeRetop ==
    ASSUME EvalInv, NEW f \in AnyFrame, NEW g \in AnyFrame, NEW r \in Seq(AnyFrame),
           Alike(<<f>> \o r), g.saved = f.saved,
           f.kind \in StopKind <=> g.kind \in StopKind, f.kind = "import" <=> g.kind = "import",
           Sits(g, r, phase)
    PROVE  Alike(<<g>> \o r) /\ <<g>> \o r # << >>
<1>1. slots \in Queue
    BY DEF EvalInv, LoopInv, LoopTypes
<1> DEFINE t == <<f>> \o r
           u == <<g>> \o r
<1>2. u \in Seq(AnyFrame) /\ u # << >>
    BY Pushed
<1>3. Located(t, phase, slots, born)
    BY DEF Alike
<1>4. /\ Located(u, phase, slots, born)
      /\ HasStop(u) <=> HasStop(t)
      /\ Debt(u, slots) = Debt(t, slots)
    BY <1>1, <1>3, Retop
<1>5. (HasStop(t) <=> HasStop(stack)) /\ Debt(t, slots) = Debt(stack, slots)
    BY DEF Alike
<1> HIDE DEF t, u
<1>6. Alike(u)
    BY <1>2, <1>4, <1>5 DEF Alike
<1> QED
    BY <1>2, <1>6 DEF u

(* Such a stack, and nothing else that the invariant looks at.             *)
LEMMA Undisturbed ==
    ASSUME EvalInv, LoopInv', stack # << >>, NEW s, Alike(s), stack' = s,
           UNCHANGED <<slots, attached, cancelled, phase, mode, ok, exiting, holds, loads,
                       awaiting, born>>,
           over => over', fault' # "overReleased", shouldExit' => CanExit
    PROVE  EvalInv'
<1>1. Sited'
    BY DEF Alike, Sited
<1>2. Awake'
    BY AwakeStays DEF Alike
<1>3. Debt(stack, slots)' = Debt(stack, slots) /\ Debt(stack, slots) \in Nat
    BY DebtType DEF Alike, EvalInv
<1>4. Accounted'
    BY <1>3, BalanceStays
<1> QED
    BY <1>1, <1>2, <1>4, PhaseStays DEF EvalInv, Timely

(* The top frame sits where it should, and its place is its own.           *)
LEMMA TopSits ==
    ASSUME NEW r \in Seq(AnyFrame), NEW f \in AnyFrame, NEW p, NEW q, NEW n,
           Located(<<f>> \o r, p, q, n)
    PROVE  Sits(f, r, p)
BY PushedAbove, PlacedGrows DEF Located

LEMMA EmptyPlaced ==
    ASSUME NEW p, NEW q, NEW n, NEW w, Located(<< >>, p, q, n)
    PROVE  Located(<< >>, w, q, n)
BY NothingOn DEF Located

(* JavaScript ends.                                                        *)
LEMMA LeaveLocated ==
    ASSUME NEW f \in AnyFrame, NEW r \in Seq(AnyFrame), NEW q \in Queue, NEW n, NEW d \in BOOLEAN,
           Sound(<<f>> \o r, d, q), Located(<<f>> \o r, phase, q, n), f.kind \in JSKind,
           NEW o, o = "kill" => CanExit, Leave(<<f>> \o r, o), cleanups \in Nat
    PROVE  /\ Located(stack', phase', q, n)
           /\ HasStop(stack') <=> HasStop(<<f>> \o r)
           /\ Debt(stack', q) \in Nat
           /\ Debt(<<f>> \o r, q) = Debt(stack', q) + (IF f.kind = "import" THEN 1 ELSE 0)
           /\ f.kind \in {"script", "hook"} => stack' = << >>
           /\ f.kind \notin {"script", "hook"} => phase' = phase
<1> DEFINE s == <<f>> \o r
<1>1. s \in Seq(AnyFrame) /\ Head(s) = f /\ Tail(s) = r
    BY Pushed
<1>2. Sits(f, r, phase)
    BY TopSits
<1>3. CASE f.kind \in CalledKind
    <2>1. f.kind \notin StopKind /\ f.kind \notin {"script", "hook"}
        BY <1>3 DEF CalledKind, StopKind
    <2>2. /\ Sound(r, d, q)
          /\ f.saved = << >>
          /\ r # << >> /\ Head(r).kind \in DrainKind
        BY <1>3, WithCalled
    <2>3. PICK h \in AnyFrame, u \in Seq(AnyFrame) :
              r = <<h>> \o u /\ Head(r) = h /\ Tail(r) = u
        BY <2>2, TopAndRest
    <2>4. /\ Located(r, phase, q, n)
          /\ HasStop(s) <=> HasStop(r)
          /\ Debt(s, q) = Debt(r, q) + (IF f.kind = "import" THEN 1 ELSE 0)
          /\ Debt(r, q) \in Nat
        BY <2>1, <2>2, OnTop
    <2> DEFINE g == [h EXCEPT !.tasks = IF o = "kill" THEN 0 ELSE cleanups]
    <2>5. stack' = <<g>> \o u /\ phase' = phase
        BY <1>1, <1>3, <2>1, <2>3 DEF Leave, NextTasks, CalledKind
    <2>6. g \in AnyFrame /\ g.kind = h.kind /\ g.saved = h.saved /\ g.kill = h.kill
        BY DEF AnyFrame
    <2> HIDE DEF g
    <2>7. Sits(g, u, phase)
        <3>1. Sits(h, u, phase)
            BY <2>3, <2>4, TopSits
        <3> QED
            BY <2>6, <3>1 DEF Sits, Allowed
    <2>8. /\ Located(<<g>> \o u, phase, q, n)
          /\ HasStop(<<g>> \o u) <=> HasStop(r)
          /\ Debt(<<g>> \o u, q) = Debt(r, q)
        <3>1. Located(<<h>> \o u, phase, q, n)
            BY <2>3, <2>4
        <3> QED
            BY <2>3, <2>6, <2>7, <3>1, Retop
    <2> QED
        BY <2>1, <2>4, <2>5, <2>8
<1>4. CASE f.kind = "debugger"
    <2>1. f.kind \in StopKind /\ f.kind # "import" /\ f.kind \notin {"script", "hook"}
        BY <1>4 DEF StopKind
    <2> DEFINE g == [f EXCEPT !.kind = "debugjobs", !.kill = (o = "kill")]
    <2>2. stack' = <<g>> \o r /\ phase' = phase
        BY <1>1, <1>4 DEF Leave
    <2>3. g \in AnyFrame /\ g.kind = "debugjobs" /\ g.saved = f.saved /\ g.kill = (o = "kill")
        BY DEF AnyFrame, Kind
    <2> HIDE DEF g
    <2>4. g.kind \in StopKind /\ g.kind # "import"
        BY <2>3 DEF StopKind
    <2>5. Sits(g, r, phase)
        <3>1. f.kind \notin BottomOf(phase) /\ g.kind \notin BottomKind
            BY <1>4, <2>3 DEF BottomOf, BottomKind
        <3>2. r # << >>
            BY <1>2, <3>1 DEF Sits
        <3>3. Allowed(g)
            BY <1>2, <2>1, <2>3, <2>4 DEF Sits, Allowed
        <3> QED
            BY <3>1, <3>2, <3>3 DEF Sits
    <2>6. /\ Located(<<g>> \o r, phase, q, n)
          /\ HasStop(<<g>> \o r) <=> HasStop(s)
          /\ Debt(<<g>> \o r, q) = Debt(s, q)
        BY <2>1, <2>3, <2>4, <2>5, Retop
    <2>7. Debt(<<g>> \o r, q) \in Nat
        <3>1. <<g>> \o r \in Seq(AnyFrame)
            BY <2>3, Pushed
        <3> QED
            BY <3>1, OwedFinite
    <2> QED
        BY <2>1, <2>2, <2>6, <2>7
<1>5. CASE f.kind \notin CalledKind /\ f.kind # "debugger"
    <2>1. f.kind \notin StopKind /\ f.kind # "import"
        BY <1>5 DEF StopKind, CalledKind, JSKind
    <2>2. f.saved = << >>
        <3>1. Nested(s) /\ Above(s, f, r)
            BY PushedAbove DEF Sound
        <3>2. Fits(f, r)
            BY <3>1, NestedGrows
        <3> QED
            BY <2>1, <3>2 DEF Fits
    <2>3. /\ Located(r, phase, q, n)
          /\ HasStop(s) <=> HasStop(r)
          /\ Debt(s, q) = Debt(r, q) + (IF f.kind = "import" THEN 1 ELSE 0)
          /\ Debt(r, q) \in Nat
        BY <2>1, <2>2, OnTop
    <2>4. stack' = r
        BY <1>1, <1>5 DEF Leave, CalledKind
    <2>5. CASE f.kind \in {"script", "hook"}
        <3>1. r = << >>
            BY <1>2, <2>5 DEF Sits, BottomKind
        <3>2. Located(<< >>, phase', q, n)
            BY <2>3, <3>1, EmptyPlaced
        <3> QED
            BY <2>1, <2>3, <2>4, <2>5, <3>1, <3>2
    <2>6. CASE f.kind \notin {"script", "hook"}
        <3>1. phase' = phase
            BY <1>1, <2>6 DEF Leave
        <3> QED
            BY <2>1, <2>3, <2>4, <2>6, <3>1
    <2> QED
        BY <2>5, <2>6
<1> QED
    BY <1>3, <1>4, <1>5

(* Accounting for a release.                                               *)
LEMMA Released ==
    ASSUME EvalInv, LoopInv', Release, ~over, UNCHANGED <<loads, awaiting, exiting>>,
           Debt(stack, slots) = Debt(stack, slots)' + 1, fault # "overReleased"
    PROVE  Accounted' /\ fault' = fault
<1>1. Debt(stack, slots) \in Nat /\ loads \in Nat
    BY DebtType DEF EvalInv
<1>2. Debt(stack, slots)' \in Nat
    <2>1. (LoopInv => Debt(stack, slots) \in Nat)'
        BY DebtType, PTL
    <2> QED
        BY <2>1
<1>3. holds \in Nat /\ awaiting \in BOOLEAN /\ awaiting' = awaiting
    BY DEF EvalInv, Accounted
<1>6. holds \in Nat
    BY <1>3
<1>4. CASE exiting
    <2>1. holds' = holds /\ fault' = fault /\ exiting'
        BY <1>4 DEF Release
    <2> QED
        BY <1>3, <2>1 DEF Accounted, Balanced
<1>5. CASE ~exiting
    <2>1. PICK d \in Nat, e \in Nat : d = Debt(stack, slots) /\ e = Debt(stack, slots)'
        BY <1>1, <1>2
    <2>2. d = e + 1
        BY <2>1
    <2> DEFINE m == 2 * loads + (IF awaiting THEN 1 ELSE 0)
    <2>3. m \in Nat /\ OwedNow = m + d /\ OwedNow' = m + e
        BY <1>1, <2>1 DEF OwedNow
    <2> HIDE DEF m
    <2>4. PICK u \in Nat : u = m
        BY <2>3
    <2>5. OwedNow = (u + e) + 1 /\ OwedNow' = u + e /\ u + e \in Nat
        BY <2>2, <2>3, <2>4
    <2>6. PICK v \in Nat : v = u + e
        BY <2>5
    <2>7. holds >= v + 1 /\ (~CanExit => holds = v + 1)
        BY <1>5, <2>5, <2>6 DEF EvalInv, Accounted, Balanced
    <2>8. holds # 0
        BY <1>6, <2>7
    <2>9. holds' = holds - 1 /\ fault' = fault
        BY <1>5, <2>8 DEF Release
    <2>10. holds' \in Nat /\ holds' >= v /\ (~CanExit => holds' = v)
        BY <1>6, <2>7, <2>9
    <2>11. v = OwedNow'
        BY <2>5, <2>6
    <2>12. Balanced'
        BY <2>10, <2>11 DEF Balanced
    <2> QED
        BY <1>3, <2>9, <2>10, <2>12 DEF Accounted
<1> QED
    BY <1>4, <1>5

-----------------------------------------------------------------------------
(* The invariant, action by action.  That LoopInv holds afterwards is      *)
(* known by then.                                                          *)
Standing == EvalInv /\ LoopInv'

LEMMA QuietKeeps ==
    ASSUME Standing, QueueCleanup \/ SetHook \/ Reject \/ BecomesDue
    PROVE  EvalInv'
<1>1. Alike(stack)
    BY AlikeSame DEF Standing
<1>2. /\ stack # << >> /\ stack' = stack /\ fault = "none" /\ UNCHANGED <<over, fault, shouldExit>>
      /\ UNCHANGED <<slots, attached, cancelled, phase, mode, ok, exiting, holds, loads,
                     awaiting, born>>
    BY DEF QueueCleanup, SetHook, Reject, BecomesDue, JSRuns, On, Going, jsUnchanged, queueVars,
           evalVars, mainLoopVars, worldVars, flagVars
<1> QED
    BY <1>1, <1>2, Undisturbed DEF Standing, EvalInv, Timely

LEMMA CallsKeep ==
    ASSUME Standing, Nest \/ DrainMicrotaskQueue
    PROVE  EvalInv'
<1>1. Alike(stack)
    BY AlikeSame DEF Standing
<1>2. /\ stack # << >> /\ fault = "none" /\ UNCHANGED <<over, fault, shouldExit>>
      /\ UNCHANGED <<slots, attached, cancelled, phase, mode, ok, exiting, holds, loads,
                     awaiting, born>>
    BY DEF Nest, DrainMicrotaskQueue, JSRuns, On, Going, queueVars, evalVars, mainLoopVars,
           worldVars, flagVars
<1>3. LoopInv /\ cleanups \in Nat
    BY DEF Standing, EvalInv, LoopInv, LoopTypes
<1>4. PICK g : /\ g \in AnyFrame /\ g.saved = << >>
               /\ g.kind \in InnerKind \/ (g.kind = "nested" /\ CanNest)
               /\ stack' = <<g>> \o stack
    <2>1. CASE Nest
        <3>1. Plain("nested") \in AnyFrame /\ Plain("nested").kind = "nested"
              /\ Plain("nested").saved = << >>
            BY PlainFrame DEF Kind, LoopKind
        <3> QED
            BY <2>1, <3>1 DEF Nest, Push
    <2>2. CASE DrainMicrotaskQueue
        <3> DEFINE g == [Plain("drain") EXCEPT !.tasks = IF slots = << >> THEN cleanups ELSE 0]
        <3>1. Plain("drain") \in AnyFrame /\ Plain("drain").kind = "drain"
              /\ Plain("drain").saved = << >>
            BY PlainFrame DEF Kind, DrainKind
        <3>2. g \in AnyFrame /\ g.kind = "drain" /\ g.saved = << >>
            BY <1>3, <3>1 DEF AnyFrame
        <3>3. stack' = <<g>> \o stack
            BY <2>2 DEF DrainMicrotaskQueue, RunJobs
        <3> HIDE DEF g
        <3> QED
            BY <3>2, <3>3 DEF InnerKind
    <2> QED
        BY <2>1, <2>2
<1>5. PICK s : s = <<g>> \o stack /\ Alike(s)
    BY <1>1, <1>2, <1>4, AlikePush DEF Standing
<1> QED
    BY <1>2, <1>4, <1>5, Undisturbed DEF Standing, EvalInv, Timely

(* A JavaScript frame of the program in q ends.                            *)
LEMMA LeaveAccounts ==
    ASSUME Standing, ~over, fault = "none", NEW s, s \in Seq(AnyFrame), s # << >>,
           Head(s).kind \in JSKind, NEW q \in Queue, NEW d \in BOOLEAN, Sound(s, d, q),
           Located(s, phase, q, born), Debt(s, q) = Debt(stack, slots),
           NEW o, o = "kill" => CanExit, Leave(s, o), leaveUnchanged,
           UNCHANGED worldVars, slots' = q, Awake', shouldExit' => CanExit, stack # << >>
    PROVE  EvalInv'
<1>0. cleanups \in Nat /\ LoopInv /\ LoopInv'
    BY DEF Standing, EvalInv, LoopInv, LoopTypes
<1>1. PICK f \in AnyFrame, r \in Seq(AnyFrame) : s = <<f>> \o r /\ Head(s) = f
    BY TopAndRest
<1>2. /\ Located(stack', phase', q, born)
      /\ Debt(stack', q) \in Nat
      /\ Debt(s, q) = Debt(stack', q) + (IF f.kind = "import" THEN 1 ELSE 0)
      /\ f.kind \in {"script", "hook"} => stack' = << >>
      /\ f.kind \notin {"script", "hook"} => phase' = phase
    BY <1>0, <1>1, LeaveLocated
<1>3. UNCHANGED <<mode, stop, exiting, hook, loads, awaiting, born>>
    BY DEF leaveUnchanged, worldVars
<1>4. Sited'
    BY <1>2, <1>3 DEF Sited
<1>5. Accounted'
    <2>1. CASE f.kind = "import" /\ o # "kill"
        <3>1. Release
            BY <1>1, <2>1 DEF Leave
        <3>2. Debt(stack, slots) = Debt(stack, slots)' + 1
            BY <1>2, <2>1
        <3> QED
            BY <1>3, <3>1, <3>2, Released DEF Standing
    <2>2. CASE ~(f.kind = "import" /\ o # "kill")
        <3>1. UNCHANGED <<holds, fault>>
            BY <1>1, <2>2 DEF Leave
        <3>2. /\ Debt(stack, slots)' <= Debt(stack, slots)
              /\ ~CanExit => Debt(stack, slots)' = Debt(stack, slots)
            BY <1>2, <2>2
        <3> QED
            BY <1>3, <3>1, <3>2, BalanceStays DEF Standing
    <2> QED
        BY <2>1, <2>2
<1>6. CASE f.kind \in {"script", "hook"}
    <2>1. stack' = << >> /\ phase' \in {"drain", "hook", "spin"}
          /\ (phase' = "drain" => ok' = FALSE)
        BY <1>1, <1>2, <1>6 DEF Leave
    <2>2. Timely' /\ Settled'
        BY <1>3, <2>1 DEF Timely, Settled
    <2> QED
        BY <1>4, <1>5, <2>2 DEF Standing, EvalInv
<1>7. CASE f.kind \notin {"script", "hook"}
    <2>1. phase' = phase /\ ok' = ok
        BY <1>1, <1>2, <1>7 DEF Leave
    <2> QED
        BY <1>3, <1>4, <1>5, <2>1, PhaseStays DEF Standing, EvalInv, Timely
<1> QED
    BY <1>6, <1>7

LEMMA LeaveKeeps ==
    ASSUME Standing, JSRuns, NEW o, o = "kill" => CanExit, Leave(stack, o), leaveUnchanged,
           UNCHANGED queueVars, UNCHANGED worldVars, shouldExit' => CanExit
    PROVE  EvalInv'
<1>1. /\ ~over /\ fault = "none" /\ stack # << >> /\ Head(stack).kind \in JSKind
      /\ UNCHANGED <<slots, attached, cancelled>>
    BY DEF JSRuns, On, Going, Top, queueVars
<1>2. /\ stack \in Seq(AnyFrame) /\ slots \in Queue /\ draining \in BOOLEAN /\ cleanups \in Nat
      /\ Sound(stack, draining, slots) /\ Located(stack, phase, slots, born)
    BY DEF Standing, EvalInv, LoopInv, LoopTypes, Sited
<1>3. PICK f \in AnyFrame, r \in Seq(AnyFrame) : stack = <<f>> \o r /\ Head(stack) = f
    BY <1>1, <1>2, TopAndRest
<1>4. HasStop(stack') <=> HasStop(stack)
    BY <1>1, <1>2, <1>3, LeaveLocated
<1>5. Awake'
    BY <1>1, <1>4, AwakeStays DEF Standing
<1> QED
    BY <1>1, <1>2, <1>5, LeaveAccounts

LEMMA ReturnKeeps == ASSUME Standing, NEW o \in {"ok", "throw"}, Return(o)
                     PROVE  EvalInv'
<1>1. o # "kill" /\ shouldExit' = shouldExit
    BY DEF Return
<1> QED
    BY <1>1, LeaveKeeps DEF Return, Standing, EvalInv, Timely

LEMMA ExitKeeps == ASSUME Standing, Exit
                   PROVE  EvalInv'
<1>1. CASE shouldExit
    <2>1. Alike(stack)
        BY AlikeSame DEF Standing
    <2>2. /\ stack # << >> /\ stack' = stack /\ fault' = "exitTwice" /\ CanExit
          /\ UNCHANGED <<over, slots, attached, cancelled, phase, mode, ok, exiting, holds,
                         loads, awaiting, born>>
        BY <1>1 DEF Exit, JSRuns, On, evalVars, mainLoopVars, queueVars, worldVars
    <2> QED
        BY <2>1, <2>2, Undisturbed DEF Standing
<1>2. CASE ~shouldExit
    BY <1>2, LeaveKeeps DEF Exit
<1> QED
    BY <1>1, <1>2

(* Holds that follow what is owed.                                         *)
LEMMA Sums ==
    ASSUME NEW u \in Nat, NEW v \in Nat, NEW h \in Nat, NEW k \in Nat, k + u = h + v
    PROVE  (h >= u => k >= v) /\ (h = u => k = v)
OBVIOUS

LEMMA Balances ==
    ASSUME EvalInv, NEW u \in Nat, NEW v \in Nat, u = OwedNow, v = OwedNow',
           exiting' = exiting, over => over', awaiting' \in BOOLEAN,
           fault' # "overReleased", holds' \in Nat, ~exiting => holds' + u = holds + v
    PROVE  Accounted'
<1>1. holds \in Nat
    BY DEF EvalInv, Accounted
<1>2. ASSUME ~exiting, ~over'
      PROVE  holds' >= v /\ (~CanExit => holds' = v)
    <2>1. holds >= u /\ (~CanExit => holds = u)
        BY <1>2 DEF EvalInv, Accounted, Balanced
    <2>2. PICK h \in Nat, k \in Nat : h = holds /\ k = holds'
        BY <1>1
    <2>3. k + u = h + v /\ h >= u /\ (~CanExit => h = u)
        BY <1>2, <2>1, <2>2
    <2>4. k >= v /\ (~CanExit => k = v)
        BY <2>3, Sums
    <2> QED
        BY <2>2, <2>4
<1>3. Balanced'
    BY <1>2 DEF Balanced
<1> QED
    BY <1>3 DEF Accounted

LEMMA OwedType ==
    ASSUME EvalInv
    PROVE  /\ OwedNow \in Nat /\ holds \in Nat /\ loads \in Nat
           /\ Debt(stack, slots) \in Nat
<1>1. Debt(stack, slots) \in Nat /\ loads \in Nat
    BY DebtType DEF EvalInv
<1> QED
    BY <1>1 DEF OwedNow, EvalInv, Accounted

LEMMA NewOwed ==
    ASSUME LoopInv'
    PROVE  Debt(stack, slots)' \in Nat /\ loads' \in Nat
<1>1. (LoopInv => Debt(stack, slots) \in Nat /\ loads \in Nat)'
    BY DebtType, PTL
<1> QED
    BY <1>1

(* A job is enqueued on a stack that is like the one there is.             *)
LEMMA JobComes ==
    ASSUME Standing, NEW s, Alike(s), stack' = s, NEW job \in AnyJob, job.id = born + 1,
           EnqueueJob(job), born' = born + 1
    PROVE  /\ Located(stack', phase, slots', born')
           /\ Awake'
           /\ Debt(stack, slots)' =
                  Debt(stack, slots) + (IF job.tag # "script" THEN 1 ELSE 0)
<1>1. /\ slots \in Queue /\ born \in Nat /\ s \in Seq(AnyFrame)
      /\ slots' = Append(slots, job)
      /\ Located(s, phase, slots, born) /\ Debt(s, slots) = Debt(stack, slots)
    BY DEF Standing, EvalInv, LoopInv, LoopTypes, EnqueueJob, Alike
<1>2. /\ Located(s, phase, Append(slots, job), born + 1)
      /\ Cardinality(OwedJobs(s, Append(slots, job))) =
             Cardinality(OwedJobs(s, slots)) + (IF job.tag # "script" THEN 1 ELSE 0)
    BY <1>1, NewJob
<1>3. Awake'
    BY AwakeNow DEF Standing, EnqueueJob
<1>4. Cardinality(ImportsOf(s)) \in Nat /\ Cardinality(OwedJobs(s, slots)) \in Nat
    BY <1>1, ImportsFinite, OwedFinite
<1>5. Debt(s, slots') = Debt(s, slots) + (IF job.tag # "script" THEN 1 ELSE 0)
    BY <1>1, <1>2, <1>4 DEF Debt
<1> QED
    BY <1>1, <1>2, <1>3, <1>5

LEMMA NextJob ==
    ASSUME Standing, NEW t \in Tag
    PROVE  /\ [id |-> born + 1, tag |-> t] \in AnyJob
           /\ [id |-> born + 1, tag |-> t].id = born + 1
           /\ [id |-> born + 1, tag |-> t].tag = t
BY DEF Standing, EvalInv, LoopInv, LoopTypes, AnyJob

LEMMA EnqueueKeeps ==
    ASSUME Standing, Enqueue
    PROVE  EvalInv'
<1>1. /\ stack # << >> /\ fault = "none" /\ stack' = stack
      /\ UNCHANGED <<over, fault, shouldExit, phase, mode, ok, exiting, holds, loads, awaiting>>
      /\ born' = born + 1
    BY DEF Enqueue, JSRuns, On, Going, jsUnchanged, evalVars, mainLoopVars
<1>2. PICK job \in AnyJob : job.id = born + 1 /\ job.tag = "script" /\ EnqueueJob(job)
    BY NextJob DEF Enqueue, Tag
<1>3. Alike(stack)
    BY AlikeSame DEF Standing
<1>4. /\ Located(stack', phase, slots', born')
      /\ Awake'
      /\ Debt(stack, slots)' =
             Debt(stack, slots) + (IF job.tag # "script" THEN 1 ELSE 0)
    BY <1>1, <1>2, <1>3, JobComes
<1>5. Debt(stack, slots)' = Debt(stack, slots) /\ Debt(stack, slots) \in Nat
    BY <1>2, <1>4, OwedType DEF Standing
<1>6. Accounted'
    BY <1>1, <1>5, BalanceStays DEF Standing
<1>7. Sited'
    BY <1>1, <1>4 DEF Sited
<1> QED
    BY <1>1, <1>4, <1>6, <1>7, PhaseStays DEF Standing, EvalInv, Timely

LEMMA SettleMainKeeps ==
    ASSUME Standing, NEW tag \in {"resolved", "rejected"}, SettleMain(tag)
    PROVE  EvalInv'
<1>1. /\ stack # << >> /\ fault = "none" /\ stack' = stack /\ awaiting = TRUE /\ awaiting' = FALSE
      /\ UNCHANGED <<over, fault, shouldExit, phase, mode, ok, exiting, holds, loads>>
      /\ born' = born + 1
    BY DEF SettleMain, JSRuns, On, Going, jsUnchanged, evalVars, mainLoopVars, Standing, EvalInv,
           Accounted
<1>2. PICK job \in AnyJob : job.id = born + 1 /\ job.tag = tag /\ EnqueueJob(job)
    BY NextJob DEF SettleMain, Tag
<1>3. Alike(stack)
    BY AlikeSame DEF Standing
<1>4. /\ Located(stack', phase, slots', born')
      /\ Awake'
      /\ Debt(stack, slots)' =
             Debt(stack, slots) + (IF job.tag # "script" THEN 1 ELSE 0)
    BY <1>1, <1>2, <1>3, JobComes
<1>5. OwedNow \in Nat /\ holds \in Nat /\ loads \in Nat /\ Debt(stack, slots) \in Nat
    BY OwedType DEF Standing
<1>6. PICK d \in Nat : d = Debt(stack, slots)
    BY <1>5
<1>7. Debt(stack, slots)' = d + 1
    BY <1>2, <1>4, <1>6
<1>8. OwedNow = 2 * loads + 1 + d /\ OwedNow' = 2 * loads + 0 + (d + 1)
    BY <1>1, <1>6, <1>7 DEF OwedNow
<1>9. PICK u \in Nat : u = OwedNow /\ u = OwedNow'
    BY <1>5, <1>8
<1>10. Accounted'
    BY <1>1, <1>5, <1>9, Balances DEF Standing
<1>11. Sited'
    BY <1>1, <1>4 DEF Sited
<1> QED
    BY <1>1, <1>4, <1>10, <1>11, PhaseStays DEF Standing, EvalInv, Timely

(* The hook of the module loader throws.                                   *)
LEMMA ImportThrowsKeeps ==
    ASSUME Standing, Import("none")
    PROVE  EvalInv'
<1>1. /\ stack # << >> /\ fault = "none" /\ stack' = stack /\ slots' = slots
      /\ UNCHANGED <<attached, cancelled, over, fault, shouldExit, phase, mode, ok, exiting,
                     awaiting, born, loads, holds>>
    BY DEF Import, JSRuns, On, Going, jsUnchanged, evalVars, queueVars
<1>2. Alike(stack)
    BY AlikeSame DEF Standing
<1>3. Awake'
    BY <1>1, AwakeStays DEF Standing
<1>4. Sited'
    BY <1>1, <1>2 DEF Sited, Alike
<1>5. Debt(stack, slots)' = Debt(stack, slots) /\ Debt(stack, slots) \in Nat
    BY <1>1, OwedType DEF Standing
<1>6. Accounted'
    BY <1>1, <1>5, BalanceStays DEF Standing
<1> QED
    BY <1>1, <1>3, <1>4, <1>6, PhaseStays DEF Standing, EvalInv, Timely

(* Its promise is settled: one hold, until the reaction.                   *)
LEMMA ImportSettledKeeps ==
    ASSUME Standing, Import("settled")
    PROVE  EvalInv'
<1>1. /\ stack # << >> /\ fault = "none" /\ stack' = stack
      /\ UNCHANGED <<over, fault, shouldExit, phase, mode, ok, exiting, loads, awaiting>>
      /\ born' = born + 1 /\ holds' = Held(1)
    BY DEF Import, JSRuns, On, Going, jsUnchanged, evalVars
<1>2. PICK job \in AnyJob : job.id = born + 1 /\ job.tag = "import" /\ EnqueueJob(job)
    BY NextJob DEF Import, Tag
<1>3. Alike(stack)
    BY AlikeSame DEF Standing
<1>4. /\ Located(stack', phase, slots', born')
      /\ Awake'
      /\ Debt(stack, slots)' =
             Debt(stack, slots) + (IF job.tag # "script" THEN 1 ELSE 0)
    BY <1>1, <1>2, <1>3, JobComes
<1>5. OwedNow \in Nat /\ holds \in Nat /\ loads \in Nat /\ Debt(stack, slots) \in Nat
    BY OwedType DEF Standing
<1>6. OwedNow' = OwedNow + 1
    <2> DEFINE m == 2 * loads + (IF awaiting THEN 1 ELSE 0)
    <2>1. m \in Nat
        BY <1>5
    <2>2. PICK d \in Nat : d = Debt(stack, slots)
        BY <1>5
    <2>3. Debt(stack, slots)' = d + 1
        BY <1>2, <1>4, <2>2
    <2>4. OwedNow = m + d /\ OwedNow' = m + (d + 1)
        BY <1>1, <2>2, <2>3 DEF OwedNow
    <2> HIDE DEF m
    <2> QED
        BY <2>1, <2>2, <2>4
<1>7. PICK u \in Nat, v \in Nat : u = OwedNow /\ v = OwedNow' /\ v = u + 1
    BY <1>5, <1>6
<1>8. holds' \in Nat /\ (~exiting => holds' = holds + 1)
    BY <1>1, <1>5 DEF Held
<1>9. ~exiting => holds' + u = holds + v
    BY <1>5, <1>7, <1>8
<1>10. awaiting' \in BOOLEAN
    BY <1>1 DEF Standing, EvalInv, Accounted
<1>11. Accounted'
    BY <1>1, <1>7, <1>8, <1>9, <1>10, Balances DEF Standing
<1>12. Sited'
    BY <1>1, <1>4 DEF Sited
<1> QED
    BY <1>1, <1>4, <1>11, <1>12, PhaseStays DEF Standing, EvalInv, Timely

(* A file has to be read first: another hold, until it is.                 *)
LEMMA ImportPendingKeeps ==
    ASSUME Standing, Import("pending")
    PROVE  EvalInv'
<1>1. /\ stack # << >> /\ fault = "none" /\ stack' = stack /\ slots' = slots
      /\ loads' = loads + 1 /\ holds' = Held(2)
      /\ UNCHANGED <<attached, cancelled, over, fault, shouldExit, phase, mode, ok, exiting,
                     awaiting, born>>
    BY DEF Import, JSRuns, On, Going, jsUnchanged, evalVars, queueVars
<1>2. Alike(stack)
    BY AlikeSame DEF Standing
<1>3. Awake'
    BY <1>1, AwakeStays DEF Standing
<1>4. Sited'
    BY <1>1, <1>2 DEF Sited, Alike
<1>5. OwedNow \in Nat /\ holds \in Nat /\ loads \in Nat /\ Debt(stack, slots) \in Nat
    BY OwedType DEF Standing
<1>6. OwedNow' = OwedNow + 2
    <2> DEFINE m == (IF awaiting THEN 1 ELSE 0) + Debt(stack, slots)
    <2>1. m \in Nat
        BY <1>5
    <2>2. OwedNow = 2 * loads + m /\ OwedNow' = 2 * (loads + 1) + m
        BY <1>1, <1>5 DEF OwedNow
    <2> HIDE DEF m
    <2> QED
        BY <1>5, <2>1, <2>2
<1>7. PICK u \in Nat, v \in Nat : u = OwedNow /\ v = OwedNow' /\ v = u + 2
    BY <1>5, <1>6
<1>8. holds' \in Nat /\ (~exiting => holds' = holds + 2)
    BY <1>1, <1>5 DEF Held
<1>9. ~exiting => holds' + u = holds + v
    BY <1>5, <1>7, <1>8
<1>10. awaiting' \in BOOLEAN
    BY <1>1 DEF Standing, EvalInv, Accounted
<1>11. Accounted'
    BY <1>1, <1>7, <1>8, <1>9, <1>10, Balances DEF Standing
<1> QED
    BY <1>1, <1>3, <1>4, <1>11, PhaseStays DEF Standing, EvalInv, Timely

LEMMA AtLeastOne ==
    ASSUME NEW h \in Nat, NEW v \in Nat, h >= v + 1
    PROVE  h # 0 /\ h - 1 \in Nat /\ (h - 1) + (v + 1) = h + v
OBVIOUS

LEMMA ReleaseBalances ==
    ASSUME EvalInv, NEW u \in Nat, NEW v \in Nat, u = OwedNow, v = OwedNow', u = v + 1,
           exiting' = exiting, ~over, awaiting' \in BOOLEAN, fault # "overReleased", Release
    PROVE  Accounted' /\ fault' = fault
<1>1. holds \in Nat
    BY DEF EvalInv, Accounted
<1>2. CASE exiting
    <2>1. holds' = holds /\ fault' = fault
        BY <1>2 DEF Release
    <2> QED
        BY <1>1, <1>2, <2>1, Balances
<1>3. CASE ~exiting
    <2>1. holds >= v + 1
        BY <1>3 DEF EvalInv, Accounted, Balanced
    <2>2. holds # 0 /\ holds - 1 \in Nat /\ (holds - 1) + (v + 1) = holds + v
        BY <1>1, <2>1, AtLeastOne
    <2>3. holds' = holds - 1 /\ fault' = fault
        BY <1>3, <2>2 DEF Release
    <2>4. holds' \in Nat /\ holds' + u = holds + v
        BY <2>2, <2>3
    <2> QED
        BY <2>3, <2>4, Balances
<1> QED
    BY <1>2, <1>3

LEMMA InterruptKeeps ==
    ASSUME Standing, Interrupt
    PROVE  EvalInv'
<1> DEFINE f == [Plain("debugger") EXCEPT !.saved = slots, !.was = draining]
<1>1. /\ stack # << >> /\ fault = "none" /\ stack' = <<f>> \o stack
      /\ slots' = << >> /\ cancelled' = TRUE /\ attached' = attached /\ CanDebug
      /\ UNCHANGED <<over, fault, shouldExit, phase, mode, ok, exiting, holds, loads, awaiting,
                     born>>
    BY DEF Interrupt, JSRuns, On, Going, Push, evalVars, mainLoopVars, worldVars, flagVars
<1>2. /\ stack \in Seq(AnyFrame) /\ slots \in Queue /\ draining \in BOOLEAN
      /\ Located(stack, phase, slots, born)
    BY DEF Standing, EvalInv, LoopInv, LoopTypes, Sited
<1>3. f \in AnyFrame /\ f.kind = "debugger" /\ f.saved = slots /\ f.kill = FALSE
    <2>1. "debugger" \in Kind
        BY DEF Kind, JSKind
    <2> QED
        BY <1>2, <2>1, PlainFrame DEF AnyFrame, Plain
<1> HIDE DEF f
<1>4. f.kind \in StopKind /\ Sits(f, stack, phase)
    BY <1>1, <1>3 DEF StopKind, Sits, Allowed, BottomKind
<1>5. /\ Located(<<f>> \o stack, phase, << >>, born) <=>
             Located(stack, phase, f.saved, born) /\ Sits(f, stack, phase)
      /\ HasStop(<<f>> \o stack)
      /\ Debt(<<f>> \o stack, << >>) = Debt(stack, f.saved)
      /\ Debt(stack, f.saved) \in Nat
    BY <1>2, <1>3, <1>4, OnPause
<1>6. Sited'
    BY <1>1, <1>2, <1>3, <1>4, <1>5 DEF Sited
<1>7. Awake'
    BY <1>1, <1>5 DEF Standing, EvalInv, Awake
<1>8. Debt(stack, slots)' = Debt(stack, slots) /\ Debt(stack, slots) \in Nat
    BY <1>1, <1>3, <1>5
<1>9. Accounted'
    BY <1>1, <1>8, BalanceStays DEF Standing
<1> QED
    BY <1>1, <1>6, <1>7, <1>9, PhaseStays DEF Standing, EvalInv, Timely

LEMMA ModuleEvaluatedKeeps ==
    ASSUME Standing, NEW settled \in {"resolved", "rejected", "pending"},
           ModuleEvaluated(settled)
    PROVE  EvalInv'
<1>1. /\ stack # << >> /\ fault = "none" /\ Top.kind = "script" /\ mode = "module"
      /\ stack' = Tail(stack) /\ phase' \in {"hook", "spin"} /\ holds' = Held(1) /\ ~over
      /\ UNCHANGED <<over, fault, shouldExit, mode, ok, stop, exiting, loads>>
    BY DEF ModuleEvaluated, On, Going, flagVars
<1>2. PICK f \in AnyFrame, r \in Seq(AnyFrame) :
          stack = <<f>> \o r /\ Top = f /\ Tail(stack) = r
    BY <1>1, Split DEF Standing, EvalInv
<1>3. Located(<<f>> \o r, phase, slots, born)
    BY <1>2 DEF Standing, EvalInv, Sited
<1>4. Sits(f, r, phase)
    BY <1>3, TopSits
<1>5. f.kind = "script" /\ r = << >>
    BY <1>1, <1>2, <1>4 DEF Sits, BottomKind
<1>6. phase = "body" /\ ~awaiting
    <2>1. "script" \in BottomOf(phase)
        BY <1>4, <1>5 DEF Sits
    <2>2. phase = "body"
        BY <2>1 DEF BottomOf
    <2> QED
        BY <1>1, <2>2 DEF Standing, EvalInv, Timely
<1>7. Alike(r)
    BY <1>2, <1>5, AlikePop DEF Standing, StopKind
<1>8. awaiting = FALSE
    BY <1>6 DEF Standing, EvalInv, Accounted
<1>9. OwedNow \in Nat /\ holds \in Nat /\ loads \in Nat /\ Debt(stack, slots) \in Nat
    BY OwedType DEF Standing
<1>10. Located(stack', phase', slots', born') /\ Awake' /\ awaiting' \in BOOLEAN
       /\ OwedNow' = OwedNow + 1
    <2>1. CASE settled = "pending"
        <3>1. awaiting' = TRUE /\ UNCHANGED <<born, slots, attached, cancelled>>
            BY <2>1 DEF ModuleEvaluated, queueVars
        <3>2. Located(r, phase', slots, born)
            BY <1>5, <1>7, EmptyPlaced DEF Alike
        <3>3. HasStop(stack') <=> HasStop(stack)
            BY <1>1, <1>2, <1>7 DEF Alike
        <3>4. Awake'
            BY <1>1, <3>1, <3>3, AwakeStays DEF Standing
        <3>5. Debt(stack, slots)' = Debt(stack, slots)
            BY <1>1, <1>2, <1>7, <3>1 DEF Alike
        <3>6. OwedNow = 2 * loads + 0 + Debt(stack, slots)
              /\ OwedNow' = 2 * loads + 1 + Debt(stack, slots)
            BY <1>1, <1>8, <3>1, <3>5 DEF OwedNow
        <3>7. OwedNow' = OwedNow + 1
            BY <1>9, <3>6
        <3> QED
            BY <1>1, <1>2, <3>1, <3>2, <3>4, <3>7
    <2>2. CASE settled # "pending"
        <3>1. awaiting' = awaiting /\ born' = born + 1
            BY <2>2 DEF ModuleEvaluated
        <3>2. PICK job \in AnyJob : job.id = born + 1 /\ job.tag = settled /\ EnqueueJob(job)
            BY <2>2, NextJob DEF ModuleEvaluated, Tag
        <3>3. /\ Located(stack', phase, slots', born')
              /\ Awake'
              /\ Debt(stack, slots)' =
                     Debt(stack, slots) + (IF job.tag # "script" THEN 1 ELSE 0)
            BY <1>1, <1>2, <1>7, <3>1, <3>2, JobComes
        <3>4. Located(stack', phase', slots', born')
            BY <1>1, <1>2, <1>5, <3>3, EmptyPlaced
        <3>5. Debt(stack, slots)' = Debt(stack, slots) + 1
            BY <2>2, <3>2, <3>3
        <3>6. OwedNow = 2 * loads + 0 + Debt(stack, slots)
              /\ OwedNow' = 2 * loads + 0 + (Debt(stack, slots) + 1)
            BY <1>1, <1>8, <3>1, <3>5 DEF OwedNow
        <3>7. OwedNow' = OwedNow + 1
            BY <1>9, <3>6
        <3> QED
            BY <1>8, <3>1, <3>3, <3>4, <3>7
    <2> QED
        BY <2>1, <2>2
<1>11. PICK u \in Nat, v \in Nat : u = OwedNow /\ v = OwedNow' /\ v = u + 1
    BY <1>9, <1>10
<1>12. holds' \in Nat /\ (~exiting => holds' = holds + 1)
    BY <1>1, <1>9 DEF Held
<1>13. ~exiting => holds' + u = holds + v
    BY <1>9, <1>11, <1>12
<1>14. Accounted'
    BY <1>1, <1>10, <1>11, <1>12, <1>13, Balances DEF Standing
<1>15. stack' = << >>
    BY <1>1, <1>2, <1>5
<1>16. Timely' /\ Settled'
    BY <1>1, <1>15 DEF Standing, EvalInv, Timely, Settled
<1> QED
    BY <1>10, <1>14, <1>16 DEF Standing, EvalInv, Sited

-----------------------------------------------------------------------------
(* The drains.                                                             *)
LEMMA DrainTop ==
    ASSUME Standing, On(DrainKind)
    PROVE  \E f \in AnyFrame, r \in Seq(AnyFrame) :
               /\ stack = <<f>> \o r /\ Top = f /\ Tail(stack) = r
               /\ f.kind \in DrainKind /\ f.kind \notin StopKind /\ f.kind # "import"
               /\ f.saved = << >> /\ Sits(f, r, phase) /\ Passed(f, slots)
<1>1. stack # << >> /\ Top.kind \in DrainKind
    BY DEF On
<1>2. PICK f \in AnyFrame, r \in Seq(AnyFrame) :
          stack = <<f>> \o r /\ Top = f /\ Tail(stack) = r
    BY <1>1, Split DEF Standing, EvalInv
<1>3. f.kind \in DrainKind /\ f.kind \notin StopKind /\ f.kind # "import"
    BY <1>1, <1>2 DEF DrainKind, StopKind
<1>4. Sound(<<f>> \o r, draining, slots) /\ draining \in BOOLEAN
    BY <1>2 DEF Standing, EvalInv, LoopInv, LoopTypes
<1>5. Passed(f, slots) /\ f.saved = << >>
    BY <1>3, <1>4, DrainOff
<1>6. Sits(f, r, phase)
    BY <1>2, TopSits DEF Standing, EvalInv, Sited
<1> QED
    BY <1>2, <1>3, <1>5, <1>6

LEMMA RunTaskKeeps ==
    ASSUME Standing, RunTask
    PROVE  EvalInv'
<1>1. /\ stack # << >> /\ fault = "none" /\ Top.tasks > 0
      /\ stack' = <<Plain("cleanup"), [Top EXCEPT !.tasks = @ - 1]>> \o Tail(stack)
      /\ UNCHANGED <<slots, attached, cancelled, over, fault, shouldExit, phase, mode, ok,
                     exiting, holds, loads, awaiting, born>>
    BY DEF RunTask, On, Going, drainUnchanged, mainLoopVars, worldVars
<1>2. PICK f \in AnyFrame, r \in Seq(AnyFrame) :
          /\ stack = <<f>> \o r /\ Top = f /\ Tail(stack) = r
          /\ f.kind \notin StopKind /\ f.kind # "import"
          /\ f.saved = << >> /\ Sits(f, r, phase)
    BY DrainTop DEF RunTask
<1> DEFINE g == [f EXCEPT !.tasks = @ - 1]
           e == Plain("cleanup")
<1>3. g \in AnyFrame /\ g.kind = f.kind /\ g.saved = f.saved /\ g.kill = f.kill
    <2>1. f.tasks \in Nat /\ f.tasks > 0
        BY <1>1, <1>2 DEF AnyFrame
    <2>2. f.tasks - 1 \in Nat
        BY <2>1
    <2> QED
        BY <2>2 DEF AnyFrame
<1>4. e \in AnyFrame /\ e.kind \in InnerKind /\ e.saved = << >>
    BY PlainFrame DEF Kind, JSKind, InnerKind
<1>5. stack' = <<e, g>> \o r
    BY <1>1, <1>2
<1> HIDE DEF e, g
<1>6. <<e, g>> \o r = <<e>> \o (<<g>> \o r)
    BY <1>3, <1>4, TwoOnTop
<1>7. Sits(g, r, phase)
    BY <1>2, <1>3 DEF Sits, Allowed
<1>8. Alike(<<f>> \o r)
    BY <1>2, AlikeSame DEF Standing
<1>9. PICK s : s = <<g>> \o r /\ Alike(s) /\ s # << >>
    BY <1>2, <1>3, <1>7, <1>8, AlikeRetop DEF Standing
<1>10. PICK t : t = <<e>> \o s /\ Alike(t)
    BY <1>4, <1>9, AlikePush DEF Standing
<1>11. stack' = t
    BY <1>5, <1>6, <1>9, <1>10
<1> QED
    BY <1>1, <1>10, <1>11, Undisturbed DEF Standing, EvalInv, Timely

LEMMA TakenDebt ==
    ASSUME NEW s \in Seq(AnyFrame), NEW q \in Queue, NEW n, NEW p,
           Located(s, p, q, n), NEW k \in 1..Len(q), q[k] # Blank
    PROVE  /\ Located(s, p, [q EXCEPT ![k] = Blank], n)
           /\ [q EXCEPT ![k] = Blank] \in Queue
           /\ Debt(s, [q EXCEPT ![k] = Blank]) \in Nat
           /\ Debt(s, q) = Debt(s, [q EXCEPT ![k] = Blank])
                           + (IF q[k].tag # "script" THEN 1 ELSE 0)
<1> DEFINE t == [q EXCEPT ![k] = Blank]
<1>1. /\ Located(s, p, t, n)
      /\ Cardinality(OwedJobs(s, q)) =
             Cardinality(OwedJobs(s, t)) + (IF q[k].tag # "script" THEN 1 ELSE 0)
    BY TakenJob
<1>2. t \in Queue
    BY JobTaken DEF Located, Apart
<1> HIDE DEF t
<1>3. Cardinality(OwedJobs(s, t)) \in Nat /\ Debt(s, t) \in Nat
    BY <1>2, OwedFinite
<1>4. Cardinality(ImportsOf(s)) \in Nat
    BY ImportsFinite
<1>5. Debt(s, q) = Debt(s, t) + (IF q[k].tag # "script" THEN 1 ELSE 0)
    BY <1>1, <1>3, <1>4 DEF Debt
<1> QED
    BY <1>1, <1>2, <1>3, <1>5 DEF t

LEMMA RunJobKeeps ==
    ASSUME Standing, RunJob
    PROVE  EvalInv'
<1>1. /\ stack # << >> /\ fault = "none" /\ ~over
      /\ UNCHANGED <<attached, cancelled, over, shouldExit, phase, mode, ok, exiting, loads,
                     awaiting, born>>
    BY DEF RunJob, On, Going, drainUnchanged, worldVars
<1>2. PICK f \in AnyFrame, r \in Seq(AnyFrame) :
          /\ stack = <<f>> \o r /\ Top = f /\ Tail(stack) = r
          /\ f.kind \in DrainKind /\ f.kind \notin StopKind /\ f.kind # "import"
          /\ f.saved = << >> /\ Sits(f, r, phase)
    BY DrainTop DEF RunJob
<1>3. PICK k \in LeftSlots :
          LET h == [Top EXCEPT !.ix = k]
              tag == slots[k].tag
          IN /\ slots' = [slots EXCEPT ![k] = Blank]
             /\ IF tag \in {"script", "import"}
                THEN /\ stack' = <<Plain(IF tag = "import" THEN tag ELSE "job"), h>> \o Tail(stack)
                     /\ UNCHANGED <<holds, fault>>
                ELSE stack' = <<[h EXCEPT !.tasks = cleanups]>> \o Tail(stack) /\ Release
    BY DEF RunJob
<1>4. slots \in Queue /\ cleanups \in Nat
    BY DEF Standing, EvalInv, LoopInv, LoopTypes
<1>5. k \in 1..Len(slots) /\ k \in Nat /\ slots[k] # Blank
    <2>1. f.ix \in Nat /\ Len(slots) \in Nat
        BY <1>4, LenProperties DEF AnyFrame, Queue
    <2> QED
        BY <1>2, <2>1 DEF LeftSlots
<1>6. slots' = << >> \/ cancelled => slots' = << >>
    <2>1. ~cancelled
        <3>1. slots # << >>
            BY <1>5
        <3> QED
            BY <3>1 DEF Standing, EvalInv, Awake
    <2> QED
        BY <2>1
<1>7. Alike(<<f>> \o r)
    BY <1>2, AlikeSame DEF Standing
(* The drain goes on at k, with the queue that is left.                    *)
<1>8. ASSUME NEW g \in AnyFrame, g.kind = f.kind, g.saved = f.saved, g.kill = f.kill
      PROVE  /\ <<g>> \o r \in Seq(AnyFrame) /\ <<g>> \o r # << >>
             /\ Located(<<g>> \o r, phase, slots', born) /\ slots' \in Queue
             /\ HasStop(<<g>> \o r) <=> HasStop(stack)
             /\ Debt(<<g>> \o r, slots') \in Nat
             /\ Debt(stack, slots) = Debt(<<g>> \o r, slots')
                                     + (IF slots[k].tag # "script" THEN 1 ELSE 0)
    <2>1. Sits(g, r, phase)
        BY <1>2, <1>8 DEF Sits, Allowed
    <2>2. PICK s : s = <<g>> \o r /\ Alike(s) /\ s # << >>
        BY <1>2, <1>7, <1>8, <2>1, AlikeRetop DEF Standing
    <2>3. /\ s \in Seq(AnyFrame) /\ Located(s, phase, slots, born)
          /\ (HasStop(s) <=> HasStop(stack)) /\ Debt(s, slots) = Debt(stack, slots)
        BY <2>2 DEF Alike
    <2>4. slots' = [slots EXCEPT ![k] = Blank]
        BY <1>3
    <2>5. /\ Located(s, phase, [slots EXCEPT ![k] = Blank], born)
          /\ [slots EXCEPT ![k] = Blank] \in Queue
          /\ Debt(s, [slots EXCEPT ![k] = Blank]) \in Nat
          /\ Debt(s, slots) = Debt(s, [slots EXCEPT ![k] = Blank])
                              + (IF slots[k].tag # "script" THEN 1 ELSE 0)
        BY <1>4, <1>5, <2>3, TakenDebt
    <2> QED
        BY <2>2, <2>3, <2>4, <2>5
<1>9. CASE slots[k].tag \in {"script", "import"}
    <2> DEFINE g == [f EXCEPT !.ix = k]
               c == IF slots[k].tag = "import" THEN "import" ELSE "job"
               e == Plain(c)
    <2>1. g \in AnyFrame /\ g.kind = f.kind /\ g.saved = f.saved /\ g.kill = f.kill
        BY <1>5 DEF AnyFrame
    <2>2. c \in CalledKind /\ c \in Kind
        BY DEF CalledKind, Kind, JSKind
    <2>3. e \in AnyFrame /\ e.kind = c /\ e.saved = << >>
        BY <2>2, PlainFrame
    <2>4. stack' = <<e, g>> \o r /\ UNCHANGED <<holds, fault>>
        BY <1>2, <1>3, <1>9
    <2>5. c = "import" <=> slots[k].tag # "script"
        BY <1>9
    <2> HIDE DEF e, g, c
    <2>6. <<e, g>> \o r = <<e>> \o (<<g>> \o r)
        BY <2>1, <2>3, TwoOnTop
    <2>7. /\ <<g>> \o r \in Seq(AnyFrame) /\ <<g>> \o r # << >>
          /\ Located(<<g>> \o r, phase, slots', born) /\ slots' \in Queue
          /\ HasStop(<<g>> \o r) <=> HasStop(stack)
          /\ Debt(<<g>> \o r, slots') \in Nat
          /\ Debt(stack, slots) = Debt(<<g>> \o r, slots')
                                  + (IF slots[k].tag # "script" THEN 1 ELSE 0)
        BY <1>8, <2>1
    <2>8. PICK s \in Seq(AnyFrame) : s = <<g>> \o r
        BY <2>7
    <2>9. e.kind \notin StopKind /\ Sits(e, s, phase)
        <3>1. e.kind \notin StopKind /\ e.kind # "nested" /\ e.kind \notin BottomKind
            BY <2>2, <2>3 DEF StopKind, CalledKind, BottomKind
        <3>2. s # << >>
            BY <2>7, <2>8
        <3> QED
            BY <3>1, <3>2 DEF Sits, Allowed
    <2>10. PICK q \in Queue : q = slots'
        BY <2>7
    <2>11. /\ Located(<<e>> \o s, phase, q, born) <=>
                  Located(s, phase, q, born) /\ Sits(e, s, phase)
           /\ HasStop(<<e>> \o s) <=> HasStop(s)
           /\ Debt(<<e>> \o s, q) = Debt(s, q) + (IF e.kind = "import" THEN 1 ELSE 0)
        BY <2>3, <2>9, OnTop
    <2>12. stack' = <<e>> \o s
        BY <2>4, <2>6, <2>8
    <2>13. Sited'
        BY <1>1, <2>7, <2>8, <2>9, <2>10, <2>11, <2>12 DEF Sited
    <2>14. Awake'
        BY <1>1, <1>6, <2>7, <2>8, <2>11, <2>12 DEF Standing, EvalInv, Awake
    <2>15. Debt(stack, slots)' = Debt(stack, slots)
        BY <2>3, <2>5, <2>7, <2>8, <2>10, <2>11, <2>12
    <2>16. Debt(stack, slots) \in Nat
        BY OwedType DEF Standing
    <2>17. Accounted'
        BY <1>1, <2>4, <2>15, <2>16, BalanceStays DEF Standing
    <2> QED
        BY <1>1, <2>13, <2>14, <2>17, PhaseStays DEF Standing, EvalInv, Timely
<1>10. CASE slots[k].tag \notin {"script", "import"}
    <2> DEFINE g == [f EXCEPT !.ix = k, !.tasks = cleanups]
    <2>1. g \in AnyFrame /\ g.kind = f.kind /\ g.saved = f.saved /\ g.kill = f.kill
        BY <1>4, <1>5 DEF AnyFrame
    <2>2. stack' = <<g>> \o r /\ Release
        BY <1>2, <1>3, <1>10
    <2> HIDE DEF g
    <2>3. /\ Located(<<g>> \o r, phase, slots', born)
          /\ HasStop(<<g>> \o r) <=> HasStop(stack)
          /\ Debt(<<g>> \o r, slots') \in Nat
          /\ Debt(stack, slots) = Debt(<<g>> \o r, slots')
                                  + (IF slots[k].tag # "script" THEN 1 ELSE 0)
        BY <1>8, <2>1
    <2>4. Sited'
        BY <1>1, <2>2, <2>3 DEF Sited
    <2>5. Awake'
        BY <1>1, <1>6, <2>2, <2>3 DEF Standing, EvalInv, Awake
    <2>6. Debt(stack, slots) = Debt(stack, slots)' + 1
        BY <1>10, <2>2, <2>3
    <2>7. Accounted'
        BY <1>1, <2>2, <2>6, Released DEF Standing
    <2> QED
        BY <1>1, <2>4, <2>5, <2>7, PhaseStays DEF Standing, EvalInv, Timely
<1> QED
    BY <1>9, <1>10

LEMMA DrainedDebt ==
    ASSUME NEW r \in Seq(AnyFrame), NEW q \in Queue, NEW p, NEW n, Located(r, p, q, n)
    PROVE  /\ Located(r, p, << >>, n)
           /\ Debt(r, << >>) \in Nat
           /\ Debt(r, << >>) <= Debt(r, q)
           /\ JobsOf(q) = {} => Debt(r, << >>) = Debt(r, q)
<1>1. JobsOf(<< >>) = {} /\ << >> \in Queue
    BY NoJobs DEF Queue
<1>2. AllJobs(r, << >>) \subseteq AllJobs(r, q)
      /\ (JobsOf(q) = {} => AllJobs(r, << >>) = AllJobs(r, q))
    BY <1>1 DEF AllJobs
<1>3. Located(r, p, << >>, n)
    BY <1>2, ApartBare DEF Located, Known
<1>4. OwedJobs(r, << >>) \subseteq OwedJobs(r, q)
      /\ (JobsOf(q) = {} => OwedJobs(r, << >>) = OwedJobs(r, q))
    BY <1>2 DEF OwedJobs
<1>5. /\ IsFiniteSet(OwedJobs(r, q))
      /\ Cardinality(OwedJobs(r, q)) \in Nat /\ Cardinality(OwedJobs(r, << >>)) \in Nat
      /\ Debt(r, << >>) \in Nat
    BY <1>1, OwedFinite
<1>6. Cardinality(OwedJobs(r, << >>)) <= Cardinality(OwedJobs(r, q))
    BY <1>4, <1>5, FS_Subset
<1>7. Cardinality(ImportsOf(r)) \in Nat
    BY ImportsFinite
<1>8. Debt(r, << >>) <= Debt(r, q)
    BY <1>5, <1>6, <1>7 DEF Debt
<1>9. JobsOf(q) = {} => Debt(r, << >>) = Debt(r, q)
    BY <1>4 DEF Debt
<1> QED
    BY <1>3, <1>5, <1>8, <1>9

(* A drain that ends has come to the end of the queue, but for exit().     *)
LEMMA DrainedAll ==
    ASSUME Standing, DrainEnd
    PROVE  shouldExit \/ JobsOf(slots) = {}
<1>1. PICK f \in AnyFrame : Top = f /\ Passed(f, slots)
    BY DrainTop DEF DrainEnd
<1>2. slots \in Queue /\ attached \in {"yes", "destroyed"}
    BY DEF Standing, EvalInv, LoopInv, LoopTypes
<1>3. LeftSlots = {} \/ shouldExit
    BY <1>2 DEF DrainEnd, MayRunJob, IsRunning
<1>4. ASSUME LeftSlots = {}, NEW j \in 1..Len(slots)
      PROVE  slots[j] = Blank
    <2>1. PICK x \in Nat : x = f.ix
        BY DEF AnyFrame
    <2>2. Len(slots) \in Nat
        BY <1>2, LenProperties DEF Queue
    <2>3. CASE j <= x
        BY <1>1, <2>1, <2>3 DEF Passed
    <2>4. CASE j > x
        <3>1. j \in (x + 1)..Len(slots)
            BY <2>2, <2>4
        <3> QED
            BY <1>1, <1>4, <2>1, <3>1 DEF LeftSlots
    <2> QED
        BY <2>1, <2>3, <2>4
<1> QED
    BY <1>3, <1>4 DEF JobsOf

LEMMA DrainEndKeeps ==
    ASSUME Standing, DrainEnd
    PROVE  EvalInv'
<1>1. /\ stack # << >> /\ fault = "none" /\ ~over /\ stack' = Tail(stack) /\ slots' = << >>
      /\ UNCHANGED <<attached, cancelled, over, fault, shouldExit, phase, mode, ok, exiting,
                     holds, loads, awaiting, born>>
    BY DEF DrainEnd, On, Going, drainUnchanged, mainLoopVars, worldVars
<1>2. PICK f \in AnyFrame, r \in Seq(AnyFrame) :
          /\ stack = <<f>> \o r /\ Tail(stack) = r
          /\ f.kind \notin StopKind /\ f.kind # "import"
    BY DrainTop DEF DrainEnd
<1>3. Alike(r)
    BY <1>2, AlikePop DEF Standing
<1>4. /\ Located(r, phase, slots, born) /\ Debt(r, slots) = Debt(stack, slots)
      /\ HasStop(r) <=> HasStop(stack)
      /\ slots \in Queue
    BY <1>3 DEF Alike, Standing, EvalInv, LoopInv, LoopTypes
<1>5. /\ Located(r, phase, << >>, born)
      /\ Debt(r, << >>) \in Nat
      /\ Debt(r, << >>) <= Debt(r, slots)
      /\ JobsOf(slots) = {} => Debt(r, << >>) = Debt(r, slots)
    BY <1>4, DrainedDebt
<1>6. Sited'
    BY <1>1, <1>2, <1>5 DEF Sited
<1>7. Awake'
    BY <1>1, <1>2, <1>4, AwakeStays DEF Standing
<1>8. ~CanExit => JobsOf(slots) = {}
    BY DrainedAll DEF Standing, EvalInv, Timely
<1>9. /\ Debt(stack, slots)' <= Debt(stack, slots)
      /\ ~CanExit => Debt(stack, slots)' = Debt(stack, slots)
    BY <1>1, <1>2, <1>4, <1>5, <1>8
<1>10. Accounted'
    BY <1>1, <1>9, BalanceStays DEF Standing
<1> QED
    BY <1>1, <1>6, <1>7, <1>10, PhaseStays DEF Standing, EvalInv, Timely

-----------------------------------------------------------------------------
(* The debugger lets the program go on.                                    *)
LEMMA DrainPushed ==
    ASSUME Standing, NEW s, Alike(s), s # << >>, NEW kind \in InnerKind \cap DrainKind,
           RunJobs(kind, s)
    PROVE  \E t : t = stack' /\ Alike(t)
<1> DEFINE g == [Plain(kind) EXCEPT !.tasks = IF slots = << >> THEN cleanups ELSE 0]
<1>1. Plain(kind) \in AnyFrame /\ Plain(kind).kind = kind /\ Plain(kind).saved = << >>
    BY PlainFrame DEF Kind
<1>2. cleanups \in Nat
    BY DEF Standing, EvalInv, LoopInv, LoopTypes
<1>3. g \in AnyFrame /\ g.kind = kind /\ g.saved = << >>
    BY <1>1, <1>2 DEF AnyFrame
<1>4. stack' = <<g>> \o s
    BY DEF RunJobs
<1> HIDE DEF g
<1> QED
    BY <1>3, <1>4, AlikePush DEF Standing

LEMMA DebuggerJobsKeep ==
    ASSUME Standing, DebuggerJobs
    PROVE  EvalInv'
<1>1. /\ stack # << >> /\ fault = "none" /\ Top.kind = "debugjobs"
      /\ UNCHANGED <<slots, attached, cancelled, over, fault, shouldExit, phase, mode, ok,
                     exiting, holds, loads, awaiting, born>>
      /\ RunJobs("debugdrain", Becomes("resume")) \/ stack' = Becomes("resume")
    BY DEF DebuggerJobs, On, Going, evalVars, mainLoopVars, worldVars
<1>2. PICK f \in AnyFrame, r \in Seq(AnyFrame) :
          stack = <<f>> \o r /\ Top = f /\ Tail(stack) = r
    BY <1>1, Split DEF Standing, EvalInv
<1> DEFINE g == [f EXCEPT !.kind = "resume"]
<1>3. Becomes("resume") = <<g>> \o r
    BY <1>2 DEF Becomes
<1>4. g \in AnyFrame /\ g.kind = "resume" /\ g.saved = f.saved /\ g.kill = f.kill
    BY DEF AnyFrame, Kind
<1> HIDE DEF g
<1>5. f.kind = "debugjobs" /\ f.kind \in StopKind /\ g.kind \in StopKind
      /\ f.kind # "import" /\ g.kind # "import"
    BY <1>1, <1>2, <1>4 DEF StopKind
<1>6. Sits(g, r, phase)
    <2>1. Sits(f, r, phase)
        BY <1>2, TopSits DEF Standing, EvalInv, Sited
    <2>2. f.kind \notin BottomOf(phase) /\ g.kind \notin BottomKind
        BY <1>4, <1>5 DEF BottomOf, BottomKind
    <2> QED
        BY <1>4, <1>5, <2>1, <2>2 DEF Sits, Allowed
<1>7. Alike(<<f>> \o r)
    BY <1>2, AlikeSame DEF Standing
<1>8. PICK s : s = Becomes("resume") /\ Alike(s) /\ s # << >>
    BY <1>3, <1>4, <1>5, <1>6, <1>7, AlikeRetop DEF Standing
<1>9. PICK t : t = stack' /\ Alike(t)
    <2>1. CASE stack' = Becomes("resume")
        BY <1>8, <2>1
    <2>2. CASE RunJobs("debugdrain", Becomes("resume"))
        <3>1. RunJobs("debugdrain", s)
            BY <1>8, <2>2 DEF RunJobs
        <3> QED
            BY <1>8, <3>1, DrainPushed DEF InnerKind, DrainKind
    <2> QED
        BY <1>1, <2>1, <2>2
<1> QED
    BY <1>1, <1>9, Undisturbed DEF Standing, EvalInv, Timely

LEMMA ResumeKeeps ==
    ASSUME Standing, Resume
    PROVE  EvalInv'
<1>1. stack # << >> /\ fault = "none" /\ ~over /\ Top.kind = "resume" /\ UNCHANGED worldVars
    BY DEF Resume, On, Going
<1>2. CASE slots # << >>
    <2>1. /\ stack' = stack /\ fault' = "queueNotEmpty"
          /\ UNCHANGED <<slots, attached, cancelled, over, shouldExit, phase, mode, ok, exiting,
                         holds, loads, awaiting, born>>
        BY <1>1, <1>2 DEF Resume, queueVars, evalVars, mainLoopVars, worldVars
    <2>2. Alike(stack)
        BY AlikeSame DEF Standing
    <2> QED
        BY <1>1, <2>1, <2>2, Undisturbed DEF Standing, EvalInv, Timely
<1>3. CASE slots = << >>
    <2>1. PICK f \in AnyFrame, r \in Seq(AnyFrame) :
              stack = <<f>> \o r /\ Top = f /\ Tail(stack) = r
        BY <1>1, Split DEF Standing, EvalInv
    <2>2. f.kind \in StopKind /\ f.saved \in Queue /\ f.was \in BOOLEAN
        BY <1>1, <2>1 DEF StopKind, AnyFrame
    <2>3. /\ Located(<<f>> \o r, phase, << >>, born)
          /\ Sound(<<f>> \o r, draining, slots) /\ draining \in BOOLEAN
        BY <1>3, <2>1 DEF Standing, EvalInv, Sited, LoopInv, LoopTypes
    <2>4. /\ Located(r, phase, f.saved, born) /\ Sits(f, r, phase)
          /\ Debt(<<f>> \o r, << >>) = Debt(r, f.saved)
          /\ Debt(r, f.saved) \in Nat
        BY <2>2, <2>3, OnPause
    <2>5. r # << >> /\ Head(r).kind \in JSKind /\ Sound(r, f.was, f.saved)
        BY <2>2, <2>3, WithStop
    <2>6. slots' = f.saved /\ StartDispatcher /\ shouldExit' = shouldExit
        BY <1>3, <2>1 DEF Resume
    <2>7. Awake'
        BY <2>6, AwakeNow DEF Standing
    <2>8. Debt(r, f.saved) = Debt(stack, slots)
        BY <1>3, <2>1, <2>4
    <2>9. CASE f.kill
        <3>1. Leave(r, "kill") /\ leaveUnchanged
            BY <1>3, <2>1, <2>9 DEF Resume, Leave
        <3>2. CanExit
            BY <2>2, <2>4, <2>9 DEF Sits, Allowed
        <3> QED
            BY <1>1, <2>2, <2>4, <2>5, <2>6, <2>7, <2>8, <3>1, <3>2, LeaveAccounts
    <2>10. CASE ~f.kill
        <3>1. /\ stack' = r
              /\ UNCHANGED <<over, fault, phase, mode, ok, exiting, holds, loads, awaiting, born>>
            BY <1>1, <1>3, <2>1, <2>10 DEF Resume, evalVars, mainLoopVars, worldVars
        <3>2. Sited'
            BY <2>4, <2>6, <3>1 DEF Sited
        <3>3. Debt(stack, slots)' = Debt(stack, slots) /\ Debt(stack, slots) \in Nat
            BY <2>4, <2>6, <2>8, <3>1
        <3>4. Accounted'
            BY <1>1, <3>1, <3>3, BalanceStays DEF Standing
        <3> QED
            BY <1>1, <2>6, <2>7, <3>1, <3>2, <3>4, PhaseStays DEF Standing, EvalInv, Timely
    <2> QED
        BY <2>9, <2>10
<1> QED
    BY <1>2, <1>3

-----------------------------------------------------------------------------
(* Iterations of the main context.                                         *)
LEMMA LoopTop ==
    ASSUME Standing, On(LoopKind)
    PROVE  /\ stack # << >> /\ fault = "none" /\ ~over
           /\ \E s : s = Iterated /\ Alike(s) /\ s # << >>
           /\ cancelled => CanNest /\ CanDebug
<1>1. stack # << >> /\ fault = "none" /\ ~over /\ Top.kind \in LoopKind
    BY DEF On, Going
<1>2. PICK f \in AnyFrame, r \in Seq(AnyFrame) :
          stack = <<f>> \o r /\ Top = f /\ Tail(stack) = r
    BY <1>1, Split DEF Standing, EvalInv
<1>3. Alike(<<f>> \o r) /\ Sits(f, r, phase) /\ Placed(stack, phase)
    BY <1>2, AlikeSame, TopSits DEF Standing, EvalInv, Sited, Located
<1>4. \E s : s = Iterated /\ Alike(s) /\ s # << >>
    <2>1. CASE f.kind # "spin"
        BY <1>1, <1>2, <1>3, <2>1 DEF Iterated
    <2>2. CASE f.kind = "spin"
        <3> DEFINE g == [f EXCEPT !.kind = "spincheck"]
        <3>1. Iterated = <<g>> \o r
            BY <1>2, <2>2 DEF Iterated, Becomes
        <3>2. g \in AnyFrame /\ g.kind = "spincheck" /\ g.saved = f.saved /\ g.kill = f.kill
            BY DEF AnyFrame, Kind
        <3> HIDE DEF g
        <3>3. r = << >> /\ "spin" \in BottomOf(phase)
            BY <1>3, <2>2 DEF Sits, BottomKind
        <3>4. phase = "spin"
            BY <3>3 DEF BottomOf
        <3>5. "spincheck" \in BottomOf(phase)
            BY <3>4 DEF BottomOf
        <3>6. f.kind \notin StopKind /\ g.kind \notin StopKind
              /\ f.kind # "import" /\ g.kind # "import"
            BY <2>2, <3>2 DEF StopKind
        <3>7. Sits(g, r, phase)
            BY <3>2, <3>3, <3>5, <3>6 DEF Sits, Allowed
        <3> QED
            BY <1>3, <3>1, <3>2, <3>6, <3>7, AlikeRetop DEF Standing
    <2> QED
        BY <2>1, <2>2
(* A dispatcher that sleeps does so for the debugger, and a loop on top of *)
(* the debugger is not the one of spin().                                  *)
<1>5. cancelled => CanNest /\ CanDebug
    <2> SUFFICES ASSUME cancelled
                 PROVE  CanNest /\ CanDebug
        OBVIOUS
    <2>1. HasStop(stack)
        BY <1>1 DEF Standing, EvalInv, Awake
    <2>2. PICK i \in 1..Len(stack) : stack[i].kind \in StopKind
        BY <2>1 DEF HasStop, StopsOf
    <2>3. CanDebug
        BY <1>3, <2>2 DEF Placed, Allowed
    <2>4. Above(stack, f, r)
        BY <1>2, PushedAbove
    <2>5. i # 1
        BY <1>1, <1>2, <2>2, <2>4 DEF Above, LoopKind, StopKind
    <2>6. r # << >>
        <3>1. Len(r) # 0
            BY <2>4, <2>5 DEF Above
        <3> QED
            BY <3>1
    <2>7. f.kind # "spin"
        BY <1>3, <2>6 DEF Sits, BottomKind
    <2>8. CanNest
        BY <1>1, <1>2, <1>3, <2>7 DEF LoopKind, Sits, Allowed
    <2> QED
        BY <2>3, <2>8
<1> QED
    BY <1>1, <1>4, <1>5

LEMMA IterationsKeep ==
    ASSUME Standing, DispatchCallback \/ NothingPending
    PROVE  EvalInv'
<1>1. /\ On(LoopKind)
      /\ UNCHANGED <<slots, attached, cancelled, over, fault, shouldExit, phase, mode, ok,
                     exiting, holds, loads, awaiting, born>>
      /\ stack' = Iterated \/ stack' = <<Plain("callback")>> \o Iterated
    BY DEF DispatchCallback, NothingPending, Iterates, queueVars, evalVars, mainLoopVars,
           worldVars, flagVars
<1>2. PICK s : s = Iterated /\ Alike(s) /\ s # << >>
    BY <1>1, LoopTop
<1>3. stack # << >> /\ fault = "none"
    BY <1>1, LoopTop
<1>4. \E t : t = stack' /\ Alike(t)
    <2>1. CASE stack' = Iterated
        BY <1>2, <2>1
    <2>2. CASE stack' = <<Plain("callback")>> \o Iterated
        <3> DEFINE g == Plain("callback")
        <3>1. g \in AnyFrame /\ g.kind \in InnerKind /\ g.saved = << >>
            BY PlainFrame DEF Kind, JSKind, InnerKind
        <3>2. stack' = <<g>> \o s
            BY <1>2, <2>2
        <3> HIDE DEF g
        <3> QED
            BY <1>2, <3>1, <3>2, AlikePush DEF Standing
    <2> QED
        BY <1>1, <2>1, <2>2
<1> QED
    BY <1>1, <1>3, <1>4, Undisturbed DEF Standing, EvalInv, Timely

LEMMA DispatchJobsKeep ==
    ASSUME Standing, DispatchJobs
    PROVE  EvalInv'
<1>1. /\ On(LoopKind)
      /\ UNCHANGED <<slots, cancelled, over, fault, shouldExit, phase, mode, ok, exiting, holds,
                     loads, awaiting, born>>
    BY DEF DispatchJobs, evalVars, mainLoopVars, worldVars
<1>2. PICK s : s = Iterated /\ Alike(s) /\ s # << >>
    BY <1>1, LoopTop
<1>3. stack # << >> /\ fault = "none" /\ (cancelled => CanNest /\ CanDebug)
    BY <1>1, LoopTop
<1>4. CASE cancelled
    <2>1. stack' = s
        BY <1>2, <1>4 DEF DispatchJobs
    <2>2. Awake'
        <3>1. HasStop(stack') <=> HasStop(stack)
            BY <1>2, <2>1 DEF Alike
        <3> QED
            BY <1>1, <1>3, <1>4, <3>1 DEF Standing, EvalInv, Awake
    <2>3. Sited'
        BY <1>1, <1>2, <2>1 DEF Alike, Sited
    <2>4. Debt(stack, slots)' = Debt(stack, slots) /\ Debt(stack, slots) \in Nat
        BY <1>1, <1>2, <2>1, DebtType DEF Alike, Standing, EvalInv
    <2>5. Accounted'
        BY <1>1, <1>3, <2>4, BalanceStays DEF Standing
    <2> QED
        BY <1>1, <1>3, <2>2, <2>3, <2>5, PhaseStays DEF Standing, EvalInv, Timely
<1>5. CASE ~cancelled
    <2>1. attached' = attached /\ (RunJobs("dispatch", Iterated) \/ stack' = Iterated)
        BY <1>5 DEF DispatchJobs
    <2>2. \E t : t = stack' /\ Alike(t)
        <3>1. CASE stack' = Iterated
            BY <1>2, <3>1
        <3>2. CASE RunJobs("dispatch", Iterated)
            <4>1. RunJobs("dispatch", s)
                BY <1>2, <3>2 DEF RunJobs
            <4> QED
                BY <1>2, <4>1, DrainPushed DEF InnerKind, DrainKind
        <3> QED
            BY <2>1, <3>1, <3>2
    <2> QED
        BY <1>1, <1>3, <2>1, <2>2, Undisturbed DEF Standing, EvalInv, Timely
<1> QED
    BY <1>4, <1>5

LEMMA LoadFinishedKeeps ==
    ASSUME Standing, LoadFinished
    PROVE  EvalInv'
<1>1. /\ On(LoopKind) /\ stack' = Iterated /\ Release /\ loads > 0 /\ loads' = loads - 1
      /\ born' = born + 1
      /\ UNCHANGED <<over, shouldExit, phase, mode, ok, exiting, awaiting>>
    BY DEF LoadFinished, Iterates, evalVars
<1>2. PICK s : s = Iterated /\ Alike(s)
    BY <1>1, LoopTop
<1>3. stack # << >> /\ fault = "none" /\ ~over
    BY <1>1, LoopTop
<1>4. PICK job \in AnyJob : job.id = born + 1 /\ job.tag = "import" /\ EnqueueJob(job)
    BY NextJob DEF LoadFinished, Tag
<1>5. /\ Located(stack', phase, slots', born')
      /\ Awake'
      /\ Debt(stack, slots)' =
             Debt(stack, slots) + (IF job.tag # "script" THEN 1 ELSE 0)
    BY <1>1, <1>2, <1>4, JobComes
<1>6. OwedNow \in Nat /\ loads \in Nat /\ Debt(stack, slots) \in Nat
    BY OwedType DEF Standing
<1>7. PICK v \in Nat : v = OwedNow' /\ OwedNow = v + 1
    <2>1. PICK d \in Nat, l \in Nat : d = Debt(stack, slots) /\ l = loads
        BY <1>6
    <2>2. Debt(stack, slots)' = d + 1 /\ l > 0 /\ loads' = l - 1
        BY <1>1, <1>4, <1>5, <2>1
    <2> DEFINE a == IF awaiting THEN 1 ELSE 0
    <2>3. a \in Nat
        OBVIOUS
    <2>4. OwedNow = 2 * l + a + d /\ OwedNow' = 2 * (l - 1) + a + (d + 1)
        BY <1>1, <2>1, <2>2 DEF OwedNow
    <2> HIDE DEF a
    <2>5. PICK b \in Nat : b = a
        BY <2>3
    <2>6. 2 * (l - 1) + b + (d + 1) \in Nat
          /\ 2 * l + b + d = (2 * (l - 1) + b + (d + 1)) + 1
        BY <2>2
    <2> QED
        BY <2>4, <2>5, <2>6
<1>8. awaiting' \in BOOLEAN
    BY <1>1 DEF Standing, EvalInv, Accounted
<1>9. v + 1 \in Nat
    OBVIOUS
<1>10. Accounted'
    BY <1>1, <1>3, <1>7, <1>8, <1>9, ReleaseBalances DEF Standing
<1>11. Sited'
    BY <1>1, <1>5 DEF Sited
<1> QED
    BY <1>1, <1>3, <1>5, <1>10, <1>11, PhaseStays DEF Standing, EvalInv, Timely

LEMMA NestedEndsKeeps ==
    ASSUME Standing, NestedEnds
    PROVE  EvalInv'
<1>1. /\ stack # << >> /\ fault = "none" /\ Top.kind = "nested" /\ stack' = Tail(stack)
      /\ UNCHANGED <<slots, attached, cancelled, over, fault, shouldExit, phase, mode, ok,
                     exiting, holds, loads, awaiting, born>>
    BY DEF NestedEnds, On, Going, queueVars, evalVars, mainLoopVars, worldVars, flagVars
<1>2. PICK f \in AnyFrame, r \in Seq(AnyFrame) :
          stack = <<f>> \o r /\ Top = f /\ Tail(stack) = r
    BY <1>1, Split DEF Standing, EvalInv
<1>3. Alike(r)
    BY <1>1, <1>2, AlikePop DEF Standing, StopKind
<1> QED
    BY <1>1, <1>2, <1>3, Undisturbed DEF Standing, EvalInv, Timely

-----------------------------------------------------------------------------
(* eval() and eval_module() themselves.                                    *)

(* The first frame on an empty stack.                                      *)
LEMMA FirstSits ==
    ASSUME Standing, stack = << >>, NEW f \in AnyFrame, f.saved = << >>,
           f.kind \notin StopKind, f.kind # "import", f.kind = "nested" => CanNest,
           NEW p, f.kind \in BottomOf(p)
    PROVE  /\ Located(<<f>> \o stack, p, slots, born)
           /\ Debt(<<f>> \o stack, slots) = Debt(stack, slots)
           /\ <<f>> \o stack = <<f>>
<1>1. stack \in Seq(AnyFrame) /\ slots \in Queue /\ Located(<< >>, phase, slots, born)
    BY DEF Standing, EvalInv, LoopInv, LoopTypes, Sited
<1>2. Located(stack, p, slots, born)
    BY <1>1, EmptyPlaced
<1>3. Sits(f, stack, p)
    BY DEF Sits, Allowed
<1>4. /\ Located(<<f>> \o stack, p, slots, born) <=>
             Located(stack, p, slots, born) /\ Sits(f, stack, p)
      /\ Debt(<<f>> \o stack, slots) = Debt(stack, slots) + (IF f.kind = "import" THEN 1 ELSE 0)
      /\ Debt(stack, slots) \in Nat
    BY <1>1, OnTop
<1>5. <<f>> \o stack = <<f>>
    <2>1. <<f>> \in Seq(AnyFrame)
        OBVIOUS
    <2> QED
        BY <2>1
<1> QED
    BY <1>2, <1>3, <1>4, <1>5

(* Then nothing changes in what is owed, and the place of eval() decides.  *)
LEMMA FirstPushed ==
    ASSUME Standing, stack = << >>, fault = "none", NEW k \in Kind,
           k \notin StopKind, k # "import", k = "nested" => CanNest,
           k \in BottomOf(phase'), stack' = <<Plain(k)>>,
           UNCHANGED <<slots, attached, cancelled, over, fault, exiting, holds, loads, awaiting,
                       born>>,
           Timely', Settled'
    PROVE  EvalInv'
<1> DEFINE f == Plain(k)
<1>1. f \in AnyFrame /\ f.kind = k /\ f.saved = << >>
    BY PlainFrame
<1>2. stack' = <<f>>
    OBVIOUS
<1> HIDE DEF f
<1>3. PICK p : p = phase'
    OBVIOUS
<1>4. /\ Located(<<f>> \o stack, p, slots, born)
      /\ Debt(<<f>> \o stack, slots) = Debt(stack, slots)
      /\ <<f>> \o stack = <<f>>
    BY <1>1, <1>3, FirstSits
<1>5. Sited'
    BY <1>2, <1>3, <1>4 DEF Sited
<1>6. ~HasStop(stack)
    BY NothingOn
<1>7. Awake'
    BY <1>6, AwakeStays DEF Standing
<1>8. Debt(stack, slots)' = Debt(stack, slots) /\ Debt(stack, slots) \in Nat
    BY <1>2, <1>4, DebtType DEF Standing, EvalInv
<1>9. Accounted'
    BY <1>8, BalanceStays DEF Standing
<1> QED
    BY <1>5, <1>7, <1>9 DEF Standing, EvalInv

(* The place of eval() changes with nothing on the stack, before or after. *)
LEMMA PlaceMoves ==
    ASSUME Standing, fault = "none", NEW s, Alike(s), s = << >>, stack' = s,
           UNCHANGED <<slots, attached, cancelled, over, fault, loads, awaiting, born>>,
           UNCHANGED <<exiting, holds>> \/ (exiting' = TRUE /\ holds' = 0),
           Timely', Settled'
    PROVE  EvalInv'
<1>1. /\ Located(<< >>, phase, slots, born) /\ Debt(s, slots) = Debt(stack, slots)
      /\ HasStop(s) <=> HasStop(stack)
    BY DEF Alike
<1>2. PICK p : p = phase'
    OBVIOUS
<1>3. Located(<< >>, p, slots, born)
    BY <1>1, EmptyPlaced
<1>4. Sited'
    BY <1>2, <1>3 DEF Sited
<1>5. Awake'
    BY <1>1, AwakeStays DEF Standing
<1>6. CASE UNCHANGED <<exiting, holds>>
    <2>1. Debt(stack, slots)' = Debt(stack, slots) /\ Debt(stack, slots) \in Nat
        BY <1>1, DebtType DEF Standing, EvalInv
    <2>2. Accounted'
        BY <1>6, <2>1, BalanceStays DEF Standing
    <2> QED
        BY <1>4, <1>5, <2>2 DEF Standing, EvalInv
<1>7. CASE exiting' = TRUE /\ holds' = 0
    <2>1. awaiting' \in BOOLEAN
        BY DEF Standing, EvalInv, Accounted
    <2>2. Accounted'
        BY <1>7, <2>1 DEF Accounted, Balanced
    <2> QED
        BY <1>4, <1>5, <2>2 DEF Standing, EvalInv
<1> QED
    BY <1>6, <1>7

LEMMA BeginSpinKeeps ==
    ASSUME Standing, BeginSpin
    PROVE  EvalInv'
<1>1. /\ stack = << >> /\ phase = "spin" /\ fault = "none"
      /\ UNCHANGED <<slots, attached, cancelled, over, fault, shouldExit, mode, ok, loads,
                     awaiting, born, hook>>
    BY DEF BeginSpin, InEval, Going, spinUnchanged, queueVars, worldVars, flagVars
<1>2. Alike(stack)
    BY AlikeSame DEF Standing
<1>3. ~CanExit => ~shouldExit
    BY DEF Standing, EvalInv, Timely
<1>4. CASE exiting \/ shouldExit
    <2>1. /\ Stopped /\ stack' = stack
          /\ UNCHANGED <<exiting, holds>> \/ (exiting' = TRUE /\ holds' = 0)
        BY <1>4 DEF BeginSpin, StoppedByExit
    <2>2. phase' = "drain" /\ stop' = TRUE
        BY <2>1 DEF Stopped
    <2>3. Timely' /\ Settled'
        BY <1>1, <1>3, <2>2 DEF Timely, Settled
    <2> QED
        BY <1>1, <1>2, <2>1, <2>3, PlaceMoves
<1>5. CASE ~exiting /\ ~shouldExit
    <2>1. stack' = <<Plain("spin")>> /\ UNCHANGED <<phase, stop, exiting, holds>>
        BY <1>5 DEF BeginSpin
    <2>2. Timely' /\ Settled'
        BY <1>1, <1>3, <1>5, <2>1 DEF Timely, Settled
    <2>3. "spin" \in Kind /\ "spin" \notin StopKind /\ "spin" \in BottomOf(phase')
        BY <1>1, <2>1 DEF Kind, LoopKind, StopKind, BottomOf
    <2> QED
        BY <1>1, <2>1, <2>2, <2>3, FirstPushed
<1> QED
    BY <1>4, <1>5

(* The frame of spin() is alone on the stack when it looks around, and the *)
(* main loop has not exited.                                               *)
LEMMA AtSpinCheck ==
    ASSUME Standing, On({"spincheck"})
    PROVE  \E f \in AnyFrame :
               /\ stack = <<f>> \o << >> /\ Top = f /\ f.kind = "spincheck" /\ f.saved = << >>
               /\ Tail(stack) = << >> /\ phase = "spin" /\ ~exiting /\ stack # << >>
<1>1. stack # << >> /\ Top.kind = "spincheck"
    BY DEF On
<1>2. PICK f \in AnyFrame, r \in Seq(AnyFrame) :
          stack = <<f>> \o r /\ Top = f /\ Tail(stack) = r
    BY <1>1, Split DEF Standing, EvalInv
<1>3. f.saved = << >>
    BY <1>1, <1>2, Unsaved DEF Standing, EvalInv, StopKind
<1>4. Sits(f, r, phase)
    BY <1>2, TopSits DEF Standing, EvalInv, Sited
<1>5. r = << >> /\ f.kind \in BottomOf(phase)
    BY <1>1, <1>2, <1>4 DEF Sits, BottomKind
<1>6. phase = "spin"
    BY <1>1, <1>2, <1>5 DEF BottomOf
<1>7. ~exiting
    BY <1>1, <1>6 DEF Standing, EvalInv, Timely
<1> QED
    BY <1>1, <1>2, <1>3, <1>5, <1>6, <1>7

(* Nothing is owed when nothing is held.                                   *)
LEMMA NothingHeld ==
    ASSUME Standing, ~exiting, ~over, holds = 0
    PROVE  loads = 0 /\ ~awaiting
<1>1. OwedNow \in Nat /\ loads \in Nat /\ Debt(stack, slots) \in Nat
    BY OwedType DEF Standing
<1>2. awaiting \in BOOLEAN /\ holds >= OwedNow
    BY DEF Standing, EvalInv, Accounted, Balanced
<1>3. PICK d \in Nat, l \in Nat : d = Debt(stack, slots) /\ l = loads
    BY <1>1
<1>4. 0 >= 2 * l + (IF awaiting THEN 1 ELSE 0) + d
    BY <1>2, <1>3 DEF OwedNow
<1>5. CASE awaiting
    BY <1>4, <1>5
<1>6. CASE ~awaiting
    BY <1>3, <1>4, <1>6
<1> QED
    BY <1>5, <1>6

LEMMA SpinCheckKeeps ==
    ASSUME Standing, SpinCheck
    PROVE  EvalInv'
<1>1. /\ On({"spincheck"}) /\ fault = "none" /\ ~over
      /\ UNCHANGED <<slots, attached, cancelled, over, fault, shouldExit, mode, ok, loads,
                     awaiting, born, hook>>
    BY DEF SpinCheck, On, Going, spinUnchanged, queueVars, worldVars, flagVars
<1>2. PICK f \in AnyFrame :
          /\ stack = <<f>> \o << >> /\ Top = f /\ f.kind = "spincheck" /\ f.saved = << >>
          /\ Tail(stack) = << >> /\ phase = "spin" /\ ~exiting /\ stack # << >>
    BY <1>1, AtSpinCheck
<1>3. ~CanExit => ~shouldExit
    BY DEF Standing, EvalInv, Timely
<1>4. << >> \in Seq(AnyFrame) /\ f.kind \notin StopKind /\ f.kind # "import"
    BY <1>2 DEF StopKind
<1>5. Alike(<< >>)
    BY <1>2, <1>4, AlikePop DEF Standing
<1>6. CASE shouldExit
    <2>1. phase' = "drain" /\ stop' = TRUE /\ exiting' = TRUE /\ holds' = 0 /\ stack' = << >>
        BY <1>2, <1>6 DEF SpinCheck, StoppedByExit, Stopped
    <2>2. Timely' /\ Settled'
        BY <1>1, <1>3, <2>1 DEF Timely, Settled
    <2> QED
        BY <1>1, <1>5, <2>1, <2>2, PlaceMoves
<1>7. CASE ~shouldExit /\ GoOn
    <2>1. stack' = Becomes("spin") /\ UNCHANGED <<phase, stop, exiting, holds>>
        BY <1>7 DEF SpinCheck
    <2> DEFINE g == [f EXCEPT !.kind = "spin"]
    <2>2. g \in AnyFrame /\ g.kind = "spin" /\ g.saved = f.saved
        BY DEF AnyFrame, Kind, LoopKind
    <2>3. stack' = <<g>> \o << >>
        BY <1>2, <2>1 DEF Becomes
    <2> HIDE DEF g
    <2>4. Sits(g, << >>, phase)
        BY <1>2, <2>2 DEF Sits, Allowed, StopKind, BottomOf
    <2>5. Alike(<<f>> \o << >>)
        BY <1>2, AlikeSame DEF Standing
    <2>6. g.kind \notin StopKind /\ g.kind # "import"
        BY <2>2 DEF StopKind
    <2>7. Alike(<<g>> \o << >>)
        BY <1>4, <2>2, <2>4, <2>5, <2>6, AlikeRetop DEF Standing
    <2> QED
        BY <1>1, <1>2, <1>3, <2>1, <2>3, <2>7, Undisturbed DEF Standing
<1>8. CASE ~shouldExit /\ ~GoOn
    <2>1. Spun /\ stack' = << >>
        BY <1>2, <1>8 DEF SpinCheck
    <2>2. phase' \in {"hook", "drain"} /\ (phase' = "drain" => ~hook)
          /\ UNCHANGED <<stop, exiting, holds>>
        BY <2>1 DEF Spun
    <2>3. Timely'
        BY <1>1, <1>3, <2>2 DEF Timely
    <2>4. Settled'
        <3>1. CASE hook
            BY <1>1, <2>2, <3>1 DEF Settled
        <3>2. CASE ~hook
            <4>1. slots = << >> /\ ~CanBlock
                BY <1>8, <3>2 DEF GoOn
            <4>2. holds \in Nat
                BY DEF Standing, EvalInv, Accounted
            <4>3. holds = 0
                BY <1>2, <4>1, <4>2 DEF CanBlock
            <4>4. loads = 0 /\ ~awaiting
                BY <1>1, <1>2, <4>3, NothingHeld
            <4> QED
                BY <1>1, <2>2, <3>2, <4>1, <4>3, <4>4 DEF Settled
        <3> QED
            BY <3>1, <3>2
    <2> QED
        BY <1>1, <1>5, <2>1, <2>2, <2>3, <2>4, PlaceMoves
<1> QED
    BY <1>6, <1>7, <1>8

LEMMA RunHookKeeps ==
    ASSUME Standing, RunHook
    PROVE  EvalInv'
<1>1. /\ stack = << >> /\ phase = "hook" /\ fault = "none" /\ stack' = <<Plain("hook")>>
      /\ UNCHANGED <<slots, attached, cancelled, over, fault, shouldExit, phase, mode, ok,
                     exiting, holds, loads, awaiting, born>>
    BY DEF RunHook, InEval, Going, queueVars, evalVars, worldVars, flagVars
<1>2. Timely' /\ Settled'
    BY <1>1 DEF Standing, EvalInv, Timely, Settled
<1>3. "hook" \in Kind /\ "hook" \notin StopKind /\ "hook" \in BottomOf(phase')
    BY <1>1 DEF Kind, JSKind, StopKind, BottomOf
<1> QED
    BY <1>1, <1>2, <1>3, FirstPushed

LEMMA HostLoopKeeps ==
    ASSUME Standing, HostLoop
    PROVE  EvalInv'
<1>1. /\ stack = << >> /\ phase = "idle" /\ fault = "none" /\ stack' = <<Plain("nested")>>
      /\ CanNest
      /\ UNCHANGED <<slots, attached, cancelled, over, fault, shouldExit, phase, mode, ok,
                     exiting, holds, loads, awaiting, born>>
    BY DEF HostLoop, InEval, Going, queueVars, evalVars, mainLoopVars, worldVars, flagVars
<1>2. Timely' /\ Settled'
    BY <1>1 DEF Standing, EvalInv, Timely, Settled
<1>3. "nested" \in Kind /\ "nested" \notin StopKind /\ "nested" \in BottomOf(phase')
    BY <1>1 DEF Kind, LoopKind, StopKind, BottomOf
<1> QED
    BY <1>1, <1>2, <1>3, FirstPushed

LEMMA EvalKeeps ==
    ASSUME Standing, NEW m \in {"script", "module"}, Eval(m)
    PROVE  EvalInv'
<1>1. /\ stack = << >> /\ fault = "none" /\ stack' = <<Plain("script")>> /\ phase' = "body"
      /\ mode' = m /\ (m = "module" => ~awaiting)
      /\ UNCHANGED <<slots, attached, cancelled, over, fault, shouldExit, exiting, holds, loads,
                     awaiting, born>>
    BY DEF Eval, InEval, Going, queueVars, mainLoopVars, worldVars, flagVars
<1>2. Timely' /\ Settled'
    BY <1>1 DEF Standing, EvalInv, Timely, Settled
<1>3. "script" \in Kind /\ "script" \notin StopKind /\ "script" \in BottomOf(phase')
    BY <1>1 DEF Kind, JSKind, StopKind, BottomOf
<1> QED
    BY <1>1, <1>2, <1>3, FirstPushed

LEMMA HandleExitCodeKeeps ==
    ASSUME Standing, HandleExitCode
    PROVE  EvalInv'
<1>1. /\ stack = << >> /\ fault = "none" /\ stack' = stack /\ phase' = "idle" /\ ~shouldExit'
      /\ UNCHANGED <<slots, attached, cancelled, over, fault, exiting, holds, loads, awaiting,
                     born>>
    BY DEF HandleExitCode, InEval, Going, queueVars, mainLoopVars, worldVars
<1>2. Timely' /\ Settled'
    BY <1>1 DEF Timely, Settled
<1>3. Alike(stack)
    BY AlikeSame DEF Standing
<1> QED
    BY <1>1, <1>2, <1>3, PlaceMoves

LEMMA DrainOnErrorKeeps ==
    ASSUME Standing, DrainOnError
    PROVE  EvalInv'
<1>1. /\ stack = << >> /\ phase = "drain" /\ fault = "none" /\ phase' = "result"
      /\ UNCHANGED <<slots, attached, cancelled, over, fault, shouldExit, mode, ok, stop,
                     exiting, holds, loads, awaiting, born, hook>>
    BY DEF DrainOnError, InEval, Going, mainLoopVars, worldVars
<1>2. CASE ~ok /\ ~stop /\ CanRunJobs
    <2>1. RunJobs("evaldrain", stack)
        BY <1>2 DEF DrainOnError
    <2>2. PICK n : n = IF slots = << >> THEN cleanups ELSE 0
        OBVIOUS
    <2> DEFINE f == [Plain("evaldrain") EXCEPT !.tasks = n]
    <2>3. n \in Nat
        BY <2>2 DEF Standing, EvalInv, LoopInv, LoopTypes
    <2>4. Plain("evaldrain") \in AnyFrame /\ Plain("evaldrain").kind = "evaldrain"
          /\ Plain("evaldrain").saved = << >>
        BY PlainFrame DEF Kind, DrainKind
    <2>5. f \in AnyFrame /\ f.kind = "evaldrain" /\ f.saved = << >>
        BY <2>3, <2>4 DEF AnyFrame
    <2>6. stack' = <<f>> \o stack
        BY <2>1, <2>2 DEF RunJobs
    <2> HIDE DEF f
    <2>7. /\ Located(<<f>> \o stack, "result", slots, born)
          /\ Debt(<<f>> \o stack, slots) = Debt(stack, slots)
        BY <1>1, <2>5, FirstSits DEF StopKind, BottomOf
    <2>8. Sited'
        BY <1>1, <2>6, <2>7 DEF Sited
    <2>9. ~HasStop(stack)
        BY <1>1, NothingOn
    <2>10. Awake'
        BY <1>1, <2>9, AwakeStays DEF Standing
    <2>11. Debt(stack, slots)' = Debt(stack, slots) /\ Debt(stack, slots) \in Nat
        BY <1>1, <2>6, <2>7, DebtType DEF Standing, EvalInv
    <2>12. Accounted'
        BY <1>1, <2>11, BalanceStays DEF Standing
    <2>13. Timely' /\ Settled'
        BY <1>1, <1>2 DEF Standing, EvalInv, Timely, Settled
    <2> QED
        BY <2>8, <2>10, <2>12, <2>13 DEF Standing, EvalInv
<1>3. CASE ~(~ok /\ ~stop /\ CanRunJobs)
    <2>1. stack' = stack
        BY <1>3 DEF DrainOnError
    <2>2. Timely' /\ Settled'
        BY <1>1, <2>1 DEF Standing, EvalInv, Timely, Settled
    <2>3. Alike(stack)
        BY AlikeSame DEF Standing
    <2> QED
        BY <1>1, <2>1, <2>2, <2>3, PlaceMoves
<1> QED
    BY <1>2, <1>3

LEMMA DisposeKeeps ==
    ASSUME Standing, Dispose
    PROVE  EvalInv'
<1>1. /\ stack = << >> /\ stack' = stack /\ phase = "idle" /\ phase' = phase /\ slots' = << >>
      /\ over' = TRUE /\ UNCHANGED <<attached, born, awaiting, holds, shouldExit>>
      /\ fault = "none" /\ fault' \in {"none", "mismatchedHold"}
    BY DEF Dispose, InEval, Going, evalVars, worldVars
<1>2. stack \in Seq(AnyFrame) /\ slots \in Queue /\ Located(stack, phase, slots, born)
    BY DEF Standing, EvalInv, LoopInv, LoopTypes, Sited
<1>3. Located(stack, phase, << >>, born)
    BY <1>2, DrainedDebt
<1>4. Sited'
    BY <1>1, <1>3 DEF Sited
<1>5. Awake'
    BY <1>1 DEF Standing, EvalInv, Awake
<1>6. Timely' /\ Settled'
    BY <1>1 DEF Standing, EvalInv, Timely, Settled
<1>7. Accounted'
    BY <1>1 DEF Standing, EvalInv, Accounted, Balanced
<1> QED
    BY <1>4, <1>5, <1>6, <1>7 DEF Standing, EvalInv

LEMMA StutterKeeps ==
    ASSUME EvalInv, UNCHANGED vars
    PROVE  EvalInv'
<1>1. UNCHANGED <<slots, draining, attached, cancelled, stack, phase, mode, ok, stop>>
    BY DEF vars
<1>2. UNCHANGED <<exiting, holds, hook, awaiting, loads, born, shouldExit, cleanups, over, fault>>
    BY DEF vars
<1>3. LoopInv' /\ Sited'
    BY <1>1, <1>2 DEF EvalInv, LoopInv, LoopTypes, Sited
<1>4. Awake' /\ Timely' /\ Settled'
    BY <1>1, <1>2 DEF EvalInv, Awake, Timely, Settled
<1>5. Accounted'
    BY <1>1, <1>2 DEF EvalInv, Accounted, Balanced, OwedNow
<1> QED
    BY <1>3, <1>4, <1>5 DEF EvalInv

LEMMA StepKeepsEvalInv == EvalInv /\ [Next]_vars => EvalInv'
<1> SUFFICES ASSUME EvalInv, [Next]_vars
             PROVE  EvalInv'
    OBVIOUS
<1>1. Standing
    BY StepKeepsLoopInv DEF Standing, EvalInv
<1>2. CASE JSStep
    BY <1>1, <1>2, EnqueueKeeps, ImportThrowsKeeps, ImportSettledKeeps, ImportPendingKeeps, QuietKeeps, CallsKeep, ExitKeeps, InterruptKeeps,
       SettleMainKeeps, ReturnKeeps, ModuleEvaluatedKeeps DEF JSStep
<1>3. CASE DrainStep
    BY <1>1, <1>3, RunTaskKeeps, RunJobKeeps, DrainEndKeeps, DebuggerJobsKeep, ResumeKeeps
       DEF DrainStep
<1>4. CASE LoopStep
    BY <1>1, <1>4, DispatchJobsKeep, IterationsKeep, LoadFinishedKeeps, QuietKeeps, NestedEndsKeeps
       DEF LoopStep
<1>5. CASE EvalStep
    BY <1>1, <1>5, BeginSpinKeeps, SpinCheckKeeps, RunHookKeeps, DrainOnErrorKeeps,
       HandleExitCodeKeeps, HostLoopKeeps, DisposeKeeps, EvalKeeps DEF EvalStep
<1>6. CASE Over \/ UNCHANGED vars
    BY <1>6, StutterKeeps DEF Over
<1> QED
    BY <1>2, <1>3, <1>4, <1>5, <1>6 DEF Next

LEMMA StartIsSettled == Init => EvalInv
<1> SUFFICES ASSUME Init
             PROVE  EvalInv
    OBVIOUS
<1>1. /\ slots = << >> /\ stack = << >> /\ attached = "yes" /\ ~cancelled /\ phase = "idle"
      /\ mode = "script" /\ holds = 0 /\ loads = 0 /\ awaiting = FALSE /\ ~shouldExit /\ fault = "none"
    BY DEF Init, QueueInit
<1>2. LoopInv
    BY StartIsSound
<1>3. /\ ~HasStop(<< >>) /\ Cardinality(ImportsOf(<< >>)) = 0 /\ Placed(<< >>, phase)
    BY NothingOn
<1>4. AllJobs(<< >>, << >>) = {} /\ SavedJobs(<< >>) = {} /\ JobsOf(<< >>) = {}
    BY NoJobs DEF AllJobs, SavedJobs
<1>5. Apart(<< >>, << >>) /\ Known(<< >>, << >>, born)
    BY <1>4 DEF Apart, Known, Single
<1>6. Sited
    BY <1>1, <1>3, <1>5 DEF Sited, Located
<1>7. Cardinality(OwedJobs(<< >>, << >>)) = 0
    <2>1. OwedJobs(<< >>, << >>) = {}
        BY <1>4 DEF OwedJobs
    <2> QED
        BY <2>1, FS_EmptySet
<1>8. Debt(stack, slots) = 0
    BY <1>1, <1>3, <1>7 DEF Debt
<1>9. Accounted
    <2>1. OwedNow = 0
        BY <1>1, <1>8 DEF OwedNow
    <2>2. Balanced
        BY <1>1, <2>1 DEF Balanced
    <2>3. fault # "overReleased"
        BY <1>1
    <2> QED
        BY <1>1, <2>2, <2>3 DEF Accounted
<1>10. Awake /\ Timely /\ Settled
    BY <1>1 DEF Awake, Timely, Settled
<1> QED
    BY <1>2, <1>6, <1>9, <1>10 DEF EvalInv

LEMMA EvalInvHolds == Spec => []EvalInv
    BY StartIsSettled, StepKeepsEvalInv, PTL DEF Spec

-----------------------------------------------------------------------------
(* What eval() and the main loop may rely on.                              *)
LEMMA NoneWaits ==
    ASSUME slots = << >>
    PROVE  Waiting(slots) = << >>
<1>1. Unstarted(slots) = {}
    BY DEF Unstarted
<1>2. Cardinality(Unstarted(slots)) = 0
    BY <1>1, FS_EmptySet
<1> QED
    BY <1>2 DEF Waiting, Keep

LEMMA OwedIsOwing ==
    ASSUME LoopInv
    PROVE  Owed = OwedNow
<1>1. Owing(Tag) = AllJobs(stack, slots)
    BY OwingIsAll
<1>2. Owing({"import", "resolved", "rejected"}) = OwedJobs(stack, slots)
    <2>1. \A job : job \in Owing({"import", "resolved", "rejected"}) <=>
                       job \in Owing(Tag) /\ job.tag # "script"
        BY DEF Owing, Tag
    <2> QED
        BY <1>1, <2>1 DEF OwedJobs
<1>3. Importing = ImportsOf(stack)
    BY DEF Importing, ImportsOf
<1>4. PICK i \in Nat, j \in Nat :
          i = Cardinality(ImportsOf(stack)) /\ j = Cardinality(OwedJobs(stack, slots))
    BY ImportsFinite, OwedFinite DEF LoopInv, LoopTypes
<1>5. loads \in Nat
    BY DEF LoopInv, LoopTypes
<1> DEFINE b == 2 * loads + (IF awaiting THEN 1 ELSE 0)
<1>6. b \in Nat
    BY <1>5
<1>7. Owed = b + i + j /\ OwedNow = b + (i + j)
    BY <1>2, <1>3, <1>4 DEF Owed, OwedNow, Debt
<1> HIDE DEF b
<1>8. b + i + j = b + (i + j)
    BY <1>6
<1> QED
    BY <1>7, <1>8

(* enqueuePromiseJob() leaves a dispatcher that will run: the source is    *)
(* attached and its cancellable is not cancelled whenever a job waits,     *)
(* also while the debugger has stopped the program and after it let it go. *)
(* A source that a loop inside the debugger has destroyed is another       *)
(* matter, so the debugger or nested loops are left out.                   *)
THEOREM DispatcherIsReady ==
    ASSUME ~CanNest \/ ~CanDebug
    PROVE  Spec => []DispatcherReady
<1>1. EvalInv => DispatcherReady
    BY NoneWaits DEF EvalInv, Awake, DispatcherReady
<1> QED
    BY <1>1, EvalInvHolds, PTL

(* MainLoop::hold() and release() pair: as long as nobody has exited, the  *)
(* count covers each file GIO reads, each import under evaluation, and     *)
(* each reaction in a queue, the queues of stopped programs included, and  *)
(* without System.exit() nothing else.                                     *)
THEOREM HoldsAreAccounted == Spec => []HoldsAccounted
<1>1. EvalInv => HoldsAccounted
    <2> SUFFICES ASSUME EvalInv
                 PROVE  HoldsAccounted
        OBVIOUS
    <2>1. Owed = OwedNow
        BY OwedIsOwing DEF EvalInv
    <2> QED
        BY <2>1 DEF EvalInv, Accounted, Balanced, HoldsAccounted
<1> QED
    BY <1>1, EvalInvHolds, PTL

(* When MainLoop::spin() returns TRUE to eval() and no error was thrown,   *)
(* no job waits, no file is read, no main module awaits and no main loop   *)
(* hook is left to run.                                                    *)
THEOREM NothingIsLeft == Spec => []NothingLeft
<1>1. EvalInv => NothingLeft
    BY NoneWaits DEF EvalInv, Settled, NothingLeft
<1> QED
    BY <1>1, EvalInvHolds, PTL

(* MainLoop::release() never finds a count of zero (its g_assert).         *)
THEOREM NeverOverReleased == Spec => []NotOverReleased
<1>1. EvalInv => NotOverReleased
    BY DEF EvalInv, Accounted, NotOverReleased
<1> QED
    BY <1>1, EvalInvHolds, PTL

-----------------------------------------------------------------------------
(* Without the debugger the queue implements Microtasks.  A drain takes    *)
(* the jobs from the front, so what it has blanked comes before what       *)
(* waits.                                                                  *)
TakenTo(q, b) ==
    /\ b \in 0..Len(q)
    /\ \A j \in 1..Len(q) : q[j] = Blank <=> j <= b

InOrder == \E b \in Nat : TakenTo(slots, b)

LEMMA NthLeft ==
    ASSUME NEW b \in Nat, NEW l \in Nat, b <= l, NEW n \in 1..(l - b)
    PROVE  Nth((b + 1)..l, n) = b + n
<1> DEFINE K == (b + 1)..l
<1>1. \A k \in K : Rank(K, k) = k - b
    <2> SUFFICES ASSUME NEW k \in K
                 PROVE  Rank(K, k) = k - b
        OBVIOUS
    <2>1. {j \in K : j <= k} = (b + 1)..k
        OBVIOUS
    <2>2. Cardinality((b + 1)..k) = k - b
        <3>1. b + 1 \in Int /\ k \in Int /\ b + 1 <= k
            OBVIOUS
        <3>2. Cardinality((b + 1)..k) = k - (b + 1) + 1
            BY <3>1, FS_Interval
        <3> QED
            BY <3>1, <3>2
    <2> QED
        BY <2>1, <2>2 DEF Rank
<1>2. b + n \in K /\ (b + n) - b = n
    OBVIOUS
<1>3. \A k \in K : k - b = n => k = b + n
    OBVIOUS
<1> HIDE DEF K
<1>4. \A k \in K : Rank(K, k) = n <=> k = b + n
    BY <1>1, <1>2, <1>3
<1> DEFINE c == CHOOSE k \in K : Rank(K, k) = n
<1>5. c \in K /\ Rank(K, c) = n
    BY <1>2, <1>4
<1>6. c = b + n
    BY <1>4, <1>5
<1> QED
    BY <1>6 DEF Nth, K

(* What waits is the end of the queue.                                     *)
LEMMA View ==
    ASSUME NEW q \in Queue, NEW b \in Nat, TakenTo(q, b)
    PROVE  /\ Ids(q) = [n \in 1..(Len(q) - b) |-> q[b + n].id]
           /\ Ids(q) \in Seq(Nat)
           /\ Len(Ids(q)) = Len(q) - b
<1>1. Len(q) \in Nat /\ \A j \in 1..Len(q) : q[j] \in AnyJob
    BY LenProperties DEF Queue
<1> DEFINE l == Len(q)
<1>2. l \in Nat /\ b <= l
    BY <1>1 DEF TakenTo
<1>3. Unstarted(q) = (b + 1)..l
    BY <1>1 DEF TakenTo, Unstarted
<1> HIDE DEF l
<1> DEFINE m == l - b
<1>4. m \in Nat
    BY <1>2
<1>5. Cardinality((b + 1)..l) = m
    <2>1. CASE b + 1 <= l
        <3>1. Cardinality((b + 1)..l) = l - (b + 1) + 1
            BY <1>2, <2>1, FS_Interval
        <3> QED
            BY <1>2, <3>1
    <2>2. CASE ~(b + 1 <= l)
        <3>1. (b + 1)..l = {} /\ l - b = 0
            BY <1>2, <2>2
        <3> QED
            BY <3>1, FS_EmptySet
    <2> QED
        BY <2>1, <2>2
<1>6. \A n \in 1..m : Nth((b + 1)..l, n) = b + n
    BY <1>2, NthLeft
<1> HIDE DEF m
<1> DEFINE w == [n \in 1..m |-> q[b + n]]
<1>7. Waiting(q) = w
    BY <1>3, <1>5, <1>6 DEF Waiting, Keep
<1>8. Len(w) = m /\ \A n \in 1..m : w[n] = q[b + n]
    BY <1>4
<1> HIDE DEF w
<1>9. Ids(q) = [n \in 1..m |-> q[b + n].id]
    BY <1>7, <1>8 DEF Ids
<1>10. \A n \in 1..m : q[b + n].id \in Nat
    <2>1. \A n \in 1..m : b + n \in 1..l
        BY <1>2 DEF m
    <2> QED
        BY <1>1, <2>1 DEF AnyJob, l
<1> DEFINE v == [n \in 1..m |-> q[b + n].id]
<1>11. v \in Seq(Nat) /\ Len(v) = m
    BY <1>4, <1>10
<1> HIDE DEF v
<1>12. Ids(q) = v
    BY <1>9 DEF v
<1>13. Ids(q) \in Seq(Nat) /\ Len(Ids(q)) = m
    BY <1>11, <1>12
<1> QED
    BY <1>9, <1>13 DEF m, l

LEMMA NoneTaken == TakenTo(<< >>, 0) /\ Ids(<< >>) = << >>
<1>1. << >> \in Queue /\ Len(<< >>) = 0
    BY DEF Queue
<1>2. TakenTo(<< >>, 0)
    BY <1>1 DEF TakenTo
<1>3. Ids(<< >>) \in Seq(Nat) /\ Len(Ids(<< >>)) = 0
    BY <1>1, <1>2, View
<1>4. Ids(<< >>) = << >>
    <2> DEFINE v == Ids(<< >>)
    <2>1. v \in Seq(Nat) /\ Len(v) = 0
        BY <1>3
    <2> HIDE DEF v
    <2>2. v = << >>
        BY <2>1, EmptySeq
    <2> QED
        BY <2>2 DEF v
<1> QED
    BY <1>2, <1>4

(* Microtasks!Enqueue                                                      *)
LEMMA ComesLast ==
    ASSUME NEW q \in Queue, NEW b \in Nat, TakenTo(q, b), NEW job \in AnyJob, job # Blank
    PROVE  /\ TakenTo(Append(q, job), b)
           /\ Ids(Append(q, job)) # << >>
           /\ Ids(q) = SubSeq(Ids(Append(q, job)), 1, Len(Ids(Append(q, job))) - 1)
<1> DEFINE t == Append(q, job)
           l == Len(q)
<1>1. t \in Queue /\ Len(t) = l + 1 /\ l \in Nat /\ b <= l
      /\ (\A j \in 1..l : t[j] = q[j]) /\ t[l + 1] = job
    BY AppendProperties, LenProperties DEF Queue, TakenTo
<1>2. \A j \in 1..l : q[j] = Blank <=> j <= b
    BY DEF TakenTo
<1> HIDE DEF t, l
<1>3. TakenTo(t, b)
    <2>1. \A j \in 1..(l + 1) : t[j] = Blank <=> j <= b
        BY <1>1, <1>2
    <2> QED
        BY <1>1, <2>1 DEF TakenTo
<1>4. /\ Ids(q) = [n \in 1..(l - b) |-> q[b + n].id]
      /\ Ids(q) \in Seq(Nat) /\ Len(Ids(q)) = l - b
    BY View DEF l
<1>5. /\ Ids(t) = [n \in 1..(Len(t) - b) |-> t[b + n].id]
      /\ Ids(t) \in Seq(Nat) /\ Len(Ids(t)) = Len(t) - b
    BY <1>1, <1>3, View
<1> DEFINE v == Ids(q)
           w == Ids(t)
           m == l - b
<1>6. m \in Nat /\ Len(t) - b = m + 1 /\ \A n \in 1..m : b + n \in 1..l
    BY <1>1
<1>7. v \in Seq(Nat) /\ Len(v) = m /\ \A n \in 1..m : v[n] = q[b + n].id
    BY <1>4
<1>8. w \in Seq(Nat) /\ Len(w) = m + 1 /\ \A n \in 1..m : w[n] = t[b + n].id
    BY <1>5, <1>6
<1> HIDE DEF v, w, m
<1>9. \A n \in 1..m : w[n] = v[n]
    BY <1>1, <1>6, <1>7, <1>8
<1>10. w # << >>
    BY <1>6, <1>8
<1>11. v = SubSeq(w, 1, Len(w) - 1)
    <2>1. Len(w) - 1 = m
        BY <1>6, <1>8
    <2>2. SubSeq(w, 1, m) \in Seq(Nat) /\ Len(SubSeq(w, 1, m)) = m
          /\ \A n \in 1..m : SubSeq(w, 1, m)[n] = w[n]
        BY <1>6, <1>8, SubSeqProperties
    <2> DEFINE u == SubSeq(w, 1, m)
    <2>3. u \in Seq(Nat) /\ Len(u) = Len(v) /\ \A n \in 1..Len(u) : v[n] = u[n]
        BY <1>7, <1>9, <2>2
    <2> HIDE DEF u
    <2>4. v = u
        BY <1>7, <2>3, SeqEqual
    <2> QED
        BY <2>1, <2>4 DEF u
<1> QED
    BY <1>3, <1>10, <1>11 DEF t, v, w

(* Microtasks!Start                                                        *)
LEMMA TakesFirst ==
    ASSUME NEW q \in Queue, NEW b \in Nat, TakenTo(q, b), NEW k \in 1..Len(q), q[k] # Blank,
           \A j \in 1..Len(q) : q[j] # Blank => k <= j
    PROVE  /\ TakenTo([q EXCEPT ![k] = Blank], b + 1)
           /\ Ids(q) # << >>
           /\ Ids([q EXCEPT ![k] = Blank]) = Tail(Ids(q))
<1> DEFINE t == [q EXCEPT ![k] = Blank]
           l == Len(q)
<1>0. l \in Nat /\ q \in [1..l -> AnyJob] /\ Blank \in AnyJob
    BY LenProperties DEF Queue, AnyJob, Blank, Tag
<1>1. t \in Queue /\ Len(t) = l /\ t[k] = Blank /\ \A j \in 1..l : j # k => t[j] = q[j]
    BY <1>0, ExceptSeq DEF Queue
<1>2. /\ b \in 0..l
      /\ \A j \in 1..l : q[j] = Blank <=> j <= b
      /\ k \in 1..l
    BY DEF TakenTo
<1>2a. \A j \in 1..l : q[j] # Blank => k <= j
    OBVIOUS
<1> HIDE DEF t, l
<1>3. k = b + 1
    <2>1. k > b
        BY <1>0, <1>2
    <2>2. b + 1 \in 1..l
        BY <1>0, <1>2, <2>1
    <2>3. q[b + 1] # Blank
        BY <1>2, <2>2
    <2> QED
        BY <1>0, <1>2, <1>2a, <2>1, <2>2, <2>3
<1>4. TakenTo(t, b + 1)
    <2>1. \A j \in 1..l : t[j] = Blank <=> j <= b + 1
        BY <1>0, <1>1, <1>2, <1>3
    <2>2. b + 1 \in 0..l
        BY <1>0, <1>2, <1>3
    <2> QED
        BY <1>1, <2>1, <2>2 DEF TakenTo
<1>5. /\ Ids(q) = [n \in 1..(l - b) |-> q[b + n].id]
      /\ Ids(q) \in Seq(Nat) /\ Len(Ids(q)) = l - b
    BY View DEF l
<1>6. /\ Ids(t) = [n \in 1..(l - (b + 1)) |-> t[(b + 1) + n].id]
      /\ Ids(t) \in Seq(Nat) /\ Len(Ids(t)) = l - (b + 1)
    <2>1. PICK c \in Nat : c = b + 1
        OBVIOUS
    <2>2. TakenTo(t, c)
        BY <1>4, <2>1
    <2>3. /\ Ids(t) = [n \in 1..(Len(t) - c) |-> t[c + n].id]
          /\ Ids(t) \in Seq(Nat) /\ Len(Ids(t)) = Len(t) - c
        BY <1>1, <2>2, View
    <2> QED
        BY <1>1, <2>1, <2>3
<1> DEFINE v == Ids(q)
           w == Ids(t)
           m == l - (b + 1)
<1>7. m \in Nat /\ l - b = m + 1
      /\ \A n \in 1..m : (b + 1) + n \in 1..l /\ (b + 1) + n # k /\ b + (n + 1) = (b + 1) + n
                         /\ n + 1 \in 1..(m + 1)
    BY <1>0, <1>2, <1>3
<1>8. v \in Seq(Nat) /\ Len(v) = m + 1 /\ \A n \in 1..(m + 1) : v[n] = q[b + n].id
    BY <1>5, <1>7
<1>9. w \in Seq(Nat) /\ Len(w) = m /\ \A n \in 1..m : w[n] = t[(b + 1) + n].id
    BY <1>6, <1>7
<1> HIDE DEF v, w, m
<1>10. \A n \in 1..m : w[n] = v[n + 1]
    <2> SUFFICES ASSUME NEW n \in 1..m
                 PROVE  w[n] = v[n + 1]
        OBVIOUS
    <2>1. /\ (b + 1) + n \in 1..l /\ (b + 1) + n # k /\ b + (n + 1) = (b + 1) + n
          /\ n + 1 \in 1..(m + 1)
        BY <1>7
    <2>2. w[n] = t[(b + 1) + n].id
        BY <1>9
    <2>3. v[n + 1] = q[b + (n + 1)].id
        BY <1>8, <2>1
    <2>4. t[(b + 1) + n] = q[(b + 1) + n]
        BY <1>1, <2>1
    <2> QED
        BY <2>1, <2>2, <2>3, <2>4
<1>11. v # << >>
    BY <1>7, <1>8
<1>12. Tail(v) \in Seq(Nat) /\ Len(Tail(v)) = Len(v) - 1
       /\ \A n \in 1..Len(Tail(v)) : Tail(v)[n] = v[n + 1]
    BY <1>8, <1>11, HeadTailProperties
<1> DEFINE u == Tail(v)
<1>13. u \in Seq(Nat) /\ Len(u) = Len(w) /\ \A n \in 1..Len(u) : u[n] = w[n]
    BY <1>7, <1>8, <1>9, <1>10, <1>12
<1> HIDE DEF u
<1>14. w = u
    BY <1>9, <1>13, SeqEqual
<1> QED
    BY <1>4, <1>11, <1>14 DEF t, u, v, w

(* A job, an import included, is being run.                                *)
Calls(s) == \E k \in 1..Len(s) : s[k].kind \in CalledKind

LEMMA CallsGrow ==
    ASSUME NEW s \in Seq(AnyFrame), NEW f \in AnyFrame
    PROVE  /\ <<f>> \o s \in Seq(AnyFrame)
           /\ Calls(<<f>> \o s) <=> f.kind \in CalledKind \/ Calls(s)
<1> DEFINE t == <<f>> \o s
<1>1. t \in Seq(AnyFrame)
    BY Pushed
<1>2. Above(t, f, s)
    BY PushedAbove
<1> HIDE DEF t
<1>3. /\ 1 \in 1..Len(t) /\ t[1] = f
      /\ \A i \in 1..Len(s) : i \in Nat /\ i + 1 \in 1..Len(t) /\ t[i + 1] = s[i]
      /\ \A i \in 1..Len(t) : i # 1 => i - 1 \in 1..Len(s) /\ t[i] = s[i - 1]
    BY <1>2, AboveShift
<1>4. Calls(t) <=> f.kind \in CalledKind \/ Calls(s)
    BY <1>3 DEF Calls
<1> QED
    BY <1>1, <1>4 DEF t

(* Without the debugger a job runs on a drain of its own, and there is     *)
(* one drain.                                                              *)
LEMMA NoneStopped ==
    ASSUME EvalInv, ~CanDebug
    PROVE  StopsOf(stack) = {}
BY DEF EvalInv, Sited, Located, Placed, Allowed, StopsOf

LEMMA OneCall ==
    ASSUME LoopInv, StopsOf(stack) = {}, NEW i \in 1..Len(stack), NEW j \in 1..Len(stack), i < j,
           stack[i].kind \in CalledKind \cup DrainKind
    PROVE  stack[j].kind \notin CalledKind
<1> SUFFICES ASSUME stack[j].kind \in CalledKind
             PROVE  FALSE
    OBVIOUS
<1>1. Len(stack) \in Nat
    BY LenProperties DEF LoopInv, LoopTypes
<1>2. j < Len(stack) /\ stack[j + 1].kind \in DrainKind
    BY DEF LoopInv, Sound, Nested
<1>3. stack[i].kind \in CalledKind => i < Len(stack) /\ stack[i + 1].kind \in DrainKind
    BY DEF LoopInv, Sound, Nested
<1>4. j + 1 \in DrainsOf(stack)
    BY <1>1, <1>2 DEF DrainsOf
<1>5. PICK d \in DrainsOf(stack) : d < j + 1
    <2>1. CASE stack[i].kind \in DrainKind
        <3>1. i \in DrainsOf(stack) /\ i < j + 1
            BY <1>1, <2>1 DEF DrainsOf
        <3> QED
            BY <3>1
    <2>2. CASE stack[i].kind \in CalledKind
        <3>1. i + 1 \in DrainsOf(stack) /\ i + 1 < j + 1
            BY <1>1, <1>3, <2>2 DEF DrainsOf
        <3> QED
            BY <3>1
    <2> QED
        BY <2>1, <2>2
<1>6. PICK k \in StopsOf(stack) : d < k /\ k < j + 1
    BY <1>4, <1>5 DEF LoopInv, Sound, Orderly, Separate
<1> QED
    BY <1>6

LEMMA UnderTop ==
    ASSUME LoopInv, StopsOf(stack) = {}, NEW f \in AnyFrame, NEW r \in Seq(AnyFrame),
           stack = <<f>> \o r, f.kind \in CalledKind \cup DrainKind
    PROVE  ~Calls(r)
<1>1. Above(stack, f, r)
    BY PushedAbove
<1>2. /\ 1 \in 1..Len(stack) /\ stack[1] = f
      /\ \A i \in 1..Len(r) : i \in Nat /\ i + 1 \in 1..Len(stack) /\ stack[i + 1] = r[i]
    BY <1>1, AboveShift
<1>3. ASSUME NEW i \in 1..Len(r), r[i].kind \in CalledKind
      PROVE  FALSE
    <2>1. i + 1 \in 1..Len(stack) /\ 1 < i + 1 /\ stack[i + 1].kind \in CalledKind
        BY <1>2, <1>3
    <2>2. stack[1].kind \in CalledKind \cup DrainKind
        BY <1>2
    <2> QED
        BY <1>2, <2>1, <2>2, OneCall
<1> QED
    BY <1>3 DEF Calls

(* A stack with a job on it when there is one now.                         *)
Similar(s) == s \in Seq(AnyFrame) /\ (Calls(s) <=> Calls(stack))

LEMMA SimilarSame == LoopInv => Similar(stack)
    BY DEF LoopInv, LoopTypes, Similar

LEMMA SimilarPush ==
    ASSUME NEW s, Similar(s), NEW g \in AnyFrame, g.kind \notin CalledKind
    PROVE  Similar(<<g>> \o s)
BY CallsGrow DEF Similar

LEMMA SimilarPlain ==
    ASSUME NEW s, Similar(s), NEW k \in Kind, k \notin CalledKind
    PROVE  Similar(<<Plain(k)>> \o s)
<1> DEFINE g == Plain(k)
<1>1. g \in AnyFrame /\ g.kind = k
    BY PlainFrame
<1> HIDE DEF g
<1>2. Similar(<<g>> \o s)
    BY <1>1, SimilarPush
<1> QED
    BY <1>2 DEF g

LEMMA SimilarPop ==
    ASSUME LoopInv, stack # << >>, Top.kind \notin CalledKind
    PROVE  Similar(Tail(stack))
<1>1. PICK f \in AnyFrame, r \in Seq(AnyFrame) :
          stack = <<f>> \o r /\ Top = f /\ Tail(stack) = r
    BY Split
<1>2. Calls(<<f>> \o r) <=> Calls(r)
    BY <1>1, CallsGrow
<1>3. Calls(stack) <=> Calls(r)
    BY <1>1, <1>2
<1> QED
    BY <1>1, <1>3 DEF Similar

LEMMA SimilarTop ==
    ASSUME LoopInv, stack # << >>, Top.kind \notin CalledKind, NEW g \in AnyFrame,
           g.kind \notin CalledKind
    PROVE  Similar(<<g>> \o Tail(stack))
BY SimilarPop, SimilarPush

LEMMA SimilarDrain ==
    ASSUME LoopInv, NEW s, Similar(s), NEW kind \in DrainKind, RunJobs(kind, s)
    PROVE  \E t : t = stack' /\ Similar(t)
<1> DEFINE g == [Plain(kind) EXCEPT !.tasks = IF slots = << >> THEN cleanups ELSE 0]
<1>1. Plain(kind) \in AnyFrame /\ Plain(kind).kind = kind
    BY PlainFrame DEF Kind
<1>2. cleanups \in Nat
    BY DEF LoopInv, LoopTypes
<1>3. g \in AnyFrame /\ g.kind = kind
    BY <1>1, <1>2 DEF AnyFrame
<1>4. stack' = <<g>> \o s
    BY DEF RunJobs
<1> HIDE DEF g
<1>5. g.kind \notin CalledKind
    BY <1>3 DEF DrainKind, CalledKind
<1> QED
    BY <1>3, <1>4, <1>5, SimilarPush

LEMMA SimilarLoop ==
    ASSUME LoopInv, On(LoopKind)
    PROVE  \E s : s = Iterated /\ Similar(s)
<1>1. stack # << >> /\ Top.kind \in LoopKind
    BY DEF On
<1>2. Top.kind \notin CalledKind
    BY <1>1 DEF LoopKind, CalledKind
<1>3. CASE Top.kind # "spin"
    BY <1>3, SimilarSame DEF Iterated
<1>4. CASE Top.kind = "spin"
    <2>1. PICK f \in AnyFrame, r \in Seq(AnyFrame) : Top = f /\ Tail(stack) = r
        BY <1>1, Split
    <2> DEFINE g == [f EXCEPT !.kind = "spincheck"]
    <2>2. g \in AnyFrame /\ g.kind = "spincheck"
        BY DEF AnyFrame, Kind
    <2>3. Iterated = <<g>> \o Tail(stack)
        BY <1>4, <2>1 DEF Iterated, Becomes
    <2> HIDE DEF g
    <2>4. Similar(<<g>> \o Tail(stack))
        BY <1>1, <1>2, <2>2, SimilarTop DEF CalledKind
    <2> QED
        BY <2>3, <2>4
<1> QED
    BY <1>3, <1>4

-----------------------------------------------------------------------------
(* What a step of the program does to the queue, to the job that runs and  *)
(* to what says that the program has exited.                               *)
Exited == shouldExit \/ over
StaysIn == Exited' <=> Exited

Unseen == slots' = slots /\ Similar(stack') /\ StaysIn
Comes ==
    /\ \E job \in AnyJob : job # Blank /\ slots' = Append(slots, job)
    /\ Similar(stack') /\ StaysIn
Taken ==
    /\ \E k \in 1..Len(slots) :
          /\ slots[k] # Blank
          /\ \A j \in 1..Len(slots) : slots[j] # Blank => k <= j
          /\ slots' = [slots EXCEPT ![k] = Blank]
    /\ ~Calls(stack) /\ ~Exited /\ StaysIn
Returns == slots' = slots /\ Calls(stack) /\ ~Calls(stack') /\ StaysIn
Exits == slots' = slots /\ Exited' /\ (Calls(stack') => Calls(stack))
Drops == slots' = << >> /\ Similar(stack') /\ StaysIn /\ (Exited \/ JobsOf(slots) = {})
Goes == slots' = << >> /\ ~Calls(stack) /\ ~Calls(stack') /\ Exited'
Anew == slots' = slots /\ ~Calls(stack) /\ ~Calls(stack') /\ ~Exited'

Moves == Unseen \/ Comes \/ Taken \/ Returns \/ Exits \/ Drops \/ Goes \/ Anew

LEMMA NoCallOnNothing == ~Calls(<< >>)
    BY DEF Calls

LEMMA UnseenSteps ==
    ASSUME LoopInv,
           \/ QueueCleanup \/ SetHook \/ Reject \/ BecomesDue \/ Over
           \/ Import("none") \/ Import("pending")
           \/ UNCHANGED vars
    PROVE  Unseen
<1>1. stack' = stack /\ slots' = slots /\ shouldExit' = shouldExit /\ over' = over
    BY DEF QueueCleanup, SetHook, Reject, Import, BecomesDue, Over, vars, jsUnchanged, queueVars,
           flagVars
<1> QED
    BY <1>1, SimilarSame DEF Unseen, StaysIn, Exited

LEMMA CallingSteps ==
    ASSUME LoopInv, Nest \/ HostLoop \/ RunHook \/ (\E m \in {"script", "module"} : Eval(m))
    PROVE  Unseen
<1>1. slots' = slots /\ shouldExit' = shouldExit /\ over' = over
    BY DEF Nest, HostLoop, RunHook, Eval, queueVars, flagVars
<1>2. PICK k \in {"nested", "hook", "script"} :
          stack' = <<Plain(k)>> \o stack \/ (stack = << >> /\ stack' = <<Plain(k)>>)
    BY DEF Nest, HostLoop, RunHook, Eval, InEval, Push
<1>3. k \in Kind /\ k \notin CalledKind
    BY DEF Kind, JSKind, LoopKind, CalledKind
<1>4. Plain(k) \in AnyFrame
    BY <1>3, PlainFrame
<1>5. stack' = <<Plain(k)>> \o stack
    <2>1. CASE stack = << >> /\ stack' = <<Plain(k)>>
        <3>1. <<Plain(k)>> \in Seq(AnyFrame)
            BY <1>4
        <3>2. <<Plain(k)>> \o << >> = <<Plain(k)>>
            BY <3>1
        <3> QED
            BY <2>1, <3>2
    <2> QED
        BY <1>2, <2>1
<1>6. Similar(stack')
    BY <1>3, <1>5, SimilarSame, SimilarPlain
<1> QED
    BY <1>1, <1>6 DEF Unseen, StaysIn, Exited

LEMMA EnqueueingSteps ==
    ASSUME LoopInv,
           \/ Enqueue \/ Import("settled")
           \/ \E tag \in {"resolved", "rejected"} : SettleMain(tag)
    PROVE  Comes
<1>1. stack' = stack /\ shouldExit' = shouldExit /\ over' = over
    BY DEF Enqueue, Import, SettleMain, jsUnchanged
<1>2. PICK t \in Tag : slots' = Append(slots, [id |-> born + 1, tag |-> t])
    BY DEF Enqueue, Import, SettleMain, EnqueueJob, Tag
<1>3. [id |-> born + 1, tag |-> t] \in AnyJob /\ [id |-> born + 1, tag |-> t] # Blank
    <2>1. born \in Nat
        BY DEF LoopInv, LoopTypes
    <2>2. born + 1 \in Nat /\ born + 1 # 0
        BY <2>1
    <2> QED
        BY <2>2 DEF AnyJob, Blank
<1> QED
    BY <1>1, <1>2, <1>3, SimilarSame DEF Comes, StaysIn, Exited

LEMMA IteratingSteps ==
    ASSUME LoopInv, DispatchCallback \/ NothingPending \/ DispatchJobs
    PROVE  Unseen
<1>1. slots' = slots /\ shouldExit' = shouldExit /\ over' = over
    BY DEF DispatchCallback, NothingPending, DispatchJobs, queueVars, flagVars
<1>2. On(LoopKind)
    BY DEF DispatchCallback, NothingPending, DispatchJobs, Iterates
<1>3. PICK s : s = Iterated /\ Similar(s)
    BY <1>2, SimilarLoop
<1>4. stack' = s \/ stack' = <<Plain("callback")>> \o s \/ RunJobs("dispatch", s)
    BY <1>3 DEF DispatchCallback, NothingPending, DispatchJobs
<1>5. CASE stack' = s
    BY <1>1, <1>3, <1>5 DEF Unseen, StaysIn, Exited
<1>6. CASE stack' = <<Plain("callback")>> \o s
    <2>1. "callback" \in Kind /\ "callback" \notin CalledKind
        BY DEF Kind, JSKind, CalledKind
    <2>2. Similar(stack')
        BY <1>3, <1>6, <2>1, SimilarPlain
    <2> QED
        BY <1>1, <2>2 DEF Unseen, StaysIn, Exited
<1>7. CASE RunJobs("dispatch", s)
    <2>1. Similar(stack')
        BY <1>3, <1>7, SimilarDrain DEF DrainKind
    <2> QED
        BY <1>1, <2>1 DEF Unseen, StaysIn, Exited
<1> QED
    BY <1>4, <1>5, <1>6, <1>7

LEMMA LoadSteps ==
    ASSUME LoopInv, LoadFinished
    PROVE  Comes
<1>1. shouldExit' = shouldExit /\ over' = over /\ stack' = Iterated /\ On(LoopKind)
    BY DEF LoadFinished, Iterates
<1>2. PICK s : s = Iterated /\ Similar(s)
    BY <1>1, SimilarLoop
<1>3. slots' = Append(slots, [id |-> born + 1, tag |-> "import"])
    BY DEF LoadFinished, EnqueueJob
<1>4. [id |-> born + 1, tag |-> "import"] \in AnyJob /\ [id |-> born + 1, tag |-> "import"] # Blank
    <2>1. born \in Nat
        BY DEF LoopInv, LoopTypes
    <2>2. born + 1 \in Nat /\ born + 1 # 0
        BY <2>1
    <2> QED
        BY <2>2 DEF AnyJob, Blank, Tag
<1>5. Similar(stack')
    BY <1>1, <1>2
<1> QED
    BY <1>1, <1>3, <1>4, <1>5 DEF Comes, StaysIn, Exited

LEMMA DrainingSteps ==
    ASSUME LoopInv, DrainMicrotaskQueue \/ RunTask \/ DrainOnError
    PROVE  Unseen
<1>1. slots' = slots /\ shouldExit' = shouldExit /\ over' = over
    BY DEF DrainMicrotaskQueue, RunTask, DrainOnError, drainUnchanged
<1>2. Similar(stack')
    <2>1. CASE RunJobs("drain", stack) \/ RunJobs("evaldrain", stack)
        BY <2>1, SimilarSame, SimilarDrain DEF DrainKind
    <2>2. CASE stack' = stack
        BY <2>2, SimilarSame
    <2>3. CASE RunTask
        <3>1. stack # << >> /\ Top.kind \in DrainKind
            BY <2>3 DEF RunTask, On
        <3>2. Top.kind \notin CalledKind
            BY <3>1 DEF DrainKind, CalledKind
        <3>3. PICK f \in AnyFrame, r \in Seq(AnyFrame) :
                  stack = <<f>> \o r /\ Top = f /\ Tail(stack) = r
            BY <3>1, Split
        <3> DEFINE g == [f EXCEPT !.tasks = @ - 1]
        <3>4. f.tasks \in Nat /\ f.tasks > 0
            BY <2>3, <3>3 DEF RunTask, AnyFrame
        <3>5. f.tasks - 1 \in Nat
            BY <3>4
        <3>6. g \in AnyFrame /\ g.kind = f.kind
            BY <3>5 DEF AnyFrame
        <3>7. stack' = <<Plain("cleanup"), g>> \o Tail(stack)
            BY <2>3, <3>3 DEF RunTask
        <3> HIDE DEF g
        <3>8. "cleanup" \in Kind /\ "cleanup" \notin CalledKind
            BY DEF Kind, JSKind, CalledKind
        <3>9. Plain("cleanup") \in AnyFrame
            BY <3>8, PlainFrame
        <3>10. <<Plain("cleanup"), g>> \o Tail(stack) = <<Plain("cleanup")>> \o (<<g>> \o Tail(stack))
            BY <3>3, <3>6, <3>9, TwoOnTop
        <3>11. Similar(<<g>> \o Tail(stack))
            BY <3>1, <3>2, <3>3, <3>6, SimilarTop
        <3>12. Similar(<<Plain("cleanup")>> \o (<<g>> \o Tail(stack)))
            BY <3>8, <3>11, SimilarPlain
        <3> QED
            BY <3>7, <3>10, <3>12
    <2> QED
        BY <2>1, <2>2, <2>3 DEF DrainMicrotaskQueue, DrainOnError
<1> QED
    BY <1>1, <1>2 DEF Unseen, StaysIn, Exited

(* A job is started with no other on the stack, and it is the first.       *)
LEMMA StartingSteps ==
    ASSUME Standing, StopsOf(stack) = {}, RunJob
    PROVE  Taken
<1>1. /\ On(DrainKind) /\ ~shouldExit /\ ~over /\ shouldExit' = shouldExit /\ over' = over
    BY DEF RunJob, MayRunJob, On, Going, drainUnchanged
<1>2. PICK f \in AnyFrame, r \in Seq(AnyFrame) :
          stack = <<f>> \o r /\ Top = f /\ f.kind \in DrainKind /\ Passed(f, slots)
    BY <1>1, DrainTop
<1>3. PICK k \in LeftSlots :
          (\A l \in LeftSlots : k <= l) /\ slots' = [slots EXCEPT ![k] = Blank]
    BY DEF RunJob
<1>4. f.ix \in Nat /\ Len(slots) \in Nat
    BY LenProperties DEF AnyFrame, Standing, EvalInv, LoopInv, LoopTypes, Queue
<1>5. \A j \in 1..Len(slots) : slots[j] # Blank => j \in LeftSlots
    <2> SUFFICES ASSUME NEW j \in 1..Len(slots), slots[j] # Blank
                 PROVE  j \in LeftSlots
        OBVIOUS
    <2>1. ~(j <= f.ix)
        BY <1>2, <1>4 DEF Passed
    <2> QED
        BY <1>2, <1>4, <2>1 DEF LeftSlots
<1>6. k \in 1..Len(slots) /\ slots[k] # Blank
    BY <1>2, <1>3, <1>4 DEF LeftSlots
<1>7. ~Calls(r)
    BY <1>2, UnderTop DEF Standing, EvalInv
<1>8. Calls(<<f>> \o r) <=> f.kind \in CalledKind \/ Calls(r)
    BY CallsGrow
<1>9. ~Calls(stack)
    BY <1>2, <1>7, <1>8 DEF DrainKind, CalledKind
<1> QED
    BY <1>1, <1>3, <1>5, <1>6, <1>9 DEF Taken, StaysIn, Exited

LEMMA EndingSteps ==
    ASSUME Standing, DrainEnd
    PROVE  Drops
<1>1. /\ stack # << >> /\ Top.kind \in DrainKind /\ slots' = << >> /\ stack' = Tail(stack)
      /\ shouldExit' = shouldExit /\ over' = over
    BY DEF DrainEnd, On, drainUnchanged
<1>2. Top.kind \notin CalledKind
    BY <1>1 DEF DrainKind, CalledKind
<1>3. Similar(stack')
    BY <1>1, <1>2, SimilarPop DEF Standing, EvalInv
<1>4. shouldExit \/ JobsOf(slots) = {}
    BY DrainedAll
<1> QED
    BY <1>1, <1>3, <1>4 DEF Drops, StaysIn, Exited

LEMMA SpinningSteps ==
    ASSUME LoopInv, BeginSpin \/ SpinCheck \/ NestedEnds
    PROVE  Unseen
<1>1. slots' = slots /\ shouldExit' = shouldExit /\ over' = over
    BY DEF BeginSpin, SpinCheck, NestedEnds, spinUnchanged, queueVars, flagVars
<1>2. CASE BeginSpin
    <2>1. stack' = stack \/ (stack = << >> /\ stack' = <<Plain("spin")>>)
        BY <1>2 DEF BeginSpin, InEval
    <2>2. Similar(stack')
        <3>1. CASE stack' = stack
            BY <3>1, SimilarSame
        <3>2. CASE stack = << >> /\ stack' = <<Plain("spin")>>
            <4>1. "spin" \in Kind /\ "spin" \notin CalledKind
                BY DEF Kind, LoopKind, CalledKind
            <4>2. Plain("spin") \in AnyFrame
                BY <4>1, PlainFrame
            <4>3. <<Plain("spin")>> \o << >> = <<Plain("spin")>>
                BY <4>2
            <4>4. Similar(<<Plain("spin")>> \o stack)
                BY <4>1, SimilarSame, SimilarPlain
            <4> QED
                BY <3>2, <4>3, <4>4
        <3> QED
            BY <2>1, <3>1, <3>2
    <2> QED
        BY <1>1, <2>2 DEF Unseen, StaysIn, Exited
<1>3. CASE SpinCheck \/ NestedEnds
    <2>1. /\ stack # << >> /\ Top.kind \in {"spincheck", "nested"}
          /\ stack' = Tail(stack) \/ stack' = Becomes("spin")
        BY <1>3 DEF SpinCheck, NestedEnds, On
    <2>2. Top.kind \notin CalledKind
        BY <2>1 DEF CalledKind
    <2>3. Similar(stack')
        <3>1. CASE stack' = Tail(stack)
            BY <2>1, <2>2, <3>1, SimilarPop
        <3>2. CASE stack' = Becomes("spin")
            <4>1. PICK f \in AnyFrame, r \in Seq(AnyFrame) : Top = f /\ Tail(stack) = r
                BY <2>1, Split
            <4> DEFINE g == [f EXCEPT !.kind = "spin"]
            <4>2. g \in AnyFrame /\ g.kind = "spin"
                BY DEF AnyFrame, Kind, LoopKind
            <4>3. stack' = <<g>> \o Tail(stack)
                BY <3>2, <4>1 DEF Becomes
            <4> HIDE DEF g
            <4>4. Similar(<<g>> \o Tail(stack))
                BY <2>1, <2>2, <4>2, SimilarTop DEF CalledKind
            <4> QED
                BY <4>3, <4>4
        <3> QED
            BY <2>1, <3>1, <3>2
    <2> QED
        BY <1>1, <2>3 DEF Unseen, StaysIn, Exited
<1> QED
    BY <1>2, <1>3

LEMMA EvaluatingSteps ==
    ASSUME LoopInv, NEW settled \in {"resolved", "rejected", "pending"}, ModuleEvaluated(settled)
    PROVE  Unseen \/ Comes
<1>1. /\ stack # << >> /\ Top.kind = "script" /\ stack' = Tail(stack)
      /\ shouldExit' = shouldExit /\ over' = over
    BY DEF ModuleEvaluated, On, flagVars
<1>2. Similar(stack')
    BY <1>1, SimilarPop DEF CalledKind
<1>3. CASE settled = "pending"
    BY <1>1, <1>2, <1>3 DEF ModuleEvaluated, queueVars, Unseen, StaysIn, Exited
<1>4. CASE settled # "pending"
    <2>1. slots' = Append(slots, [id |-> born + 1, tag |-> settled])
        BY <1>4 DEF ModuleEvaluated, EnqueueJob
    <2>2. [id |-> born + 1, tag |-> settled] \in AnyJob /\ [id |-> born + 1, tag |-> settled] # Blank
        <3>1. born \in Nat
            BY DEF LoopInv, LoopTypes
        <3>2. born + 1 \in Nat /\ born + 1 # 0
            BY <3>1
        <3> QED
            BY <1>4, <3>2 DEF AnyJob, Blank, Tag
    <2> QED
        BY <1>1, <1>2, <2>1, <2>2 DEF Comes, StaysIn, Exited
<1> QED
    BY <1>3, <1>4

(* JavaScript of the program ends: it was called, or it was the job.       *)
LEMMA LeavingSteps ==
    ASSUME LoopInv, StopsOf(stack) = {}, JSRuns, NEW o, Leave(stack, o)
    PROVE  \/ Similar(stack') /\ (o # "kill" => over' = FALSE)
           \/ Calls(stack) /\ ~Calls(stack') /\ over' = FALSE
<1>1. stack # << >> /\ Top.kind \in JSKind
    BY DEF JSRuns, On
<1>2. PICK f \in AnyFrame, r \in Seq(AnyFrame) :
          stack = <<f>> \o r /\ Top = f /\ Tail(stack) = r
    BY <1>1, Split
<1>3. /\ over' = (f.kind = "callback" /\ o = "kill")
      /\ f.kind \in CalledKind => stack' = NextTasks(r, o)
      /\ f.kind \notin CalledKind \cup {"debugger"} => stack' = r
    BY <1>2 DEF Leave, Top, CalledKind
<1>4. f.kind # "debugger"
    <2>1. Above(stack, f, r)
        BY <1>2, PushedAbove
    <2>2. 1 \in StopsOf(stack) <=> f.kind \in StopKind
        BY <2>1, Shift
    <2> QED
        BY <2>2 DEF StopKind
<1>5. CASE f.kind \in CalledKind
    <2>1. ~Calls(r)
        BY <1>2, <1>5, UnderTop
    <2>2. Calls(<<f>> \o r) <=> f.kind \in CalledKind \/ Calls(r)
        BY CallsGrow
    <2>3. Calls(stack)
        BY <1>2, <1>5, <2>2
    <2>4. r # << >> /\ Head(r).kind \in DrainKind
        <3>1. Sound(<<f>> \o r, draining, slots) /\ draining \in BOOLEAN
            BY <1>2 DEF LoopInv, LoopTypes
        <3> QED
            BY <1>5, <3>1, WithCalled
    <2>5. PICK g \in AnyFrame, u \in Seq(AnyFrame) : Head(r) = g /\ Tail(r) = u /\ r = <<g>> \o u
        BY <2>4, TopAndRest
    <2>6. PICK n \in Nat : n = IF o = "kill" THEN 0 ELSE cleanups
        BY DEF LoopInv, LoopTypes
    <2> DEFINE h == [g EXCEPT !.tasks = n]
    <2>7. h \in AnyFrame /\ h.kind = g.kind
        BY DEF AnyFrame
    <2>8. stack' = <<h>> \o u
        BY <1>3, <1>5, <2>5, <2>6 DEF NextTasks
    <2> HIDE DEF h
    <2>9. Calls(<<g>> \o u) <=> g.kind \in CalledKind \/ Calls(u)
        BY CallsGrow
    <2>10. Calls(<<h>> \o u) <=> h.kind \in CalledKind \/ Calls(u)
        BY <2>7, CallsGrow
    <2>11. ~Calls(<<h>> \o u)
        BY <2>1, <2>5, <2>7, <2>9, <2>10
    <2>12. ~Calls(stack')
        BY <2>8, <2>11
    <2>13. over' = FALSE
        BY <1>3, <1>5 DEF CalledKind
    <2> QED
        BY <2>3, <2>12, <2>13
<1>6. CASE f.kind \notin CalledKind
    <2>1. stack' = Tail(stack)
        BY <1>2, <1>3, <1>4, <1>6
    <2>2. Similar(stack')
        BY <1>1, <1>2, <1>6, <2>1, SimilarPop
    <2>3. o # "kill" => over' = FALSE
        BY <1>3
    <2> QED
        BY <2>2, <2>3
<1> QED
    BY <1>5, <1>6

LEMMA ReturningSteps ==
    ASSUME LoopInv, StopsOf(stack) = {}, NEW o \in {"ok", "throw"}, Return(o)
    PROVE  Unseen \/ Returns
<1>1. JSRuns /\ Leave(stack, o) /\ slots' = slots /\ shouldExit' = shouldExit /\ ~over /\ o # "kill"
    BY DEF Return, queueVars, JSRuns, On, Going
<1> QED
    BY <1>1, LeavingSteps DEF Unseen, Returns, StaysIn, Exited

LEMMA ExitingSteps ==
    ASSUME LoopInv, StopsOf(stack) = {}, Exit
    PROVE  Unseen \/ Exits
<1>1. JSRuns /\ slots' = slots
    BY DEF Exit, queueVars
<1>2. CASE shouldExit
    <2>1. stack' = stack /\ shouldExit' = shouldExit
        BY <1>2 DEF Exit
    <2> QED
        BY <1>1, <1>2, <2>1, SimilarSame DEF Exits, Exited, Similar
<1>3. CASE ~shouldExit
    <2>1. shouldExit' = TRUE /\ Leave(stack, "kill")
        BY <1>3 DEF Exit
    <2>2. Calls(stack') => Calls(stack)
        BY <1>1, <2>1, LeavingSteps DEF Similar
    <2> QED
        BY <1>1, <2>1, <2>2 DEF Exits, Exited
<1> QED
    BY <1>2, <1>3

LEMMA PlaceSteps ==
    ASSUME LoopInv, HandleExitCode \/ Dispose
    PROVE  Anew \/ Goes
<1>1. stack = << >> /\ stack' = stack /\ ~over
    BY DEF HandleExitCode, Dispose, InEval, Going
<1>2. ~Calls(stack) /\ ~Calls(stack')
    BY <1>1, NoCallOnNothing
<1>3. CASE HandleExitCode
    <2>1. slots' = slots /\ shouldExit' = FALSE /\ over' = over
        BY <1>3 DEF HandleExitCode, queueVars
    <2> QED
        BY <1>1, <1>2, <2>1 DEF Anew, Exited
<1>4. CASE Dispose
    <2>1. slots' = << >> /\ over' = TRUE
        BY <1>4 DEF Dispose
    <2> QED
        BY <1>2, <2>1 DEF Goes, Exited
<1> QED
    BY <1>3, <1>4

LEMMA EachMoves ==
    ASSUME EvalInv, ~CanDebug, [Next]_vars
    PROVE  Moves
<1>1. LoopInv /\ Standing /\ StopsOf(stack) = {}
    BY NoneStopped, StepKeepsLoopInv DEF Standing, EvalInv
<1>2. CASE JSStep
    <2>1. ~Interrupt
        BY DEF Interrupt
    <2>2. CASE Enqueue \/ \E tag \in {"resolved", "rejected"} : SettleMain(tag)
        BY <1>1, <2>2, EnqueueingSteps DEF Moves
    <2>3. CASE QueueCleanup \/ SetHook \/ Reject
        BY <1>1, <2>3, UnseenSteps DEF Moves
    <2>7. CASE \E promise \in {"none", "settled", "pending"} : Import(promise)
        BY <1>1, <2>7, UnseenSteps, EnqueueingSteps DEF Moves
    <2>4. CASE DrainMicrotaskQueue \/ Nest
        BY <1>1, <2>4, DrainingSteps, CallingSteps DEF Moves
    <2>5. CASE Exit \/ \E o \in {"ok", "throw"} : Return(o)
        BY <1>1, <2>5, ExitingSteps, ReturningSteps DEF Moves
    <2>6. CASE \E s \in {"resolved", "rejected", "pending"} : ModuleEvaluated(s)
        BY <1>1, <2>6, EvaluatingSteps DEF Moves
    <2> QED
        BY <1>2, <2>1, <2>2, <2>3, <2>4, <2>5, <2>6, <2>7 DEF JSStep
<1>3. CASE DrainStep
    <2>1. ASSUME DebuggerJobs \/ Resume
          PROVE  FALSE
        <3>1. stack # << >> /\ Top.kind \in StopKind
            BY <2>1 DEF DebuggerJobs, Resume, On, StopKind
        <3>2. PICK f \in AnyFrame, r \in Seq(AnyFrame) : stack = <<f>> \o r /\ Top = f
            BY <1>1, <3>1, Split
        <3>3. Above(stack, f, r)
            BY <3>2, PushedAbove
        <3>4. 1 \in StopsOf(stack) <=> f.kind \in StopKind
            BY <3>3, Shift
        <3> QED
            BY <1>1, <3>1, <3>2, <3>4
    <2> QED
        BY <1>1, <1>3, <2>1, DrainingSteps, StartingSteps, EndingSteps DEF DrainStep, Moves
<1>4. CASE LoopStep
    BY <1>1, <1>4, IteratingSteps, LoadSteps, UnseenSteps, SpinningSteps DEF LoopStep, Moves
<1>5. CASE EvalStep
    BY <1>1, <1>5, SpinningSteps, CallingSteps, DrainingSteps, PlaceSteps DEF EvalStep, Moves
<1>6. CASE Over \/ UNCHANGED vars
    BY <1>1, <1>6, UnseenSteps DEF Moves
<1> QED
    BY <1>2, <1>3, <1>4, <1>5, <1>6 DEF Next

-----------------------------------------------------------------------------
(* Each of these is a step of Microtasks.                                  *)
LEMMA StaysInOrder ==
    ASSUME LoopInv, InOrder, Moves
    PROVE  InOrder'
<1>1. slots \in Queue
    BY DEF LoopInv, LoopTypes
<1>2. PICK b \in Nat : TakenTo(slots, b)
    BY DEF InOrder
<1>3. \E c \in Nat : TakenTo(slots', c)
    <2>1. CASE slots' = slots
        BY <1>2, <2>1
    <2>2. CASE slots' = << >>
        BY <2>2, NoneTaken
    <2>3. CASE Comes
        <3>1. PICK job \in AnyJob : job # Blank /\ slots' = Append(slots, job)
            BY <2>3 DEF Comes
        <3> QED
            BY <1>1, <1>2, <3>1, ComesLast
    <2>4. CASE Taken
        <3>1. PICK k \in 1..Len(slots) :
                  /\ slots[k] # Blank
                  /\ \A j \in 1..Len(slots) : slots[j] # Blank => k <= j
                  /\ slots' = [slots EXCEPT ![k] = Blank]
            BY <2>4 DEF Taken
        <3>2. TakenTo([slots EXCEPT ![k] = Blank], b + 1)
            BY <1>1, <1>2, <3>1, TakesFirst
        <3> QED
            BY <3>1, <3>2
    <2> QED
        BY <2>1, <2>2, <2>3, <2>4 DEF Moves, Unseen, Returns, Exits, Drops, Goes, Anew
<1> QED
    BY <1>3 DEF InOrder

LEMMA NothingWaits ==
    ASSUME NEW q \in Queue, NEW b \in Nat, TakenTo(q, b), JobsOf(q) = {}
    PROVE  Ids(q) = << >>
<1>1. Len(q) \in Nat /\ b <= Len(q) /\ b \in 0..Len(q)
    BY LenProperties DEF TakenTo, Queue
<1>2. \A j \in 1..Len(q) : q[j] = Blank
    BY DEF JobsOf
<1>3. Len(q) = b
    <2> SUFFICES ASSUME b < Len(q)
                 PROVE  FALSE
        BY <1>1
    <2>1. b + 1 \in 1..Len(q)
        BY <1>1
    <2>2. b + 1 <= b
        BY <1>2, <2>1 DEF TakenTo
    <2> QED
        BY <2>2
<1>4. Ids(q) \in Seq(Nat) /\ Len(Ids(q)) = Len(q) - b
    BY View
<1> DEFINE v == Ids(q)
<1>5. v \in Seq(Nat) /\ Len(v) = 0
    BY <1>1, <1>3, <1>4
<1> HIDE DEF v
<1>6. v = << >>
    BY <1>5, EmptySeq
<1> QED
    BY <1>6 DEF v

LEMMA StepImplements ==
    ASSUME LoopInv, InOrder, Moves
    PROVE  [Microtask!Next]_(Microtask!mtVars)
<1>1. slots \in Queue
    BY DEF LoopInv, LoopTypes
<1>2. PICK b \in Nat : TakenTo(slots, b)
    BY DEF InOrder
<1>3. (JobRuns <=> Calls(stack)) /\ (JobRuns' <=> Calls(stack'))
    BY DEF JobRuns, Calls, CalledKind
<1>3a. JobRuns \in BOOLEAN /\ JobRuns' \in BOOLEAN
    BY DEF JobRuns
<1>3b. ASSUME Calls(stack') <=> Calls(stack)
       PROVE  JobRuns' = JobRuns
    BY <1>3, <1>3a, <1>3b
<1>4. CASE Unseen
    <2>1. Ids(slots)' = Ids(slots)
        BY <1>4 DEF Unseen
    <2>2. JobRuns' = JobRuns /\ (shouldExit \/ over)' = (shouldExit \/ over)
        BY <1>3b, <1>4 DEF Unseen, Similar, StaysIn, Exited
    <2> QED
        BY <2>1, <2>2 DEF Microtask!mtVars
<1>5. CASE Comes
    <2>1. PICK job \in AnyJob : job # Blank /\ slots' = Append(slots, job)
        BY <1>5 DEF Comes
    <2>2. /\ Ids(Append(slots, job)) # << >>
          /\ Ids(slots) = SubSeq(Ids(Append(slots, job)), 1, Len(Ids(Append(slots, job))) - 1)
        BY <1>1, <1>2, <2>1, ComesLast
    <2>3. Ids(slots)' # << >> /\ Ids(slots) = SubSeq(Ids(slots)', 1, Len(Ids(slots)') - 1)
        BY <2>1, <2>2
    <2>4. JobRuns' = JobRuns /\ (shouldExit \/ over)' = (shouldExit \/ over)
        BY <1>3b, <1>5 DEF Comes, Similar, StaysIn, Exited
    <2> QED
        BY <2>3, <2>4 DEF Microtask!Next, Microtask!Enqueue
<1>6. CASE Taken
    <2>1. PICK k \in 1..Len(slots) :
              /\ slots[k] # Blank
              /\ \A j \in 1..Len(slots) : slots[j] # Blank => k <= j
              /\ slots' = [slots EXCEPT ![k] = Blank]
        BY <1>6 DEF Taken
    <2>2. Ids(slots) # << >> /\ Ids([slots EXCEPT ![k] = Blank]) = Tail(Ids(slots))
        BY <1>1, <1>2, <2>1, TakesFirst
    <2>3. Ids(slots)' = Tail(Ids(slots))
        BY <2>1, <2>2
    <2>4. ~JobRuns /\ ~(shouldExit \/ over) /\ (shouldExit \/ over)' = (shouldExit \/ over)
        BY <1>3, <1>6 DEF Taken, StaysIn, Exited
    <2>5. JobRuns' \in BOOLEAN
        BY DEF JobRuns
    <2> QED
        BY <2>2, <2>3, <2>4, <2>5 DEF Microtask!Next, Microtask!Start
<1>7. CASE Returns
    <2>1. Ids(slots)' = Ids(slots)
        BY <1>7 DEF Returns
    <2>2. JobRuns /\ ~JobRuns' /\ (shouldExit \/ over)' = (shouldExit \/ over)
        BY <1>3, <1>7 DEF Returns, StaysIn, Exited
    <2> QED
        BY <2>1, <2>2 DEF Microtask!Next, Microtask!Finish
<1>8. CASE Exits
    <2>1. Ids(slots)' = Ids(slots)
        BY <1>8 DEF Exits
    <2>2. (JobRuns' => JobRuns) /\ (shouldExit \/ over)' = TRUE
        BY <1>3, <1>8 DEF Exits, Exited
    <2> QED
        BY <2>1, <2>2 DEF Microtask!Next, Microtask!Exit
<1>9. CASE Drops
    <2>1. Ids(slots)' = << >>
        BY <1>9, NoneTaken DEF Drops
    <2>2. JobRuns' = JobRuns /\ (shouldExit \/ over)' = (shouldExit \/ over)
        BY <1>3b, <1>9 DEF Drops, Similar, StaysIn, Exited
    <2>3. CASE shouldExit \/ over
        BY <2>1, <2>2, <2>3 DEF Microtask!Next, Microtask!Abandon
    <2>4. CASE ~(shouldExit \/ over)
        <3>1. JobsOf(slots) = {}
            BY <1>9, <2>4 DEF Drops, Exited
        <3>2. Ids(slots) = << >>
            BY <1>1, <1>2, <3>1, NothingWaits
        <3> QED
            BY <2>1, <2>2, <3>2 DEF Microtask!mtVars
    <2> QED
        BY <2>3, <2>4
<1>10. CASE Goes
    <2>1. Ids(slots)' = << >>
        BY <1>10, NoneTaken DEF Goes
    <2>2. ~JobRuns /\ ~JobRuns' /\ JobRuns' = JobRuns /\ (shouldExit \/ over)' = TRUE
        BY <1>3, <1>3b, <1>10 DEF Goes, Exited
    <2> QED
        BY <2>1, <2>2 DEF Microtask!Next, Microtask!Dispose
<1>11. CASE Anew
    <2>1. Ids(slots)' = Ids(slots)
        BY <1>11 DEF Anew
    <2>2. ~JobRuns /\ ~JobRuns' /\ JobRuns' = JobRuns /\ (shouldExit \/ over)' = FALSE
        BY <1>3, <1>3b, <1>11 DEF Anew, Exited
    <2> QED
        BY <2>1, <2>2 DEF Microtask!Next, Microtask!NextProgram
<1> QED
    BY <1>4, <1>5, <1>6, <1>7, <1>8, <1>9, <1>10, <1>11 DEF Moves

(* For any number of jobs and evaluations, any nesting of callbacks and    *)
(* main loops, and System.exit() at any point: enqueuePromiseJob() and     *)
(* run_jobs_fallible() make a queue of microtasks, which start in the      *)
(* order in which they came, one after the other and never inside another, *)
(* and which is emptied only when all have been run or the program has     *)
(* exited.  The debugger, which runs jobs of its own in between, is left   *)
(* out.                                                                    *)
THEOREM QueueRunsMicrotasks ==
    ASSUME ~CanDebug
    PROVE  Spec => RunsMicrotasks
<1>1. Init => InOrder /\ Microtask!Init
    <2> SUFFICES ASSUME Init
                 PROVE  InOrder /\ Microtask!Init
        OBVIOUS
    <2>1. slots = << >> /\ stack = << >> /\ ~shouldExit /\ ~over
        BY DEF Init, QueueInit
    <2>2. Ids(slots) = << >> /\ InOrder
        BY <2>1, NoneTaken DEF InOrder
    <2>3. ~JobRuns
        BY <2>1 DEF JobRuns
    <2> QED
        BY <2>1, <2>2, <2>3 DEF Microtask!Init
<1>2. EvalInv /\ [Next]_vars => Moves
    BY EachMoves
<1>3. EvalInv /\ InOrder /\ Moves => InOrder' /\ [Microtask!Next]_(Microtask!mtVars)
    BY StaysInOrder, StepImplements DEF EvalInv
<1> QED
    BY <1>1, <1>2, <1>3, EvalInvHolds, PTL DEF Spec, RunsMicrotasks, Microtask!Spec

=============================================================================
