---------------------------- MODULE LifecycleProofs ----------------------------
(***************************************************************************)
(* A mixer that is opened is there whenever the device calls it, and is gone *)
(* once it is closed, for an application that takes all the care Lifecycle   *)
(* names.                                                                  *)
(*                                                                         *)
(* The argument is about where the application's call stands.  Steps still  *)
(* to be made determine what is open; whenever a step frees something, no    *)
(* device runs.                                                            *)
(***************************************************************************)
EXTENDS Lifecycle, FiniteSetTheorems, SequenceTheorems, TLAPS

Careful == Courtesies = {"closes", "inits", "sizes", "quits"}

-----------------------------------------------------------------------------
(* The queue.                                                               *)

\* A queue of pieces out of S, each of them once.
QueueOf(S, s) == s \in Seq(S) /\ IsInjective(s)

LEMMA MembersOf ==
    ASSUME NEW S, NEW s \in Seq(S)
    PROVE  /\ ToSet(s) \subseteq S
           /\ \A T : ToSet(s) \subseteq T => s \in Seq(T)
<1>1. Len(s) \in Nat /\ DOMAIN s = 1 .. Len(s) /\ \A i \in 1 .. Len(s) : s[i] \in S
  OBVIOUS
<1>2. ToSet(s) \subseteq S
  BY <1>1 DEF ToSet
<1>3. ASSUME NEW T, ToSet(s) \subseteq T PROVE s \in Seq(T)
  <2>1. \A i \in 1 .. Len(s) : s[i] \in T
    BY <1>1, <1>3 DEF ToSet
  <2>2. s = [i \in 1 .. Len(s) |-> s[i]]
    BY <1>1
  <2>3. [i \in 1 .. Len(s) |-> s[i]] \in Seq(T)
    BY <1>1, <2>1
  <2> QED
    BY <2>2, <2>3
<1> QED
  BY <1>2, <1>3

LEMMA RemovedAt ==
    ASSUME NEW S, NEW s, QueueOf(S, s), NEW i \in 1 .. Len(s)
    PROVE  LET q == RemoveAt(s, i)
           IN  /\ QueueOf(S, q) /\ Len(q) = Len(s) - 1
               /\ \A x \in ToSet(q) : x \in ToSet(s) /\ x # s[i]
<1> DEFINE q == RemoveAt(s, i)
           a == SubSeq(s, 1, i - 1)
           b == SubSeq(s, i + 1, Len(s))
           From(j) == IF j < i THEN j ELSE j + 1
<1>1. Len(s) \in Nat /\ DOMAIN s = 1 .. Len(s) /\ \A j \in 1 .. Len(s) : s[j] \in S
  BY DEF QueueOf
<1>2. a \in Seq(S) /\ Len(a) = i - 1 /\ \A j \in 1 .. i - 1 : a[j] = s[j]
  BY <1>1
<1>3. b \in Seq(S) /\ Len(b) = Len(s) - i /\ \A j \in 1 .. Len(s) - i : b[j] = s[i + j]
  <2>1. \A j \in i + 1 .. Len(s) : s[j] \in S
    BY <1>1
  <2>2. i + 1 \in Int /\ Len(s) \in Int /\ i <= Len(s)
    BY <1>1
  <2>3. /\ b \in Seq(S)
        /\ Len(b) = IF i + 1 <= Len(s) THEN Len(s) - (i + 1) + 1 ELSE 0
        /\ \A j \in 1 .. Len(s) - (i + 1) + 1 : b[j] = s[(i + 1) + j - 1]
    BY <2>1, <2>2, SubSeqProperties
  <2> HIDE DEF b
  <2>4. Len(s) - (i + 1) + 1 = Len(s) - i /\ \A j \in Int : (i + 1) + j - 1 = i + j
    BY <1>1
  <2>5. i \in Int /\ Len(s) \in Int /\ i <= Len(s)
    BY <1>1
  <2>6. Len(b) = Len(s) - i
    <3>1. ~(i + 1 <= Len(s)) => Len(s) - i = 0
      BY <2>5
    <3> QED
      BY <2>3, <2>4, <3>1
  <2>7. \A j \in 1 .. Len(s) - i : b[j] = s[i + j]
    <3> SUFFICES ASSUME NEW j \in 1 .. Len(s) - i PROVE b[j] = s[i + j]
      OBVIOUS
    <3>1. j \in 1 .. Len(s) - (i + 1) + 1 /\ (i + 1) + j - 1 = i + j
      BY <2>4, <2>5
    <3> QED
      BY <2>3, <3>1
  <2> QED
    BY <2>3, <2>6, <2>7
<1>4. q = a \o b
  BY DEF RemoveAt
<1> HIDE DEF a, b, q
<1>5. q \in Seq(S) /\ Len(q) = Len(s) - 1
  <2>1. q \in Seq(S) /\ Len(q) = Len(a) + Len(b)
    BY <1>2, <1>3, <1>4, ConcatProperties
  <2> QED
    BY <1>1, <1>2, <1>3, <2>1
<1>6. ASSUME NEW j \in 1 .. Len(s) - 1
      PROVE  /\ q[j] = s[From(j)] /\ From(j) \in 1 .. Len(s) /\ From(j) # i
  <2>1. q[j] = IF j <= Len(a) THEN a[j] ELSE b[j - Len(a)]
    BY <1>1, <1>2, <1>3, <1>4
  <2>2. CASE j < i
    BY <1>1, <1>2, <2>1, <2>2
  <2>3. CASE ~(j < i)
    <3>1. j - (i - 1) \in 1 .. Len(s) - i /\ i + (j - (i - 1)) = j + 1
      BY <1>1, <2>3
    <3> QED
      BY <1>1, <1>2, <1>3, <2>1, <2>3, <3>1
  <2> QED
    BY <2>2, <2>3
<1>7. DOMAIN q = 1 .. Len(s) - 1
  BY <1>5
<1>8. \A j, k \in 1 .. Len(s) : s[j] = s[k] => j = k
  BY <1>1 DEF QueueOf, IsInjective
<1>9. IsInjective(q)
  <2> SUFFICES ASSUME NEW j \in 1 .. Len(s) - 1, NEW k \in 1 .. Len(s) - 1, q[j] = q[k]
               PROVE  j = k
    BY <1>7 DEF IsInjective
  <2>1. From(j) = From(k)
    BY <1>6, <1>8
  <2> QED
    BY <1>1, <2>1
<1>10. \A x \in ToSet(q) : x \in ToSet(s) /\ x # s[i]
  <2> SUFFICES ASSUME NEW j \in 1 .. Len(s) - 1
               PROVE  q[j] \in ToSet(s) /\ q[j] # s[i]
    BY <1>7 DEF ToSet
  <2>1. q[j] = s[From(j)] /\ From(j) \in 1 .. Len(s) /\ From(j) # i
    BY <1>6
  <2> QED
    BY <1>1, <1>8, <2>1 DEF ToSet
<1> QED
  BY <1>5, <1>9, <1>10 DEF QueueOf, q

LEMMA Added ==
    ASSUME NEW S, NEW s, QueueOf(S, s), NEW m \in S, m \notin ToSet(s)
    PROVE  QueueOf(S, Append(s, m)) /\ ToSet(Append(s, m)) = ToSet(s) \union {m}
<1> DEFINE q == Append(s, m)
<1>1. Len(s) \in Nat /\ DOMAIN s = 1 .. Len(s) /\ \A i \in 1 .. Len(s) : s[i] # m
  BY DEF QueueOf, ToSet
<1>2. /\ q \in Seq(S) /\ DOMAIN q = 1 .. Len(s) + 1 /\ q[Len(s) + 1] = m
      /\ \A i \in 1 .. Len(s) : q[i] = s[i]
  BY <1>1 DEF QueueOf
<1> HIDE DEF q
<1>3. IsInjective(q)
  BY <1>1, <1>2 DEF QueueOf, IsInjective
<1>4. ToSet(q) = ToSet(s) \union {m}
  BY <1>1, <1>2 DEF ToSet
<1> QED
  BY <1>2, <1>3, <1>4 DEF QueueOf, q

\* q is what is left of s when some of it is taken away.
Thinned(s, q) ==
    \E n \in 0 .. Len(s) : \E kept \in [1 .. n -> DOMAIN s] :
        /\ \A i, j \in 1 .. n : i < j => kept[i] < kept[j]
        /\ q = [i \in 1 .. n |-> s[kept[i]]]

LEMMA ThinnedQueue ==
    ASSUME NEW S, NEW s, QueueOf(S, s), NEW q, Thinned(s, q)
    PROVE  /\ QueueOf(S, q) /\ ToSet(q) \subseteq ToSet(s)
           /\ s = <<>> => q = <<>>
<1>1. PICK n \in 0 .. Len(s) : \E kept \in [1 .. n -> DOMAIN s] :
        /\ \A i, j \in 1 .. n : i < j => kept[i] < kept[j]
        /\ q = [i \in 1 .. n |-> s[kept[i]]]
  BY DEF Thinned
<1>2. PICK kept \in [1 .. n -> DOMAIN s] :
        /\ \A i, j \in 1 .. n : i < j => kept[i] < kept[j]
        /\ q = [i \in 1 .. n |-> s[kept[i]]]
  BY <1>1
<1>3. Len(s) \in Nat /\ DOMAIN s = 1 .. Len(s) /\ \A i \in 1 .. Len(s) : s[i] \in S
  BY DEF QueueOf
<1>4. \A i \in 1 .. n : kept[i] \in 1 .. Len(s)
  BY <1>3
<1>5. q \in Seq(S) /\ DOMAIN q = 1 .. n /\ \A i \in 1 .. n : q[i] = s[kept[i]]
  BY <1>2, <1>3, <1>4
<1>6. ToSet(q) \subseteq ToSet(s)
  BY <1>3, <1>4, <1>5 DEF ToSet
<1>7. \A i, j \in 1 .. n : kept[i] = kept[j] => i = j
  <2>1. \A i, j \in 1 .. n : i < j \/ j < i \/ i = j
    BY <1>3
  <2> QED
    BY <1>2, <1>4, <2>1
<1>8. IsInjective(q)
  BY <1>3, <1>4, <1>5, <1>7 DEF QueueOf, IsInjective
<1>9. s = <<>> => q = <<>>
  BY <1>3, <1>5
<1> QED
  BY <1>5, <1>6, <1>8, <1>9 DEF QueueOf

\* As many places as pieces at most.
LEMMA NoLongerThan ==
    ASSUME NEW S, IsFiniteSet(S), NEW s, QueueOf(S, s)
    PROVE  Len(s) <= Cardinality(S)
<1>1. Len(s) \in Nat /\ s \in [1 .. Len(s) -> S] /\ DOMAIN s = 1 .. Len(s)
  BY DEF QueueOf
<1>2. s \in Injection(1 .. Len(s), S)
  BY <1>1 DEF QueueOf, IsInjective, Injection
<1>3. Cardinality(1 .. Len(s)) <= Cardinality(S)
  BY <1>2, FS_Injection
<1>4. Cardinality(1 .. Len(s)) = Len(s)
  BY <1>1, FS_Interval, SMTT(40)
<1> QED
  BY <1>3, <1>4

-----------------------------------------------------------------------------
(* The steps of a call.                                                     *)

HaltFrom(i) == [op |-> "halt_each", i |-> i]

Ops == {"pause", "free_mixer", "free_mixers", "halt", "close_interfaces", "free_channels",
        "close_device", "open", "init"}

StepType ==
    {Op(op) : op \in Ops} \union {HaltFrom(i) : i \in Nat}
    \union {OpWith(op, spec) : op \in Ops, spec \in Specs}

\* What is left of Mix_FreeMixer before each of its steps, the last one first,
\* with the steps e behind it.
Freed(e) == <<Op("free_channels")>> \o e
HaltedAgain(i, e) == <<HaltFrom(i)>> \o Freed(e)
ClosedAll(e) == <<Op("halt")>> \o HaltedAgain(1, e)
HaltedEach(e) == <<Op("close_interfaces")>> \o ClosedAll(e)
Halting(i, e) == <<HaltFrom(i)>> \o HaltedEach(e)
Freeing(e) == <<Op("halt")>> \o Halting(1, e)

\* What may be behind it.
CloseEnd == <<Op("close_device")>>
InitEnd(spec) == <<OpWith("init", spec)>>
Ends == {<<>>, CloseEnd} \union {InitEnd(spec) : spec \in Specs}

LEMMA StepsTyped ==
    /\ \A op \in Ops : Op(op) \in StepType /\ Op(op).op = op
    /\ \A i \in Nat : /\ HaltFrom(i) \in StepType /\ HaltFrom(i).op = "halt_each"
                      /\ HaltFrom(i).i = i
    /\ \A op \in Ops, spec \in Specs :
          /\ OpWith(op, spec) \in StepType /\ OpWith(op, spec).op = op
          /\ OpWith(op, spec).spec = spec
    /\ HaltAll = HaltFrom(1)
<1>1. ASSUME NEW op \in Ops PROVE Op(op) \in StepType /\ Op(op).op = op
  BY DEF StepType, Op
<1>2. ASSUME NEW i \in Nat
      PROVE  HaltFrom(i) \in StepType /\ HaltFrom(i).op = "halt_each" /\ HaltFrom(i).i = i
  BY DEF StepType, HaltFrom
<1>3. ASSUME NEW op \in Ops, NEW spec \in Specs
      PROVE  /\ OpWith(op, spec) \in StepType /\ OpWith(op, spec).op = op
             /\ OpWith(op, spec).spec = spec
  <2>1. OpWith(op, spec) \in StepType
    BY DEF StepType, Ops
  <2> QED
    BY <2>1 DEF OpWith
<1> QED
  BY <1>1, <1>2, <1>3 DEF HaltFrom, HaltAll

LEMMA InFront ==
    ASSUME NEW x \in StepType, NEW e \in Seq(StepType)
    PROVE  LET s == <<x>> \o e
           IN  s \in Seq(StepType) /\ s # <<>> /\ Head(s) = x /\ Tail(s) = e
<1> DEFINE s == <<x>> \o e
<1>1. <<x>> \in Seq(StepType) /\ Len(<<x>>) = 1 /\ <<x>>[1] = x
  OBVIOUS
<1>2. s \in Seq(StepType) /\ Len(s) = 1 + Len(e)
      /\ \A i \in 1 .. 1 + Len(e) : s[i] = IF i <= 1 THEN x ELSE e[i - 1]
  <2>1. /\ s \in Seq(StepType) /\ Len(s) = Len(<<x>>) + Len(e)
        /\ \A i \in 1 .. Len(<<x>>) + Len(e) :
              s[i] = IF i <= Len(<<x>>) THEN <<x>>[i] ELSE e[i - Len(<<x>>)]
    BY <1>1, ConcatProperties
  <2>2. \A i \in 1 .. 1 + Len(e) : i <= 1 => i = 1
    BY LenProperties
  <2> QED
    BY <1>1, <2>1, <2>2
<1> HIDE DEF s
<1>3. Len(e) \in Nat
  BY LenProperties
<1>4. s # <<>> /\ Head(s) = x
  BY <1>2, <1>3
<1>5. /\ Tail(s) \in Seq(StepType) /\ Len(Tail(s)) = Len(e)
      /\ \A i \in 1 .. Len(e) : Tail(s)[i] = e[i]
  <2>1. /\ Tail(s) \in Seq(StepType) /\ Len(Tail(s)) = Len(s) - 1
        /\ \A i \in 1 .. Len(Tail(s)) : Tail(s)[i] = s[i + 1]
    BY <1>2, <1>4, HeadTailProperties
  <2>2. Len(Tail(s)) = Len(e)
    BY <1>2, <1>3, <2>1
  <2>3. ASSUME NEW i \in 1 .. Len(e) PROVE Tail(s)[i] = e[i]
    <3>1. i + 1 \in 1 .. 1 + Len(e) /\ ~(i + 1 <= 1) /\ (i + 1) - 1 = i
      BY <1>3
    <3> QED
      BY <1>2, <2>1, <2>2, <3>1
  <2> QED
    BY <2>1, <2>2, <2>3
<1>6. Tail(s) = e
  BY <1>5, SeqEqual
<1> QED
  BY <1>2, <1>4, <1>6 DEF s

LEMMA EndsTyped == Ends \subseteq Seq(StepType)
<1>1. <<>> \in Seq(StepType)
  OBVIOUS
<1>2. \A x \in StepType : <<x>> \in Seq(StepType)
  OBVIOUS
<1>3. Op("close_device") \in StepType /\ \A spec \in Specs : OpWith("init", spec) \in StepType
  BY DEF StepType, Ops
<1> QED
  BY <1>1, <1>2, <1>3 DEF Ends, CloseEnd, InitEnd

\* The next step of each, and what is left then.
LEMMA FreeingSteps ==
    ASSUME NEW e \in Seq(StepType), NEW i \in Nat
    PROVE  /\ Freed(e) \in Seq(StepType) /\ Freed(e) # <<>>
           /\ Head(Freed(e)) = Op("free_channels") /\ Tail(Freed(e)) = e
           /\ HaltedAgain(i, e) \in Seq(StepType) /\ HaltedAgain(i, e) # <<>>
           /\ Head(HaltedAgain(i, e)) = HaltFrom(i) /\ Tail(HaltedAgain(i, e)) = Freed(e)
           /\ ClosedAll(e) \in Seq(StepType) /\ ClosedAll(e) # <<>>
           /\ Head(ClosedAll(e)) = Op("halt") /\ Tail(ClosedAll(e)) = HaltedAgain(1, e)
           /\ HaltedEach(e) \in Seq(StepType) /\ HaltedEach(e) # <<>>
           /\ Head(HaltedEach(e)) = Op("close_interfaces") /\ Tail(HaltedEach(e)) = ClosedAll(e)
           /\ Halting(i, e) \in Seq(StepType) /\ Halting(i, e) # <<>>
           /\ Head(Halting(i, e)) = HaltFrom(i) /\ Tail(Halting(i, e)) = HaltedEach(e)
           /\ Freeing(e) \in Seq(StepType) /\ Freeing(e) # <<>>
           /\ Head(Freeing(e)) = Op("halt") /\ Tail(Freeing(e)) = Halting(1, e)
<1>1. /\ Op("free_channels") \in StepType /\ Op("halt") \in StepType
      /\ Op("close_interfaces") \in StepType /\ HaltFrom(1) \in StepType /\ HaltFrom(i) \in StepType
  BY DEF StepType, Ops
<1>2. /\ Freed(e) \in Seq(StepType) /\ Freed(e) # <<>>
      /\ Head(Freed(e)) = Op("free_channels") /\ Tail(Freed(e)) = e
  BY <1>1, InFront DEF Freed
<1>3. \A j \in {1, i} :
        /\ HaltedAgain(j, e) \in Seq(StepType) /\ HaltedAgain(j, e) # <<>>
        /\ Head(HaltedAgain(j, e)) = HaltFrom(j) /\ Tail(HaltedAgain(j, e)) = Freed(e)
  BY <1>1, <1>2, InFront DEF HaltedAgain
<1>4. /\ ClosedAll(e) \in Seq(StepType) /\ ClosedAll(e) # <<>>
      /\ Head(ClosedAll(e)) = Op("halt") /\ Tail(ClosedAll(e)) = HaltedAgain(1, e)
  BY <1>1, <1>3, InFront DEF ClosedAll
<1>5. /\ HaltedEach(e) \in Seq(StepType) /\ HaltedEach(e) # <<>>
      /\ Head(HaltedEach(e)) = Op("close_interfaces") /\ Tail(HaltedEach(e)) = ClosedAll(e)
  BY <1>1, <1>4, InFront DEF HaltedEach
<1>6. \A j \in {1, i} :
        /\ Halting(j, e) \in Seq(StepType) /\ Halting(j, e) # <<>>
        /\ Head(Halting(j, e)) = HaltFrom(j) /\ Tail(Halting(j, e)) = HaltedEach(e)
  BY <1>1, <1>5, InFront DEF Halting
<1>7. /\ Freeing(e) \in Seq(StepType) /\ Freeing(e) # <<>>
      /\ Head(Freeing(e)) = Op("halt") /\ Tail(Freeing(e)) = Halting(1, e)
  BY <1>1, <1>6, InFront DEF Freeing
<1> QED
  BY <1>2, <1>3, <1>4, <1>5, <1>6, <1>7

LEMMA FirstAndRest ==
    ASSUME NEW s \in Seq(StepType), s # <<>>
    PROVE  s = <<Head(s)>> \o Tail(s)
<1> DEFINE x == Head(s)
           e == Tail(s)
           q == <<x>> \o e
<1>1. x \in StepType /\ e \in Seq(StepType) /\ Len(e) = Len(s) - 1 /\ x = s[1]
      /\ \A i \in 1 .. Len(e) : e[i] = s[i + 1]
  BY HeadTailProperties
<1> HIDE DEF x, e
<1>2. q \in Seq(StepType) /\ q # <<>> /\ Head(q) = x /\ Tail(q) = e
  BY <1>1, InFront
<1> HIDE DEF q
<1>3. Len(q) \in Nat /\ Len(s) \in Nat /\ Len(q) = Len(s)
  BY <1>1, <1>2, HeadTailProperties, LenProperties
<1>4. ASSUME NEW i \in 1 .. Len(s) PROVE s[i] = q[i]
  <2>1. CASE i = 1
    BY <1>1, <1>2, <2>1
  <2>2. CASE i # 1
    <3>1. i - 1 \in 1 .. Len(e) /\ (i - 1) + 1 = i
      BY <1>1, <1>3, <2>2
    <3>2. e[i - 1] = q[(i - 1) + 1] /\ e[i - 1] = s[(i - 1) + 1]
      BY <1>1, <1>2, <3>1, HeadTailProperties
    <3> QED
      BY <3>1, <3>2
  <2> QED
    BY <2>1, <2>2
<1> QED
  BY <1>2, <1>3, <1>4, SeqEqual DEF q, x, e

LEMMA FreeStepsFirst ==
    ASSUME NEW e \in Seq(StepType)
    PROVE  FreeSteps \o e = Freeing(e)
<1> DEFINE x == Op("halt")
           y == HaltFrom(1)
           z == Op("close_interfaces")
           w == Op("free_channels")
<1>1. x \in StepType /\ y \in StepType /\ z \in StepType /\ w \in StepType
  BY DEF StepType, Ops
<1>2. FreeSteps = <<x, y, z, x, y, w>>
  BY StepsTyped DEF FreeSteps
<1> HIDE DEF x, y, z, w
<1>3. \A a \in StepType, s \in Seq(StepType) :
        /\ <<a>> \in Seq(StepType) /\ <<a>> \o s \in Seq(StepType)
        /\ (<<a>> \o s) \o e = <<a>> \o (s \o e)
  <2>1. \A a \in StepType : <<a>> \in Seq(StepType)
    OBVIOUS
  <2> QED
    BY <2>1, ConcatAssociative, ConcatProperties
<1>4. <<x, y, z, x, y, w>> = <<x>> \o (<<y>> \o (<<z>> \o (<<x>> \o (<<y>> \o <<w>>))))
  <2>1. \A a, b \in StepType : <<a, b>> = <<a>> \o <<b>>
    <3> TAKE a, b \in StepType
    <3>1. <<a, b>> \in Seq(StepType) /\ <<a, b>> # <<>>
          /\ Head(<<a, b>>) = a /\ Tail(<<a, b>>) = <<b>>
      OBVIOUS
    <3> QED
      BY <3>1, FirstAndRest
  <2>2. \A a, b, c \in StepType : <<a, b, c>> = <<a>> \o <<b, c>>
    <3> TAKE a, b, c \in StepType
    <3>1. <<a, b, c>> \in Seq(StepType) /\ <<a, b, c>> # <<>>
          /\ Head(<<a, b, c>>) = a /\ Tail(<<a, b, c>>) = <<b, c>>
      OBVIOUS
    <3> QED
      BY <3>1, FirstAndRest
  <2>3. <<z, x, y, w>> = <<z>> \o <<x, y, w>>
    <3>1. <<z, x, y, w>> \in Seq(StepType) /\ <<z, x, y, w>> # <<>>
          /\ Head(<<z, x, y, w>>) = z /\ Tail(<<z, x, y, w>>) = <<x, y, w>>
      BY <1>1
    <3> QED
      BY <3>1, FirstAndRest
  <2>4. <<y, z, x, y, w>> = <<y>> \o <<z, x, y, w>>
    <3>1. <<y, z, x, y, w>> \in Seq(StepType) /\ <<y, z, x, y, w>> # <<>>
          /\ Head(<<y, z, x, y, w>>) = y /\ Tail(<<y, z, x, y, w>>) = <<z, x, y, w>>
      BY <1>1
    <3> QED
      BY <3>1, FirstAndRest
  <2>5. <<x, y, z, x, y, w>> = <<x>> \o <<y, z, x, y, w>>
    <3>1. <<x, y, z, x, y, w>> \in Seq(StepType) /\ <<x, y, z, x, y, w>> # <<>>
          /\ Head(<<x, y, z, x, y, w>>) = x
          /\ Tail(<<x, y, z, x, y, w>>) = <<y, z, x, y, w>>
      BY <1>1
    <3> QED
      BY <3>1, FirstAndRest
  <2>6. <<y>> \o <<w>> = <<y, w>> /\ <<x>> \o <<y, w>> = <<x, y, w>>
    BY <1>1, <2>1, <2>2
  <2> QED
    BY <2>3, <2>4, <2>5, <2>6
<1>5. /\ <<w>> \in Seq(StepType) /\ <<y>> \o <<w>> \in Seq(StepType)
      /\ <<x>> \o (<<y>> \o <<w>>) \in Seq(StepType)
      /\ <<z>> \o (<<x>> \o (<<y>> \o <<w>>)) \in Seq(StepType)
      /\ <<y>> \o (<<z>> \o (<<x>> \o (<<y>> \o <<w>>))) \in Seq(StepType)
  BY <1>1, <1>3
<1>6. FreeSteps \o e = <<x>> \o (<<y>> \o (<<z>> \o (<<x>> \o (<<y>> \o (<<w>> \o e)))))
  BY <1>1, <1>2, <1>3, <1>4, <1>5, SMTT(40)
<1> QED
  BY <1>6 DEF Freeing, Halting, HaltedEach, ClosedAll, HaltedAgain, Freed, x, y, z, w

-----------------------------------------------------------------------------
(* The inductive invariant.                                                 *)

\* Closing halts every other stream, twice: that is all of up to three.
Few == IsFiniteSet(Music) /\ Cardinality(Music) <= 3
AtMost(n) == Few => Len(mix_streams) <= n

\* The buffer of the streams, once there is one, is large enough.
Fits(spec) == mix_streams_buffer = 0 \/ spec.size <= mix_streams_buffer

\* The mixer is closed: nothing is open, and nothing plays.
Shut ==
    /\ audio_opened = 0 /\ ~mix_channel /\ ~ms_per_step /\ opened = Closed
    /\ music_playing = NoMusic /\ AtMost(0)

\* The mixer is open, and all that its callback needs with it.
Running ==
    /\ audio_opened = 1 /\ mix_channel /\ ms_per_step
    /\ mixer \in Specs /\ music_spec = mixer /\ Fits(mixer)
    /\ \A t \in Interfaces : opened[t] \in {NoSpec, mixer}
    /\ \A t \in loaded : opened[t] = mixer

\* No device calls the mixer, nor does the application.
Still == device[Own] = "closed" /\ \A dev \in All : device[dev] # "running"

\* What follows a Mix_FreeMixer: nothing, the end of Mix_CloseAudio, or another
\* initialisation.
Behind(e) ==
    \/ e = <<>> /\ owed = 0 /\ audio_device = 0
    \/ e = CloseEnd /\ owed = 0
    \/ \E spec \in Specs : e = InitEnd(spec) /\ owed = 1 /\ audio_device = 0 /\ Fits(spec)

\* Mix_FreeMixer on its way, before and after it closed the interfaces.
ToClose(e) ==
    \/ app \in {<<Op("free_mixer")>> \o e, <<Op("free_mixers")>> \o e, Freeing(e)}
    \/ \E i \in Nat \ {0} : app = Halting(i, e) /\ AtMost(4 - i)
    \/ app = HaltedEach(e) /\ AtMost(1)

HasClosed(e) ==
    /\ opened = Closed /\ ~ms_per_step
    /\ \/ app = ClosedAll(e) /\ AtMost(1)
       \/ /\ music_playing = NoMusic
          /\ \/ \E i \in Nat \ {0} : app = HaltedAgain(i, e) /\ AtMost(2 - i)
             \/ app = Freed(e) /\ AtMost(0)

IsFreeing(e) ==
    /\ Behind(e) /\ Still
    /\ \/ app = e /\ Shut
       \/ audio_opened = 1 /\ (ToClose(e) \/ HasClosed(e))

\* Where the application stands.
IsRunning == Idle /\ owed = 1 /\ Running
IsOpening == \E spec \in Specs : /\ app = <<OpWith("open", spec)>>
                                /\ owed = 1 /\ Shut /\ audio_device = 0 /\ Still /\ Fits(spec)
IsClosing == app = Close /\ owed = 0 /\ Running /\ device[Own] = "closed"

Phase == IsRunning \/ IsOpening \/ IsClosing \/ \E e \in Ends : IsFreeing(e)

\* Only the device that is open, or the application, calls the mixer, and only
\* while it runs.
DevicesApart ==
    \A dev \in All :
        /\ dev \notin {Own, audio_device} => device[dev] = "closed"
        /\ device[dev] # "running" => cb[dev] = "idle"

\* Music keeps its decoder loaded, streams their buffer; nothing is open for an
\* output there never was.
Furnished ==
    /\ \A m \in objects : Interface[m] \in loaded
    /\ mix_streams # <<>> => mix_streams_buffer # 0
    /\ mix_streams_buffer \in Nat
    /\ music_spec = NoSpec => opened = Closed

IInv ==
    /\ TypeOK /\ Phase /\ DevicesApart /\ Furnished
    /\ QueueOf(Music, mix_streams)

-----------------------------------------------------------------------------
(* Where a step finds the application.                                      *)

LEMMA IdlePhase ==
    ASSUME Phase, Idle
    PROVE  \/ owed = 1 /\ Running
           \/ owed = 0 /\ Shut /\ audio_device = 0 /\ Still
<1>1. /\ \A x : <<x>> # <<>> /\ Close # <<>>
  BY DEF Close, CloseSteps
<1>2. ~IsOpening /\ ~IsClosing
  BY <1>1 DEF IsOpening, IsClosing, Idle
<1>3. ASSUME NEW e \in Ends, IsFreeing(e)
      PROVE  owed = 0 /\ Shut /\ audio_device = 0 /\ Still
  <2>1. e \in Seq(StepType)
    BY EndsTyped
  <2>2. \A i \in Nat : app \notin {Freeing(e), Halting(i, e), HaltedEach(e), ClosedAll(e),
                                   HaltedAgain(i, e), Freed(e)}
    BY <2>1, FreeingSteps DEF Idle
  <2>3. app \notin {<<Op("free_mixer")>> \o e, <<Op("free_mixers")>> \o e}
    <3>1. Op("free_mixer") \in StepType /\ Op("free_mixers") \in StepType
      BY DEF StepType, Ops
    <3> QED
      BY <2>1, <3>1, InFront DEF Idle
  <2>4. app = e /\ Shut /\ Behind(e) /\ Still
    BY <1>3, <2>2, <2>3 DEF IsFreeing, ToClose, HasClosed
  <2> QED
    BY <1>1, <2>4 DEF Behind, CloseEnd, InitEnd, Idle
<1> QED
  BY <1>2, <1>3 DEF Phase, IsRunning

\* While a device is in the mixer, the mixer is open.
LEMMA Called ==
    ASSUME IInv, NEW dev \in All, cb[dev] # "idle" \/ device[dev] = "running"
    PROVE  Running /\ (IsRunning \/ IsClosing)
<1>1. device[dev] = "running"
  BY DEF IInv, DevicesApart
<1>2. ~Still
  BY <1>1 DEF Still
<1> QED
  BY <1>2 DEF IInv, Phase, IsOpening, IsFreeing, IsRunning, IsClosing

LEMMA CloseParts ==
    /\ Close # <<>> /\ Head(Close) = Op("pause")
    /\ Tail(Close) = <<Op("free_mixer")>> \o CloseEnd
    /\ CloseEnd \in Ends /\ Close \in Seq(StepType)
<1>1. CloseEnd \in Ends /\ CloseEnd \in Seq(StepType)
  BY EndsTyped DEF Ends
<1>2. Op("free_mixer") \in StepType /\ Op("pause") \in StepType /\ Op("close_device") \in StepType
  BY DEF StepType, Ops
<1>3. CloseSteps = <<Op("free_mixer")>> \o CloseEnd
  <2>1. CloseSteps \in Seq(StepType) /\ CloseSteps # <<>>
        /\ Head(CloseSteps) = Op("free_mixer") /\ Tail(CloseSteps) = CloseEnd
    BY <1>2 DEF CloseSteps, CloseEnd
  <2> QED
    BY <2>1, FirstAndRest
<1>4. CloseSteps \in Seq(StepType)
  BY <1>1, <1>2, <1>3, InFront
<1> QED
  BY <1>1, <1>2, <1>3, <1>4, InFront DEF Close

\* The next step of Mix_FreeMixer and of what follows it, and what is behind.
LEMMA FreeingNext ==
    ASSUME NEW e \in Ends, IsFreeing(e), app # <<>>
    PROVE  \/ /\ Head(app).op \in {"free_mixer", "free_mixers"} /\ Tail(app) = e
              /\ audio_opened = 1
           \/ Head(app).op = "halt" /\ Tail(app) = Halting(1, e) /\ audio_opened = 1
           \/ \E i \in Nat \ {0} :
                 /\ Head(app).op = "halt_each" /\ Head(app).i = i /\ Tail(app) = HaltedEach(e)
                 /\ app = Halting(i, e) /\ audio_opened = 1 /\ AtMost(4 - i)
           \/ /\ Head(app).op = "close_interfaces" /\ Tail(app) = ClosedAll(e)
              /\ audio_opened = 1 /\ AtMost(1)
           \/ /\ Head(app).op = "halt" /\ Tail(app) = HaltedAgain(1, e)
              /\ audio_opened = 1 /\ opened = Closed /\ ~ms_per_step /\ AtMost(1)
           \/ \E i \in Nat \ {0} :
                 /\ Head(app).op = "halt_each" /\ Head(app).i = i /\ Tail(app) = Freed(e)
                 /\ app = HaltedAgain(i, e) /\ audio_opened = 1 /\ opened = Closed
                 /\ ~ms_per_step /\ music_playing = NoMusic /\ AtMost(2 - i)
           \/ /\ Head(app).op = "free_channels" /\ Tail(app) = e /\ audio_opened = 1
              /\ opened = Closed /\ ~ms_per_step /\ music_playing = NoMusic /\ AtMost(0)
           \/ Head(app).op = "close_device" /\ Tail(app) = <<>> /\ Shut /\ owed = 0
           \/ /\ Head(app).op = "init" /\ Tail(app) = <<>> /\ Head(app).spec \in Specs
              /\ Shut /\ owed = 1 /\ audio_device = 0 /\ Fits(Head(app).spec)
<1>1. e \in Seq(StepType) /\ 1 \in Nat
  BY EndsTyped
<1>2. \A op \in Ops : Op(op) \in StepType /\ Op(op).op = op
  BY StepsTyped
<1>3. CASE app = e /\ Shut
  <2>1. CASE e = CloseEnd /\ owed = 0
    <3>1. Head(app) = Op("close_device") /\ Tail(app) = <<>>
      BY <1>3, <2>1 DEF CloseEnd
    <3> QED
      BY <1>2, <1>3, <2>1, <3>1 DEF Ops
  <2>2. ASSUME NEW spec \in Specs, e = InitEnd(spec), owed = 1, audio_device = 0, Fits(spec)
        PROVE  /\ Head(app).op = "init" /\ Tail(app) = <<>> /\ Head(app).spec = spec
    <3>1. Head(app) = OpWith("init", spec) /\ Tail(app) = <<>>
      BY <1>3, <2>2 DEF InitEnd
    <3> QED
      BY <3>1, StepsTyped DEF Ops
  <2> QED
    BY <1>3, <2>1, <2>2 DEF IsFreeing, Behind
<1>4. CASE app \in {<<Op("free_mixer")>> \o e, <<Op("free_mixers")>> \o e} /\ audio_opened = 1
  <2>1. /\ Op("free_mixer") \in StepType /\ Op("free_mixers") \in StepType
        /\ Op("free_mixer").op = "free_mixer" /\ Op("free_mixers").op = "free_mixers"
    BY <1>2 DEF Ops
  <2>2. Tail(app) = e /\ Head(app) \in {Op("free_mixer"), Op("free_mixers")}
    BY <1>1, <1>4, <2>1, InFront
  <2> QED
    BY <1>4, <2>1, <2>2
<1>5. \A op \in {"halt", "close_interfaces", "free_channels"} : Op(op).op = op
  BY <1>2 DEF Ops
<1>6. CASE app = Freeing(e) /\ audio_opened = 1
  <2>1. Head(app) = Op("halt") /\ Tail(app) = Halting(1, e)
    BY <1>1, <1>6, FreeingSteps
  <2> QED
    BY <1>5, <1>6, <2>1
<1>7. CASE (\E i \in Nat \ {0} : app = Halting(i, e) /\ AtMost(4 - i)) /\ audio_opened = 1
  <2>1. PICK i \in Nat \ {0} : app = Halting(i, e) /\ AtMost(4 - i)
    BY <1>7
  <2>2. Head(app) = HaltFrom(i) /\ Tail(app) = HaltedEach(e)
    BY <1>1, <2>1, FreeingSteps
  <2>3. Head(app).op = "halt_each" /\ Head(app).i = i
    BY <2>2, StepsTyped
  <2> QED
    BY <1>7, <2>1, <2>2, <2>3
<1>8. CASE app = HaltedEach(e) /\ AtMost(1) /\ audio_opened = 1
  <2>1. Head(app) = Op("close_interfaces") /\ Tail(app) = ClosedAll(e)
    BY <1>1, <1>8, FreeingSteps
  <2> QED
    BY <1>5, <1>8, <2>1
<1>9. CASE app = ClosedAll(e) /\ AtMost(1) /\ opened = Closed /\ ~ms_per_step /\ audio_opened = 1
  <2>1. Head(app) = Op("halt") /\ Tail(app) = HaltedAgain(1, e)
    BY <1>1, <1>9, FreeingSteps
  <2> QED
    BY <1>5, <1>9, <2>1
<1>10. CASE /\ opened = Closed /\ ~ms_per_step /\ audio_opened = 1 /\ music_playing = NoMusic
            /\ \E i \in Nat \ {0} : app = HaltedAgain(i, e) /\ AtMost(2 - i)
  <2>1. PICK i \in Nat \ {0} : app = HaltedAgain(i, e) /\ AtMost(2 - i)
    BY <1>10
  <2>2. Head(app) = HaltFrom(i) /\ Tail(app) = Freed(e)
    BY <1>1, <2>1, FreeingSteps
  <2>3. Head(app).op = "halt_each" /\ Head(app).i = i
    BY <2>2, StepsTyped
  <2> QED
    BY <1>10, <2>1, <2>2, <2>3
<1>11. CASE /\ opened = Closed /\ ~ms_per_step /\ audio_opened = 1 /\ music_playing = NoMusic
            /\ app = Freed(e) /\ AtMost(0)
  <2>1. Head(app) = Op("free_channels") /\ Tail(app) = e
    BY <1>1, <1>11, FreeingSteps
  <2> QED
    BY <1>5, <1>11, <2>1
<1> QED
  BY <1>3, <1>4, <1>6, <1>7, <1>8, <1>9, <1>10, <1>11 DEF IsFreeing, ToClose, HasClosed

LEMMA StandsAt ==
    ASSUME Phase
    PROVE  /\ At("pause") => IsClosing
           /\ At("open") => \E spec \in Specs :
                 /\ Head(app).spec = spec /\ Tail(app) = <<>> /\ owed = 1
                 /\ Shut /\ audio_device = 0 /\ Still /\ Fits(spec)
           /\ At("free_mixer") \/ At("free_mixers") \/ At("halt") \/ At("halt_each")
              \/ At("close_interfaces") \/ At("free_channels") \/ At("close_device") \/ At("init")
                 => \E e \in Ends : IsFreeing(e)
<1>1. IsClosing => app # <<>> /\ Head(app).op = "pause"
  <2>1. Op("pause").op = "pause"
    BY DEF Op
  <2> QED
    BY <2>1, CloseParts DEF IsClosing
<1>2. ASSUME NEW spec \in Specs, app = <<OpWith("open", spec)>>
      PROVE  Head(app).op = "open" /\ Head(app).spec = spec /\ Tail(app) = <<>>
  <2>1. Head(app) = OpWith("open", spec) /\ Tail(app) = <<>>
    BY <1>2
  <2> QED
    BY <2>1, StepsTyped DEF Ops
<1>3. \A e \in Ends : IsFreeing(e) => ~At("pause") /\ ~At("open")
  BY FreeingNext DEF At
<1>4. IsRunning => app = <<>>
  BY DEF IsRunning, Idle
<1>5. At("pause") => IsClosing
  BY <1>2, <1>3, <1>4 DEF Phase, IsOpening, At
<1>6. At("open") => \E spec \in Specs :
                 /\ Head(app).spec = spec /\ Tail(app) = <<>> /\ owed = 1
                 /\ Shut /\ audio_device = 0 /\ Still /\ Fits(spec)
  BY <1>1, <1>2, <1>3, <1>4 DEF Phase, IsOpening, At
<1>7. ASSUME ~IsClosing, ~IsRunning, ~IsOpening PROVE \E e \in Ends : IsFreeing(e)
  BY <1>7 DEF Phase
<1>8. IsOpening => app # <<>> /\ Head(app).op = "open"
  BY <1>2 DEF IsOpening
<1> QED
  BY <1>1, <1>4, <1>5, <1>6, <1>7, <1>8 DEF At

\* What has no steps of its own to make goes on with those behind it.
LEMMA GoesOn ==
    ASSUME NEW t \in Seq(StepType), Tail(app) = t
    PROVE  /\ Then(<<>>) => app' = t
           /\ \A x \in StepType : Then(<<x>>) => app' = <<x>> \o t
  BY ConcatEmptySeq DEF Then

-----------------------------------------------------------------------------
(* The steps of a call.                                                     *)

LEMMA PauseKeeps ==
    ASSUME IInv, Pause
    PROVE  IInv'
<1> USE DEF audio, interfaces, players
<1>1. app = Close /\ owed = 0 /\ Running /\ device[Own] = "closed"
  BY StandsAt DEF Pause, IInv, IsClosing
<1>2. app' = <<Op("free_mixer")>> \o CloseEnd
  <2>1. CloseEnd \in Seq(StepType) /\ Op("free_mixer") \in StepType
    BY CloseParts, EndsTyped, SMTT(40) DEF StepType, Ops
  <2> QED
    BY <1>1, <2>1, CloseParts, InFront, GoesOn DEF Pause
<1>3. /\ UNCHANGED <<audio_opened, mixer, mix_channel, audio_device, cb, music_spec, ms_per_step,
                     loaded, opened, objects, music_playing, mix_streams, mix_streams_buffer, owed>>
      /\ device' = IF audio_device = 0 THEN device ELSE [device EXCEPT ![audio_device] = "paused"]
      /\ audio_device # 0 => cb[audio_device] = "idle"
  BY DEF Pause, Locked
<1>4. TypeOK'
  BY <1>3 DEF IInv, TypeOK
<1>5. DevicesApart'
  BY <1>3 DEF IInv, TypeOK, DevicesApart, All
<1>6. Still'
  BY <1>1, <1>3, LifecycleAssumption DEF IInv, TypeOK, DevicesApart, Still, All, Own
<1>7. IsFreeing(CloseEnd)'
  BY <1>1, <1>2, <1>3, <1>6 DEF IsFreeing, Behind, ToClose, Running
<1> QED
  BY <1>3, <1>4, <1>5, <1>7, CloseParts DEF IInv, Phase, Furnished, Closed

\* Steps of Mix_FreeMixer that touch no device.
LEMMA StaysStill ==
    ASSUME DevicesApart, Still, UNCHANGED <<audio_device, device, cb>>
    PROVE  DevicesApart' /\ Still'
  BY DEF DevicesApart, Still

LEMMA FreeMixerKeeps ==
    ASSUME IInv, FreeOnce \/ FreeAll
    PROVE  IInv'
<1> USE DEF audio, interfaces, players
<1>1. PICK e \in Ends : IsFreeing(e) /\ Tail(app) = e /\ audio_opened = 1
  <2>1. At("free_mixer") \/ At("free_mixers")
    BY DEF FreeOnce, FreeAll
  <2>2. PICK e \in Ends : IsFreeing(e)
    BY <2>1, StandsAt DEF IInv
  <2> QED
    BY <2>1, <2>2, FreeingNext DEF At
<1>2. app' = FreeSteps \o e /\ audio_opened' = 1
  <2>1. ~(audio_opened > 1)
    BY <1>1
  <2>2. Then(FreeSteps) /\ audio_opened' = 1
    BY <1>1, <2>1 DEF FreeOnce, FreeAll
  <2> QED
    BY <1>1, <2>2 DEF Then
<1>3. app' = Freeing(e)
  BY <1>2, EndsTyped, FreeStepsFirst
<1>4. UNCHANGED <<mixer, mix_channel, audio_device, device, cb, music_spec, ms_per_step,
                  loaded, opened, objects, music_playing, mix_streams, mix_streams_buffer, owed>>
  BY DEF FreeOnce, FreeAll
<1>5. TypeOK'
  BY <1>2, <1>4, LifecycleAssumption DEF IInv, TypeOK
<1>6. DevicesApart' /\ Still'
  BY <1>1, <1>4, StaysStill DEF IInv, IsFreeing
<1>7. Behind(e)'
  BY <1>1, <1>4 DEF IsFreeing, Behind, Fits
<1>8. Phase'
  BY <1>2, <1>3, <1>6, <1>7 DEF Phase, IsFreeing, ToClose
<1> QED
  BY <1>4, <1>5, <1>6, <1>8 DEF IInv, Furnished, Closed

\* The queue before anything is halted.
LEMMA ThreeAtMost ==
    ASSUME QueueOf(Music, mix_streams)
    PROVE  AtMost(3)
<1>1. ASSUME Few PROVE Len(mix_streams) <= 3
  <2>1. Len(mix_streams) <= Cardinality(Music) /\ Cardinality(Music) <= 3
    BY <1>1, NoLongerThan DEF Few
  <2>2. Cardinality(Music) \in Nat
    BY <1>1, FS_CardinalityType DEF Few
  <2>3. Len(mix_streams) \in Nat
    BY DEF QueueOf
  <2> QED
    BY <2>1, <2>2, <2>3
<1> QED
  BY <1>1 DEF AtMost

LEMMA HaltKeeps ==
    ASSUME IInv, Halt
    PROVE  IInv'
<1> USE DEF audio, interfaces, players
<1>1. At("halt") /\ Then(<<>>) /\ music_playing' = NoMusic
      /\ UNCHANGED <<audio_opened, mixer, mix_channel, audio_device, device, cb, music_spec,
                     ms_per_step, loaded, opened, objects, mix_streams, mix_streams_buffer, owed>>
  BY DEF Halt
<1>2. PICK e \in Ends :
        /\ IsFreeing(e) /\ audio_opened = 1
        /\ \/ Tail(app) = Halting(1, e)
           \/ Tail(app) = HaltedAgain(1, e) /\ opened = Closed /\ ~ms_per_step /\ AtMost(1)
  <2>1. PICK e \in Ends : IsFreeing(e)
    BY <1>1, StandsAt DEF IInv
  <2> QED
    BY <1>1, <2>1, FreeingNext DEF At
<1>3. e \in Seq(StepType) /\ Halting(1, e) \in Seq(StepType) /\ HaltedAgain(1, e) \in Seq(StepType)
  <2>1. 1 \in Nat /\ e \in Seq(StepType)
    BY EndsTyped
  <2> QED
    BY <2>1, FreeingSteps
<1>4. app' = Tail(app)
  BY <1>1, <1>2, <1>3, GoesOn
<1>5. TypeOK'
  BY <1>1 DEF IInv, TypeOK
<1>6. DevicesApart' /\ Still'
  BY <1>1, <1>2, StaysStill DEF IInv, IsFreeing
<1>7. Behind(e)'
  BY <1>1, <1>2 DEF IsFreeing, Behind, Fits
<1>8. CASE Tail(app) = Halting(1, e)
  <2>1. AtMost(4 - 1)'
    BY <1>1, ThreeAtMost DEF IInv, AtMost
  <2>2. ToClose(e)'
    <3>1. app' = Halting(1, e) /\ 1 \in Nat \ {0}
      BY <1>4, <1>8
    <3>2. \E i \in Nat \ {0} : app' = Halting(i, e) /\ AtMost(4 - i)'
      BY <2>1, <3>1, Zenon
    <3> QED
      BY <3>2, Zenon DEF ToClose
  <2> QED
    BY <1>1, <1>2, <1>5, <1>6, <1>7, <2>2 DEF IInv, Phase, IsFreeing, Furnished, Closed
<1>9. CASE Tail(app) = HaltedAgain(1, e) /\ opened = Closed /\ ~ms_per_step /\ AtMost(1)
  <2>1. AtMost(2 - 1)'
    BY <1>1, <1>9 DEF AtMost
  <2>2. HasClosed(e)'
    BY <1>1, <1>4, <1>9, <2>1 DEF HasClosed, Closed
  <2> QED
    BY <1>1, <1>2, <1>5, <1>6, <1>7, <2>2 DEF IInv, Phase, IsFreeing, Furnished, Closed
<1> QED
  BY <1>2, <1>8, <1>9

\* The loop ends, with a half of what it has not halted left, or it halts one more.
LEMMA HaltEachKeeps ==
    ASSUME IInv, HaltEach
    PROVE  IInv'
<1> USE DEF audio, interfaces, players
<1>1. At("halt_each")
      /\ UNCHANGED <<audio_opened, mixer, mix_channel, audio_device, device, cb, music_spec,
                     ms_per_step, loaded, opened, objects, music_playing, mix_streams_buffer, owed>>
  BY DEF HaltEach
<1>2. PICK e \in Ends, i \in Nat \ {0} :
        /\ IsFreeing(e) /\ audio_opened = 1 /\ Head(app).i = i
        /\ \/ app = Halting(i, e) /\ Tail(app) = HaltedEach(e) /\ AtMost(4 - i)
           \/ /\ app = HaltedAgain(i, e) /\ Tail(app) = Freed(e) /\ AtMost(2 - i)
              /\ opened = Closed /\ ~ms_per_step /\ music_playing = NoMusic
  <2>1. PICK e \in Ends : IsFreeing(e)
    BY <1>1, StandsAt DEF IInv
  <2> QED
    BY <1>1, <2>1, FreeingNext DEF At
<1>3. /\ e \in Seq(StepType) /\ HaltedEach(e) \in Seq(StepType) /\ Freed(e) \in Seq(StepType)
      /\ HaltFrom(i + 1) \in StepType /\ i + 1 \in Nat \ {0}
  <2>1. i \in Nat /\ e \in Seq(StepType) /\ i + 1 \in Nat
    BY EndsTyped
  <2> QED
    BY <2>1, FreeingSteps, StepsTyped
<1>4. DevicesApart' /\ Still'
  BY <1>1, <1>2, StaysStill DEF IInv, IsFreeing
<1>5. Behind(e)'
  BY <1>1, <1>2 DEF IsFreeing, Behind, Fits
<1>6. Len(mix_streams) \in Nat
  BY DEF IInv, QueueOf
<1>7. CASE i > Len(mix_streams)
  <2>1. UNCHANGED mix_streams /\ app' = Tail(app)
    <3>1. UNCHANGED mix_streams /\ Then(<<>>)
      BY <1>2, <1>7 DEF HaltEach
    <3> QED
      BY <1>2, <1>3, <3>1, GoesOn
  <2>2. TypeOK'
    BY <1>1, <2>1 DEF IInv, TypeOK
  <2>3. AtMost(4 - i) => AtMost(1)
    BY <1>6, <1>7 DEF AtMost
  <2>4. AtMost(2 - i) => AtMost(0)
    BY <1>6, <1>7 DEF AtMost
  <2>5. AtMost(1)' = AtMost(1) /\ AtMost(0)' = AtMost(0)
    BY <2>1 DEF AtMost
  <2>6. ToClose(e)' \/ HasClosed(e)'
    BY <1>1, <1>2, <2>1, <2>3, <2>4, <2>5 DEF ToClose, HasClosed, Closed
  <2> QED
    BY <1>1, <1>2, <1>4, <1>5, <2>1, <2>2, <2>6 DEF IInv, Phase, IsFreeing, Furnished, Closed
<1>8. CASE ~(i > Len(mix_streams))
  <2> DEFINE j == i + 1
  <2>1. mix_streams' = RemoveAt(mix_streams, i) /\ Then(<<HaltFrom(i + 1)>>)
    BY <1>2, <1>8 DEF HaltEach, HaltFrom
  <2>2. app' = <<HaltFrom(i + 1)>> \o Tail(app)
    BY <2>1 DEF Then
  <2>3. /\ QueueOf(Music, mix_streams)' /\ Len(mix_streams)' = Len(mix_streams) - 1
        /\ ToSet(mix_streams)' \subseteq ToSet(mix_streams)
    <3>1. i \in 1 .. Len(mix_streams)
      BY <1>6, <1>8
    <3> QED
      BY <2>1, <3>1, RemovedAt DEF IInv
  <2>4. TypeOK'
    BY <1>1, <2>3 DEF IInv, TypeOK, QueueOf
  <2>5. AtMost(4 - i) => AtMost(4 - j)'
    BY <1>6, <2>3 DEF AtMost
  <2>6. AtMost(2 - i) => AtMost(2 - j)'
    BY <1>6, <2>3 DEF AtMost
  <2>7. app' = <<HaltFrom(j)>> \o Tail(app) /\ j \in Nat \ {0}
    BY <1>3, <2>2
  <2> HIDE DEF j
  <2>8. ASSUME app = Halting(i, e), Tail(app) = HaltedEach(e), AtMost(4 - i) PROVE ToClose(e)'
    <3>1. app' = Halting(j, e)
      BY <2>7, <2>8 DEF Halting
    <3> QED
      BY <2>5, <2>7, <2>8, <3>1 DEF ToClose
  <2>9. ASSUME app = HaltedAgain(i, e), Tail(app) = Freed(e), AtMost(2 - i),
               opened = Closed, ~ms_per_step, music_playing = NoMusic
        PROVE  HasClosed(e)'
    <3>1. app' = HaltedAgain(j, e)
      BY <2>7, <2>9 DEF HaltedAgain
    <3> QED
      BY <1>1, <2>6, <2>7, <2>9, <3>1 DEF HasClosed, Closed
  <2>10. ToClose(e)' \/ HasClosed(e)'
    BY <1>2, <2>8, <2>9
  <2>11. mix_streams' # <<>> => mix_streams # <<>>
    BY <1>2, <1>6, <1>8
  <2> QED
    BY <1>1, <1>2, <1>4, <1>5, <2>3, <2>4, <2>10, <2>11 DEF IInv, Phase, IsFreeing, Furnished, Closed
<1> QED
  BY <1>7, <1>8

LEMMA CloseInterfacesKeeps ==
    ASSUME IInv, CloseInterfaces
    PROVE  IInv'
<1> USE DEF audio, interfaces, players
<1>1. At("close_interfaces") /\ Then(<<>>) /\ opened' = Closed /\ ms_per_step' = FALSE
      /\ UNCHANGED <<audio_opened, mixer, mix_channel, audio_device, device, cb, music_spec,
                     loaded, objects, music_playing, mix_streams, mix_streams_buffer, owed>>
  BY DEF CloseInterfaces
<1>2. PICK e \in Ends :
        IsFreeing(e) /\ audio_opened = 1 /\ Tail(app) = ClosedAll(e) /\ AtMost(1)
  <2>1. PICK e \in Ends : IsFreeing(e)
    BY <1>1, StandsAt DEF IInv
  <2> QED
    BY <1>1, <2>1, FreeingNext DEF At
<1>3. app' = ClosedAll(e)
  <2>1. ClosedAll(e) \in Seq(StepType)
    <3>1. 1 \in Nat /\ e \in Seq(StepType)
      BY EndsTyped
    <3> QED
      BY <3>1, FreeingSteps
  <2> QED
    BY <1>1, <1>2, <2>1, GoesOn
<1>4. DevicesApart' /\ Still'
  BY <1>1, <1>2, StaysStill DEF IInv, IsFreeing
<1>5. Behind(e)'
  BY <1>1, <1>2 DEF IsFreeing, Behind, Fits
<1>6. TypeOK'
  BY <1>1 DEF IInv, TypeOK, Closed
<1>7. HasClosed(e)'
  BY <1>1, <1>2, <1>3 DEF HasClosed, AtMost, Closed
<1> QED
  BY <1>1, <1>2, <1>4, <1>5, <1>6, <1>7 DEF IInv, Phase, IsFreeing, Furnished, Closed

LEMMA FreeChannelsKeeps ==
    ASSUME IInv, FreeChannels
    PROVE  IInv'
<1> USE DEF audio, interfaces, players
<1>1. At("free_channels") /\ Then(<<>>) /\ mix_channel' = FALSE /\ audio_opened' = audio_opened - 1
      /\ UNCHANGED <<mixer, audio_device, device, cb, music_spec, ms_per_step, opened,
                     loaded, objects, music_playing, mix_streams, mix_streams_buffer, owed>>
  BY DEF FreeChannels
<1>2. PICK e \in Ends :
        /\ IsFreeing(e) /\ audio_opened = 1 /\ Tail(app) = e /\ AtMost(0)
        /\ opened = Closed /\ ~ms_per_step /\ music_playing = NoMusic
  <2>1. PICK e \in Ends : IsFreeing(e)
    BY <1>1, StandsAt DEF IInv
  <2> QED
    BY <1>1, <2>1, FreeingNext DEF At
<1>3. app' = e
  BY <1>1, <1>2, EndsTyped, GoesOn
<1>4. DevicesApart' /\ Still'
  BY <1>1, <1>2, StaysStill DEF IInv, IsFreeing
<1>5. Behind(e)'
  BY <1>1, <1>2 DEF IsFreeing, Behind, Fits
<1>6. audio_opened' = 0
  BY <1>1, <1>2
<1>7. TypeOK'
  <2>1. audio_opened' \in 0 .. MaxOpens + 1 /\ mix_channel' \in BOOLEAN
    <3>1. MaxOpens \in Nat
      BY LifecycleAssumption
    <3>2. 0 \in 0 .. MaxOpens + 1
      BY <3>1
    <3> QED
      BY <1>1, <1>6, <3>2
  <2>2. UNCHANGED <<mixer, audio_device, device, cb, music_spec, ms_per_step, opened,
                    loaded, objects, music_playing, mix_streams, owed>>
    BY <1>1
  <2> QED
    BY <2>1, <2>2 DEF IInv, TypeOK
<1>8. Shut'
  BY <1>1, <1>2, <1>6 DEF Shut, AtMost, Closed
<1> QED
  BY <1>1, <1>2, <1>3, <1>4, <1>5, <1>7, <1>8 DEF IInv, Phase, IsFreeing, Furnished, Closed

LEMMA CloseDeviceKeeps ==
    ASSUME IInv, CloseDevice
    PROVE  IInv'
<1> USE DEF audio, interfaces, players
<1>1. /\ At("close_device") /\ Locked /\ Then(<<>>) /\ audio_device' = 0
      /\ device' = IF audio_device = 0 THEN device ELSE [device EXCEPT ![audio_device] = "closed"]
      /\ UNCHANGED <<audio_opened, mixer, mix_channel, cb, music_spec, ms_per_step, opened,
                     loaded, objects, music_playing, mix_streams, mix_streams_buffer, owed>>
  BY DEF CloseDevice
<1>2. Tail(app) = <<>> /\ Shut /\ owed = 0 /\ Still
  <2>1. PICK e \in Ends : IsFreeing(e)
    BY <1>1, StandsAt DEF IInv
  <2> QED
    BY <1>1, <2>1, FreeingNext DEF At, IsFreeing
<1>3. app' = <<>>
  <2>1. <<>> \in Seq(StepType)
    OBVIOUS
  <2> QED
    BY <1>1, <1>2, <2>1, GoesOn
<1>4. DevicesApart'
  BY <1>1 DEF IInv, TypeOK, DevicesApart, All, Locked
<1>5. Still'
  BY <1>1, <1>2, LifecycleAssumption DEF IInv, TypeOK, Still, All, Own
<1>6. TypeOK'
  BY <1>1 DEF IInv, TypeOK
<1>7. IsFreeing(<<>>)'
  BY <1>1, <1>2, <1>3, <1>5 DEF IsFreeing, Behind, Shut, AtMost, Closed
<1>8. <<>> \in Ends
  BY DEF Ends
<1> QED
  BY <1>1, <1>4, <1>6, <1>7, <1>8 DEF IInv, Phase, Furnished, Closed

\* A closed mixer that is initialised runs.
LEMMA InitialisedRuns ==
    ASSUME TypeOK, Shut, NEW spec \in Specs, Fits(spec), Initialised(spec),
           UNCHANGED mix_streams_buffer
    PROVE  /\ Running' /\ loaded' = loaded \union WithoutInit
           /\ audio_opened' \in 0 .. MaxOpens + 1 /\ mixer' \in Specs \union {NoSpec}
           /\ music_spec' \in Specs /\ music_spec' # NoSpec /\ mix_channel' \in BOOLEAN
           /\ ms_per_step' \in BOOLEAN /\ loaded' \subseteq Interfaces
           /\ opened' \in [Interfaces -> Specs \union {NoSpec}]
<1>1. /\ audio_opened' = 1 /\ mixer' = spec /\ music_spec' = spec
      /\ mix_channel' = TRUE /\ ms_per_step' = TRUE
      /\ loaded' = loaded \union WithoutInit /\ opened' = Opened(spec)
  BY DEF Initialised, open_music
<1>2. MaxOpens \in Nat /\ WithoutInit \subseteq Interfaces /\ spec # NoSpec
  BY LifecycleAssumption
<1>3. 1 \in 0 .. MaxOpens + 1
  BY <1>2
<1>4. opened' = [t \in Interfaces |-> IF t \in loaded \union WithoutInit THEN spec ELSE NoSpec]
  BY <1>1 DEF Shut, Closed, Opened, open_music_type
<1>5. loaded \subseteq Interfaces /\ loaded' \subseteq Interfaces
  BY <1>1, <1>2 DEF TypeOK
<1>6. \A t \in Interfaces : opened'[t] \in {NoSpec, spec}
  BY <1>4
<1>7. \A t \in loaded' : opened'[t] = spec
  BY <1>1, <1>4, <1>5
<1>8. opened' \in [Interfaces -> Specs \union {NoSpec}]
  BY <1>4
<1>9. Fits(spec)'
  BY DEF Fits
<1>10. Running'
  BY <1>1, <1>6, <1>7, <1>9 DEF Running, Fits
<1> QED
  BY <1>1, <1>2, <1>3, <1>5, <1>8, <1>10

LEMMA InitKeeps ==
    ASSUME IInv, InitMixer
    PROVE  IInv'
<1> USE DEF audio, interfaces, players
<1>1. /\ At("init") /\ Initialised(Head(app).spec) /\ Then(<<>>)
      /\ UNCHANGED <<audio_device, device, cb, objects, music_playing, mix_streams,
                     mix_streams_buffer, owed>>
  BY DEF InitMixer
<1>2. /\ Tail(app) = <<>> /\ Head(app).spec \in Specs /\ Shut /\ owed = 1
      /\ Fits(Head(app).spec)
  <2>1. PICK e \in Ends : IsFreeing(e)
    BY <1>1, StandsAt DEF IInv
  <2> QED
    BY <1>1, <2>1, FreeingNext DEF At
<1>3. app' = <<>>
  <2>1. <<>> \in Seq(StepType)
    OBVIOUS
  <2> QED
    BY <1>1, <1>2, <2>1, GoesOn
<1>4. /\ Running' /\ loaded' = loaded \union WithoutInit
      /\ audio_opened' \in 0 .. MaxOpens + 1 /\ mixer' \in Specs \union {NoSpec}
      /\ music_spec' \in Specs /\ music_spec' # NoSpec /\ mix_channel' \in BOOLEAN
      /\ ms_per_step' \in BOOLEAN /\ loaded' \subseteq Interfaces
      /\ opened' \in [Interfaces -> Specs \union {NoSpec}]
  BY <1>1, <1>2, InitialisedRuns DEF IInv
<1>5. UNCHANGED <<audio_device, device, cb, objects, music_playing, mix_streams,
                     mix_streams_buffer, owed>>
  BY <1>1
<1>6. TypeOK'
  BY <1>4, <1>5 DEF IInv, TypeOK
<1>7. DevicesApart'
  BY <1>5 DEF IInv, DevicesApart
<1>8. Phase'
  BY <1>2, <1>3, <1>4, <1>5 DEF Phase, IsRunning, Idle
<1>9. Furnished' /\ QueueOf(Music, mix_streams)'
  BY <1>4, <1>5 DEF IInv, Furnished
<1> QED
  BY <1>6, <1>7, <1>8, <1>9 DEF IInv

LEMMA OpenKeeps ==
    ASSUME IInv, OpenDevice
    PROVE  IInv'
<1> USE DEF audio, interfaces, players
<1>1. /\ At("open") /\ Then(<<>>)
      /\ UNCHANGED <<cb, objects, music_playing, mix_streams, mix_streams_buffer>>
  BY DEF OpenDevice
<1>2. PICK spec \in Specs :
        /\ Head(app).spec = spec /\ Tail(app) = <<>> /\ owed = 1
        /\ Shut /\ audio_device = 0 /\ Still /\ Fits(spec)
  BY <1>1, StandsAt DEF IInv
<1>3. app' = <<>>
  <2>1. <<>> \in Seq(StepType)
    OBVIOUS
  <2> QED
    BY <1>1, <1>2, <2>1, GoesOn
<1>4. CASE /\ audio_device' = 0 /\ owed' = owed - 1
           /\ UNCHANGED <<audio_opened, mixer, mix_channel, device, music_spec, ms_per_step,
                          loaded, opened>>
  <2>1. owed' = 0 /\ owed' \in 0 .. MaxOpens
    <3>1. MaxOpens \in Nat
      BY LifecycleAssumption
    <3>2. owed' = 0
      BY <1>2, <1>4
    <3> QED
      BY <3>1, <3>2
  <2>2. UNCHANGED <<audio_device, audio_opened, mixer, mix_channel, device, music_spec, ms_per_step,
                    loaded, opened>>
    BY <1>2, <1>4
  <2>3. TypeOK'
    BY <1>1, <2>1, <2>2 DEF IInv, TypeOK
  <2>4. DevicesApart' /\ Still'
    BY <1>1, <1>2, <2>2, StaysStill DEF IInv
  <2>5. IsFreeing(<<>>)'
    BY <1>1, <1>2, <1>3, <2>1, <2>2, <2>4 DEF IsFreeing, Behind, Shut, AtMost, Closed
  <2>6. <<>> \in Ends
    BY DEF Ends
  <2> QED
    BY <1>1, <2>2, <2>3, <2>4, <2>5, <2>6 DEF IInv, Phase, Furnished, Closed
<1>5. ASSUME NEW dev \in Devices, device[dev] = "closed", audio_device' = dev,
             device' = [device EXCEPT ![dev] = "running"],
             Initialised(Head(app).spec), UNCHANGED owed
      PROVE  IInv'
  <2>1. /\ Running' /\ loaded' = loaded \union WithoutInit
        /\ audio_opened' \in 0 .. MaxOpens + 1 /\ mixer' \in Specs \union {NoSpec}
        /\ music_spec' \in Specs /\ music_spec' # NoSpec /\ mix_channel' \in BOOLEAN
        /\ ms_per_step' \in BOOLEAN /\ loaded' \subseteq Interfaces
        /\ opened' \in [Interfaces -> Specs \union {NoSpec}]
    BY <1>1, <1>2, <1>5, InitialisedRuns DEF IInv
  <2>2. TypeOK'
    BY <1>1, <1>5, <2>1 DEF IInv, TypeOK
  <2>3. DevicesApart'
    BY <1>1, <1>2, <1>5 DEF IInv, TypeOK, DevicesApart, All, Own
  <2>4. Phase'
    BY <1>2, <1>3, <1>5, <2>1 DEF Phase, IsRunning, Idle
  <2>5. Furnished' /\ QueueOf(Music, mix_streams)'
    BY <1>1, <2>1 DEF IInv, Furnished
  <2> QED
    BY <2>2, <2>3, <2>4, <2>5 DEF IInv
<1> QED
  BY <1>4, <1>5 DEF OpenDevice

-----------------------------------------------------------------------------
(* The callback.                                                            *)

\* An open mixer stays open while music and streams come and go.
LEMMA StaysOpen ==
    ASSUME IsRunning \/ IsClosing, UNCHANGED <<audio_opened, mixer, mix_channel, music_spec,
               ms_per_step, loaded, opened, mix_streams_buffer, app, owed, device>>
    PROVE  Phase'
<1>1. Running'
  BY DEF IsRunning, IsClosing, Running, Fits
<1> QED
  BY <1>1 DEF Phase, IsRunning, IsClosing, Idle

LEMMA CallbackKeeps ==
    ASSUME IInv, NEW dev \in All,
           Callback(dev) \/ MixMusic(dev) \/ MixStreams(dev) \/ MixChannels(dev)
    PROVE  IInv'
<1> USE DEF audio, interfaces, players
<1>1. UNCHANGED <<audio_opened, mixer, mix_channel, audio_device, device, music_spec, ms_per_step,
                  loaded, opened, objects, mix_streams_buffer, app, owed>>
  BY DEF Callback, MixMusic, MixStreams, MixChannels
<1>2. /\ cb[dev] # "idle" \/ device[dev] = "running"
      /\ \E at \in {"idle", "music", "streams", "channels"} : cb' = [cb EXCEPT ![dev] = at]
      /\ music_playing' \in {music_playing, NoMusic}
  BY DEF Callback, MixMusic, MixStreams, MixChannels
<1>3. IsRunning \/ IsClosing
  BY <1>2, Called
<1>4. Phase'
  BY <1>1, <1>3, StaysOpen
<1>5. device[dev] = "running"
  BY <1>2 DEF IInv, DevicesApart
<1>6. DevicesApart'
  BY <1>1, <1>2, <1>5 DEF IInv, TypeOK, DevicesApart
<1>7. /\ QueueOf(Music, mix_streams)' /\ ToSet(mix_streams)' \subseteq ToSet(mix_streams)
      /\ mix_streams' # <<>> => mix_streams # <<>>
  <2>1. CASE UNCHANGED mix_streams
    BY <2>1 DEF IInv
  <2>2. CASE MixStreams(dev)
    <3>1. Thinned(mix_streams, mix_streams')
      BY <2>2 DEF MixStreams, Thinned
    <3> QED
      BY <3>1, ThinnedQueue DEF IInv
  <2> QED
    BY <2>1, <2>2 DEF Callback, MixMusic, MixChannels
<1>8. TypeOK'
  <2>1. cb' \in [All -> {"idle", "music", "streams", "channels"}]
    BY <1>2 DEF IInv, TypeOK
  <2> QED
    BY <1>1, <1>2, <1>7, <2>1 DEF IInv, TypeOK, QueueOf
<1> QED
  BY <1>1, <1>4, <1>6, <1>7, <1>8 DEF IInv, Furnished, Closed

-----------------------------------------------------------------------------
(* The calls of the application.                                            *)

\* Between two calls the mixer is open or closed.
LEMMA BetweenCalls ==
    ASSUME Idle, app' = app, UNCHANGED <<owed, audio_device, device>>,
           \/ owed = 1 /\ Running'
           \/ owed = 0 /\ Shut' /\ audio_device = 0 /\ Still
    PROVE  Phase'
<1>1. CASE owed = 1 /\ Running'
  BY <1>1 DEF Phase, IsRunning, Idle
<1>2. CASE owed = 0 /\ Shut' /\ audio_device = 0 /\ Still
  <2>1. IsFreeing(<<>>)'
    BY <1>2 DEF IsFreeing, Behind, Still, Idle
  <2>2. <<>> \in Ends
    BY DEF Ends
  <2> QED
    BY <2>1, <2>2 DEF Phase
<1> QED
  BY <1>1, <1>2

\* A decoder that is loaded is open for the output, if there is one.
LEMMA Loads ==
    ASSUME Careful, IInv, Idle, AptLoad, NEW t \in Interfaces, LoadAndOpen(t),
           UNCHANGED <<audio_opened, mixer, mix_channel, audio_device, device, app, owed,
                       mix_streams, mix_streams_buffer, music_playing>>
    PROVE  /\ Phase' /\ loaded' = loaded \union {t} /\ loaded' \subseteq Interfaces
           /\ opened' \in [Interfaces -> Specs \union {NoSpec}]
           /\ UNCHANGED <<music_spec, ms_per_step>>
           /\ (music_spec = NoSpec => opened = Closed)'
<1>1. /\ loaded' = loaded \union {t} /\ UNCHANGED <<music_spec, ms_per_step>>
      /\ opened' = [i \in Interfaces |->
                       IF i \in {t} /\ opened[i] = NoSpec THEN music_spec ELSE opened[i]]
  BY DEF LoadAndOpen, open_music_type
<1>2. /\ loaded \subseteq Interfaces /\ opened \in [Interfaces -> Specs \union {NoSpec}]
      /\ music_spec \in Specs \union {NoSpec} /\ (music_spec = NoSpec => opened = Closed)
  BY DEF IInv, TypeOK, Furnished
<1>3. loaded' \subseteq Interfaces /\ opened' \in [Interfaces -> Specs \union {NoSpec}]
  BY <1>1, <1>2
<1>4. music_spec = NoSpec => opened' = Closed
  BY <1>1, <1>2 DEF Closed
<1>5. CASE owed = 1 /\ Running
  <2>1. \A i \in Interfaces : opened'[i] \in {NoSpec, mixer}
    BY <1>1, <1>5 DEF Running
  <2>2. \A i \in loaded' : opened'[i] = mixer
    BY <1>1, <1>2, <1>5 DEF Running
  <2>3. Running'
    BY <1>1, <1>5, <2>1, <2>2 DEF Running, Fits
  <2> QED
    BY <1>1, <1>3, <1>4, <1>5, <2>3, BetweenCalls DEF Closed
<1>6. CASE owed = 0 /\ Shut /\ audio_device = 0 /\ Still
  <2>1. music_spec = NoSpec
    BY <1>6 DEF AptLoad, Careful, Shut
  <2>2. Shut'
    BY <1>1, <1>4, <1>6, <2>1 DEF Shut, AtMost, Closed
  <2> QED
    BY <1>1, <1>3, <1>4, <1>6, <2>2, BetweenCalls DEF Closed
<1> QED
  BY <1>5, <1>6, IdlePhase DEF IInv

LEMMA LoadsKeep ==
    ASSUME Careful, IInv,
           (\E t \in Interfaces : Mix_Init(t)) \/ \E m \in Music : Mix_LoadMUS(m)
    PROVE  IInv'
<1> USE DEF audio, interfaces, players
<1>1. PICK t \in Interfaces, m \in Music \union {NoMusic} :
        /\ Idle /\ AptLoad /\ LoadAndOpen(t)
        /\ UNCHANGED <<audio_opened, mixer, mix_channel, audio_device, device, cb, app, owed,
                       mix_streams, mix_streams_buffer, music_playing>>
        /\ \/ UNCHANGED objects
           \/ m \in Music /\ objects' = objects \union {m} /\ t = Interface[m]
  <2>1. ASSUME NEW t \in Interfaces, Mix_Init(t)
        PROVE  /\ Idle /\ AptLoad /\ LoadAndOpen(t)
               /\ UNCHANGED <<audio_opened, mixer, mix_channel, audio_device, device, cb, app,
                              owed, mix_streams, mix_streams_buffer, music_playing, objects>>
    BY <2>1 DEF Mix_Init
  <2>2. ASSUME NEW m \in Music, Mix_LoadMUS(m)
        PROVE  /\ Idle /\ AptLoad /\ LoadAndOpen(Interface[m]) /\ Interface[m] \in Interfaces
               /\ UNCHANGED <<audio_opened, mixer, mix_channel, audio_device, device, cb, app,
                              owed, mix_streams, mix_streams_buffer, music_playing>>
               /\ objects' = objects \union {m}
    BY <2>2, LifecycleAssumption DEF Mix_LoadMUS
  <2>3. CASE \E t \in Interfaces : Mix_Init(t)
    BY <2>1, <2>3
  <2>4. CASE \E m \in Music : Mix_LoadMUS(m)
    BY <2>2, <2>4
  <2> QED
    BY <2>3, <2>4
<1>2. /\ Phase' /\ loaded' = loaded \union {t} /\ loaded' \subseteq Interfaces
      /\ opened' \in [Interfaces -> Specs \union {NoSpec}]
      /\ UNCHANGED <<music_spec, ms_per_step>>
      /\ (music_spec = NoSpec => opened = Closed)'
  BY <1>1, Loads
<1>3. TypeOK'
  BY <1>1, <1>2 DEF IInv, TypeOK
<1>4. DevicesApart'
  BY <1>1 DEF IInv, DevicesApart
<1>5. Furnished'
  BY <1>1, <1>2 DEF IInv, Furnished
<1> QED
  BY <1>1, <1>2, <1>3, <1>4, <1>5 DEF IInv

\* Between two calls the same mixer is open, or still closed, when only music
\* comes and goes.
LEMMA MusicKeepsPhase ==
    ASSUME IInv, Idle, UNCHANGED <<audio_opened, mixer, mix_channel, audio_device, device, app,
               owed, music_spec, ms_per_step, loaded, opened>>,
           ms_per_step \/ (music_playing' \in {music_playing, NoMusic} /\ AtMost(0)'),
           ms_per_step => Fits(mixer)'
    PROVE  Phase'
<1>1. CASE owed = 1 /\ Running
  <2>1. Running'
    BY <1>1 DEF Running, Fits
  <2> QED
    BY <1>1, <2>1, BetweenCalls
<1>2. CASE owed = 0 /\ Shut /\ audio_device = 0 /\ Still
  <2>1. Shut'
    BY <1>2 DEF Shut, Closed
  <2> QED
    BY <1>2, <2>1, BetweenCalls
<1> QED
  BY <1>1, <1>2, IdlePhase DEF IInv

LEMMA RunningSpec ==
    ASSUME IInv, Idle, ms_per_step
    PROVE  Fits(mixer) /\ music_spec = mixer /\ mixer.size \in Nat \ {0}
<1>1. Running
  BY IdlePhase DEF IInv, Shut
<1> QED
  BY <1>1, LifecycleAssumption DEF Running

LEMMA PlayKeeps ==
    ASSUME IInv, NEW m \in Music, Mix_PlayMusic(m)
    PROVE  IInv'
<1> USE DEF audio, interfaces, players
<1>1. /\ Idle /\ ms_per_step /\ m \in objects /\ music_playing' = m
      /\ UNCHANGED <<audio_opened, mixer, mix_channel, audio_device, device, cb, app,
               owed, music_spec, ms_per_step, loaded, opened, objects, mix_streams,
               mix_streams_buffer>>
  BY DEF Mix_PlayMusic
<1>2. Fits(mixer)'
  BY <1>1, RunningSpec DEF Fits
<1>3. Phase'
  BY <1>1, <1>2, MusicKeepsPhase
<1>4. TypeOK'
  BY <1>1 DEF IInv, TypeOK
<1> QED
  BY <1>1, <1>3, <1>4 DEF IInv, DevicesApart, Furnished, Closed

LEMMA PlayStreamKeeps ==
    ASSUME IInv, NEW m \in Music, Mix_PlayMusicStream(m)
    PROVE  IInv'
<1> USE DEF audio, interfaces, players
<1>1. /\ Idle /\ ms_per_step /\ m \in objects /\ ~Queued(m)
      /\ mix_streams' = Append(mix_streams, m)
      /\ mix_streams_buffer' = IF mix_streams_buffer = 0 THEN music_spec.size
                                                         ELSE mix_streams_buffer
      /\ UNCHANGED <<audio_opened, mixer, mix_channel, audio_device, device, cb, app,
               owed, music_spec, ms_per_step, loaded, opened, objects, music_playing>>
  BY DEF Mix_PlayMusicStream
<1>2. Fits(mixer) /\ music_spec = mixer /\ mixer.size \in Nat \ {0}
  BY <1>1, RunningSpec
<1>3. mix_streams_buffer' \in Nat \ {0} /\ Fits(mixer)'
  <2>1. mix_streams_buffer \in Nat
    BY DEF IInv, Furnished
  <2> QED
    BY <1>1, <1>2, <2>1 DEF Fits
<1>4. Phase'
  BY <1>1, <1>3, MusicKeepsPhase
<1>5. QueueOf(Music, mix_streams)' /\ ToSet(mix_streams)' = ToSet(mix_streams) \union {m}
  BY <1>1, Added DEF IInv, Queued
<1>6. TypeOK'
  BY <1>1, <1>5 DEF IInv, TypeOK, QueueOf
<1>7. Furnished'
  BY <1>1, <1>3 DEF IInv, Furnished, Closed
<1> QED
  BY <1>1, <1>4, <1>5, <1>6, <1>7 DEF IInv, DevicesApart

LEMMA FreeMusicKeeps ==
    ASSUME IInv, NEW m \in Music, Mix_FreeMusic(m)
    PROVE  IInv'
<1> USE DEF audio, interfaces, players
<1>1. /\ Idle /\ m \in objects /\ objects' = objects \ {m}
      /\ music_playing' = IF music_playing = m THEN NoMusic ELSE music_playing
      /\ mix_streams' = Unqueued(m)
      /\ UNCHANGED <<audio_opened, mixer, mix_channel, audio_device, device, cb, app,
               owed, music_spec, ms_per_step, loaded, opened, mix_streams_buffer>>
  BY DEF Mix_FreeMusic
<1>2. /\ QueueOf(Music, mix_streams)' /\ ToSet(mix_streams)' \subseteq ToSet(mix_streams) \ {m}
      /\ Len(mix_streams)' <= Len(mix_streams)
      /\ mix_streams = <<>> => mix_streams' = <<>>
  <2>1. Len(mix_streams) \in Nat /\ DOMAIN mix_streams = 1 .. Len(mix_streams)
    BY DEF IInv, QueueOf
  <2>2. CASE Queued(m)
    <3> DEFINE i == CHOOSE j \in DOMAIN mix_streams : mix_streams[j] = m
    <3>1. \E j \in DOMAIN mix_streams : mix_streams[j] = m
      BY <2>2 DEF Queued, ToSet
    <3>2. i \in 1 .. Len(mix_streams) /\ mix_streams[i] = m
      BY <2>1, <3>1
    <3>3. mix_streams' = RemoveAt(mix_streams, i)
      BY <1>1, <2>2 DEF Unqueued
    <3> HIDE DEF i
    <3>4. /\ QueueOf(Music, mix_streams)' /\ Len(mix_streams)' = Len(mix_streams) - 1
          /\ \A x \in ToSet(mix_streams)' : x \in ToSet(mix_streams) /\ x # m
      BY <3>2, <3>3, RemovedAt DEF IInv
    <3>5. mix_streams # <<>>
      BY <2>1, <3>2
    <3> QED
      BY <2>1, <3>4, <3>5
  <2>3. CASE ~Queued(m)
    BY <1>1, <2>1, <2>3 DEF IInv, Unqueued, Queued
  <2> QED
    BY <2>2, <2>3
<1>3. ms_per_step => Fits(mixer)'
  BY <1>1, RunningSpec DEF Fits
<1>4. ms_per_step \/ AtMost(0)'
  <2>1. ~ms_per_step => AtMost(0)
    BY <1>1, IdlePhase DEF IInv, Running, Shut
  <2>2. Len(mix_streams) \in Nat /\ Len(mix_streams)' \in Nat
    BY <1>2 DEF IInv, QueueOf
  <2> QED
    BY <1>2, <2>1, <2>2 DEF AtMost
<1>5. Phase'
  BY <1>1, <1>3, <1>4, MusicKeepsPhase
<1>6. TypeOK'
  <2>1. objects' \subseteq Music /\ music_playing' \in objects' \union {NoMusic}
    BY <1>1 DEF IInv, TypeOK
  <2>2. ToSet(mix_streams)' \subseteq objects' /\ IsInjective(mix_streams)'
    BY <1>1, <1>2 DEF IInv, TypeOK, QueueOf
  <2> QED
    BY <1>1, <2>1, <2>2 DEF IInv, TypeOK
<1>7. Furnished'
  BY <1>1, <1>2 DEF IInv, Furnished, Closed
<1> QED
  BY <1>1, <1>2, <1>5, <1>6, <1>7 DEF IInv, DevicesApart

\* A careful application quits when everything is gone.
LEMMA QuitKeeps ==
    ASSUME Careful, IInv, Mix_Quit
    PROVE  IInv'
<1> USE DEF audio, interfaces, players
<1>1. /\ Idle /\ audio_opened = 0 /\ objects = {} /\ objects' = {}
      /\ mix_streams' = <<>> /\ mix_streams_buffer' = 0 /\ loaded' = {}
      /\ UNCHANGED <<audio_opened, mixer, mix_channel, audio_device, device, cb, app,
               owed, music_spec, ms_per_step, opened, music_playing>>
  BY DEF Mix_Quit, Careful
<1>2. owed = 0 /\ Shut /\ audio_device = 0 /\ Still
  BY <1>1, IdlePhase DEF IInv, Running
<1>3. QueueOf(Music, mix_streams)' /\ ToSet(mix_streams)' = {} /\ AtMost(0)'
  BY <1>1 DEF QueueOf, IsInjective, ToSet, AtMost
<1>4. Shut'
  BY <1>1, <1>2, <1>3 DEF Shut, Closed
<1>5. Phase'
  BY <1>1, <1>2, <1>4, BetweenCalls
<1>6. TypeOK'
  BY <1>1, <1>3 DEF IInv, TypeOK, QueueOf
<1>7. Furnished'
  BY <1>1 DEF IInv, Furnished, Closed
<1> QED
  BY <1>1, <1>3, <1>5, <1>6, <1>7 DEF IInv, DevicesApart

LEMMA OpensKeep ==
    ASSUME Careful, IInv, NEW spec \in Specs, Mix_OpenAudio(spec) \/ Mix_InitMixer(spec)
    PROVE  IInv'
<1> USE DEF audio, interfaces, players
<1>1. /\ Idle /\ device[Own] = "closed" /\ owed < MaxOpens /\ Fits(spec)
      /\ UNCHANGED <<mixer, mix_channel, audio_device, device, cb, music_spec, ms_per_step, loaded,
                     opened, objects, music_playing, mix_streams, mix_streams_buffer>>
  BY DEF Mix_OpenAudio, Mix_InitMixer, Unless, AptSize, Careful, Fits
<1>2. DevicesApart'
  BY <1>1 DEF IInv, DevicesApart
<1>3. MaxOpens \in Nat
  BY LifecycleAssumption
<1>4. CASE owed = 0 /\ Shut /\ audio_device = 0 /\ Still
  <2>1. ~Matches(spec) /\ audio_opened = 0
    BY <1>4 DEF Matches, Shut
  <2>2. /\ audio_opened' = 0 /\ owed' = 1
        /\ app' = <<OpWith("open", spec)>> \/ app' = <<OpWith("init", spec)>>
    BY <1>4, <2>1 DEF Mix_OpenAudio, Mix_InitMixer, Unless
  <2>3. owed' \in 0 .. MaxOpens /\ audio_opened' \in 0 .. MaxOpens + 1
    BY <1>1, <1>3, <1>4, <2>2
  <2>4. TypeOK'
    BY <1>1, <2>3 DEF IInv, TypeOK
  <2>5. Shut' /\ Still' /\ Fits(spec)'
    BY <1>1, <1>4, <2>2 DEF Shut, Still, Fits, AtMost, Closed
  <2>6. Phase'
    <3>1. CASE app' = <<OpWith("open", spec)>>
      <4>1. IsOpening'
        BY <1>1, <1>4, <2>2, <2>5, <3>1 DEF IsOpening
      <4> QED
        BY <4>1 DEF Phase
    <3>2. CASE app' = <<OpWith("init", spec)>>
      <4>1. IsFreeing(InitEnd(spec))'
        BY <1>1, <1>4, <2>2, <2>5, <3>2 DEF IsFreeing, Behind, InitEnd
      <4>2. InitEnd(spec) \in Ends
        BY DEF Ends
      <4> QED
        BY <4>1, <4>2 DEF Phase
    <3> QED
      BY <2>2, <3>1, <3>2
  <2> QED
    BY <1>1, <1>2, <2>4, <2>6 DEF IInv, Furnished, Closed
<1>5. CASE owed = 1 /\ Running
  <2>1. audio_opened = 1 /\ audio_opened > 0
    BY <1>5 DEF Running
  <2>2. Mix_InitMixer(spec) /\ ~Matches(spec) /\ audio_device = 0
    BY <1>5 DEF Mix_OpenAudio, Mix_InitMixer, Careful
  <2>3. /\ app' = <<Op("free_mixers")>> \o <<OpWith("init", spec)>>
        /\ audio_opened' = audio_opened /\ owed' = owed
    BY <2>1, <2>2 DEF Mix_InitMixer, Unless
  <2>4. TypeOK'
    BY <1>1, <2>3 DEF IInv, TypeOK
  <2>5. Still' /\ Fits(spec)'
    BY <1>1, <2>2 DEF IInv, DevicesApart, Still, Fits, All, Own
  <2>6. Behind(InitEnd(spec))'
    BY <1>1, <1>5, <2>2, <2>3, <2>5 DEF Behind
  <2>7. IsFreeing(InitEnd(spec))'
    BY <1>1, <2>1, <2>3, <2>5, <2>6 DEF IsFreeing, ToClose, InitEnd
  <2>8. InitEnd(spec) \in Ends
    BY DEF Ends
  <2> QED
    BY <1>1, <1>2, <2>4, <2>7, <2>8 DEF IInv, Phase, Furnished, Closed
<1> QED
  BY <1>1, <1>4, <1>5, IdlePhase DEF IInv

LEMMA ClosesKeep ==
    ASSUME IInv, Mix_FreeMixer \/ Mix_CloseAudio
    PROVE  IInv'
<1> USE DEF audio, interfaces, players
<1>1. /\ Idle /\ device[Own] = "closed" /\ owed > 0 /\ owed' = owed - 1
      /\ UNCHANGED <<audio_opened, mixer, mix_channel, audio_device, device, cb, music_spec,
                     ms_per_step, loaded, opened, objects, music_playing, mix_streams,
                     mix_streams_buffer>>
  BY DEF Mix_FreeMixer, Mix_CloseAudio
<1>2. DevicesApart'
  BY <1>1 DEF IInv, DevicesApart
<1>3. owed = 1 /\ Running
  BY <1>1, IdlePhase DEF IInv
<1>4. MaxOpens \in Nat
  BY LifecycleAssumption
<1>5. owed' = 0 /\ owed' \in 0 .. MaxOpens
  BY <1>1, <1>3, <1>4
<1>6. TypeOK'
  BY <1>1, <1>5 DEF IInv, TypeOK
<1>7. Running'
  BY <1>1, <1>3 DEF Running, Fits
<1>8. Phase'
  <2>1. CASE Mix_CloseAudio
    <3>1. app' = Close
      BY <2>1 DEF Mix_CloseAudio
    <3> QED
      BY <1>1, <1>5, <1>7, <3>1 DEF Phase, IsClosing
  <2>2. CASE Mix_FreeMixer
    <3>1. app' = <<Op("free_mixer")>> /\ audio_device = 0
      BY <2>2 DEF Mix_FreeMixer
    <3>2. app' = <<Op("free_mixer")>> \o <<>>
      <4>1. <<Op("free_mixer")>> \in Seq({Op("free_mixer")})
        OBVIOUS
      <4> QED
        BY <3>1, <4>1, ConcatEmptySeq
    <3>3. Still'
      BY <1>1, <3>1 DEF IInv, DevicesApart, Still, All, Own
    <3>4. audio_opened' = 1 /\ audio_device' = 0
      BY <1>1, <1>3, <3>1 DEF Running
    <3>5. IsFreeing(<<>>)'
      BY <1>5, <3>2, <3>3, <3>4 DEF IsFreeing, Behind, ToClose
    <3>6. <<>> \in Ends
      BY DEF Ends
    <3> QED
      BY <3>5, <3>6 DEF Phase
  <2> QED
    BY <2>1, <2>2
<1> QED
  BY <1>1, <1>2, <1>6, <1>8 DEF IInv, Furnished, Closed

\* The application pauses the device, or begins or ends to call the mixer itself.
LEMMA DevicesKeep ==
    ASSUME IInv, (\E pause_on \in BOOLEAN : Mix_PauseAudio(pause_on)) \/ Driven
    PROVE  IInv'
<1> USE DEF audio, interfaces, players
<1>1. /\ Idle
      /\ UNCHANGED <<audio_opened, mixer, mix_channel, audio_device, cb, music_spec,
                     ms_per_step, loaded, opened, objects, music_playing, mix_streams,
                     mix_streams_buffer, app, owed>>
  BY DEF Mix_PauseAudio, Driven
<1>2. PICK dev \in All, at \in {"closed", "paused", "running"} :
        /\ device' = [device EXCEPT ![dev] = at] /\ cb[dev] = "idle"
        /\ dev = Own \/ dev = audio_device
  <2>1. CASE \E pause_on \in BOOLEAN : Mix_PauseAudio(pause_on)
    BY <2>1 DEF Mix_PauseAudio, Locked, IInv, TypeOK, All
  <2>2. CASE Driven
    <3>1. Own \in All
      BY DEF All
    <3>2. CASE device[Own] = "closed"
      BY <2>2, <3>1, <3>2 DEF Driven, Apart
    <3>3. CASE device[Own] # "closed"
      BY <2>2, <3>1, <3>3 DEF Driven, Apart
    <3> QED
      BY <3>2, <3>3
  <2> QED
    BY <2>1, <2>2
<1>3. owed = 1 /\ Running
  <2>1. audio_device # 0 \/ owed > 0
    BY DEF Mix_PauseAudio, Driven
  <2> QED
    BY <1>1, <2>1, IdlePhase DEF IInv
<1>4. Phase'
  BY <1>1, <1>3 DEF Phase, IsRunning, Running, Idle, Fits
<1>5. DevicesApart'
  BY <1>1, <1>2 DEF IInv, TypeOK, DevicesApart
<1>6. TypeOK'
  BY <1>1, <1>2 DEF IInv, TypeOK
<1> QED
  BY <1>1, <1>4, <1>5, <1>6 DEF IInv, Furnished, Closed

-----------------------------------------------------------------------------
(* The theorems.                                                            *)

LEMMA Starts == Init => IInv
<1> SUFFICES ASSUME Init PROVE IInv
  OBVIOUS
<1>1. MaxOpens \in Nat
  BY LifecycleAssumption
<1>2. 0 \in 0 .. MaxOpens + 1 /\ 0 \in 0 .. MaxOpens
  BY <1>1
<1>3. QueueOf(Music, mix_streams) /\ ToSet(mix_streams) = {} /\ AtMost(0)
  BY DEF Init, QueueOf, IsInjective, ToSet, AtMost
<1>4. TypeOK
  BY <1>2, <1>3 DEF Init, TypeOK, QueueOf, Closed
<1>5. IsFreeing(<<>>)
  BY <1>3 DEF Init, IsFreeing, Behind, Still, Shut, All, Own
<1>6. <<>> \in Ends
  BY DEF Ends
<1>7. DevicesApart /\ Furnished
  BY DEF Init, DevicesApart, Furnished
<1> QED
  BY <1>3, <1>4, <1>5, <1>6, <1>7 DEF IInv, Phase

LEMMA Keeps ==
    ASSUME Careful, IInv, [Next]_vars
    PROVE  IInv'
<1>1. CASE Call
  BY <1>1, LoadsKeep, PlayKeeps, PlayStreamKeeps, FreeMusicKeeps, QuitKeeps, OpensKeep,
     ClosesKeep, DevicesKeep DEF Call
<1>2. CASE Step
  BY <1>2, PauseKeeps, FreeMixerKeeps, HaltKeeps, HaltEachKeeps, CloseInterfacesKeeps,
     FreeChannelsKeeps, CloseDeviceKeeps, InitKeeps, OpenKeeps DEF Step
<1>3. CASE \E dev \in All : Callback(dev) \/ MixMusic(dev) \/ MixStreams(dev) \/ MixChannels(dev)
  BY <1>3, CallbackKeeps
<1>4. CASE UNCHANGED vars
  <2>1. /\ UNCHANGED <<audio_opened, mixer, mix_channel, audio_device, device>>
        /\ UNCHANGED <<cb, music_spec, ms_per_step, loaded, opened>>
        /\ UNCHANGED <<objects, music_playing, mix_streams, mix_streams_buffer, app, owed>>
    BY <1>4 DEF vars, audio, interfaces, players
  <2>2. TypeOK'
    BY <2>1 DEF IInv, TypeOK
  <2>3. DevicesApart' /\ Furnished' /\ QueueOf(Music, mix_streams)'
    BY <2>1 DEF IInv, DevicesApart, Furnished, QueueOf, Closed
  <2>4. (Running <=> Running') /\ (Shut <=> Shut') /\ (Still <=> Still') /\ (Idle <=> Idle')
    BY <2>1 DEF Running, Shut, Still, Fits, AtMost, Idle, Closed
  <2>5. \A e \in Ends : IsFreeing(e) => IsFreeing(e)'
    BY <2>1, <2>4 DEF IsFreeing, Behind, ToClose, HasClosed, Fits, AtMost, Closed
  <2>6. Phase'
    BY <2>1, <2>4, <2>5 DEF IInv, Phase, IsRunning, IsOpening, IsClosing, Fits
  <2> QED
    BY <2>2, <2>3, <2>6 DEF IInv
<1> QED
  BY <1>1, <1>2, <1>3, <1>4 DEF Next

LEMMA ServesCallback ==
    ASSUME IInv
    PROVE  MixerWhileCalled
<1> SUFFICES ASSUME NEW dev \in All, cb[dev] # "idle"
             PROVE  /\ cb[dev] = "music" /\ music_playing # NoMusic => Usable(music_playing)
                    /\ cb[dev] = "streams" /\ mix_streams # <<>> =>
                          /\ \A m \in ToSet(mix_streams) : Usable(m)
                          /\ mixer.size <= mix_streams_buffer
                    /\ cb[dev] = "channels" => mix_channel
  BY DEF IInv, MixerWhileCalled
<1>1. Running
  BY Called
<1>2. \A m \in objects : Usable(m)
  BY <1>1, LifecycleAssumption DEF IInv, TypeOK, Furnished, Running, Usable
<1>3. ToSet(mix_streams) \subseteq objects /\ music_playing \in objects \union {NoMusic}
  BY DEF IInv, TypeOK
<1>4. mix_streams # <<>> => mixer.size <= mix_streams_buffer
  BY <1>1 DEF Running, Fits, IInv, Furnished
<1>5. mix_channel
  BY <1>1 DEF Running
<1> QED
  BY <1>2, <1>3, <1>4, <1>5

\* Whenever the device, or the application itself, calls the mixer, the decoders of
\* what plays are open, the buffer holds what is mixed, and the channels are there,
\* whatever was opened, initialised again, closed and quit before (Mix_FreeMixer,
\* close_music, Mix_CloseAudio of mixer.c and music.c), for a careful application.
THEOREM MixerServed ==
    ASSUME Careful
    PROVE  Spec => []MixerWhileCalled
<1>1. Init => IInv
  BY Starts
<1>2. IInv /\ [Next]_vars => IInv'
  BY Keeps
<1>3. IInv => MixerWhileCalled
  BY ServesCallback
<1> QED
  BY <1>1, <1>2, <1>3, PTL DEF Spec

\* While the mixer is open, every decoder that is loaded is open for its format and
\* for no earlier one (open_music, load_music_type), for a careful application.
THEOREM DecodersFollow ==
    ASSUME Careful
    PROVE  Spec => []OpenedForOutput
<1>1. Init => IInv
  BY Starts
<1>2. IInv /\ [Next]_vars => IInv'
  BY Keeps
<1>3. IInv => OpenedForOutput
  BY IdlePhase DEF IInv, Shut, Running, OpenedForOutput
<1> QED
  BY <1>1, <1>2, <1>3, PTL DEF Spec

\* The mixer is open from the call that opens it to the one that closes it, and after
\* that nothing plays and nothing is open (Mix_CloseAudio of mixer.c), for a careful
\* application with three pieces of music at most: closing halts each stream only
\* if there are no more.
THEOREM ClosedWhenClosed ==
    ASSUME Careful, Few
    PROVE  Spec => []OpenUntilClosed
<1>1. Init => IInv
  BY Starts
<1>2. IInv /\ [Next]_vars => IInv'
  BY Keeps
<1>3. ASSUME IInv PROVE OpenUntilClosed
  <2>1. SUFFICES ASSUME Idle
                 PROVE  IF owed > 0 THEN audio_opened > 0 /\ mix_channel
                        ELSE /\ audio_opened = 0 /\ ~mix_channel
                             /\ \A dev \in All : device[dev] = "closed"
                             /\ music_playing = NoMusic /\ mix_streams = <<>>
                             /\ opened = Closed
    BY DEF OpenUntilClosed
  <2>2. CASE owed = 1 /\ Running
    BY <2>2 DEF Running
  <2>3. CASE owed = 0 /\ Shut /\ audio_device = 0 /\ Still
    <3>1. \A dev \in All : device[dev] = "closed"
      <4>1. DevicesApart
        BY <1>3 DEF IInv
      <4>2. Still /\ audio_device = 0
        BY <2>3
      <4> QED
        BY <4>1, <4>2 DEF DevicesApart, Still, Own
    <3>2. mix_streams \in Seq(Music) /\ Len(mix_streams) \in Nat
      BY <1>3 DEF IInv, QueueOf
    <3>3. Len(mix_streams) <= 0
      BY <2>3 DEF Shut, AtMost
    <3>4. Len(mix_streams) = 0
      BY <3>2, <3>3
    <3>5. mix_streams = <<>>
      BY <3>2, <3>4, EmptySeq
    <3> QED
      BY <2>3, <3>1, <3>5 DEF Shut
  <2> QED
    BY <1>3, <2>1, <2>2, <2>3, IdlePhase DEF IInv
<1> QED
  BY <1>1, <1>2, <1>3, PTL DEF Spec
=============================================================================
