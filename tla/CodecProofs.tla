----------------------------- MODULE CodecProofs -----------------------------
(***************************************************************************)
(* Every decoder plays the pieces of PlaysRight as they are written, and    *)
(* music is halted by its end only when it is over: for pieces, blocks and  *)
(* requests of every length, and whatever the application does between the  *)
(* callbacks.                                                              *)
(*                                                                         *)
(* What is due is a recursive function (Ahead): its equation is proved      *)
(* first, and what it gives step by step.  The invariant (Along) then says  *)
(* that the frames of the stream are the next ones due, and that the        *)
(* decoder stands where they lead to (Meets).                              *)
(***************************************************************************)
EXTENDS Codec, Induction, SequenceTheorems, FiniteSetTheorems

-----------------------------------------------------------------------------
(* What is due after a number of frames.                                    *)

LEMMA AheadEquation ==
    ASSUME NEW c, NEW u, NEW n \in Nat
    PROVE  Ahead(c, u, n) =
             [k \in 0 .. n |-> IF k = 0 THEN u ELSE After(c, Ahead(c, u, n)[k - 1])]
<1> DEFINE Solves(g, m) == g = [k \in 0 .. m |-> IF k = 0 THEN u ELSE After(c, g[k - 1])]
           S == {m \in Nat : \E g : Solves(g, m)}
<1>1. 0 \in S
  <2>1. Solves([k \in 0 .. 0 |-> u], 0)
    OBVIOUS
  <2> QED
    BY <2>1
<1>2. ASSUME NEW m \in Nat, m \in S PROVE m + 1 \in S
  <2>1. PICK g : Solves(g, m)
    BY <1>2
  <2> DEFINE h == [k \in 0 .. m + 1 |-> IF k = 0 THEN u ELSE After(c, g[k - 1])]
  <2>2. Solves(h, m + 1)
    BY <2>1
  <2> HIDE DEF h
  <2>3. m + 1 \in Nat
    OBVIOUS
  <2> QED
    BY <2>2, <2>3
<1>3. \A m \in Nat : m \in S
  <2> HIDE DEF S
  <2> QED
    BY <1>1, <1>2, NumberInduction
<1>4. \E g : Solves(g, n)
  BY <1>3
<1> QED
  BY <1>4 DEF Ahead

At(c, u, k) == Ahead(c, u, k)[k]

LEMMA AheadAt ==
    ASSUME NEW c, NEW u, NEW n \in Nat, NEW k \in 0 .. n
    PROVE  Ahead(c, u, n)[k] = At(c, u, k)
<1> DEFINE S == {i \in Nat : \A m \in Nat : i <= m => Ahead(c, u, m)[i] = At(c, u, i)}
<1>1. 0 \in S
  <2>1. \A m \in Nat : Ahead(c, u, m)[0] = u
    BY AheadEquation
  <2> QED
    BY <2>1 DEF At
<1>2. ASSUME NEW i \in Nat, i \in S PROVE i + 1 \in S
  <2>1. \A m \in Nat : i + 1 <= m => Ahead(c, u, m)[i + 1] = After(c, Ahead(c, u, m)[i])
    <3> SUFFICES ASSUME NEW m \in Nat, i + 1 <= m
                 PROVE  Ahead(c, u, m)[i + 1] = After(c, Ahead(c, u, m)[i])
      OBVIOUS
    <3>1. i + 1 \in 0 .. m /\ i + 1 # 0 /\ (i + 1) - 1 = i
      OBVIOUS
    <3> QED
      BY <3>1, AheadEquation
  <2>2. \A m \in Nat : i + 1 <= m => Ahead(c, u, m)[i + 1] = After(c, At(c, u, i))
    BY <2>1, <1>2
  <2> QED
    BY <2>2 DEF At
<1>3. \A i \in Nat : i \in S
  <2> HIDE DEF S
  <2> QED
    BY <1>1, <1>2, NumberInduction
<1> QED
  BY <1>3

LEMMA AtSteps ==
    ASSUME NEW c, NEW u
    PROVE  /\ At(c, u, 0) = u
           /\ \A k \in Nat : At(c, u, k + 1) = After(c, At(c, u, k))
<1>1. At(c, u, 0) = u
  BY AheadEquation DEF At
<1>2. ASSUME NEW k \in Nat PROVE At(c, u, k + 1) = After(c, At(c, u, k))
  <2>1. /\ k + 1 \in Nat /\ k + 1 \in 0 .. k + 1 /\ k + 1 # 0 /\ (k + 1) - 1 = k
        /\ k \in 0 .. k + 1
    OBVIOUS
  <2>2. Ahead(c, u, k + 1)[k + 1] = After(c, Ahead(c, u, k + 1)[k])
    BY <2>1, AheadEquation
  <2> QED
    BY <2>1, <2>2, AheadAt DEF At
<1> QED
  BY <1>1, <1>2

LEMMA AtPlus ==
    ASSUME NEW c, NEW u, NEW m \in Nat, NEW n \in Nat
    PROVE  At(c, u, m + n) = At(c, At(c, u, m), n)
<1> DEFINE S == {k \in Nat : At(c, u, m + k) = At(c, At(c, u, m), k)}
<1>1. 0 \in S
  BY AtSteps
<1>2. ASSUME NEW k \in Nat, k \in S PROVE k + 1 \in S
  <2>1. At(c, u, (m + k) + 1) = After(c, At(c, u, m + k))
    BY AtSteps, m + k \in Nat
  <2>2. At(c, At(c, u, m), k + 1) = After(c, At(c, At(c, u, m), k))
    BY AtSteps
  <2>3. (m + k) + 1 = m + (k + 1)
    OBVIOUS
  <2> QED
    BY <1>2, <2>1, <2>2, <2>3
<1>3. \A k \in Nat : k \in S
  <2> HIDE DEF S
  <2> QED
    BY <1>1, <1>2, NumberInduction
<1> QED
  BY <1>3

-----------------------------------------------------------------------------
(* What is heard of a sequence of frames.                                   *)

\* The frames s are those due from u on.
Heard(c, u, s) == \A k \in DOMAIN s : s[k] = Frame(At(c, u, k - 1))

LEMMA HeardIsAhead ==
    ASSUME NEW c, NEW u, NEW s \in Seq(Int)
    PROVE  /\ LET states == Ahead(c, u, Len(s))
              IN  (\A k \in DOMAIN s : s[k] = Frame(states[k - 1])) <=> Heard(c, u, s)
           /\ Ahead(c, u, Len(s))[Len(s)] = At(c, u, Len(s))
<1>1. \A k \in DOMAIN s : Ahead(c, u, Len(s))[k - 1] = At(c, u, k - 1)
  <2> SUFFICES ASSUME NEW k \in DOMAIN s PROVE Ahead(c, u, Len(s))[k - 1] = At(c, u, k - 1)
    OBVIOUS
  <2>1. Len(s) \in Nat /\ k - 1 \in 0 .. Len(s)
    OBVIOUS
  <2> QED
    BY <2>1, AheadAt
<1> QED
  BY <1>1 DEF Heard, At

LEMMA HeardNothing == ASSUME NEW c, NEW u PROVE Heard(c, u, <<>>)
  BY DEF Heard

LEMMA HeardJoined ==
    ASSUME NEW c, NEW u, NEW s \in Seq(Int), NEW t \in Seq(Int),
           Heard(c, u, s), Heard(c, At(c, u, Len(s)), t)
    PROVE  /\ Heard(c, u, s \o t)
           /\ At(c, u, Len(s \o t)) = At(c, At(c, u, Len(s)), Len(t))
<1>1. Len(s) \in Nat /\ Len(t) \in Nat /\ s \o t \in Seq(Int) /\ Len(s \o t) = Len(s) + Len(t)
  OBVIOUS
<1>2. ASSUME NEW k \in DOMAIN (s \o t) PROVE (s \o t)[k] = Frame(At(c, u, k - 1))
  <2>1. CASE k <= Len(s)
    <3>1. k \in DOMAIN s /\ (s \o t)[k] = s[k]
      BY <2>1, <1>1
    <3> QED
      BY <3>1 DEF Heard
  <2>2. CASE k > Len(s)
    <3> DEFINE j == k - Len(s)
    <3>1. j \in DOMAIN t /\ (s \o t)[k] = t[j] /\ j - 1 \in Nat /\ k - 1 = Len(s) + (j - 1)
      BY <2>2, <1>1
    <3>2. t[j] = Frame(At(c, At(c, u, Len(s)), j - 1))
      BY <3>1 DEF Heard
    <3>3. At(c, At(c, u, Len(s)), j - 1) = At(c, u, Len(s) + (j - 1))
      BY <1>1, <3>1, AtPlus
    <3> QED
      BY <3>1, <3>2, <3>3
  <2>3. k \in Nat
    BY <1>1
  <2> QED
    BY <2>1, <2>2, <2>3, <1>1
<1>3. At(c, u, Len(s) + Len(t)) = At(c, At(c, u, Len(s)), Len(t))
  BY <1>1, AtPlus
<1> QED
  BY <1>1, <1>2, <1>3 DEF Heard

\* The frames m to n of a sequence.
LEMMA Cut ==
    ASSUME NEW s \in Seq(Int), NEW m \in Nat \ {0}, NEW n \in Nat, m <= n + 1, n <= Len(s)
    PROVE  /\ SubSeq(s, m, n) \in Seq(Int)
           /\ Len(SubSeq(s, m, n)) = n + 1 - m
           /\ \A k \in 1 .. n + 1 - m : SubSeq(s, m, n)[k] = s[m + k - 1]
<1>1. \A i \in m .. n : s[i] \in Int
  OBVIOUS
<1>2. SubSeq(s, m, n) \in Seq(Int)
  BY <1>1, SubSeqProperties
<1>3. Len(SubSeq(s, m, n)) = IF m <= n THEN n-m+1 ELSE 0
  OBVIOUS
<1>4. ASSUME NEW k \in 1 .. n + 1 - m PROVE SubSeq(s, m, n)[k] = s[m + k - 1]
  OBVIOUS
<1> QED
  BY <1>2, <1>3, <1>4

LEMMA CutAt ==
    ASSUME NEW s \in Seq(Int), NEW n \in 0 .. Len(s)
    PROVE  /\ SubSeq(s, 1, n) \in Seq(Int) /\ Len(SubSeq(s, 1, n)) = n
           /\ \A k \in 1 .. n : SubSeq(s, 1, n)[k] = s[k]
           /\ SubSeq(s, n + 1, Len(s)) \in Seq(Int)
           /\ Len(SubSeq(s, n + 1, Len(s))) = Len(s) - n
           /\ \A k \in 1 .. Len(s) - n : SubSeq(s, n + 1, Len(s))[k] = s[n + k]
<1>1. /\ n + 1 \in Nat \ {0} /\ Len(s) \in Nat /\ n + 1 <= Len(s) + 1
      /\ 1 \in Nat \ {0} /\ n \in Nat /\ 1 <= n + 1 /\ n <= Len(s)
  OBVIOUS
<1>2. SubSeq(s, 1, n) \in Seq(Int) /\ Len(SubSeq(s, 1, n)) = n
  BY <1>1, Cut
<1>3. ASSUME NEW k \in 1 .. n PROVE SubSeq(s, 1, n)[k] = s[k]
  OBVIOUS
<1>4. SubSeq(s, n + 1, Len(s)) \in Seq(Int)
  BY <1>1, Cut
<1>5. Len(SubSeq(s, n + 1, Len(s))) = Len(s) - n
  BY <1>1
<1>6. ASSUME NEW k \in 1 .. Len(s) - n PROVE SubSeq(s, n + 1, Len(s))[k] = s[n + k]
  OBVIOUS
<1> QED
  BY <1>2, <1>3, <1>4, <1>5, <1>6

LEMMA HeardSplit ==
    ASSUME NEW c, NEW u, NEW s \in Seq(Int), NEW n \in 0 .. Len(s), Heard(c, u, s)
    PROVE  LET head == SubSeq(s, 1, n)
               tail == SubSeq(s, n + 1, Len(s))
           IN  /\ head \in Seq(Int) /\ Len(head) = n /\ Heard(c, u, head)
               /\ tail \in Seq(Int) /\ Len(tail) = Len(s) - n
               /\ Heard(c, At(c, u, n), tail)
               /\ At(c, At(c, u, n), Len(s) - n) = At(c, u, Len(s))
<1> DEFINE head == SubSeq(s, 1, n)
           tail == SubSeq(s, n + 1, Len(s))
<1>0. Len(s) \in Nat /\ n \in Nat /\ Len(s) - n \in Nat /\ n + (Len(s) - n) = Len(s)
  OBVIOUS
<1>1. /\ head \in Seq(Int) /\ Len(head) = n
      /\ \A k \in 1 .. n : head[k] = s[k]
      /\ tail \in Seq(Int) /\ Len(tail) = Len(s) - n
      /\ \A k \in 1 .. Len(s) - n : tail[k] = s[n + k]
  BY CutAt
<1> HIDE DEF head, tail
<1>2. DOMAIN head = 1 .. n /\ DOMAIN tail = 1 .. Len(s) - n /\ DOMAIN s = 1 .. Len(s)
  BY <1>1
<1>3. Heard(c, u, head)
  BY <1>0, <1>1, <1>2 DEF Heard
<1>4. Heard(c, At(c, u, n), tail)
  <2> SUFFICES ASSUME NEW k \in 1 .. Len(s) - n PROVE tail[k] = Frame(At(c, At(c, u, n), k - 1))
    BY <1>2 DEF Heard
  <2>1. /\ n + k \in DOMAIN s /\ k - 1 \in Nat /\ (n + k) - 1 = n + (k - 1)
    BY <1>0, <1>2
  <2>2. s[n + k] = Frame(At(c, u, (n + k) - 1))
    BY <2>1 DEF Heard
  <2>3. At(c, u, n + (k - 1)) = At(c, At(c, u, n), k - 1)
    BY <1>0, <2>1, AtPlus
  <2> QED
    BY <1>1, <2>1, <2>2, <2>3
<1>5. At(c, u, n + (Len(s) - n)) = At(c, At(c, u, n), Len(s) - n)
  BY <1>0, AtPlus
<1> QED
  BY <1>0, <1>1, <1>3, <1>4, <1>5 DEF head, tail

-----------------------------------------------------------------------------
(* The reference: what is due.                                              *)

\* A piece that its decoder plays right.
Proper(c) ==
    /\ c \in CaseType
    /\ c.end <= c.length /\ (c.end > 0 => c.start < c.end)
    /\ \A p \in c.seeks : p < c.length
    /\ PlaysRight(c)

Passes == {-1} \union (Nat \ {0})
Points(c) == [DOMAIN c.points -> Int]

\* A place in a piece, after the frames of a queue, and the end of a piece.
Place(q, x, p, t) == [queue |-> q, pos |-> x, passes |-> p, points |-> t, over |-> FALSE]
Ended(q, x, p, t) == [queue |-> q, pos |-> x, passes |-> p, points |-> t, over |-> TRUE]
Due(c) == [queue : Seq(Int), pos : Nat, passes : Passes, points : Points(c), over : BOOLEAN]

LEMMA CaseFields ==
    ASSUME NEW c, Proper(c)
    PROVE  /\ c.codec \in Codecs /\ c.length \in Nat /\ c.start \in Nat /\ c.end \in Nat
           /\ c.page \in Nat /\ c.points \in Seq([start : Nat, stop : Nat, count : Nat])
           /\ c.seeks \subseteq Nat /\ c.calls \subseteq {"stop", "seek"}
           /\ Tagged(c) => c.start < c.end /\ c.end <= c.length
           /\ c.codec # "wav" => c.points = <<>>
<1>1. c \in CaseType /\ c.end <= c.length /\ (c.end > 0 => c.start < c.end) /\ PlaysRight(c)
  BY DEF Proper
<1>2. /\ c.codec \in Codecs /\ c.length \in Nat /\ c.start \in Nat /\ c.end \in Nat
      /\ c.page \in Nat /\ c.points \in Seq([start : Nat, stop : Nat, count : Nat])
      /\ c.seeks \subseteq Nat /\ c.calls \subseteq {"stop", "seek"}
  BY <1>1 DEF CaseType
<1>3. c.codec # "wav" => c.points = <<>>
  BY <1>1 DEF PlaysRight
<1> QED
  BY <1>1, <1>2, <1>3 DEF Tagged

LEMMA PointFields ==
    ASSUME NEW c, Proper(c), NEW i \in DOMAIN c.points
    PROVE  /\ c.points[i].start \in Nat /\ c.points[i].stop \in Nat /\ c.points[i].count \in Nat
           /\ c.codec = "wav"
           /\ c.points[i].start + Block <= c.points[i].stop + 1 /\ c.points[i].stop < c.length
<1>1. c.points \in Seq([start : Nat, stop : Nat, count : Nat])
  BY CaseFields
<1>2. c.points[i] \in [start : Nat, stop : Nat, count : Nat]
  <2> DEFINE P == [start : Nat, stop : Nat, count : Nat]
  <2>1. c.points \in Seq(P)
    BY <1>1
  <2> HIDE DEF P
  <2>2. c.points[i] \in P
    BY <2>1
  <2> QED
    BY <2>2 DEF P
<1>3. c.points # <<>>
  BY <1>1
<1> QED
  BY <1>2, <1>3 DEF Proper, PlaysRight, PointsApart

\* At most one loop lies around a position.
LEMMA AroundOne ==
    ASSUME NEW c, Proper(c), NEW t, NEW x \in Nat, NEW i \in Around(c, t, x), DOMAIN t = DOMAIN c.points
    PROVE  /\ Around(c, t, x) = {i} /\ Leading(Around(c, t, x)) = i
           /\ i \in DOMAIN c.points /\ t[i] # -1
           /\ c.points[i].start <= x /\ x <= c.points[i].stop
<1>1. i \in DOMAIN c.points /\ t[i] # -1 /\ x \in c.points[i].start .. c.points[i].stop
  BY DEF Around
<1>2. c.points[i].start \in Nat /\ c.points[i].stop \in Nat
  BY <1>1, PointFields
<1>3. ASSUME NEW j \in Around(c, t, x), j # i PROVE FALSE
  <2>1. j \in DOMAIN c.points /\ x \in c.points[j].start .. c.points[j].stop
    BY DEF Around
  <2>2. c.points[j].start \in Nat /\ c.points[j].stop \in Nat
    BY <2>1, PointFields
  <2>3. c.points # <<>>
    BY <1>1, CaseFields
  <2>4. PointsApart(c)
    BY <2>3 DEF Proper, PlaysRight
  <2> QED
    BY <1>1, <1>2, <1>3, <2>1, <2>2, <2>4 DEF PointsApart
<1>4. Around(c, t, x) = {i}
  BY <1>3
<1>5. i \in Nat
  BY <1>1, CaseFields
<1>6. Leading({i}) = i
  BY <1>5 DEF Leading
<1> QED
  BY <1>1, <1>2, <1>4, <1>6

LEMMA FewerPasses == \A p \in Passes : p # 1 => Fewer(p) \in Passes
  BY DEF Passes, Fewer

LEMMA FreshPoints == ASSUME NEW c, Proper(c) PROVE Fresh(c) \in Points(c)
<1>1. ASSUME NEW i \in DOMAIN c.points PROVE c.points[i].count \in Int
  BY PointFields
<1> QED
  BY <1>1 DEF Fresh, Points

LEMMA PlaceDue ==
    ASSUME NEW c, NEW q \in Seq(Int), NEW x \in Nat, NEW p \in Passes, NEW t \in Points(c)
    PROVE  Place(q, x, p, t) \in Due(c) /\ Ended(q, x, p, t) \in Due(c)
  BY DEF Place, Ended, Due

LEMMA DuePlace ==
    ASSUME NEW c, NEW u \in Due(c)
    PROVE  /\ u.over => u = Ended(u.queue, u.pos, u.passes, u.points)
           /\ ~u.over => u = Place(u.queue, u.pos, u.passes, u.points)
           /\ u.queue \in Seq(Int) /\ u.pos \in Nat /\ u.passes \in Passes
           /\ u.points \in Points(c) /\ u.over \in BOOLEAN
  BY DEF Place, Ended, Due

LEMMA PlaceFields ==
    ASSUME NEW q, NEW x, NEW p, NEW t
    PROVE  /\ Place(q, x, p, t).queue = q /\ Ended(q, x, p, t).queue = q
           /\ Place(q, x, p, t).pos = x /\ Ended(q, x, p, t).pos = x
           /\ Place(q, x, p, t).passes = p /\ Ended(q, x, p, t).passes = p
           /\ Place(q, x, p, t).points = t /\ Ended(q, x, p, t).points = t
           /\ ~Place(q, x, p, t).over /\ Ended(q, x, p, t).over
  BY DEF Place, Ended

\* Changes of a place.
LEMMA PlaceChanged ==
    ASSUME NEW q, NEW x, NEW p, NEW t
    PROVE  /\ \A y : [Place(q, x, p, t) EXCEPT !.queue = y] = Place(y, x, p, t)
           /\ \A y : [Ended(q, x, p, t) EXCEPT !.queue = y] = Ended(y, x, p, t)
           /\ \A y : [Place(q, x, p, t) EXCEPT !.pos = y] = Place(q, y, p, t)
           /\ \A y : [Place(q, x, p, t) EXCEPT !.passes = y] = Place(q, x, y, t)
           /\ \A y : [Place(q, x, p, t) EXCEPT !.points = y] = Place(q, x, p, y)
<1>1. \A y, o :
        /\ [[queue |-> q, pos |-> x, passes |-> p, points |-> t, over |-> o] EXCEPT !.queue = y] =
             [queue |-> y, pos |-> x, passes |-> p, points |-> t, over |-> o]
        /\ [[queue |-> q, pos |-> x, passes |-> p, points |-> t, over |-> o] EXCEPT !.pos = y] =
             [queue |-> q, pos |-> y, passes |-> p, points |-> t, over |-> o]
        /\ [[queue |-> q, pos |-> x, passes |-> p, points |-> t, over |-> o] EXCEPT !.passes = y] =
             [queue |-> q, pos |-> x, passes |-> y, points |-> t, over |-> o]
        /\ [[queue |-> q, pos |-> x, passes |-> p, points |-> t, over |-> o] EXCEPT !.points = y] =
             [queue |-> q, pos |-> x, passes |-> p, points |-> y, over |-> o]
  OBVIOUS
<1> QED
  BY <1>1, Zenon DEF Place, Ended

LEMMA PlaceEnded ==
    ASSUME NEW q, NEW x, NEW p, NEW t
    PROVE  [Place(q, x, p, t) EXCEPT !.over = TRUE] = Ended(q, x, p, t)
<1>1. \A y : [Place(q, x, p, t) EXCEPT !.over = y] =
               [queue |-> q, pos |-> x, passes |-> p, points |-> t, over |-> y]
  BY DEF Place
<1> QED
  BY <1>1, Zenon DEF Ended

\* Where what is due goes on, case by case.
LEMMA SettledForm ==
    ASSUME NEW c, NEW q, NEW x, NEW p, NEW t
    PROVE  LET back == Tagged(c) /\ p # 1 /\ x >= c.end
               to == Settled(c, Place(q, x, p, t))
           IN  /\ back => to = Place(q, c.start, Fewer(p), t)
               /\ ~back /\ x < c.length => to = Place(q, x, p, t)
               /\ ~back /\ ~(x < c.length) /\ p = 1 => to = Ended(q, x, p, t)
               /\ ~back /\ ~(x < c.length) /\ p # 1 => to = Place(q, 0, Fewer(p), Fresh(c))
<1> DEFINE u == Place(q, x, p, t)
<1>1. u.pos = x /\ u.passes = p
  BY PlaceFields
<1>2. /\ \A y, r : [u EXCEPT !.pos = y, !.passes = r] = Place(q, y, r, t)
      /\ \A r, f : [u EXCEPT !.pos = 0, !.passes = r, !.points = f] = Place(q, 0, r, f)
  <2>2. ASSUME NEW y, NEW r
        PROVE  [u EXCEPT !.pos = y, !.passes = r] = Place(q, y, r, t)
    <3>1. [u EXCEPT !.pos = y, !.passes = r] = [[u EXCEPT !.pos = y] EXCEPT !.passes = r]
      OBVIOUS
    <3>2. [u EXCEPT !.pos = y] = Place(q, y, p, t)
      BY PlaceChanged
    <3>3. [Place(q, y, p, t) EXCEPT !.passes = r] = Place(q, y, r, t)
      BY PlaceChanged
    <3> QED
      BY <3>1, <3>2, <3>3, Zenon
  <2>3. ASSUME NEW r, NEW f
        PROVE  [u EXCEPT !.pos = 0, !.passes = r, !.points = f] = Place(q, 0, r, f)
    <3>1. [u EXCEPT !.pos = 0, !.passes = r, !.points = f] =
            [[u EXCEPT !.pos = 0, !.passes = r] EXCEPT !.points = f]
      OBVIOUS
    <3>2. [u EXCEPT !.pos = 0, !.passes = r] = Place(q, 0, r, t)
      BY <2>2, Zenon
    <3>3. [Place(q, 0, r, t) EXCEPT !.points = f] = Place(q, 0, r, f)
      BY PlaceChanged
    <3> QED
      BY <3>1, <3>2, <3>3, Zenon
  <2> QED
    BY <2>2, <2>3, Zenon
<1>6. [u EXCEPT !.over = TRUE] = Ended(q, x, p, t)
  BY PlaceEnded
<1> HIDE DEF u
<1>3. [u EXCEPT !.pos = c.start, !.passes = Fewer(@)] =
        [u EXCEPT !.pos = c.start, !.passes = Fewer(p)]
  BY <1>1
<1>4. [u EXCEPT !.pos = 0, !.passes = Fewer(@), !.points = Fresh(c)] =
        [u EXCEPT !.pos = 0, !.passes = Fewer(p), !.points = Fresh(c)]
  BY <1>1
<1>5. [u EXCEPT !.pos = c.start, !.passes = Fewer(@)] = Place(q, c.start, Fewer(p), t)
  BY <1>2, <1>3, Zenon
<1>7. [u EXCEPT !.pos = 0, !.passes = Fewer(@), !.points = Fresh(c)] = Place(q, 0, Fewer(p), Fresh(c))
  BY <1>2, <1>4, Zenon
<1>8. LET back == Tagged(c) /\ p # 1 /\ x >= c.end
          to == Settled(c, u)
      IN  /\ back => to = Place(q, c.start, Fewer(p), t)
          /\ ~back /\ x < c.length => to = u
          /\ ~back /\ ~(x < c.length) /\ p = 1 => to = Ended(q, x, p, t)
          /\ ~back /\ ~(x < c.length) /\ p # 1 => to = Place(q, 0, Fewer(p), Fresh(c))
  BY <1>1, <1>5, <1>6, <1>7 DEF Settled
<1> QED
  BY <1>8 DEF u

LEMMA SettledPlace ==
    ASSUME NEW c, Proper(c), NEW q \in Seq(Int), NEW x \in Nat, NEW p \in Passes,
           NEW t \in Points(c)
    PROVE  Settled(c, Place(q, x, p, t)) \in Due(c)
<1>1. p # 1 => Fewer(p) \in Passes
  BY FewerPasses
<1>2. c.start \in Nat /\ Fresh(c) \in Points(c) /\ 0 \in Nat
  BY CaseFields, FreshPoints
<1>3. /\ p # 1 => Place(q, c.start, Fewer(p), t) \in Due(c)
      /\ Place(q, x, p, t) \in Due(c)
      /\ Ended(q, x, p, t) \in Due(c)
      /\ p # 1 => Place(q, 0, Fewer(p), Fresh(c)) \in Due(c)
  BY <1>1, <1>2, PlaceDue
<1> QED
  BY <1>3, SettledForm

\* No loop point ends at x.
NoLoopEnds(c, t, x) == \A i \in Around(c, t, x) : x # c.points[i].stop

LEMMA AfterStraight ==
    ASSUME NEW c, Proper(c), NEW x \in Nat, NEW p, NEW t \in Points(c), NoLoopEnds(c, t, x)
    PROVE  After(c, Place(<<>>, x, p, t)) = Settled(c, Place(<<>>, x + 1, p, t))
<1> DEFINE u == Place(<<>>, x, p, t)
           loops == Around(c, u.points, u.pos)
<1>1. u.queue = <<>> /\ u.pos = x /\ u.points = t /\ ~u.over
  BY PlaceFields
<1>2. ~(loops # {} /\ u.pos = c.points[Leading(loops)].stop)
  <2> SUFFICES ASSUME NEW i \in Around(c, t, x) PROVE x # c.points[Leading(Around(c, t, x))].stop
    BY <1>1
  <2>1. DOMAIN t = DOMAIN c.points
    BY DEF Points
  <2>2. Leading(Around(c, t, x)) = i
    BY <2>1, AroundOne
  <2> QED
    BY <2>2 DEF NoLoopEnds
<1>3. [u EXCEPT !.pos = x + 1] = Place(<<>>, x + 1, p, t)
  BY PlaceChanged
<1> HIDE DEF u
<1>4. [u EXCEPT !.pos = @ + 1] = [u EXCEPT !.pos = x + 1]
  BY <1>1
<1>5. After(c, u) = Settled(c, [u EXCEPT !.pos = @ + 1])
  BY <1>1, <1>2 DEF After
<1> QED
  BY <1>3, <1>4, <1>5 DEF u

LEMMA AfterLoop ==
    ASSUME NEW c, Proper(c), NEW x \in Nat, NEW p, NEW t \in Points(c),
           NEW i \in Around(c, t, x), x = c.points[i].stop
    PROVE  After(c, Place(<<>>, x, p, t)) =
             Settled(c, Place(<<>>, IF t[i] = 1 THEN x + 1 ELSE c.points[i].start, p, Played(t, i)))
<1> DEFINE u == Place(<<>>, x, p, t)
           loops == Around(c, u.points, u.pos)
           y == IF t[i] = 1 THEN x + 1 ELSE c.points[i].start
           f == Played(t, i)
<1>1. u.queue = <<>> /\ u.pos = x /\ u.points = t /\ ~u.over
  BY PlaceFields
<1>2. loops # {} /\ Leading(loops) = i
  <2>1. DOMAIN t = DOMAIN c.points
    BY DEF Points
  <2> QED
    BY <1>1, <2>1, AroundOne
<1>3. [u EXCEPT !.points = f, !.pos = y] = Place(<<>>, y, p, f)
  <2> HIDE DEF y, f
  <2>1. [u EXCEPT !.points = f, !.pos = y] = [[u EXCEPT !.points = f] EXCEPT !.pos = y]
    OBVIOUS
  <2>2. [u EXCEPT !.points = f] = Place(<<>>, x, p, f)
    BY PlaceChanged
  <2>3. [Place(<<>>, x, p, f) EXCEPT !.pos = y] = Place(<<>>, y, p, f)
    BY PlaceChanged
  <2> QED
    BY <2>1, <2>2, <2>3, Zenon
<1> HIDE DEF u
<1>4. After(c, u) = Settled(c, [u EXCEPT !.points = Played(@, i),
                                  !.pos = IF u.points[i] = 1 THEN @ + 1 ELSE c.points[i].start])
  BY <1>1, <1>2 DEF After
<1>5. [u EXCEPT !.points = Played(@, i),
                                  !.pos = IF u.points[i] = 1 THEN @ + 1 ELSE c.points[i].start]
        = [u EXCEPT !.points = f, !.pos = y]
  BY <1>1
<1> QED
  BY <1>3, <1>4, <1>5 DEF u

LEMMA AfterEnded ==
    ASSUME NEW c, NEW x, NEW p, NEW t
    PROVE  /\ After(c, Ended(<<>>, x, p, t)) = Ended(<<>>, x, p, t)
           /\ Frame(Ended(<<>>, x, p, t)) = Silent
<1> DEFINE u == Ended(<<>>, x, p, t)
<1>1. u.queue = <<>> /\ u.over
  BY PlaceFields
<1> HIDE DEF u
<1>2. After(c, u) = u /\ Frame(u) = Silent
  BY <1>1 DEF After, Frame
<1> QED
  BY <1>2 DEF u

LEMMA PlayedPoints ==
    ASSUME NEW c, NEW t \in Points(c), NEW i \in DOMAIN c.points
    PROVE  Played(t, i) \in Points(c)
  BY DEF Played, Points

LEMMA AfterDue ==
    ASSUME NEW c, Proper(c), NEW u \in Due(c)
    PROVE  After(c, u) \in Due(c)
<1> DEFINE x == u.pos  p == u.passes  t == u.points
<1>1. /\ u.over => u = Ended(u.queue, x, p, t)
      /\ ~u.over => u = Place(u.queue, x, p, t)
      /\ u.queue \in Seq(Int) /\ x \in Nat /\ p \in Passes /\ t \in Points(c)
      /\ u.over \in BOOLEAN
  BY DuePlace
<1>2. CASE u.queue # <<>>
  <2>1. After(c, u) = [u EXCEPT !.queue = Tail(@)]
    BY <1>2 DEF After
  <2>2. Tail(u.queue) \in Seq(Int)
    BY <1>1, <1>2
  <2> QED
    BY <2>1, <2>2 DEF Due
<1>3. CASE u.queue = <<>> /\ u.over
  BY <1>3 DEF After
<1>4. CASE u.queue = <<>> /\ ~u.over
  <2>0. u = Place(<<>>, x, p, t)
    BY <1>1, <1>4
  <2>1. CASE NoLoopEnds(c, t, x)
    <3>1. After(c, Place(<<>>, x, p, t)) = Settled(c, Place(<<>>, x + 1, p, t))
      BY <1>1, <2>1, AfterStraight
    <3>2. x + 1 \in Nat /\ <<>> \in Seq(Int)
      BY <1>1
    <3>3. Settled(c, Place(<<>>, x + 1, p, t)) \in Due(c)
      BY <1>1, <3>2, SettledPlace
    <3> QED
      BY <2>0, <3>1, <3>3
  <2>2. CASE ~NoLoopEnds(c, t, x)
    <3>1. PICK i \in Around(c, t, x) : x = c.points[i].stop
      BY <2>2 DEF NoLoopEnds
    <3> DEFINE y == IF t[i] = 1 THEN x + 1 ELSE c.points[i].start
    <3>2. After(c, Place(<<>>, x, p, t)) = Settled(c, Place(<<>>, y, p, Played(t, i)))
      BY <1>1, <3>1, AfterLoop
    <3>3. i \in DOMAIN c.points
      BY <1>1 DEF Around, Points
    <3>4. y \in Nat /\ Played(t, i) \in Points(c) /\ <<>> \in Seq(Int)
      BY <1>1, <3>3, PointFields, PlayedPoints
    <3>5. Settled(c, Place(<<>>, y, p, Played(t, i))) \in Due(c)
      BY <1>1, <3>4, SettledPlace
    <3> QED
      BY <2>0, <3>2, <3>5
  <2> QED
    BY <2>1, <2>2
<1> QED
  BY <1>1, <1>2, <1>3, <1>4

LEMMA AtDue ==
    ASSUME NEW c, Proper(c), NEW u \in Due(c), NEW n \in Nat
    PROVE  At(c, u, n) \in Due(c)
<1> DEFINE S == {k \in Nat : At(c, u, k) \in Due(c)}
<1>1. 0 \in S
  BY AtSteps
<1>2. ASSUME NEW k \in Nat, k \in S PROVE k + 1 \in S
  <2>1. After(c, At(c, u, k)) \in Due(c)
    BY <1>2, AfterDue
  <2>2. At(c, u, k + 1) = After(c, At(c, u, k))
    BY AtSteps
  <2> QED
    BY <2>1, <2>2
<1>3. \A k \in Nat : k \in S
  <2> HIDE DEF S
  <2> QED
    BY <1>1, <1>2, NumberInduction
<1> QED
  BY <1>3

-----------------------------------------------------------------------------
(* The queue.                                                               *)

\* First the frames of the queue are heard.
LEMMA QueueRun ==
    ASSUME NEW c, NEW v \in Due(c), NEW s \in Seq(Int)
    PROVE  LET u == [v EXCEPT !.queue = s]
           IN  Heard(c, u, s) /\ At(c, u, Len(s)) = [v EXCEPT !.queue = <<>>]
<1> DEFINE u == [v EXCEPT !.queue = s]
           rest(k) == SubSeq(s, k + 1, Len(s))
           S == {k \in Nat : k <= Len(s) => At(c, u, k) = [v EXCEPT !.queue = rest(k)]}
<1>0. Len(s) \in Nat
  OBVIOUS
<1>1. 0 \in S
  <2>1. rest(0) = s
    OBVIOUS
  <2> QED
    BY <2>1, AtSteps
<1>2. ASSUME NEW k \in Nat, k < Len(s)
      PROVE  rest(k) # <<>> /\ Head(rest(k)) = s[k + 1] /\ Tail(rest(k)) = rest(k + 1)
  <2>1. Len(rest(k)) = Len(s) - k
    BY <1>2
  <2>2. rest(k) # <<>>
    <3> HIDE DEF rest
    <3> QED
      BY <1>2, <2>1
  <2>4. Head(rest(k)) = s[k + 1]
    <3>1. k \in 0 .. Len(s) /\ 1 \in 1 .. Len(s) - k
      BY <1>2
    <3>2. rest(k) \in Seq(Int) /\ rest(k)[1] = s[k + 1]
      BY <3>1, CutAt
    <3> HIDE DEF rest
    <3> QED
      BY <2>2, <3>2
  <2>3. Tail(rest(k)) = rest(k + 1)
    BY <1>2
  <2> QED
    BY <2>2, <2>3, <2>4
<1> HIDE DEF rest
<1>3. ASSUME NEW k \in Nat, k < Len(s), At(c, u, k) = [v EXCEPT !.queue = rest(k)]
      PROVE  Frame(At(c, u, k)) = s[k + 1] /\ At(c, u, k + 1) = [v EXCEPT !.queue = rest(k + 1)]
  <2> DEFINE w == At(c, u, k)
  <2>1. w.queue = rest(k)
    BY <1>3 DEF Due
  <2>2. rest(k) # <<>> /\ Head(rest(k)) = s[k + 1] /\ Tail(rest(k)) = rest(k + 1)
    BY <1>2, <1>3
  <2>3. w = [v EXCEPT !.queue = rest(k)]
    BY <1>3
  <2>4. At(c, u, k + 1) = After(c, w)
    BY AtSteps
  <2> HIDE DEF w
  <2>5. After(c, w) = [w EXCEPT !.queue = Tail(@)] /\ Frame(w) = Head(w.queue)
    BY <2>1, <2>2 DEF After, Frame
  <2>6. [w EXCEPT !.queue = Tail(@)] = [v EXCEPT !.queue = rest(k + 1)]
    BY <2>1, <2>2, <2>3 DEF Due
  <2> QED
    BY <2>1, <2>2, <2>4, <2>5, <2>6 DEF w
<1> HIDE DEF u
<1>4. ASSUME NEW k \in Nat, k \in S PROVE k + 1 \in S
  <2>1. k + 1 <= Len(s) => At(c, u, k + 1) = [v EXCEPT !.queue = rest(k + 1)]
    BY <1>0, <1>3, <1>4
  <2> QED
    BY <2>1
<1>5. \A k \in Nat : k \in S
  <2> HIDE DEF S
  <2> QED
    BY <1>1, <1>4, NumberInduction
<1>6. Heard(c, u, s)
  <2> SUFFICES ASSUME NEW k \in DOMAIN s PROVE s[k] = Frame(At(c, u, k - 1))
    BY DEF Heard
  <2>1. k - 1 \in Nat /\ k - 1 < Len(s) /\ (k - 1) + 1 = k
    OBVIOUS
  <2>2. At(c, u, k - 1) = [v EXCEPT !.queue = rest(k - 1)]
    BY <1>5, <2>1
  <2>3. Frame(At(c, u, k - 1)) = s[(k - 1) + 1]
    BY <1>3, <2>1, <2>2
  <2> QED
    BY <2>1, <2>3
<1>7. At(c, u, Len(s)) = [v EXCEPT !.queue = rest(Len(s))]
  BY <1>0, <1>5
<1>8. rest(Len(s)) = <<>>
  BY <1>0 DEF rest
<1> QED
  BY <1>6, <1>7, <1>8 DEF u

LEMMA QueueSettled ==
    ASSUME NEW c, Proper(c), NEW s \in Seq(Int), NEW x \in Nat, NEW p \in Passes, NEW t \in Points(c)
    PROVE  LET u == Settled(c, Place(s, x, p, t))
               v == Settled(c, Place(<<>>, x, p, t))
           IN  u \in Due(c) /\ v \in Due(c) /\ Heard(c, u, s) /\ At(c, u, Len(s)) = v
<1> DEFINE u == Settled(c, Place(s, x, p, t))
           v == Settled(c, Place(<<>>, x, p, t))
<1>1. u \in Due(c) /\ v \in Due(c)
  BY SettledPlace, <<>> \in Seq(Int)
<1>2. u = [v EXCEPT !.queue = s] /\ v.queue = <<>>
  <2>1. \/ u = Place(s, c.start, Fewer(p), t) /\ v = Place(<<>>, c.start, Fewer(p), t)
        \/ u = Place(s, x, p, t) /\ v = Place(<<>>, x, p, t)
        \/ u = Ended(s, x, p, t) /\ v = Ended(<<>>, x, p, t)
        \/ u = Place(s, 0, Fewer(p), Fresh(c)) /\ v = Place(<<>>, 0, Fewer(p), Fresh(c))
    BY SettledForm
  <2> QED
    BY <2>1, PlaceChanged, PlaceFields
<1> HIDE DEF u, v
<1>3. [v EXCEPT !.queue = <<>>] = v
  BY <1>1, <1>2 DEF Due
<1>4. LET w == [v EXCEPT !.queue = s]
      IN  Heard(c, w, s) /\ At(c, w, Len(s)) = [v EXCEPT !.queue = <<>>]
  BY <1>1, QueueRun
<1>5. Heard(c, u, s) /\ At(c, u, Len(s)) = v
  BY <1>2, <1>3, <1>4
<1> QED
  BY <1>1, <1>5 DEF u, v

-----------------------------------------------------------------------------
(* Frame by frame to the next end.                                          *)

\* Nothing ends between a and b.
Open(c, p, t, a, b) ==
    \A x \in a .. b - 1 : x < c.length /\ (Tagged(c) /\ p # 1 => x < c.end) /\ NoLoopEnds(c, t, x)

LEMMA FramesSeq ==
    ASSUME NEW a \in Nat, NEW b \in Nat, a <= b
    PROVE  /\ Frames(a, b) \in Seq(Int) /\ Len(Frames(a, b)) = b - a
           /\ \A k \in 1 .. b - a : Frames(a, b)[k] = a + k - 1
<1>1. Frames(a, b) = [i \in 1 .. b - a |-> a + i - 1]
  BY DEF Frames
<1> QED
  BY <1>1

LEMMA SettledOpen ==
    ASSUME NEW c, NEW q, NEW x \in Nat, NEW p, NEW t,
           x < c.length, Tagged(c) /\ p # 1 => x < c.end, Proper(c)
    PROVE  Settled(c, Place(q, x, p, t)) = Place(q, x, p, t)
<1>1. c.end \in Nat /\ c.length \in Nat
  BY CaseFields
<1>2. ~(Tagged(c) /\ p # 1 /\ x >= c.end)
  BY <1>1
<1> QED
  BY <1>2, SettledForm

LEMMA StraightRun ==
    ASSUME NEW c, Proper(c), NEW a \in Nat, NEW b \in Nat, a <= b, NEW p, NEW t \in Points(c),
           Open(c, p, t, a, b)
    PROVE  LET u == Settled(c, Place(<<>>, a, p, t))
           IN  /\ Heard(c, u, Frames(a, b))
               /\ At(c, u, b - a) = Settled(c, Place(<<>>, b, p, t))
<1> DEFINE to(x) == Settled(c, Place(<<>>, x, p, t))
           u == to(a)
           S == {k \in Nat : k <= b - a => At(c, u, k) = to(a + k)}
<1>1. 0 \in S
  BY AtSteps
<1>2. ASSUME NEW k \in Nat, k < b - a PROVE to(a + k) = Place(<<>>, a + k, p, t)
  <2>1. a + k \in a .. b - 1 /\ a + k \in Nat
    BY <1>2
  <2>2. a + k < c.length /\ (Tagged(c) /\ p # 1 => a + k < c.end)
    BY <2>1 DEF Open
  <2> QED
    BY <2>1, <2>2, SettledOpen
<1>3. ASSUME NEW k \in Nat, k < b - a PROVE After(c, to(a + k)) = to(a + (k + 1))
  <2>1. a + k \in a .. b - 1 /\ a + k \in Nat
    BY <1>3
  <2>2. NoLoopEnds(c, t, a + k)
    BY <2>1 DEF Open
  <2>3. After(c, Place(<<>>, a + k, p, t)) = Settled(c, Place(<<>>, (a + k) + 1, p, t))
    BY <2>1, <2>2, AfterStraight
  <2>4. (a + k) + 1 = a + (k + 1)
    OBVIOUS
  <2> QED
    BY <1>2, <1>3, <2>3, <2>4
<1>4. ASSUME NEW k \in Nat, k \in S PROVE k + 1 \in S
  <2> SUFFICES ASSUME k + 1 <= b - a PROVE At(c, u, k + 1) = to(a + (k + 1))
    OBVIOUS
  <2>1. At(c, u, k) = to(a + k)
    BY <1>4
  <2>2. At(c, u, k + 1) = After(c, At(c, u, k))
    BY AtSteps
  <2> HIDE DEF to, u
  <2> QED
    BY <1>3, <2>1, <2>2
<1>5. \A k \in Nat : k \in S
  <2> HIDE DEF S
  <2> QED
    BY <1>1, <1>4, NumberInduction
<1>6. Heard(c, u, Frames(a, b))
  <2>1. /\ Frames(a, b) \in Seq(Int) /\ Len(Frames(a, b)) = b - a
        /\ \A k \in 1 .. b - a : Frames(a, b)[k] = a + k - 1
    BY FramesSeq
  <2>2. DOMAIN Frames(a, b) = 1 .. b - a
    BY <2>1
  <2> SUFFICES ASSUME NEW k \in 1 .. b - a PROVE a + k - 1 = Frame(At(c, u, k - 1))
    BY <2>1, <2>2 DEF Heard
  <2>3. k - 1 \in Nat /\ k - 1 < b - a
    OBVIOUS
  <2>4. At(c, u, k - 1) = to(a + (k - 1))
    BY <1>5, <2>3
  <2>5. to(a + (k - 1)) = Place(<<>>, a + (k - 1), p, t)
    BY <1>2, <2>3
  <2>6. Frame(Place(<<>>, a + (k - 1), p, t)) = a + (k - 1)
    BY PlaceFields DEF Frame
  <2> HIDE DEF to, u
  <2> QED
    BY <2>4, <2>5, <2>6
<1>7. b - a \in Nat /\ a + (b - a) = b
  OBVIOUS
<1> QED
  BY <1>5, <1>6, <1>7

-----------------------------------------------------------------------------
(* Where a decoder stands.                                                  *)

Libraries == [queue : {<<>>}, pos : Nat, passes : Passes, points : {<<>>}, over : BOOLEAN]
Decoders(c) ==
    [play_count : Passes \union {0}, pos : Nat, flag : BOOLEAN, at_end : BOOLEAN,
     active : BOOLEAN, points : Points(c), library : Libraries]

\* The positions a decoder can be at, and what its flags say of them.
Positioned(c, dd) ==
    /\ dd.pos <= c.length \/ (c.codec = "qoa" /\ dd.at_end /\ dd.pos = c.length + 1)
    /\ dd.at_end => c.codec = "qoa" /\ dd.pos >= c.length
    /\ c.codec \in {"xmp", "timidity_stream"} => dd.pos % Block = 0
    /\ dd.flag => c.codec = "drflac" /\ Tagged(c) /\ dd.play_count \notin {0, 1} /\ dd.pos >= c.end
    /\ c.codec \in {"flac", "drflac"} /\ Tagged(c) /\ ~dd.flag /\ dd.play_count \notin {0, 1} =>
         dd.pos < c.end
    /\ c.codec = "wav" /\ dd.play_count # 0 /\ c.length > 0 => dd.pos < c.length

DecoderOK(c, dd) == dd \in Decoders(c) /\ Positioned(c, dd)

\* What the decoder will give next.
Stands(c, dd) ==
    IF c.codec \in Synths THEN dd.library
    ELSE Settled(c, Place(<<>>, Least(dd.pos, c.length), dd.play_count, dd.points))

\* The decoder goes on where w is.
Meets(c, dd, w) ==
    IF c.codec \notin Synths /\ dd.play_count = 0 THEN w.over /\ w.queue = <<>>
    ELSE w = Stands(c, dd)

\* The next read brings something.
Yields(c, dd) ==
    /\ ~dd.at_end /\ ~dd.flag
    /\ dd.pos < (IF Tagged(c) /\ dd.play_count # 1 THEN c.end ELSE c.length)

\* A read that brings what is due.
Brings(c, dd, r) ==
    /\ Heard(c, Stands(c, dd), r.put)
    /\ Meets(c, r.d, At(c, Stands(c, dd), Len(r.put)))
    /\ r.put = <<>> => r.d.play_count = 0 \/ Yields(c, r.d) \/ c.codec \in Synths
    /\ Yields(c, dd) => r.put # <<>> \/ c.codec \in Synths

\* A read of a decoder that has not come to its end.
ReadOK(c, dd, bytes, r) ==
    /\ r.put \in Seq(Int) /\ r.amount \in Nat
    /\ c.codec # "timidity" => Len(r.put) <= 2 * Block
    /\ DecoderOK(c, r.d)
    /\ IF c.length = 0 THEN r.put = <<>> ELSE Brings(c, dd, r)
    /\ c.codec \in Synths => /\ r.d.play_count = dd.play_count
                             /\ r.amount = 0 => dd.library.over
                             /\ r.amount > 0 => r.put # <<>>
    /\ r.d.play_count = 0 => r.put = <<>> \/ c.codec \in {"wav", "timidity"}
    /\ c.codec = "timidity" => /\ Len(r.put) <= bytes
                               /\ Len(r.put) = bytes => r.d.active /\ r.d.play_count # 0
    /\ c.codec \in {"timidity", "timidity_stream"} => r.d.active \/ r.d.play_count = 0

\* Only WAV files have loop points.
LEMMA NoPoints ==
    ASSUME NEW c, Proper(c), c.codec # "wav"
    PROVE  /\ Fresh(c) = <<>> /\ \A t \in Points(c) : t = <<>>
           /\ \A t, x : NoLoopEnds(c, t, x) \/ t # <<>>
<1>1. c.points = <<>>
  BY CaseFields
<1>2. Fresh(c) = <<>>
  BY <1>1 DEF Fresh
<1>3. \A t \in Points(c) : t = <<>>
  BY <1>1 DEF Points
<1>4. \A x : NoLoopEnds(c, <<>>, x)
  BY DEF NoLoopEnds, Around
<1> QED
  BY <1>2, <1>3, <1>4

LEMMA RunOn ==
    ASSUME NEW c, Proper(c), c.codec # "wav", NEW a \in Nat, NEW b \in Nat, a <= b, b <= c.length,
           NEW p, Tagged(c) /\ p # 1 => b <= c.end, NEW t \in Points(c)
    PROVE  LET w == Settled(c, Place(<<>>, a, p, t))
           IN  /\ Frames(a, b) \in Seq(Int) /\ Len(Frames(a, b)) = b - a
               /\ Heard(c, w, Frames(a, b))
               /\ At(c, w, Len(Frames(a, b))) = Settled(c, Place(<<>>, b, p, t))
<1>1. Frames(a, b) \in Seq(Int) /\ Len(Frames(a, b)) = b - a
  BY FramesSeq
<1>2. c.length \in Nat /\ c.end \in Nat
  BY CaseFields
<1>3. \A x : NoLoopEnds(c, t, x)
  BY NoPoints
<1>4. Open(c, p, t, a, b)
  BY <1>2, <1>3 DEF Open
<1> QED
  BY <1>1, <1>4, StraightRun

LEMMA LeastIs == ASSUME NEW a \in Int, NEW b \in Int
                 PROVE  /\ Least(a, b) \in Int /\ Least(a, b) <= a /\ Least(a, b) <= b
                        /\ Least(a, b) = a \/ Least(a, b) = b
  BY DEF Least

LEMMA StandsAt ==
    ASSUME NEW c, Proper(c), NEW dd \in Decoders(c), c.codec \notin Synths
    PROVE  /\ dd.pos <= c.length =>
                Stands(c, dd) = Settled(c, Place(<<>>, dd.pos, dd.play_count, dd.points))
           /\ dd.pos >= c.length =>
                Stands(c, dd) = Settled(c, Place(<<>>, c.length, dd.play_count, dd.points))
<1>1. dd.pos \in Nat /\ c.length \in Nat
  BY CaseFields DEF Decoders
<1>2. /\ dd.pos <= c.length => Least(dd.pos, c.length) = dd.pos
      /\ dd.pos >= c.length => Least(dd.pos, c.length) = c.length
  BY <1>1 DEF Least
<1> QED
  BY <1>2 DEF Stands

LEMMA DecoderFields ==
    ASSUME NEW c, NEW dd \in Decoders(c)
    PROVE  /\ dd.play_count \in Passes \union {0} /\ dd.pos \in Nat /\ dd.flag \in BOOLEAN
           /\ dd.at_end \in BOOLEAN /\ dd.active \in BOOLEAN /\ dd.points \in Points(c)
           /\ dd.library \in Libraries
  BY DEF Decoders

\* A decoder with some of its fields changed.
LEMMA DecoderPos ==
    ASSUME NEW c, NEW dd \in Decoders(c), NEW x \in Nat
    PROVE  LET e == [dd EXCEPT !.pos = x]
           IN  /\ e \in Decoders(c) /\ e.pos = x
               /\ e.play_count = dd.play_count /\ e.flag = dd.flag /\ e.at_end = dd.at_end
               /\ e.active = dd.active /\ e.points = dd.points /\ e.library = dd.library
  BY DEF Decoders

LEMMA DecoderCount ==
    ASSUME NEW c, NEW dd \in Decoders(c), NEW x \in Passes \union {0}
    PROVE  LET e == [dd EXCEPT !.play_count = x]
           IN  /\ e \in Decoders(c) /\ e.play_count = x
               /\ e.pos = dd.pos /\ e.flag = dd.flag /\ e.at_end = dd.at_end
               /\ e.active = dd.active /\ e.points = dd.points /\ e.library = dd.library
  BY DEF Decoders

LEMMA DecoderEnd ==
    ASSUME NEW c, NEW dd \in Decoders(c), NEW x \in BOOLEAN
    PROVE  LET e == [dd EXCEPT !.at_end = x]
           IN  /\ e \in Decoders(c) /\ e.at_end = x
               /\ e.pos = dd.pos /\ e.flag = dd.flag /\ e.play_count = dd.play_count
               /\ e.active = dd.active /\ e.points = dd.points /\ e.library = dd.library
  BY DEF Decoders

LEMMA DecoderFlag ==
    ASSUME NEW c, NEW dd \in Decoders(c), NEW x \in BOOLEAN
    PROVE  LET e == [dd EXCEPT !.flag = x]
           IN  /\ e \in Decoders(c) /\ e.flag = x
               /\ e.pos = dd.pos /\ e.at_end = dd.at_end /\ e.play_count = dd.play_count
               /\ e.active = dd.active /\ e.points = dd.points /\ e.library = dd.library
  BY DEF Decoders

LEMMA DecoderActive ==
    ASSUME NEW c, NEW dd \in Decoders(c), NEW x \in BOOLEAN
    PROVE  LET e == [dd EXCEPT !.active = x]
           IN  /\ e \in Decoders(c) /\ e.active = x
               /\ e.pos = dd.pos /\ e.at_end = dd.at_end /\ e.play_count = dd.play_count
               /\ e.flag = dd.flag /\ e.points = dd.points /\ e.library = dd.library
  BY DEF Decoders

LEMMA DecoderPoints ==
    ASSUME NEW c, NEW dd \in Decoders(c), NEW x \in Points(c)
    PROVE  LET e == [dd EXCEPT !.points = x]
           IN  /\ e \in Decoders(c) /\ e.points = x
               /\ e.pos = dd.pos /\ e.at_end = dd.at_end /\ e.play_count = dd.play_count
               /\ e.flag = dd.flag /\ e.active = dd.active /\ e.library = dd.library
  BY DEF Decoders

LEMMA DecoderLibrary ==
    ASSUME NEW c, NEW dd \in Decoders(c), NEW x \in Libraries
    PROVE  LET e == [dd EXCEPT !.library = x]
           IN  /\ e \in Decoders(c) /\ e.library = x
               /\ e.pos = dd.pos /\ e.at_end = dd.at_end /\ e.play_count = dd.play_count
               /\ e.flag = dd.flag /\ e.active = dd.active /\ e.points = dd.points
  BY DEF Decoders

-----------------------------------------------------------------------------
(* Seeks, and the end of a pass.                                            *)

LEMMA BlockPositive == Block \in Nat /\ Block > 0 /\ Want \in Nat /\ Want > 0 /\ Second \in Nat /\ Second > 0
  BY CodecAssumption

LEMMA Border ==
    ASSUME NEW x \in Nat
    PROVE  LET y == (x \div Block + 1) * Block IN y \in Nat /\ x < y /\ y <= x + Block
<1>1. Block \in Nat /\ Block > 0
  BY BlockPositive
<1>2. x \div Block \in Nat
  BY <1>1
<1>3. (x \div Block) * Block <= x /\ x < (x \div Block) * Block + Block
  BY <1>1
<1>4. \A q \in Nat, b \in Nat : (q + 1) * b = q * b + b /\ q * b \in Nat
  OBVIOUS
<1> QED
  BY <1>1, <1>2, <1>3, <1>4

LEMMA DestinationIs ==
    ASSUME NEW c, NEW p \in Nat
    PROVE  Destination(c, p) \in Nat /\ Destination(c, p) <= p /\ (c.codec # "wav" => Destination(c, p) = p)
<1>1. p % Second \in Nat /\ p % Second <= p
  BY BlockPositive, Z3
<1> QED
  BY <1>1 DEF Destination

LEMMA ReadIs ==
    ASSUME NEW a, NEW n, NEW dd
    PROVE  /\ Read(a, n, dd).put = Frames(a, a + n) /\ Read(a, n, dd).amount = n
           /\ Read(a, n, dd).d = dd
  BY DEF Read

LEMMA NoFrames == Frames(0, 0 + 0) = <<>>
  BY DEF Frames

LEMMA SeekPlain ==
    ASSUME NEW c, NEW dd \in Decoders(c), NEW p \in Nat, c.codec \notin Synths \union {"flac"}
    PROVE  LET r == SeekTo(c, dd, p)
           IN  /\ r.put = <<>> /\ r.amount = 0
               /\ r.d \in Decoders(c) /\ r.d.pos = Destination(c, p) /\ ~r.d.at_end
               /\ r.d.play_count = dd.play_count /\ r.d.flag = dd.flag
               /\ r.d.active = dd.active /\ r.d.points = dd.points
<1> DEFINE e == [dd EXCEPT !.pos = Destination(c, p), !.at_end = FALSE]
           f == [dd EXCEPT !.pos = Destination(c, p)]
<1>1. SeekTo(c, dd, p) = Read(0, 0, e)
  BY DEF SeekTo
<1>2. /\ f \in Decoders(c) /\ f.pos = Destination(c, p)
      /\ f.play_count = dd.play_count /\ f.flag = dd.flag /\ f.at_end = dd.at_end
      /\ f.active = dd.active /\ f.points = dd.points /\ f.library = dd.library
  BY DestinationIs, DecoderPos
<1>3. e = [f EXCEPT !.at_end = FALSE]
  OBVIOUS
<1> HIDE DEF e, f
<1>4. LET g == [f EXCEPT !.at_end = FALSE]
      IN  /\ g \in Decoders(c) /\ g.at_end = FALSE
               /\ g.pos = f.pos /\ g.flag = f.flag /\ g.play_count = f.play_count
               /\ g.active = f.active /\ g.points = f.points /\ g.library = f.library
  <2>1. \A x \in BOOLEAN : LET g == [f EXCEPT !.at_end = x]
      IN  /\ g \in Decoders(c) /\ g.at_end = x
               /\ g.pos = f.pos /\ g.flag = f.flag /\ g.play_count = f.play_count
               /\ g.active = f.active /\ g.points = f.points /\ g.library = f.library
    BY <1>2, DecoderEnd
  <2> QED
    BY <2>1, Zenon
<1>5. Read(0, 0, e).put = <<>> /\ Read(0, 0, e).amount = 0 /\ Read(0, 0, e).d = e
  BY ReadIs, NoFrames
<1> QED
  BY <1>1, <1>2, <1>3, <1>4, <1>5

\* The block that libFLAC hands over.
LEMMA FlacBlock ==
    ASSUME NEW c, Proper(c), NEW dd \in Decoders(c), dd.pos <= c.length
    PROVE  LET r == flac_write_music_cb(c, dd)
               to == r.d.pos
               loops == Tagged(c) /\ dd.play_count # 1 /\ to >= c.end
           IN  /\ to = Least((dd.pos \div Block + 1) * Block, c.length)
               /\ to \in Nat /\ dd.pos <= to /\ to <= dd.pos + Block /\ to <= c.length
               /\ dd.pos < c.length => dd.pos < to
               /\ r.d \in Decoders(c) /\ r.d.at_end = dd.at_end
               /\ r.d.play_count = dd.play_count /\ (r.d.flag <=> dd.flag \/ loops)
               /\ r.d.active = dd.active /\ r.d.points = dd.points
               /\ ~loops => r.put = Frames(dd.pos, to) /\ r.amount = to - dd.pos
               /\ loops => r.put = Frames(dd.pos, c.end) /\ r.amount = c.end - dd.pos
<1> DEFINE y == (dd.pos \div Block + 1) * Block
           to == Least(y, c.length)
           loops == Tagged(c) /\ dd.play_count # 1 /\ to >= c.end
           n == to - dd.pos - (IF loops THEN to - c.end ELSE 0)
           e == [dd EXCEPT !.pos = to, !.flag = @ \/ loops]
           f == [dd EXCEPT !.pos = to]
<1>1. dd.pos \in Nat /\ c.length \in Nat /\ c.end \in Nat
  BY CaseFields, DecoderFields
<1>2. y \in Nat /\ dd.pos < y /\ y <= dd.pos + Block /\ Block \in Nat
  BY <1>1, Border, BlockPositive
<1>3. /\ to \in Nat /\ dd.pos <= to /\ to <= dd.pos + Block /\ to <= c.length
      /\ dd.pos < c.length => dd.pos < to
  <2> HIDE DEF y
  <2> QED
    BY <1>1, <1>2, <1>2 DEF Least
<1>4. flac_write_music_cb(c, dd) = Read(dd.pos, n, e)
  BY DEF flac_write_music_cb
<1> HIDE DEF to
<1>5. LET g == f
      IN  /\ g \in Decoders(c) /\ g.pos = to
          /\ g.play_count = dd.play_count /\ g.flag = dd.flag /\ g.at_end = dd.at_end
          /\ g.active = dd.active /\ g.points = dd.points /\ g.library = dd.library
  BY <1>3, DecoderPos
<1>6. e = [f EXCEPT !.flag = dd.flag \/ loops]
  OBVIOUS
<1>7. /\ ~loops => n = to - dd.pos /\ dd.pos + n = to
      /\ loops => n = c.end - dd.pos /\ dd.pos + n = c.end
  BY <1>1, <1>3
<1>8. (dd.flag \/ loops) \in BOOLEAN
  BY DecoderFields
<1> DEFINE v == dd.flag \/ loops
<1> HIDE DEF e, f, n, v
<1>9. /\ Read(dd.pos, n, e).put = Frames(dd.pos, dd.pos + n)
      /\ Read(dd.pos, n, e).amount = n /\ Read(dd.pos, n, e).d = e
  BY ReadIs
<1>10. e = [f EXCEPT !.flag = v] /\ v \in BOOLEAN
  BY <1>6, <1>8 DEF v
<1>11. LET g == [f EXCEPT !.flag = v]
       IN  /\ g \in Decoders(c) /\ g.flag = v
           /\ g.pos = f.pos /\ g.at_end = f.at_end /\ g.play_count = f.play_count
           /\ g.active = f.active /\ g.points = f.points /\ g.library = f.library
  BY <1>5, <1>10, DecoderFlag
<1>12. /\ e \in Decoders(c) /\ e.flag = v
       /\ e.pos = to /\ e.at_end = dd.at_end /\ e.play_count = dd.play_count
       /\ e.active = dd.active /\ e.points = dd.points
  BY <1>5, <1>10, <1>11
<1>13. e.flag <=> dd.flag \/ loops
  BY <1>12 DEF v
<1> QED
  BY <1>3, <1>4, <1>7, <1>9, <1>12, <1>13 DEF to

Begun(c, dd, count) ==
    [dd EXCEPT !.play_count = count,
               !.points = Fresh(c), !.active = TRUE,
               !.library = [queue |-> <<>>, pos |-> 0, passes |-> count,
                            points |-> <<>>, over |-> c.length = 0]]

LEMMA BegunIs ==
    ASSUME NEW c, Proper(c), NEW dd \in Decoders(c), NEW count \in Passes
    PROVE  LET e == Begun(c, dd, count)
           IN  /\ e \in Decoders(c) /\ e.play_count = count /\ e.points = Fresh(c) /\ e.active
               /\ e.pos = dd.pos /\ e.flag = dd.flag /\ e.at_end = dd.at_end
               /\ e.library.queue = <<>> /\ e.library.pos = 0 /\ e.library.passes = count
               /\ e.library.points = <<>> /\ (e.library.over <=> c.length = 0)
               /\ PlayFrom0(c, dd, count) = SeekTo(c, e, 0)
<1> DEFINE v == c.length = 0
           lib == [queue |-> <<>>, pos |-> 0, passes |-> count, points |-> <<>>, over |-> v]
           e == Begun(c, dd, count)
           change(a, l) == [dd EXCEPT !.play_count = count, !.points = Fresh(c), !.active = a,
                                      !.library = l]
<1>1. v \in BOOLEAN
  OBVIOUS
<1>2. PlayFrom0(c, dd, count) = SeekTo(c, e, 0)
  BY DEF PlayFrom0, Begun
<1>3. \A a \in BOOLEAN, l \in Libraries :
         /\ change(a, l) \in Decoders(c) /\ change(a, l).play_count = count
         /\ change(a, l).points = Fresh(c) /\ change(a, l).active = a
         /\ change(a, l).pos = dd.pos /\ change(a, l).flag = dd.flag
         /\ change(a, l).at_end = dd.at_end /\ change(a, l).library = l
  BY FreshPoints DEF Decoders
<1>4. e = change(TRUE, lib)
  BY DEF Begun
<1> HIDE DEF e, v, change
<1>5. lib \in Libraries
  BY <1>1 DEF Libraries
<1>6. lib.queue = <<>> /\ lib.pos = 0 /\ lib.passes = count /\ lib.points = <<>> /\ lib.over = v
  OBVIOUS
<1> HIDE DEF lib
<1>7. TRUE \in BOOLEAN
  OBVIOUS
<1>8. /\ e \in Decoders(c) /\ e.play_count = count
      /\ e.points = Fresh(c) /\ e.active = TRUE
      /\ e.pos = dd.pos /\ e.flag = dd.flag /\ e.at_end = dd.at_end /\ e.library = lib
  BY <1>3, <1>4, <1>5, <1>7, Zenon
<1>9. e.library.over <=> c.length = 0
  BY <1>6, <1>8 DEF v
<1>10. /\ e \in Decoders(c) /\ e.play_count = count
       /\ e.points = Fresh(c) /\ e.active
       /\ e.pos = dd.pos /\ e.flag = dd.flag /\ e.at_end = dd.at_end
       /\ e.library.queue = <<>> /\ e.library.pos = 0 /\ e.library.passes = count
       /\ e.library.points = <<>>
  BY <1>6, <1>8
<1> QED
  BY <1>2, <1>9, <1>10 DEF e

\* All decoders but libFLAC's and the libraries that synthesize.
LEMMA PlayPlain ==
    ASSUME NEW c, Proper(c), NEW dd \in Decoders(c), NEW count \in Passes,
           c.codec \notin Synths \union {"flac"}
    PROVE  LET r == PlayFrom0(c, dd, count)
           IN  /\ r.put = <<>> /\ r.amount = 0
               /\ r.d \in Decoders(c) /\ r.d.pos = 0 /\ ~r.d.at_end
               /\ r.d.play_count = count /\ r.d.flag = dd.flag
               /\ r.d.active /\ r.d.points = Fresh(c)
<1> DEFINE e == Begun(c, dd, count)
<1>1. /\ e \in Decoders(c) /\ e.play_count = count /\ e.points = Fresh(c) /\ e.active
      /\ e.flag = dd.flag /\ PlayFrom0(c, dd, count) = SeekTo(c, e, 0)
  BY BegunIs
<1> HIDE DEF e
<1>2. LET r == SeekTo(c, e, 0)
      IN  /\ r.put = <<>> /\ r.amount = 0
          /\ r.d \in Decoders(c) /\ r.d.pos = Destination(c, 0) /\ ~r.d.at_end
          /\ r.d.play_count = e.play_count /\ r.d.flag = e.flag
          /\ r.d.active = e.active /\ r.d.points = e.points
  BY <1>1, SeekPlain, 0 \in Nat
<1>3. Destination(c, 0) = 0
  <2>1. Destination(c, 0) \in Nat /\ Destination(c, 0) <= 0
    BY DestinationIs, 0 \in Nat
  <2> QED
    BY <2>1
<1> QED
  BY <1>1, <1>2, <1>3

\* libFLAC's decoder puts its first block with the seek.
LEMMA SeekFlac ==
    ASSUME NEW c, Proper(c), NEW dd \in Decoders(c), NEW p \in Nat,
           p \in c.seeks \union {0}, c.codec = "flac", ~dd.flag, ~dd.at_end
    PROVE  LET r == SeekTo(c, dd, p)
           IN  /\ r.put = Frames(p, r.d.pos) /\ r.amount = r.d.pos - p
               /\ p <= r.d.pos /\ r.d.pos <= p + Block /\ r.d.pos <= c.length
               /\ p < c.length => p < r.d.pos
               /\ Tagged(c) => r.d.pos < c.end
               /\ r.d \in Decoders(c) /\ ~r.d.at_end /\ ~r.d.flag
               /\ r.d.play_count = dd.play_count
               /\ r.d.active = dd.active /\ r.d.points = dd.points
<1> DEFINE e == [dd EXCEPT !.pos = p]
<1>1. SeekTo(c, dd, p) = flac_write_music_cb(c, e)
  BY DEF SeekTo
<1>2. p \in Nat /\ p <= c.length /\ c.end \in Nat /\ c.length \in Nat
  BY CaseFields DEF Proper
<1>3. /\ e \in Decoders(c) /\ e.pos = p
      /\ e.play_count = dd.play_count /\ e.flag = dd.flag /\ e.at_end = dd.at_end
      /\ e.active = dd.active /\ e.points = dd.points
  BY <1>2, DecoderPos
<1> HIDE DEF e
<1> DEFINE r == flac_write_music_cb(c, e)
           to == r.d.pos
           loops == Tagged(c) /\ e.play_count # 1 /\ to >= c.end
<1>4. /\ to = Least((e.pos \div Block + 1) * Block, c.length)
      /\ to \in Nat /\ e.pos <= to /\ to <= e.pos + Block /\ to <= c.length
      /\ e.pos < c.length => e.pos < to
      /\ r.d \in Decoders(c) /\ r.d.at_end = e.at_end
      /\ r.d.play_count = e.play_count /\ (r.d.flag <=> e.flag \/ loops)
      /\ r.d.active = e.active /\ r.d.points = e.points
      /\ ~loops => r.put = Frames(e.pos, to) /\ r.amount = to - e.pos
  BY <1>2, <1>3, FlacBlock
<1>5. Tagged(c) => (p \div Block + 1) * Block < c.end
  BY DEF Proper, PlaysRight
<1>6. (p \div Block + 1) * Block \in Nat
  BY <1>2, Border
<1>7. Tagged(c) => to < c.end
  BY <1>2, <1>3, <1>4, <1>5, <1>6 DEF Least
<1>8. ~loops
  BY <1>2, <1>4, <1>7
<1> HIDE DEF r
<1>9. /\ r.put = Frames(p, to) /\ r.amount = to - p
      /\ p <= to /\ to <= p + Block /\ to <= c.length
      /\ p < c.length => p < to
      /\ r.d \in Decoders(c) /\ r.d.at_end = dd.at_end
      /\ r.d.play_count = dd.play_count /\ (r.d.flag <=> FALSE)
      /\ r.d.active = dd.active /\ r.d.points = dd.points
  BY <1>3, <1>4, <1>8
<1> QED
  BY <1>1, <1>7, <1>9 DEF r

LEMMA PlayFlac ==
    ASSUME NEW c, Proper(c), NEW dd \in Decoders(c), NEW count \in Passes,
           c.codec = "flac", ~dd.flag, ~dd.at_end
    PROVE  LET r == PlayFrom0(c, dd, count)
           IN  /\ r.put = Frames(0, r.d.pos) /\ r.amount = r.d.pos
               /\ r.d.pos \in Nat /\ r.d.pos <= Block /\ r.d.pos <= c.length
               /\ 0 < c.length => 0 < r.d.pos
               /\ Tagged(c) => r.d.pos < c.end
               /\ r.d \in Decoders(c) /\ ~r.d.at_end /\ ~r.d.flag
               /\ r.d.play_count = count
               /\ r.d.active /\ r.d.points = Fresh(c)
<1>1. \E e : /\ e \in Decoders(c) /\ e.play_count = count /\ e.points = Fresh(c) /\ e.active
             /\ e.flag = dd.flag /\ e.at_end = dd.at_end
             /\ PlayFrom0(c, dd, count) = SeekTo(c, e, 0)
  <2> DEFINE e == Begun(c, dd, count)
  <2>1. /\ e \in Decoders(c) /\ e.play_count = count /\ e.points = Fresh(c) /\ e.active
        /\ e.flag = dd.flag /\ e.at_end = dd.at_end
        /\ PlayFrom0(c, dd, count) = SeekTo(c, e, 0)
    BY BegunIs
  <2> HIDE DEF e
  <2> QED
    BY <2>1
<1>2. PICK e : /\ e \in Decoders(c) /\ e.play_count = count /\ e.points = Fresh(c) /\ e.active
               /\ e.flag = dd.flag /\ e.at_end = dd.at_end
               /\ PlayFrom0(c, dd, count) = SeekTo(c, e, 0)
  BY <1>1
<1>3. ~e.flag /\ ~e.at_end
  BY <1>2
<1>4. ASSUME NEW p \in Nat, p \in c.seeks \union {0}
      PROVE  LET r == SeekTo(c, e, p)
             IN  /\ r.put = Frames(p, r.d.pos) /\ r.amount = r.d.pos - p
                 /\ p <= r.d.pos /\ r.d.pos <= p + Block /\ r.d.pos <= c.length
                 /\ p < c.length => p < r.d.pos
                 /\ Tagged(c) => r.d.pos < c.end
                 /\ r.d \in Decoders(c) /\ ~r.d.at_end /\ ~r.d.flag
                 /\ r.d.play_count = e.play_count
                 /\ r.d.active = e.active /\ r.d.points = e.points
  <2>1. e \in Decoders(c)
    BY <1>2
  <2> QED
    BY <1>3, <1>4, <2>1, SeekFlac
<1>5. 0 \in Nat /\ 0 \in c.seeks \union {0}
  OBVIOUS
<1> DEFINE r == SeekTo(c, e, 0)
<1>6. /\ r.put = Frames(0, r.d.pos) /\ r.amount = r.d.pos - 0
      /\ 0 <= r.d.pos /\ r.d.pos <= 0 + Block /\ r.d.pos <= c.length
      /\ 0 < c.length => 0 < r.d.pos
      /\ Tagged(c) => r.d.pos < c.end
      /\ r.d \in Decoders(c) /\ ~r.d.at_end /\ ~r.d.flag
      /\ r.d.play_count = e.play_count
      /\ r.d.active = e.active /\ r.d.points = e.points
  BY <1>4, <1>5, Zenon
<1> HIDE DEF r
<1>7. r.d.pos \in Nat /\ Block \in Nat
  BY <1>6, DecoderFields, BlockPositive
<1>8. r = PlayFrom0(c, dd, count)
  BY <1>2 DEF r
<1>9. r.amount = r.d.pos /\ r.d.pos <= Block
  BY <1>6, <1>7
<1>10. r.d.play_count = count /\ r.d.active /\ r.d.points = Fresh(c)
  BY <1>2, <1>6
<1> QED
  BY <1>6, <1>7, <1>8, <1>9, <1>10, Zenon

\* What holds of a decoder before it comes to the end of a pass.
AtEnd(c, dd) ==
    /\ dd \in Decoders(c) /\ dd.play_count # 0 /\ ~dd.flag
    /\ dd.pos <= c.length \/ (c.codec = "qoa" /\ dd.at_end /\ dd.pos = c.length + 1)
    /\ dd.at_end => c.codec = "qoa" /\ dd.pos >= c.length
    /\ c.codec \in {"xmp", "timidity_stream"} => dd.pos % Block = 0
    /\ c.length > 0 => ~(Tagged(c) /\ dd.play_count # 1)

\* What the end of a pass does.
Passed(c, w, r) ==
    /\ r.put \in Seq(Int) /\ Len(r.put) <= Block /\ r.amount \in Nat
    /\ DecoderOK(c, r.d) /\ (r.d.active \/ r.d.play_count = 0)
    /\ c.codec # "flac" => r.put = <<>>
    /\ r.d.play_count = 0 => r.put = <<>>
    /\ IF c.length = 0 THEN r.put = <<>>
       ELSE /\ Heard(c, w, r.put)
            /\ Meets(c, r.d, At(c, w, Len(r.put)))
            /\ r.put = <<>> => r.d.play_count = 0 \/ Yields(c, r.d)

LEMMA EndOfPassOK ==
    ASSUME NEW c, Proper(c), c.codec \notin Synths, NEW dd, AtEnd(c, dd)
    PROVE  Passed(c, Settled(c, Place(<<>>, c.length, dd.play_count, dd.points)), EndOfPass(c, dd))
<1> DEFINE w == Settled(c, Place(<<>>, c.length, dd.play_count, dd.points))
           r == EndOfPass(c, dd)
<1>0. /\ dd \in Decoders(c) /\ dd.play_count \in Passes /\ dd.pos \in Nat
      /\ dd.points \in Points(c) /\ c.length \in Nat /\ c.end \in Nat /\ c.end <= c.length
      /\ Block \in Nat /\ Block > 0
  BY CaseFields, DecoderFields, BlockPositive DEF AtEnd, Proper
<1>1. CASE dd.play_count = 1
  <2> DEFINE e == [dd EXCEPT !.play_count = 0]
  <2>1. r = Read(0, 0, e)
    BY <1>1 DEF EndOfPass
  <2>2. 0 \in Passes \union {0}
    OBVIOUS
  <2>3. /\ e \in Decoders(c) /\ e.play_count = 0
        /\ e.pos = dd.pos /\ e.flag = dd.flag /\ e.at_end = dd.at_end
        /\ e.active = dd.active /\ e.points = dd.points
    BY <1>0, <2>2, DecoderCount
  <2> HIDE DEF e
  <2>4. r.put = <<>> /\ r.amount = 0 /\ r.d = e
    BY <2>1, ReadIs, NoFrames
  <2>5. DecoderOK(c, e)
    BY <2>3 DEF DecoderOK, Positioned, AtEnd
  <2>6. w = Ended(<<>>, c.length, 1, dd.points)
    BY <1>0, <1>1, SettledForm
  <2>7. w.over /\ w.queue = <<>>
    BY <2>6, PlaceFields
  <2> HIDE DEF w, r
  <2>8. Heard(c, w, r.put) /\ At(c, w, Len(r.put)) = w
    <3>1. Len(r.put) = 0
      BY <2>4
    <3> QED
      BY <2>4, <3>1, HeardNothing, AtSteps
  <2>9. Meets(c, r.d, w)
    BY <2>3, <2>4, <2>7 DEF Meets
  <2>10. r.put \in Seq(Int) /\ Len(r.put) <= Block
    BY <1>0, <2>4
  <2> QED
    BY <2>3, <2>4, <2>5, <2>8, <2>9, <2>10 DEF Passed, w, r
<1>2. CASE dd.play_count # 1
  <2> DEFINE count == Fewer(dd.play_count)
             back == Place(<<>>, 0, count, Fresh(c))
  <2>1. count \in Passes /\ Fresh(c) \in Points(c)
    BY <1>0, <1>2, FewerPasses, FreshPoints
  <2>2. r = PlayFrom0(c, dd, count)
    BY <1>2 DEF EndOfPass
  <2>3. c.length > 0 => ~Tagged(c)
    BY <1>2 DEF AtEnd
  <2>4. c.length > 0 => w = back
    BY <1>0, <1>2, <2>3, SettledForm
  <2>5. c.length > 0 => Settled(c, back) = back
    BY <1>0, <2>3, SettledOpen
  <2>6. ~Tagged(c)
    BY <1>0, <2>3 DEF Tagged
  <2> HIDE DEF count, w, r, back
  <2>7. CASE c.codec # "flac"
    <3>1. /\ r.put = <<>> /\ r.amount = 0
          /\ r.d \in Decoders(c) /\ r.d.pos = 0 /\ ~r.d.at_end
          /\ r.d.play_count = count /\ r.d.flag = dd.flag
          /\ r.d.active /\ r.d.points = Fresh(c)
      BY <1>0, <2>1, <2>2, <2>7, PlayPlain
    <3>2. 0 % Block = 0
      BY <1>0
    <3>3. DecoderOK(c, r.d)
      BY <1>0, <2>6, <3>1, <3>2 DEF DecoderOK, Positioned, AtEnd
    <3>4. Stands(c, r.d) = Settled(c, back)
      <4>1. 0 <= c.length
        BY <1>0
      <4> QED
        BY <3>1, <4>1, StandsAt DEF back
    <3>5. c.length > 0 => Meets(c, r.d, w)
      BY <2>1, <2>4, <2>5, <3>1, <3>4 DEF Meets, Passes
    <3>6. Heard(c, w, r.put) /\ At(c, w, Len(r.put)) = w
      <4>1. Len(r.put) = 0
        BY <3>1
      <4> QED
        BY <3>1, <4>1, HeardNothing, AtSteps
    <3>7. c.length > 0 => Yields(c, r.d)
      BY <2>6, <3>1 DEF Yields, AtEnd
    <3>8. r.put \in Seq(Int) /\ Len(r.put) <= Block
      BY <1>0, <3>1
    <3>9. c.length # 0 => c.length > 0
      BY <1>0
    <3> QED
      BY <3>1, <3>3, <3>5, <3>6, <3>7, <3>8, <3>9 DEF Passed, w, r
  <2>8. CASE c.codec = "flac"
    <3> DEFINE to == r.d.pos
    <3>2. ~dd.at_end /\ ~dd.flag
      BY <2>8 DEF AtEnd
    <3>3. /\ r.put = Frames(0, to) /\ r.amount = to
          /\ to \in Nat /\ to <= Block /\ to <= c.length
          /\ 0 < c.length => 0 < to
          /\ r.d \in Decoders(c) /\ ~r.d.at_end /\ ~r.d.flag
          /\ r.d.play_count = count
          /\ r.d.active /\ r.d.points = Fresh(c)
      BY <1>0, <2>1, <2>2, <2>8, <3>2, PlayFlac
    <3>4. to \in Nat
      BY <3>3
    <3>5. /\ Frames(0, to) \in Seq(Int) /\ Len(Frames(0, to)) = to - 0
          /\ Heard(c, Settled(c, back), Frames(0, to))
          /\ At(c, Settled(c, back), Len(Frames(0, to))) = Settled(c, Place(<<>>, to, count, Fresh(c)))
      <4>1. c.codec # "wav" /\ 0 \in Nat /\ 0 <= to /\ to <= c.length
        BY <2>8, <3>3
      <4> QED
        BY <2>1, <2>6, <3>4, <4>1, RunOn DEF back
    <3>6. DecoderOK(c, r.d)
      BY <2>6, <2>8, <3>3, <3>4 DEF DecoderOK, Positioned
    <3>7. Stands(c, r.d) = Settled(c, Place(<<>>, to, count, Fresh(c)))
      BY <3>3, StandsAt
    <3>8. c.length > 0 => Meets(c, r.d, At(c, w, Len(r.put))) /\ Heard(c, w, r.put)
      BY <2>1, <2>4, <2>5, <3>3, <3>5, <3>7 DEF Meets, Passes
    <3>9. r.put \in Seq(Int) /\ Len(r.put) <= Block /\ r.amount \in Nat /\ Len(r.put) = to
      BY <1>0, <3>3, <3>4, <3>5
    <3>10. c.length = 0 => r.put = <<>>
      <4>1. c.length = 0 => Len(r.put) = 0
        BY <3>3, <3>4, <3>9
      <4> QED
        BY <3>9, <4>1
    <3>11. c.length > 0 => r.put # <<>>
      BY <3>3, <3>9
    <3>12. r.d.play_count # 0
      BY <2>1, <3>3 DEF Passes
    <3>13. c.length # 0 => c.length > 0
      BY <1>0
    <3> QED
      BY <2>8, <3>3, <3>6, <3>8, <3>9, <3>10, <3>11, <3>12, <3>13 DEF Passed, w, r
  <2> QED
    BY <2>7, <2>8
<1> QED
  BY <1>1, <1>2

-----------------------------------------------------------------------------
(* Reads: the frames of a file.                                             *)

\* A decoder that has not come to its end, and may be read.
Reading(c, dd) ==
    /\ DecoderOK(c, dd) /\ dd.play_count # 0
    /\ c.codec \in {"timidity", "timidity_stream"} => dd.active

LEMMA ReadingFields ==
    ASSUME NEW c, Proper(c), NEW dd, Reading(c, dd)
    PROVE  /\ dd \in Decoders(c) /\ dd.play_count \in Passes /\ dd.pos \in Nat
           /\ dd.points \in Points(c) /\ dd.flag \in BOOLEAN /\ dd.at_end \in BOOLEAN
           /\ c.codec \in Codecs
           /\ c.length \in Nat /\ c.end \in Nat /\ c.start \in Nat /\ c.end <= c.length
           /\ Tagged(c) => c.start < c.end /\ c.length > 0
           /\ Block \in Nat /\ Block > 0
<1>1. dd \in Decoders(c) /\ dd.play_count # 0
  BY DEF Reading, DecoderOK
<1>2. /\ dd.play_count \in Passes \union {0} /\ dd.pos \in Nat
      /\ dd.points \in Points(c) /\ dd.flag \in BOOLEAN /\ dd.at_end \in BOOLEAN
  BY <1>1, DecoderFields
<1>3. /\ c.length \in Nat /\ c.end \in Nat /\ c.start \in Nat /\ c.end <= c.length
      /\ c.codec \in Codecs
      /\ Tagged(c) => c.start < c.end
  BY CaseFields DEF Proper
<1>4. Tagged(c) => c.length > 0
  BY <1>3 DEF Tagged
<1> QED
  BY <1>1, <1>2, <1>3, <1>4, BlockPositive

LEMMA BlockRun ==
    ASSUME NEW c, Proper(c), c.codec # "wav", NEW dd, dd.pos \in Nat, NEW b \in Nat, dd.pos <= b,
           b <= c.length, Tagged(c) /\ dd.play_count # 1 => b <= c.end, dd.points \in Points(c)
    PROVE  LET w == Settled(c, Place(<<>>, dd.pos, dd.play_count, dd.points))
               s == Frames(dd.pos, b)
           IN  /\ s \in Seq(Int) /\ Len(s) = b - dd.pos
               /\ Heard(c, w, s)
               /\ At(c, w, Len(s)) = Settled(c, Place(<<>>, b, dd.play_count, dd.points))
  BY RunOn

\* The frames from the position up to b, after which the decoder stands at b.
LEMMA BlockBrings ==
    ASSUME NEW c, Proper(c), NEW dd, Reading(c, dd), c.codec \notin Synths \union {"wav"},
           NEW b \in Nat, dd.pos <= b, b <= c.length,
           Tagged(c) /\ dd.play_count # 1 => b <= c.end,
           NEW r, r.put = Frames(dd.pos, b), r.d.play_count # 0,
           Stands(c, r.d) = Settled(c, Place(<<>>, b, dd.play_count, dd.points))
    PROVE  /\ r.put \in Seq(Int) /\ Len(r.put) = b - dd.pos
           /\ Heard(c, Stands(c, dd), r.put)
           /\ Meets(c, r.d, At(c, Stands(c, dd), Len(r.put)))
<1> DEFINE w == Settled(c, Place(<<>>, dd.pos, dd.play_count, dd.points))
           to == Settled(c, Place(<<>>, b, dd.play_count, dd.points))
           s == Frames(dd.pos, b)
<1>1. /\ dd \in Decoders(c) /\ dd.pos \in Nat /\ dd.points \in Points(c) /\ c.length \in Nat
  BY ReadingFields
<1>2. /\ s \in Seq(Int) /\ Len(s) = b - dd.pos
      /\ Heard(c, w, s)
      /\ At(c, w, Len(s)) = to
  BY <1>1, BlockRun
<1>3. Stands(c, dd) = w
  BY <1>1, StandsAt
<1> HIDE DEF w, s, to
<1>4. r.put = s /\ Stands(c, r.d) = to
  BY DEF s, to
<1>5. Meets(c, r.d, to)
  BY <1>4 DEF Meets
<1> QED
  BY <1>2, <1>3, <1>4, <1>5

\* A read that brings nothing but the end of the pass.
LEMMA EndOK ==
    ASSUME NEW c, Proper(c), c.codec \notin Synths \union {"timidity"}, NEW dd, AtEnd(c, dd),
           dd.pos >= c.length,
           NEW ee, Stands(c, ee) = Stands(c, dd), ~Yields(c, ee), NEW bytes
    PROVE  ReadOK(c, ee, bytes, EndOfPass(c, dd))
<1> DEFINE w == Settled(c, Place(<<>>, c.length, dd.play_count, dd.points))
           r == EndOfPass(c, dd)
<1>1. Passed(c, w, r)
  BY EndOfPassOK
<1>2. Stands(c, ee) = w
  BY StandsAt DEF AtEnd
<1>3. Block \in Nat /\ Block > 0
  BY BlockPositive
<1> HIDE DEF w, r
<1>4. /\ r.put \in Seq(Int) /\ Len(r.put) <= Block /\ r.amount \in Nat
      /\ DecoderOK(c, r.d) /\ (r.d.active \/ r.d.play_count = 0)
      /\ r.d.play_count = 0 => r.put = <<>>
  BY <1>1 DEF Passed
<1>5. Len(r.put) <= 2 * Block
  BY <1>3, <1>4
<1>6. IF c.length = 0 THEN r.put = <<>> ELSE Brings(c, ee, r)
  BY <1>1, <1>2 DEF Passed, Brings
<1> QED
  BY <1>4, <1>5, <1>6 DEF ReadOK, r

\* Plain decoders.
LEMMA PlainOK ==
    ASSUME NEW c, Proper(c), c.codec \in Plain, NEW dd, Reading(c, dd), NEW bytes,
           NEW n \in Nat, n <= Block, dd.pos + n <= c.length, n = 0 => dd.pos = c.length
    PROVE  ReadOK(c, dd, bytes,
                  IF n > 0 THEN Read(dd.pos, n, [dd EXCEPT !.pos = @ + n]) ELSE EndOfPass(c, dd))
<1>1. /\ dd \in Decoders(c) /\ dd.play_count \in Passes /\ dd.pos \in Nat
      /\ dd.points \in Points(c) /\ c.length \in Nat /\ Block \in Nat /\ Block > 0
  BY ReadingFields
<1>2. /\ c.codec \notin Synths \union {"timidity"} /\ c.codec \notin Synths \union {"wav"}
      /\ c.codec \notin {"qoa", "drflac", "flac", "wav", "xmp", "timidity", "timidity_stream"}
      /\ c.codec \notin Synths
  BY DEF Plain, Synths
<1>3. ~Tagged(c)
  BY <1>2 DEF Proper, PlaysRight, AtOnce, Plain
<1>4. ~dd.flag /\ ~dd.at_end /\ dd.play_count # 0
  BY <1>2 DEF Reading, DecoderOK, Positioned
<1>5. CASE n = 0
  <2>1. AtEnd(c, dd)
    BY <1>1, <1>2, <1>3, <1>4, <1>5 DEF AtEnd
  <2>2. ~Yields(c, dd)
    BY <1>1, <1>3, <1>5 DEF Yields
  <2>3. dd.pos >= c.length
    BY <1>1, <1>5
  <2>4. ReadOK(c, dd, bytes, EndOfPass(c, dd))
    BY <1>2, <2>1, <2>2, <2>3, EndOK
  <2> QED
    BY <1>5, <2>4
<1>6. CASE n > 0
  <2> DEFINE b == dd.pos + n
             e == [dd EXCEPT !.pos = b]
             r == Read(dd.pos, n, e)
  <2>1. /\ e \in Decoders(c) /\ e.pos = b
        /\ e.play_count = dd.play_count /\ e.flag = dd.flag /\ e.at_end = dd.at_end
        /\ e.active = dd.active /\ e.points = dd.points
    BY <1>1, DecoderPos
  <2>2. b \in Nat /\ dd.pos <= b /\ b <= c.length /\ b - dd.pos = n /\ c.length # 0
    BY <1>1, <1>6
  <2> HIDE DEF e
  <2>3. r.put = Frames(dd.pos, b) /\ r.amount = n /\ r.d = e
    BY ReadIs
  <2> HIDE DEF r, b
  <2>4. Stands(c, r.d) = Settled(c, Place(<<>>, b, dd.play_count, dd.points))
    BY <1>2, <2>1, <2>2, <2>3, StandsAt
  <2>5. /\ r.put \in Seq(Int) /\ Len(r.put) = b - dd.pos
        /\ Heard(c, Stands(c, dd), r.put)
        /\ Meets(c, r.d, At(c, Stands(c, dd), Len(r.put)))
    BY <1>2, <1>3, <1>4, <2>1, <2>2, <2>3, <2>4, BlockBrings
  <2>6. DecoderOK(c, r.d)
    BY <1>2, <1>4, <2>1, <2>2, <2>3 DEF DecoderOK, Positioned
  <2>7. r.put # <<>>
    BY <1>6, <2>2, <2>5
  <2>8. Brings(c, dd, r)
    BY <2>5, <2>7 DEF Brings
  <2>9. Len(r.put) <= 2 * Block
    BY <1>1, <2>2, <2>5
  <2>10. ReadOK(c, dd, bytes, r)
    BY <1>2, <1>4, <2>1, <2>2, <2>3, <2>5, <2>6, <2>8, <2>9 DEF ReadOK
  <2> QED
    BY <1>6, <2>10 DEF r, e, b
<1> QED
  BY <1>5, <1>6

\* What a library can hand over.
LEMMA SizesOK ==
    ASSUME NEW c, Proper(c), NEW dd, Reading(c, dd), dd.pos <= c.length,
           NEW n \in Any(c, dd) \union {Full(c, dd)}
    PROVE  n \in Nat /\ n <= Block /\ dd.pos + n <= c.length /\ (n = 0 => dd.pos = c.length)
<1>1. dd.pos \in Nat /\ c.length \in Nat /\ Block \in Nat /\ Block > 0
  BY ReadingFields
<1>2. /\ Full(c, dd) \in Nat /\ Full(c, dd) <= Block /\ dd.pos + Full(c, dd) <= c.length
      /\ (Full(c, dd) = 0 => dd.pos = c.length)
  BY <1>1 DEF Full, Least
<1> QED
  BY <1>1, <1>2 DEF Any

-----------------------------------------------------------------------------
(* Decoders that go back at once.                                           *)

LEMMA AtOnceOK ==
    ASSUME NEW c, Proper(c), c.codec \in AtOnce, NEW dd, Reading(c, dd), NEW bytes,
           NEW ee \in Decoders(c), ee.pos = dd.pos, ee.play_count = dd.play_count,
           ee.points = dd.points, ee.flag = dd.flag, dd.at_end => ee.at_end,
           ee.at_end => c.codec = "qoa",
           NEW n \in Nat, n <= Block, n = 0 \/ dd.pos + n <= c.length, n = 0 => dd.pos >= c.length,
           NEW pcmPos \in Nat, NEW per \in Nat,
           \/ pcmPos = dd.pos + n /\ (n > 0 => ~ee.at_end)
           \/ /\ c.codec = "qoa" /\ ee.at_end
              /\ pcmPos = dd.pos + n + 1 /\ dd.pos + n >= c.length,
           Tagged(c) /\ dd.play_count # 1 /\ pcmPos >= c.end =>
              LET amount == n - (pcmPos - c.end) * per
              IN  (IF amount > 0 THEN amount ELSE 0) = (IF dd.pos < c.end THEN c.end - dd.pos ELSE 0),
           Tagged(c) /\ dd.play_count # 1 /\ dd.pos < c.end => pcmPos = dd.pos + n /\ n > 0
    PROVE  ReadOK(c, dd, bytes, AtOnceGetSome(c, ee, n, pcmPos, per, c.start))
<1> DEFINE r == AtOnceGetSome(c, ee, n, pcmPos, per, c.start)
           loops == Tagged(c) /\ dd.play_count # 1 /\ pcmPos >= c.end
<1>1. /\ dd \in Decoders(c) /\ dd.play_count \in Passes /\ dd.pos \in Nat
      /\ dd.points \in Points(c) /\ c.length \in Nat /\ Block \in Nat /\ Block > 0
      /\ c.end \in Nat /\ c.start \in Nat /\ c.end <= c.length
      /\ Tagged(c) => c.start < c.end /\ c.length > 0
  BY ReadingFields
<1>2. /\ c.codec \notin Synths \union {"timidity"} /\ c.codec \notin Synths \union {"wav"}
      /\ c.codec \notin {"drflac", "flac", "wav", "xmp", "timidity", "timidity_stream"}
      /\ c.codec \notin Synths
  BY DEF AtOnce, Synths
<1>3. ~dd.flag /\ dd.play_count # 0
      /\ (dd.pos <= c.length \/ (c.codec = "qoa" /\ dd.at_end /\ dd.pos = c.length + 1))
      /\ (dd.at_end => c.codec = "qoa" /\ dd.pos >= c.length)
  BY <1>2 DEF Reading, DecoderOK, Positioned
<1>4. CASE loops
  <2> DEFINE amount == n - (pcmPos - c.end) * per
             m == IF amount > 0 THEN amount ELSE 0
             e == [ee EXCEPT !.pos = c.start, !.play_count = Fewer(@), !.at_end = FALSE]
             count == Fewer(dd.play_count)
             w == Place(<<>>, c.start, count, dd.points)
  <2>1. r = Read(dd.pos, m, e)
    BY <1>4 DEF AtOnceGetSome
  <2>2. count \in Passes
    BY <1>1, <1>4, FewerPasses
  <2>3. /\ e \in Decoders(c) /\ e.pos = c.start /\ e.play_count = count /\ ~e.at_end
        /\ ~e.flag /\ e.points = dd.points
    BY <1>1, <1>3, <2>2 DEF Decoders
  <2>4. m = (IF dd.pos < c.end THEN c.end - dd.pos ELSE 0)
    BY <1>4
  <2> HIDE DEF e, m, count
  <2>5. r.put = Frames(dd.pos, dd.pos + m) /\ r.amount = m /\ r.d = e
    BY <2>1, ReadIs
  <2> HIDE DEF r
  <2>6. Stands(c, r.d) = w
    <3>1. c.start <= c.length /\ c.start < c.length
      BY <1>1, <1>4
    <3>2. Stands(c, r.d) = Settled(c, w)
      BY <1>2, <2>3, <2>5, <3>1, StandsAt
    <3>3. Settled(c, w) = w
      BY <1>1, <1>4, <3>1, SettledOpen
    <3> QED
      BY <3>2, <3>3
  <2>7. DecoderOK(c, r.d)
    BY <1>1, <1>2, <1>4, <2>3, <2>5 DEF DecoderOK, Positioned
  <2>8. Yields(c, r.d)
    BY <1>1, <1>4, <2>3, <2>5 DEF Yields
  <2>9. r.d.play_count # 0
    BY <2>2, <2>3, <2>5 DEF Passes
  <2>10. CASE dd.pos < c.end
    <3>1. m = c.end - dd.pos /\ dd.pos + m = c.end /\ m \in Nat /\ m <= Block
      BY <1>1, <1>4, <1>4, <2>4, <2>10
    <3>2. Settled(c, Place(<<>>, c.end, dd.play_count, dd.points)) = w
      BY <1>1, <1>4, SettledForm DEF count
    <3>3. /\ r.put \in Seq(Int) /\ Len(r.put) = c.end - dd.pos
          /\ Heard(c, Stands(c, dd), r.put)
          /\ Meets(c, r.d, At(c, Stands(c, dd), Len(r.put)))
      <4>1. dd.pos <= c.end
        BY <1>1, <2>10
      <4> QED
        BY <1>1, <1>2, <2>5, <2>6, <2>9, <3>1, <3>2, <4>1, BlockBrings
    <3>4. r.put # <<>>
      BY <1>1, <2>10, <3>3
    <3>5. Brings(c, dd, r)
      BY <2>8, <3>3, <3>4 DEF Brings
    <3>6. Len(r.put) <= 2 * Block /\ r.amount \in Nat /\ c.length # 0
      <4>1. r.amount = m /\ Len(r.put) = m
        BY <2>5, <3>1, <3>3
      <4>2. c.length # 0
        BY <1>1, <1>4
      <4>3. m <= 2 * Block
        BY <1>1, <3>1
      <4> QED
        BY <3>1, <4>1, <4>2, <4>3
    <3>7. ReadOK(c, dd, bytes, r)
      BY <1>2, <2>7, <2>9, <3>3, <3>5, <3>6 DEF ReadOK
    <3> QED
      BY <3>7 DEF r
  <2>11. CASE ~(dd.pos < c.end)
    <3>1. m = 0 /\ dd.pos + m = dd.pos
      BY <1>1, <2>4, <2>11
    <3>2. Frames(dd.pos, dd.pos) = <<>>
      BY <1>1 DEF Frames
    <3>3. r.put = <<>>
      BY <2>5, <3>1, <3>2
    <3>4. Stands(c, dd) = w
      <4>1. \A x \in Nat : x >= c.end => Settled(c, Place(<<>>, x, dd.play_count, dd.points)) = w
        BY <1>4, SettledForm DEF count
      <4>2. dd.pos >= c.end /\ c.length >= c.end /\ (dd.pos <= c.length \/ dd.pos >= c.length)
        BY <1>1, <2>11
      <4> QED
        BY <1>1, <1>2, <4>1, <4>2, StandsAt
    <3>5. Heard(c, Stands(c, dd), r.put) /\ At(c, Stands(c, dd), Len(r.put)) = w
      <4>1. Len(r.put) = 0
        BY <3>3
      <4> QED
        BY <3>3, <3>4, <4>1, HeardNothing, AtSteps
    <3>6. Meets(c, r.d, w)
      BY <2>6, <2>9 DEF Meets
    <3>7. ~Yields(c, dd)
      BY <1>4, <2>11 DEF Yields
    <3>8. Brings(c, dd, r)
      BY <2>8, <3>5, <3>6, <3>7 DEF Brings
    <3>9. r.put \in Seq(Int) /\ Len(r.put) <= 2 * Block /\ r.amount \in Nat
      <4>1. r.amount = 0 /\ r.put = <<>>
        BY <2>5, <3>1, <3>3
      <4> QED
        BY <1>1, <4>1
    <3>10. ReadOK(c, dd, bytes, r)
      BY <1>2, <2>7, <2>9, <3>3, <3>8, <3>9 DEF ReadOK
    <3> QED
      BY <3>10 DEF r
  <2> QED
    BY <2>10, <2>11
<1>5. CASE ~loops /\ n = 0
  <2>1. r = EndOfPass(c, ee)
    BY <1>5 DEF AtOnceGetSome
  <2>2. ~(Tagged(c) /\ dd.play_count # 1)
    BY <1>1, <1>5
  <2>3. AtEnd(c, ee)
    BY <1>1, <1>2, <1>3, <1>5, <2>2 DEF AtEnd
  <2>4. ~Yields(c, dd)
    BY <1>1, <1>5, <2>2 DEF Yields
  <2>5. Stands(c, ee) = Stands(c, dd)
    BY <1>2 DEF Stands
  <2>6. ee.pos >= c.length
    BY <1>5
  <2> QED
    BY <1>2, <2>1, <2>3, <2>4, <2>5, <2>6, EndOK
<1>6. CASE ~loops /\ n > 0
  <2> DEFINE b == dd.pos + n
             e == [ee EXCEPT !.pos = pcmPos]
  <2>1. r = Read(dd.pos, n, e)
    BY <1>6 DEF AtOnceGetSome
  <2>2. /\ e \in Decoders(c) /\ e.pos = pcmPos
        /\ e.play_count = dd.play_count /\ e.flag = dd.flag /\ e.at_end = ee.at_end
        /\ e.points = dd.points
    BY DecoderPos
  <2>3. b \in Nat /\ dd.pos <= b /\ b <= c.length /\ b - dd.pos = n /\ c.length # 0
    BY <1>1, <1>6
  <2> HIDE DEF e
  <2>4. r.put = Frames(dd.pos, b) /\ r.amount = n /\ r.d = e
    BY <2>1, ReadIs
  <2>5. \/ pcmPos = b /\ ~ee.at_end
        \/ c.codec = "qoa" /\ ee.at_end /\ pcmPos = b + 1 /\ b = c.length
    BY <1>1, <1>6, <2>3
  <2> HIDE DEF r, b
  <2>6. Stands(c, r.d) = Settled(c, Place(<<>>, b, dd.play_count, dd.points))
    <3>1. \/ e.pos <= c.length /\ e.pos = b
          \/ e.pos >= c.length /\ b = c.length
      BY <1>1, <2>2, <2>3, <2>5
    <3> QED
      BY <1>2, <2>2, <2>4, <3>1, StandsAt
  <2>7. Tagged(c) /\ dd.play_count # 1 => b <= c.end
    BY <1>1, <1>6, <2>3, <2>5
  <2>8. /\ r.put \in Seq(Int) /\ Len(r.put) = b - dd.pos
        /\ Heard(c, Stands(c, dd), r.put)
        /\ Meets(c, r.d, At(c, Stands(c, dd), Len(r.put)))
    BY <1>2, <1>3, <2>2, <2>3, <2>4, <2>6, <2>7, BlockBrings
  <2>9. DecoderOK(c, r.d)
    BY <1>1, <1>2, <1>3, <2>2, <2>3, <2>4, <2>5 DEF DecoderOK, Positioned
  <2>10. r.put # <<>>
    BY <1>6, <2>3, <2>8
  <2>11. Brings(c, dd, r)
    BY <2>8, <2>10 DEF Brings
  <2>12. Len(r.put) <= 2 * Block
    BY <1>1, <2>3, <2>8
  <2>13. ReadOK(c, dd, bytes, r)
    BY <1>2, <1>3, <2>2, <2>3, <2>4, <2>8, <2>9, <2>11, <2>12 DEF ReadOK
  <2> QED
    BY <2>13 DEF r
<1> QED
  BY <1>4, <1>5, <1>6

-----------------------------------------------------------------------------
(* Blocks.                                                                  *)

LEMMA Scaled ==
    ASSUME NEW b \in Nat, b > 0
    PROVE  /\ \A j, k \in Nat : j * b < k * b => j < k
           /\ \A j, k \in Nat : j < k => (j + 1) * b <= k * b
           /\ \A k \in Nat : k * b \in Nat /\ (k + 1) * b = k * b + b
           /\ \A k \in Nat : (k * b) % b = 0
<1>1. ASSUME NEW j \in Nat, NEW k \in Nat, j <= k PROVE j * b <= k * b
  <2>1. k * b = j * b + (k - j) * b
    BY <1>1
  <2>2. (k - j) * b >= 0
    BY <1>1
  <2>3. j * b \in Nat /\ (k - j) * b \in Int
    OBVIOUS
  <2> QED
    BY <2>1, <2>2, <2>3
<1>2. ASSUME NEW j \in Nat, NEW k \in Nat, j * b < k * b PROVE j < k
  <2>1. CASE k <= j
    <3>1. k * b <= j * b
      BY <1>1, <2>1
    <3>2. k * b \in Nat /\ j * b \in Nat
      OBVIOUS
    <3> QED
      BY <1>2, <3>1, <3>2
  <2> QED
    BY <2>1
<1>3. ASSUME NEW j \in Nat, NEW k \in Nat, j < k PROVE (j + 1) * b <= k * b
  <2>1. j + 1 \in Nat /\ j + 1 <= k
    BY <1>3
  <2> QED
    BY <1>1, <2>1
<1>4. \A k \in Nat : k * b \in Nat /\ (k + 1) * b = k * b + b
  OBVIOUS
<1>5. \A k \in Nat : (k * b) % b = 0
  OBVIOUS
<1> QED
  BY <1>2, <1>3, <1>4, <1>5

LEMMA Scales ==
    ASSUME NEW b \in Nat, b > 0, NEW x \in Nat, x % b = 0
    PROVE  \E k \in Nat : x = k * b
<1>1. x % b = x - (x \div b) * b /\ x \div b \in Nat
  OBVIOUS
<1>2. x = (x \div b) * b
  BY <1>1
<1> QED
  BY <1>1, <1>2

LEMMA Remainder ==
    ASSUME NEW b \in Nat, b > 0, NEW x \in Nat
    PROVE  /\ x % b = x - (x \div b) * b /\ x \div b \in Nat
           /\ x % b \in Nat /\ x % b < b /\ x % b <= x
           /\ (x \div b + 1) * b = x - (x % b) + b
<1>1. x % b = x - (x \div b) * b /\ x \div b \in Nat
  OBVIOUS
<1>2. x % b \in Nat /\ x % b < b /\ x % b <= x
  OBVIOUS
<1>3. (x \div b + 1) * b = (x \div b) * b + b /\ (x \div b) * b \in Nat
  BY <1>1, Scaled
<1> QED
  BY <1>1, <1>2, <1>3

\* The end of a block is not past the end of a later one.
LEMMA NotPast ==
    ASSUME NEW b \in Nat, b > 0, NEW x \in Nat, NEW y \in Nat, y % b = 0, x < y
    PROVE  x - (x % b) + b <= y
<1>1. PICK k \in Nat : y = k * b
  BY Scales
<1>2. /\ x % b = x - (x \div b) * b /\ x \div b \in Nat /\ x % b \in Nat
      /\ (x \div b + 1) * b = x - (x % b) + b
  BY Remainder
<1>3. (x \div b) * b \in Nat
  BY <1>2, Scaled
<1>4. (x \div b) * b < k * b
  BY <1>1, <1>2, <1>3
<1>5. x \div b < k
  BY <1>2, <1>4, Scaled
<1>6. (x \div b + 1) * b <= k * b
  BY <1>2, <1>5, Scaled
<1> QED
  BY <1>1, <1>2, <1>6

LEMMA BlockMore ==
    ASSUME NEW b \in Nat, b > 0, NEW x \in Nat, x % b = 0
    PROVE  (x + b) % b = 0
<1>1. PICK k \in Nat : x = k * b
  BY Scales
<1>2. x + b = (k + 1) * b /\ k + 1 \in Nat
  BY <1>1, Scaled
<1>3. ((k + 1) * b) % b = 0
  BY <1>2, Scaled
<1> QED
  BY <1>2, <1>3

LEMMA BlockRest ==
    ASSUME NEW b \in Nat, b > 0, NEW x \in Nat, x % b = 0, NEW y \in Nat, y > 0, y % b = 0
    PROVE  (x % y) % b = 0
<1>1. PICK k \in Nat : x = k * b
  BY Scales
<1>2. PICK m \in Nat : y = m * b
  BY Scales
<1>3. x % y = x - (x \div y) * y /\ x \div y \in Nat /\ x % y \in Nat
  BY Remainder
<1> DEFINE j == x \div y
           q == k - j * m
<1>4. j * (m * b) = (j * m) * b /\ j * m \in Nat
  BY <1>3
<1> HIDE DEF j
<1>5. k * b - (j * m) * b = q * b /\ q \in Int
  BY <1>4
<1>6. x % y = q * b
  BY <1>1, <1>2, <1>3, <1>4, <1>5 DEF j
<1>7. q >= 0
  <2> HIDE DEF q
  <2>1. \A z \in Int : z < 0 => z * b < 0
    OBVIOUS
  <2> QED
    BY <1>3, <1>5, <1>6, <2>1
<1>8. q \in Nat
  BY <1>5, <1>7
<1> HIDE DEF q
<1> QED
  BY <1>6, <1>8, Scaled

\* The block ends at most at the end of the file, and counts frames.
LEMMA FramesOK ==
    ASSUME NEW c, Proper(c), c.codec \in {"ogg", "ogg_stb"}, NEW dd, Reading(c, dd), NEW bytes,
           NEW n \in Any(c, dd) \union {Full(c, dd)}
    PROVE  ReadOK(c, dd, bytes, AtOnceGetSome(c, dd, n, dd.pos + n, 1, c.start))
<1>1. /\ dd \in Decoders(c) /\ dd.play_count \in Passes /\ dd.pos \in Nat
      /\ c.length \in Nat /\ Block \in Nat /\ Block > 0
      /\ c.end \in Nat /\ c.end <= c.length
  BY ReadingFields
<1>2. c.codec \in AtOnce /\ c.codec # "qoa" /\ ~dd.at_end /\ dd.pos <= c.length
  BY DEF AtOnce, Reading, DecoderOK, Positioned
<1>3. n \in Nat /\ n <= Block /\ dd.pos + n <= c.length /\ (n = 0 => dd.pos = c.length)
  BY <1>2, SizesOK
<1> DEFINE pcmPos == dd.pos + n
           amount == n - (pcmPos - c.end) * 1
<1>4. pcmPos \in Nat /\ amount = c.end - dd.pos
  BY <1>1, <1>3
<1>5. (IF amount > 0 THEN amount ELSE 0) = (IF dd.pos < c.end THEN c.end - dd.pos ELSE 0)
  BY <1>1, <1>4
<1>6. Tagged(c) /\ dd.play_count # 1 /\ dd.pos < c.end => pcmPos = dd.pos + n /\ n > 0
  BY <1>1, <1>3
<1>7. 1 \in Nat /\ (n = 0 => dd.pos >= c.length)
  BY <1>1, <1>3
<1> QED
  BY <1>1, <1>2, <1>3, <1>4, <1>5, <1>6, <1>7, AtOnceOK

LEMMA PacketsOK ==
    ASSUME NEW c, Proper(c), c.codec = "opus", NEW dd, Reading(c, dd), NEW bytes
    PROVE  ReadOK(c, dd, bytes,
             AtOnceGetSome(c, dd, Packet(c, dd), dd.pos + Packet(c, dd), FrameBytes, c.start))
<1> DEFINE n == Packet(c, dd)
           pcmPos == dd.pos + n
           amount == n - (pcmPos - c.end) * FrameBytes
<1>1. /\ dd \in Decoders(c) /\ dd.play_count \in Passes /\ dd.pos \in Nat
      /\ c.length \in Nat /\ Block \in Nat /\ Block > 0
      /\ c.end \in Nat /\ c.end <= c.length
  BY ReadingFields
<1>2. c.codec \in AtOnce /\ c.codec # "qoa" /\ ~dd.at_end /\ dd.pos <= c.length
  BY DEF AtOnce, Reading, DecoderOK, Positioned
<1>3. LET m == Full(c, dd)
      IN  m \in Nat /\ m <= Block /\ dd.pos + m <= c.length /\ (m = 0 => dd.pos = c.length)
  BY <1>2, SizesOK
<1>4. dd.pos % Block \in Nat /\ dd.pos % Block < Block
  BY <1>1, Remainder
<1>5. /\ n \in Nat /\ n <= Block /\ dd.pos + n <= c.length /\ (n = 0 => dd.pos = c.length)
      /\ dd.pos + n <= dd.pos - (dd.pos % Block) + Block
  BY <1>1, <1>3, <1>4 DEF Packet, Least
<1>6. dd.pos < c.end => dd.pos + n <= c.end
  <2>1. c.end % Block = 0
    BY DEF Proper, PlaysRight
  <2>2. dd.pos < c.end => dd.pos - (dd.pos % Block) + Block <= c.end
    BY <1>1, <2>1, NotPast
  <2> QED
    BY <1>1, <1>4, <1>5, <2>2
<1>7. n > 0 \/ n = 0
  BY <1>5
<1> HIDE DEF n
<1>8. pcmPos \in Nat
  BY <1>1, <1>5
<1>9. pcmPos >= c.end =>
        (IF amount > 0 THEN amount ELSE 0) = (IF dd.pos < c.end THEN c.end - dd.pos ELSE 0)
  <2> SUFFICES ASSUME pcmPos >= c.end
               PROVE  (IF amount > 0 THEN amount ELSE 0) = (IF dd.pos < c.end THEN c.end - dd.pos ELSE 0)
    OBVIOUS
  <2>1. CASE dd.pos < c.end
    <3>1. pcmPos = c.end
      <4>1. pcmPos <= c.end
        BY <1>6, <2>1
      <4> QED
        BY <1>1, <1>8, <4>1
    <3>2. amount = c.end - dd.pos
      BY <1>1, <1>5, <3>1 DEF FrameBytes
    <3> QED
      BY <1>1, <2>1, <3>2
  <2>2. CASE ~(dd.pos < c.end)
    <3>1. amount <= 0 /\ amount \in Int
      BY <1>1, <1>5, <2>2 DEF FrameBytes
    <3> QED
      BY <2>2, <3>1
  <2> QED
    BY <2>1, <2>2
<1>10. Tagged(c) /\ dd.play_count # 1 /\ dd.pos < c.end => pcmPos = dd.pos + n /\ n > 0
  BY <1>1, <1>5
<1>11. FrameBytes \in Nat /\ (n = 0 => dd.pos >= c.length)
  BY <1>1, <1>5 DEF FrameBytes
<1>12. ReadOK(c, dd, bytes, AtOnceGetSome(c, dd, n, pcmPos, FrameBytes, c.start))
  BY <1>1, <1>2, <1>5, <1>8, <1>9, <1>10, <1>11, AtOnceOK
<1> QED
  BY <1>12 DEF n

\* QOA files: the position may be one past the end of the file.
LEMMA SamplesOK ==
    ASSUME NEW c, Proper(c), c.codec = "qoa", NEW dd, Reading(c, dd), NEW bytes
    PROVE  LET samples == _QOA_ReadSamples(c, dd)
           IN  ReadOK(c, dd, bytes,
                 AtOnceGetSome(c, [dd EXCEPT !.at_end = samples.at_end], samples.n, samples.pos,
                               1, c.start))
<1> DEFINE n == IF dd.at_end THEN 0 ELSE Full(c, dd)
           ends == ~dd.at_end /\ n < Block
           pcmPos == dd.pos + n + (IF ends THEN 1 ELSE 0)
           at_end == dd.at_end \/ ends
           ee == [dd EXCEPT !.at_end = at_end]
           amount == n - (pcmPos - c.end) * 1
<1>1. /\ dd \in Decoders(c) /\ dd.play_count \in Passes /\ dd.pos \in Nat
      /\ c.length \in Nat /\ Block \in Nat /\ Block > 0
      /\ c.end \in Nat /\ c.end <= c.length /\ dd.at_end \in BOOLEAN
  BY ReadingFields
<1>2. /\ c.codec \in AtOnce
      /\ dd.at_end => dd.pos >= c.length
      /\ dd.pos <= c.length \/ (dd.at_end /\ dd.pos = c.length + 1)
  BY DEF AtOnce, Reading, DecoderOK, Positioned
<1>3. ~dd.at_end => LET m == Full(c, dd)
                    IN  m \in Nat /\ m = Least(Block, c.length - dd.pos)
  BY <1>1, <1>2, SizesOK DEF Full
<1>4. /\ n \in Nat /\ n <= Block /\ (n = 0 \/ dd.pos + n <= c.length)
      /\ n = 0 => dd.pos >= c.length
      /\ ends => dd.pos + n = c.length
      /\ ~dd.at_end /\ ~ends => n = Block
  BY <1>1, <1>2, <1>3 DEF Least
<1>5. at_end \in BOOLEAN
  BY <1>1
<1>6. /\ ee \in Decoders(c) /\ ee.at_end = at_end
      /\ ee.pos = dd.pos /\ ee.flag = dd.flag /\ ee.play_count = dd.play_count
      /\ ee.points = dd.points
  <2> HIDE DEF at_end
  <2> QED
    BY <1>1, <1>5, DecoderEnd
<1>7. LET samples == _QOA_ReadSamples(c, dd)
      IN  samples.n = n /\ samples.pos = pcmPos /\ samples.at_end = at_end
  BY DEF _QOA_ReadSamples
<1> HIDE DEF ee
<1>8. pcmPos \in Nat /\ (ends => ee.at_end) /\ (~ends => (ee.at_end <=> dd.at_end))
  <2>1. pcmPos \in Nat
    BY <1>1, <1>4
  <2> HIDE DEF ends, n
  <2>2. (ends => at_end) /\ (~ends => (at_end <=> dd.at_end))
    OBVIOUS
  <2> HIDE DEF at_end
  <2> QED
    BY <1>6, <2>1, <2>2
<1>9. \/ pcmPos = dd.pos + n /\ (n > 0 => ~ee.at_end)
      \/ ee.at_end /\ pcmPos = dd.pos + n + 1 /\ dd.pos + n >= c.length
  <2>1. CASE ends
    <3>1. pcmPos = dd.pos + n + 1 /\ dd.pos + n >= c.length
      BY <1>1, <1>4, <2>1
    <3> QED
      BY <1>8, <2>1, <3>1
  <2>2. CASE ~ends
    <3>1. pcmPos = dd.pos + n
      BY <1>1, <1>4, <2>2
    <3>2. n > 0 => ~dd.at_end
      BY <1>4
    <3> QED
      BY <1>8, <2>2, <3>1, <3>2
  <2> QED
    BY <2>1, <2>2
<1>10. Tagged(c) /\ dd.play_count # 1 /\ dd.pos < c.end => pcmPos = dd.pos + n /\ n > 0
  <2> SUFFICES ASSUME Tagged(c), dd.pos < c.end PROVE pcmPos = dd.pos + n /\ n > 0
    OBVIOUS
  <2>1. c.end + Block <= c.length + 1
    BY DEF Proper, PlaysRight
  <2>2. ~dd.at_end
    BY <1>1, <1>2
  <2>3. ~ends
    BY <1>1, <1>4, <2>1
  <2> QED
    BY <1>1, <1>4, <2>2, <2>3
<1>11. Tagged(c) /\ dd.play_count # 1 /\ pcmPos >= c.end =>
        (IF amount > 0 THEN amount ELSE 0) = (IF dd.pos < c.end THEN c.end - dd.pos ELSE 0)
  <2> SUFFICES ASSUME Tagged(c), dd.play_count # 1, pcmPos >= c.end
               PROVE  (IF amount > 0 THEN amount ELSE 0) = (IF dd.pos < c.end THEN c.end - dd.pos ELSE 0)
    OBVIOUS
  <2>1. CASE dd.pos < c.end
    <3>1. amount = c.end - dd.pos
      BY <1>1, <1>4, <1>10, <2>1
    <3> QED
      BY <1>1, <2>1, <3>1
  <2>2. CASE ~(dd.pos < c.end)
    <3>1. pcmPos >= dd.pos + n
      BY <1>1, <1>4
    <3>2. amount <= 0 /\ amount \in Int
      BY <1>1, <1>4, <1>8, <2>2, <3>1
    <3> QED
      BY <2>2, <3>2
  <2> QED
    BY <2>1, <2>2
<1>12. dd.at_end => ee.at_end
  BY <1>8
<1>13. 1 \in Nat
  OBVIOUS
<1> HIDE DEF n, pcmPos
<1>14. ReadOK(c, dd, bytes, AtOnceGetSome(c, ee, n, pcmPos, 1, c.start))
  BY <1>1, <1>2, <1>4, <1>6, <1>8, <1>9, <1>10, <1>11, <1>12, <1>13, AtOnceOK
<1> QED
  BY <1>7, <1>14 DEF ee

-----------------------------------------------------------------------------
(* libxmp.                                                                  *)

LEMMA RemainderOne ==
    ASSUME NEW b \in Nat, b > 0, NEW x \in Nat, x <= b
    PROVE  x % b = IF x < b THEN x ELSE 0
<1>1. CASE x = b
  <2>1. (1 * b) % b = 0 /\ 1 * b = b
    BY Scaled, 1 \in Nat
  <2> QED
    BY <1>1, <2>1
<1>2. CASE x < b
  <2>1. x % b = x - (x \div b) * b /\ x \div b \in Nat /\ x % b \in Nat
    BY Remainder
  <2>2. (x \div b) * b \in Nat /\ 1 * b = b
    BY <2>1, Scaled
  <2>3. (x \div b) * b < 1 * b
    BY <1>2, <2>1, <2>2
  <2>4. x \div b < 1
    BY <2>1, <2>3, Scaled, 1 \in Nat
  <2>5. x \div b = 0
    BY <2>1, <2>4
  <2>6. 0 * b = 0
    OBVIOUS
  <2> QED
    BY <1>2, <2>1, <2>5, <2>6
<1> QED
  BY <1>1, <1>2

LEMMA XmpOK ==
    ASSUME NEW c, Proper(c), c.codec = "xmp", NEW dd, Reading(c, dd), NEW bytes,
           NEW r \in XMP_GetSome(c, dd)
    PROVE  ReadOK(c, dd, bytes, r)
<1> DEFINE at == IF dd.play_count < 0 /\ c.length > 0 THEN dd.pos % c.length ELSE dd.pos
<1>1. /\ dd \in Decoders(c) /\ dd.play_count \in Passes /\ dd.pos \in Nat
      /\ dd.points \in Points(c) /\ c.length \in Nat /\ Block \in Nat /\ Block > 0
  BY ReadingFields
<1>2. /\ dd.pos <= c.length /\ dd.pos % Block = 0 /\ c.length % Block = 0
      /\ ~dd.flag /\ ~dd.at_end /\ dd.play_count # 0
  BY DEF Reading, DecoderOK, Positioned, Proper, PlaysRight, InBlocks
<1>3. /\ ~Tagged(c) /\ c.codec \notin Synths /\ c.codec \notin Synths \union {"timidity"}
      /\ c.codec \notin Synths \union {"wav"}
  BY DEF Proper, PlaysRight, Synths, AtOnce
<1>4. at \in Nat /\ (at # dd.pos => dd.play_count < 0 /\ dd.pos = c.length /\ c.length > 0 /\ at = 0)
  BY <1>1, <1>2, RemainderOne
<1>5. at % Block = 0
  <2>1. 0 % Block = 0
    BY <1>1
  <2> HIDE DEF at
  <2> QED
    BY <1>2, <1>4, <2>1
<1>6. CASE at >= c.length
  <2>1. r = EndOfPass(c, dd)
    BY <1>6 DEF XMP_GetSome
  <2> HIDE DEF at
  <2>2. dd.pos >= c.length
    BY <1>1, <1>4, <1>6
  <2>3. AtEnd(c, dd)
    BY <1>1, <1>2, <1>3 DEF AtEnd
  <2>4. ~Yields(c, dd)
    BY <1>1, <1>3, <2>2 DEF Yields
  <2> QED
    BY <1>3, <2>1, <2>2, <2>3, <2>4, EndOK
<1>7. CASE ~(at >= c.length)
  <2> DEFINE b == at + Block
             e == [dd EXCEPT !.pos = b]
             put == [i \in 1 .. Block |->
                                    IF at + i <= c.length THEN at + i - 1
                                    ELSE IF dd.play_count < 0 THEN (at + i - 1) % c.length
                                    ELSE Silent]
             from == [dd EXCEPT !.pos = at]
  <2>1. r = [Read(at, Block, e) EXCEPT !.put = put]
    BY <1>7 DEF XMP_GetSome
  <2> HIDE DEF at
  <2>2. b <= c.length /\ b \in Nat /\ at <= b /\ b - at = Block /\ c.length # 0
    BY <1>1, <1>2, <1>4, <1>5, <1>7, NotPast
  <2>3. put = Frames(at, b)
    BY <1>1, <1>4, <2>2 DEF Frames
  <2>4. /\ e \in Decoders(c) /\ e.pos = b
        /\ e.play_count = dd.play_count /\ e.flag = dd.flag /\ e.at_end = dd.at_end
        /\ e.points = dd.points
    BY <1>1, <2>2, DecoderPos
  <2>5. /\ from \in Decoders(c) /\ from.pos = at
        /\ from.play_count = dd.play_count /\ from.flag = dd.flag /\ from.at_end = dd.at_end
        /\ from.points = dd.points
    BY <1>1, <1>4, DecoderPos
  <2> HIDE DEF e, put, from
  <2>6. r.put = Frames(at, b) /\ r.amount = Block /\ r.d = e
    BY <2>1, <2>3 DEF Read
  <2> HIDE DEF b
  <2>7. b % Block = 0
    BY <1>1, <1>4, <1>5, BlockMore DEF b
  <2>8. Reading(c, from)
    BY <1>1, <1>2, <1>3, <1>4, <1>5, <1>7, <2>2, <2>5 DEF Reading, DecoderOK, Positioned
  <2>9. Stands(c, from) = Stands(c, dd)
    <3>1. CASE at = dd.pos
      BY <1>3, <2>5, <3>1 DEF Stands
    <3>2. CASE at # dd.pos
      <4>1. /\ dd.play_count < 0 /\ dd.pos = c.length /\ c.length > 0 /\ at = 0
        BY <1>4, <3>2
      <4>2. Fewer(dd.play_count) = dd.play_count /\ dd.play_count # 1
        BY <1>1, <4>1 DEF Fewer, Passes
      <4>3. Fresh(c) = dd.points
        BY <1>1, NoPoints
      <4>4. Settled(c, Place(<<>>, c.length, dd.play_count, dd.points)) =
              Place(<<>>, 0, dd.play_count, dd.points)
        BY <1>1, <1>3, <4>2, <4>3, SettledForm
      <4>5. Settled(c, Place(<<>>, 0, dd.play_count, dd.points)) =
              Place(<<>>, 0, dd.play_count, dd.points)
        BY <1>1, <1>3, <4>1, SettledOpen
      <4>6. Stands(c, dd) = Settled(c, Place(<<>>, c.length, dd.play_count, dd.points))
        BY <1>1, <1>3, <4>1, StandsAt
      <4>7. Stands(c, from) = Settled(c, Place(<<>>, 0, dd.play_count, dd.points))
        BY <1>1, <1>3, <2>5, <4>1, StandsAt
      <4> QED
        BY <4>4, <4>5, <4>6, <4>7
    <3> QED
      BY <3>1, <3>2
  <2>10. Stands(c, r.d) = Settled(c, Place(<<>>, b, from.play_count, from.points))
    BY <1>3, <2>2, <2>4, <2>5, <2>6, StandsAt
  <2>11. /\ r.put \in Seq(Int) /\ Len(r.put) = b - at
         /\ Heard(c, Stands(c, from), r.put)
         /\ Meets(c, r.d, At(c, Stands(c, from), Len(r.put)))
    <3>1. /\ r.put \in Seq(Int) /\ Len(r.put) = b - from.pos
          /\ Heard(c, Stands(c, from), r.put)
          /\ Meets(c, r.d, At(c, Stands(c, from), Len(r.put)))
      BY <1>2, <1>3, <2>2, <2>4, <2>5, <2>6, <2>8, <2>10, BlockBrings
    <3> QED
      BY <2>5, <3>1
  <2>12. r.put # <<>> /\ Len(r.put) <= 2 * Block
    BY <1>1, <2>2, <2>11
  <2>13. DecoderOK(c, r.d)
    BY <1>2, <1>3, <2>2, <2>4, <2>6, <2>7 DEF DecoderOK, Positioned
  <2>14. Brings(c, dd, r)
    BY <2>9, <2>11, <2>12 DEF Brings
  <2> QED
    BY <1>1, <1>2, <1>3, <2>2, <2>4, <2>6, <2>11, <2>12, <2>13, <2>14 DEF ReadOK
<1> QED
  BY <1>6, <1>7

-----------------------------------------------------------------------------
(* libFLAC and dr_flac.                                                     *)

LEMMA Joined ==
    \A s, t \in Seq(Int) : s \o t \in Seq(Int) /\ Len(s \o t) = Len(s) + Len(t)
  OBVIOUS

LEMMA StartRun ==
    ASSUME NEW c, Proper(c), c.codec # "wav", c.start \in Nat, NEW b \in Nat, c.start <= b,
           b <= c.length, NEW p, Tagged(c) /\ p # 1 => b <= c.end, NEW t \in Points(c)
    PROVE  LET w == Settled(c, Place(<<>>, c.start, p, t))
               s == Frames(c.start, b)
           IN  /\ s \in Seq(Int) /\ Len(s) = b - c.start
               /\ Heard(c, w, s)
               /\ At(c, w, Len(s)) = Settled(c, Place(<<>>, b, p, t))
  BY RunOn

\* A block of libFLAC's decoder with no loop's end in it.
LEMMA FlacOne ==
    ASSUME NEW c, NEW dd, dd.pos < c.length, dd.pos \in Nat, c.length \in Nat,
           ~flac_write_music_cb(c, dd).d.flag
    PROVE  FLAC_GetSome(c, dd) = {flac_write_music_cb(c, dd)}
<1>1. ~(dd.pos >= c.length)
  OBVIOUS
<1> QED
  BY <1>1 DEF FLAC_GetSome

LEMMA FlacOK ==
    ASSUME NEW c, Proper(c), c.codec = "flac", NEW dd, Reading(c, dd), NEW bytes,
           NEW r \in FLAC_GetSome(c, dd)
    PROVE  ReadOK(c, dd, bytes, r)
<1>1. /\ dd \in Decoders(c) /\ dd.play_count \in Passes /\ dd.pos \in Nat
      /\ dd.points \in Points(c) /\ c.length \in Nat /\ Block \in Nat /\ Block > 0
      /\ c.end \in Nat /\ c.start \in Nat /\ c.end <= c.length
      /\ Tagged(c) => c.start < c.end /\ c.length > 0
  BY ReadingFields
<1>2. /\ dd.pos <= c.length
      /\ ~dd.flag /\ ~dd.at_end /\ dd.play_count # 0
      /\ Tagged(c) /\ dd.play_count # 1 => dd.pos < c.end
  BY DEF Reading, DecoderOK, Positioned
<1>3. /\ c.codec \notin Synths /\ c.codec \notin Synths \union {"timidity"}
      /\ c.codec \notin Synths \union {"wav"} /\ c.codec # "wav"
  BY DEF Synths
<1>4. CASE dd.pos >= c.length
  <2>1. ~(dd.pos < c.length)
    BY <1>1, <1>4
  <2>2. Read(0, 0, dd).d = dd
    BY ReadIs
  <2>3. r = EndOfPass(c, dd)
    BY <1>2, <1>4, <2>1, <2>2 DEF FLAC_GetSome
  <2>4. ~(Tagged(c) /\ dd.play_count # 1)
    BY <1>1, <1>2, <1>4
  <2>5. AtEnd(c, dd)
    BY <1>1, <1>2, <2>4 DEF AtEnd
  <2>6. ~Yields(c, dd)
    BY <1>1, <1>4, <2>4 DEF Yields
  <2> QED
    BY <1>3, <1>4, <2>3, <2>5, <2>6, EndOK
<1>5. CASE dd.pos < c.length
  <2> DEFINE one == flac_write_music_cb(c, dd)
             to == one.d.pos
             loops == Tagged(c) /\ dd.play_count # 1 /\ to >= c.end
  <2>1. /\ to \in Nat /\ dd.pos <= to /\ to <= dd.pos + Block /\ to <= c.length
        /\ dd.pos < to
        /\ one.d \in Decoders(c) /\ one.d.at_end = dd.at_end
        /\ one.d.play_count = dd.play_count /\ (one.d.flag <=> dd.flag \/ loops)
        /\ one.d.active = dd.active /\ one.d.points = dd.points
        /\ ~loops => one.put = Frames(dd.pos, to) /\ one.amount = to - dd.pos
        /\ loops => one.put = Frames(dd.pos, c.end) /\ one.amount = c.end - dd.pos
    BY <1>1, <1>2, <1>5, FlacBlock
  <2>2. c.length # 0
    BY <1>1, <1>5
  <2>3. CASE ~loops
    <3>1. ~one.d.flag
      BY <1>2, <2>1, <2>3
    <3>2. r = one
      <4>1. FLAC_GetSome(c, dd) = {flac_write_music_cb(c, dd)}
        BY <1>1, <1>5, <3>1, FlacOne
      <4> QED
        BY <4>1
    <3> HIDE DEF one
    <3>3. Tagged(c) /\ dd.play_count # 1 => to <= c.end /\ to < c.end
      BY <1>1, <2>1, <2>3
    <3>4. Stands(c, r.d) = Settled(c, Place(<<>>, to, dd.play_count, dd.points))
      BY <1>3, <2>1, <3>2, StandsAt
    <3>5. /\ r.put \in Seq(Int) /\ Len(r.put) = to - dd.pos
          /\ Heard(c, Stands(c, dd), r.put)
          /\ Meets(c, r.d, At(c, Stands(c, dd), Len(r.put)))
      BY <1>2, <1>3, <2>1, <2>3, <3>2, <3>3, <3>4, BlockBrings
    <3>6. DecoderOK(c, r.d)
      BY <1>2, <2>1, <3>1, <3>2, <3>3 DEF DecoderOK, Positioned
    <3>7. Len(r.put) <= 2 * Block /\ r.put # <<>> /\ r.amount \in Nat
      <4>1. r.amount = to - dd.pos /\ Len(r.put) <= 2 * Block /\ Len(r.put) > 0
        BY <1>1, <2>1, <2>3, <3>2, <3>5
      <4> QED
        BY <1>1, <2>1, <4>1
    <3>8. Brings(c, dd, r)
      BY <3>5, <3>7 DEF Brings
    <3> QED
      BY <1>2, <1>3, <2>1, <2>2, <3>2, <3>5, <3>6, <3>7, <3>8 DEF ReadOK
  <2>4. CASE loops
    <3>1. one.d.flag
      BY <2>1, <2>4
    <3> DEFINE there == [one.d EXCEPT !.pos = c.start]
               back == flac_write_music_cb(c, there)
               end == [back.d EXCEPT !.flag = FALSE, !.play_count = Fewer(@)]
               to2 == back.d.pos
               count == Fewer(dd.play_count)
               w == Place(<<>>, c.start, count, dd.points)
    <3>2. r = [put |-> one.put \o back.put, amount |-> Least(one.amount, back.amount), d |-> end]
      BY <1>1, <1>5, <3>1 DEF FLAC_GetSome
    <3> HIDE DEF one
    <3>3. /\ there \in Decoders(c) /\ there.pos = c.start
          /\ there.play_count = dd.play_count /\ there.flag = one.d.flag /\ there.at_end = dd.at_end
          /\ there.points = dd.points
      BY <1>1, <2>1, DecoderPos
    <3>4. c.start <= c.length /\ c.start < c.length /\ c.start < c.end
      BY <1>1, <2>4
    <3> HIDE DEF there
    <3>5. LET loops2 == Tagged(c) /\ there.play_count # 1 /\ to2 >= c.end
          IN  /\ to2 = Least((c.start \div Block + 1) * Block, c.length)
              /\ to2 \in Nat /\ c.start <= to2 /\ to2 <= c.start + Block /\ to2 <= c.length
              /\ back.d \in Decoders(c) /\ back.d.at_end = dd.at_end
              /\ back.d.play_count = dd.play_count
              /\ back.d.points = dd.points
              /\ ~loops2 => back.put = Frames(c.start, to2) /\ back.amount = to2 - c.start
      BY <3>3, <3>4, FlacBlock
    <3> HIDE DEF back
    <3>24. to2 \in Nat /\ c.start <= to2 /\ to2 <= c.start + Block /\ to2 <= c.length
      BY <3>5
    <3>6. to2 < c.end
      <4>1. (c.start \div Block + 1) * Block < c.end
        BY <2>4 DEF Proper, PlaysRight
      <4>2. (c.start \div Block + 1) * Block \in Nat
        BY <1>1, Border
      <4> QED
        BY <1>1, <3>5, <4>1, <4>2 DEF Least
    <3>7. back.put = Frames(c.start, to2) /\ back.amount = to2 - c.start
      BY <1>1, <3>5, <3>6
    <3>8. count \in Passes
      BY <1>1, <2>4, FewerPasses
    <3>9. /\ end \in Decoders(c) /\ end.pos = to2 /\ end.play_count = count /\ ~end.flag
          /\ ~end.at_end /\ end.points = dd.points
      BY <1>2, <3>5, <3>8 DEF Decoders
    <3> HIDE DEF end, count
    <3>10. /\ r.put = Frames(dd.pos, c.end) \o Frames(c.start, to2) /\ r.d = end
           /\ r.amount = Least(c.end - dd.pos, to2 - c.start)
      BY <2>1, <2>4, <3>2, <3>7
    <3>11. dd.pos < c.end
      BY <1>2, <2>4
    <3> DEFINE s == Frames(dd.pos, c.end)
               t == Frames(c.start, to2)
    <3>12. /\ s \in Seq(Int) /\ Len(s) = c.end - dd.pos
           /\ Heard(c, Stands(c, dd), s)
           /\ At(c, Stands(c, dd), Len(s)) = Settled(c, Place(<<>>, c.end, dd.play_count, dd.points))
      <4>1. dd.pos <= c.end /\ c.end <= c.end /\ dd.pos <= c.length
        BY <1>1, <3>11
      <4>2. Stands(c, dd) = Settled(c, Place(<<>>, dd.pos, dd.play_count, dd.points))
        BY <1>1, <1>3, <4>1, StandsAt
      <4>3. /\ s \in Seq(Int) /\ Len(s) = c.end - dd.pos
            /\ Heard(c, Settled(c, Place(<<>>, dd.pos, dd.play_count, dd.points)), s)
            /\ At(c, Settled(c, Place(<<>>, dd.pos, dd.play_count, dd.points)), Len(s))
                 = Settled(c, Place(<<>>, c.end, dd.play_count, dd.points))
        BY <1>1, <1>3, <4>1, BlockRun
      <4> QED
        BY <4>2, <4>3
    <3>13. Settled(c, Place(<<>>, c.end, dd.play_count, dd.points)) = w
      BY <1>1, <2>4, SettledForm DEF count
    <3>14. /\ t \in Seq(Int) /\ Len(t) = to2 - c.start
           /\ Heard(c, w, t)
           /\ At(c, w, Len(t)) = Settled(c, Place(<<>>, to2, count, dd.points))
      <4>1. Settled(c, w) = w
        BY <1>1, <2>4, <3>4, SettledOpen
      <4>2. to2 <= c.end
        BY <1>1, <3>5, <3>6
      <4>4. /\ t \in Seq(Int) /\ Len(t) = to2 - c.start
            /\ Heard(c, Settled(c, w), t)
            /\ At(c, Settled(c, w), Len(t)) = Settled(c, Place(<<>>, to2, count, dd.points))
        <5>1. c.start \in Nat /\ dd.points \in Points(c) /\ c.codec # "wav"
          BY <1>1, <1>3
        <5> HIDE DEF to, loops, to2
        <5>2. \A b \in Nat : c.start <= b /\ b <= c.length /\ b <= c.end =>
                /\ Frames(c.start, b) \in Seq(Int) /\ Len(Frames(c.start, b)) = b - c.start
                /\ Heard(c, Settled(c, w), Frames(c.start, b))
                /\ At(c, Settled(c, w), Len(Frames(c.start, b))) =
                     Settled(c, Place(<<>>, b, count, dd.points))
          BY <5>1, StartRun
        <5> QED
          BY <3>24, <4>2, <5>2
      <4> HIDE DEF w, t
      <4> QED
        BY <4>1, <4>4
    <3> HIDE DEF s, t, w
    <3>15. r.put = s \o t
      BY <3>10 DEF s, t
    <3>16. /\ Heard(c, Stands(c, dd), r.put)
           /\ At(c, Stands(c, dd), Len(r.put)) = At(c, w, Len(t))
      BY <3>12, <3>13, <3>14, <3>15, HeardJoined
    <3>17. Stands(c, r.d) = Settled(c, Place(<<>>, to2, count, dd.points))
      BY <1>3, <3>5, <3>9, <3>10, StandsAt
    <3>18. r.d.play_count # 0
      BY <3>8, <3>9, <3>10 DEF Passes
    <3>19. Meets(c, r.d, At(c, Stands(c, dd), Len(r.put)))
      BY <3>14, <3>16, <3>17, <3>18 DEF Meets
    <3>20. /\ r.put \in Seq(Int) /\ Len(r.put) <= 2 * Block /\ r.put # <<>>
      <4>0. s \in Seq(Int) /\ t \in Seq(Int) /\ Len(s) = c.end - dd.pos /\ Len(t) = to2 - c.start
        BY <3>12, <3>14
      <4>4. s \o t \in Seq(Int) /\ Len(s \o t) = Len(s) + Len(t)
        BY <4>0, Joined
      <4>1. r.put \in Seq(Int) /\ Len(r.put) = (c.end - dd.pos) + (to2 - c.start)
        <5>1. r.put \in Seq(Int) /\ Len(r.put) = Len(s) + Len(t)
          <6> HIDE DEF to2, to, loops
          <6> QED
            BY <4>4, <3>15
        <5> QED
          BY <4>0, <5>1
      <4>2. c.end - dd.pos <= Block /\ c.end - dd.pos \in Nat /\ c.end - dd.pos > 0
        <5>1. c.end <= to /\ to <= dd.pos + Block
          BY <1>1, <2>1, <2>4
        <5> HIDE DEF to
        <5> QED
          BY <1>1, <2>1, <3>11, <5>1
      <4>3. to2 - c.start <= Block /\ to2 - c.start \in Nat
        BY <1>1, <3>24
      <4>5. \A x, y, b \in Nat : x > 0 /\ x <= b /\ y <= b => x + y > 0 /\ x + y <= 2 * b
        OBVIOUS
      <4>6. Len(r.put) > 0 /\ Len(r.put) <= 2 * Block
        BY <1>1, <4>1, <4>2, <4>3, <4>5
      <4> QED
        BY <4>1, <4>6
    <3>21. r.amount \in Nat
      <4>1. c.end - dd.pos \in Nat /\ to2 - c.start \in Nat
        BY <1>1, <3>24, <3>11
      <4> QED
        BY <3>10, <4>1 DEF Least
    <3>22. DecoderOK(c, r.d)
      BY <3>5, <3>6, <3>9, <3>10 DEF DecoderOK, Positioned
    <3>23. Brings(c, dd, r)
      BY <3>16, <3>19, <3>20 DEF Brings
    <3> QED
      BY <1>3, <2>2, <3>18, <3>20, <3>21, <3>22, <3>23 DEF ReadOK
  <2> QED
    BY <2>3, <2>4
<1> QED
  BY <1>1, <1>4, <1>5

\* A block of dr_flac's decoder, once it has gone back.
LEMMA DrflacBlock ==
    ASSUME NEW c, Proper(c), c.codec = "drflac", NEW dd, Reading(c, dd), ~dd.flag, NEW bytes
    PROVE  LET n == Least(Block, c.length - dd.pos)
               to == dd.pos + n
               loops == Tagged(c) /\ dd.play_count # 1 /\ to >= c.end
           IN  ReadOK(c, dd, bytes,
                 IF n = 0 THEN EndOfPass(c, dd)
                 ELSE Read(dd.pos, n - (IF loops THEN to - c.end ELSE 0),
                           [dd EXCEPT !.pos = to, !.flag = loops]))
<1> DEFINE n == Least(Block, c.length - dd.pos)
           to == dd.pos + n
           loops == Tagged(c) /\ dd.play_count # 1 /\ to >= c.end
           amount == n - (IF loops THEN to - c.end ELSE 0)
           f == [dd EXCEPT !.pos = to]
           e == [dd EXCEPT !.pos = to, !.flag = loops]
           r == Read(dd.pos, amount, e)
           b == IF loops THEN c.end ELSE to
<1>1. /\ dd \in Decoders(c) /\ dd.play_count \in Passes /\ dd.pos \in Nat
      /\ dd.points \in Points(c) /\ c.length \in Nat /\ Block \in Nat /\ Block > 0
      /\ c.end \in Nat /\ c.start \in Nat /\ c.end <= c.length
      /\ Tagged(c) => c.start < c.end /\ c.length > 0
  BY ReadingFields
<1>2. /\ dd.pos <= c.length
      /\ ~dd.flag /\ ~dd.at_end /\ dd.play_count # 0
      /\ Tagged(c) /\ dd.play_count # 1 => dd.pos < c.end
  BY DEF Reading, DecoderOK, Positioned
<1>3. /\ c.codec \notin Synths /\ c.codec \notin Synths \union {"timidity"}
      /\ c.codec \notin Synths \union {"wav"} /\ c.codec # "wav"
      /\ c.codec \notin {"qoa", "xmp", "timidity", "timidity_stream", "wav"}
  BY DEF Synths
<1>4. n \in Nat /\ n <= Block /\ to \in Nat /\ to <= c.length /\ (n = 0 => dd.pos = c.length)
  BY <1>1, <1>2 DEF Least
<1>5. CASE n = 0
  <2>1. ~(Tagged(c) /\ dd.play_count # 1) /\ dd.pos >= c.length
    BY <1>1, <1>2, <1>4, <1>5
  <2>2. AtEnd(c, dd)
    BY <1>1, <1>2, <1>3, <2>1 DEF AtEnd
  <2>3. ~Yields(c, dd)
    BY <1>1, <2>1 DEF Yields
  <2>4. ReadOK(c, dd, bytes, EndOfPass(c, dd))
    BY <1>3, <2>1, <2>2, <2>3, EndOK
  <2> QED
    BY <1>5, <2>4
<1>6. CASE n # 0
  <2>1. /\ b \in Nat /\ dd.pos < b /\ b <= to /\ dd.pos + amount = b /\ amount \in Nat
        /\ (Tagged(c) /\ dd.play_count # 1 => b <= c.end)
    BY <1>1, <1>2, <1>4, <1>6
  <2>2. loops \in BOOLEAN
    OBVIOUS
  <2>3. e = [f EXCEPT !.flag = loops]
    OBVIOUS
  <2>4. /\ f \in Decoders(c) /\ f.pos = to
        /\ f.play_count = dd.play_count /\ f.flag = dd.flag /\ f.at_end = dd.at_end
        /\ f.active = dd.active /\ f.points = dd.points
    BY <1>1, <1>4, DecoderPos
  <2> HIDE DEF e, f
  <2>5. /\ e \in Decoders(c) /\ e.pos = to
        /\ e.play_count = dd.play_count /\ e.at_end = dd.at_end /\ e.points = dd.points
        /\ e.flag = loops
    <3> HIDE DEF n, loops, to
    <3> QED
      BY <2>2, <2>3, <2>4, DecoderFlag
  <2>6. e.flag <=> loops
    BY <2>5
  <2> HIDE DEF amount, n, r
  <2>7. r.put = Frames(dd.pos, b) /\ r.amount = amount /\ r.d = e
    <3> HIDE DEF b, to, loops
    <3> QED
      BY <2>1, ReadIs DEF r
  <2>8. Stands(c, e) = Settled(c, Place(<<>>, to, dd.play_count, dd.points))
    BY <1>3, <1>4, <2>5, StandsAt
  <2>9. Settled(c, Place(<<>>, to, dd.play_count, dd.points)) =
          Settled(c, Place(<<>>, b, dd.play_count, dd.points))
    <3>1. CASE loops
      BY <1>1, <3>1, SettledForm
    <3>2. CASE ~loops
      BY <3>2
    <3> QED
      BY <3>1, <3>2
  <2>10. Stands(c, r.d) = Settled(c, Place(<<>>, b, dd.play_count, dd.points))
    BY <2>7, <2>8, <2>9
  <2>11. loops => to >= c.end /\ Tagged(c) /\ dd.play_count # 1
    OBVIOUS
  <2>12. ~loops => (Tagged(c) /\ dd.play_count # 1 => to < c.end)
    BY <1>1, <1>4
  <2> HIDE DEF b, to, loops
  <2>13. r.d.play_count # 0 /\ dd.pos <= b /\ b <= c.length
    BY <1>1, <1>2, <1>4, <2>1, <2>5, <2>7
  <2>14. /\ r.put \in Seq(Int) /\ Len(r.put) = b - dd.pos
         /\ Heard(c, Stands(c, dd), r.put)
         /\ Meets(c, r.d, At(c, Stands(c, dd), Len(r.put)))
    BY <1>3, <2>1, <2>7, <2>10, <2>13, BlockBrings
  <2>15. DecoderOK(c, r.d)
    BY <1>2, <1>3, <1>4, <2>5, <2>6, <2>7, <2>11, <2>12 DEF DecoderOK, Positioned
  <2>16. Len(r.put) <= 2 * Block /\ r.put # <<>> /\ r.amount \in Nat
    <3>1. Len(r.put) > 0 /\ Len(r.put) <= 2 * Block
      BY <1>1, <1>4, <2>1, <2>14 DEF to
    <3> QED
      BY <2>1, <2>7, <3>1
  <2>17. Brings(c, dd, r)
    BY <2>14, <2>16 DEF Brings
  <2>18. c.length # 0
    BY <1>1, <1>4, <2>1
  <2>19. ReadOK(c, dd, bytes, r)
    BY <1>3, <2>13, <2>14, <2>15, <2>16, <2>17, <2>18 DEF ReadOK
  <2> QED
    BY <1>6, <2>19 DEF r, amount, e, n, to, loops
<1> QED
  BY <1>5, <1>6

LEMMA DrflacOK ==
    ASSUME NEW c, Proper(c), c.codec = "drflac", NEW dd, Reading(c, dd), NEW bytes,
           NEW r \in DRFLAC_GetSome(c, dd)
    PROVE  ReadOK(c, dd, bytes, r)
<1>1. /\ dd \in Decoders(c) /\ dd.play_count \in Passes /\ dd.pos \in Nat
      /\ dd.points \in Points(c) /\ c.length \in Nat
      /\ c.end \in Nat /\ c.start \in Nat /\ c.end <= c.length
      /\ Tagged(c) => c.start < c.end /\ c.length > 0
  BY ReadingFields
<1>2. /\ dd.pos <= c.length /\ ~dd.at_end /\ dd.play_count # 0
      /\ dd.flag => Tagged(c) /\ dd.play_count # 1 /\ dd.pos >= c.end
  BY DEF Reading, DecoderOK, Positioned
<1>3. c.codec \notin Synths
  BY DEF Synths
<1> DEFINE here == IF dd.flag
                   THEN [dd EXCEPT !.pos = c.start, !.play_count = Fewer(@), !.flag = FALSE]
                   ELSE dd
           n == Least(Block, c.length - here.pos)
           to == here.pos + n
           loops == Tagged(c) /\ here.play_count # 1 /\ to >= c.end
           q == IF n = 0 THEN EndOfPass(c, here)
                ELSE Read(here.pos, n - (IF loops THEN to - c.end ELSE 0),
                           [here EXCEPT !.pos = to, !.flag = loops])
<1>4. r = q
  BY DEF DRFLAC_GetSome
<1>5. CASE ~dd.flag
  <2>1. here = dd
    BY <1>5
  <2> HIDE DEF here
  <2>2. ReadOK(c, dd, bytes, q)
    BY <1>5, <2>1, DrflacBlock
  <2> QED
    BY <1>4, <2>2
<1>6. CASE dd.flag
  <2>1. /\ here \in Decoders(c) /\ here.pos = c.start /\ here.play_count = Fewer(dd.play_count)
        /\ ~here.flag /\ ~here.at_end /\ here.points = dd.points
    <3>1. Fewer(dd.play_count) \in Passes
      BY <1>1, <1>2, <1>6, FewerPasses
    <3>2. /\ \A a \in Nat, p \in Passes, g \in BOOLEAN :
             LET h == [dd EXCEPT !.pos = a, !.play_count = p, !.flag = g]
             IN  /\ h \in Decoders(c) /\ h.pos = a /\ h.play_count = p
                 /\ (h.flag <=> g) /\ h.at_end = dd.at_end /\ h.points = dd.points
      BY <1>1 DEF Decoders
    <3>3. here = [dd EXCEPT !.pos = c.start, !.play_count = Fewer(dd.play_count), !.flag = FALSE]
      BY <1>6
    <3> HIDE DEF here
    <3>4. /\ here \in Decoders(c) /\ here.pos = c.start /\ here.play_count = Fewer(dd.play_count)
          /\ (here.flag <=> FALSE) /\ here.at_end = dd.at_end /\ here.points = dd.points
      <4>1. FALSE \in BOOLEAN /\ c.start \in Nat
        BY <1>1
      <4> QED
        BY <3>1, <3>2, <3>3, <4>1, Zenon
    <3> QED
      BY <1>2, <3>4
  <2> HIDE DEF here
  <2>2. c.start < c.length /\ c.start < c.end /\ c.start <= c.length /\ Tagged(c)
    BY <1>1, <1>2, <1>6
  <2>3. Reading(c, here)
    <3>1. here.play_count # 0
      BY <1>1, <1>2, <1>6, <2>1, FewerPasses DEF Passes
    <3> QED
      BY <1>1, <1>2, <2>1, <2>2, <3>1 DEF Reading, DecoderOK, Positioned
  <2>4. ReadOK(c, here, bytes, q)
    BY <2>1, <2>3, DrflacBlock
  <2>5. Stands(c, here) = Stands(c, dd)
    <3> DEFINE w == Place(<<>>, c.start, Fewer(dd.play_count), dd.points)
    <3>1. Stands(c, here) = Settled(c, w)
      BY <1>3, <2>1, <2>2, StandsAt
    <3>2. Settled(c, w) = w
      BY <1>1, <2>2, SettledOpen
    <3>3. Stands(c, dd) = Settled(c, Place(<<>>, dd.pos, dd.play_count, dd.points))
      BY <1>1, <1>2, <1>3, StandsAt
    <3>4. Settled(c, Place(<<>>, dd.pos, dd.play_count, dd.points)) = w
      BY <1>2, <1>6, SettledForm
    <3> QED
      BY <3>1, <3>2, <3>3, <3>4
  <2>6. ~Yields(c, dd)
    BY <1>6 DEF Yields
  <2> HIDE DEF q
  <2>7. Brings(c, here, q) => Brings(c, dd, q)
    BY <2>5, <2>6 DEF Brings
  <2>8. ReadOK(c, dd, bytes, q)
    BY <1>3, <2>4, <2>7 DEF ReadOK
  <2> QED
    BY <1>4, <2>8
<1> QED
  BY <1>5, <1>6

-----------------------------------------------------------------------------
(* WAV files.                                                               *)

\* A decoder of a WAV file after a block, at the end of the file or before it.
LEMMA WavOn ==
    ASSUME NEW c, Proper(c), c.codec = "wav", NEW dd \in Decoders(c), dd.play_count # 0,
           ~dd.flag, ~dd.at_end, dd.pos <= c.length
    PROVE  LET e == IF dd.pos >= c.length THEN EndOfPass(c, dd).d ELSE dd
           IN  /\ DecoderOK(c, e)
               /\ c.length > 0 => Meets(c, e, Settled(c, Place(<<>>, dd.pos, dd.play_count, dd.points)))
<1> DEFINE w == Settled(c, Place(<<>>, c.length, dd.play_count, dd.points))
<1>1. c.length \in Nat /\ dd.pos \in Nat
  BY CaseFields, DecoderFields
<1>2. c.codec \notin Synths /\ ~Tagged(c)
  BY DEF Synths, Proper, PlaysRight, AtOnce
<1>3. CASE dd.pos >= c.length
  <2>1. AtEnd(c, dd)
    BY <1>2 DEF AtEnd
  <2>2. Passed(c, w, EndOfPass(c, dd))
    BY <1>2, <2>1, EndOfPassOK
  <2>3. dd.pos = c.length
    BY <1>1, <1>3
  <2> HIDE DEF w
  <2>4. DecoderOK(c, EndOfPass(c, dd).d) /\ EndOfPass(c, dd).put = <<>>
    BY <2>2 DEF Passed
  <2>5. Len(EndOfPass(c, dd).put) = 0
    BY <2>4
  <2>6. At(c, w, 0) = w
    BY AtSteps
  <2>7. c.length > 0 => Meets(c, EndOfPass(c, dd).d, w)
    BY <1>1, <2>2, <2>5, <2>6 DEF Passed
  <2> QED
    BY <1>3, <2>3, <2>4, <2>7 DEF w
<1>4. CASE ~(dd.pos >= c.length)
  <2>1. DecoderOK(c, dd)
    BY <1>1, <1>2, <1>4 DEF DecoderOK, Positioned
  <2>2. Stands(c, dd) = Settled(c, Place(<<>>, dd.pos, dd.play_count, dd.points))
    BY <1>2, StandsAt
  <2>3. Meets(c, dd, Settled(c, Place(<<>>, dd.pos, dd.play_count, dd.points)))
    BY <2>2 DEF Meets
  <2> QED
    BY <1>4, <2>1, <2>3
<1> QED
  BY <1>3, <1>4

\* A block of a WAV file.
LEMMA WavBlock ==
    ASSUME NEW c, Proper(c), c.codec = "wav", c.length > 0, NEW dd, Reading(c, dd), NEW bytes,
           NEW b \in Nat, dd.pos < b, b <= dd.pos + Block,
           NEW r, r.put = Frames(dd.pos, b), r.amount = b - dd.pos, DecoderOK(c, r.d),
           Heard(c, Stands(c, dd), Frames(dd.pos, b)),
           NEW w, At(c, Stands(c, dd), b - dd.pos) = w, Meets(c, r.d, w)
    PROVE  ReadOK(c, dd, bytes, r)
<1>1. dd.pos \in Nat /\ Block \in Nat /\ c.length \in Nat /\ dd.play_count \in Passes
  BY ReadingFields
<1>2. c.codec \notin Synths
  BY DEF Synths
<1>3. r.put \in Seq(Int) /\ Len(r.put) = b - dd.pos
  <2>1. dd.pos <= b
    BY <1>1
  <2> QED
    BY <1>1, <2>1, FramesSeq
<1>4. Len(r.put) <= 2 * Block /\ r.put # <<>> /\ r.amount \in Nat
  <2>1. b - dd.pos \in Nat /\ b - dd.pos > 0 /\ b - dd.pos <= 2 * Block
    BY <1>1
  <2>2. Len(r.put) > 0
    BY <1>3, <2>1
  <2> QED
    BY <1>3, <2>1, <2>2
<1>5. Brings(c, dd, r)
  BY <1>3, <1>4 DEF Brings
<1>6. c.length # 0
  BY <1>1
<1> QED
  BY <1>2, <1>3, <1>4, <1>5, <1>6 DEF ReadOK

\* One more frame.
LEMMA OneMore ==
    ASSUME NEW c, NEW u, NEW a \in Nat, NEW b \in Nat, a <= b, Heard(c, u, Frames(a, b)),
           Frame(At(c, u, b - a)) = b
    PROVE  /\ Heard(c, u, Frames(a, b + 1))
           /\ At(c, u, (b + 1) - a) = After(c, At(c, u, b - a))
<1>1. /\ Len(Frames(a, b)) = b - a
      /\ \A k \in 1 .. b - a : Frames(a, b)[k] = a + k - 1
      /\ Frames(a, b) \in Seq(Int)
  BY FramesSeq
<1>2. b + 1 \in Nat /\ a <= b + 1
  OBVIOUS
<1>3. /\ Frames(a, b + 1) \in Seq(Int) /\ Len(Frames(a, b + 1)) = (b + 1) - a
      /\ \A k \in 1 .. (b + 1) - a : Frames(a, b + 1)[k] = a + k - 1
  BY <1>2, FramesSeq
<1>4. DOMAIN Frames(a, b) = 1 .. b - a /\ DOMAIN Frames(a, b + 1) = 1 .. (b + 1) - a
  BY <1>1, <1>3
<1>5. ASSUME NEW k \in 1 .. (b + 1) - a PROVE a + k - 1 = Frame(At(c, u, k - 1))
  <2>1. CASE k <= b - a
    <3>1. k \in 1 .. b - a
      BY <2>1
    <3> QED
      BY <1>1, <1>4, <3>1 DEF Heard
  <2>2. CASE k = (b + 1) - a
    <3>1. k - 1 = b - a /\ a + k - 1 = b
      BY <2>2
    <3> QED
      BY <3>1
  <2> QED
    BY <2>1, <2>2
<1>6. Heard(c, u, Frames(a, b + 1))
  BY <1>3, <1>4, <1>5 DEF Heard
<1>7. b - a \in Nat /\ (b + 1) - a = (b - a) + 1
  OBVIOUS
<1>8. \A k \in Nat : At(c, u, k + 1) = After(c, At(c, u, k))
  BY AtSteps
<1>9. At(c, u, (b - a) + 1) = After(c, At(c, u, b - a))
  BY <1>7, <1>8, Zenon
<1> QED
  BY <1>6, <1>7, <1>9, Zenon

LEMMA WavOK ==
    ASSUME NEW c, Proper(c), c.codec = "wav", NEW dd, Reading(c, dd), NEW bytes,
           NEW r \in WAV_GetSome(c, dd)
    PROVE  ReadOK(c, dd, bytes, r)
<1> DEFINE x == dd.pos
           t == dd.points
           count == dd.play_count
           loops == Around(c, t, x)
           i == Leading(loops)
           stop == IF loops # {} THEN c.points[i].stop + 1 ELSE c.length
           to == x + Least(Block, stop - x)
           next == [dd EXCEPT !.pos = to]
           ends == loops # {} /\ to >= stop
           counted == IF ends THEN [next EXCEPT !.points = WavPlayed(@, i)] ELSE next
           block == Read(x, to - x, counted)
           place(y) == Settled(c, Place(<<>>, y, count, t))
<1>0. r = IF ends /\ t[i] # 1 THEN [block EXCEPT !.d.pos = c.points[i].start]
          ELSE IF to >= c.length THEN [block EXCEPT !.d = EndOfPass(c, counted).d]
          ELSE block
  BY DEF WAV_GetSome
<1>1. /\ dd \in Decoders(c) /\ count \in Passes /\ x \in Nat
      /\ t \in Points(c) /\ c.length \in Nat /\ Block \in Nat /\ Block > 0
  BY ReadingFields
<1>2. /\ x <= c.length /\ ~dd.flag /\ ~dd.at_end /\ count # 0
      /\ c.length > 0 => x < c.length
  BY DEF Reading, DecoderOK, Positioned
<1>3. c.codec \notin Synths /\ ~Tagged(c)
  BY DEF Synths, Proper, PlaysRight, AtOnce
<1>4. Stands(c, dd) = place(x)
  BY <1>1, <1>2, <1>3, StandsAt
<1>5. DOMAIN t = DOMAIN c.points
  BY <1>1 DEF Points
<1>6. ASSUME loops # {}
      PROVE  /\ i \in Around(c, t, x) /\ loops = {i} /\ i \in DOMAIN c.points /\ t[i] # -1
             /\ c.points[i].start \in Nat /\ c.points[i].stop \in Nat
             /\ c.points[i].start <= x /\ x <= c.points[i].stop /\ c.points[i].stop < c.length
             /\ stop = c.points[i].stop + 1
  <2>1. PICK j \in Around(c, t, x) : TRUE
    BY <1>6
  <2>2. /\ Around(c, t, x) = {j} /\ Leading(Around(c, t, x)) = j
        /\ j \in DOMAIN c.points /\ t[j] # -1
        /\ c.points[j].start <= x /\ x <= c.points[j].stop
    BY <1>1, <1>5, <2>1, AroundOne
  <2>3. i = j
    BY <2>2
  <2>4. c.points[j].start \in Nat /\ c.points[j].stop \in Nat /\ c.points[j].stop < c.length
    BY <2>2, PointFields
  <2>5. stop = c.points[i].stop + 1
    BY <1>6
  <2> HIDE DEF stop, i, loops
  <2> QED
    BY <2>1, <2>2, <2>3, <2>4, <2>5 DEF loops
<1>7. stop \in Nat /\ x <= stop /\ stop <= c.length /\ (c.length > 0 => x < stop)
  <2>1. CASE loops = {}
    BY <1>1, <1>2, <2>1
  <2>2. CASE loops # {}
    <3>1. /\ c.points[i].stop \in Nat /\ x <= c.points[i].stop /\ c.points[i].stop < c.length
          /\ stop = c.points[i].stop + 1
      BY <1>6, <2>2
    <3> HIDE DEF stop, i, loops
    <3> QED
      BY <1>1, <3>1
  <2> QED
    BY <2>1, <2>2
<1> HIDE DEF stop, i
<1>8. /\ to \in Nat /\ x <= to /\ to <= stop /\ to <= x + Block /\ to <= c.length
      /\ (c.length > 0 => x < to) /\ to - x \in Nat
      /\ (to < stop => to = x + Block)
  BY <1>1, <1>7 DEF Least
<1>9. /\ next \in Decoders(c) /\ next.pos = to
      /\ next.play_count = count /\ next.flag = dd.flag /\ next.at_end = dd.at_end
      /\ next.points = t
  BY <1>1, <1>8, DecoderPos
<1>10. ends => to = stop /\ loops # {}
  BY <1>7, <1>8
<1>11. ASSUME loops # {}, NEW j \in DOMAIN c.points, j \in Around(c, t, x) PROVE j = i
  BY <1>6, <1>11
<1> HIDE DEF to, next, loops
\* No loop point ends before the block does, unless at its very end.
<1>12. ASSUME NEW y \in x .. to - 1, ends => y # to - 1 PROVE NoLoopEnds(c, t, y)
  <2> SUFFICES ASSUME NEW j \in Around(c, t, y), y = c.points[j].stop PROVE FALSE
    BY DEF NoLoopEnds
  <2>1. y \in Nat
    BY <1>1, <1>8
  <2>2. /\ j \in DOMAIN c.points /\ t[j] # -1 /\ y \in c.points[j].start .. c.points[j].stop
    BY <1>5 DEF Around
  <2>3. /\ c.points[j].start \in Nat /\ c.points[j].stop \in Nat
        /\ c.points[j].start + Block <= c.points[j].stop + 1 /\ c.points[j].stop < c.length
    BY <2>2, PointFields
  <2>4. CASE loops = {}
    <3>1. c.points[j].start <= x
      BY <1>1, <1>8, <2>1, <2>2, <2>3
    <3>2. x \in c.points[j].start .. c.points[j].stop
      BY <1>1, <1>8, <2>1, <2>2, <2>3, <3>1
    <3>3. j \in loops
      BY <1>5, <2>2, <3>2 DEF loops, Around
    <3> QED
      BY <2>4, <3>3
  <2>5. CASE loops # {}
    <3>1. /\ i \in Around(c, t, x) /\ i \in DOMAIN c.points /\ t[i] # -1
          /\ c.points[i].start \in Nat /\ c.points[i].stop \in Nat
          /\ c.points[i].start <= x /\ stop = c.points[i].stop + 1
      BY <1>6, <2>5
    <3>2. y \in c.points[i].start .. c.points[i].stop
      BY <1>1, <1>8, <2>1, <3>1
    <3>3. i \in Around(c, t, y)
      BY <1>5, <3>1, <3>2 DEF Around
    <3>4. j = i
      <4>1. Around(c, t, y) = {i}
        BY <1>5, <2>1, <3>3, AroundOne
      <4> QED
        BY <4>1
    <3>5. y = stop - 1 /\ to = stop
      BY <1>1, <1>7, <1>8, <2>1, <3>1, <3>4
    <3>6. ends
      BY <1>7, <2>5, <3>5
    <3> QED
      BY <1>12, <3>5, <3>6
  <2> QED
    BY <2>4, <2>5
<1>13. CASE c.length = 0
  <2>1. loops = {}
    BY <1>1, <1>6, <1>13
  <2>2. ~ends /\ counted = next
    BY <2>1
  <2>3. to >= c.length /\ to = x
    BY <1>1, <1>2, <1>8, <1>13
  <2>4. r = [block EXCEPT !.d = EndOfPass(c, next).d]
    BY <1>0, <2>2, <2>3
  <2>5. block.put = Frames(x, x + (to - x)) /\ block.amount = to - x
    BY ReadIs
  <2>6. Frames(x, x + (to - x)) = <<>> /\ to - x = 0
    BY <1>1, <2>3 DEF Frames
  <2>7. r.put = <<>> /\ r.amount = 0 /\ r.d = EndOfPass(c, next).d
    BY <2>4, <2>5, <2>6 DEF Read
  <2> HIDE DEF block, ends, counted
  <2>8. DecoderOK(c, r.d)
    BY <1>2, <1>8, <1>9, <2>3, <2>7, WavOn
  <2>9. r.put \in Seq(Int) /\ Len(r.put) <= 2 * Block
    BY <1>1, <2>7
  <2> QED
    BY <1>3, <1>13, <2>7, <2>8, <2>9 DEF ReadOK
<1>14. CASE c.length > 0 /\ ~ends
  <2>1. counted = next
    BY <1>14
  <2>2. r = IF to >= c.length THEN [block EXCEPT !.d = EndOfPass(c, next).d] ELSE block
    BY <1>0, <1>14, <2>1
  <2>3. /\ block.put = Frames(x, x + (to - x)) /\ block.amount = to - x /\ block.d = next
    BY <2>1, ReadIs
  <2>4. x + (to - x) = to
    BY <1>1, <1>8
  <2> DEFINE e == IF to >= c.length THEN EndOfPass(c, next).d ELSE next
  <2>5. r.put = Frames(x, to) /\ r.amount = to - x /\ r.d = e
    BY <2>1, <2>2, <2>3, <2>4 DEF Read
  <2> HIDE DEF block, counted
  <2>6. /\ DecoderOK(c, e)
        /\ c.length > 0 => Meets(c, e, Settled(c, Place(<<>>, to, count, t)))
    <3>1. next.play_count # 0 /\ ~next.flag /\ ~next.at_end /\ next.pos <= c.length
      BY <1>2, <1>8, <1>9
    <3>2. LET f == IF next.pos >= c.length THEN EndOfPass(c, next).d ELSE next
          IN  /\ DecoderOK(c, f)
              /\ c.length > 0 => Meets(c, f, Settled(c, Place(<<>>, next.pos, next.play_count, next.points)))
      BY <1>9, <3>1, WavOn
    <3> QED
      BY <1>9, <3>2
  <2> HIDE DEF e
  <2>7. Open(c, count, t, x, to)
    <3> SUFFICES ASSUME NEW y \in x .. to - 1 PROVE y < c.length /\ NoLoopEnds(c, t, y)
      BY <1>3 DEF Open
    <3>1. y < c.length
      BY <1>1, <1>8
    <3>2. NoLoopEnds(c, t, y)
      BY <1>12, <1>14
    <3> QED
      BY <3>1, <3>2
  <2>8. /\ Heard(c, place(x), Frames(x, to))
        /\ At(c, place(x), to - x) = place(to)
    BY <1>1, <1>8, <2>7, StraightRun
  <2>9. x < to
    BY <1>8, <1>14
  <2> HIDE DEF place
  <2>10. Meets(c, r.d, place(to))
    BY <1>14, <2>5, <2>6 DEF place
  <2> QED
    BY <1>4, <1>8, <1>14, <2>5, <2>6, <2>8, <2>9, <2>10, WavBlock
<1>15. CASE c.length > 0 /\ ends
  <2>1. /\ i \in Around(c, t, x) /\ i \in DOMAIN c.points
        /\ c.points[i].start \in Nat /\ c.points[i].stop \in Nat
        /\ c.points[i].start <= x /\ x <= c.points[i].stop /\ c.points[i].stop < c.length
        /\ stop = c.points[i].stop + 1 /\ to = stop
    BY <1>6, <1>10, <1>15
  <2> DEFINE z == c.points[i].stop
             a == c.points[i].start
             p == Played(t, i)
             y == IF t[i] = 1 THEN z + 1 ELSE a
             w == Settled(c, Place(<<>>, y, count, p))
  <2>2. p \in Points(c)
    BY <1>1, <2>1, PlayedPoints
  <2>3. counted = [next EXCEPT !.points = p]
    BY <1>9, <1>15 DEF WavPlayed
  <2> HIDE DEF p, counted
  <2>4. /\ counted \in Decoders(c) /\ counted.points = p
        /\ counted.pos = to /\ counted.play_count = count
        /\ counted.flag = dd.flag /\ counted.at_end = dd.at_end
    <3>1. next \in Decoders(c)
      BY <1>9
    <3>2. LET e == [next EXCEPT !.points = p]
          IN  /\ e \in Decoders(c) /\ e.points = p
              /\ e.pos = next.pos /\ e.at_end = next.at_end /\ e.play_count = next.play_count
              /\ e.flag = next.flag /\ e.active = next.active /\ e.library = next.library
      BY <2>2, <3>1, DecoderPoints
    <3> QED
      BY <1>9, <2>3, <3>2, Zenon
  <2>5. /\ block.put = Frames(x, x + (to - x)) /\ block.amount = to - x /\ block.d = counted
    BY ReadIs
  <2>6. x + (to - x) = to
    BY <1>1, <1>8
  <2>7. z \in Nat /\ x <= z /\ z < c.length /\ to = z + 1 /\ z + 1 <= c.length
    BY <1>1, <2>1
  <2> HIDE DEF z, a
  <2>8. Open(c, count, t, x, z)
    <3> SUFFICES ASSUME NEW k \in x .. z - 1 PROVE k < c.length /\ NoLoopEnds(c, t, k)
      BY <1>3 DEF Open
    <3>1. k < c.length /\ k \in x .. to - 1 /\ k # to - 1
      BY <1>1, <2>7
    <3>2. NoLoopEnds(c, t, k)
      BY <1>12, <3>1
    <3> QED
      BY <3>1, <3>2
  <2>9. /\ Heard(c, place(x), Frames(x, z))
        /\ At(c, place(x), z - x) = place(z)
    BY <1>1, <2>7, <2>8, StraightRun
  <2>10. place(z) = Place(<<>>, z, count, t)
    BY <1>3, <2>7, SettledOpen
  <2>11. i \in Around(c, t, z)
    <3>1. c.points[i].stop \in c.points[i].start .. c.points[i].stop
      BY <1>1, <2>1
    <3>2. t[i] # -1
      BY <2>1 DEF Around
    <3> QED
      BY <1>5, <2>1, <3>1, <3>2 DEF Around, z
  <2>12. After(c, Place(<<>>, z, count, t)) = w
    BY <1>1, <2>7, <2>11, AfterLoop DEF z, a, p
  <2>13. Frame(Place(<<>>, z, count, t)) = z
    BY PlaceFields DEF Frame
  <2> HIDE DEF w, place, block
  <2>14. /\ Heard(c, place(x), Frames(x, z + 1))
         /\ At(c, place(x), (z + 1) - x) = w
    <3> DEFINE v == place(x)
    <3>1. Frame(At(c, v, z - x)) = z /\ After(c, At(c, v, z - x)) = w /\ Heard(c, v, Frames(x, z))
      BY <2>9, <2>10, <2>12, <2>13
    <3> HIDE DEF v
    <3>2. Heard(c, v, Frames(x, z + 1)) /\ At(c, v, (z + 1) - x) = After(c, At(c, v, z - x))
      BY <1>1, <2>7, <3>1, OneMore
    <3> QED
      BY <3>1, <3>2, Zenon DEF v
  <2>15. x < to
    BY <1>8, <1>15
  <2>16. CASE t[i] # 1
    <3> DEFINE e == [counted EXCEPT !.pos = a]
    <3>1. r = [block EXCEPT !.d.pos = a]
      BY <1>0, <1>15, <2>16 DEF a
    <3>2. a \in Nat /\ a < c.length /\ a <= c.length
      BY <1>1, <2>1, <2>7 DEF a
    <3>3. /\ e \in Decoders(c) /\ e.pos = a /\ e.points = p /\ e.play_count = count
          /\ e.flag = dd.flag /\ e.at_end = dd.at_end
      BY <2>4, <3>2, DecoderPos
    <3>4. r.put = Frames(x, to) /\ r.amount = to - x /\ r.d = e
      BY <2>5, <2>6, <3>1 DEF block, Read
    <3> HIDE DEF e
    <3>5. DecoderOK(c, r.d)
      BY <1>2, <1>3, <3>2, <3>3, <3>4 DEF DecoderOK, Positioned
    <3>6. Stands(c, e) = w
      BY <1>3, <2>16, <3>2, <3>3, StandsAt DEF w
    <3>7. Meets(c, r.d, w)
      BY <1>2, <3>3, <3>4, <3>6 DEF Meets
    <3> QED
      BY <1>4, <1>8, <1>15, <2>7, <2>14, <2>15, <3>4, <3>5, <3>7, WavBlock
  <2>17. CASE t[i] = 1
    <3> DEFINE e == IF counted.pos >= c.length THEN EndOfPass(c, counted).d ELSE counted
    <3>1. r = IF to >= c.length THEN [block EXCEPT !.d = EndOfPass(c, counted).d] ELSE block
      BY <1>0, <2>17
    <3>2. counted.play_count # 0 /\ ~counted.flag /\ ~counted.at_end /\ counted.pos <= c.length
      BY <1>2, <1>8, <2>4
    <3>3. /\ DecoderOK(c, e)
          /\ c.length > 0 => Meets(c, e, Settled(c, Place(<<>>, counted.pos, counted.play_count, counted.points)))
      BY <2>4, <3>2, WavOn
    <3>4. w = Settled(c, Place(<<>>, counted.pos, counted.play_count, counted.points))
      BY <2>4, <2>7, <2>17 DEF w
    <3>5. r.put = Frames(x, to) /\ r.amount = to - x /\ r.d = e
      BY <2>4, <2>5, <2>6, <3>1 DEF block, Read
    <3> HIDE DEF e
    <3>6. DecoderOK(c, r.d) /\ Meets(c, r.d, w)
      BY <1>15, <3>3, <3>4, <3>5
    <3> QED
      BY <1>4, <1>8, <1>15, <2>7, <2>14, <2>15, <3>5, <3>6, WavBlock
  <2> QED
    BY <2>16, <2>17
<1> QED
  BY <1>1, <1>13, <1>14, <1>15

-----------------------------------------------------------------------------
(* Timidity and the synthesizers.                                           *)

\* A read of m frames, which ends the pass if there are fewer.
LEMMA TimidityOK ==
    ASSUME NEW c, Proper(c), c.codec \in {"timidity", "timidity_stream"}, NEW dd, Reading(c, dd),
           NEW bytes, NEW m \in Nat, m > 0, c.codec = "timidity" => m = bytes,
           c.codec = "timidity_stream" => m = Block, NEW r \in TIMIDITY_GetSome(c, dd, m)
    PROVE  ReadOK(c, dd, bytes, r)
<1> DEFINE n == Least(m, c.length - dd.pos)
           to == dd.pos + n
           whole == n = m
           e == [dd EXCEPT !.pos = to]
           next == [dd EXCEPT !.pos = to, !.active = whole]
           block == Read(dd.pos, n, next)
<1>1. /\ dd \in Decoders(c) /\ dd.play_count \in Passes /\ dd.pos \in Nat
      /\ dd.points \in Points(c) /\ c.length \in Nat /\ Block \in Nat /\ Block > 0
  BY ReadingFields
<1>2. /\ dd.pos <= c.length /\ ~dd.flag /\ ~dd.at_end /\ dd.play_count # 0 /\ dd.active
      /\ c.codec = "timidity_stream" => dd.pos % Block = 0
  BY DEF Reading, DecoderOK, Positioned
<1>3. /\ ~Tagged(c) /\ c.codec \notin Synths /\ c.codec \notin Synths \union {"wav"}
      /\ c.codec = "timidity_stream" => c.length % Block = 0
      /\ c.codec \notin {"qoa", "xmp", "flac", "drflac", "wav"}
  BY DEF Proper, PlaysRight, Synths, AtOnce, InBlocks
<1>4. /\ n \in Nat /\ n <= m /\ to \in Nat /\ dd.pos <= to /\ to <= c.length /\ to - dd.pos = n
      /\ n < m => to = c.length
      /\ n = 0 <=> dd.pos = c.length
  BY <1>1, <1>2 DEF Least
<1>5. c.codec = "timidity_stream" => /\ to % Block = 0
                                     /\ n < m => n = 0
  <2> SUFFICES ASSUME c.codec = "timidity_stream" PROVE to % Block = 0 /\ (n < m => n = 0)
    OBVIOUS
  <2>1. m = Block /\ dd.pos % Block = 0 /\ c.length % Block = 0
    BY <1>2, <1>3
  <2>2. n < m => dd.pos = c.length
    <3>1. CASE dd.pos < c.length
      <4>1. dd.pos - (dd.pos % Block) + Block <= c.length
        BY <1>1, <2>1, <3>1, NotPast
      <4>2. dd.pos + Block <= c.length
        BY <1>1, <2>1, <4>1
      <4>3. n = m
        BY <1>1, <2>1, <4>2 DEF Least
      <4> QED
        BY <1>4, <4>3
    <3> QED
      BY <1>1, <1>2, <3>1
  <2>3. n = Block => to % Block = 0
    BY <1>1, <2>1, BlockMore
  <2> HIDE DEF n
  <2>4. n < m => to = dd.pos /\ n = 0
    BY <1>1, <1>4, <2>2
  <2>5. n < m \/ n = Block
    BY <1>1, <1>4, <2>1
  <2> HIDE DEF to
  <2> QED
    BY <1>4, <2>1, <2>3, <2>4, <2>5
<1>6. r = IF n < m THEN [block EXCEPT !.d = EndOfPass(c, next).d] ELSE block
  <2>1. [dd EXCEPT !.pos = @ + n, !.active = @ /\ n = m] = next
    BY <1>1, <1>2
  <2>2. (IF dd.active THEN n ELSE 0) = n
    BY <1>2
  <2> QED
    BY <2>1, <2>2 DEF TIMIDITY_GetSome
<1>7. /\ e \in Decoders(c) /\ e.pos = to
      /\ e.play_count = dd.play_count /\ e.flag = dd.flag /\ e.at_end = dd.at_end
      /\ e.points = dd.points
  BY <1>1, <1>4, DecoderPos
<1>8. whole \in BOOLEAN /\ next = [e EXCEPT !.active = whole]
  OBVIOUS
<1> HIDE DEF e, next
<1>9. /\ next \in Decoders(c) /\ next.pos = to /\ next.active = whole
      /\ next.play_count = dd.play_count /\ next.flag = dd.flag /\ next.at_end = dd.at_end
      /\ next.points = dd.points
  <2> HIDE DEF whole, to, n
  <2> QED
    BY <1>7, <1>8, DecoderActive
<1> DEFINE place(x) == Settled(c, Place(<<>>, x, dd.play_count, dd.points))
<1> HIDE DEF n, whole
<1>10. /\ Frames(dd.pos, to) \in Seq(Int) /\ Len(Frames(dd.pos, to)) = n
       /\ Heard(c, place(dd.pos), Frames(dd.pos, to))
       /\ At(c, place(dd.pos), n) = place(to)
  <2>1. /\ Frames(dd.pos, to) \in Seq(Int) /\ Len(Frames(dd.pos, to)) = to - dd.pos
        /\ Heard(c, place(dd.pos), Frames(dd.pos, to))
        /\ At(c, place(dd.pos), Len(Frames(dd.pos, to))) = place(to)
    <3>1. c.codec # "wav"
      BY <1>3
    <3> HIDE DEF to
    <3> QED
      BY <1>1, <1>3, <1>4, <3>1, BlockRun
  <2> HIDE DEF to, place
  <2> QED
    BY <1>4, <2>1
<1>11. Stands(c, dd) = place(dd.pos)
  BY <1>1, <1>2, <1>3, StandsAt
<1>12. block.put = Frames(dd.pos, to) /\ block.amount = n /\ block.d = next
  BY ReadIs
<1>13. CASE n < m
  <2> DEFINE w == Settled(c, Place(<<>>, c.length, next.play_count, next.points))
             f == EndOfPass(c, next)
  <2>1. r.put = Frames(dd.pos, to) /\ r.amount = n /\ r.d = f.d
    BY <1>6, <1>12, <1>13 DEF Read
  <2>2. AtEnd(c, next)
    BY <1>2, <1>3, <1>4, <1>5, <1>9 DEF AtEnd
  <2>3. Passed(c, w, f)
    BY <1>3, <2>2, EndOfPassOK
  <2>4. w = place(to)
    BY <1>4, <1>9, <1>13
  <2> HIDE DEF w, f, place, to, block
  <2>5. f.put = <<>> /\ DecoderOK(c, f.d) /\ (f.d.active \/ f.d.play_count = 0)
    BY <1>3, <2>3 DEF Passed
  <2>6. Len(f.put) = 0 /\ At(c, w, 0) = w
    BY <2>5, AtSteps
  <2>7. c.length # 0 => Meets(c, f.d, w) /\ (f.d.play_count = 0 \/ Yields(c, f.d))
    BY <2>3, <2>5, <2>6 DEF Passed
  <2>8. Yields(c, dd) => r.put # <<>>
    <3>1. Yields(c, dd) => dd.pos # c.length
      BY <1>1, <1>3 DEF Yields
    <3> QED
      BY <1>4, <1>10, <2>1, <3>1
  <2>9. c.length # 0 => Brings(c, dd, r)
    BY <1>10, <1>11, <2>1, <2>4, <2>7, <2>8 DEF Brings
  <2>10. c.length = 0 => r.put = <<>>
    <3>1. c.length = 0 => n = 0
      BY <1>1, <1>2, <1>4
    <3> QED
      BY <1>10, <2>1, <3>1
  <2>11. c.codec = "timidity_stream" => r.put = <<>>
    BY <1>5, <1>10, <1>13, <2>1
  <2>12. Len(r.put) <= m /\ Len(r.put) # m
    BY <1>4, <1>10, <1>13, <2>1
  <2>13. c.codec # "timidity" => Len(r.put) <= 2 * Block
    <3>1. c.codec # "timidity" => Len(r.put) = 0
      BY <2>11
    <3> QED
      BY <1>1, <3>1
  <2>14. r.put \in Seq(Int) /\ r.amount \in Nat
    BY <1>4, <1>10, <2>1
  <2> QED
    BY <1>3, <2>1, <2>5, <2>9, <2>10, <2>11, <2>12, <2>13, <2>14 DEF ReadOK
<1>14. CASE ~(n < m)
  <2>1. r = block /\ whole /\ n = m
    BY <1>4, <1>6, <1>14 DEF whole
  <2>2. r.put = Frames(dd.pos, to) /\ r.amount = n /\ r.d = next
    BY <1>12, <2>1
  <2>3. Stands(c, next) = place(to)
    BY <1>3, <1>4, <1>9, StandsAt
  <2> HIDE DEF place, to, block
  <2>4. Meets(c, r.d, place(to))
    BY <1>2, <1>9, <2>2, <2>3 DEF Meets
  <2>5. DecoderOK(c, r.d)
    BY <1>2, <1>3, <1>4, <1>5, <1>9, <2>2 DEF DecoderOK, Positioned
  <2>6. r.put \in Seq(Int) /\ r.amount \in Nat /\ Len(r.put) = m /\ r.put # <<>> /\ c.length # 0
    <3>1. r.put \in Seq(Int) /\ r.amount \in Nat /\ Len(r.put) = m
      BY <1>4, <1>10, <2>1, <2>2
    <3>2. c.length # 0
      BY <1>1, <1>4, <2>1
    <3> QED
      BY <3>1, <3>2
  <2>7. Brings(c, dd, r)
    BY <1>10, <1>11, <2>2, <2>4, <2>6 DEF Brings
  <2>8. r.d.active /\ r.d.play_count # 0
    BY <1>2, <1>9, <2>1, <2>2
  <2>9. c.codec # "timidity" => Len(r.put) <= 2 * Block
    BY <1>1, <2>6
  <2> QED
    BY <1>3, <2>5, <2>6, <2>7, <2>8, <2>9 DEF ReadOK
<1> QED
  BY <1>13, <1>14

\* What a library that synthesizes plays is what is due of it.
LEMMA LibraryDue ==
    ASSUME NEW c, Proper(c), c.codec \in Synths, NEW u \in Libraries
    PROVE  u \in Due(c) /\ u.queue = <<>> /\ u.points = <<>>
<1>1. c.codec # "wav"
  BY DEF Synths
<1>2. c.points = <<>>
  BY <1>1, CaseFields
<1>3. <<>> \in Points(c) /\ <<>> \in Seq(Int)
  BY <1>2 DEF Points
<1> QED
  BY <1>3 DEF Libraries, Due

LEMMA DueLibrary ==
    ASSUME NEW c, Proper(c), c.codec \in Synths, NEW u \in Due(c), u.queue = <<>>
    PROVE  u \in Libraries
<1>1. c.codec # "wav"
  BY DEF Synths
<1>2. u.points = <<>>
  BY <1>1, NoPoints DEF Due
<1> QED
  BY <1>2 DEF Libraries, Due

LEMMA QueueStays ==
    ASSUME NEW c, Proper(c), c.codec # "wav", NEW u \in Due(c), u.queue = <<>>
    PROVE  After(c, u).queue = <<>>
<1> DEFINE x == u.pos  p == u.passes  t == u.points
<1>1. /\ u.over => u = Ended(<<>>, x, p, t)
      /\ ~u.over => u = Place(<<>>, x, p, t)
      /\ x \in Nat /\ p \in Passes /\ t \in Points(c)
  BY DuePlace
<1>2. CASE u.over
  BY <1>1, <1>2, AfterEnded
<1>3. CASE ~u.over
  <2>1. NoLoopEnds(c, t, x)
    BY <1>1, NoPoints
  <2>2. After(c, Place(<<>>, x, p, t)) = Settled(c, Place(<<>>, x + 1, p, t))
    BY <1>1, <2>1, AfterStraight
  <2>3. Settled(c, Place(<<>>, x + 1, p, t)).queue = <<>>
    BY SettledForm, PlaceFields
  <2> HIDE DEF x, p, t
  <2> QED
    BY <1>1, <1>3, <2>2, <2>3
<1> QED
  BY <1>2, <1>3

LEMMA LibraryAt ==
    ASSUME NEW c, Proper(c), c.codec \in Synths, NEW u \in Libraries, NEW n \in Nat
    PROVE  At(c, u, n) \in Libraries
<1> DEFINE S == {k \in Nat : At(c, u, k) \in Due(c) /\ At(c, u, k).queue = <<>>}
<1>0. c.codec # "wav"
  BY DEF Synths
<1>1. 0 \in S
  BY LibraryDue, AtSteps
<1>2. ASSUME NEW k \in Nat, k \in S PROVE k + 1 \in S
  <2>1. At(c, u, k + 1) = After(c, At(c, u, k))
    BY AtSteps
  <2>2. After(c, At(c, u, k)) \in Due(c) /\ After(c, At(c, u, k)).queue = <<>>
    BY <1>0, <1>2, AfterDue, QueueStays
  <2> QED
    BY <2>1, <2>2
<1>3. \A k \in Nat : k \in S
  <2> HIDE DEF S
  <2> QED
    BY <1>1, <1>2, NumberInduction
<1> QED
  BY <1>3, DueLibrary

LEMMA FrameInt ==
    ASSUME NEW c, NEW u \in Due(c)
    PROVE  Frame(u) \in Int
<1>1. u.queue \in Seq(Int) /\ u.pos \in Nat
  BY DuePlace
<1>2. u.queue # <<>> => Head(u.queue) \in Int
  BY <1>1
<1> QED
  BY <1>1, <1>2 DEF Frame, Silent

LEMMA SynthOK ==
    ASSUME NEW c, Proper(c), c.codec \in Synths, NEW dd, Reading(c, dd), NEW bytes,
           NEW r \in SynthGetSome(c, dd)
    PROVE  ReadOK(c, dd, bytes, r)
<1> DEFINE u == dd.library
           K == {k \in 0 .. Block - 1 : ~Ahead(c, u, Block)[k].over}
           n == Cardinality(K)
           put == [k \in 1 .. n |-> Frame(Ahead(c, u, Block)[k - 1])]
           e == [dd EXCEPT !.library = Ahead(c, u, Block)[n]]
<1>1. dd \in Decoders(c) /\ u \in Libraries /\ Block \in Nat /\ Block > 0 /\ c.length \in Nat
      /\ dd.play_count # 0
  BY ReadingFields, DecoderFields DEF Reading
<1>2. c.length # 0 /\ c.codec \notin {"qoa", "xmp", "timidity", "timidity_stream", "flac", "drflac", "wav"}
      /\ c.codec # "timidity"
  <2>1. c.length > 0
    BY DEF Proper, PlaysRight
  <2> QED
    BY <1>1, <2>1 DEF Synths
<1>3. \A k \in 0 .. Block : Ahead(c, u, Block)[k] = At(c, u, k)
  BY <1>1, AheadAt
<1>4. /\ r.put = put /\ r.amount = n /\ r.d = e
  BY DEF SynthGetSome
<1>5. n \in 0 .. Block /\ (n = 0 => u.over)
  <2>1. IsFiniteSet(0 .. Block - 1) /\ Cardinality(0 .. Block - 1) = Block
    <3>1. 0 \in Int /\ Block - 1 \in Int
      BY <1>1
    <3>2. IsFiniteSet(0 .. Block - 1) /\ Cardinality(0 .. Block - 1) = IF 0 > Block - 1 THEN 0 ELSE (Block - 1) - 0 + 1
      BY <3>1, FS_Interval, Zenon
    <3> QED
      BY <1>1, <3>2
  <2>2. K \in SUBSET (0 .. Block - 1)
    OBVIOUS
  <2>3. 0 \in K \/ u.over
    <3>1. Ahead(c, u, Block)[0] = u
      BY <1>1, <1>3, AtSteps
    <3> QED
      BY <1>1, <3>1
  <2> HIDE DEF K
  <2>4. IsFiniteSet(K) /\ Cardinality(K) <= Cardinality(0 .. Block - 1)
    BY <2>1, <2>2, FS_Subset
  <2>5. Cardinality(K) \in Nat
    BY <2>4, FS_CardinalityType
  <2>6. Cardinality(K) = 0 => K = {}
    BY <2>4, FS_EmptySet
  <2> QED
    BY <1>1, <2>1, <2>3, <2>4, <2>5, <2>6
<1> HIDE DEF n, u
<1>6. At(c, u, n) \in Libraries /\ Ahead(c, u, Block)[n] = At(c, u, n)
  BY <1>1, <1>3, <1>5, LibraryAt
<1>7. /\ e \in Decoders(c) /\ e.library = At(c, u, n)
      /\ e.pos = dd.pos /\ e.at_end = dd.at_end /\ e.play_count = dd.play_count
      /\ e.flag = dd.flag /\ e.active = dd.active /\ e.points = dd.points
  <2> DEFINE l == Ahead(c, u, Block)[n]
  <2>1. l \in Libraries /\ l = At(c, u, n)
    BY <1>6
  <2> HIDE DEF l
  <2>2. LET f == [dd EXCEPT !.library = l]
        IN  /\ f \in Decoders(c) /\ f.library = l
            /\ f.pos = dd.pos /\ f.at_end = dd.at_end /\ f.play_count = dd.play_count
            /\ f.flag = dd.flag /\ f.active = dd.active /\ f.points = dd.points
    BY <1>1, <2>1, DecoderLibrary
  <2> QED
    BY <2>1, <2>2 DEF l
<1> HIDE DEF e
<1>8. ASSUME NEW k \in 1 .. n
      PROVE  put[k] = Frame(At(c, u, k - 1)) /\ put[k] \in Int
  <2>1. k - 1 \in 0 .. Block /\ k - 1 \in Nat
    BY <1>1, <1>5
  <2>2. put[k] = Frame(At(c, u, k - 1))
    BY <1>3, <2>1
  <2>3. At(c, u, k - 1) \in Due(c)
    BY <1>1, <2>1, LibraryAt, LibraryDue
  <2>4. Frame(At(c, u, k - 1)) \in Int
    BY <2>3, FrameInt
  <2> QED
    BY <2>2, <2>4
<1>9. put \in Seq(Int) /\ Len(put) = n /\ DOMAIN put = 1 .. n
  <2>1. n \in Nat
    BY <1>5
  <2>2. DOMAIN put = 1 .. n
    OBVIOUS
  <2>3. put = [k \in 1 .. n |-> put[k]]
    OBVIOUS
  <2> HIDE DEF put
  <2>4. put \in [1 .. n -> Int]
    BY <1>8, <2>2, <2>3
  <2>5. put \in Seq(Int)
    BY <2>1, <2>4
  <2> QED
    BY <2>1, <2>2, <2>5
<1> HIDE DEF put
<1>10. Heard(c, u, put)
  BY <1>8, <1>9 DEF Heard
<1>11. Stands(c, dd) = u /\ Stands(c, r.d) = At(c, u, n)
  BY <1>4, <1>7 DEF Stands, u
<1>12. Meets(c, r.d, At(c, u, n))
  BY <1>11 DEF Meets
<1>13. Brings(c, dd, r)
  BY <1>4, <1>9, <1>10, <1>11, <1>12 DEF Brings
<1>14. DecoderOK(c, r.d)
  BY <1>2, <1>4, <1>7 DEF Reading, DecoderOK, Positioned
<1>15. Len(r.put) <= 2 * Block /\ r.amount \in Nat
  BY <1>1, <1>4, <1>5, <1>9
<1>16. (r.amount = 0 => dd.library.over) /\ (r.amount > 0 => r.put # <<>>)
  BY <1>4, <1>5, <1>9 DEF u
<1> QED
  BY <1>1, <1>2, <1>4, <1>7, <1>9, <1>13, <1>14, <1>15, <1>16 DEF ReadOK

-----------------------------------------------------------------------------
(* Every decoder.                                                           *)

LEMMA PlainSome ==
    ASSUME NEW c, Proper(c), c.codec \in Plain, NEW dd, Reading(c, dd), NEW bytes,
           NEW sizes, sizes \subseteq Any(c, dd) \union {Full(c, dd)},
           NEW r \in PlainGetSome(c, dd, sizes)
    PROVE  ReadOK(c, dd, bytes, r)
<1>1. PICK n \in sizes :
        r = IF n > 0 THEN Read(dd.pos, n, [dd EXCEPT !.pos = @ + n]) ELSE EndOfPass(c, dd)
  BY DEF PlainGetSome
<1>2. c.codec # "qoa"
  BY DEF Plain
<1>3. dd.pos <= c.length
  BY <1>2 DEF Reading, DecoderOK, Positioned
<1>4. n \in Any(c, dd) \union {Full(c, dd)}
  BY <1>1
<1>5. n \in Nat /\ n <= Block /\ dd.pos + n <= c.length /\ (n = 0 => dd.pos = c.length)
  BY <1>3, <1>4, SizesOK
<1>6. ReadOK(c, dd, bytes,
                  IF n > 0 THEN Read(dd.pos, n, [dd EXCEPT !.pos = @ + n]) ELSE EndOfPass(c, dd))
  BY <1>5, PlainOK
<1> QED
  BY <1>1, <1>6

LEMMA GetSomeOK ==
    ASSUME NEW c, Proper(c), NEW dd, Reading(c, dd), NEW bytes \in Nat, bytes > 0,
           NEW r \in GetSome(c, dd, bytes)
    PROVE  ReadOK(c, dd, bytes, r)
<1>0. Block \in Nat /\ Block > 0
  BY BlockPositive
<1>1. CASE c.codec = "drmp3"
  <2>1. r \in DRMP3_GetSome(c, dd)
    BY <1>1 DEF GetSome
  <2>2. c.codec \in Plain
    BY <1>1 DEF Plain
  <2> QED
    BY <2>1, <2>2, PlainSome DEF DRMP3_GetSome
<1>2. CASE c.codec = "mpg123"
  <2>1. r \in MPG123_GetSome(c, dd)
    BY <1>2 DEF GetSome
  <2>2. c.codec \in Plain
    BY <1>2 DEF Plain
  <2> QED
    BY <2>1, <2>2, PlainSome DEF MPG123_GetSome
<1>3. CASE c.codec = "wavpack"
  <2>1. r \in WAVPACK_GetSome(c, dd)
    BY <1>3 DEF GetSome
  <2>2. c.codec \in Plain
    BY <1>3 DEF Plain
  <2> QED
    BY <2>1, <2>2, PlainSome DEF WAVPACK_GetSome
<1>4. CASE c.codec = "modplug"
  <2>1. r \in MODPLUG_GetSome(c, dd)
    BY <1>4 DEF GetSome
  <2>2. c.codec \in Plain
    BY <1>4 DEF Plain
  <2> QED
    BY <2>1, <2>2, PlainSome DEF MODPLUG_GetSome
<1>5. CASE c.codec = "ffmpeg"
  <2>1. r \in FFMPEG_GetSome(c, dd)
    BY <1>5 DEF GetSome
  <2>2. c.codec \in Plain
    BY <1>5 DEF Plain
  <2> QED
    BY <2>1, <2>2, PlainSome DEF FFMPEG_GetSome
<1>6. CASE c.codec = "xmp"
  <2>1. r \in XMP_GetSome(c, dd)
    BY <1>6 DEF GetSome
  <2> QED
    BY <1>6, <2>1, XmpOK
<1>7. CASE c.codec = "ogg"
  <2>1. r \in OGG_GetSome(c, dd)
    BY <1>7 DEF GetSome
  <2>2. ogg_quick_seek_to_loop_start(c) = c.start
    BY <1>7 DEF Proper, PlaysRight
  <2>3. PICK n \in Any(c, dd) : r = AtOnceGetSome(c, dd, n, dd.pos + n, 1, c.start)
    BY <2>1, <2>2 DEF OGG_GetSome
  <2> QED
    BY <1>7, <2>3, FramesOK
<1>8. CASE c.codec = "ogg_stb"
  <2>1. r \in OGG_STB_GetSome(c, dd)
    BY <1>8 DEF GetSome
  <2>2. r = AtOnceGetSome(c, dd, Full(c, dd), dd.pos + Full(c, dd), 1, c.start)
    BY <2>1 DEF OGG_STB_GetSome
  <2> QED
    BY <1>8, <2>2, FramesOK
<1>9. CASE c.codec = "opus"
  <2>1. r \in OPUS_GetSome(c, dd)
    BY <1>9 DEF GetSome
  <2> QED
    BY <1>9, <2>1, PacketsOK DEF OPUS_GetSome
<1>10. CASE c.codec = "qoa"
  <2>1. r \in QOA_GetSome(c, dd)
    BY <1>10 DEF GetSome
  <2> QED
    BY <1>10, <2>1, SamplesOK DEF QOA_GetSome
<1>11. CASE c.codec = "flac"
  <2>1. r \in FLAC_GetSome(c, dd)
    BY <1>11 DEF GetSome
  <2> QED
    BY <1>11, <2>1, FlacOK
<1>12. CASE c.codec = "drflac"
  <2>1. r \in DRFLAC_GetSome(c, dd)
    BY <1>12 DEF GetSome
  <2> QED
    BY <1>12, <2>1, DrflacOK
<1>13. CASE c.codec = "wav"
  <2>1. r \in WAV_GetSome(c, dd)
    BY <1>13 DEF GetSome
  <2> QED
    BY <1>13, <2>1, WavOK
<1>14. CASE c.codec = "timidity"
  <2>1. r \in TIMIDITY_GetSome(c, dd, bytes)
    BY <1>14 DEF GetSome
  <2> QED
    BY <1>0, <1>14, <2>1, TimidityOK
<1>15. CASE c.codec = "timidity_stream"
  <2>1. r \in TIMIDITY_GetSome(c, dd, Block)
    BY <1>15 DEF GetSome
  <2> QED
    BY <1>0, <1>15, <2>1, TimidityOK
<1>16. CASE c.codec = "adlmidi"
  <2>1. r \in ADLMIDI_playSome(c, dd)
    BY <1>16 DEF GetSome
  <2>2. c.codec \in Synths
    BY <1>16 DEF Synths
  <2> QED
    BY <2>1, <2>2, SynthOK DEF ADLMIDI_playSome
<1>17. CASE c.codec = "opnmidi"
  <2>1. r \in OPNMIDI_playSome(c, dd)
    BY <1>17 DEF GetSome
  <2>2. c.codec \in Synths
    BY <1>17 DEF Synths
  <2> QED
    BY <2>1, <2>2, SynthOK DEF OPNMIDI_playSome
<1>18. CASE c.codec = "edmidi"
  <2>1. r \in EDMIDI_playSome(c, dd)
    BY <1>18 DEF GetSome
  <2>2. c.codec \in Synths
    BY <1>18 DEF Synths
  <2> QED
    BY <2>1, <2>2, SynthOK DEF EDMIDI_playSome
<1>19. CASE c.codec = "fluidsynth"
  <2>1. r \in FLUIDSYNTH_GetSome(c, dd)
    BY <1>19 DEF GetSome
  <2>2. c.codec \in Synths
    BY <1>19 DEF Synths
  <2> QED
    BY <2>1, <2>2, SynthOK DEF FLUIDSYNTH_GetSome
<1>20. c.codec \in Codecs
  BY CaseFields
<1> QED
  BY <1>1, <1>2, <1>3, <1>4, <1>5, <1>6, <1>7, <1>8, <1>9, <1>10, <1>11, <1>12, <1>13, <1>14, <1>15, <1>16, <1>17, <1>18, <1>19, <1>20 DEF Codecs, Plain, AtOnce, Synths

-----------------------------------------------------------------------------
(* Starts and seeks.                                                        *)

LEMMA Moved ==
    ASSUME NEW p \in Nat, NEW w \in Libraries
    PROVE  [w EXCEPT !.pos = p, !.over = FALSE] = Place(<<>>, p, w.passes, <<>>)
<1> DEFINE at(x, y, z) == [queue |-> <<>>, pos |-> x, passes |-> y, points |-> <<>>, over |-> z]
<1>1. \A x, y, z : at(x, y, z).passes = y
  OBVIOUS
<1>2. \A x, y, z : [at(x, y, z) EXCEPT !.pos = p] = at(p, y, z)
  OBVIOUS
<1>3. \A x, y, z, o : [at(x, y, z) EXCEPT !.over = o] = at(x, y, o)
  OBVIOUS
<1>4. w = at(w.pos, w.passes, w.over)
  BY DEF Libraries
<1>5. \A o : [w EXCEPT !.pos = p, !.over = o] = [[w EXCEPT !.pos = p] EXCEPT !.over = o]
  OBVIOUS
<1>6. Place(<<>>, p, w.passes, <<>>) = at(p, w.passes, FALSE)
  BY DEF Place
<1> HIDE DEF at
<1>7. PICK x, y, z : w = at(x, y, z)
  BY <1>4
<1>8. y = w.passes
  BY <1>1, <1>7, Zenon
<1>9. [w EXCEPT !.pos = p] = at(p, y, z)
  <2>1. [at(x, y, z) EXCEPT !.pos = p] = at(p, y, z)
    BY <1>2
  <2> QED
    BY <1>7, <2>1
<1>10. \A o : [[w EXCEPT !.pos = p] EXCEPT !.over = o] = at(p, y, o)
  <2>1. \A o : [at(p, y, z) EXCEPT !.over = o] = at(p, y, o)
    BY <1>3
  <2> QED
    BY <1>9, <2>1
<1>11. \A o : [w EXCEPT !.pos = p, !.over = o] = at(p, y, o)
  BY <1>5, <1>10
<1> QED
  BY <1>6, <1>8, <1>11, Zenon

\* Changing where a library is.
LEMMA SynthSeek ==
    ASSUME NEW c, Proper(c), c.codec \in Synths, NEW dd \in Decoders(c), NEW p \in Nat
    PROVE  LET r == SeekTo(c, dd, p)
           IN  /\ r.put = <<>> /\ r.amount = 0 /\ r.d \in Decoders(c)
               /\ r.d.library = Settled(c, Place(<<>>, p, dd.library.passes, <<>>))
               /\ r.d.pos = dd.pos /\ r.d.at_end = dd.at_end /\ r.d.play_count = dd.play_count
               /\ r.d.flag = dd.flag /\ r.d.active = dd.active /\ r.d.points = dd.points
<1> DEFINE u == dd.library
           v == [u EXCEPT !.pos = p, !.over = FALSE]
           l == Settled(c, v)
           e == [dd EXCEPT !.library = l]
<1>1. u \in Libraries /\ dd \in Decoders(c)
  BY DecoderFields
<1>2. v = Place(<<>>, p, u.passes, <<>>)
  BY <1>1, Moved
<1>3. c.codec # "flac" /\ c.codec # "wav"
  BY DEF Synths
<1>4. SeekTo(c, dd, p) = Read(0, 0, e)
  BY <1>1, <1>3 DEF SeekTo
<1> HIDE DEF v
<1>5. l \in Libraries
  <2>1. <<>> \in Points(c) /\ <<>> \in Seq(Int) /\ u.passes \in Passes
    BY <1>1, LibraryDue DEF Libraries, Due
  <2>2. l \in Due(c)
    BY <1>2, <2>1, SettledPlace
  <2>3. l.queue = <<>>
    BY <1>2, SettledForm, PlaceFields
  <2> HIDE DEF l
  <2> QED
    BY <2>2, <2>3, DueLibrary
<1>6. l = Settled(c, Place(<<>>, p, u.passes, <<>>))
  BY <1>2
<1> HIDE DEF l
<1>7. /\ e \in Decoders(c) /\ e.library = l
      /\ e.pos = dd.pos /\ e.at_end = dd.at_end /\ e.play_count = dd.play_count
      /\ e.flag = dd.flag /\ e.active = dd.active /\ e.points = dd.points
  BY <1>1, <1>5, DecoderLibrary
<1> HIDE DEF e
<1>8. Read(0, 0, e).put = <<>> /\ Read(0, 0, e).amount = 0 /\ Read(0, 0, e).d = e
  BY ReadIs, NoFrames
<1> QED
  BY <1>4, <1>6, <1>7, <1>8

\* Where a seek can lead.
LEMMA Sought ==
    ASSUME NEW c, Proper(c), NEW p, p = 0 \/ (p \in c.seeks /\ "seek" \in c.calls)
    PROVE  /\ p \in Nat /\ Destination(c, p) \in Nat /\ Destination(c, p) <= c.length
           /\ c.length > 0 => Destination(c, p) < c.length
           /\ c.codec # "wav" => Destination(c, p) = p
           /\ c.codec \in {"xmp", "timidity_stream"} => p % Block = 0
           /\ c.codec = "drflac" /\ Tagged(c) => p = 0
<1>1. c.length \in Nat /\ c.seeks \subseteq Nat /\ Block \in Nat /\ Block > 0
  BY CaseFields, BlockPositive
<1>2. p \in Nat /\ p <= c.length /\ (c.length > 0 => p < c.length)
  BY <1>1 DEF Proper
<1>3. Destination(c, p) \in Nat /\ Destination(c, p) <= p /\ (c.codec # "wav" => Destination(c, p) = p)
  BY <1>2, DestinationIs
<1>4. c.codec \in {"xmp", "timidity_stream"} => p % Block = 0
  <2>1. 0 % Block = 0
    BY <1>1
  <2>2. c.codec \in {"xmp", "timidity_stream"} => \A q \in c.seeks : q % Block = 0
    BY DEF Proper, PlaysRight, InBlocks
  <2> QED
    BY <2>1, <2>2
<1>5. c.codec = "drflac" /\ Tagged(c) => p = 0
  BY DEF Proper, PlaysRight
<1> QED
  BY <1>1, <1>2, <1>3, <1>4, <1>5

LEMMA SeekRun ==
    ASSUME NEW c, Proper(c), c.codec # "wav", NEW a \in Nat, NEW b \in Nat, a <= b,
           b <= c.length, b <= c.end \/ ~Tagged(c), NEW dd, dd.points \in Points(c)
    PROVE  LET w == Settled(c, Place(<<>>, a, dd.play_count, dd.points))
           IN  /\ Heard(c, w, Frames(a, b))
               /\ At(c, w, Len(Frames(a, b))) =
                    Settled(c, Place(<<>>, b, dd.play_count, dd.points))
<1>1. Tagged(c) /\ dd.play_count # 1 => b <= c.end
  OBVIOUS
<1> QED
  BY <1>1, RunOn

\* A seek to p leads to what is due from p on.
LEMMA SeekLeads ==
    ASSUME NEW c, Proper(c), NEW dd \in Decoders(c), NEW p, p = 0 \/ (p \in c.seeks /\ "seek" \in c.calls),
           ~dd.flag, dd.at_end => c.codec = "qoa",
           c.codec \in Synths => dd.pos <= c.length /\ c.length > 0
    PROVE  LET r == SeekTo(c, dd, p)
               counted == IF c.codec \in Synths THEN dd.library.passes ELSE dd.play_count
               v == Settled(c, Place(<<>>, Destination(c, p), counted, dd.points))
           IN  /\ r.put \in Seq(Int) /\ Len(r.put) <= Block /\ r.amount \in Nat
               /\ c.codec # "flac" \/ c.length = 0 => r.put = <<>>
               /\ DecoderOK(c, r.d) /\ r.d.play_count = dd.play_count
               /\ r.d.active = dd.active /\ ~r.d.flag
               /\ counted # 0 => /\ v \in Due(c) /\ Heard(c, v, r.put)
                                 /\ dd.play_count # 0 => Meets(c, r.d, At(c, v, Len(r.put)))
<1> DEFINE r == SeekTo(c, dd, p)
           counted == IF c.codec \in Synths THEN dd.library.passes ELSE dd.play_count
           dest == Destination(c, p)
           v == Settled(c, Place(<<>>, dest, counted, dd.points))
<1>1. /\ p \in Nat /\ dest \in Nat /\ dest <= c.length
      /\ c.length > 0 => dest < c.length
      /\ c.codec # "wav" => dest = p
      /\ c.codec \in {"xmp", "timidity_stream"} => p % Block = 0
      /\ c.codec = "drflac" /\ Tagged(c) => p = 0
  BY Sought
<1>2. c.length \in Nat /\ c.end \in Nat /\ Block \in Nat /\ Block > 0
  BY CaseFields, BlockPositive
<1>3. /\ dd.play_count \in Passes \union {0} /\ dd.pos \in Nat /\ dd.points \in Points(c)
      /\ dd.library \in Libraries /\ dd.library.passes \in Passes
  BY DecoderFields DEF Libraries
<1>4. counted # 0 => counted \in Passes
  BY <1>3
<1>5. counted # 0 => v \in Due(c)
  BY <1>1, <1>3, <1>4, SettledPlace, <<>> \in Seq(Int)
<1> HIDE DEF v, dest
<1>6. At(c, v, 0) = v
  BY AtSteps
<1>7. CASE c.codec \in Synths
  <2>1. /\ r.put = <<>> /\ r.amount = 0 /\ r.d \in Decoders(c)
        /\ r.d.library = Settled(c, Place(<<>>, p, dd.library.passes, <<>>))
        /\ r.d.pos = dd.pos /\ r.d.at_end = dd.at_end /\ r.d.play_count = dd.play_count
        /\ r.d.flag = dd.flag /\ r.d.active = dd.active /\ r.d.points = dd.points
    BY <1>1, <1>7, SynthSeek
  <2>2. c.codec \notin {"qoa", "flac", "drflac", "wav", "xmp", "timidity", "timidity_stream"}
    BY <1>7 DEF Synths
  <2>3. dd.points = <<>>
    BY <1>3, <2>2, NoPoints
  <2>4. r.d.library = v
    BY <1>1, <1>7, <2>1, <2>2, <2>3 DEF v, dest
  <2> HIDE DEF r
  <2>5. Meets(c, r.d, v)
    BY <1>7, <2>4 DEF Meets, Stands
  <2>6. DecoderOK(c, r.d)
    BY <1>7, <2>1, <2>2 DEF DecoderOK, Positioned
  <2>7. Len(r.put) = 0 /\ r.put \in Seq(Int)
    BY <2>1
  <2>8. Heard(c, v, r.put)
    BY <2>1, HeardNothing
  <2> QED
    BY <1>2, <1>5, <1>6, <2>1, <2>5, <2>6, <2>7, <2>8 DEF r, v, dest
<1>8. CASE c.codec = "flac"
  <2>0. c.codec \notin Synths /\ c.codec # "wav"
    BY <1>8 DEF Synths
  <2>1. /\ r.put = Frames(p, r.d.pos) /\ r.amount = r.d.pos - p
        /\ p <= r.d.pos /\ r.d.pos <= p + Block /\ r.d.pos <= c.length
        /\ p < c.length => p < r.d.pos
        /\ Tagged(c) => r.d.pos < c.end
        /\ r.d \in Decoders(c) /\ ~r.d.at_end /\ ~r.d.flag
        /\ r.d.play_count = dd.play_count
        /\ r.d.active = dd.active /\ r.d.points = dd.points
    <3>1. p \in c.seeks \union {0} /\ ~dd.at_end
      BY <1>8
    <3> QED
      BY <1>1, <1>8, <3>1, SeekFlac
  <2> DEFINE to == r.d.pos
             t == dd.points
             q == dd.play_count
  <2> HIDE DEF r
  <2>2. to \in Nat
    BY <2>1, DecoderFields
  <2>3. r.put \in Seq(Int) /\ Len(r.put) = to - p
    BY <1>1, <2>1, <2>2, FramesSeq
  <2>4. to <= c.end \/ ~Tagged(c)
    BY <1>2, <2>1, <2>2
  <2>5. /\ Heard(c, Settled(c, Place(<<>>, p, q, t)), Frames(p, to))
        /\ At(c, Settled(c, Place(<<>>, p, q, t)), Len(Frames(p, to))) = Settled(c, Place(<<>>, to, q, t))
    <3>1. p <= to /\ to <= c.length
      BY <2>1
    <3> HIDE DEF to
    <3>2. p \in Nat /\ dd.points \in Points(c)
      BY <1>1, <1>3
    <3>3. LET w == Settled(c, Place(<<>>, p, dd.play_count, dd.points))
           IN  /\ Heard(c, w, Frames(p, to))
               /\ At(c, w, Len(Frames(p, to))) =
                    Settled(c, Place(<<>>, to, dd.play_count, dd.points))
      BY <2>0, <2>2, <2>4, <3>1, <3>2, SeekRun
    <3> QED
      BY <3>3
  <2>6. v = Settled(c, Place(<<>>, p, q, t))
    BY <1>1, <2>0 DEF v, dest
  <2>7. Stands(c, r.d) = Settled(c, Place(<<>>, to, q, t))
    BY <2>0, <2>1, StandsAt
  <2>8. Heard(c, v, r.put)
    BY <2>1, <2>5, <2>6
  <2>9. q # 0 => Meets(c, r.d, At(c, v, Len(r.put)))
    BY <2>1, <2>5, <2>6, <2>7 DEF Meets
  <2>10. DecoderOK(c, r.d)
    BY <1>8, <2>1, <2>2 DEF DecoderOK, Positioned
  <2>11. Len(r.put) <= Block /\ r.amount \in Nat
    BY <1>1, <1>2, <2>1, <2>2, <2>3
  <2>12. c.length = 0 => r.put = <<>>
    <3>1. c.length = 0 => Len(r.put) = 0
      BY <1>1, <2>1, <2>2, <2>3
    <3> QED
      BY <2>3, <3>1
  <2> QED
    BY <1>5, <1>8, <2>1, <2>3, <2>8, <2>9, <2>10, <2>11, <2>12 DEF r, v, dest
<1>9. CASE c.codec \notin Synths \union {"flac"}
  <2>0. c.codec \notin Synths /\ c.codec # "flac"
    BY <1>9
  <2>1. /\ r.put = <<>> /\ r.amount = 0
        /\ r.d \in Decoders(c) /\ r.d.pos = dest /\ ~r.d.at_end
        /\ r.d.play_count = dd.play_count /\ r.d.flag = dd.flag
        /\ r.d.active = dd.active /\ r.d.points = dd.points
    BY <1>1, <1>9, SeekPlain DEF dest
  <2> HIDE DEF r
  <2>2. Stands(c, r.d) = v
    <3>1. Stands(c, r.d) = Settled(c, Place(<<>>, dest, dd.play_count, dd.points))
      BY <1>1, <2>0, <2>1, StandsAt
    <3> QED
      BY <2>0, <3>1 DEF v
  <2>3. dd.play_count # 0 => Meets(c, r.d, v)
    BY <2>1, <2>2 DEF Meets
  <2>4. DecoderOK(c, r.d)
    <3>1. Tagged(c) => c.end > 0
      BY DEF Tagged
    <3>2. c.codec \in {"xmp", "timidity_stream"} => dest % Block = 0
      BY <1>1
    <3> QED
      BY <1>1, <1>2, <2>0, <2>1, <3>1, <3>2 DEF DecoderOK, Positioned
  <2>5. Len(r.put) = 0 /\ r.put \in Seq(Int)
    BY <2>1
  <2>6. Heard(c, v, r.put)
    BY <2>1, HeardNothing
  <2> QED
    BY <1>2, <1>5, <1>6, <2>1, <2>3, <2>4, <2>5, <2>6 DEF r, v, dest
<1> QED
  BY <1>7, <1>8, <1>9

-----------------------------------------------------------------------------
(* The invariant.                                                           *)

\* Of a piece that plays: the frames s of the stream are the next ones due after u,
\* and the decoder goes on where they lead to.  A decoder at its end has given
\* all, and one that has not gives something with one of its next two reads.
Playing(c, dd, s, l, z, u) ==
    /\ c.length > 0 => /\ u \in Due(c) /\ Heard(c, u, s)
                       /\ Meets(c, dd, At(c, u, Len(s)))
    /\ dd.play_count = 0 => c.codec \notin Synths /\ (c.codec = "wav" \/ (s = <<>> /\ l > 0))
    /\ c.codec \in {"timidity", "timidity_stream"} => dd.active \/ dd.play_count = 0
    /\ c.length > 0 /\ l > 0 =>
         /\ z <= 2
         /\ s = <<>> /\ dd.play_count # 0 => z = 0 \/ (z <= 1 /\ Yields(c, dd))

\* Of a piece that does not play: nothing of it is left for the next start.
Halt(c, dd, s) == ~dd.flag /\ (s = <<>> \/ Clears(c.codec).play)

Sound(c, pl, dd, s, l, z, u) ==
    /\ pl \in BOOLEAN /\ DecoderOK(c, dd)
    /\ s \in Seq(Int) /\ Len(s) <= 2 * Block
    /\ l \in 0 .. Want /\ z \in 0 .. MAX_ZERO_CYCLES + 1
    /\ l > 0 => pl /\ z <= MAX_ZERO_CYCLES
    /\ c.length = 0 \/ c.codec = "timidity" => s = <<>>
    /\ pl => Playing(c, dd, s, l, z, u)
    /\ ~pl => Halt(c, dd, s)

Along ==
    /\ music \in Cases /\ right = TRUE /\ put_short = FALSE
    /\ Sound(music, playing, d, stream, left, zero_cycles, due)

LEMMA SoundFields ==
    ASSUME NEW c, NEW pl, NEW dd, NEW s, NEW l, NEW z, NEW u, Sound(c, pl, dd, s, l, z, u)
    PROVE  /\ pl \in BOOLEAN /\ DecoderOK(c, dd) /\ dd \in Decoders(c) /\ Positioned(c, dd)
           /\ s \in Seq(Int) /\ Len(s) <= 2 * Block
           /\ l \in 0 .. Want /\ z \in 0 .. MAX_ZERO_CYCLES + 1
           /\ l > 0 => pl /\ z <= MAX_ZERO_CYCLES
           /\ c.length = 0 \/ c.codec = "timidity" => s = <<>>
           /\ pl => Playing(c, dd, s, l, z, u)
           /\ ~pl => Halt(c, dd, s)
  BY DEF Sound, DecoderOK

\* Where a decoder has found a loop's end that it has not acted on, no call comes.
LEMMA NoFlag ==
    ASSUME NEW c, Proper(c), NEW dd, DecoderOK(c, dd)
    PROVE  /\ c.codec \in Synths \/ c.length = 0 \/ c.calls # {} \/ dd.play_count = 0 => dd.flag = FALSE
           /\ dd.at_end => c.codec = "qoa"
           /\ c.codec \in Synths => dd.pos <= c.length /\ c.length > 0
<1>1. /\ dd.flag => c.codec = "drflac" /\ Tagged(c) /\ dd.play_count \notin {0, 1}
      /\ dd.at_end => c.codec = "qoa"
      /\ dd.pos <= c.length \/ c.codec = "qoa"
  BY DecoderFields DEF DecoderOK, Positioned
<1>2. dd.flag \in BOOLEAN
  BY DecoderFields DEF DecoderOK
<1>3. /\ c.codec = "drflac" /\ Tagged(c) => c.calls = {}
      /\ c.codec \in Synths => c.length > 0
  BY DEF Proper, PlaysRight
<1>4. Tagged(c) => c.length > 0
  BY CaseFields DEF Tagged
<1>5. c.codec \in Synths => c.codec # "drflac" /\ c.codec # "qoa"
  BY DEF Synths
<1>6. c.length = 0 => ~(c.length > 0)
  OBVIOUS
<1> QED
  BY <1>1, <1>2, <1>3, <1>4, <1>5, <1>6

\* The stream of a piece that is stopped.
LEMMA StopOK ==
    ASSUME NEW c, Proper(c), NEW dd, NEW s, NEW l, NEW z, NEW u, Sound(c, TRUE, dd, s, l, z, u),
           ~dd.flag, s = <<>> \/ (l = 0 /\ "stop" \in c.calls),
           NEW zz \in 0 .. MAX_ZERO_CYCLES + 1
    PROVE  LET kept == IF Clears(c.codec).stop THEN <<>> ELSE s
           IN  /\ Sound(c, FALSE, Stopped(dd), kept, 0, zz, u)
               /\ kept = <<>> \/ Clears(c.codec).play
<1> DEFINE kept == IF Clears(c.codec).stop THEN <<>> ELSE s
           e == [dd EXCEPT !.active = FALSE]
<1>1. /\ dd \in Decoders(c) /\ Positioned(c, dd) /\ s \in Seq(Int) /\ Len(s) <= 2 * Block
      /\ c.length = 0 \/ c.codec = "timidity" => s = <<>>
  BY DEF Sound, DecoderOK
<1>2. kept = <<>> \/ Clears(c.codec).play
  <2>1. c.codec \in {"timidity_stream", "adlmidi", "opnmidi", "edmidi"} => "stop" \notin c.calls
    BY DEF Proper, PlaysRight
  <2>2. ~Clears(c.codec).stop => c.codec \in {"ffmpeg", "timidity", "timidity_stream",
                                              "adlmidi", "opnmidi", "edmidi"}
    BY DEF Clears
  <2>3. c.codec = "ffmpeg" => Clears(c.codec).play
    BY DEF Clears
  <2> QED
    BY <1>1, <2>1, <2>2, <2>3
<1>3. /\ kept \in Seq(Int) /\ Len(kept) <= 2 * Block /\ 0 \in 0 .. Want
      /\ c.length = 0 \/ c.codec = "timidity" => kept = <<>>
  <2>1. Len(<<>>) = 0 /\ <<>> \in Seq(Int) /\ 0 <= 2 * Block /\ 0 \in 0 .. Want
    BY BlockPositive
  <2> QED
    BY <1>1, <2>1
<1> HIDE DEF kept
<1>4. /\ e \in Decoders(c) /\ e.pos = dd.pos /\ e.at_end = dd.at_end
      /\ e.play_count = dd.play_count /\ e.flag = dd.flag
  BY <1>1, DecoderActive
<1>5. Stopped(dd) = e
  BY DEF Stopped
<1> HIDE DEF e
<1>6. Positioned(c, e)
  BY <1>1, <1>4 DEF Positioned
<1>7. Halt(c, e, kept)
  BY <1>2, <1>4 DEF Halt
<1>8. ~(0 > 0)
  OBVIOUS
<1> QED
  BY <1>2, <1>3, <1>4, <1>5, <1>6, <1>7, <1>8 DEF Sound, DecoderOK, kept

\* The audio thread asks for audio.
LEMMA CallbackOK ==
    ASSUME NEW c, NEW dd, NEW s, NEW z, NEW u, Sound(c, TRUE, dd, s, 0, z, u)
    PROVE  Sound(c, TRUE, dd, s, Want, 0, u)
<1>1. /\ DecoderOK(c, dd) /\ s \in Seq(Int) /\ Len(s) <= 2 * Block
      /\ c.length = 0 \/ c.codec = "timidity" => s = <<>>
      /\ Playing(c, dd, s, 0, z, u)
  BY DEF Sound, DecoderOK
<1>2. /\ Want \in 0 .. Want /\ 0 \in 0 .. MAX_ZERO_CYCLES + 1 /\ 0 <= MAX_ZERO_CYCLES /\ 0 <= 2
      /\ ~(0 > 0)
  BY BlockPositive DEF MAX_ZERO_CYCLES
<1>3. Playing(c, dd, s, Want, 0, u)
  BY <1>1, <1>2 DEF Playing
<1> QED
  BY <1>1, <1>2, <1>3 DEF Sound

\* A seek of a piece that plays.
LEMMA SeekOK ==
    ASSUME NEW c, Proper(c), NEW dd, NEW s, NEW z, NEW u, Sound(c, TRUE, dd, s, 0, z, u),
           NEW p \in c.seeks, "seek" \in c.calls
    PROVE  LET r == SeekTo(c, dd, p)
               kept == IF Clears(c.codec).seek THEN <<>> ELSE s
               counted == IF c.codec \in Synths THEN dd.library.passes ELSE dd.play_count
               v == IF counted = 0 THEN [u EXCEPT !.queue = kept, !.over = TRUE]
                    ELSE Settled(c, Place(kept, Destination(c, p), counted, dd.points))
           IN  Sound(c, TRUE, r.d, kept \o r.put, 0, z, v) /\ r.amount \in Nat
<1> DEFINE r == SeekTo(c, dd, p)
           kept == IF Clears(c.codec).seek THEN <<>> ELSE s
           counted == IF c.codec \in Synths THEN dd.library.passes ELSE dd.play_count
           dest == Destination(c, p)
           w == Settled(c, Place(<<>>, dest, counted, dd.points))
           v == IF counted = 0 THEN [u EXCEPT !.queue = kept, !.over = TRUE]
                ELSE Settled(c, Place(kept, dest, counted, dd.points))
<1>1. /\ DecoderOK(c, dd) /\ dd \in Decoders(c) /\ s \in Seq(Int) /\ Len(s) <= 2 * Block
      /\ c.length = 0 \/ c.codec = "timidity" => s = <<>>
      /\ Playing(c, dd, s, 0, z, u) /\ z \in 0 .. MAX_ZERO_CYCLES + 1
  BY DEF Sound, DecoderOK
<1>2. /\ c.length > 0 => /\ u \in Due(c) /\ Heard(c, u, s)
                         /\ Meets(c, dd, At(c, u, Len(s)))
      /\ dd.play_count = 0 => c.codec \notin Synths /\ c.codec = "wav"
      /\ c.codec \in {"timidity", "timidity_stream"} => dd.active \/ dd.play_count = 0
  <2>1. ~(0 > 0)
    OBVIOUS
  <2> QED
    BY <1>1, <2>1 DEF Playing
<1>3. /\ ~dd.flag /\ (dd.at_end => c.codec = "qoa")
      /\ c.codec \in Synths => dd.pos <= c.length /\ c.length > 0
  BY <1>1, NoFlag
<1>4. c.length > 0 /\ p \in Nat /\ dest \in Nat
  <2>1. c.length \in Nat /\ c.seeks \subseteq Nat /\ p < c.length
    BY CaseFields DEF Proper
  <2>2. p \in Nat
    BY <2>1
  <2>3. dest \in Nat
    BY <2>2, DestinationIs
  <2> QED
    BY <2>1, <2>2, <2>3
<1>5. /\ r.put \in Seq(Int) /\ Len(r.put) <= Block /\ r.amount \in Nat
      /\ c.codec # "flac" \/ c.length = 0 => r.put = <<>>
      /\ DecoderOK(c, r.d) /\ r.d.play_count = dd.play_count
      /\ r.d.active = dd.active /\ ~r.d.flag
      /\ counted # 0 => /\ w \in Due(c) /\ Heard(c, w, r.put)
                        /\ dd.play_count # 0 => Meets(c, r.d, At(c, w, Len(r.put)))
  BY <1>1, <1>3, SeekLeads
<1>6. /\ dd.play_count \in Passes \union {0} /\ dd.points \in Points(c)
      /\ dd.library.passes \in Passes /\ 0 \notin Passes
  BY <1>1, DecoderFields DEF Libraries, Passes
<1>7. /\ counted \in Passes \union {0} /\ (counted # 0 <=> dd.play_count # 0)
      /\ counted = 0 => c.codec = "wav"
  BY <1>2, <1>6
<1>8. /\ kept \in Seq(Int) /\ Len(kept) <= 2 * Block
      /\ c.length = 0 \/ c.codec = "timidity" => kept = <<>>
      /\ c.codec = "flac" => kept = <<>>
      /\ c.codec # "flac" => kept = s
  <2>1. Len(<<>>) = 0 /\ <<>> \in Seq(Int) /\ 0 <= 2 * Block
    BY BlockPositive
  <2>2. Clears(c.codec).seek <=> c.codec = "flac"
    BY DEF Clears
  <2> QED
    BY <1>1, <2>1, <2>2
<1> HIDE DEF r, kept, counted, dest
<1> DEFINE t == kept \o r.put
<1>9. /\ t \in Seq(Int) /\ Len(t) <= 2 * Block
      /\ c.length = 0 \/ c.codec = "timidity" => t = <<>>
  <2>1. t \in Seq(Int) /\ Len(t) = Len(kept) + Len(r.put)
    BY <1>5, <1>8, Joined
  <2>2. Len(kept) = 0 \/ Len(r.put) = 0
    BY <1>5, <1>8
  <2>3. Len(kept) \in Nat /\ Len(r.put) \in Nat /\ Block \in Nat
    BY <1>5, <1>8, BlockPositive, LenProperties
  <2>4. c.codec = "timidity" => t = <<>>
    BY <1>5, <1>8
  <2> QED
    BY <1>4, <1>5, <1>8, <2>1, <2>2, <2>3, <2>4
<1>10. v \in Due(c) /\ Heard(c, v, t) /\ Meets(c, r.d, At(c, v, Len(t)))
  <2>1. CASE counted # 0
    <3> HIDE DEF w
    <3>1. v = Settled(c, Place(kept, dest, counted, dd.points))
      BY <2>1
    <3> HIDE DEF v
    <3>2. counted \in Passes
      BY <1>7, <2>1
    <3>3. v \in Due(c) /\ Heard(c, v, kept) /\ At(c, v, Len(kept)) = w
      BY <1>4, <1>6, <1>8, <3>1, <3>2, QueueSettled DEF w
    <3>4. Heard(c, v, t) /\ At(c, v, Len(t)) = At(c, w, Len(r.put))
      BY <1>5, <1>8, <2>1, <3>3, HeardJoined
    <3> QED
      BY <1>5, <1>7, <2>1, <3>3, <3>4
  <2>2. CASE counted = 0
    <3> DEFINE o == [u EXCEPT !.over = TRUE]
    <3>1. c.codec = "wav" /\ dd.play_count = 0
      BY <1>7, <2>2
    <3>2. r.put = <<>> /\ kept = s
      BY <1>5, <1>8, <3>1
    <3>3. t = s
      BY <1>1, <3>2
    <3>4. u \in Due(c)
      BY <1>2, <1>4
    <3>5. o \in Due(c) /\ o.over
      BY <3>4 DEF Due
    <3>6. v = [o EXCEPT !.queue = s]
      <4>1. v = [u EXCEPT !.queue = s, !.over = TRUE]
        BY <2>2, <3>2
      <4> QED
        BY <3>4, <4>1 DEF Due
    <3> HIDE DEF v, o
    <3>7. Heard(c, v, s) /\ At(c, v, Len(s)) = [o EXCEPT !.queue = <<>>]
      BY <1>1, <3>5, <3>6, QueueRun
    <3>8. v \in Due(c)
      BY <1>1, <3>5, <3>6 DEF Due
    <3>9. [o EXCEPT !.queue = <<>>].over /\ [o EXCEPT !.queue = <<>>].queue = <<>>
      BY <3>5 DEF Due
    <3>10. c.codec \notin Synths
      BY <3>1 DEF Synths
    <3>11. Meets(c, r.d, At(c, v, Len(s)))
      BY <1>5, <3>1, <3>7, <3>9, <3>10 DEF Meets
    <3> QED
      BY <3>3, <3>7, <3>8, <3>11
  <2> QED
    BY <2>1, <2>2
<1> HIDE DEF v, t
<1>11. Playing(c, r.d, t, 0, z, v)
  <2>1. ~(0 > 0)
    OBVIOUS
  <2> QED
    BY <1>2, <1>5, <1>10, <2>1 DEF Playing
<1>12. 0 \in 0 .. Want /\ ~(0 > 0)
  BY BlockPositive
<1>13. Sound(c, TRUE, r.d, t, 0, z, v)
  BY <1>1, <1>5, <1>9, <1>11, <1>12 DEF Sound
<1> QED
  BY <1>5, <1>13 DEF r, kept, counted, dest, v, t

\* What Play does to a decoder.
LEMMA PlayLeads ==
    ASSUME NEW c, Proper(c), NEW dd \in Decoders(c), NEW count \in Passes,
           ~dd.flag, dd.at_end => c.codec = "qoa",
           c.codec \in Synths => dd.pos <= c.length /\ c.length > 0
    PROVE  LET r == PlayFrom0(c, dd, count)
           IN  /\ r.put \in Seq(Int) /\ r.amount \in Nat
               /\ c.codec # "flac" => r.put = <<>>
               /\ r.d \in Decoders(c) /\ ~r.d.flag /\ (r.d.at_end => c.codec = "qoa")
               /\ c.codec \in Synths => /\ r.d.pos <= c.length
                                        /\ r.d.library.passes = count
               /\ r.d.play_count = count /\ r.d.active /\ r.d.points = Fresh(c)
<1> DEFINE r == PlayFrom0(c, dd, count)
<1>0. Len(<<>>) = 0 /\ <<>> \in Seq(Int) /\ 0 \in Nat /\ c.length \in Nat
  BY CaseFields
<1>1. CASE c.codec \in Synths
  <2> DEFINE e == Begun(c, dd, count)
  <2>1. /\ e \in Decoders(c) /\ e.play_count = count /\ e.points = Fresh(c) /\ e.active
        /\ e.pos = dd.pos /\ e.flag = dd.flag /\ e.at_end = dd.at_end
        /\ e.library.passes = count
        /\ r = SeekTo(c, e, 0)
    BY BegunIs
  <2> HIDE DEF e, r
  <2>2. /\ r.put = <<>> /\ r.amount = 0 /\ r.d \in Decoders(c)
        /\ r.d.library = Settled(c, Place(<<>>, 0, e.library.passes, <<>>))
        /\ r.d.pos = e.pos /\ r.d.at_end = e.at_end /\ r.d.play_count = e.play_count
        /\ r.d.flag = e.flag /\ r.d.active = e.active /\ r.d.points = e.points
    <3> DEFINE q == SeekTo(c, e, 0)
    <3>1. /\ q.put = <<>> /\ q.amount = 0 /\ q.d \in Decoders(c)
          /\ q.d.library = Settled(c, Place(<<>>, 0, e.library.passes, <<>>))
          /\ q.d.pos = e.pos /\ q.d.at_end = e.at_end /\ q.d.play_count = e.play_count
          /\ q.d.flag = e.flag /\ q.d.active = e.active /\ q.d.points = e.points
      <4>1. e \in Decoders(c)
        BY <2>1
      <4> QED
        BY <1>0, <1>1, <4>1, SynthSeek
    <3>2. r = q
      BY <2>1
    <3> QED
      BY <3>1, <3>2
  <2>3. 0 < c.length /\ (Tagged(c) /\ count # 1 => 0 < c.end)
    BY <1>0, <1>1, CaseFields DEF Tagged
  <2>4. Settled(c, Place(<<>>, 0, count, <<>>)) = Place(<<>>, 0, count, <<>>)
    BY <1>0, <2>3, SettledOpen
  <2>5. r.d.library.passes = count
    BY <2>1, <2>2, <2>4, PlaceFields
  <2> QED
    BY <1>0, <1>1, <2>1, <2>2, <2>5 DEF r
<1>2. CASE c.codec = "flac"
  <2>1. ~dd.at_end /\ c.codec \notin Synths
    BY <1>2 DEF Synths
  <2>2. /\ r.put = Frames(0, r.d.pos) /\ r.amount = r.d.pos
        /\ r.d.pos \in Nat
        /\ r.d \in Decoders(c) /\ ~r.d.at_end /\ ~r.d.flag
        /\ r.d.play_count = count
        /\ r.d.active /\ r.d.points = Fresh(c)
    BY <1>2, <2>1, PlayFlac
  <2> HIDE DEF r
  <2>3. r.put \in Seq(Int)
    <3>1. 0 <= r.d.pos
      BY <2>2
    <3> QED
      BY <1>0, <2>2, <3>1, FramesSeq
  <2> QED
    BY <1>2, <2>1, <2>2, <2>3 DEF r
<1>3. CASE c.codec \notin Synths \union {"flac"}
  <2>1. /\ r.put = <<>> /\ r.amount = 0
        /\ r.d \in Decoders(c) /\ r.d.pos = 0 /\ ~r.d.at_end
        /\ r.d.play_count = count /\ r.d.flag = dd.flag
        /\ r.d.active /\ r.d.points = Fresh(c)
    BY <1>3, PlayPlain
  <2> HIDE DEF r
  <2> QED
    BY <1>0, <1>3, <2>1 DEF r
<1> QED
  BY <1>1, <1>2, <1>3

\* A start.
LEMMA StartOK ==
    ASSUME NEW c, Proper(c), NEW pl, NEW dd, NEW s, NEW z, NEW u, Sound(c, pl, dd, s, 0, z, u),
           pl => "stop" \in c.calls, NEW p, p = 0 \/ (p \in c.seeks /\ "seek" \in c.calls),
           NEW count \in Passes
    PROVE  LET halted == IF pl THEN IF Clears(c.codec).stop THEN <<>> ELSE s ELSE s
               cleared == IF Clears(c.codec).play THEN <<>> ELSE halted
               first == PlayFrom0(c, IF pl THEN Stopped(dd) ELSE dd, count)
               then == SeekTo(c, first.d, p)
               t == (IF Clears(c.codec).seek THEN <<>> ELSE cleared \o first.put) \o then.put
               v == Settled(c, Place(<<>>, Destination(c, p), count, Fresh(c)))
           IN  /\ Sound(c, TRUE, then.d, t, 0, z, v)
               /\ first.amount \in Nat /\ then.amount \in Nat
<1> DEFINE halted == IF pl THEN IF Clears(c.codec).stop THEN <<>> ELSE s ELSE s
           cleared == IF Clears(c.codec).play THEN <<>> ELSE halted
           d0 == IF pl THEN Stopped(dd) ELSE dd
           first == PlayFrom0(c, d0, count)
           then == SeekTo(c, first.d, p)
           t == (IF Clears(c.codec).seek THEN <<>> ELSE cleared \o first.put) \o then.put
           v == Settled(c, Place(<<>>, Destination(c, p), count, Fresh(c)))
           counted == IF c.codec \in Synths THEN first.d.library.passes ELSE first.d.play_count
           w == Settled(c, Place(<<>>, Destination(c, p), counted, first.d.points))
<1>1. /\ pl \in BOOLEAN /\ DecoderOK(c, dd) /\ dd \in Decoders(c) /\ s \in Seq(Int)
      /\ z \in 0 .. MAX_ZERO_CYCLES + 1
      /\ c.length = 0 \/ c.codec = "timidity" => s = <<>>
      /\ ~pl => Halt(c, dd, s)
  BY SoundFields
<1>2. /\ ~dd.flag /\ (dd.at_end => c.codec = "qoa")
      /\ c.codec \in Synths => dd.pos <= c.length /\ c.length > 0
  <2>1. ~pl => ~dd.flag
    BY <1>1 DEF Halt
  <2> QED
    BY <1>1, <2>1, NoFlag
<1>3. cleared = <<>>
  <2>1. CASE ~pl
    BY <1>1, <2>1 DEF Halt
  <2>2. CASE pl
    <3>1. c.codec \in {"timidity_stream", "adlmidi", "opnmidi", "edmidi"} => "stop" \notin c.calls
      BY DEF Proper, PlaysRight
    <3>2. ~Clears(c.codec).stop => c.codec \in {"ffmpeg", "timidity", "timidity_stream",
                                                "adlmidi", "opnmidi", "edmidi"}
      BY DEF Clears
    <3>3. c.codec = "ffmpeg" => Clears(c.codec).play
      BY DEF Clears
    <3> QED
      BY <1>1, <2>2, <3>1, <3>2, <3>3
  <2> QED
    BY <1>1, <2>1, <2>2
<1> HIDE DEF cleared
<1>4. /\ d0 \in Decoders(c) /\ ~d0.flag /\ (d0.at_end => c.codec = "qoa")
      /\ c.codec \in Synths => d0.pos <= c.length /\ c.length > 0
  <2> DEFINE e == [dd EXCEPT !.active = FALSE]
  <2>1. e \in Decoders(c) /\ e.pos = dd.pos /\ e.at_end = dd.at_end /\ e.flag = dd.flag
    BY <1>1, DecoderActive
  <2>2. d0 = e \/ d0 = dd
    BY DEF Stopped
  <2> HIDE DEF e, d0
  <2> QED
    BY <1>1, <1>2, <2>1, <2>2
<1> HIDE DEF d0
<1>5. /\ first.put \in Seq(Int) /\ first.amount \in Nat
      /\ c.codec # "flac" => first.put = <<>>
      /\ first.d \in Decoders(c) /\ ~first.d.flag /\ (first.d.at_end => c.codec = "qoa")
      /\ c.codec \in Synths => first.d.pos <= c.length /\ first.d.library.passes = count
      /\ first.d.play_count = count /\ first.d.active /\ first.d.points = Fresh(c)
  BY <1>4, PlayLeads
<1> HIDE DEF first
<1>6. counted = count /\ count # 0
  BY <1>5 DEF Passes
<1>7. w = v
  BY <1>5, <1>6
<1>8. /\ then.put \in Seq(Int) /\ Len(then.put) <= Block /\ then.amount \in Nat
      /\ c.codec # "flac" \/ c.length = 0 => then.put = <<>>
      /\ DecoderOK(c, then.d) /\ then.d.play_count = first.d.play_count
      /\ then.d.active = first.d.active /\ ~then.d.flag
      /\ counted # 0 => /\ w \in Due(c) /\ Heard(c, w, then.put)
                        /\ first.d.play_count # 0 => Meets(c, then.d, At(c, w, Len(then.put)))
  <2>1. c.codec \in Synths => first.d.pos <= c.length /\ c.length > 0
    BY <1>2, <1>5
  <2> QED
    BY <1>5, <2>1, SeekLeads
<1> HIDE DEF w, v, counted, then
<1>9. t = then.put
  <2>1. Clears(c.codec).seek <=> c.codec = "flac"
    BY DEF Clears
  <2>2. c.codec # "flac" => cleared \o first.put = <<>>
    BY <1>3, <1>5
  <2>3. t = <<>> \o then.put
    BY <2>1, <2>2
  <2>4. \A x \in Seq(Int) : <<>> \o x = x
    OBVIOUS
  <2> QED
    BY <1>8, <2>3, <2>4
<1> HIDE DEF t
<1>10. /\ v \in Due(c) /\ Heard(c, v, t) /\ Meets(c, then.d, At(c, v, Len(t)))
       /\ t \in Seq(Int) /\ Len(t) <= 2 * Block /\ then.d.play_count # 0 /\ then.d.active
       /\ c.length = 0 \/ c.codec = "timidity" => t = <<>>
  <2>1. Len(then.put) \in Nat /\ Block \in Nat
    BY <1>8, BlockPositive, LenProperties
  <2>2. Len(t) <= 2 * Block
    BY <1>8, <1>9, <2>1
  <2> QED
    BY <1>5, <1>6, <1>7, <1>8, <1>9, <2>2
<1>11. Playing(c, then.d, t, 0, z, v)
  <2>1. ~(0 > 0)
    OBVIOUS
  <2> QED
    BY <1>10, <2>1 DEF Playing
<1>12. 0 \in 0 .. Want /\ ~(0 > 0)
  BY BlockPositive
<1>13. Sound(c, TRUE, then.d, t, 0, z, v)
  BY <1>1, <1>8, <1>10, <1>11, <1>12 DEF Sound
<1> QED
  BY <1>5, <1>8, <1>13 DEF cleared, d0, first, then, v, t

-----------------------------------------------------------------------------
(* Audio.                                                                   *)

\* Frames are taken from the stream.
LEMMA TakeOK ==
    ASSUME NEW c, Proper(c), NEW dd, NEW s, NEW l, NEW z, NEW u, Sound(c, TRUE, dd, s, l, z, u),
           l > 0, s # <<>>
    PROVE  LET n == Least(l, Len(s))
               pl == l - n > 0 \/ c.codec \notin {"timidity", "timidity_stream"} \/ dd.active
           IN  /\ n \in 0 .. Len(s) /\ pl
               /\ Heard(c, u, SubSeq(s, 1, n))
               /\ Len(SubSeq(s, 1, n)) = n /\ SubSeq(s, 1, n) \in Seq(Int)
               /\ Sound(c, TRUE, dd, SubSeq(s, n + 1, Len(s)), l - n, 0, At(c, u, n))
<1> DEFINE n == Least(l, Len(s))
           pl == l - n > 0 \/ c.codec \notin {"timidity", "timidity_stream"} \/ dd.active
           head == SubSeq(s, 1, n)
           tail == SubSeq(s, n + 1, Len(s))
           v == At(c, u, n)
<1>1. /\ DecoderOK(c, dd) /\ s \in Seq(Int) /\ Len(s) <= 2 * Block
      /\ c.length = 0 \/ c.codec = "timidity" => s = <<>>
      /\ Playing(c, dd, s, l, z, u) /\ l \in 0 .. Want
  BY DEF Sound
<1>2. /\ c.length > 0 => /\ u \in Due(c) /\ Heard(c, u, s)
                         /\ Meets(c, dd, At(c, u, Len(s)))
      /\ dd.play_count = 0 => c.codec \notin Synths /\ c.codec = "wav"
      /\ c.codec \in {"timidity", "timidity_stream"} => dd.active \/ dd.play_count = 0
  BY <1>1 DEF Playing
<1>3. c.length > 0 /\ c.codec # "timidity"
  BY <1>1, CaseFields
<1>4. Len(s) \in Nat /\ l \in Nat /\ l <= Want /\ Want \in Nat /\ Block \in Nat
  BY <1>1, BlockPositive, LenProperties
<1>5. n \in 0 .. Len(s) /\ n <= l
  BY <1>4 DEF Least
<1>6. pl
  BY <1>2
<1> HIDE DEF n, pl
<1>7. /\ head \in Seq(Int) /\ Len(head) = n /\ Heard(c, u, head)
      /\ tail \in Seq(Int) /\ Len(tail) = Len(s) - n
      /\ Heard(c, v, tail)
      /\ At(c, v, Len(s) - n) = At(c, u, Len(s))
  BY <1>1, <1>2, <1>3, <1>5, HeardSplit
<1>8. v \in Due(c)
  <2>1. n \in Nat
    BY <1>4, <1>5
  <2> QED
    BY <1>2, <1>3, <2>1, AtDue
<1> HIDE DEF head, tail, v
<1>9. /\ l - n \in 0 .. Want /\ Len(tail) <= 2 * Block /\ 0 <= MAX_ZERO_CYCLES
      /\ 0 \in 0 .. MAX_ZERO_CYCLES + 1 /\ 0 <= 2 /\ ~(c.length = 0)
  BY <1>1, <1>3, <1>4, <1>5, <1>7 DEF MAX_ZERO_CYCLES
<1>10. Playing(c, dd, tail, l - n, 0, v)
  <2>1. Meets(c, dd, At(c, v, Len(tail)))
    BY <1>2, <1>3, <1>7
  <2> QED
    BY <1>2, <1>7, <1>8, <1>9, <2>1 DEF Playing
<1>11. Sound(c, TRUE, dd, tail, l - n, 0, v)
  BY <1>1, <1>3, <1>7, <1>9, <1>10 DEF Sound
<1> QED
  BY <1>5, <1>6, <1>7, <1>11 DEF n, pl, head, tail, v

\* Before a read.
LEMMA Asking ==
    ASSUME NEW c, Proper(c), NEW dd, NEW l, NEW z, NEW u, Sound(c, TRUE, dd, <<>>, l, z, u),
           l > 0, dd.play_count # 0, NEW r \in GetSome(c, dd, l)
    PROVE  /\ Reading(c, dd) /\ ReadOK(c, dd, l, r) /\ l \in Nat /\ l <= Want
           /\ c.length > 0 => u \in Due(c) /\ u = Stands(c, dd)
           /\ c.length > 0 => z = 0 \/ (z <= 1 /\ Yields(c, dd))
           /\ z \in Nat /\ z <= MAX_ZERO_CYCLES
<1>1. /\ DecoderOK(c, dd) /\ Playing(c, dd, <<>>, l, z, u) /\ l \in 0 .. Want
      /\ z \in 0 .. MAX_ZERO_CYCLES + 1 /\ z <= MAX_ZERO_CYCLES
  BY DEF Sound
<1>2. l \in Nat /\ l <= Want /\ z \in Nat
  BY <1>1, BlockPositive DEF MAX_ZERO_CYCLES
<1>3. /\ c.length > 0 => /\ u \in Due(c)
                         /\ Meets(c, dd, At(c, u, Len(<<>>)))
      /\ c.codec \in {"timidity", "timidity_stream"} => dd.active
      /\ c.length > 0 => z = 0 \/ (z <= 1 /\ Yields(c, dd))
  BY <1>1 DEF Playing
<1>4. Reading(c, dd)
  BY <1>1, <1>3 DEF Reading
<1>5. ReadOK(c, dd, l, r)
  BY <1>2, <1>4, GetSomeOK
<1>6. c.length > 0 => u = Stands(c, dd)
  <2>1. Len(<<>>) = 0
    OBVIOUS
  <2>2. At(c, u, Len(<<>>)) = u
    BY <2>1, AtSteps
  <2> QED
    BY <1>3, <2>2 DEF Meets
<1> QED
  BY <1>1, <1>2, <1>3, <1>4, <1>5, <1>6

\* A synthesizer that reports its end has played all.
LEMMA EndsOver ==
    ASSUME NEW c, Proper(c), NEW dd, NEW l, NEW z, NEW u, Sound(c, TRUE, dd, <<>>, l, z, u),
           l > 0, dd.play_count # 0, NEW r \in GetSome(c, dd, l), c.codec \in Synths, r.amount = 0
    PROVE  u.over
<1>1. c.length > 0
  BY DEF Proper, PlaysRight
<1>2. u = dd.library
  BY <1>1, Asking DEF Stands
<1>3. dd.library.over
  <2>1. ReadOK(c, dd, l, r)
    BY Asking
  <2> QED
    BY <2>1 DEF ReadOK
<1> QED
  BY <1>2, <1>3

\* Timidity gives what it reads to the mixer itself.
LEMMA GiveOK ==
    ASSUME NEW c, Proper(c), NEW dd, NEW l, NEW z, NEW u, Sound(c, TRUE, dd, <<>>, l, z, u),
           l > 0, dd.play_count # 0, NEW r \in GetSome(c, dd, l), c.codec = "timidity", r.put # <<>>
    PROVE  /\ r.put \in Seq(Int) /\ Heard(c, u, r.put)
           /\ l - Len(r.put) > 0 \/ r.d.active
           /\ Sound(c, TRUE, r.d, <<>>, l - Len(r.put), 0, At(c, u, Len(r.put)))
<1> DEFINE n == Len(r.put)
           v == At(c, u, n)
<1>1. /\ ReadOK(c, dd, l, r) /\ l \in Nat /\ l <= Want
      /\ c.length > 0 => u \in Due(c) /\ u = Stands(c, dd)
  BY Asking
<1>2. /\ r.put \in Seq(Int) /\ DecoderOK(c, r.d)
      /\ c.length = 0 => r.put = <<>>
      /\ c.length > 0 => Brings(c, dd, r)
      /\ n <= l /\ (n = l => r.d.active /\ r.d.play_count # 0)
      /\ r.d.active \/ r.d.play_count = 0
  <2>1. c.length > 0 => c.length # 0
    OBVIOUS
  <2>2. /\ r.put \in Seq(Int) /\ DecoderOK(c, r.d)
        /\ Len(r.put) <= l /\ (Len(r.put) = l => r.d.active /\ r.d.play_count # 0)
        /\ r.d.active \/ r.d.play_count = 0
    BY <1>1 DEF ReadOK
  <2>3. IF c.length = 0 THEN r.put = <<>> ELSE Brings(c, dd, r)
    BY <1>1 DEF ReadOK
  <2> QED
    BY <2>1, <2>2, <2>3
<1>3. c.length > 0
  BY <1>2, CaseFields
<1>4. Heard(c, u, r.put) /\ Meets(c, r.d, v) /\ u \in Due(c)
  BY <1>1, <1>2, <1>3 DEF Brings
<1>5. n \in Nat
  BY <1>2, LenProperties
<1>6. v \in Due(c)
  BY <1>4, <1>5, AtDue
<1> HIDE DEF v, n
<1>7. At(c, v, Len(<<>>)) = v
  <2>1. Len(<<>>) = 0
    OBVIOUS
  <2> QED
    BY <2>1, AtSteps
<1>8. /\ l - n \in 0 .. Want /\ 0 <= MAX_ZERO_CYCLES
      /\ 0 \in 0 .. MAX_ZERO_CYCLES + 1 /\ 0 <= 2
      /\ l - n > 0 \/ r.d.active
      /\ r.d.play_count = 0 => l - n > 0
  BY <1>1, <1>2, <1>5, BlockPositive DEF MAX_ZERO_CYCLES
<1>9. Len(<<>>) <= 2 * Block /\ <<>> \in Seq(Int)
  BY BlockPositive
<1>10. c.codec \notin Synths
  BY DEF Synths
<1>11. Heard(c, v, <<>>)
  BY HeardNothing
<1>12. Playing(c, r.d, <<>>, l - n, 0, v)
  BY <1>2, <1>4, <1>6, <1>7, <1>8, <1>10, <1>11 DEF Playing
<1>13. Sound(c, TRUE, r.d, <<>>, l - n, 0, v)
  BY <1>2, <1>8, <1>9, <1>12 DEF Sound
<1> QED
  BY <1>2, <1>4, <1>8, <1>13 DEF n, v

\* A read into the stream.
LEMMA FillOK ==
    ASSUME NEW c, Proper(c), NEW dd, NEW l, NEW z, NEW u, Sound(c, TRUE, dd, <<>>, l, z, u),
           l > 0, dd.play_count # 0, NEW r \in GetSome(c, dd, l),
           c.codec = "timidity" => r.put = <<>>, c.codec \in Synths => r.amount # 0
    PROVE  /\ r.amount \in Nat /\ <<>> \o r.put = r.put
           /\ z + 1 > MAX_ZERO_CYCLES => c.length = 0 /\ ~dd.flag /\ z + 1 \in 0 .. MAX_ZERO_CYCLES + 1
           /\ z + 1 <= MAX_ZERO_CYCLES => Sound(c, TRUE, r.d, r.put, l, z + 1, u)
<1>1. /\ ReadOK(c, dd, l, r) /\ l \in Nat /\ l <= Want /\ Reading(c, dd)
      /\ c.length > 0 => u \in Due(c) /\ u = Stands(c, dd)
      /\ c.length > 0 => z = 0 \/ (z <= 1 /\ Yields(c, dd))
      /\ z \in Nat /\ z <= MAX_ZERO_CYCLES
  BY Asking
<1>2. /\ r.put \in Seq(Int) /\ r.amount \in Nat /\ DecoderOK(c, r.d)
      /\ c.codec # "timidity" => Len(r.put) <= 2 * Block
      /\ r.d.play_count = 0 => r.put = <<>> \/ c.codec \in {"wav", "timidity"}
      /\ c.codec \in {"timidity", "timidity_stream"} => r.d.active \/ r.d.play_count = 0
  BY <1>1 DEF ReadOK
<1>3. c.codec \in Synths => /\ r.d.play_count = dd.play_count
                            /\ r.amount > 0 => r.put # <<>>
  BY <1>1 DEF ReadOK
<1>4. IF c.length = 0 THEN r.put = <<>> ELSE Brings(c, dd, r)
  BY <1>1 DEF ReadOK
<1>5. c.length \in Nat /\ (c.length > 0 <=> c.length # 0)
  BY CaseFields
<1>6. c.length > 0 => /\ u \in Due(c) /\ Heard(c, u, r.put)
                      /\ Meets(c, r.d, At(c, u, Len(r.put)))
                      /\ r.put = <<>> => r.d.play_count = 0 \/ Yields(c, r.d) \/ c.codec \in Synths
                      /\ Yields(c, dd) => r.put # <<>> \/ c.codec \in Synths
  BY <1>1, <1>4, <1>5 DEF Brings
<1>7. c.codec \in Synths => r.put # <<>>
  BY <1>2, <1>3
<1>8. c.length > 0 => z <= 1 /\ (r.put = <<>> /\ r.d.play_count # 0 => z = 0 /\ Yields(c, r.d))
  BY <1>1, <1>6, <1>7
<1>9. ASSUME z + 1 > MAX_ZERO_CYCLES
      PROVE  c.length = 0 /\ ~dd.flag /\ z + 1 \in 0 .. MAX_ZERO_CYCLES + 1
  <2>1. z + 1 \in 0 .. MAX_ZERO_CYCLES + 1 /\ (z <= 1 => ~(z + 1 > MAX_ZERO_CYCLES))
    BY <1>1 DEF MAX_ZERO_CYCLES
  <2>2. c.length = 0
    BY <1>5, <1>8, <1>9, <2>1
  <2>3. ~dd.flag
    BY <1>1, <2>2, NoFlag DEF Reading
  <2> QED
    BY <2>1, <2>2, <2>3
<1>10. ASSUME z + 1 <= MAX_ZERO_CYCLES
       PROVE  Sound(c, TRUE, r.d, r.put, l, z + 1, u)
  <2>1. /\ z + 1 \in 0 .. MAX_ZERO_CYCLES + 1 /\ l \in 0 .. Want
        /\ z <= 1 => z + 1 <= 2
        /\ z = 0 => z + 1 <= 1
    BY <1>1, <1>10 DEF MAX_ZERO_CYCLES
  <2>2. r.d.play_count = 0 => c.codec \notin Synths /\ (c.codec = "wav" \/ r.put = <<>>)
    BY <1>1, <1>2, <1>3 DEF Reading
  <2>3. c.length > 0 =>
           /\ z + 1 <= 2
           /\ r.put = <<>> /\ r.d.play_count # 0 => z + 1 <= 1 /\ Yields(c, r.d)
    BY <1>8, <2>1
  <2>4. Playing(c, r.d, r.put, l, z + 1, u)
    BY <1>2, <1>6, <2>2, <2>3 DEF Playing
  <2>5. Len(r.put) <= 2 * Block
    <3>1. Len(<<>>) <= 2 * Block
      BY BlockPositive
    <3> QED
      BY <1>2, <3>1
  <2> QED
    BY <1>2, <1>4, <1>10, <2>1, <2>4, <2>5 DEF Sound
<1>11. <<>> \o r.put = r.put
  <2>1. \A x \in Seq(Int) : <<>> \o x = x
    OBVIOUS
  <2> QED
    BY <1>2, <2>1
<1> QED
  BY <1>2, <1>9, <1>10, <1>11

-----------------------------------------------------------------------------
(* The steps.                                                               *)

AllPlayRight == \A c \in Cases : PlaysRight(c)

LEMMA ProperCase == ASSUME AllPlayRight, NEW c \in Cases PROVE Proper(c)
  BY CodecAssumption DEF AllPlayRight, Proper

LEMMA AlongInit == ASSUME AllPlayRight, Init PROVE Along
<1> DEFINE c == music
           lib(o) == [queue |-> <<>>, pos |-> 0, passes |-> 1, points |-> <<>>, over |-> o]
           dec(o, i) == [play_count |-> 0, pos |-> 0, flag |-> o, at_end |-> o, active |-> o,
                         points |-> Fresh(c), library |-> lib(i)]
<1>1. c \in Cases /\ Proper(c)
  BY ProperCase DEF Init
<1>2. c.length \in Nat /\ Fresh(c) \in Points(c) /\ 0 \in Nat /\ 1 \in Passes
  BY <1>1, CaseFields, FreshPoints DEF Passes
<1>3. \A i \in BOOLEAN : lib(i) \in Libraries
  BY <1>2 DEF Libraries
<1>4. \A o, i \in BOOLEAN : dec(o, i) \in Decoders(c)
  <2> SUFFICES ASSUME NEW o \in BOOLEAN, NEW i \in BOOLEAN PROVE dec(o, i) \in Decoders(c)
    OBVIOUS
  <2>1. lib(i) \in Libraries
    BY <1>3
  <2> HIDE DEF lib
  <2> QED
    BY <1>2, <2>1 DEF Decoders
<1>5. \A o, i : /\ dec(o, i).play_count = 0 /\ dec(o, i).pos = 0 /\ dec(o, i).flag = o
                /\ dec(o, i).at_end = o
  OBVIOUS
<1>6. d = dec(FALSE, TRUE) /\ stream = <<>> /\ playing = FALSE /\ left = 0 /\ zero_cycles = 0
      /\ right = TRUE /\ put_short = FALSE
  BY DEF Init
<1> HIDE DEF dec
<1>7. d \in Decoders(c) /\ d.play_count = 0 /\ d.pos = 0 /\ d.flag = FALSE /\ d.at_end = FALSE
  BY <1>4, <1>5, <1>6, Zenon
<1>8. Positioned(c, d)
  <2>1. 0 % Block = 0 /\ 0 <= c.length
    BY <1>2, BlockPositive
  <2> QED
    BY <1>7, <2>1 DEF Positioned
<1>9. /\ Len(<<>>) <= 2 * Block /\ <<>> \in Seq(Int) /\ 0 \in 0 .. Want
      /\ 0 \in 0 .. MAX_ZERO_CYCLES + 1 /\ ~(0 > 0)
  BY BlockPositive DEF MAX_ZERO_CYCLES
<1>10. Halt(c, d, <<>>)
  BY <1>7 DEF Halt
<1>11. Sound(c, FALSE, d, <<>>, 0, 0, due)
  BY <1>7, <1>8, <1>9, <1>10 DEF Sound, DecoderOK
<1> QED
  BY <1>1, <1>6, <1>11 DEF Along

LEMMA StartAlong ==
    ASSUME AllPlayRight, Along, NEW count \in Counts, NEW p \in music.seeks \union {0}, Start(count, p)
    PROVE  Along'
<1> DEFINE c == music
           halted == IF playing THEN IF Clears(c.codec).stop THEN <<>> ELSE stream ELSE stream
           cleared == IF Clears(c.codec).play THEN <<>> ELSE halted
           first == PlayFrom0(c, IF playing THEN Stopped(d) ELSE d, count)
           then == SeekTo(c, first.d, p)
           t == (IF Clears(c.codec).seek THEN <<>> ELSE cleared \o first.put) \o then.put
           v == Settled(c, Place(<<>>, Destination(c, p), count, Fresh(c)))
<1>1. /\ c \in Cases /\ Proper(c) /\ right = TRUE /\ put_short = FALSE
      /\ Sound(c, playing, d, stream, left, zero_cycles, due)
  BY ProperCase DEF Along
<1>2. /\ left = 0 /\ (playing => "stop" \in c.calls)
      /\ p = 0 \/ (p \in c.seeks /\ "seek" \in c.calls)
      /\ count \in Passes
  BY CodecAssumption DEF Start, Passes
<1>3. /\ d' = then.d /\ stream' = t /\ playing' = TRUE /\ due' = v
      /\ put_short' = (put_short \/ first.amount < 0 \/ then.amount < 0)
      /\ music' = c /\ left' = 0 /\ zero_cycles' = zero_cycles /\ right' = right
  BY <1>2 DEF Start, Kept, Place
<1>4. /\ Sound(c, TRUE, then.d, t, 0, zero_cycles, v)
      /\ first.amount \in Nat /\ then.amount \in Nat
  BY <1>1, <1>2, StartOK
<1> HIDE DEF first, then, t, v
<1>5. ~(first.amount < 0) /\ ~(then.amount < 0)
  BY <1>4
<1>6. put_short' = FALSE /\ right' = TRUE
  BY <1>1, <1>3, <1>5, Zenon
<1> QED
  BY <1>1, <1>3, <1>4, <1>6 DEF Along

\* The music is stopped: by a call, or by its end.
LEMMA HaltedAlong ==
    ASSUME AllPlayRight, Along, playing = TRUE, Halted, ~d.flag,
           stream = <<>> \/ (left = 0 /\ "stop" \in music.calls),
           left' = 0, music' = music, zero_cycles' \in 0 .. MAX_ZERO_CYCLES + 1,
           UNCHANGED <<due, right, put_short>>
    PROVE  Along'
<1> DEFINE c == music
           kept == IF Clears(c.codec).stop THEN <<>> ELSE stream
<1>1. /\ c \in Cases /\ Proper(c) /\ right = TRUE /\ put_short = FALSE
      /\ Sound(c, TRUE, d, stream, left, zero_cycles, due)
  BY ProperCase DEF Along
<1>2. d' = Stopped(d) /\ stream' = kept /\ playing' = FALSE
  BY DEF Halted, Kept
<1>3. Sound(c, FALSE, Stopped(d), kept, 0, zero_cycles', due)
  BY <1>1, StopOK
<1> QED
  BY <1>1, <1>2, <1>3 DEF Along

LEMMA StopAlong == ASSUME AllPlayRight, Along, Stop PROVE Along'
<1>1. /\ music \in Cases /\ Proper(music) /\ Sound(music, playing, d, stream, left, zero_cycles, due)
  BY ProperCase DEF Along
<1>2. /\ playing \in BOOLEAN /\ DecoderOK(music, d) /\ zero_cycles \in 0 .. MAX_ZERO_CYCLES + 1
  BY <1>1, SoundFields
<1>3. ~d.flag
  BY <1>1, <1>2, NoFlag DEF Stop
<1> QED
  BY <1>2, <1>3, HaltedAlong DEF Stop

LEMMA SeekAlong ==
    ASSUME AllPlayRight, Along, NEW p \in music.seeks, Seek(p)
    PROVE  Along'
<1> DEFINE c == music
           r == SeekTo(c, d, p)
           kept == IF Clears(c.codec).seek THEN <<>> ELSE stream
           counted == IF c.codec \in Synths THEN d.library.passes ELSE d.play_count
           v == IF counted = 0 THEN [due EXCEPT !.queue = kept, !.over = TRUE]
                ELSE Settled(c, Place(kept, Destination(c, p), counted, d.points))
<1>1. /\ c \in Cases /\ Proper(c) /\ right = TRUE /\ put_short = FALSE
      /\ Sound(c, playing, d, stream, left, zero_cycles, due)
  BY ProperCase DEF Along
<1>2. playing = TRUE /\ left = 0 /\ "seek" \in c.calls
  BY <1>1, SoundFields DEF Seek
<1>3. /\ d' = r.d /\ stream' = kept \o r.put /\ playing' = TRUE /\ due' = v
      /\ put_short' = (put_short \/ r.amount < 0)
      /\ music' = c /\ left' = 0 /\ zero_cycles' = zero_cycles /\ right' = right
  BY <1>2 DEF Seek, Put, Kept, Place
<1>4. Sound(c, TRUE, r.d, kept \o r.put, 0, zero_cycles, v) /\ r.amount \in Nat
  BY <1>1, <1>2, SeekOK
<1> HIDE DEF r, v, kept, counted
<1>5. ~(r.amount < 0)
  BY <1>4
<1>6. put_short' = FALSE /\ right' = TRUE
  BY <1>1, <1>3, <1>5, Zenon
<1> QED
  BY <1>1, <1>3, <1>4, <1>6 DEF Along

LEMMA CallbackAlong == ASSUME AllPlayRight, Along, Callback PROVE Along'
<1>1. /\ music \in Cases /\ right = TRUE /\ put_short = FALSE
      /\ Sound(music, playing, d, stream, left, zero_cycles, due)
  BY DEF Along
<1>2. playing = TRUE /\ left = 0
  BY <1>1, SoundFields DEF Callback
<1>3. Sound(music, TRUE, d, stream, Want, 0, due)
  BY <1>1, <1>2, CallbackOK
<1>4. /\ music' = music /\ playing' = TRUE /\ d' = d /\ stream' = stream /\ left' = Want
      /\ zero_cycles' = 0 /\ due' = due /\ right' = TRUE /\ put_short' = FALSE
  BY <1>1, <1>2 DEF Callback
<1> QED
  BY <1>1, <1>3, <1>4 DEF Along

\* What is given to the mixer is what is due.
LEMMA GivenRight ==
    ASSUME NEW s \in Seq(Int), Heard(music, due, s), right = TRUE, Given(s)
    PROVE  /\ due' = At(music, due, Len(s)) /\ right' = TRUE
           /\ left' = left - Len(s) /\ zero_cycles' = 0
<1> DEFINE n == Len(s)
           states == Ahead(music, due, n)
<1>1. DOMAIN s = 1 .. n
  OBVIOUS
<1>2. (\A k \in DOMAIN s : s[k] = Frame(states[k - 1])) /\ states[n] = At(music, due, n)
  BY HeardIsAhead
<1>3. \A k \in 1 .. n : s[k] = Frame(states[k - 1])
  BY <1>1, <1>2
<1>4. /\ due' = states[n] /\ left' = left - n /\ zero_cycles' = 0
      /\ right' = (right /\ \A k \in 1 .. n : s[k] = Frame(states[k - 1]))
  BY DEF Given
<1> HIDE DEF states
<1> QED
  BY <1>2, <1>3, <1>4

LEMMA TakeAlong == ASSUME AllPlayRight, Along, AudioStreamGet PROVE Along'
<1> DEFINE c == music
           n == Least(left, Len(stream))
           head == SubSeq(stream, 1, n)
           tail == SubSeq(stream, n + 1, Len(stream))
           pl == left - n > 0 \/ c.codec \notin {"timidity", "timidity_stream"} \/ d.active
<1>1. /\ c \in Cases /\ Proper(c) /\ right = TRUE /\ put_short = FALSE
      /\ Sound(c, playing, d, stream, left, zero_cycles, due)
  BY ProperCase DEF Along
<1>2. left > 0 /\ stream # <<>> /\ playing = TRUE
  BY <1>1, SoundFields DEF AudioStreamGet
<1>3. /\ n \in 0 .. Len(stream) /\ pl
      /\ Heard(c, due, head) /\ Len(head) = n /\ head \in Seq(Int)
      /\ Sound(c, TRUE, d, tail, left - n, 0, At(c, due, n))
  BY <1>1, <1>2, TakeOK
<1>4. /\ Given(head) /\ stream' = tail /\ playing' = Asked(d)
      /\ music' = c /\ d' = d /\ put_short' = put_short
  BY DEF AudioStreamGet
<1> HIDE DEF n, head, tail
<1>5. /\ due' = At(c, due, n) /\ right' = TRUE /\ left' = left - n /\ zero_cycles' = 0
  BY <1>1, <1>3, <1>4, GivenRight
<1>6. playing' = TRUE
  BY <1>3, <1>4, <1>5 DEF Asked
<1> QED
  BY <1>1, <1>3, <1>4, <1>5, <1>6 DEF Along

LEMMA DoneAlong == ASSUME AllPlayRight, Along, Done PROVE Along'
<1>1. /\ music \in Cases /\ Proper(music) /\ Sound(music, playing, d, stream, left, zero_cycles, due)
  BY ProperCase DEF Along
<1>2. /\ playing = TRUE /\ DecoderOK(music, d) /\ zero_cycles \in 0 .. MAX_ZERO_CYCLES + 1
  BY <1>1, SoundFields DEF Done
<1>3. ~d.flag
  BY <1>1, <1>2, NoFlag DEF Done
<1> QED
  BY <1>2, <1>3, HaltedAlong DEF Done

LEMMA MoreAlong == ASSUME AllPlayRight, Along, GetSomeMore PROVE Along'
<1> DEFINE c == music
<1>1. /\ c \in Cases /\ Proper(c) /\ right = TRUE /\ put_short = FALSE
      /\ Sound(c, playing, d, stream, left, zero_cycles, due)
  BY ProperCase DEF Along
<1>2. left > 0 /\ stream = <<>> /\ d.play_count # 0 /\ playing = TRUE /\ music' = c
  BY <1>1, SoundFields DEF GetSomeMore
<1>3. Sound(c, TRUE, d, <<>>, left, zero_cycles, due)
  BY <1>1, <1>2
<1>4. DecoderOK(c, d) /\ zero_cycles \in 0 .. MAX_ZERO_CYCLES + 1
  BY <1>1, SoundFields
<1>5. PICK r \in GetSome(c, d, left) :
          IF Ends(r)
          THEN Halted /\ left' = 0 /\ UNCHANGED <<zero_cycles, due, right, put_short>>
          ELSE IF c.codec = "timidity" /\ r.put # <<>>
          THEN /\ Given(r.put)
               /\ d' = r.d
               /\ playing' = Asked(r.d)
               /\ UNCHANGED <<stream, put_short>>
          ELSE Reads(r)
  BY DEF GetSomeMore
<1>6. CASE Ends(r)
  <2>1. ~d.flag
    BY <1>1, <1>4, <1>6, NoFlag DEF Ends
  <2> QED
    BY <1>2, <1>4, <1>5, <1>6, <2>1, HaltedAlong
<1>7. CASE ~Ends(r) /\ c.codec = "timidity" /\ r.put # <<>>
  <2>1. Given(r.put) /\ d' = r.d /\ playing' = Asked(r.d) /\ stream' = <<>> /\ put_short' = FALSE
    BY <1>1, <1>2, <1>5, <1>7
  <2>2. /\ r.put \in Seq(Int) /\ Heard(c, due, r.put)
        /\ left - Len(r.put) > 0 \/ r.d.active
        /\ Sound(c, TRUE, r.d, <<>>, left - Len(r.put), 0, At(c, due, Len(r.put)))
    BY <1>1, <1>2, <1>3, <1>7, GiveOK
  <2>3. /\ due' = At(c, due, Len(r.put)) /\ right' = TRUE
        /\ left' = left - Len(r.put) /\ zero_cycles' = 0
    BY <1>1, <2>1, <2>2, GivenRight
  <2>4. playing' = TRUE
    BY <2>1, <2>2, <2>3 DEF Asked
  <2> QED
    BY <1>1, <1>2, <2>1, <2>2, <2>3, <2>4 DEF Along
<1>8. CASE ~Ends(r) /\ (c.codec = "timidity" => r.put = <<>>)
  <2>1. Reads(r)
    BY <1>5, <1>8
  <2>2. c.codec \in Synths => r.amount # 0
    BY <1>8 DEF Ends
  <2>3. /\ r.amount \in Nat /\ <<>> \o r.put = r.put
        /\ zero_cycles + 1 > MAX_ZERO_CYCLES => /\ c.length = 0 /\ ~d.flag
                                                /\ zero_cycles + 1 \in 0 .. MAX_ZERO_CYCLES + 1
        /\ zero_cycles + 1 <= MAX_ZERO_CYCLES =>
             Sound(c, TRUE, r.d, r.put, left, zero_cycles + 1, due)
    BY <1>1, <1>2, <1>3, <1>8, <2>2, FillOK
  <2>4. zero_cycles' = zero_cycles + 1 /\ due' = due /\ right' = right
    BY <2>1 DEF Reads, Cycle
  <2>5. CASE zero_cycles + 1 > MAX_ZERO_CYCLES
    <3>1. Halted /\ left' = 0 /\ put_short' = put_short
      BY <2>1, <2>4, <2>5 DEF Reads
    <3> QED
      BY <1>2, <2>3, <2>4, <2>5, <3>1, HaltedAlong
  <2>6. CASE ~(zero_cycles + 1 > MAX_ZERO_CYCLES)
    <3>1. d' = r.d /\ Put(r, <<>>) /\ left' = left /\ playing' = playing
      BY <2>1, <2>4, <2>6 DEF Reads
    <3>2. stream' = r.put /\ put_short' = (put_short \/ r.amount < 0)
      BY <2>3, <3>1 DEF Put
    <3>3. ~(r.amount < 0) /\ zero_cycles + 1 <= MAX_ZERO_CYCLES
      BY <1>4, <2>3, <2>6 DEF MAX_ZERO_CYCLES
    <3>4. put_short' = FALSE
      BY <1>1, <3>2, <3>3, Zenon
    <3> QED
      BY <1>1, <1>2, <2>3, <2>4, <3>1, <3>2, <3>3, <3>4 DEF Along
  <2> QED
    BY <2>5, <2>6
<1> QED
  BY <1>6, <1>7, <1>8

LEMMA AlongStep == ASSUME AllPlayRight, Along, [Next]_vars PROVE Along'
<1>1. ASSUME NEW count \in Counts, NEW p \in music.seeks \union {0}, Start(count, p) PROVE Along'
  BY <1>1, StartAlong
<1>2. CASE Stop
  BY <1>2, StopAlong
<1>3. ASSUME NEW p \in music.seeks, Seek(p) PROVE Along'
  BY <1>3, SeekAlong
<1>4. CASE Callback
  BY <1>4, CallbackAlong
<1>5. CASE AudioStreamGet
  BY <1>5, TakeAlong
<1>6. CASE Done
  BY <1>6, DoneAlong
<1>7. CASE GetSomeMore
  BY <1>7, MoreAlong
<1>8. CASE UNCHANGED vars
  BY <1>8 DEF Along, vars
<1> QED
  BY <1>1, <1>2, <1>3, <1>4, <1>5, <1>6, <1>7, <1>8 DEF Next

-----------------------------------------------------------------------------
(* The theorems.                                                            *)

LEMMA AlongHeard ==
    ASSUME AllPlayRight, Along
    PROVE  HeardAsWritten
<1> DEFINE states == Ahead(music, due, Len(stream))
<1>1. /\ music \in Cases /\ Proper(music) /\ right = TRUE /\ put_short = FALSE
      /\ Sound(music, playing, d, stream, left, zero_cycles, due)
  BY ProperCase DEF Along
<1>2. /\ playing \in BOOLEAN /\ d \in Decoders(music) /\ Positioned(music, d)
      /\ stream \in Seq(Int) /\ Len(stream) <= 2 * Block
      /\ left \in 0 .. Want /\ zero_cycles \in 0 .. MAX_ZERO_CYCLES + 1
      /\ left > 0 => playing
      /\ music.length = 0 => stream = <<>>
      /\ playing => Playing(music, d, stream, left, zero_cycles, due)
  BY <1>1, SoundFields
<1>3. d.play_count \in Int /\ d.play_count >= -1
  BY <1>2, DecoderFields DEF Passes
<1>4. d.pos \in 0 .. music.length + 1
  <2>1. d.pos \in Nat /\ music.length \in Nat
    BY <1>1, <1>2, CaseFields, DecoderFields
  <2>2. d.pos <= music.length \/ d.pos = music.length + 1
    BY <1>2 DEF Positioned
  <2> QED
    BY <2>1, <2>2
<1>5. TypeOK
  BY <1>1, <1>2, <1>3, <1>4 DEF TypeOK
<1>6. ASSUME playing PROVE \A k \in DOMAIN stream : stream[k] = Frame(states[k - 1])
  <2>1. CASE music.length = 0
    <3>1. stream = <<>>
      BY <1>2, <2>1
    <3>2. DOMAIN stream = {}
      BY <3>1
    <3> QED
      BY <3>2
  <2>2. CASE music.length > 0
    <3>1. Heard(music, due, stream)
      BY <1>2, <1>6, <2>2 DEF Playing
    <3> QED
      BY <1>2, <3>1, HeardIsAhead
  <2> QED
    BY <1>1, <2>1, <2>2, CaseFields
<1> HIDE DEF states
<1>7. right /\ ~put_short
  BY <1>1
<1> QED
  BY <1>5, <1>6, <1>7, Zenon DEF HeardAsWritten, states

Over == playing /\ ~playing' /\ left > 0 => due'.over \/ music.length = 0

LEMMA OverStep == ASSUME AllPlayRight, Along, [Next]_vars PROVE Over
<1> SUFFICES ASSUME playing, ~playing', left > 0, music.length # 0 PROVE due'.over
  BY DEF Over
<1>1. /\ music \in Cases /\ Proper(music)
      /\ Sound(music, playing, d, stream, left, zero_cycles, due)
  BY ProperCase DEF Along
<1>2. playing = TRUE /\ music.length > 0
  BY <1>1, SoundFields, CaseFields
<1>3. Playing(music, d, stream, left, zero_cycles, due) /\ left # 0
  <2>1. playing => Playing(music, d, stream, left, zero_cycles, due)
    BY <1>1, SoundFields
  <2>2. left # 0
    OBVIOUS
  <2> QED
    BY <2>1, <2>2
<1>4. ASSUME NEW count \in Counts, NEW p \in music.seeks \union {0}, Start(count, p) PROVE FALSE
  BY <1>3, <1>4 DEF Start
<1>5. CASE Stop
  BY <1>3, <1>5 DEF Stop
<1>6. ASSUME NEW p \in music.seeks, Seek(p) PROVE FALSE
  BY <1>3, <1>6 DEF Seek
<1>7. CASE Callback
  BY <1>3, <1>7 DEF Callback
<1>8. CASE AudioStreamGet
  <2> DEFINE n == Least(left, Len(stream))
             head == SubSeq(stream, 1, n)
  <2>1. /\ left - n > 0 \/ music.codec \notin {"timidity", "timidity_stream"} \/ d.active
        /\ Len(head) = n
    BY <1>1, <1>2, <1>8, TakeOK DEF AudioStreamGet
  <2>2. left' = left - Len(head) /\ playing' = Asked(d) /\ music' = music
    BY <1>8 DEF AudioStreamGet, Given
  <2> HIDE DEF n, head
  <2>3. playing' = TRUE
    BY <2>1, <2>2 DEF Asked
  <2> QED
    BY <2>3
<1>9. CASE Done
  <2>1. d.play_count = 0 /\ stream = <<>> /\ due' = due
    BY <1>9 DEF Done
  <2>2. Meets(music, d, At(music, due, Len(stream))) /\ music.codec \notin Synths
    BY <1>2, <1>3, <2>1 DEF Playing
  <2>3. At(music, due, Len(stream)) = due
    <3>1. Len(<<>>) = 0
      OBVIOUS
    <3> QED
      BY <2>1, <3>1, AtSteps
  <2> QED
    BY <2>1, <2>2, <2>3 DEF Meets
<1>10. CASE GetSomeMore
  <2>1. stream = <<>> /\ d.play_count # 0 /\ music' = music
    BY <1>10 DEF GetSomeMore
  <2>2. Sound(music, TRUE, d, <<>>, left, zero_cycles, due)
    BY <1>1, <1>2, <2>1
  <2>3. PICK r \in GetSome(music, d, left) :
          IF Ends(r)
          THEN Halted /\ left' = 0 /\ UNCHANGED <<zero_cycles, due, right, put_short>>
          ELSE IF music.codec = "timidity" /\ r.put # <<>>
          THEN /\ Given(r.put)
               /\ d' = r.d
               /\ playing' = Asked(r.d)
               /\ UNCHANGED <<stream, put_short>>
          ELSE Reads(r)
    BY <1>10 DEF GetSomeMore
  <2>4. CASE Ends(r)
    <3>1. due.over
      BY <1>1, <2>1, <2>2, <2>4, EndsOver DEF Ends
    <3> QED
      BY <2>3, <2>4, <3>1
  <2>5. CASE ~Ends(r) /\ music.codec = "timidity" /\ r.put # <<>>
    <3>1. left - Len(r.put) > 0 \/ r.d.active
      BY <1>1, <2>1, <2>2, <2>5, GiveOK
    <3>2. left' = left - Len(r.put) /\ playing' = Asked(r.d)
      BY <2>3, <2>5 DEF Given
    <3>3. playing' = TRUE
      BY <3>1, <3>2 DEF Asked
    <3> QED
      BY <3>3
  <2>6. CASE ~Ends(r) /\ (music.codec = "timidity" => r.put = <<>>)
    <3>1. Reads(r) /\ (music.codec \in Synths => r.amount # 0)
      BY <2>3, <2>6 DEF Ends
    <3>2. zero_cycles + 1 > MAX_ZERO_CYCLES => music.length = 0
      BY <1>1, <2>1, <2>2, <2>6, <3>1, FillOK
    <3>3. zero_cycles' = zero_cycles + 1
      BY <3>1 DEF Reads, Cycle
    <3>4. playing' = playing
      BY <1>2, <3>1, <3>2, <3>3 DEF Reads
    <3> QED
      BY <1>2, <3>4
  <2> QED
    BY <2>4, <2>5, <2>6
<1>11. CASE UNCHANGED vars
  BY <1>2, <1>11 DEF vars
<1> QED
  BY <1>4, <1>5, <1>6, <1>7, <1>8, <1>9, <1>10, <1>11 DEF Next

\* Whatever the pieces, the decoder's block, the requests of the audio thread and
\* the calls: when every piece is one of PlaysRight, what is heard, and what waits
\* in the stream, is the piece as it is written (the GetSome functions,
\* music_internal_play, music_internal_position, music_internal_halt).
THEOREM HeardAsWrittenAlways ==
    ASSUME \A c \in Cases : PlaysRight(c)
    PROVE  Spec => []HeardAsWritten
<1>0. AllPlayRight
  BY DEF AllPlayRight
<1>1. Init => Along
  BY <1>0, AlongInit
<1>2. Along /\ [Next]_vars => Along'
  BY <1>0, AlongStep
<1>3. Along => HeardAsWritten
  BY <1>0, AlongHeard
<1> QED
  BY <1>1, <1>2, <1>3, PTL DEF Spec

\* Under the same condition, the audio thread halts music only when all of its
\* passes have been heard, or when it has no audio at all (music_pcm_getaudio).
THEOREM EndedWhenOverAlways ==
    ASSUME \A c \in Cases : PlaysRight(c)
    PROVE  Spec => EndedWhenOver
<1>0. AllPlayRight
  BY DEF AllPlayRight
<1>1. Init => Along
  BY <1>0, AlongInit
<1>2. Along /\ [Next]_vars => Along'
  BY <1>0, AlongStep
<1>3. Along /\ [Next]_vars => [Over]_vars
  BY <1>0, OverStep
<1>4. Spec => [][Over]_vars
  BY <1>1, <1>2, <1>3, PTL DEF Spec
<1> QED
  BY <1>4, PTL DEF EndedWhenOver, Over
=============================================================================
