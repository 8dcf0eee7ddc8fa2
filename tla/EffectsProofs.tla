---------------------------- MODULE EffectsProofs ----------------------------
(***************************************************************************)
(* Every effect is done once, and an argument block is in use exactly while *)
(* a position effect reads it, for every number of channels, music, effects *)
(* and formats.                                                            *)
(*                                                                         *)
(* The argument counts: the places of a list that hold a done callback of   *)
(* the application are as many as it is owed, and at most one place holds a *)
(* position effect.  It is made for one owner of a list at a time; all that *)
(* relates owners to each other is which of them may hold effects at all.   *)
(***************************************************************************)
EXTENDS Effects, FiniteSetTheorems, FunctionTheorems, SequenceTheorems,
        WellFoundedInduction, TLAPS

-----------------------------------------------------------------------------
(* The inductive invariant.                                                *)

\* The effects there can be, each with the done callback that goes with it.
Fitting ==
    {Effect(<<"app", f>>, "app") : f \in Funcs}
    \union {Effect(<<"reverse", f>>, "none") : f \in Formats}
    \union {Effect(<<"position", s.format, s.channels>>, "position") : s \in Specs}

\* The places in a list of the effects with a done callback.
Marks(list, done) == {i \in DOMAIN list : list[i].done = done}

\* A list, the done callbacks it owes the application and its argument block.
Good(list, owe, block) ==
    /\ list \in Seq(Fitting) /\ Len(list) <= MaxEffects
    /\ owe = Cardinality(Marks(list, "app"))
    /\ block \in Blocks \union {NoArgs}
    /\ IF Marks(list, "position") = {} THEN block # NoArgs => ~block.in_use
       ELSE /\ block # NoArgs /\ block.in_use
            /\ Cardinality(Marks(list, "position")) = 1

GoodAt(o) == Good(effects[o], owes[o], args[o])

\* Whose list may hold effects.
May(o) == IF o \in Musics THEN o \in loaded ELSE Opened /\ Exists(o)
EmptyAt(o) == May(o) \/ effects[o] = <<>>

\* A position effect is the one for the output, and the table reaches to it.
PlacedAt(o) ==
    Marks(effects[o], "position") # {} =>
        /\ Opened => \A i \in Marks(effects[o], "position") : effects[o][i].callback = PositionFunc
        /\ o \in Channels => o < position_channels

Shaped ==
    /\ effects = [o \in Owners |-> effects[o]]
    /\ owes = [o \in Owners |-> owes[o]]
    /\ args = [o \in Owners |-> args[o]]

Lists ==
    /\ Shaped
    /\ \A o \in Owners : GoodAt(o) /\ EmptyAt(o) /\ PlacedAt(o)

Numbers ==
    /\ spec \in Specs \union {Closed}
    /\ num_channels \in 0 .. MaxChannels
    /\ playing \subseteq 0 .. num_channels - 1
    /\ position_channels \in 0 .. MaxChannels
    /\ loaded \subseteq Musics
    /\ ~Opened => playing = {} /\ shrink = NoShrink

\* Channels that are about to go have no effects and no sound any more.
Shrinking ==
    shrink # NoShrink =>
        /\ shrink \in {"unregister", "halt", "resize"} \X (0 .. MaxChannels) \X (0 .. MaxChannels)
        /\ shrink[3] <= shrink[2] /\ shrink[2] <= num_channels
        /\ shrink[1] = "halt" => shrink[2] < num_channels /\ effects[shrink[2]] = <<>>
        /\ shrink[1] = "resize" => shrink[2] = num_channels
        /\ \A c \in shrink[3] .. shrink[2] - 1 : effects[c] = <<>> /\ c \notin playing

IInv == Lists /\ Numbers /\ Shrinking

-----------------------------------------------------------------------------
(* Lists.                                                                  *)

LEMMA MarksFinite ==
    ASSUME NEW S, NEW list \in Seq(S), NEW done
    PROVE  /\ Marks(list, done) \subseteq 1 .. Len(list)
           /\ IsFiniteSet(Marks(list, done)) /\ Cardinality(Marks(list, done)) \in Nat
<1>1. Len(list) \in Nat /\ DOMAIN list = 1 .. Len(list)
  OBVIOUS
<1>2. Marks(list, done) \subseteq 1 .. Len(list)
  BY <1>1 DEF Marks
<1>3. IsFiniteSet(1 .. Len(list))
  BY <1>1, FS_Interval
<1> QED
  BY <1>2, <1>3, FS_Subset, FS_CardinalityType

LEMMA MarksOfNothing ==
    ASSUME NEW done
    PROVE  Marks(<<>>, done) = {} /\ Cardinality(Marks(<<>>, done)) = 0
<1>1. Marks(<<>>, done) = {}
  BY DEF Marks
<1> QED
  BY <1>1, FS_EmptySet

LEMMA MarksOfOne ==
    ASSUME NEW e, NEW done
    PROVE  /\ Marks(<<e>>, done) = IF e.done = done THEN {1} ELSE {}
           /\ Cardinality(Marks(<<e>>, done)) = IF e.done = done THEN 1 ELSE 0
<1>1. Marks(<<e>>, done) = IF e.done = done THEN {1} ELSE {}
  BY DEF Marks
<1> QED
  BY <1>1, FS_EmptySet, FS_Singleton

\* An effect registered at the end of a list.
LEMMA MarksAppended ==
    ASSUME NEW S, NEW list \in Seq(S), NEW e \in S, NEW done
    PROVE  LET marks == Marks(list, done)
               n == Len(list) + 1
           IN  /\ Append(list, e) \in Seq(S) /\ Len(Append(list, e)) = n
               /\ Append(list, e)[n] = e
               /\ \A i \in 1 .. Len(list) : Append(list, e)[i] = list[i]
               /\ Marks(Append(list, e), done) =
                     IF e.done = done THEN marks \union {n} ELSE marks
               /\ Cardinality(Marks(Append(list, e), done)) =
                     IF e.done = done THEN Cardinality(marks) + 1 ELSE Cardinality(marks)
<1> DEFINE q == Append(list, e)
           n == Len(list) + 1
<1>1. Len(list) \in Nat /\ DOMAIN list = 1 .. Len(list)
  OBVIOUS
<1>2. /\ q \in Seq(S) /\ Len(q) = n /\ DOMAIN q = 1 .. n /\ q[n] = e
      /\ \A i \in 1 .. Len(list) : q[i] = list[i]
  BY <1>1
<1> HIDE DEF q
<1>3. Marks(q, done) = IF e.done = done THEN Marks(list, done) \union {n} ELSE Marks(list, done)
  BY <1>1, <1>2 DEF Marks
<1>4. n \notin Marks(list, done) /\ IsFiniteSet(Marks(list, done))
  BY <1>1, MarksFinite
<1>5. Cardinality(Marks(q, done)) =
        IF e.done = done THEN Cardinality(Marks(list, done)) + 1 ELSE Cardinality(Marks(list, done))
  BY <1>3, <1>4, FS_AddElement
<1> QED
  BY <1>2, <1>3, <1>5 DEF q

\* The place an entry of the longer list has in the shorter one, and back.
LEMMA Shortened ==
    ASSUME NEW S, NEW list \in Seq(S), NEW i \in 1 .. Len(list)
    PROVE  /\ Without(list, i) \in Seq(S) /\ Len(Without(list, i)) = Len(list) - 1
           /\ \A j \in 1 .. Len(list) - 1 :
                 Without(list, i)[j] = list[IF j < i THEN j ELSE j + 1]
<1> DEFINE q == Without(list, i)
           a == SubSeq(list, 1, i - 1)
           b == SubSeq(list, i + 1, Len(list))
           At(j) == IF j < i THEN j ELSE j + 1
<1>1. Len(list) \in Nat /\ DOMAIN list = 1 .. Len(list) /\ \A j \in 1 .. Len(list) : list[j] \in S
  OBVIOUS
<1>2. a \in Seq(S) /\ Len(a) = i - 1 /\ \A j \in 1 .. i - 1 : a[j] = list[j]
  BY <1>1
<1>3. b \in Seq(S) /\ Len(b) = Len(list) - i /\ \A j \in 1 .. Len(list) - i : b[j] = list[i + j]
  <2>1. \A j \in i + 1 .. Len(list) : list[j] \in S
    BY <1>1
  <2>2. i + 1 \in Int /\ Len(list) \in Int /\ i \in Int /\ i <= Len(list)
    BY <1>1
  <2>3. /\ b \in Seq(S)
        /\ Len(b) = IF i + 1 <= Len(list) THEN Len(list) - (i + 1) + 1 ELSE 0
        /\ \A j \in 1 .. Len(list) - (i + 1) + 1 : b[j] = list[(i + 1) + j - 1]
    BY <2>1, <2>2, SubSeqProperties
  <2> HIDE DEF b
  <2>4. Len(list) - (i + 1) + 1 = Len(list) - i /\ \A j \in Int : (i + 1) + j - 1 = i + j
    BY <2>2
  <2>5. ~(i + 1 <= Len(list)) => Len(list) - i = 0
    BY <2>2
  <2>6. Len(b) = Len(list) - i
    BY <2>3, <2>4, <2>5
  <2>7. \A j \in 1 .. Len(list) - i : b[j] = list[i + j]
    <3> SUFFICES ASSUME NEW j \in 1 .. Len(list) - i PROVE b[j] = list[i + j]
      OBVIOUS
    <3>1. j \in 1 .. Len(list) - (i + 1) + 1 /\ (i + 1) + j - 1 = i + j
      BY <2>2, <2>4
    <3> QED
      BY <2>3, <3>1
  <2> QED
    BY <2>3, <2>6, <2>7
<1>4. q = a \o b
  BY DEF Without
<1> HIDE DEF a, b, q
<1>5. q \in Seq(S) /\ Len(q) = Len(list) - 1
  <2>1. q \in Seq(S) /\ Len(q) = Len(a) + Len(b)
    BY <1>2, <1>3, <1>4, ConcatProperties
  <2> QED
    BY <1>1, <1>2, <1>3, <2>1
<1>6. ASSUME NEW j \in 1 .. Len(list) - 1 PROVE q[j] = list[At(j)]
  <2>1. q[j] = IF j <= Len(a) THEN a[j] ELSE b[j - Len(a)]
    BY <1>1, <1>2, <1>3, <1>4
  <2>2. CASE j < i
    BY <1>1, <1>2, <2>1, <2>2
  <2>3. CASE ~(j < i)
    <3>1. j - (i - 1) \in 1 .. Len(list) - i /\ i + (j - (i - 1)) = j + 1
      BY <1>1, <2>3
    <3> QED
      BY <1>1, <1>2, <1>3, <2>1, <2>3, <3>1
  <2> QED
    BY <2>2, <2>3
<1> QED
  BY <1>5, <1>6 DEF q

\* An effect that goes takes its own mark with it and moves the later ones.
LEMMA MarksWithout ==
    ASSUME NEW S, NEW list \in Seq(S), NEW i \in 1 .. Len(list), NEW done
    PROVE  /\ Cardinality(Marks(Without(list, i), done)) =
                 IF list[i].done = done THEN Cardinality(Marks(list, done)) - 1
                 ELSE Cardinality(Marks(list, done))
           /\ Marks(Without(list, i), done) = {} <=> Marks(list, done) \ {i} = {}
<1> DEFINE q == Without(list, i)
           old == Marks(list, done) \ {i}
           new == Marks(q, done)
           f == [j \in new |-> IF j < i THEN j ELSE j + 1]
           g == [j \in old |-> IF j < i THEN j ELSE j - 1]
<1>1. Len(list) \in Nat /\ DOMAIN list = 1 .. Len(list)
  OBVIOUS
<1>2. /\ q \in Seq(S) /\ DOMAIN q = 1 .. Len(list) - 1
      /\ \A j \in 1 .. Len(list) - 1 : q[j] = list[IF j < i THEN j ELSE j + 1]
  <2>1. /\ q \in Seq(S) /\ Len(q) = Len(list) - 1
        /\ \A j \in 1 .. Len(list) - 1 : q[j] = list[IF j < i THEN j ELSE j + 1]
    BY Shortened
  <2> HIDE DEF q
  <2> QED
    BY <2>1
<1> HIDE DEF q
<1>3. \A j \in new : f[j] \in old
  BY <1>1, <1>2, SMTT(40) DEF Marks
<1>4. \A j, k \in new : f[j] = f[k] => j = k
  <2>1. new \subseteq Int /\ i \in Int
    BY <1>1, <1>2 DEF Marks
  <2> HIDE DEF new
  <2>2. SUFFICES ASSUME NEW j \in new, NEW k \in new, f[j] = f[k] PROVE j = k
    OBVIOUS
  <2>3. j \in Int /\ k \in Int
    BY <2>1
  <2>4. (IF j < i THEN j ELSE j + 1) = (IF k < i THEN k ELSE k + 1)
    BY <2>2
  <2> QED
    BY <2>1, <2>3, <2>4
<1>5. \A j \in old : g[j] \in new /\ f[g[j]] = j
  <2> SUFFICES ASSUME NEW j \in old PROVE g[j] \in new /\ f[g[j]] = j
    OBVIOUS
  <2>1. j \in 1 .. Len(list) /\ j # i /\ list[j].done = done
    BY <1>1 DEF Marks
  <2>2. g[j] \in 1 .. Len(list) - 1 /\ (IF g[j] < i THEN g[j] ELSE g[j] + 1) = j
    BY <1>1, <2>1
  <2>3. q[g[j]] = list[j]
    BY <1>2, <2>2
  <2>4. g[j] \in new
    BY <1>2, <2>1, <2>2, <2>3 DEF Marks
  <2> QED
    BY <2>2, <2>4
<1>6. f \in Bijection(new, old)
  <2>1. f \in [new -> old]
    BY <1>3
  <2>2. \A t \in old : \E s \in new : f[s] = t
    BY <1>5
  <2> HIDE DEF f, new, old
  <2> QED
    BY <1>4, <2>1, <2>2, Fun_IsBij
<1>7. IsFiniteSet(Marks(list, done)) /\ IsFiniteSet(new)
  BY <1>2, MarksFinite
<1>8. Cardinality(old) = Cardinality(new)
  BY <1>6, <1>7, FS_Bijection DEF ExistsBijection
<1>9. Cardinality(old) = IF i \in Marks(list, done) THEN Cardinality(Marks(list, done)) - 1
                         ELSE Cardinality(Marks(list, done))
  BY <1>7, FS_RemoveElement
<1>10. i \in Marks(list, done) <=> list[i].done = done
  BY <1>1 DEF Marks
<1>11. new = {} <=> old = {}
  BY <1>3, <1>5
<1> QED
  BY <1>8, <1>9, <1>10, <1>11 DEF q

-----------------------------------------------------------------------------
(* Lists that stay good.                                                   *)

LEMMA EmptyGood ==
    ASSUME NEW block \in Blocks \union {NoArgs}, block # NoArgs => ~block.in_use
    PROVE  Good(<<>>, 0, block)
<1>1. <<>> \in Seq(Fitting) /\ Len(<<>>) = 0
  BY EmptySeq
<1>2. Len(<<>>) <= MaxEffects
  BY <1>1, EffectsAssumption
<1> QED
  BY <1>1, <1>2, MarksOfNothing DEF Good

LEMMA AppendGood ==
    ASSUME NEW list, NEW owe, NEW block, Good(list, owe, block),
           Len(list) < MaxEffects, NEW e \in Fitting
    PROVE  LET longer == Append(list, e)
           IN  /\ e.done = "app" => Good(longer, owe + 1, block)
               /\ e.done = "none" => Good(longer, owe, block)
               /\ e.done = "position" /\ Marks(list, "position") = {} =>
                     \A b \in Blocks : b.in_use => Good(longer, owe, b)
               /\ \A i \in Marks(longer, "position") :
                     longer[i] = e \/ (i \in Marks(list, "position") /\ longer[i] = list[i])
               /\ e.done # "position" => Marks(longer, "position") = Marks(list, "position")
<1> DEFINE longer == Append(list, e)
           n == Len(list) + 1
<1>1. list \in Seq(Fitting) /\ Len(list) \in Nat
  BY DEF Good
<1>2. \A done : /\ Marks(longer, done) = IF e.done = done THEN Marks(list, done) \union {n}
                                         ELSE Marks(list, done)
                /\ Cardinality(Marks(longer, done)) =
                      IF e.done = done THEN Cardinality(Marks(list, done)) + 1
                      ELSE Cardinality(Marks(list, done))
  BY <1>1, MarksAppended
<1>3. /\ longer \in Seq(Fitting) /\ Len(longer) = n /\ longer[n] = e
      /\ \A i \in 1 .. Len(list) : longer[i] = list[i]
  BY <1>1
<1>4. Len(longer) <= MaxEffects
  <2>1. MaxEffects \in Nat
    BY EffectsAssumption
  <2> QED
    BY <1>1, <1>3, <2>1
<1>5. Cardinality(Marks(list, "app")) \in Nat /\ Cardinality(Marks(list, "position")) \in Nat
  BY <1>1, MarksFinite
<1> HIDE DEF longer, n
<1>6. e.done = "app" => Good(longer, owe + 1, block)
  BY <1>2, <1>3, <1>4 DEF Good
<1>7. e.done = "none" => Good(longer, owe, block)
  BY <1>2, <1>3, <1>4 DEF Good
<1>8. ASSUME e.done = "position", Marks(list, "position") = {}, NEW b \in Blocks, b.in_use
      PROVE  Good(longer, owe, b)
  <2>1. b # NoArgs
    BY NoArgsAssumption
  <2>2. Marks(longer, "position") = {n} /\ Cardinality(Marks(longer, "position")) = 1
    BY <1>2, <1>8, FS_EmptySet
  <2>3. Cardinality(Marks(longer, "app")) = Cardinality(Marks(list, "app"))
    BY <1>2, <1>8
  <2> QED
    BY <1>3, <1>4, <1>8, <2>1, <2>2, <2>3 DEF Good
<1>9. Marks(list, "position") \subseteq 1 .. Len(list)
  BY <1>1, MarksFinite
<1>10. \A i \in Marks(longer, "position") :
          longer[i] = e \/ (i \in Marks(list, "position") /\ longer[i] = list[i])
  <2>1. Marks(longer, "position") \subseteq Marks(list, "position") \union {n}
    BY <1>2
  <2>2. \A i \in Marks(list, "position") : longer[i] = list[i]
    BY <1>3, <1>9
  <2>3. longer[n] = e
    BY <1>3
  <2> QED
    BY <2>1, <2>2, <2>3
<1> QED
  BY <1>2, <1>6, <1>7, <1>8, <1>10 DEF longer

LEMMA WithoutGood ==
    ASSUME NEW list, NEW owe, NEW block, Good(list, owe, block), NEW i \in 1 .. Len(list)
    PROVE  LET shorter == Without(list, i)
           IN  /\ list[i].done = "app" => Good(shorter, owe - 1, block)
               /\ list[i].done = "none" => Good(shorter, owe, block)
               /\ list[i].done = "position" =>
                     Good(shorter, owe, NoArgs) /\ Marks(shorter, "position") = {}
               /\ \A j \in Marks(shorter, "position") :
                     \E k \in Marks(list, "position") : shorter[j] = list[k]
<1> DEFINE shorter == Without(list, i)
<1>1. list \in Seq(Fitting) /\ Len(list) \in Nat /\ DOMAIN list = 1 .. Len(list)
  BY DEF Good
<1>2. \A done :
        /\ Cardinality(Marks(shorter, done)) =
              IF list[i].done = done THEN Cardinality(Marks(list, done)) - 1
              ELSE Cardinality(Marks(list, done))
        /\ Marks(shorter, done) = {} <=> Marks(list, done) \ {i} = {}
  BY <1>1, MarksWithout
<1>3. /\ shorter \in Seq(Fitting) /\ Len(shorter) = Len(list) - 1
      /\ \A j \in 1 .. Len(list) - 1 : shorter[j] = list[IF j < i THEN j ELSE j + 1]
  BY <1>1, Shortened
<1> HIDE DEF shorter
<1>4. Len(shorter) <= MaxEffects
  <2>1. MaxEffects \in Nat /\ Len(list) <= MaxEffects
    BY EffectsAssumption DEF Good
  <2> QED
    BY <1>1, <1>3, <2>1
<1>5. list[i].done # "position" => i \notin Marks(list, "position")
  BY DEF Marks
<1>6. list[i].done = "app" => Good(shorter, owe - 1, block)
  BY <1>2, <1>3, <1>4, <1>5 DEF Good
<1>7. list[i].done = "none" => Good(shorter, owe, block)
  BY <1>2, <1>3, <1>4, <1>5 DEF Good
<1>8. ASSUME list[i].done = "position"
      PROVE  Good(shorter, owe, NoArgs) /\ Marks(shorter, "position") = {}
  <2>1. i \in Marks(list, "position")
    BY <1>1, <1>8 DEF Marks
  <2>2. Cardinality(Marks(list, "position")) = 1 /\ IsFiniteSet(Marks(list, "position"))
    BY <1>1, <2>1, MarksFinite DEF Good
  <2>3. Marks(list, "position") \ {i} = {}
    BY <2>1, <2>2, FS_Singleton
  <2>4. Marks(shorter, "position") = {}
    BY <1>2, <2>3
  <2>5. Cardinality(Marks(shorter, "app")) = Cardinality(Marks(list, "app"))
    BY <1>2, <1>8
  <2> QED
    BY <1>3, <1>4, <2>4, <2>5 DEF Good
<1>9. ASSUME NEW j \in Marks(shorter, "position")
      PROVE  \E k \in Marks(list, "position") : shorter[j] = list[k]
  <2>1. j \in 1 .. Len(list) - 1 /\ shorter[j].done = "position"
    BY <1>1, <1>3 DEF Marks
  <2>2. PICK k \in 1 .. Len(list) : shorter[j] = list[k]
    <3>1. (IF j < i THEN j ELSE j + 1) \in 1 .. Len(list)
      BY <1>1, <2>1
    <3> QED
      BY <1>3, <2>1, <3>1
  <2>3. k \in Marks(list, "position")
    BY <1>1, <2>1, <2>2 DEF Marks
  <2> QED
    BY <2>2, <2>3
<1> QED
  BY <1>6, <1>7, <1>8, <1>9 DEF shorter

LEMMA Least ==
    ASSUME NEW T, T \subseteq Nat, T # {}
    PROVE  \E i \in T : \A j \in T : i <= j
<1>1. IsWellFoundedOn(OpToRel(<, Nat), Nat)
  BY NatLessThanWellFounded
<1>2. PICK i \in T : \A j \in T : ~ (<<j, i>> \in OpToRel(<, Nat))
  BY <1>1, WFMin
<1>3. ASSUME NEW j \in T PROVE i <= j
  <2>1. i \in Nat /\ j \in Nat /\ <<j, i>> \in Nat \X Nat
    OBVIOUS
  <2>2. ~ (j < i)
    BY <1>2, <2>1 DEF OpToRel
  <2> QED
    BY <2>1, <2>2
<1> QED
  BY <1>3

LEMMA FirstFound ==
    ASSUME NEW S, NEW list \in Seq(S), NEW callback,
           \E i \in DOMAIN list : list[i].callback = callback
    PROVE  /\ First(list, callback) \in 1 .. Len(list)
           /\ list[First(list, callback)].callback = callback
<1> DEFINE T == {i \in DOMAIN list : list[i].callback = callback}
<1>1. Len(list) \in Nat /\ DOMAIN list = 1 .. Len(list)
  OBVIOUS
<1>2. PICK i \in T : \A j \in T : i <= j
  <2>1. T \subseteq Nat /\ T # {}
    BY <1>1
  <2> HIDE DEF T
  <2> QED
    BY <2>1, Least
<1>3. \A j \in 1 .. i - 1 : list[j].callback # callback
  BY <1>1, <1>2
<1>4. \E k \in DOMAIN list : list[k].callback = callback /\
         \A j \in 1 .. k - 1 : list[j].callback # callback
  BY <1>2, <1>3
<1> QED
  BY <1>1, <1>4 DEF First

-----------------------------------------------------------------------------
(* One owner at a time.                                                    *)

\* The others keep what they have.
Sparing(o) ==
    \A p \in Owners \ {o} :
        effects'[p] = effects[p] /\ owes'[p] = owes[p] /\ args'[p] = args[p]

\* No position effect is there that was not there before.
NoneNew(o) ==
    \A j \in Marks(effects'[o], "position") :
        \E k \in Marks(effects[o], "position") : effects'[o][j] = effects[o][k]

LEMMA AtOwner ==
    ASSUME Lists, NEW o \in Owners, Shaped', Sparing(o),
           GoodAt(o)', EmptyAt(o)', PlacedAt(o)',
           \A p \in Owners \ {o} : May(p) => May(p)',
           spec' = spec, position_channels <= position_channels',
           position_channels \in Nat, position_channels' \in Nat
    PROVE  Lists'
<1> SUFFICES ASSUME NEW p \in Owners, p # o PROVE (GoodAt(p) /\ EmptyAt(p) /\ PlacedAt(p))'
  BY DEF Lists
<1>1. effects'[p] = effects[p] /\ owes'[p] = owes[p] /\ args'[p] = args[p]
  BY DEF Sparing
<1>2. GoodAt(p) /\ EmptyAt(p) /\ PlacedAt(p)
  BY DEF Lists
<1>3. GoodAt(p)'
  BY <1>1, <1>2 DEF GoodAt
<1>4. EmptyAt(p)'
  BY <1>1, <1>2 DEF EmptyAt
<1>5. PlacedAt(p)'
  <2>1. p \in Channels => p \in Int
    BY DEF Channels
  <2> QED
    BY <1>1, <1>2, <2>1 DEF PlacedAt, Opened, PositionFunc
<1> QED
  BY <1>3, <1>4, <1>5

LEMMA RunsAll ==
    ASSUME Lists, NEW o \in Owners, _Mix_remove_all_effects(o)
    PROVE  Shaped' /\ Sparing(o) /\ GoodAt(o)' /\ effects'[o] = <<>>
<1> DEFINE marked == Marks(effects[o], "position")
<1>1. /\ args' = [args EXCEPT ![o] = IF marked # {} THEN NoArgs ELSE @]
      /\ owes' = [owes EXCEPT ![o] = @ - Cardinality(Marks(effects[o], "app"))]
      /\ effects' = [effects EXCEPT ![o] = <<>>]
  BY DEF _Mix_remove_all_effects, RunDone, Marks
<1>2. Shaped /\ GoodAt(o)
  BY DEF Lists
<1>3. Shaped' /\ Sparing(o)
  BY <1>1, <1>2 DEF Shaped, Sparing
<1>4. /\ effects'[o] = <<>>
      /\ args'[o] = IF marked # {} THEN NoArgs ELSE args[o]
      /\ owes'[o] = owes[o] - Cardinality(Marks(effects[o], "app"))
  BY <1>1, <1>2 DEF Shaped
<1>5. effects[o] \in Seq(Fitting) /\ owes[o] = Cardinality(Marks(effects[o], "app"))
  BY <1>2 DEF GoodAt, Good
<1>6. owes[o] \in Nat
  BY <1>5, MarksFinite
<1>7. owes'[o] = 0
  BY <1>4, <1>5, <1>6
<1>8. args'[o] \in Blocks \union {NoArgs} /\ (args'[o] # NoArgs => ~args'[o].in_use)
  BY <1>2, <1>4 DEF GoodAt, Good
<1>9. Good(<<>>, 0, args'[o])
  BY <1>8, EmptyGood
<1> QED
  BY <1>3, <1>4, <1>7, <1>9 DEF GoodAt

LEMMA RunsOne ==
    ASSUME Lists, NEW o \in Owners, NEW callback, NEW done,
           done \in {"app", "none", "position"},
           \A e \in Fitting : e.callback = callback => e.done = done,
           _Mix_remove_effect(o, callback)
    PROVE  /\ Shaped' /\ Sparing(o) /\ GoodAt(o)' /\ NoneNew(o)
           /\ effects[o] = <<>> => effects'[o] = <<>>
<1>1. Shaped /\ GoodAt(o)
  BY DEF Lists
<1>2. effects[o] \in Seq(Fitting) /\ Good(effects[o], owes[o], args[o])
  BY <1>1 DEF GoodAt, Good
<1>3. CASE ~Has(o, callback)
  BY <1>1, <1>3 DEF _Mix_remove_effect, Shaped, Sparing, GoodAt, NoneNew
<1>4. CASE Has(o, callback)
  <2> DEFINE i == First(effects[o], callback)
             e == effects[o][i]
  <2>1. i \in 1 .. Len(effects[o]) /\ e.callback = callback
    BY <1>2, <1>4, FirstFound DEF Has
  <2>2. e \in Fitting /\ e.done = done
    BY <1>2, <2>1
  <2>3. RunDone(o, <<e>>) /\ effects' = [effects EXCEPT ![o] = Without(@, i)]
    BY <1>4 DEF _Mix_remove_effect
  <2> HIDE DEF i, e
  <2>4. /\ args' = [args EXCEPT ![o] = IF Marks(<<e>>, "position") # {} THEN NoArgs ELSE @]
        /\ owes' = [owes EXCEPT ![o] = @ - Cardinality(Marks(<<e>>, "app"))]
    BY <2>3 DEF RunDone, Marks
  <2>5. Shaped' /\ Sparing(o)
    BY <1>1, <2>3, <2>4 DEF Shaped, Sparing
  <2>6. /\ effects'[o] = Without(effects[o], i)
        /\ args'[o] = IF Marks(<<e>>, "position") # {} THEN NoArgs ELSE args[o]
        /\ owes'[o] = owes[o] - Cardinality(Marks(<<e>>, "app"))
    BY <1>1, <2>3, <2>4 DEF Shaped
  <2>7. /\ args'[o] = IF done = "position" THEN NoArgs ELSE args[o]
        /\ owes'[o] = owes[o] - IF done = "app" THEN 1 ELSE 0
    BY <2>2, <2>6, MarksOfOne
  <2>8. owes[o] \in Nat
    BY <1>2, MarksFinite DEF Good
  <2>9. /\ effects[o][i].done = "app" => Good(Without(effects[o], i), owes[o] - 1, args[o])
        /\ effects[o][i].done = "none" => Good(Without(effects[o], i), owes[o], args[o])
        /\ effects[o][i].done = "position" => Good(Without(effects[o], i), owes[o], NoArgs)
        /\ \A j \in Marks(Without(effects[o], i), "position") :
              \E k \in Marks(effects[o], "position") : Without(effects[o], i)[j] = effects[o][k]
    BY <1>2, <2>1, WithoutGood DEF i
  <2>10. Good(effects'[o], owes'[o], args'[o])
    BY <2>2, <2>6, <2>7, <2>8, <2>9 DEF e
  <2>11. effects[o] # <<>>
    BY <2>1 DEF i
  <2> QED
    BY <2>5, <2>6, <2>9, <2>10, <2>11 DEF GoodAt, NoneNew
<1> QED
  BY <1>3, <1>4

-----------------------------------------------------------------------------
(* Who may hold effects, and which.                                        *)

LEMMA OwnersApart ==
    ASSUME Numbers
    PROVE  /\ \A o \in Owners : BlockOf(o) = o
           /\ \A o : Exists(o) => o \in Owners /\ o \notin Musics /\ o \in Int
           /\ \A m \in Musics : m \in Owners /\ m \notin Int
           /\ \A c \in Channels : c \in Int /\ c \in Owners /\ 0 <= c /\ c < MaxChannels
           /\ MIX_CHANNEL_POST \in Owners /\ MIX_CHANNEL_POST \notin Channels
<1>1. /\ \A m \in Musics : m \notin Int
      /\ MaxChannels \in Nat /\ num_channels \in Nat /\ num_channels <= MaxChannels
  BY EffectsAssumption DEF Numbers
<1> QED
  BY <1>1 DEF Owners, Channels, MIX_CHANNEL_POST, Exists, BlockOf

LEMMA DoneGoesWith ==
    ASSUME NEW e \in Fitting
    PROVE  /\ e.done \in {"app", "none", "position"}
           /\ \A f : e.callback = <<"app", f>> => e.done = "app"
           /\ \A f : e.callback = <<"reverse", f>> => e.done = "none"
           /\ \A f, n : e.callback = <<"position", f, n>> => e.done = "position"
<1>1. CASE e \in {Effect(<<"app", f>>, "app") : f \in Funcs}
  BY <1>1 DEF Effect
<1>2. CASE e \in {Effect(<<"reverse", f>>, "none") : f \in Formats}
  BY <1>2 DEF Effect
<1>3. CASE e \in {Effect(<<"position", s.format, s.channels>>, "position") : s \in Specs}
  BY <1>3 DEF Effect
<1> QED
  BY <1>1, <1>2, <1>3 DEF Fitting

LEMMA OwnerStep ==
    ASSUME Lists, Numbers, NEW o \in Owners, Shaped', Sparing(o), GoodAt(o)', NoneNew(o),
           May(o) \/ effects'[o] = <<>>,
           UNCHANGED <<spec, num_channels, position_channels, loaded>>
    PROVE  Lists'
<1>1. \A p : May(p) => May(p)'
  BY DEF May, Opened, Exists
<1>2. EmptyAt(o)'
  BY <1>1 DEF EmptyAt
<1>3. PlacedAt(o)'
  <2>1. PlacedAt(o)
    BY DEF Lists
  <2> QED
    BY <2>1 DEF PlacedAt, NoneNew, Opened, PositionFunc
<1>4. position_channels \in Nat /\ position_channels' \in Nat /\ position_channels <= position_channels'
  BY EffectsAssumption DEF Numbers
<1> QED
  BY <1>1, <1>2, <1>3, <1>4, AtOwner

\* Nothing but a list, what it owes and its block change.
LEMMA ListStep ==
    ASSUME IInv, Lists', shrink = NoShrink,
           UNCHANGED <<spec, num_channels, playing, position_channels, loaded, shrink>>
    PROVE  IInv'
BY DEF IInv, Numbers, Shrinking, Opened

LEMMA RegisterKeeps ==
    ASSUME IInv, NEW o \in Owners, May(o), Room(o), shrink = NoShrink,
           NEW e \in Fitting, e.done # "position",
           effects' = [effects EXCEPT ![o] = Append(@, e)],
           owes' = [owes EXCEPT ![o] = IF e.done = "app" THEN @ + 1 ELSE @], args' = args,
           UNCHANGED <<spec, num_channels, playing, position_channels, loaded, shrink>>
    PROVE  IInv'
<1>1. Lists /\ Numbers /\ Shaped /\ Good(effects[o], owes[o], args[o])
  BY DEF IInv, Lists, GoodAt
<1>2. Shaped' /\ Sparing(o)
  BY <1>1 DEF Shaped, Sparing
<1>3. /\ effects'[o] = Append(effects[o], e) /\ args'[o] = args[o]
      /\ owes'[o] = IF e.done = "app" THEN owes[o] + 1 ELSE owes[o]
  BY <1>1 DEF Shaped
<1>4. e.done \in {"app", "none"}
  BY DoneGoesWith
<1>5. Len(effects[o]) < MaxEffects
  BY DEF Room
<1>6. /\ e.done = "app" => Good(Append(effects[o], e), owes[o] + 1, args[o])
      /\ e.done = "none" => Good(Append(effects[o], e), owes[o], args[o])
      /\ \A i \in Marks(Append(effects[o], e), "position") :
            \/ Append(effects[o], e)[i] = e
            \/ i \in Marks(effects[o], "position") /\ Append(effects[o], e)[i] = effects[o][i]
      /\ Marks(Append(effects[o], e), "position") = Marks(effects[o], "position")
  BY <1>1, <1>5, AppendGood
<1>7. GoodAt(o)'
  BY <1>3, <1>4, <1>6 DEF GoodAt
<1>8. NoneNew(o)
  <2> SUFFICES ASSUME NEW i \in Marks(Append(effects[o], e), "position")
               PROVE  /\ i \in Marks(effects[o], "position")
                      /\ Append(effects[o], e)[i] = effects[o][i]
    BY <1>3 DEF NoneNew
  <2>1. Append(effects[o], e)[i].done = "position"
    BY DEF Marks
  <2> QED
    BY <1>4, <1>6, <2>1
<1>9. Lists'
  BY <1>1, <1>2, <1>7, <1>8, OwnerStep
<1> QED
  BY <1>9, ListStep

LEMMA RemoveKeeps ==
    ASSUME IInv, NEW o \in Owners, May(o), shrink = NoShrink, NEW callback, NEW done,
           done \in {"app", "none", "position"},
           \A e \in Fitting : e.callback = callback => e.done = done,
           _Mix_remove_effect(o, callback),
           UNCHANGED <<spec, num_channels, playing, position_channels, loaded, shrink>>
    PROVE  IInv'
<1>1. Lists /\ Numbers
  BY DEF IInv
<1>2. Shaped' /\ Sparing(o) /\ GoodAt(o)' /\ NoneNew(o)
  BY <1>1, RunsOne
<1>3. Lists'
  BY <1>1, <1>2, OwnerStep
<1> QED
  BY <1>3, ListStep

\* Whoever's list goes, the invariant of the lists stays.
LEMMA RemoveAllKeeps ==
    ASSUME Lists, Numbers, NEW o \in Owners, _Mix_remove_all_effects(o),
           UNCHANGED <<spec, num_channels, position_channels, loaded>>
    PROVE  Lists' /\ effects'[o] = <<>> /\ \A p \in Owners \ {o} : effects'[p] = effects[p]
<1>1. Shaped' /\ Sparing(o) /\ GoodAt(o)' /\ effects'[o] = <<>>
  BY RunsAll
<1>2. NoneNew(o)
  BY <1>1, MarksOfNothing DEF NoneNew
<1>3. Lists'
  BY <1>1, <1>2, OwnerStep
<1> QED
  BY <1>1, <1>3 DEF Sparing

-----------------------------------------------------------------------------
(* Registering and removing.                                               *)

LEMMA RegisteredKeeps ==
    ASSUME IInv, NEW o \in Owners, May(o), shrink = NoShrink, NEW f \in Funcs,
           Registered(o, f) \/ Unregistered(o, f)
    PROVE  IInv'
<1>1. CASE Registered(o, f)
  <2> DEFINE e == Effect(<<"app", f>>, "app")
  <2>1. e \in Fitting /\ e.done = "app"
    BY DEF Fitting, Effect
  <2>2. effects' = [effects EXCEPT ![o] = Append(@, e)]
    BY <1>1 DEF Registered, _Mix_RegisterEffect_locked, _Mix_register_effect, May
  <2>3. /\ Room(o) /\ owes' = [owes EXCEPT ![o] = @ + 1] /\ args' = args
        /\ UNCHANGED <<spec, num_channels, playing, position_channels, loaded, shrink>>
    BY <1>1 DEF Registered
  <2> HIDE DEF e
  <2> QED
    BY <2>1, <2>2, <2>3, RegisterKeeps
<1>2. CASE Unregistered(o, f)
  <2>1. /\ _Mix_remove_effect(o, <<"app", f>>)
        /\ UNCHANGED <<spec, num_channels, playing, position_channels, loaded, shrink>>
    BY <1>2 DEF Unregistered, _Mix_UnregisterEffect_locked, May
  <2>2. \A e \in Fitting : e.callback = <<"app", f>> => e.done = "app"
    BY DoneGoesWith
  <2> QED
    BY <2>1, <2>2, RemoveKeeps
<1> QED
  BY <1>1, <1>2

LEMMA AllUnregisteredKeeps ==
    ASSUME IInv, NEW o \in Owners, shrink = NoShrink, AllUnregistered(o)
    PROVE  IInv'
<1>1. /\ _Mix_remove_all_effects(o)
      /\ UNCHANGED <<spec, num_channels, playing, position_channels, loaded, shrink>>
  BY DEF AllUnregistered
<1>2. Lists'
  BY <1>1, RemoveAllKeeps DEF IInv
<1> QED
  BY <1>1, <1>2, ListStep

LEMMA ReversedKeeps ==
    ASSUME IInv, NEW o \in Owners, May(o), Opened, shrink = NoShrink,
           NEW flip, Reversed(o, flip)
    PROVE  IInv'
<1>1. UNCHANGED <<spec, num_channels, playing, position_channels, loaded, shrink>>
  BY DEF Reversed
<1>2. spec.format \in Formats
  BY EffectsAssumption DEF IInv, Numbers, Opened
<1>3. CASE flip
  <2> DEFINE e == Effect(Reverse, "none")
  <2>1. e \in Fitting /\ e.done = "none"
    BY <1>2 DEF Fitting, Effect, Reverse
  <2>2. effects' = [effects EXCEPT ![o] = Append(@, e)] /\ Room(o) /\ args' = args /\ owes' = owes
    BY <1>3 DEF Reversed, _Mix_RegisterEffect_locked, _Mix_register_effect, May
  <2> HIDE DEF e
  <2>3. owes' = [owes EXCEPT ![o] = IF e.done = "app" THEN @ + 1 ELSE @]
    BY <2>1, <2>2 DEF IInv, Lists, Shaped
  <2> QED
    BY <1>1, <2>1, <2>2, <2>3, RegisterKeeps
<1>4. CASE ~flip
  <2>1. _Mix_remove_effect(o, <<"reverse", spec.format>>)
    BY <1>4 DEF Reversed, _Mix_UnregisterEffect_locked, May, Reverse
  <2>2. \A e \in Fitting : e.callback = <<"reverse", spec.format>> => e.done = "none"
    BY DoneGoesWith
  <2> QED
    BY <1>1, <2>1, <2>2, RemoveKeeps
<1> QED
  BY <1>3, <1>4

-----------------------------------------------------------------------------
(* Positions.                                                              *)

LEMMA BlockOfOwner ==
    ASSUME IInv, NEW o \in Owners
    PROVE  /\ BlockFor(o) = IF args[o] = NoArgs THEN NewArgs ELSE args[o]
           /\ BlockFor(o) \in Blocks
           /\ BlockFor(o).in_use <=> Marks(effects[o], "position") # {}
           /\ BlockFor(o).in_use => BlockFor(o) = args[o]
<1>1. BlockFor(o) = IF args[o] = NoArgs THEN NewArgs ELSE args[o]
  BY OwnersApart DEF IInv, BlockFor
<1>2. NewArgs \in Blocks /\ ~NewArgs.in_use
  BY DEF NewArgs, Plain, Blocks, Bytes, Rooms
<1>3. Good(effects[o], owes[o], args[o])
  BY DEF IInv, Lists, GoodAt
<1> QED
  BY <1>1, <1>2, <1>3 DEF Good

\* The table reaches to the owner once its block was asked for.
LEMMA TableReaches ==
    ASSUME IInv, NEW o \in Owners, TableFor(o)
    PROVE  /\ position_channels' \in 0 .. MaxChannels
           /\ position_channels <= position_channels' /\ position_channels \in Nat
           /\ o \in Channels => o < position_channels'
<1>1. /\ MaxChannels \in Nat /\ position_channels \in 0 .. MaxChannels
      /\ o \in Channels => o \in Int /\ 0 <= o /\ o < MaxChannels
      /\ o \in Int => o \in Channels \/ o = -2
  BY OwnersApart, EffectsAssumption DEF IInv, Numbers, Owners, MIX_CHANNEL_POST
<1> QED
  BY <1>1 DEF TableFor

\* What every call of the three does: it grows the table and places the block.
LEMMA PlaceKeeps ==
    ASSUME IInv, NEW o \in Owners, May(o), Opened, shrink = NoShrink,
           PositionFunc # NoFunc, CanPlace(o), TableFor(o),
           UNCHANGED <<spec, num_channels, playing, loaded, shrink>>,
           \/ Place(o, TRUE, NewArgs)
           \/ \E block \in Blocks : Place(o, FALSE, block)
    PROVE  IInv'
<1> DEFINE old == BlockFor(o)
           f == PositionFunc
           e == Effect(f, "position")
<1>1. Lists /\ Numbers /\ Shaped /\ Good(effects[o], owes[o], args[o])
  BY DEF IInv, Lists, GoodAt
<1>2. /\ old = IF args[o] = NoArgs THEN NewArgs ELSE args[o]
      /\ old \in Blocks
      /\ old.in_use <=> Marks(effects[o], "position") # {}
      /\ old.in_use => old = args[o]
  BY BlockOfOwner
<1>3. /\ position_channels' \in 0 .. MaxChannels /\ position_channels <= position_channels'
      /\ position_channels \in Nat /\ position_channels' \in Nat
      /\ o \in Channels => o < position_channels'
  BY TableReaches
<1>4. BlockOf(o) = o
  BY <1>1, OwnersApart
<1>5. f = <<"position", spec.format, spec.channels>>
  BY DEF PositionFunc, get_position_effect_func
<1>6. e \in Fitting /\ e.done = "position" /\ e.callback = f
  BY <1>1, <1>5, EffectsAssumption DEF Numbers, Opened, Fitting, Effect
<1>7. Opened' /\ PositionFunc' = f
  BY DEF Opened, PositionFunc
<1>8. \A p : May(p) => May(p)'
  BY DEF May, Opened, Exists
<1>9. \A i \in Marks(effects[o], "position") : effects[o][i].callback = f
  BY <1>1 DEF Lists, PlacedAt
<1> HIDE DEF old, f, e
<1>10. SUFFICES /\ Shaped' /\ Sparing(o) /\ GoodAt(o)'
                /\ \A i \in Marks(effects'[o], "position") : effects'[o][i].callback = f
  <2>1. PlacedAt(o)' /\ EmptyAt(o)'
    BY <1>3, <1>7, <1>8, <1>10 DEF PlacedAt, EmptyAt
  <2>2. Lists'
    BY <1>1, <1>3, <1>8, <1>10, <2>1, AtOwner
  <2> QED
    BY <1>1, <1>3, <2>2 DEF IInv, Numbers, Shrinking, Opened
<1>11. CASE Place(o, TRUE, NewArgs) /\ old.in_use
  <2>1. _Mix_remove_effect(o, f)
    BY <1>11 DEF Place, _Mix_UnregisterEffect_locked, May, old, f
  <2>2. \A x \in Fitting : x.callback = f => x.done = "position"
    BY <1>5, DoneGoesWith
  <2>3. Shaped' /\ Sparing(o) /\ GoodAt(o)' /\ NoneNew(o)
    BY <1>1, <2>1, <2>2, RunsOne
  <2> QED
    BY <1>9, <2>3 DEF NoneNew
<1>12. CASE Place(o, TRUE, NewArgs) /\ ~old.in_use
  <2>1. args' = [args EXCEPT ![o] = old] /\ UNCHANGED <<effects, owes>>
    BY <1>4, <1>12 DEF Place, old
  <2>2. Shaped' /\ Sparing(o) /\ args'[o] = old
    BY <1>1, <2>1 DEF Shaped, Sparing
  <2>3. Good(effects[o], owes[o], old)
    BY <1>1, <1>2, <1>12 DEF Good
  <2> QED
    BY <1>9, <2>1, <2>2, <2>3 DEF GoodAt
<1>13. ASSUME NEW block \in Blocks, Place(o, FALSE, block)
       PROVE  /\ Shaped' /\ Sparing(o) /\ GoodAt(o)'
              /\ \A i \in Marks(effects'[o], "position") : effects'[o][i].callback = f
  <2> DEFINE b == [block EXCEPT !.in_use = TRUE]
  <2>1. b \in Blocks /\ b.in_use /\ b # NoArgs
    BY NoArgsAssumption DEF Blocks
  <2>2. /\ args' = [args EXCEPT ![o] = b] /\ UNCHANGED owes
        /\ effects' = IF old.in_use THEN effects ELSE [effects EXCEPT ![o] = Append(@, e)]
    BY <1>4, <1>13 DEF Place, _Mix_RegisterEffect_locked, _Mix_register_effect, May, old, f, e
  <2> HIDE DEF b
  <2>3. Shaped' /\ Sparing(o) /\ args'[o] = b
    BY <1>1, <2>2 DEF Shaped, Sparing
  <2>4. CASE old.in_use
    <3>1. Good(effects[o], owes[o], b)
      BY <1>1, <1>2, <2>1, <2>4 DEF Good
    <3> QED
      BY <1>9, <2>2, <2>3, <2>4, <3>1 DEF GoodAt
  <2>5. CASE ~old.in_use
    <3>1. Marks(effects[o], "position") = {} /\ Len(effects[o]) < MaxEffects
      BY <1>2, <2>5 DEF CanPlace, Room, old
    <3>2. effects'[o] = Append(effects[o], e)
      BY <1>1, <2>2, <2>5 DEF Shaped
    <3>3. /\ Good(Append(effects[o], e), owes[o], b)
          /\ \A i \in Marks(Append(effects[o], e), "position") : Append(effects[o], e)[i] = e
      <4>1. /\ e.done = "position" /\ Marks(effects[o], "position") = {} =>
                  \A x \in Blocks : x.in_use => Good(Append(effects[o], e), owes[o], x)
            /\ \A i \in Marks(Append(effects[o], e), "position") :
                  \/ Append(effects[o], e)[i] = e
                  \/ i \in Marks(effects[o], "position") /\ Append(effects[o], e)[i] = effects[o][i]
        BY <1>1, <1>6, <3>1, AppendGood
      <4> QED
        BY <1>6, <2>1, <3>1, <4>1
    <3> QED
      BY <1>6, <2>2, <2>3, <3>2, <3>3 DEF GoodAt
  <2> QED
    BY <2>3, <2>4, <2>5
<1> QED
  BY <1>11, <1>12, <1>13

-----------------------------------------------------------------------------
(* Amplitudes are bytes.                                                   *)

LEMMA PartIsInt ==
    ASSUME NEW a \in Int, NEW d \in {89, 179}
    PROVE  Part(a, d) \in Int
BY DEF Part

LEMMA AmplitudesAreInts ==
    ASSUME NEW channels, NEW a \in 0 .. 359
    PROVE  \A k \in 1 .. 5 : Amplitudes(channels, a)[k] \in Int
<1>1. \A x \in Int : Part(x, 89) \in Int /\ Part(x, 179) \in Int
  BY PartIsInt
<1>2. \A k \in 1 .. 5 : Stereo(a)[k] \in Int
  <2>1. CASE a < 90
    BY <1>1, <2>1, SMTT(60) DEF Stereo
  <2>2. CASE a \in 90 .. 179
    BY <1>1, <2>2, SMTT(60) DEF Stereo
  <2>3. CASE a \in 180 .. 269
    BY <1>1, <2>3, SMTT(60) DEF Stereo
  <2>4. CASE a >= 270
    BY <1>1, <2>4, SMTT(60) DEF Stereo
  <2> QED
    BY <2>1, <2>2, <2>3, <2>4
<1>3. \A k \in 1 .. 5 : Surround(a)[k] \in Int
  <2>1. CASE a < 45
    BY <1>1, <2>1, SMTT(60) DEF Surround
  <2>2. CASE a \in 45 .. 89
    BY <1>1, <2>2, SMTT(60) DEF Surround
  <2>3. CASE a \in 90 .. 134
    BY <1>1, <2>3, SMTT(60) DEF Surround
  <2>4. CASE a \in 135 .. 179
    BY <1>1, <2>4, SMTT(60) DEF Surround
  <2>5. CASE a \in 180 .. 224
    BY <1>1, <2>5, SMTT(60) DEF Surround
  <2>6. CASE a \in 225 .. 269
    BY <1>1, <2>6, SMTT(60) DEF Surround
  <2>7. CASE a \in 270 .. 314
    BY <1>1, <2>7, SMTT(60) DEF Surround
  <2>8. CASE a >= 315
    BY <1>1, <2>8, SMTT(60) DEF Surround
  <2> QED
    BY <2>1, <2>2, <2>3, <2>4, <2>5, <2>6, <2>7, <2>8
<1>4. \A k \in 1 .. 5 : <<255, 255, 255, 255, 255>>[k] \in Int
  OBVIOUS
<1> QED
  BY <1>2, <1>3, <1>4 DEF Amplitudes

LEMMA ClampedIsByte ==
    ASSUME NEW v \in Int
    PROVE  Clamped(v) \in Bytes
BY DEF Clamped, Bytes

LEMMA AmplitudesAreBytes ==
    ASSUME NEW channels, NEW a \in 0 .. 359, NEW room \in Rooms
    PROVE  set_amplitudes(channels, a, room) \in [1 .. 6 -> Bytes]
<1> DEFINE c == [k \in 1 .. 5 |-> Clamped(Amplitudes(channels, a)[k])]
<1>1. c[1] \in Bytes /\ c[2] \in Bytes /\ c[3] \in Bytes /\ c[4] \in Bytes /\ c[5] \in Bytes
  <2>1. \A k \in 1 .. 5 : Amplitudes(channels, a)[k] \in Int
    BY AmplitudesAreInts
  <2>2. \A k \in 1 .. 5 : c[k] \in Bytes
    BY <2>1, ClampedIsByte
  <2> HIDE DEF c
  <2> QED
    BY <2>2
<1>2. 255 \in Bytes
  BY DEF Bytes
<1> HIDE DEF c
<1>3. \A p, q, r, s, t, u \in Bytes : <<p, q, r, s>> \o <<t, u>> \in [1 .. 6 -> Bytes]
  <2> SUFFICES ASSUME NEW p \in Bytes, NEW q \in Bytes, NEW r \in Bytes, NEW s \in Bytes,
                      NEW t \in Bytes, NEW u \in Bytes
               PROVE  <<p, q, r, s>> \o <<t, u>> \in [1 .. 6 -> Bytes]
    OBVIOUS
  <2>1. <<p, q, r, s>> \in Seq(Bytes) /\ <<t, u>> \in Seq(Bytes)
    OBVIOUS
  <2> DEFINE w == <<p, q, r, s>> \o <<t, u>>
  <2>2. w \in Seq(Bytes) /\ Len(w) = 6
    BY <2>1
  <2> HIDE DEF w
  <2>3. w \in [1 .. Len(w) -> Bytes]
    BY <2>2, LenProperties
  <2> QED
    BY <2>2, <2>3 DEF w
<1>4. \E p, q, r, s \in Bytes :
         set_amplitudes(channels, a, room) = <<p, q, r, s>> \o <<c[5], 255>>
  <2> DEFINE kept == CASE room = 90  -> <<c[3], c[1], c[4], c[2]>>
                       [] room = 180 -> IF channels = 2 THEN <<c[2], c[1], 255, 255>>
                                        ELSE <<c[4], c[3], c[2], c[1]>>
                       [] room = 270 -> <<c[2], c[4], c[1], c[3]>>
                       [] OTHER      -> <<c[1], c[2], c[3], c[4]>>
  <2>1. set_amplitudes(channels, a, room) = kept \o <<c[5], 255>>
    BY DEF set_amplitudes, c
  <2>2. \E p, q, r, s \in Bytes : kept = <<p, q, r, s>>
    <3>1. CASE room = 90
      BY <1>1, <3>1
    <3>2. CASE room = 180 /\ channels = 2
      BY <1>1, <1>2, <3>2
    <3>3. CASE room = 180 /\ channels # 2
      BY <1>1, <3>3
    <3>4. CASE room = 270
      BY <1>1, <3>4
    <3>5. CASE room = 0
      BY <1>1, <3>5
    <3> QED
      BY <3>1, <3>2, <3>3, <3>4, <3>5 DEF Rooms
  <2> HIDE DEF kept
  <2> QED
    BY <2>1, <2>2, ZenonT(60)
<1> QED
  BY <1>1, <1>2, <1>3, <1>4

LEMMA PositionedKeeps ==
    ASSUME IInv, NEW o \in Owners, May(o), Opened, shrink = NoShrink,
           NEW angle \in Int, NEW distance \in Bytes, Positioned(o, angle, distance)
    PROVE  IInv'
<1> DEFINE a == Normal(angle)
           room == RoomAngle(spec.channels, a)
           block == [BlockFor(o) EXCEPT !.amps = set_amplitudes(spec.channels, a, room),
                                        !.distance = 255 - distance, !.room = room]
<1>1. /\ PositionFunc # NoFunc /\ CanPlace(o) /\ TableFor(o)
      /\ Place(o, distance = 0 /\ a = 0, block)
      /\ UNCHANGED <<spec, num_channels, playing, loaded, shrink>>
  BY DEF Positioned
<1>2. block \in Blocks
  <2>1. a \in 0 .. 359 /\ room \in Rooms
    BY DEF Normal, RoomAngle, Rooms
  <2>2. set_amplitudes(spec.channels, a, room) \in [1 .. 6 -> Bytes]
    BY <2>1, AmplitudesAreBytes
  <2>3. 255 - distance \in Bytes
    BY DEF Bytes
  <2>4. BlockFor(o) \in Blocks
    BY BlockOfOwner
  <2> HIDE DEF a, room
  <2> QED
    BY <2>1, <2>2, <2>3, <2>4 DEF Blocks
<1> HIDE DEF block
<1>3. Place(o, TRUE, NewArgs) \/ Place(o, FALSE, block)
  BY <1>1 DEF Place
<1> QED
  BY <1>1, <1>2, <1>3, PlaceKeeps

LEMMA PannedKeeps ==
    ASSUME IInv, NEW o \in Owners, May(o), Opened, shrink = NoShrink,
           NEW left \in Bytes, NEW right \in Bytes, Panned(o, left, right)
    PROVE  IInv'
<1> DEFINE old == BlockFor(o)
           block == [old EXCEPT !.amps[1] = left, !.amps[2] = right, !.room = 0]
           neutral == old.distance = 255 /\ left = 255 /\ right = 255
<1>1. CASE spec.channels \in {4, 6} /\ Positioned(o, PanAngle(left, right), 0)
  <2>1. PanAngle(left, right) \in Int /\ 0 \in Bytes
    BY DEF PanAngle, Quotient, Bytes
  <2> QED
    BY <1>1, <2>1, PositionedKeeps
<1>2. CASE /\ spec.channels = 2 /\ CanPlace(o) /\ TableFor(o) /\ Place(o, neutral, block)
           /\ UNCHANGED <<spec, num_channels, playing, loaded, shrink>>
  <2>1. PositionFunc # NoFunc
    BY <1>2 DEF PositionFunc, NoFunc, get_position_effect_func
  <2>2. block \in Blocks
    <3>1. old \in Blocks
      BY BlockOfOwner
    <3> HIDE DEF old
    <3> QED
      BY <3>1 DEF Blocks, Rooms
  <2> HIDE DEF block, neutral
  <2>3. Place(o, TRUE, NewArgs) \/ Place(o, FALSE, block)
    BY <1>2 DEF Place
  <2> QED
    BY <1>2, <2>1, <2>2, <2>3, PlaceKeeps
<1> QED
  BY <1>1, <1>2 DEF Panned

LEMMA DistancedKeeps ==
    ASSUME IInv, NEW o \in Owners, May(o), Opened, shrink = NoShrink,
           NEW distance \in Bytes, Distanced(o, distance)
    PROVE  IInv'
<1> DEFINE old == BlockFor(o)
           block == [old EXCEPT !.distance = 255 - distance]
           neutral == distance = 0 /\ old.amps[1] = 255 /\ old.amps[2] = 255
<1>1. /\ PositionFunc # NoFunc /\ CanPlace(o) /\ TableFor(o) /\ Place(o, neutral, block)
      /\ UNCHANGED <<spec, num_channels, playing, loaded, shrink>>
  BY DEF Distanced
<1>2. block \in Blocks
  <2>1. old \in Blocks /\ 255 - distance \in Bytes
    BY BlockOfOwner DEF Bytes
  <2> HIDE DEF old
  <2> QED
    BY <2>1 DEF Blocks
<1> HIDE DEF block, neutral
<1>3. Place(o, TRUE, NewArgs) \/ Place(o, FALSE, block)
  BY <1>1 DEF Place
<1> QED
  BY <1>1, <1>2, <1>3, PlaceKeeps

-----------------------------------------------------------------------------
(* What the application asks of a channel, the output or music.            *)

LEMMA ArgumentsAreBytes ==
    /\ \A p \in Pans : p[1] \in Bytes /\ p[2] \in Bytes
    /\ \A d \in Distances : d \in Bytes
    /\ \A p \in Places : p[1] \in Int /\ p[2] \in Bytes
<1>1. \A p \in Pans : p[1] \in Bytes /\ p[2] \in Bytes
  BY ArgumentsAssumption DEF Bytes
<1>2. \A d \in Distances : d \in Bytes
  BY ArgumentsAssumption DEF Bytes
<1>3. ASSUME NEW p \in Places PROVE p[1] \in Int /\ p[2] \in Bytes
  BY ArgumentsAssumption DEF Bytes
<1> QED
  BY <1>1, <1>2, <1>3

LEMMA ChannelKeeps ==
    ASSUME IInv, Existing, NEW c, OnChannel(c)
    PROVE  IInv'
<1>1. AppFree /\ c \in Nameable
  BY DEF OnChannel, Mix_RegisterEffect, Mix_UnregisterEffect, Mix_UnregisterAllEffects,
         Mix_SetReverseStereo, Mix_SetPanning, Mix_SetDistance, Mix_SetPosition
<1>2. Opened /\ shrink = NoShrink /\ Exists(c)
  BY <1>1 DEF AppFree, Nameable
<1>3. c \in Owners /\ May(c)
  BY <1>2, OwnersApart DEF IInv, May
<1>4. CASE \E f \in Funcs : Mix_RegisterEffect(c, f) \/ Mix_UnregisterEffect(c, f)
  BY <1>2, <1>3, <1>4, RegisteredKeeps DEF Mix_RegisterEffect, Mix_UnregisterEffect
<1>5. CASE Mix_UnregisterAllEffects(c)
  BY <1>2, <1>3, <1>5, AllUnregisteredKeeps DEF Mix_UnregisterAllEffects
<1>7. CASE \E flip \in BOOLEAN : Mix_SetReverseStereo(c, flip)
  BY <1>2, <1>3, <1>7, ReversedKeeps DEF Mix_SetReverseStereo
<1>8. CASE \E p \in Pans : Mix_SetPanning(c, p[1], p[2])
  BY <1>2, <1>3, <1>8, ArgumentsAreBytes, PannedKeeps DEF Mix_SetPanning
<1>9. CASE \E d \in Distances : Mix_SetDistance(c, d)
  BY <1>2, <1>3, <1>9, ArgumentsAreBytes, DistancedKeeps DEF Mix_SetDistance
<1>10. CASE \E p \in Places : Mix_SetPosition(c, p[1], p[2])
  BY <1>2, <1>3, <1>10, ArgumentsAreBytes, PositionedKeeps DEF Mix_SetPosition
<1> QED
  BY <1>4, <1>5, <1>7, <1>8, <1>9, <1>10 DEF OnChannel

LEMMA LoadKeeps ==
    ASSUME IInv, NEW m \in Musics, Mix_LoadMUS(m)
    PROVE  IInv'
<1>1. Lists /\ Numbers /\ Shaped /\ m \in Owners /\ shrink = NoShrink
  BY OwnersApart DEF IInv, Lists, Mix_LoadMUS, AppFree
<1>2. effects[m] = <<>> /\ owes[m] = 0
  <2>1. ~May(m)
    BY DEF Mix_LoadMUS, May
  <2>2. effects[m] = <<>> /\ Good(effects[m], owes[m], args[m])
    BY <1>1, <2>1 DEF Lists, EmptyAt, GoodAt
  <2> QED
    BY <2>2, MarksOfNothing DEF Good
<1>3. Shaped' /\ Sparing(m) /\ effects'[m] = <<>> /\ args'[m] = NoArgs /\ owes'[m] = 0
  BY <1>1, <1>2 DEF Mix_LoadMUS, Shaped, Sparing
<1>4. Good(<<>>, 0, NoArgs)
  BY EmptyGood
<1>5. GoodAt(m)' /\ EmptyAt(m)' /\ PlacedAt(m)'
  BY <1>3, <1>4, MarksOfNothing DEF GoodAt, EmptyAt, PlacedAt
<1>6. \A p : May(p) => May(p)'
  BY DEF Mix_LoadMUS, May, Opened, Exists
<1>7. position_channels \in Nat /\ position_channels' = position_channels /\ spec' = spec
  BY <1>1, EffectsAssumption DEF Numbers, Mix_LoadMUS
<1>8. Lists'
  <2>1. position_channels <= position_channels'
    BY <1>7
  <2> QED
    BY <1>1, <1>3, <1>5, <1>6, <1>7, <2>1, AtOwner
<1> QED
  BY <1>1, <1>8 DEF IInv, Numbers, Shrinking, Opened, Mix_LoadMUS

LEMMA FreeKeeps ==
    ASSUME IInv, NEW m \in Musics, Mix_FreeMusic(m)
    PROVE  IInv'
<1>1. /\ Lists /\ Numbers /\ m \in Owners /\ shrink = NoShrink /\ _Mix_remove_all_effects(m)
      /\ loaded' = loaded \ {m}
      /\ UNCHANGED <<spec, num_channels, playing, position_channels, shrink>>
  BY OwnersApart DEF IInv, Mix_FreeMusic
<1>2. Shaped' /\ Sparing(m) /\ GoodAt(m)' /\ effects'[m] = <<>>
  BY <1>1, RunsAll
<1>3. EmptyAt(m)' /\ PlacedAt(m)'
  BY <1>2, MarksOfNothing DEF EmptyAt, PlacedAt
<1>4. \A p \in Owners \ {m} : May(p) => May(p)'
  BY <1>1 DEF May, Opened, Exists
<1>5. position_channels \in Nat /\ position_channels' \in Nat /\ position_channels <= position_channels'
  BY <1>1, EffectsAssumption DEF Numbers
<1>6. Lists'
  BY <1>1, <1>2, <1>3, <1>4, <1>5, AtOwner
<1> QED
  BY <1>1, <1>6 DEF IInv, Numbers, Shrinking, Opened

LEMMA MusicKeeps ==
    ASSUME IInv, NEW m \in Musics, OnMusic(m)
    PROVE  IInv'
<1>1. CASE Mix_LoadMUS(m)
  BY <1>1, LoadKeeps
<1>2. CASE Mix_FreeMusic(m)
  BY <1>2, FreeKeeps
<1>3. m \in Owners /\ (m \in loaded => May(m))
  BY OwnersApart DEF IInv, May
<1>4. AppFree => Opened /\ shrink = NoShrink
  BY DEF AppFree
<1>5. CASE \E f \in Funcs : Mix_RegisterMusicEffect(m, f) \/ Mix_UnregisterMusicEffect(m, f)
  BY <1>3, <1>4, <1>5, RegisteredKeeps DEF Mix_RegisterMusicEffect, Mix_UnregisterMusicEffect
<1>6. CASE Mix_UnregisterAllMusicEffects(m)
  BY <1>3, <1>4, <1>6, AllUnregisteredKeeps DEF Mix_UnregisterAllMusicEffects
<1>7. CASE \E flip \in BOOLEAN : Mix_SetMusicEffectReverseStereo(m, flip)
  BY <1>3, <1>4, <1>7, ReversedKeeps DEF Mix_SetMusicEffectReverseStereo
<1>8. CASE \E p \in Pans : Mix_SetMusicEffectPanning(m, p[1], p[2])
  BY <1>3, <1>4, <1>8, ArgumentsAreBytes, PannedKeeps DEF Mix_SetMusicEffectPanning
<1>9. CASE \E d \in Distances : Mix_SetMusicEffectDistance(m, d)
  BY <1>3, <1>4, <1>9, ArgumentsAreBytes, DistancedKeeps DEF Mix_SetMusicEffectDistance
<1>10. CASE \E p \in Places : Mix_SetMusicEffectPosition(m, p[1], p[2])
  BY <1>3, <1>4, <1>10, ArgumentsAreBytes, PositionedKeeps DEF Mix_SetMusicEffectPosition
<1> QED
  BY <1>1, <1>2, <1>5, <1>6, <1>7, <1>8, <1>9, <1>10 DEF OnMusic

-----------------------------------------------------------------------------
(* Sounds that end and channels that come and go.                          *)

\* A sound that ends takes the effects of its channel; it never adds one.
LEMMA EndsKeeps ==
    ASSUME IInv, NEW c \in Owners, Ends(c),
           UNCHANGED <<spec, num_channels, position_channels, loaded>>
    PROVE  /\ Lists' /\ playing' = playing \ {c}
           /\ \A o \in Owners : effects[o] = <<>> => effects'[o] = <<>>
<1>1. CASE c \in playing
  <2>1. _Mix_remove_all_effects(c) /\ playing' = playing \ {c}
    BY <1>1 DEF Ends, DonePlaying
  <2>2. Lists' /\ effects'[c] = <<>> /\ \A p \in Owners \ {c} : effects'[p] = effects[p]
    BY <2>1, RemoveAllKeeps DEF IInv
  <2> QED
    BY <2>1, <2>2
<1>2. CASE c \notin playing
  BY <1>2 DEF Ends, IInv, Lists, Shaped, GoodAt, EmptyAt, PlacedAt, May, Opened, Exists, PositionFunc
<1> QED
  BY <1>1, <1>2

LEMMA SoundKeeps ==
    ASSUME IInv, NEW c, Mix_PlayChannel(c) \/ Mix_HaltChannel(c) \/ SoundEnds(c)
    PROVE  IInv'
<1>1. /\ Opened /\ MaxChannels \in Nat /\ num_channels \in Nat /\ num_channels <= MaxChannels
      /\ playing \subseteq 0 .. num_channels - 1
  BY EffectsAssumption DEF IInv, Numbers, Mix_PlayChannel, Mix_HaltChannel, SoundEnds, AppFree
<1>2. c \in 0 .. num_channels - 1
  BY <1>1 DEF Mix_PlayChannel, Mix_HaltChannel, SoundEnds
<1>3. c \in Owners
  BY <1>1, <1>2 DEF Owners, Channels
<1>4. CASE Mix_PlayChannel(c)
  <2>1. /\ shrink = NoShrink /\ playing' = playing \union {c}
        /\ UNCHANGED <<spec, num_channels, position_channels, loaded, shrink>>
    BY <1>4 DEF Mix_PlayChannel, AppFree
  <2>2. Lists'
    <3>1. CASE c \in playing
      BY <1>3, <1>4, <2>1, <3>1, RemoveAllKeeps DEF Mix_PlayChannel, DonePlaying, IInv
    <3>2. CASE c \notin playing
      BY <1>4, <2>1, <3>2 DEF Mix_PlayChannel, IInv, Lists, Shaped, GoodAt, EmptyAt, PlacedAt, May,
         Opened, Exists, PositionFunc
    <3> QED
      BY <3>1, <3>2
  <2> QED
    BY <1>1, <1>2, <2>1, <2>2 DEF IInv, Numbers, Shrinking, Opened
<1>5. CASE Mix_HaltChannel(c) \/ SoundEnds(c)
  <2>1. Ends(c) /\ UNCHANGED <<spec, num_channels, position_channels, loaded, shrink>>
    BY <1>5 DEF Mix_HaltChannel, SoundEnds
  <2>2. /\ Lists' /\ playing' = playing \ {c}
        /\ \A o \in Owners : effects[o] = <<>> => effects'[o] = <<>>
    BY <1>3, <2>1, EndsKeeps
  <2>3. Numbers'
    BY <1>1, <2>1, <2>2 DEF IInv, Numbers, Opened
  <2>4. Shrinking'
    <3> SUFFICES ASSUME shrink # NoShrink PROVE Shrinking'
      BY <2>1 DEF Shrinking
    <3>1. /\ shrink \in {"unregister", "halt", "resize"} \X (0 .. MaxChannels) \X (0 .. MaxChannels)
          /\ shrink[3] <= shrink[2] /\ shrink[2] <= num_channels
          /\ shrink[1] = "halt" => shrink[2] < num_channels /\ effects[shrink[2]] = <<>>
          /\ shrink[1] = "resize" => shrink[2] = num_channels
          /\ \A d \in shrink[3] .. shrink[2] - 1 : effects[d] = <<>> /\ d \notin playing
      BY DEF IInv, Shrinking
    <3>2. \A d \in 0 .. num_channels - 1 : effects[d] = <<>> => effects'[d] = <<>>
      BY <1>1, <2>2 DEF Owners, Channels
    <3>3. shrink[2] \in Nat /\ shrink[3] \in Nat
      BY <3>1
    <3>4. shrink[1] = "halt" => shrink[2] < num_channels /\ effects'[shrink[2]] = <<>>
      BY <1>1, <3>1, <3>2, <3>3
    <3>5. \A d \in shrink[3] .. shrink[2] - 1 : effects'[d] = <<>> /\ d \notin playing'
      BY <1>1, <2>2, <3>1, <3>2, <3>3
    <3> QED
      BY <2>1, <3>1, <3>4, <3>5 DEF Shrinking
  <2> QED
    BY <2>2, <2>3, <2>4 DEF IInv
<1> QED
  BY <1>4, <1>5

LEMMA AllocateKeeps ==
    ASSUME IInv, NEW n \in 0 .. MaxChannels, Mix_AllocateChannels(n)
    PROVE  IInv'
<1>1. /\ Lists /\ Numbers /\ shrink = NoShrink /\ Opened
      /\ MaxChannels \in Nat /\ num_channels \in Nat /\ num_channels <= MaxChannels
      /\ playing \subseteq 0 .. num_channels - 1 /\ n \in Nat /\ n <= MaxChannels
      /\ n # num_channels
      /\ UNCHANGED <<spec, playing, args, position_channels, loaded, owes, asked>>
  BY EffectsAssumption DEF IInv, Numbers, Mix_AllocateChannels, AppFree
<1>2. CASE n > num_channels
  <2>1. /\ num_channels' = n /\ shrink' = shrink
        /\ effects' = [o \in Owners |-> IF o \in num_channels .. n - 1 THEN <<>> ELSE effects[o]]
    BY <1>2 DEF Mix_AllocateChannels
  <2>2. \A o \in Owners : o \in num_channels .. n - 1 => ~May(o)
    <3>1. \A o \in Owners : o \in Int => o \notin Musics
      BY EffectsAssumption
    <3> QED
      BY <1>1, <3>1 DEF May, Exists, MIX_CHANNEL_POST
  <2>3. \A o \in Owners : effects'[o] = effects[o]
    BY <2>1, <2>2 DEF IInv, Lists, EmptyAt
  <2>4. \A o \in Owners : May(o) => May(o)'
    BY <1>1, <1>2, <2>1 DEF May, Opened, Exists
  <2>5. Shaped'
    BY <1>1, <2>1 DEF Lists, Shaped
  <2>6. Lists'
    BY <1>1, <2>3, <2>4, <2>5 DEF Lists, GoodAt, EmptyAt, PlacedAt, Opened, PositionFunc
  <2> QED
    BY <1>1, <1>2, <2>1, <2>6 DEF IInv, Numbers, Shrinking, Opened
<1>3. CASE ~(n > num_channels)
  <2>1. shrink' = <<"unregister", n, n>> /\ UNCHANGED <<num_channels, effects>>
    BY <1>3 DEF Mix_AllocateChannels
  <2>2. Lists'
    BY <1>1, <2>1 DEF Lists, Shaped, GoodAt, EmptyAt, PlacedAt, May, Opened, Exists, PositionFunc
  <2>3. Shrinking'
    BY <1>1, <1>3, <2>1 DEF Shrinking
  <2> QED
    BY <1>1, <2>1, <2>2, <2>3 DEF IInv, Numbers, Opened
<1> QED
  BY <1>2, <1>3

\* What is known of a reduction of the channels on its way.
LEMMA OnTheWay ==
    ASSUME IInv, shrink # NoShrink
    PROVE  /\ Opened /\ shrink = <<shrink[1], shrink[2], shrink[3]>>
           /\ shrink[2] \in Nat /\ shrink[3] \in Nat /\ num_channels \in Nat /\ MaxChannels \in Nat
           /\ shrink[3] <= shrink[2] /\ shrink[2] <= num_channels /\ num_channels <= MaxChannels
           /\ shrink[1] = "halt" => shrink[2] < num_channels /\ effects[shrink[2]] = <<>>
           /\ shrink[1] = "resize" => shrink[2] = num_channels
           /\ \A c \in shrink[3] .. shrink[2] - 1 : effects[c] = <<>> /\ c \notin playing
<1>1. /\ shrink \in {"unregister", "halt", "resize"} \X (0 .. MaxChannels) \X (0 .. MaxChannels)
      /\ Opened /\ num_channels \in 0 .. MaxChannels /\ MaxChannels \in Nat
  BY EffectsAssumption DEF IInv, Shrinking, Numbers
<1>2. /\ shrink[3] <= shrink[2] /\ shrink[2] <= num_channels
      /\ shrink[1] = "halt" => shrink[2] < num_channels /\ effects[shrink[2]] = <<>>
      /\ shrink[1] = "resize" => shrink[2] = num_channels
      /\ \A c \in shrink[3] .. shrink[2] - 1 : effects[c] = <<>> /\ c \notin playing
  BY DEF IInv, Shrinking
<1>3. /\ shrink = <<shrink[1], shrink[2], shrink[3]>>
      /\ shrink[2] \in 0 .. MaxChannels /\ shrink[3] \in 0 .. MaxChannels
  BY <1>1
<1> QED
  BY <1>1, <1>2, <1>3

LEMMA UnregisterKeeps ==
    ASSUME IInv, ShrinkUnregister
    PROVE  IInv'
<1> DEFINE c == shrink[2]
<1>1. /\ shrink # NoShrink /\ shrink[1] = "unregister"
      /\ UNCHANGED <<spec, num_channels, playing, position_channels, loaded>>
  BY DEF ShrinkUnregister
<1>2. /\ Opened /\ c \in Nat /\ shrink[3] \in Nat /\ num_channels \in Nat /\ MaxChannels \in Nat
      /\ shrink[3] <= c /\ c <= num_channels /\ num_channels <= MaxChannels
      /\ \A d \in shrink[3] .. c - 1 : effects[d] = <<>> /\ d \notin playing
  BY <1>1, OnTheWay
<1>3. Lists /\ Numbers
  BY DEF IInv
<1>4. CASE c < num_channels
  <2>1. _Mix_remove_all_effects(c) /\ shrink' = <<"halt", c, shrink[3]>>
    BY <1>4 DEF ShrinkUnregister
  <2>2. c \in Owners
    BY <1>2, <1>4 DEF Owners, Channels
  <2>3. Lists' /\ effects'[c] = <<>> /\ \A p \in Owners \ {c} : effects'[p] = effects[p]
    BY <1>1, <1>3, <2>1, <2>2, RemoveAllKeeps
  <2>4. \A d \in shrink[3] .. c - 1 : d \in Owners \ {c}
    BY <1>2 DEF Owners, Channels
  <2> HIDE DEF c
  <2>5. <<"halt", c, shrink[3]>> # NoShrink
    BY DEF NoShrink
  <2>6. c \in 0 .. MaxChannels /\ shrink[3] \in 0 .. MaxChannels
    BY <1>2
  <2>7. Shrinking'
    BY <1>1, <1>2, <1>4, <2>1, <2>3, <2>4, <2>6 DEF Shrinking
  <2> QED
    BY <1>1, <1>2, <1>3, <2>3, <2>7 DEF IInv, Numbers, Opened
<1>5. CASE ~(c < num_channels)
  <2>1. shrink' = <<"resize", c, shrink[3]>> /\ UNCHANGED <<effects, args, owes, asked>>
    BY <1>5 DEF ShrinkUnregister
  <2>2. Lists'
    BY <1>1, <1>3, <2>1 DEF Lists, Shaped, GoodAt, EmptyAt, PlacedAt, May, Opened, Exists, PositionFunc
  <2> HIDE DEF c
  <2>3. Shrinking'
    <3>1. c \in 0 .. MaxChannels /\ shrink[3] \in 0 .. MaxChannels /\ c = num_channels
      BY <1>2, <1>5
    <3> QED
      BY <1>1, <1>2, <2>1, <3>1 DEF Shrinking
  <2> QED
    BY <1>1, <1>2, <1>3, <2>2, <2>3 DEF IInv, Numbers, Opened
<1> QED
  BY <1>4, <1>5

LEMMA HaltKeeps ==
    ASSUME IInv, ShrinkHalt
    PROVE  IInv'
<1> DEFINE c == shrink[2]
<1>1. /\ shrink # NoShrink /\ shrink[1] = "halt" /\ Ends(c)
      /\ shrink' = <<"unregister", c + 1, shrink[3]>>
      /\ UNCHANGED <<spec, num_channels, position_channels, loaded>>
  BY DEF ShrinkHalt
<1>2. /\ Opened /\ c \in Nat /\ shrink[3] \in Nat /\ num_channels \in Nat /\ MaxChannels \in Nat
      /\ shrink[3] <= c /\ c < num_channels /\ num_channels <= MaxChannels
      /\ effects[c] = <<>>
      /\ \A d \in shrink[3] .. c - 1 : effects[d] = <<>> /\ d \notin playing
  BY <1>1, OnTheWay
<1>3. c \in Owners
  BY <1>2 DEF Owners, Channels
<1>4. /\ Lists' /\ playing' = playing \ {c}
      /\ \A o \in Owners : effects[o] = <<>> => effects'[o] = <<>>
  BY <1>1, <1>3, EndsKeeps
<1> HIDE DEF c
<1>5. \A d \in shrink[3] .. c : effects'[d] = <<>> /\ d \notin playing'
  <2> SUFFICES ASSUME NEW d \in shrink[3] .. c PROVE effects'[d] = <<>> /\ d \notin playing'
    OBVIOUS
  <2>1. d \in Owners /\ (d = c \/ d \in shrink[3] .. c - 1)
    BY <1>2 DEF Owners, Channels
  <2> QED
    BY <1>2, <1>4, <2>1
<1>6. c + 1 \in 0 .. MaxChannels /\ shrink[3] \in 0 .. MaxChannels /\ c + 1 - 1 = c
  BY <1>2
<1>7. Shrinking'
  BY <1>1, <1>2, <1>5, <1>6 DEF Shrinking
<1>8. Numbers'
  BY <1>1, <1>2, <1>4 DEF IInv, Numbers, Opened
<1> QED
  BY <1>4, <1>7, <1>8 DEF IInv

LEMMA ResizeKeeps ==
    ASSUME IInv, ShrinkResize
    PROVE  IInv'
<1>1. /\ shrink # NoShrink /\ shrink[1] = "resize" /\ shrink' = NoShrink
      /\ num_channels' = shrink[3]
      /\ UNCHANGED <<spec, playing, effects, args, position_channels, loaded, owes, asked>>
  BY DEF ShrinkResize
<1>2. /\ Opened /\ shrink[3] \in Nat /\ num_channels \in Nat /\ MaxChannels \in Nat
      /\ shrink[3] <= num_channels /\ num_channels <= MaxChannels
      /\ \A d \in shrink[3] .. num_channels - 1 : effects[d] = <<>> /\ d \notin playing
  BY <1>1, OnTheWay
<1>3. playing \subseteq 0 .. shrink[3] - 1
  <2> SUFFICES ASSUME NEW d \in playing PROVE d \in 0 .. shrink[3] - 1
    OBVIOUS
  <2>1. d \in 0 .. num_channels - 1
    BY DEF IInv, Numbers
  <2> QED
    BY <1>2, <2>1
<1>4. Lists'
  <2> SUFFICES ASSUME NEW o \in Owners PROVE EmptyAt(o)'
    BY <1>1 DEF IInv, Lists, Shaped, GoodAt, PlacedAt, Opened, PositionFunc
  <2>1. EmptyAt(o)
    BY DEF IInv, Lists
  <2>2. CASE o \in shrink[3] .. num_channels - 1
    BY <1>1, <1>2, <2>2 DEF EmptyAt
  <2>3. CASE o \notin shrink[3] .. num_channels - 1
    BY <1>1, <1>2, <2>1, <2>3 DEF EmptyAt, May, Opened, Exists
  <2> QED
    BY <2>2, <2>3
<1> QED
  BY <1>1, <1>2, <1>3, <1>4 DEF IInv, Numbers, Shrinking, Opened

-----------------------------------------------------------------------------
(* The mixer opens and closes.                                             *)

\* While the mixer is closed and no music is loaded, nobody holds effects.
LEMMA OpenKeeps ==
    ASSUME IInv, NEW s \in Specs, Mix_OpenAudio(s)
    PROVE  IInv'
<1>1. /\ Lists /\ Numbers /\ shrink = NoShrink /\ playing = {} /\ ~Opened /\ loaded = {}
      /\ spec' = s /\ num_channels' = MIX_CHANNELS
      /\ effects' = [o \in Owners |-> IF o \in 0 .. MIX_CHANNELS - 1 THEN <<>> ELSE effects[o]]
      /\ UNCHANGED <<playing, args, position_channels, loaded, shrink, owes, asked>>
  BY DEF Mix_OpenAudio, IInv, Numbers
<1>2. \A o \in Owners : effects[o] = <<>>
  BY <1>1 DEF Lists, EmptyAt, May
<1>3. \A o \in Owners : effects'[o] = effects[o]
  BY <1>1, <1>2
<1>4. \A o \in Owners : EmptyAt(o)' /\ PlacedAt(o)'
  BY <1>2, <1>3, MarksOfNothing DEF EmptyAt, PlacedAt
<1>5. Lists'
  BY <1>1, <1>3, <1>4 DEF Lists, Shaped, GoodAt
<1>6. MIX_CHANNELS \in 0 .. MaxChannels
  BY EffectsAssumption
<1> QED
  BY <1>1, <1>5, <1>6 DEF IInv, Numbers, Shrinking

LEMMA CloseKeeps ==
    ASSUME IInv, Mix_CloseAudio
    PROVE  IInv'
<1> DEFINE gone == (0 .. num_channels - 1) \union {MIX_CHANNEL_POST}
<1>1. /\ Lists /\ Numbers /\ shrink = NoShrink /\ Opened
      /\ spec' = Closed /\ position_channels' = 0 /\ playing' = {}
      /\ effects' = [o \in Owners |-> IF o \in gone THEN <<>> ELSE effects[o]]
      /\ owes' = [o \in Owners |->
                     IF o \in gone THEN owes[o] - Cardinality(Marks(effects[o], "app"))
                     ELSE owes[o]]
      /\ args' = [o \in Owners |-> IF o \in Musics THEN args[o] ELSE NoArgs]
      /\ UNCHANGED <<num_channels, loaded, shrink>>
  BY DEF Mix_CloseAudio, IInv, AppFree, Marks
<1>2. /\ \A m \in Musics : m \notin gone
      /\ \A o \in Owners : o \notin Musics => o \in gone \/ ~May(o)
  <2>1. gone \subseteq Int /\ \A m \in Musics : m \notin Int
    BY <1>1, EffectsAssumption DEF Numbers, MIX_CHANNEL_POST
  <2>2. \A o : Exists(o) => o \in gone
    BY DEF Exists
  <2> QED
    BY <2>1, <2>2 DEF May
<1> HIDE DEF gone
<1>3. \A o \in Owners :
         /\ effects'[o] = IF o \in gone THEN <<>> ELSE effects[o]
         /\ owes'[o] = IF o \in gone THEN owes[o] - Cardinality(Marks(effects[o], "app"))
                       ELSE owes[o]
         /\ args'[o] = IF o \in Musics THEN args[o] ELSE NoArgs
  BY <1>1
<1>4. ~Opened'
  BY <1>1 DEF Opened
<1>5. ASSUME NEW o \in Owners PROVE (GoodAt(o) /\ EmptyAt(o) /\ PlacedAt(o))'
  <2>1. Good(effects[o], owes[o], args[o]) /\ EmptyAt(o)
    BY <1>1 DEF Lists, GoodAt
  <2>2. CASE o \in Musics
    BY <1>1, <1>2, <1>3, <1>4, <2>1, <2>2, OwnersApart
       DEF GoodAt, EmptyAt, May, PlacedAt
  <2>3. CASE o \notin Musics
    <3>1. effects'[o] = <<>>
      BY <1>2, <1>3, <2>1, <2>3 DEF EmptyAt
    <3>2. owes'[o] = 0
      <4>1. owes[o] = Cardinality(Marks(effects[o], "app")) /\ owes[o] \in Nat
        BY <2>1, MarksFinite DEF Good
      <4>2. o \notin gone => owes[o] = 0
        BY <1>2, <2>1, <2>3, <4>1, MarksOfNothing DEF EmptyAt
      <4> QED
        BY <1>3, <4>1, <4>2
    <3>3. args'[o] = NoArgs
      BY <1>3, <2>3
    <3>4. Good(<<>>, 0, NoArgs)
      BY EmptyGood
    <3> QED
      BY <3>1, <3>2, <3>3, <3>4, MarksOfNothing DEF GoodAt, EmptyAt, PlacedAt
  <2> QED
    BY <2>2, <2>3
<1>6. Shaped'
  BY <1>1 DEF Shaped
<1>7. Lists'
  BY <1>5, <1>6 DEF Lists
<1>8. Numbers' /\ Shrinking'
  BY <1>1, EffectsAssumption DEF Numbers, Shrinking
<1> QED
  BY <1>7, <1>8 DEF IInv

-----------------------------------------------------------------------------
(* The invariant and what follows from it.                                 *)

LEMMA Starts == Init => IInv
<1> SUFFICES ASSUME Init PROVE IInv
  OBVIOUS
<1>1. Shaped
  BY DEF Init, Shaped
<1>2. Good(<<>>, 0, NoArgs)
  BY EmptyGood
<1>3. \A o \in Owners : GoodAt(o) /\ EmptyAt(o) /\ PlacedAt(o)
  BY <1>2, MarksOfNothing DEF Init, GoodAt, EmptyAt, PlacedAt
<1> QED
  BY <1>1, <1>3, EffectsAssumption DEF Init, IInv, Lists, Numbers, Shrinking, Opened

LEMMA Keeps ==
    ASSUME Existing, IInv, [Next]_vars
    PROVE  IInv'
<1>1. CASE \E s \in Specs : Mix_OpenAudio(s)
  BY <1>1, OpenKeeps
<1>2. CASE Mix_CloseAudio
  BY <1>2, CloseKeeps
<1>3. CASE \E c \in Touched : OnChannel(c)
  BY <1>3, ChannelKeeps
<1>4. CASE \E m \in Musics : OnMusic(m)
  BY <1>4, MusicKeeps
<1>5. CASE \E c \in Channels \intersect Touched : Mix_PlayChannel(c) \/ Mix_HaltChannel(c) \/ SoundEnds(c)
  BY <1>5, SoundKeeps
<1>6. CASE \E n \in 0 .. MaxChannels : Mix_AllocateChannels(n)
  BY <1>6, AllocateKeeps
<1>7. CASE ShrinkUnregister \/ ShrinkHalt \/ ShrinkResize
  BY <1>7, UnregisterKeeps, HaltKeeps, ResizeKeeps
<1>8. CASE UNCHANGED vars
  BY <1>8 DEF vars, IInv, Lists, Shaped, GoodAt, EmptyAt, PlacedAt, May, Opened, Exists,
     PositionFunc, Numbers, Shrinking
<1> QED
  BY <1>1, <1>2, <1>3, <1>4, <1>5, <1>6, <1>7, <1>8 DEF Next

LEMMA FittingEntries == Fitting \subseteq Entries
<1> SUFFICES ASSUME NEW e \in Fitting PROVE e \in Entries
  OBVIOUS
<1>1. CASE e \in {Effect(<<"app", f>>, "app") : f \in Funcs}
  BY <1>1 DEF Effect, Entries, Callbacks
<1>2. CASE e \in {Effect(<<"reverse", f>>, "none") : f \in Formats}
  BY <1>2 DEF Effect, Entries, Callbacks
<1>3. CASE e \in {Effect(<<"position", s.format, s.channels>>, "position") : s \in Specs}
  BY <1>3 DEF Effect, Entries, Callbacks
<1> QED
  BY <1>1, <1>2, <1>3 DEF Fitting

-----------------------------------------------------------------------------
(* The table of volumes.                                                   *)

TableOK == _Eff_volume_table \in {"none", "u8", "s8"}

\* No block of arguments comes.
ArgsGo == \A p \in Owners : args'[p] \in {args[p], NoArgs}

LEMMA RemovedArgsGo ==
    ASSUME Shaped, NEW o
    PROVE  /\ UNCHANGED args => ArgsGo
           /\ \A gone : RunDone(o, gone) => ArgsGo
           /\ \A callback : _Mix_remove_effect(o, callback) => ArgsGo
           /\ \A callback : _Mix_UnregisterEffect_locked(o, callback) => ArgsGo
           /\ _Mix_remove_all_effects(o) => ArgsGo
<1>1. UNCHANGED args => ArgsGo
  BY DEF ArgsGo
<1>2. ASSUME NEW gone, RunDone(o, gone) PROVE ArgsGo
  <2> DEFINE left == IF {i \in DOMAIN gone : gone[i].done = "position"} # {} THEN NoArgs ELSE args[o]
  <2>1. args' = [args EXCEPT ![o] = left]
    BY <1>2 DEF RunDone
  <2>2. left \in {args[o], NoArgs}
    OBVIOUS
  <2> HIDE DEF left
  <2> QED
    BY <2>1, <2>2 DEF Shaped, ArgsGo
<1>3. ASSUME NEW callback, _Mix_remove_effect(o, callback) PROVE ArgsGo
  BY <1>1, <1>2, <1>3, Zenon DEF _Mix_remove_effect
<1>4. ASSUME NEW callback, _Mix_UnregisterEffect_locked(o, callback) PROVE ArgsGo
  BY <1>1, <1>3, <1>4, Zenon DEF _Mix_UnregisterEffect_locked
<1>5. _Mix_remove_all_effects(o) => ArgsGo
  BY <1>2, Zenon DEF _Mix_remove_all_effects
<1> QED
  BY <1>1, <1>2, <1>3, <1>4, <1>5

\* A call of the three asks for the table; the others leave it, and make no block.
LEMMA CallAsks ==
    ASSUME Shaped, NEW o,
           \/ \E f : Registered(o, f) \/ Unregistered(o, f)
           \/ AllUnregistered(o) \/ \E flip : Reversed(o, flip)
           \/ \E l, r : Panned(o, l, r) \/ Positioned(o, l, r)
           \/ \E d : Distanced(o, d)
    PROVE  spec' = spec /\ (TableAskedFor \/ (UNCHANGED _Eff_volume_table /\ ArgsGo))
<1> DEFINE goal == spec' = spec /\ (TableAskedFor \/ (UNCHANGED _Eff_volume_table /\ ArgsGo))
<1>1. ASSUME NEW f, Registered(o, f) PROVE goal
  BY <1>1, RemovedArgsGo, Zenon DEF Registered
<1>2. ASSUME NEW f, Unregistered(o, f) PROVE goal
  BY <1>2, RemovedArgsGo, Zenon DEF Unregistered
<1>3. AllUnregistered(o) => goal
  BY RemovedArgsGo, Zenon DEF AllUnregistered
<1>4. ASSUME NEW flip, Reversed(o, flip) PROVE goal
  <2>1. spec' = spec /\ UNCHANGED _Eff_volume_table
    BY <1>4, Zenon DEF Reversed
  <2>2. UNCHANGED args \/ _Mix_UnregisterEffect_locked(o, Reverse)
    BY <1>4, Zenon DEF Reversed
  <2> QED
    BY <2>1, <2>2, RemovedArgsGo, Zenon
<1>5. ASSUME NEW l, NEW r, Positioned(o, l, r) PROVE goal
  BY <1>5, Zenon DEF Positioned
<1>6. ASSUME NEW l, NEW r, Panned(o, l, r) PROVE goal
  BY <1>5, <1>6, Zenon DEF Panned
<1>7. ASSUME NEW d, Distanced(o, d) PROVE goal
  BY <1>7, Zenon DEF Distanced
<1> HIDE DEF goal
<1>8. goal
  BY <1>1, <1>2, <1>3, <1>4, <1>5, <1>6, <1>7, Zenon
<1> QED
  BY <1>8 DEF goal

LEMMA TableStep ==
    ASSUME Shaped, [Next]_vars
    PROVE  \/ Opened /\ spec' = spec /\ TableAskedFor
           \/ /\ UNCHANGED _Eff_volume_table /\ ArgsGo
              /\ spec' = spec \/ Mix_CloseAudio \/ \E s \in Specs : Mix_OpenAudio(s)
<1> DEFINE asks == Opened /\ spec' = spec /\ TableAskedFor
           leaves == UNCHANGED _Eff_volume_table /\ ArgsGo
<1>0. UNCHANGED args => ArgsGo
  BY DEF ArgsGo
<1>1. CASE \E s \in Specs : Mix_OpenAudio(s)
  BY <1>0, <1>1, Zenon DEF Mix_OpenAudio
<1>2. CASE Mix_CloseAudio
  <2>1. /\ args' = [o \in Owners |-> IF o \in Musics THEN args[o] ELSE NoArgs]
        /\ UNCHANGED _Eff_volume_table
    BY <1>2 DEF Mix_CloseAudio
  <2>2. ArgsGo
    BY <2>1 DEF ArgsGo
  <2> QED
    BY <1>2, <2>1, <2>2
<1>3. CASE \E c \in Touched : OnChannel(c)
  <2>1. PICK c \in Touched : OnChannel(c)
    BY <1>3
  <2>2. Opened
    BY <2>1, Zenon DEF OnChannel, Mix_RegisterEffect, Mix_UnregisterEffect,
       Mix_UnregisterAllEffects, Mix_SetReverseStereo, Mix_SetPanning, Mix_SetDistance,
       Mix_SetPosition, AppFree
  <2>3. spec' = spec /\ (TableAskedFor \/ leaves)
    BY <2>1, CallAsks, Zenon DEF OnChannel, Mix_RegisterEffect, Mix_UnregisterEffect,
       Mix_UnregisterAllEffects, Mix_SetReverseStereo, Mix_SetPanning, Mix_SetDistance,
       Mix_SetPosition
  <2> QED
    BY <2>2, <2>3
<1>4. CASE \E m \in Musics : OnMusic(m)
  <2>1. PICK m \in Musics : OnMusic(m)
    BY <1>4
  <2>2. CASE Mix_LoadMUS(m)
    BY <2>2 DEF Mix_LoadMUS, Shaped, ArgsGo
  <2>3. CASE Mix_FreeMusic(m)
    BY <2>3, RemovedArgsGo, Zenon DEF Mix_FreeMusic
  <2>4. CASE ~(Mix_LoadMUS(m) \/ Mix_FreeMusic(m))
    <3>1. Opened
      BY <2>1, <2>4, Zenon DEF OnMusic, Mix_RegisterMusicEffect,
         Mix_UnregisterMusicEffect, Mix_UnregisterAllMusicEffects,
         Mix_SetMusicEffectReverseStereo, Mix_SetMusicEffectPanning,
         Mix_SetMusicEffectDistance, Mix_SetMusicEffectPosition, AppFree
    <3>2. spec' = spec /\ (TableAskedFor \/ leaves)
      BY <2>1, <2>4, CallAsks, Zenon DEF OnMusic, Mix_RegisterMusicEffect,
         Mix_UnregisterMusicEffect, Mix_UnregisterAllMusicEffects,
         Mix_SetMusicEffectReverseStereo, Mix_SetMusicEffectPanning,
         Mix_SetMusicEffectDistance, Mix_SetMusicEffectPosition
    <3> QED
      BY <3>1, <3>2
  <2> QED
    BY <2>2, <2>3, <2>4
<1>5. CASE \E c \in Channels \intersect Touched : Mix_PlayChannel(c) \/ Mix_HaltChannel(c) \/ SoundEnds(c)
  <2>1. PICK c : Mix_PlayChannel(c) \/ Mix_HaltChannel(c) \/ SoundEnds(c)
    BY <1>5
  <2>2. /\ UNCHANGED _Eff_volume_table /\ spec' = spec
        /\ _Mix_remove_all_effects(c) \/ UNCHANGED args
    BY <2>1, Zenon DEF Mix_PlayChannel, Mix_HaltChannel, SoundEnds, Ends, DonePlaying
  <2> QED
    BY <2>2, RemovedArgsGo, Zenon
<1>6. CASE \E n \in 0 .. MaxChannels : Mix_AllocateChannels(n)
  BY <1>0, <1>6, Zenon DEF Mix_AllocateChannels
<1>7. CASE ShrinkUnregister \/ ShrinkHalt \/ ShrinkResize
  <2>1. /\ UNCHANGED _Eff_volume_table /\ spec' = spec
        /\ _Mix_remove_all_effects(shrink[2]) \/ UNCHANGED args
    BY <1>7, Zenon DEF ShrinkUnregister, ShrinkHalt, ShrinkResize, Ends, DonePlaying
  <2> QED
    BY <2>1, RemovedArgsGo, Zenon
<1>8. CASE UNCHANGED vars
  BY <1>0, <1>8, Zenon DEF vars
<1> QED
  BY <1>1, <1>2, <1>3, <1>4, <1>5, <1>6, <1>7, <1>8 DEF Next

LEMMA TableIsOne ==
    /\ Init => TableOK
    /\ Shaped /\ TableOK /\ [Next]_vars => TableOK'
<1>1. Init => TableOK
  BY DEF Init, TableOK
<1>2. TableAskedFor /\ TableOK => TableOK'
  BY DEF TableAskedFor, TableOK, _Eff_build_volume_table_u8, _Eff_build_volume_table_s8
<1>3. Shaped /\ TableOK /\ [Next]_vars => TableOK'
  BY <1>2, TableStep DEF TableOK
<1> QED
  BY <1>1, <1>3

LEMMA TypesFollow == ASSUME IInv, TableOK PROVE TypeOK
<1>1. ASSUME NEW o \in Owners
      PROVE  /\ effects[o] \in Seq(Entries) /\ Len(effects[o]) <= MaxEffects
             /\ args[o] \in Blocks \union {NoArgs} /\ owes[o] \in Nat
  <2>1. Good(effects[o], owes[o], args[o])
    BY DEF IInv, Lists, GoodAt
  <2>2. effects[o] \in Seq(Entries)
    <3>1. effects[o] \in Seq(Fitting)
      BY <2>1 DEF Good
    <3>2. \A i \in 1 .. Len(effects[o]) : effects[o][i] \in Entries
      BY <3>1, FittingEntries
    <3> QED
      BY <3>1, <3>2
  <2>3. owes[o] \in Nat
    BY <2>1, MarksFinite DEF Good
  <2> QED
    BY <2>1, <2>2, <2>3 DEF Good
<1>2. Shaped
  BY DEF IInv, Lists
<1>3. /\ effects \in [Owners -> Seq(Entries)] /\ args \in [Owners -> Blocks \union {NoArgs}]
      /\ owes \in [Owners -> Nat]
  BY <1>1, <1>2 DEF Shaped
<1> QED
  BY <1>1, <1>3 DEF IInv, Numbers, Shrinking, TypeOK, TableOK

\* Whichever way an effect goes - unregistered, its sound ended, its channel or
\* music gone, the mixer closed - its done callback is run, and run once
\* (_Mix_remove_effect, _Mix_remove_all_effects of mixer.c), for an application
\* that names only channels that exist.
THEOREM DoneOnce ==
    ASSUME Existing
    PROVE  Spec => []DoneOncePerEffect
<1>1. Init => IInv /\ TableOK
  BY Starts, TableIsOne
<1>2. IInv /\ TableOK /\ [Next]_vars => IInv' /\ TableOK'
  BY Keeps, TableIsOne DEF IInv, Lists
<1>3. ASSUME IInv, TableOK PROVE DoneOncePerEffect
  <2>1. \A o \in Owners : owes[o] = Cardinality(Listed(o, "app"))
    BY <1>3 DEF IInv, Lists, GoodAt, Good, Listed, Marks
  <2>2. \A o \in Owners : ~May(o) => effects[o] = <<>>
    BY <1>3 DEF IInv, Lists, EmptyAt
  <2>3. \A c \in Channels \union {MIX_CHANNEL_POST} : c \in Owners /\ c \notin Musics
    BY <1>3, OwnersApart, EffectsAssumption DEF IInv, MIX_CHANNEL_POST
  <2>4. \A c \in Channels : c \notin 0 .. num_channels - 1 => ~May(c)
    BY <1>3, <2>3, OwnersApart DEF IInv, May, Exists
  <2>5. \A m \in Musics \ loaded : m \in Owners /\ ~May(m)
    BY DEF Owners, May
  <2>6. ~Opened => \A c \in Channels \union {MIX_CHANNEL_POST} : ~May(c)
    BY <2>3 DEF May
  <2> QED
    BY <1>3, <2>1, <2>2, <2>3, <2>4, <2>5, <2>6, TypesFollow DEF DoneOncePerEffect
<1> QED
  BY <1>1, <1>2, <1>3, PTL DEF Spec

LEMMA InUseFollows == IInv => InUseWhileRegistered
BY DEF IInv, Lists, GoodAt, Good, PlacedAt, Marks, Listed, InUseWhileRegistered

\* A block of arguments is in use exactly while one position effect reads it,
\* made for the output as it is (get_position_arg, _Eff_PositionDone of
\* effect_position.c), for an application that names only channels that exist.
THEOREM BlockInUse ==
    ASSUME Existing
    PROVE  Spec => []InUseWhileRegistered
<1>1. Init => IInv
  BY Starts
<1>2. IInv /\ [Next]_vars => IInv'
  BY Keeps
<1>3. IInv => InUseWhileRegistered
  BY InUseFollows
<1> QED
  BY <1>1, <1>2, <1>3, PTL DEF Spec
=============================================================================
