----------------------------- MODULE HeardProofs -----------------------------
(***************************************************************************)
(* What the effects make of the sound, for every angle, distance, volume    *)
(* and format: the speakers get what was asked for, and the arithmetic on   *)
(* samples is exact.                                                       *)
(*                                                                         *)
(* The first needs a second invariant on top of that of EffectsProofs: that *)
(* the argument block of each owner is the one for what was last asked of   *)
(* it (Hearing).  The second is about tables and slopes, and needs of the   *)
(* state that the table is filled before anybody reads it (TableHere).      *)
(***************************************************************************)
EXTENDS EffectsProofs

-----------------------------------------------------------------------------
(* What the position effect makes of a direction: the volumes of the       *)
(* speakers, and the directions that the two front speakers tell from      *)
(* none.                                                                   *)

\* The directions, and full volume.
Angles == 0 .. 359
Full(v) == v = 255

\* Not full volume: below it.
Low(v) == v \in Int /\ v < 255

LEMMA PartLow ==
    ASSUME NEW x \in Int, x <= 178
    PROVE  Low(Part(x, 179))
BY DEF Part, Low

LEMMA PartHigh ==
    ASSUME NEW x \in Int, x >= 1
    PROVE  Low(255 - Part(x, 89))
BY DEF Part, Low

LEMMA LowNotFull ==
    ASSUME NEW v, Low(v)
    PROVE  ~Full(Clamped(v))
BY DEF Clamped, Full, Low

LEMMA AmplitudesKept ==
    ASSUME NEW channels \in {4, 6}, NEW a, NEW room \in Rooms
    PROVE  \A k \in 1 .. 4 : set_amplitudes(channels, a, room)[Turned[room][k]] =
                             Clamped(Surround(a)[k])
<1> DEFINE c == [k \in 1 .. 5 |-> Clamped(Amplitudes(channels, a)[k])]
<1>1. \A k \in 1 .. 4 : c[k] = Clamped(Surround(a)[k])
  BY DEF Amplitudes
<1>2. \A p, q, r, s, t, u :
         LET w == <<p, q, r, s>> \o <<t, u>>
         IN  w[1] = p /\ w[2] = q /\ w[3] = r /\ w[4] = s
  OBVIOUS
<1>3. CASE room = 0
  <2>1. set_amplitudes(channels, a, room) = <<c[1], c[2], c[3], c[4]>> \o <<c[5], 255>>
    BY <1>3 DEF set_amplitudes
  <2>2. Turned[room] = <<1, 2, 3, 4>>
    BY <1>3 DEF Turned, Rooms
  <2> HIDE DEF c
  <2> QED
    BY <1>1, <1>2, <2>1, <2>2
<1>4. CASE room = 90
  <2>1. set_amplitudes(channels, a, room) = <<c[3], c[1], c[4], c[2]>> \o <<c[5], 255>>
    BY <1>4 DEF set_amplitudes
  <2>2. Turned[room] = <<2, 4, 1, 3>>
    BY <1>4 DEF Turned, Rooms
  <2> HIDE DEF c
  <2> QED
    BY <1>1, <1>2, <2>1, <2>2
<1>5. CASE room = 180
  <2>1. set_amplitudes(channels, a, room) = <<c[4], c[3], c[2], c[1]>> \o <<c[5], 255>>
    BY <1>5 DEF set_amplitudes
  <2>2. Turned[room] = <<4, 3, 2, 1>>
    BY <1>5 DEF Turned, Rooms
  <2> HIDE DEF c
  <2> QED
    BY <1>1, <1>2, <2>1, <2>2
<1>6. CASE room = 270
  <2>1. set_amplitudes(channels, a, room) = <<c[2], c[4], c[1], c[3]>> \o <<c[5], 255>>
    BY <1>6 DEF set_amplitudes
  <2>2. Turned[room] = <<3, 1, 4, 2>>
    BY <1>6 DEF Turned, Rooms
  <2> HIDE DEF c
  <2> QED
    BY <1>1, <1>2, <2>1, <2>2
<1> QED
  BY <1>3, <1>4, <1>5, <1>6 DEF Rooms

\* The directions whose distance Mix_SetDistance can take back: 0 is plain, and
\* these are not, though the two speakers it looks at play at full volume.
Aside == {1, 179, 180, 181, 359}
Clear == IF 0 \in Distances THEN Angles \ Aside ELSE Angles

\* Where each speaker is below full volume, on the slopes of its sectors.
Left(a) == 2 <= a /\ a <= 224
Right(a) == 225 <= a /\ a <= 358
RearLeft(a) == 135 <= a /\ a <= 178
RearRight(a) == 182 <= a /\ a <= 269

LEMMA SurroundLow ==
    ASSUME NEW a \in Angles
    PROVE  /\ Left(a) => Low(Surround(a)[1])
           /\ Right(a) => Low(Surround(a)[2])
           /\ RearLeft(a) => Low(Surround(a)[3])
           /\ RearRight(a) => Low(Surround(a)[4])
<1>0. a \in 0 .. 359
  BY DEF Angles
<1>1. CASE a <= 89
  <2>1. Surround(a)[1] = Part(180 - a, 179)
    BY <1>0, <1>1, SMTT(40) DEF Surround
  <2>2. Left(a) => 180 - a \in Int /\ 180 - a <= 178
    BY <1>0 DEF Left
  <2>3. ~Right(a) /\ ~RearLeft(a) /\ ~RearRight(a)
    BY <1>0, <1>1 DEF Right, RearLeft, RearRight
  <2> QED
    BY <2>1, <2>2, <2>3, PartLow
<1>2. CASE 90 <= a /\ a <= 134
  <2>1. Surround(a)[1] = 255 - Part(a - 45, 89)
    BY <1>0, <1>2, SMTT(40) DEF Surround
  <2>2. a - 45 \in Int /\ a - 45 >= 1
    BY <1>0, <1>2
  <2>3. ~Right(a) /\ ~RearLeft(a) /\ ~RearRight(a)
    BY <1>0, <1>2 DEF Right, RearLeft, RearRight
  <2> QED
    BY <2>1, <2>2, <2>3, PartHigh
<1>3. CASE 135 <= a /\ a <= 179
  <2>1. Surround(a)[1] = 255 - Part(225 - a, 89) /\ Surround(a)[3] = Part(a, 179)
    BY <1>0, <1>3, SMTT(40) DEF Surround
  <2>2. 225 - a \in Int /\ 225 - a >= 1 /\ a \in Int /\ (RearLeft(a) => a <= 178)
    BY <1>0, <1>3 DEF RearLeft
  <2>3. ~Right(a) /\ ~RearRight(a)
    BY <1>0, <1>3 DEF Right, RearRight
  <2> QED
    BY <2>1, <2>2, <2>3, PartLow, PartHigh
<1>4. CASE 180 <= a /\ a <= 224
  <2>1. Surround(a)[1] = Part(a - 90, 179) /\ Surround(a)[4] = Part(360 - a, 179)
    BY <1>0, <1>4, SMTT(40) DEF Surround
  <2>2. /\ a - 90 \in Int /\ a - 90 <= 178
        /\ RearRight(a) => 360 - a \in Int /\ 360 - a <= 178
    BY <1>0, <1>4 DEF RearRight
  <2>3. ~Right(a) /\ ~RearLeft(a)
    BY <1>0, <1>4 DEF Right, RearLeft
  <2> QED
    BY <2>1, <2>2, <2>3, PartLow
<1>5. CASE 225 <= a /\ a <= 269
  <2>1. Surround(a)[2] = 255 - Part(315 - a, 89) /\ Surround(a)[4] = Part(360 - a, 179)
    BY <1>0, <1>5, SMTT(40) DEF Surround
  <2>2. /\ 315 - a \in Int /\ 315 - a >= 1
        /\ 360 - a \in Int /\ 360 - a <= 178
    BY <1>0, <1>5
  <2>3. ~Left(a) /\ ~RearLeft(a)
    BY <1>0, <1>5 DEF Left, RearLeft
  <2> QED
    BY <2>1, <2>2, <2>3, PartLow, PartHigh
<1>6. CASE 270 <= a
  <2>1. Surround(a)[2] = Part(a - 180, 179)
    BY <1>0, <1>6, SMTT(40) DEF Surround
  <2>2. Right(a) => a - 180 \in Int /\ a - 180 <= 178
    BY <1>0 DEF Right
  <2>3. ~Left(a) /\ ~RearLeft(a) /\ ~RearRight(a)
    BY <1>0, <1>6 DEF Left, RearLeft, RearRight
  <2> QED
    BY <2>1, <2>2, <2>3, PartLow
<1> QED
  BY <1>0, <1>1, <1>2, <1>3, <1>4, <1>5, <1>6

\* Of a direction with a turned room, a front speaker is not at full volume.
LEMMA TurnedIsHeard ==
    ASSUME NEW channels \in {4, 6}, NEW a \in Angles, RoomAngle(channels, a) # 0
    PROVE  ~(Full(Clamped(Surround(a)[1])) /\ Full(Clamped(Surround(a)[2])))
<1>1. Left(a) \/ Right(a)
  <2>1. a \in 0 .. 359
    BY DEF Angles
  <2> QED
    BY <2>1 DEF RoomAngle, Left, Right
<1> QED
  BY <1>1, SurroundLow, LowNotFull, Zenon

\* Of any other but 0, one of the two speakers that are kept first is not.
LEMMA ClearIsHeard ==
    ASSUME NEW channels \in {4, 6}, NEW a \in Angles, a \notin Aside, a # 0
    PROVE  LET s == set_amplitudes(channels, a, RoomAngle(channels, a))
           IN  ~(Full(s[1]) /\ Full(s[2]))
<1> DEFINE room == RoomAngle(channels, a)
           s == set_amplitudes(channels, a, room)
           c(k) == Clamped(Surround(a)[k])
<1>0. a \in 0 .. 359 /\ a \in 1 .. 359 /\ a \in Int
  BY DEF Angles
<1>1. room \in Rooms /\ \A k \in 1 .. 4 : s[Turned[room][k]] = c(k)
  <2>1. room \in Rooms
    BY DEF RoomAngle, Rooms
  <2> QED
    BY <2>1, AmplitudesKept
<1>2. /\ Turned[0] = <<1, 2, 3, 4>> /\ Turned[90] = <<2, 4, 1, 3>>
      /\ Turned[180] = <<4, 3, 2, 1>> /\ Turned[270] = <<3, 1, 4, 2>>
  BY DEF Turned, Rooms
<1>3. /\ 1 <= a /\ a <= 45 => room = 0
      /\ 316 <= a /\ a <= 359 => room = 0
      /\ 46 <= a /\ a <= 135 => room = 90
      /\ 136 <= a /\ a <= 225 => room = 180
      /\ 226 <= a /\ a <= 315 => room = 270
  BY <1>0 DEF RoomAngle
<1> SUFFICES ~(Full(s[1]) /\ Full(s[2]))
  OBVIOUS
<1> HIDE DEF s, room
<1>4. /\ room = 0 => s[1] = c(1) /\ s[2] = c(2)
      /\ room = 90 => s[1] = c(3) /\ s[2] = c(1)
      /\ room = 180 => s[1] = c(4) /\ s[2] = c(3)
      /\ room = 270 => s[1] = c(2) /\ s[2] = c(4)
  BY <1>1, <1>2
<1>5. \/ (room = 0 \/ room = 90) /\ Left(a)
      \/ (room = 0 \/ room = 270) /\ Right(a)
      \/ room = 180 /\ (RearLeft(a) \/ RearRight(a))
      \/ room = 270 /\ RearRight(a)
  BY <1>0, <1>3 DEF Aside, Left, Right, RearLeft, RearRight
<1>6. /\ Left(a) => ~Full(c(1))
      /\ Right(a) => ~Full(c(2))
      /\ RearLeft(a) => ~Full(c(3))
      /\ RearRight(a) => ~Full(c(4))
  BY SurroundLow, LowNotFull, Zenon
<1> QED
  BY <1>4, <1>5, <1>6

-----------------------------------------------------------------------------
(* The invariant of what is heard: the argument block of an owner is the   *)
(* one for what was last asked of it. Here for the steps that take the     *)
(* position effect away, and for Mix_SetPosition.                          *)

\* The volumes of two speakers.
Two(amps) == \E l, r \in Bytes : amps = <<l, r, 255, 255, 255, 255>>

\* Speakers that get their own samples, at the volumes asked for.
Straight(channels, block, want) ==
    /\ block.room = 0 /\ block.amps = want.amps
    /\ IF channels = 2 THEN Two(want.amps) ELSE want.amps = Plain.amps

\* Speakers that get the samples of others, as the room is turned.
Directed(channels, block, want) ==
    /\ channels \in {4, 6}
    /\ \E a \in Clear : /\ block.room = RoomAngle(channels, a)
                        /\ block.amps = set_amplitudes(channels, a, block.room)
                        /\ want.amps = set_amplitudes(channels, a, 0)

\* A block is for what was asked.
Suits(channels, block, want) ==
    /\ channels \in {1, 2, 4, 6}
    /\ want = [amps |-> want.amps, distance |-> block.distance]
    /\ Straight(channels, block, want) \/ Directed(channels, block, want)

Unused == {NoArgs, NewArgs}

AskedAt(o) ==
    \/ args[o] \in Unused /\ asked[o] = Plain
    \/ /\ args[o] # NoArgs /\ args[o].in_use
       /\ Opened => Suits(spec.channels, args[o], asked[o])

Hearing ==
    /\ asked = [o \in Owners |-> asked[o]]
    /\ \A o \in Owners : AskedAt(o)

LEMMA SameHeard ==
    ASSUME Hearing, spec' = spec, UNCHANGED <<args, asked>>
    PROVE  Hearing'
BY DEF Hearing, AskedAt, Opened

LEMMA OneHeard ==
    ASSUME Hearing, spec' = spec, NEW o \in Owners, NEW new,
           \A p \in Owners \ {o} : args'[p] = args[p],
           asked' = [asked EXCEPT ![o] = new],
           asked'[o] = new => AskedAt(o)'
    PROVE  Hearing'
<1>1. asked'[o] = new /\ asked' = [p \in Owners |-> asked'[p]]
      /\ \A p \in Owners \ {o} : asked'[p] = asked[p]
  BY DEF Hearing
<1>2. ASSUME NEW p \in Owners, p # o PROVE AskedAt(p)'
  BY <1>1, <1>2 DEF Hearing, AskedAt, Opened
<1> QED
  BY <1>1, <1>2 DEF Hearing

LEMMA NewArgsType == NewArgs \in Blocks /\ ~NewArgs.in_use /\ NewArgs # NoArgs
<1>1. NewArgs \in Blocks /\ ~NewArgs.in_use
  BY DEF NewArgs, Plain, Blocks, Bytes, Rooms
<1> QED
  BY <1>1, NoArgsAssumption

LEMMA AllGoneHeard ==
    ASSUME IInv, Hearing, NEW o \in Owners, _Mix_remove_all_effects(o), spec' = spec
    PROVE  Hearing'
<1>1. Lists /\ Shaped
  BY DEF IInv, Lists
<1>2. Sparing(o) /\ GoodAt(o)' /\ effects'[o] = <<>>
  BY <1>1, RunsAll
<1>3. args'[o] \in {NoArgs, args[o]}
  BY <1>1 DEF _Mix_remove_all_effects, RunDone, Shaped
<1>4. args'[o] # NoArgs => ~args'[o].in_use
  BY <1>2, MarksOfNothing DEF GoodAt, Good
<1>5. args'[o] \in Unused
  <2>1. AskedAt(o)
    BY DEF Hearing
  <2> QED
    BY <1>3, <1>4, <2>1 DEF AskedAt, Unused
<1>6. asked' = [asked EXCEPT ![o] = Plain]
  BY DEF _Mix_remove_all_effects
<1> QED
  BY <1>2, <1>5, <1>6, OneHeard DEF AskedAt, Sparing

LEMMA RunsBlock ==
    ASSUME Lists, NEW o \in Owners, NEW callback, NEW done, Has(o, callback),
           \A e \in Fitting : e.callback = callback => e.done = done,
           _Mix_remove_effect(o, callback)
    PROVE  args' = [args EXCEPT ![o] = IF done = "position" THEN NoArgs ELSE @]
<1> DEFINE i == First(effects[o], callback)
           x == effects[o][i]
<1>1. effects[o] \in Seq(Fitting)
  BY DEF Lists, GoodAt, Good
<1>2. i \in 1 .. Len(effects[o]) /\ x.callback = callback
  BY <1>1, FirstFound DEF Has
<1>3. x \in Fitting
  BY <1>1, <1>2
<1>4. x.done = done
  BY <1>2, <1>3
<1>5. RunDone(o, <<x>>)
  BY DEF _Mix_remove_effect
<1> HIDE DEF i, x
<1>6. {j \in DOMAIN <<x>> : <<x>>[j].done = "position"} = {} <=> x.done # "position"
  <2>1. DOMAIN <<x>> = {1} /\ <<x>>[1] = x
    OBVIOUS
  <2> QED
    BY <2>1
<1> QED
  BY <1>4, <1>5, <1>6 DEF RunDone

LEMMA OtherGoneHeard ==
    ASSUME IInv, Hearing, NEW o \in Owners, NEW callback, NEW done, done # "position",
           \A e \in Fitting : e.callback = callback => e.done = done,
           _Mix_remove_effect(o, callback), asked' = asked, spec' = spec
    PROVE  Hearing'
<1>1. Lists /\ Shaped
  BY DEF IInv, Lists
<1>2. CASE Has(o, callback)
  <2>1. args' = [args EXCEPT ![o] = @]
    BY <1>1, <1>2, RunsBlock
  <2>2. args' = args
    BY <1>1, <2>1 DEF Shaped
  <2> QED
    BY <2>2, SameHeard
<1>3. CASE ~Has(o, callback)
  BY <1>3, SameHeard DEF _Mix_remove_effect
<1> QED
  BY <1>2, <1>3

LEMMA PlaceHeard ==
    ASSUME IInv, Hearing, NEW o \in Owners, May(o), Opened, spec' = spec,
           PositionFunc # NoFunc, NEW neutral \in BOOLEAN, NEW block \in Blocks,
           Place(o, neutral, block), NEW new, Asks(o, new),
           neutral => new = Plain,
           ~neutral => Suits(spec.channels, block, new)
    PROVE  Hearing'
<1> DEFINE old == BlockFor(o)
           f == PositionFunc
<1>1. Lists /\ Numbers /\ Shaped
  BY DEF IInv, Lists
<1>2. /\ old = IF args[o] = NoArgs THEN NewArgs ELSE args[o]
      /\ old.in_use <=> Marks(effects[o], "position") # {}
      /\ old.in_use => old = args[o]
  BY BlockOfOwner
<1>3. BlockOf(o) = o
  BY <1>1, OwnersApart
<1>4. asked' = [asked EXCEPT ![o] = new]
  BY DEF Asks, May
<1>5. f = <<"position", spec.format, spec.channels>>
  BY DEF PositionFunc, get_position_effect_func
<1> HIDE DEF old, f
<1>6. CASE neutral /\ old.in_use
  <2>1. _Mix_remove_effect(o, f)
    BY <1>6 DEF Place, _Mix_UnregisterEffect_locked, May, old, f
  <2>2. \A x \in Fitting : x.callback = f => x.done = "position"
    BY <1>5, DoneGoesWith
  <2>3. Has(o, f)
    <3>1. PICK i \in Marks(effects[o], "position") : TRUE
      BY <1>2, <1>6
    <3>2. PlacedAt(o)
      BY <1>1 DEF Lists
    <3> QED
      BY <3>1, <3>2 DEF PlacedAt, Has, Marks, f
  <2>4. args' = [args EXCEPT ![o] = NoArgs]
    BY <1>1, <2>1, <2>2, <2>3, RunsBlock
  <2>5. args'[o] = NoArgs /\ \A p \in Owners \ {o} : args'[p] = args[p]
    BY <1>1, <2>4 DEF Shaped
  <2> QED
    BY <1>4, <1>6, <2>5, OneHeard DEF AskedAt, Unused
<1>7. CASE neutral /\ ~old.in_use
  <2>1. args' = [args EXCEPT ![o] = old]
    BY <1>3, <1>7 DEF Place, old
  <2>2. args'[o] = old /\ \A p \in Owners \ {o} : args'[p] = args[p]
    BY <1>1, <2>1 DEF Shaped
  <2>3. old \in Unused
    <3>1. AskedAt(o)
      BY DEF Hearing
    <3> QED
      BY <1>2, <1>7, <3>1 DEF AskedAt, Unused
  <2> QED
    BY <1>4, <1>7, <2>2, <2>3, OneHeard DEF AskedAt
<1>8. CASE ~neutral
  <2> DEFINE b == [block EXCEPT !.in_use = TRUE]
  <2>1. /\ b \in Blocks /\ b.in_use /\ b # NoArgs
        /\ b.amps = block.amps /\ b.room = block.room /\ b.distance = block.distance
    BY NoArgsAssumption DEF Blocks
  <2>2. args' = [args EXCEPT ![o] = b]
    BY <1>3, <1>8 DEF Place
  <2> HIDE DEF b
  <2>3. args'[o] = b /\ \A p \in Owners \ {o} : args'[p] = args[p]
    BY <1>1, <2>2 DEF Shaped
  <2>4. Suits(spec.channels, b, new)
    BY <1>8, <2>1 DEF Suits, Straight, Directed
  <2> QED
    BY <1>4, <2>1, <2>3, <2>4, OneHeard DEF AskedAt
<1> QED
  BY <1>6, <1>7, <1>8

-----------------------------------------------------------------------------
(* The volumes of one and two speakers, which Mix_SetPanning sets.         *)

LEMMA FullFront ==
    ASSUME NEW channels \in {1, 2, 4, 6}
    PROVE  set_amplitudes(channels, 0, 0)[1] = 255 /\ set_amplitudes(channels, 0, 0)[2] = 255
<1> DEFINE c == [k \in 1 .. 5 |-> Clamped(Amplitudes(channels, 0)[k])]
<1>1. c[1] = 255 /\ c[2] = 255
  <2>1. CASE channels = 1
    BY <2>1 DEF Amplitudes, Clamped
  <2>2. CASE channels = 2
    BY <2>2 DEF Amplitudes, Clamped, Stereo, Part
  <2>3. CASE channels \in {4, 6}
    <3>1. Surround(0)[1] = Part(180 - 0, 179) /\ Surround(0)[2] = 255
      BY DEF Surround
    <3> QED
      BY <2>3, <3>1 DEF Amplitudes, Clamped, Part
  <2> QED
    BY <2>1, <2>2, <2>3
<1>2. set_amplitudes(channels, 0, 0) = <<c[1], c[2], c[3], c[4]>> \o <<c[5], 255>>
  BY DEF set_amplitudes
<1> HIDE DEF c
<1> QED
  BY <1>1, <1>2

LEMMA SixInARow ==
    ASSUME NEW p, NEW q, NEW r, NEW s, NEW t, NEW u
    PROVE  <<p, q, r, s>> \o <<t, u>> = <<p, q, r, s, t, u>>
<1> DEFINE S == {p, q, r, s, t, u}
           v == <<p, q, r, s>> \o <<t, u>>
           w == <<p, q, r, s, t, u>>
<1>1. v \in Seq(S) /\ Len(v) = 6 /\ w \in Seq(S) /\ Len(w) = 6
  OBVIOUS
<1>2. v[1] = w[1] /\ v[2] = w[2] /\ v[3] = w[3] /\ v[4] = w[4] /\ v[5] = w[5] /\ v[6] = w[6]
  OBVIOUS
<1> HIDE DEF v, w, S
<1>3. \A i \in 1 .. 6 : v[i] = w[i]
  BY <1>2
<1>4. v = w
  BY <1>1, <1>3, SeqEqual
<1> QED
  BY <1>4 DEF v, w

LEMMA MonoKept ==
    ASSUME NEW a
    PROVE  set_amplitudes(1, a, 0) = Plain.amps
<1> DEFINE c == [k \in 1 .. 5 |-> Clamped(Amplitudes(1, a)[k])]
<1>1. c[1] = 255 /\ c[2] = 255 /\ c[3] = 255 /\ c[4] = 255 /\ c[5] = 255
  BY DEF Amplitudes, Clamped
<1>2. set_amplitudes(1, a, 0) = <<c[1], c[2], c[3], c[4]>> \o <<c[5], 255>>
  BY DEF set_amplitudes
<1> HIDE DEF c
<1>3. <<255, 255, 255, 255>> \o <<255, 255>> = <<255, 255, 255, 255, 255, 255>>
  BY SixInARow
<1> QED
  BY <1>1, <1>2, <1>3 DEF Plain

LEMMA StereoKept ==
    ASSUME NEW a \in Angles
    PROVE  Two(set_amplitudes(2, a, 0))
<1>0. a \in 0 .. 359
  BY DEF Angles
<1> DEFINE c == [k \in 1 .. 5 |-> Clamped(Amplitudes(2, a)[k])]
<1>1. c[3] = 255 /\ c[4] = 255 /\ c[5] = 255
  <2>1. Stereo(a)[3] = 255 /\ Stereo(a)[4] = 255 /\ Stereo(a)[5] = 255
    <3>1. CASE a < 90
      BY <1>0, <3>1 DEF Stereo
    <3>2. CASE a \in 90 .. 179
      BY <1>0, <3>2 DEF Stereo
    <3>3. CASE a \in 180 .. 269
      BY <1>0, <3>3 DEF Stereo
    <3>4. CASE a >= 270
      BY <1>0, <3>4 DEF Stereo
    <3> QED
      BY <1>0, <3>1, <3>2, <3>3, <3>4
  <2> QED
    BY <2>1 DEF Amplitudes, Clamped
<1>2. c[1] \in Bytes /\ c[2] \in Bytes
  <2>1. \A k \in 1 .. 5 : Amplitudes(2, a)[k] \in Int
    BY <1>0, AmplitudesAreInts
  <2> QED
    BY <2>1, ClampedIsByte
<1>3. set_amplitudes(2, a, 0) = <<c[1], c[2], c[3], c[4]>> \o <<c[5], 255>>
  BY DEF set_amplitudes
<1> HIDE DEF c
<1>4. \A l, r : <<l, r, 255, 255>> \o <<255, 255>> = <<l, r, 255, 255, 255, 255>>
  BY SixInARow
<1> QED
  BY <1>1, <1>2, <1>3, <1>4 DEF Two

LEMMA FuncIsThere ==
    ASSUME PositionFunc # NoFunc
    PROVE  spec.channels \in {1, 2, 4, 6}
BY DEF PositionFunc, get_position_effect_func

LEMMA PositionedHears ==
    ASSUME IInv, Hearing, NEW o \in Owners, May(o), Opened,
           NEW angle \in Int, NEW distance \in Bytes,
           spec.channels \in {4, 6} => Normal(angle) \in Clear,
           Positioned(o, angle, distance)
    PROVE  Hearing'
<1> DEFINE n == spec.channels
           a == Normal(angle)
           room == RoomAngle(n, a)
           block == [BlockFor(o) EXCEPT !.amps = set_amplitudes(n, a, room),
                                        !.distance = 255 - distance, !.room = room]
           here == [amps |-> set_amplitudes(n, a, 0), distance |-> 255 - distance]
           neutral == distance = 0 /\ a = 0
<1>1. /\ PositionFunc # NoFunc /\ spec' = spec
      /\ Place(o, neutral, block)
      /\ Asks(o, IF neutral THEN Plain ELSE here)
  BY DEF Positioned
<1>2. n \in {1, 2, 4, 6}
  BY <1>1, FuncIsThere
<1>3. a \in 0 .. 359 /\ room \in Rooms
  BY DEF Normal, RoomAngle, Rooms
<1>4. /\ block \in Blocks /\ block.distance = here.distance /\ block.room = room
      /\ block.amps = set_amplitudes(n, a, room)
  <2> HIDE DEF a, room, n
  <2>2. set_amplitudes(n, a, room) \in [1 .. 6 -> Bytes]
    BY <1>3, AmplitudesAreBytes
  <2>3. 255 - distance \in Bytes
    BY DEF Bytes
  <2>4. BlockFor(o) \in Blocks
    BY BlockOfOwner
  <2> QED
    BY <1>3, <2>2, <2>3, <2>4, ZenonT(30) DEF Blocks
<1>5. here.amps = set_amplitudes(n, a, 0) /\ here = [amps |-> here.amps, distance |-> here.distance]
  OBVIOUS
<1>6. n \notin {4, 6} => room = 0
  BY DEF RoomAngle
<1>7. n \in {4, 6} => a \in Clear /\ room = RoomAngle(n, a)
  OBVIOUS
<1> HIDE DEF a, room, block, here, n
<1>8. here = [amps |-> here.amps, distance |-> block.distance]
  BY <1>4, <1>5
<1>12. Suits(n, block, here)
  <2>1. CASE n = 1
    <3>1. here.amps = Plain.amps /\ block.amps = here.amps /\ block.room = 0 /\ n # 2
      BY <1>4, <1>5, <1>6, <2>1, MonoKept
    <3>2. Straight(n, block, here)
      BY <3>1, Zenon DEF Straight
    <3> QED
      BY <1>2, <1>8, <3>2, Zenon DEF Suits
  <2>2. CASE n = 2
    <3>1. block.amps = here.amps /\ block.room = 0
      BY <1>4, <1>5, <1>6, <2>2
    <3>2. Two(here.amps)
      <4>1. a \in Angles
        BY <1>3 DEF Angles
      <4>2. here.amps = set_amplitudes(2, a, 0)
        BY <1>5, <2>2
      <4> QED
        BY <4>1, <4>2, StereoKept
    <3>3. Straight(n, block, here)
      BY <2>2, <3>1, <3>2, Zenon DEF Straight
    <3> QED
      BY <1>2, <1>8, <3>3, Zenon DEF Suits
  <2>3. CASE n \in {4, 6}
    BY <1>2, <1>4, <1>5, <1>7, <1>8, <2>3 DEF Suits, Directed
  <2> QED
    BY <1>2, <2>1, <2>2, <2>3
<1>9. CASE neutral
  <2>1. Place(o, TRUE, block) /\ Asks(o, Plain)
    BY <1>1, <1>9
  <2> QED
    BY <1>1, <1>4, <2>1, PlaceHeard, ZenonT(60)
<1>10. CASE ~neutral
  <2>1. Place(o, FALSE, block) /\ Asks(o, here)
    BY <1>1, <1>10
  <2> QED
    BY <1>1, <1>4, <1>12, <2>1, PlaceHeard, ZenonT(60) DEF n
<1> QED
  BY <1>9, <1>10

-----------------------------------------------------------------------------
(* Mix_SetPanning and Mix_SetDistance.                                     *)

LEMMA OldSuits ==
    ASSUME IInv, Hearing, NEW o \in Owners, Opened, spec.channels \in {1, 2, 4, 6}
    PROVE  Suits(spec.channels, BlockFor(o), asked[o])
<1>1. AskedAt(o) /\ BlockFor(o) = IF args[o] = NoArgs THEN NewArgs ELSE args[o]
  BY BlockOfOwner DEF Hearing
<1>2. CASE args[o] \in Unused /\ asked[o] = Plain
  <2>1. BlockFor(o) = NewArgs
    BY <1>1, <1>2 DEF Unused
  <2>2. Two(Plain.amps)
    <3>1. Plain.amps = <<255, 255, 255, 255, 255, 255>> /\ 255 \in Bytes
      BY DEF Plain, Bytes
    <3> QED
      BY <3>1 DEF Two
  <2>3. NewArgs.room = 0 /\ NewArgs.amps = Plain.amps /\ NewArgs.distance = 255
    BY DEF NewArgs
  <2>4. Plain = [amps |-> Plain.amps, distance |-> NewArgs.distance]
    BY <2>3 DEF Plain
  <2>5. Straight(spec.channels, NewArgs, Plain)
    BY <2>2, <2>3, Zenon DEF Straight
  <2> QED
    BY <1>2, <2>1, <2>4, <2>5, Zenon DEF Suits
<1>3. CASE ~(args[o] \in Unused /\ asked[o] = Plain)
  BY <1>1, <1>3 DEF AskedAt
<1> QED
  BY <1>2, <1>3

LEMMA TurnedTwo ==
    ASSUME NEW l, NEW r, NEW p, NEW q
    PROVE  [<<p, q, 255, 255, 255, 255>> EXCEPT ![1] = l, ![2] = r]
              = <<l, r, 255, 255, 255, 255>>
OBVIOUS

LEMMA PannedHears ==
    ASSUME IInv, Hearing, NEW o \in Owners, May(o), Opened,
           NEW left \in Bytes, NEW right \in Bytes,
           spec.channels \in {4, 6} => Normal(PanAngle(left, right)) \in Clear,
           Panned(o, left, right)
    PROVE  Hearing'
<1>1. CASE spec.channels \in {4, 6} /\ Positioned(o, PanAngle(left, right), 0)
  <2>1. PanAngle(left, right) \in Int /\ 0 \in Bytes
    BY DEF PanAngle, Quotient, Bytes
  <2> QED
    BY <1>1, <2>1, PositionedHears
<1>2. CASE ~(spec.channels \in {4, 6} /\ Positioned(o, PanAngle(left, right), 0))
  <2> DEFINE old == BlockFor(o)
             here == asked[o]
             block == [old EXCEPT !.amps[1] = left, !.amps[2] = right, !.room = 0]
             neutral == old.distance = 255 /\ left = 255 /\ right = 255
             both == <<left, right, 255, 255, 255, 255>>
             new == [here EXCEPT !.amps = both]
  <2>1. BlockOf(o) = o
    BY OwnersApart DEF IInv
  <2>2. /\ spec.channels = 2 /\ Place(o, neutral, block) /\ Asks(o, new) /\ spec' = spec
    BY <1>2, <2>1 DEF Panned
  <2>3. PositionFunc # NoFunc
    BY <2>2 DEF PositionFunc, NoFunc, get_position_effect_func
  <2>4. Suits(2, old, here)
    BY <2>2, OldSuits
  <2>5. old \in Blocks
    BY BlockOfOwner
  <2> HIDE DEF old, here
  <2>6. /\ here = [amps |-> here.amps, distance |-> old.distance]
        /\ old.amps = here.amps
    BY <2>4 DEF Suits, Straight, Directed
  <2>7. PICK p, q \in Bytes : old.amps = <<p, q, 255, 255, 255, 255>>
    BY <2>4 DEF Suits, Straight, Directed, Two
  <2>8. /\ block \in Blocks /\ block.room = 0 /\ block.distance = old.distance
        /\ block.amps = [old.amps EXCEPT ![1] = left, ![2] = right]
    BY <2>5 DEF Blocks, Rooms
  <2>9. block.amps = both
    BY <2>7, <2>8, TurnedTwo
  <2>10. new.amps = both /\ new = [amps |-> new.amps, distance |-> old.distance]
    BY <2>6
  <2>11. neutral => new = Plain
    BY <2>10 DEF Plain
  <2> HIDE DEF block, new, both
  <2>12. Suits(2, block, new)
    <3>1. Two(new.amps)
      BY <2>10 DEF both, Two
    <3>2. Straight(2, block, new)
      BY <2>8, <2>9, <2>10, <3>1 DEF Straight
    <3> QED
      BY <2>8, <2>10, <3>2 DEF Suits
  <2>13. CASE neutral
    <3>1. Place(o, TRUE, block) /\ Asks(o, Plain)
      BY <2>2, <2>11, <2>13
    <3> QED
      BY <2>2, <2>3, <2>8, <3>1, PlaceHeard, ZenonT(60)
  <2>14. CASE ~neutral
    <3>1. Place(o, FALSE, block)
      BY <2>2, <2>14
    <3> QED
      BY <2>2, <2>3, <2>8, <2>12, <3>1, PlaceHeard, ZenonT(60)
  <2> QED
    BY <2>13, <2>14
<1> QED
  BY <1>1, <1>2

\* When the distance is taken back, the two speakers looked at are at full
\* volume exactly where the application asked for nothing else.
LEMMA FrontTells ==
    ASSUME NEW block, NEW want, NEW channels, Suits(channels, block, want), 0 \in Distances
    PROVE  IF Full(block.amps[1]) /\ Full(block.amps[2])
           THEN want.amps = Plain.amps \/ want.amps = set_amplitudes(channels, 0, 0)
           ELSE want.amps # set_amplitudes(channels, 0, 0)
<1> DEFINE first == set_amplitudes(channels, 0, 0)
<1>1. channels \in {1, 2, 4, 6} /\ Full(first[1]) /\ Full(first[2])
  BY FullFront DEF Suits, Full
<1> HIDE DEF first
<1>2. CASE Straight(channels, block, want)
  <2>1. block.amps = want.amps
    BY <1>2 DEF Straight
  <2>2. Full(block.amps[1]) /\ Full(block.amps[2]) => want.amps = Plain.amps
    <3>1. CASE channels = 2
      <4>1. PICK l, r \in Bytes : want.amps = <<l, r, 255, 255, 255, 255>>
        BY <1>2, <3>1 DEF Straight, Two
      <4> QED
        BY <2>1, <4>1 DEF Plain, Full
    <3>2. CASE channels # 2
      BY <1>2, <3>2 DEF Straight
    <3> QED
      BY <3>1, <3>2
  <2> QED
    BY <1>1, <2>1, <2>2 DEF first
<1>3. CASE Directed(channels, block, want)
  <2>1. PICK a \in Clear : /\ block.room = RoomAngle(channels, a)
                           /\ block.amps = set_amplitudes(channels, a, block.room)
                           /\ want.amps = set_amplitudes(channels, a, 0)
    BY <1>3 DEF Directed
  <2>2. a \in Angles /\ a \notin Aside /\ channels \in {4, 6}
    BY <1>3 DEF Clear, Directed
  <2>3. ASSUME Full(block.amps[1]), Full(block.amps[2])
        PROVE  want.amps = first
    <3>1. a = 0
      <4>1. a # 0 => LET s == set_amplitudes(channels, a, RoomAngle(channels, a))
                     IN  ~(Full(s[1]) /\ Full(s[2]))
        BY <2>2, ClearIsHeard, Zenon
      <4> QED
        BY <2>1, <2>3, <4>1, Zenon
    <3> QED
      BY <2>1, <3>1 DEF first
  <2>4. ASSUME want.amps = first
        PROVE  Full(block.amps[1]) /\ Full(block.amps[2])
    <3>1. 0 \in Rooms /\ Turned[0] = <<1, 2, 3, 4>>
      BY DEF Rooms, Turned
    <3>2. \A k \in 1 .. 4 : first[Turned[0][k]] = Clamped(Surround(a)[k])
      BY <2>1, <2>2, <2>4, <3>1, AmplitudesKept
    <3>3. Full(Clamped(Surround(a)[1])) /\ Full(Clamped(Surround(a)[2]))
      <4>1. first[1] = Clamped(Surround(a)[1]) /\ first[2] = Clamped(Surround(a)[2])
        BY <3>1, <3>2
      <4> QED
        BY <1>1, <4>1, Zenon
    <3>4. RoomAngle(channels, a) = 0
      BY <2>2, <3>3, TurnedIsHeard, Zenon
    <3>5. block.amps = first
      BY <2>1, <2>4, <3>4
    <3> QED
      BY <1>1, <3>5
  <2> QED
    BY <2>3, <2>4 DEF first
<1> QED
  BY <1>2, <1>3 DEF Suits

LEMMA DistancedHears ==
    ASSUME IInv, Hearing, NEW o \in Owners, May(o), Opened,
           NEW distance \in Bytes, distance \in Distances, Distanced(o, distance)
    PROVE  Hearing'
<1> DEFINE n == spec.channels
           old == BlockFor(o)
           here == asked[o]
           block == [old EXCEPT !.distance = 255 - distance]
           full == old.amps[1] = 255 /\ old.amps[2] = 255
           first == here.amps = set_amplitudes(n, 0, 0)
           moved == [here EXCEPT !.distance = 255 - distance]
           new == IF distance = 0 /\ first THEN Plain ELSE moved
<1>1. BlockOf(o) = o
  BY OwnersApart DEF IInv
<1>2. /\ PositionFunc # NoFunc /\ Place(o, distance = 0 /\ full, block)
      /\ Asks(o, new) /\ spec' = spec
  BY <1>1 DEF Distanced
<1>3. n \in {1, 2, 4, 6}
  BY <1>2, FuncIsThere
<1>4. Suits(n, old, here)
  BY <1>3, OldSuits
<1>5. old \in Blocks
  BY BlockOfOwner
<1>6. distance = 0 => IF full THEN here.amps = Plain.amps \/ first ELSE ~first
  BY <1>4, FrontTells DEF Full
<1>7. here = [amps |-> here.amps, distance |-> old.distance]
  BY <1>4 DEF Suits
<1> HIDE DEF old, here, n, first
<1>8. 255 - distance \in Bytes
  BY DEF Bytes
<1>9. /\ block \in Blocks /\ block.distance = 255 - distance
      /\ block.amps = old.amps /\ block.room = old.room
  BY <1>5, <1>8 DEF Blocks
<1>10. moved.amps = here.amps /\ moved = [amps |-> moved.amps, distance |-> block.distance]
  BY <1>7, <1>9
<1>11. distance = 0 /\ here.amps = Plain.amps => moved = Plain
  BY <1>9, <1>10 DEF Plain
<1> HIDE DEF moved, block
<1>12. Suits(n, block, moved)
  <2>1. CASE Straight(n, old, here)
    <3>1. Straight(n, block, moved)
      BY <1>9, <1>10, <2>1 DEF Straight
    <3> QED
      BY <1>3, <1>10, <3>1 DEF Suits
  <2>2. CASE Directed(n, old, here)
    <3>1. Directed(n, block, moved)
      BY <1>9, <1>10, <2>2 DEF Directed
    <3> QED
      BY <1>3, <1>10, <3>1 DEF Suits
  <2> QED
    BY <1>4, <2>1, <2>2 DEF Suits
<1>13. CASE distance = 0 /\ full
  <2>1. Place(o, TRUE, block)
    BY <1>2, <1>13
  <2>2. new = Plain
    BY <1>6, <1>11, <1>13
  <2>3. Asks(o, Plain)
    BY <1>2, <2>2
  <2> QED
    BY <1>2, <1>9, <2>1, <2>3, PlaceHeard, ZenonT(60)
<1>14. CASE ~(distance = 0 /\ full)
  <2>1. Place(o, FALSE, block)
    BY <1>2, <1>14
  <2>2. new = moved
    BY <1>6, <1>14
  <2>3. Asks(o, moved)
    BY <1>2, <2>2
  <2> QED
    BY <1>2, <1>9, <1>12, <2>1, <2>3, PlaceHeard, ZenonT(60) DEF n
<1> QED
  BY <1>13, <1>14

-----------------------------------------------------------------------------
(* The steps of Next.                                                      *)

\* The directions that the application names.
Named ==
    (\E s \in Specs : s.channels \in {4, 6}) =>
        /\ \A p \in Places : Normal(p[1]) \in Clear
        /\ \A p \in Pans : Normal(PanAngle(p[1], p[2])) \in Clear

LEMMA NamedHere ==
    ASSUME IInv, Opened, Named, spec.channels \in {4, 6}
    PROVE  /\ \A p \in Places : Normal(p[1]) \in Clear
           /\ \A p \in Pans : Normal(PanAngle(p[1], p[2])) \in Clear
<1>1. spec \in Specs
  BY DEF IInv, Numbers, Opened
<1> QED
  BY <1>1, Zenon DEF Named

\* Effects of the application and reversed stereo leave positions alone.
LEMMA RegisteredHears ==
    ASSUME IInv, Hearing, NEW o \in Owners, NEW f,
           Registered(o, f) \/ Unregistered(o, f)
    PROVE  Hearing'
<1>1. CASE Registered(o, f)
  BY <1>1, SameHeard DEF Registered
<1>2. CASE Unregistered(o, f)
  <2>1. asked' = asked /\ spec' = spec
    BY <1>2 DEF Unregistered
  <2>2. CASE _Mix_remove_effect(o, <<"app", f>>)
    <3>1. \A e \in Fitting : e.callback = <<"app", f>> => e.done = "app"
      BY DoneGoesWith
    <3> QED
      BY <2>1, <2>2, <3>1, OtherGoneHeard
  <2>3. CASE UNCHANGED <<effects, args, owes>>
    BY <2>1, <2>3, SameHeard
  <2> QED
    BY <1>2, <2>2, <2>3 DEF Unregistered, _Mix_UnregisterEffect_locked
<1> QED
  BY <1>1, <1>2

LEMMA ReversedHears ==
    ASSUME IInv, Hearing, NEW o \in Owners, NEW flip, Reversed(o, flip)
    PROVE  Hearing'
<1>1. asked' = asked /\ spec' = spec
  BY DEF Reversed
<1>2. CASE args' = args
  BY <1>1, <1>2, SameHeard
<1>3. CASE _Mix_remove_effect(o, Reverse)
  <2>1. \A e \in Fitting : e.callback = Reverse => e.done = "none"
    BY DoneGoesWith DEF Reverse
  <2> QED
    BY <1>1, <1>3, <2>1, OtherGoneHeard
<1> QED
  BY <1>2, <1>3 DEF Reversed, _Mix_UnregisterEffect_locked

LEMMA AllUnregisteredHears ==
    ASSUME IInv, Hearing, NEW o \in Owners, AllUnregistered(o)
    PROVE  Hearing'
BY AllGoneHeard DEF AllUnregistered

LEMMA ChannelHears ==
    ASSUME IInv, Hearing, Existing, Named, NEW c, OnChannel(c)
    PROVE  Hearing'
<1>1. AppFree /\ c \in Nameable
  BY DEF OnChannel, Mix_RegisterEffect, Mix_UnregisterEffect, Mix_UnregisterAllEffects,
         Mix_SetReverseStereo, Mix_SetPanning, Mix_SetDistance, Mix_SetPosition
<1>2. Opened /\ Exists(c)
  BY <1>1 DEF AppFree, Nameable
<1>3. c \in Owners /\ May(c)
  BY <1>2, OwnersApart DEF IInv, May
<1>4. CASE \E f \in Funcs : Mix_RegisterEffect(c, f) \/ Mix_UnregisterEffect(c, f)
  BY <1>3, <1>4, RegisteredHears DEF Mix_RegisterEffect, Mix_UnregisterEffect
<1>5. CASE Mix_UnregisterAllEffects(c)
  BY <1>3, <1>5, AllUnregisteredHears DEF Mix_UnregisterAllEffects
<1>6. CASE \E flip \in BOOLEAN : Mix_SetReverseStereo(c, flip)
  BY <1>3, <1>6, ReversedHears DEF Mix_SetReverseStereo
<1>7. CASE \E p \in Pans : Mix_SetPanning(c, p[1], p[2])
  <2>1. PICK p \in Pans : Panned(c, p[1], p[2])
    BY <1>7 DEF Mix_SetPanning
  <2> QED
    BY <1>2, <1>3, <2>1, ArgumentsAreBytes, NamedHere, PannedHears
<1>8. CASE \E d \in Distances : Mix_SetDistance(c, d)
  BY <1>2, <1>3, <1>8, ArgumentsAreBytes, DistancedHears DEF Mix_SetDistance
<1>9. CASE \E p \in Places : Mix_SetPosition(c, p[1], p[2])
  <2>1. PICK p \in Places : Positioned(c, p[1], p[2])
    BY <1>9 DEF Mix_SetPosition
  <2> QED
    BY <1>2, <1>3, <2>1, ArgumentsAreBytes, NamedHere, PositionedHears
<1> QED
  BY <1>4, <1>5, <1>6, <1>7, <1>8, <1>9 DEF OnChannel

LEMMA MusicHears ==
    ASSUME IInv, Hearing, Named, NEW m \in Musics, OnMusic(m)
    PROVE  Hearing'
<1>1. m \in Owners /\ Shaped /\ (m \in loaded => May(m)) /\ (AppFree => Opened)
  BY OwnersApart DEF IInv, Lists, May, AppFree
<1>2. CASE Mix_LoadMUS(m)
  <2>1. /\ args' = [args EXCEPT ![m] = NoArgs] /\ asked' = [asked EXCEPT ![m] = Plain]
        /\ spec' = spec
    BY <1>2 DEF Mix_LoadMUS
  <2>2. args'[m] = NoArgs /\ \A p \in Owners \ {m} : args'[p] = args[p]
    BY <1>1, <2>1 DEF Shaped
  <2> QED
    BY <1>1, <2>1, <2>2, OneHeard DEF AskedAt, Unused
<1>3. CASE Mix_FreeMusic(m)
  BY <1>1, <1>3, AllGoneHeard DEF Mix_FreeMusic
<1>4. CASE \E f \in Funcs : Mix_RegisterMusicEffect(m, f) \/ Mix_UnregisterMusicEffect(m, f)
  BY <1>1, <1>4, RegisteredHears DEF Mix_RegisterMusicEffect, Mix_UnregisterMusicEffect
<1>5. CASE Mix_UnregisterAllMusicEffects(m)
  BY <1>1, <1>5, AllUnregisteredHears DEF Mix_UnregisterAllMusicEffects
<1>6. CASE \E flip \in BOOLEAN : Mix_SetMusicEffectReverseStereo(m, flip)
  BY <1>1, <1>6, ReversedHears DEF Mix_SetMusicEffectReverseStereo
<1>7. CASE \E p \in Pans : Mix_SetMusicEffectPanning(m, p[1], p[2])
  <2>1. PICK p \in Pans : Panned(m, p[1], p[2]) /\ AppFree /\ m \in loaded
    BY <1>7 DEF Mix_SetMusicEffectPanning
  <2> QED
    BY <1>1, <2>1, ArgumentsAreBytes, NamedHere, PannedHears
<1>8. CASE \E d \in Distances : Mix_SetMusicEffectDistance(m, d)
  BY <1>1, <1>8, ArgumentsAreBytes, DistancedHears DEF Mix_SetMusicEffectDistance
<1>9. CASE \E p \in Places : Mix_SetMusicEffectPosition(m, p[1], p[2])
  <2>1. PICK p \in Places : Positioned(m, p[1], p[2]) /\ AppFree /\ m \in loaded
    BY <1>9 DEF Mix_SetMusicEffectPosition
  <2> QED
    BY <1>1, <2>1, ArgumentsAreBytes, NamedHere, PositionedHears
<1> QED
  BY <1>2, <1>3, <1>4, <1>5, <1>6, <1>7, <1>8, <1>9 DEF OnMusic

LEMMA SoundHears ==
    ASSUME IInv, Hearing, NEW c \in Owners, spec' = spec,
           IF c \in playing THEN DonePlaying(c) ELSE UNCHANGED <<effects, args, owes, asked>>
    PROVE  Hearing'
<1>1. CASE c \in playing
  BY <1>1, AllGoneHeard DEF DonePlaying
<1>2. CASE c \notin playing
  BY <1>2, SameHeard
<1> QED
  BY <1>1, <1>2

LEMMA ShrinkHears ==
    ASSUME IInv, Hearing, ShrinkUnregister \/ ShrinkHalt \/ ShrinkResize
    PROVE  Hearing'
<1>1. /\ shrink # NoShrink /\ spec' = spec
  BY DEF ShrinkUnregister, ShrinkHalt, ShrinkResize
<1>2. shrink[2] \in Nat /\ num_channels \in Nat /\ MaxChannels \in Nat /\ num_channels <= MaxChannels
  BY <1>1, OnTheWay
<1>3. shrink[2] < num_channels => shrink[2] \in Owners
  BY <1>2 DEF Owners, Channels
<1>4. CASE ShrinkUnregister
  <2>1. CASE shrink[2] < num_channels
    BY <1>1, <1>3, <1>4, <2>1, AllGoneHeard DEF ShrinkUnregister
  <2>2. CASE ~(shrink[2] < num_channels)
    BY <1>1, <1>4, <2>2, SameHeard DEF ShrinkUnregister
  <2> QED
    BY <2>1, <2>2
<1>5. CASE ShrinkHalt
  <2>1. shrink[2] < num_channels
    BY <1>1, <1>5, OnTheWay DEF ShrinkHalt
  <2> QED
    BY <1>1, <1>3, <1>5, <2>1, SoundHears DEF ShrinkHalt, Ends
<1>6. CASE ShrinkResize
  BY <1>1, <1>6, SameHeard DEF ShrinkResize
<1> QED
  BY <1>4, <1>5, <1>6

\* No block that an effect reads.
Free(block) == block # NoArgs => ~block.in_use

\* No owner holds a block in use while the mixer is closed and no music is loaded.
LEMMA NobodyHolds ==
    ASSUME IInv, ~Opened, loaded = {}, NEW o \in Owners
    PROVE  Free(args[o])
<1>1. effects[o] = <<>>
  BY DEF IInv, Lists, EmptyAt, May
<1> QED
  BY <1>1, MarksOfNothing DEF IInv, Lists, GoodAt, Good, Free

LEMMA OpenHears ==
    ASSUME IInv, Hearing, NEW s \in Specs, Mix_OpenAudio(s)
    PROVE  Hearing'
<1>1. ~Opened /\ loaded = {} /\ UNCHANGED <<args, asked>>
  BY DEF Mix_OpenAudio
<1>2. ASSUME NEW o \in Owners PROVE args[o] \in Unused /\ asked[o] = Plain
  <2>1. args[o] # NoArgs => ~args[o].in_use
    BY <1>1, NobodyHolds DEF Free
  <2> QED
    BY <2>1 DEF Hearing, AskedAt
<1>3. asked = [o \in Owners |-> asked[o]]
  BY DEF Hearing
<1> QED
  BY <1>1, <1>2, <1>3 DEF Hearing, AskedAt

LEMMA CloseHears ==
    ASSUME IInv, Hearing, Mix_CloseAudio
    PROVE  Hearing'
<1>1. /\ args' = [o \in Owners |-> IF o \in Musics THEN args[o] ELSE NoArgs]
      /\ asked' = [o \in Owners |-> IF o \in Musics THEN asked[o] ELSE Plain]
      /\ ~Opened'
  BY DEF Mix_CloseAudio, Opened
<1>2. ASSUME NEW o \in Owners PROVE AskedAt(o)'
  <2>1. CASE o \in Musics
    <3>1. AskedAt(o) /\ args'[o] = args[o] /\ asked'[o] = asked[o]
      BY <1>1, <2>1 DEF Hearing
    <3> QED
      BY <1>1, <3>1 DEF AskedAt
  <2>2. CASE o \notin Musics
    <3>1. args'[o] = NoArgs /\ asked'[o] = Plain
      BY <1>1, <2>2
    <3> QED
      BY <3>1 DEF AskedAt, Unused
  <2> QED
    BY <2>1, <2>2
<1> QED
  BY <1>1, <1>2 DEF Hearing

LEMMA Hears ==
    ASSUME Existing, Named, IInv, Hearing, [Next]_vars
    PROVE  Hearing'
<1>1. CASE \E s \in Specs : Mix_OpenAudio(s)
  BY <1>1, OpenHears
<1>2. CASE Mix_CloseAudio
  BY <1>2, CloseHears
<1>3. CASE \E c \in Touched : OnChannel(c)
  BY <1>3, ChannelHears
<1>4. CASE \E m \in Musics : OnMusic(m)
  BY <1>4, MusicHears
<1>5. CASE \E c \in Channels \intersect Touched : Mix_PlayChannel(c) \/ Mix_HaltChannel(c) \/ SoundEnds(c)
  <2>1. PICK c \in Channels : Mix_PlayChannel(c) \/ Mix_HaltChannel(c) \/ SoundEnds(c)
    BY <1>5
  <2>2. /\ c \in Owners /\ spec' = spec
        /\ IF c \in playing THEN DonePlaying(c) ELSE UNCHANGED <<effects, args, owes, asked>>
    BY <2>1 DEF Owners, Mix_PlayChannel, Mix_HaltChannel, SoundEnds, Ends
  <2> QED
    BY <2>2, SoundHears
<1>6. CASE \E n \in 0 .. MaxChannels : Mix_AllocateChannels(n)
  <2>1. spec' = spec /\ UNCHANGED <<args, asked>>
    BY <1>6 DEF Mix_AllocateChannels
  <2> QED
    BY <2>1, SameHeard
<1>7. CASE ShrinkUnregister \/ ShrinkHalt \/ ShrinkResize
  BY <1>7, ShrinkHears
<1>8. CASE UNCHANGED vars
  BY <1>8, SameHeard DEF vars
<1> QED
  BY <1>1, <1>2, <1>3, <1>4, <1>5, <1>6, <1>7, <1>8 DEF Next

LEMMA StartsHearing == Init => Hearing
BY DEF Init, Hearing, AskedAt, Unused

-----------------------------------------------------------------------------
(* What the functions of the position effect make of a frame: every        *)
(* speaker gets its own sample or the one of its place in the turned       *)
(* room.                                                                   *)

LEMMA RoomsTurn ==
    /\ Turned[0] = <<1, 2, 3, 4>> /\ Turned[90] = <<2, 4, 1, 3>>
    /\ Turned[180] = <<4, 3, 2, 1>> /\ Turned[270] = <<3, 1, 4, 2>>
BY DEF Turned, Rooms

\* A room that is turned gives every speaker another one's place.
LEMMA TurnedOnto ==
    ASSUME NEW room \in Rooms
    PROVE  /\ \A k \in 1 .. 4 : Turned[room][k] \in 1 .. 4
           /\ \A source \in 1 .. 4 : \E k \in 1 .. 4 : \A j \in 1 .. 4 :
                 Turned[room][j] = source <=> j = k
<1>1. CASE room = 0
  BY <1>1, RoomsTurn
<1>2. CASE room = 90
  BY <1>2, RoomsTurn
<1>3. CASE room = 180
  BY <1>3, RoomsTurn
<1>4. CASE room = 270
  BY <1>4, RoomsTurn
<1> QED
  BY <1>1, <1>2, <1>3, <1>4 DEF Rooms

\* What a speaker gets of its corner: its own sample, or the one of the place it
\* has in the turned room.
Stay(out, room, n) == \A k \in 1 .. n : out[k] = {<<k, Turned[room][k]>>}
Move(out, room, n) == \A k \in 1 .. n : out[k] = {<<Turned[room][k], Turned[room][k]>>}

LEMMA FourCorners ==
    ASSUME NEW room \in Rooms
    PROVE  Stay(InPlace4(room), room, 4) /\ Move(Moved4(<<1, 2, 3, 4>>, room), room, 4)
<1>1. \A k \in 1 .. 4 : <<1, 2, 3, 4>>[k] = k
  OBVIOUS
<1>2. \A k \in 1 .. 4 : <<1, 2, 3, 4>>[Turned[room][k]] = Turned[room][k]
  BY <1>1, TurnedOnto, Zenon
<1> QED
  BY <1>2 DEF Stay, Move, InPlace4, Moved4

LEMMA CenterApart ==
    ASSUME NEW corners, corners = [k \in 1 .. 4 |-> corners[k]], NEW room, NEW center
    PROVE  \A k \in 1 .. 4 : WithCenter(corners, room, center)[k] = corners[k]
<1> DEFINE x == IF room = 0 THEN {<<5, 5>>} ELSE center
           y == {<<6, 6>>}
           S == {corners[k] : k \in 1 .. 4} \union {x, y}
<1>1. WithCenter(corners, room, center) = corners \o <<x, y>>
  BY DEF WithCenter
<1> HIDE DEF x, y
<1>2. corners \in Seq(S) /\ Len(corners) = 4 /\ <<x, y>> \in Seq(S) /\ Len(<<x, y>>) = 2
  <2>1. corners \in [1 .. 4 -> S]
    OBVIOUS
  <2>2. x \in S /\ y \in S
    OBVIOUS
  <2> HIDE DEF S
  <2>3. corners \in Seq(S) /\ Len(corners) = 4
    BY <2>1
  <2> QED
    BY <2>2, <2>3
<1> HIDE DEF S
<1>3. \A i \in 1 .. 4 : (corners \o <<x, y>>)[i] = corners[i]
  BY <1>2, ConcatProperties
<1> QED
  BY <1>1, <1>3

LEMMA SixCorners ==
    ASSUME NEW room \in Rooms
    PROVE  Stay(InPlace6(room), room, 4) /\ Move(Moved6(room), room, 4)
<1>1. Stay(InPlace6(room), room, 4)
  <2> DEFINE corners == InPlace4(room)
             center == {<<5, Turned[room][1]>>, <<5, Turned[room][2]>>}
  <2>1. corners = [k \in 1 .. 4 |-> corners[k]]
    BY DEF InPlace4
  <2>2. InPlace6(room) = WithCenter(corners, room, center)
    BY DEF InPlace6
  <2> HIDE DEF corners, center
  <2>3. \A k \in 1 .. 4 : InPlace6(room)[k] = corners[k]
    BY <2>1, <2>2, CenterApart
  <2> QED
    BY <2>3, FourCorners DEF Stay, corners
<1>2. Move(Moved6(room), room, 4)
  <2> DEFINE corners == Moved4(<<1, 2, 3, 4>>, room)
             center == corners[1] \union corners[2]
  <2>1. corners = [k \in 1 .. 4 |-> corners[k]]
    BY DEF Moved4
  <2>2. Moved6(room) = WithCenter(corners, room, center)
    BY DEF Moved6
  <2> HIDE DEF corners, center
  <2>3. \A k \in 1 .. 4 : Moved6(room)[k] = corners[k]
    BY <2>1, <2>2, CenterApart
  <2> QED
    BY <2>3, FourCorners DEF Move, corners
<1> QED
  BY <1>1, <1>2

LEMMA Placed4 ==
    ASSUME NEW format \in Formats \ {"s16lsb", "s32lsb"}, NEW room
    PROVE  Outputs(<<"position", format, 4>>, room) \in {InPlace4(room), Moved4(<<1, 2, 3, 4>>, room)}
<1>1. CASE format = "u8"
  BY <1>1 DEF Outputs, _Eff_position_u8_c4
<1>2. CASE format = "s8"
  BY <1>2 DEF Outputs, _Eff_position_s8_c4
<1>3. CASE format = "u16lsb"
  BY <1>3 DEF Outputs, _Eff_position_u16lsb_c4
<1>4. CASE format = "u16msb"
  BY <1>4 DEF Outputs, _Eff_position_u16msb_c4
<1>5. CASE format = "s16msb"
  BY <1>5 DEF Outputs, _Eff_position_s16msb_c4
<1>6. CASE format = "s32msb"
  BY <1>6 DEF Outputs, _Eff_position_s32msb_c4
<1>7. CASE format = "f32sys"
  BY <1>7 DEF Outputs, _Eff_position_f32sys_c4
<1> QED
  BY <1>1, <1>2, <1>3, <1>4, <1>5, <1>6, <1>7 DEF Formats

LEMMA Placed6 ==
    ASSUME NEW format \in Formats, NEW room
    PROVE  Outputs(<<"position", format, 6>>, room) \in {InPlace6(room), Moved6(room)}
<1>1. CASE format = "u8"
  BY <1>1 DEF Outputs, _Eff_position_u8_c6
<1>2. CASE format = "s8"
  BY <1>2 DEF Outputs, _Eff_position_s8_c6
<1>3. CASE format = "u16lsb"
  BY <1>3 DEF Outputs, _Eff_position_u16lsb_c6
<1>4. CASE format = "s16lsb"
  BY <1>4 DEF Outputs, _Eff_position_s16lsb_c6
<1>5. CASE format = "u16msb"
  BY <1>5 DEF Outputs, _Eff_position_u16msb_c6
<1>6. CASE format = "s16msb"
  BY <1>6 DEF Outputs, _Eff_position_s16msb_c6
<1>7. CASE format = "s32lsb"
  BY <1>7 DEF Outputs, _Eff_position_s32lsb_c6
<1>8. CASE format = "s32msb"
  BY <1>8 DEF Outputs, _Eff_position_s32msb_c6
<1>9. CASE format = "f32sys"
  BY <1>9 DEF Outputs, _Eff_position_f32sys_c6
<1> QED
  BY <1>1, <1>2, <1>3, <1>4, <1>5, <1>6, <1>7, <1>8, <1>9 DEF Formats

LEMMA Placed2 ==
    ASSUME NEW format \in Formats, NEW channels \in {1, 2}
    PROVE  Outputs(<<"position", format, channels>>, 0) = << {<<1, 1>>}, {<<2, 2>>} >>
<1>1. Outputs(<<"position", format, channels>>, 0) \in {InPlace2(0), Moved2(0), Straight2(0)}
  BY DEF Formats, Outputs, _Eff_position_u8, _Eff_position_s8, _Eff_position_u16lsb,
     _Eff_position_s16lsb, _Eff_position_u16msb, _Eff_position_s16msb,
     _Eff_position_s32lsb, _Eff_position_s32msb, _Eff_position_f32sys
<1> QED
  BY <1>1 DEF InPlace2, Moved2, Straight2

-----------------------------------------------------------------------------
(* What the speakers get.                                                  *)

\* Not one of the two formats whose function for four speakers reads the rear
\* samples from the wrong place.
Fine(s) == s.channels = 4 => s.format \notin {"s16lsb", "s32lsb"}

\* The speakers that a direction is about.
Front(channels) == IF channels >= 4 THEN 4 ELSE channels

LEMMA CornersPlaced ==
    ASSUME NEW format \in Formats, NEW channels \in {1, 2, 4, 6}, NEW room \in Rooms,
           channels = 4 => format \notin {"s16lsb", "s32lsb"},
           channels \in {1, 2} => room = 0
    PROVE  LET out == Outputs(<<"position", format, channels>>, room)
           IN  Stay(out, room, Front(channels)) \/ Move(out, room, Front(channels))
<1> DEFINE out == Outputs(<<"position", format, channels>>, room)
<1>1. CASE channels = 4
  <2>1. out \in {InPlace4(room), Moved4(<<1, 2, 3, 4>>, room)}
    BY <1>1, Placed4
  <2>2. Front(channels) = 4
    BY <1>1 DEF Front
  <2> HIDE DEF out
  <2> QED
    BY <2>1, <2>2, FourCorners DEF out
<1>2. CASE channels = 6
  <2>1. out \in {InPlace6(room), Moved6(room)}
    BY <1>2, Placed6
  <2>2. Front(channels) = 4
    BY <1>2 DEF Front
  <2> HIDE DEF out
  <2> QED
    BY <2>1, <2>2, SixCorners DEF out
<1>3. CASE channels \in {1, 2}
  <2>1. out = << {<<1, 1>>}, {<<2, 2>>} >> /\ room = 0
    BY <1>3, Placed2
  <2>2. Front(channels) \in 1 .. 2
    BY <1>3 DEF Front
  <2> HIDE DEF out
  <2>3. out[1] = {<<1, 1>>} /\ out[2] = {<<2, 2>>} /\ Turned[room][1] = 1 /\ Turned[room][2] = 2
    BY <2>1, RoomsTurn
  <2>4. \A k \in 1 .. Front(channels) : k = 1 \/ k = 2
    BY <2>2
  <2>5. Stay(out, room, Front(channels))
    BY <2>3, <2>4 DEF Stay
  <2> QED
    BY <2>5 DEF out
<1> QED
  BY <1>1, <1>2, <1>3

LEMMA OnlyVolume ==
    ASSUME NEW a, NEW b, NEW c
    PROVE  {<<h[2], h[3]>> : h \in {<<a, b, c>>}} = {<<b, c>>}
<1>1. <<a, b, c>>[2] = b /\ <<a, b, c>>[3] = c
  OBVIOUS
<1> DEFINE x == <<a, b, c>>
<1> HIDE DEF x
<1>2. {<<h[2], h[3]>> : h \in {x}} = {<<x[2], x[3]>>}
  OBVIOUS
<1> QED
  BY <1>1, <1>2 DEF x

\* What a speaker gets of the samples and volumes S at the volumes of a block.
Through(S, amps, d) == {<<p[1], amps[p[2]], d>> : p \in S}

OnePair(a, b) == {<<a, b>>}
OneTriple(a, b, c) == {<<a, b, c>>}

LEMMA OnlyPair ==
    ASSUME NEW a, NEW b, NEW amps, NEW d
    PROVE  Through(OnePair(a, b), amps, d) = OneTriple(a, amps[b], d)
<1>1. <<a, b>>[1] = a /\ <<a, b>>[2] = b
  OBVIOUS
<1> DEFINE x == <<a, b>>
<1> HIDE DEF x
<1>2. {<<p[1], amps[p[2]], d>> : p \in {x}} = {<<x[1], amps[x[2]], d>>}
  OBVIOUS
<1> QED
  BY <1>1, <1>2 DEF x, Through, OnePair, OneTriple

\* Every speaker gets one sample at the volume asked for, and every sample goes
\* to one speaker.
Served(n, heard, source, want) ==
    /\ \A k \in 1 .. n : heard[k] = {<<source[k], want.amps[k], want.distance>>}
    /\ \A s \in 1 .. n : \E k \in 1 .. n : \A j \in 1 .. n : source[j] = s <=> j = k

LEMMA ServedIsHeard ==
    ASSUME NEW n \in Nat, NEW heard, NEW source, NEW want, Served(n, heard, source, want)
    PROVE  /\ \A k \in 1 .. n : {<<h[2], h[3]>> : h \in heard[k]} =
                                    {<<want.amps[k], want.distance>>}
           /\ \A s \in 1 .. n : Cardinality({k \in 1 .. n : \E h \in heard[k] : h[1] = s}) = 1
<1>1. ASSUME NEW k \in 1 .. n
      PROVE  {<<h[2], h[3]>> : h \in heard[k]} = {<<want.amps[k], want.distance>>}
  <2>1. heard[k] = {<<source[k], want.amps[k], want.distance>>}
    BY <1>1 DEF Served
  <2> QED
    BY <2>1, OnlyVolume
<1>2. ASSUME NEW s \in 1 .. n
      PROVE  Cardinality({k \in 1 .. n : \E h \in heard[k] : h[1] = s}) = 1
  <2>1. PICK k \in 1 .. n : \A j \in 1 .. n : source[j] = s <=> j = k
    BY <1>2 DEF Served
  <2>2. ASSUME NEW j \in 1 .. n
        PROVE  (\E h \in heard[j] : h[1] = s) <=> j = k
    <3>1. heard[j] = {<<source[j], want.amps[j], want.distance>>}
      BY DEF Served
    <3> QED
      BY <2>1, <3>1
  <2>3. {j \in 1 .. n : \E h \in heard[j] : h[1] = s} = {k}
    BY <2>2
  <2> QED
    BY <2>3, FS_Singleton
<1> QED
  BY <1>1, <1>2

\* The volumes a turned room keeps in another order are the ones asked for.
LEMMA AmplitudesAsked ==
    ASSUME NEW channels, NEW block \in Blocks, NEW want, Suits(channels, block, want)
    PROVE  \A k \in 1 .. Front(channels) : block.amps[Turned[block.room][k]] = want.amps[k]
<1>1. channels \in {1, 2, 4, 6}
  BY DEF Suits
<1>2. Front(channels) \in 1 .. 4
  BY <1>1 DEF Front
<1>3. \A k \in 1 .. 4 : Turned[0][k] = k
  BY RoomsTurn
<1>4. CASE Straight(channels, block, want)
  <2>1. block.room = 0 /\ block.amps = want.amps
    BY <1>4 DEF Straight
  <2> QED
    BY <1>2, <1>3, <2>1
<1>5. CASE Directed(channels, block, want)
  <2>1. PICK a \in Clear : /\ block.amps = set_amplitudes(channels, a, block.room)
                           /\ want.amps = set_amplitudes(channels, a, 0)
    BY <1>5 DEF Directed
  <2>2. channels \in {4, 6} /\ block.room \in Rooms /\ 0 \in Rooms
    BY <1>5 DEF Directed, Blocks, Rooms
  <2>3. \A k \in 1 .. 4 : block.amps[Turned[block.room][k]] = Clamped(Surround(a)[k])
    BY <2>1, <2>2, AmplitudesKept
  <2>4. \A k \in 1 .. 4 : want.amps[Turned[0][k]] = Clamped(Surround(a)[k])
    BY <2>1, <2>2, AmplitudesKept
  <2>5. \A k \in 1 .. 4 : want.amps[k] = Clamped(Surround(a)[k])
    BY <1>3, <2>4
  <2>6. \A k \in 1 .. Front(channels) : k \in 1 .. 4
    BY <1>2
  <2> QED
    BY <2>3, <2>5, <2>6
<1> QED
  BY <1>4, <1>5 DEF Suits

LEMMA OwnerServed ==
    ASSUME IInv, Hearing, Opened, Fine(spec), NEW o \in Owners
    PROVE  \E source : Served(Front(spec.channels), Heard(o), source, asked[o])
<1> DEFINE n == Front(spec.channels)
<1>1. /\ spec.channels \in Nat /\ spec.format \in Formats /\ n \in Nat /\ n <= spec.channels
      /\ AskedAt(o) /\ Listed(o, "position") = Marks(effects[o], "position")
  <2>1. spec \in Specs
    BY DEF IInv, Numbers, Opened
  <2>2. spec.channels \in Nat /\ spec.format \in Formats
    BY <2>1, EffectsAssumption
  <2> QED
    BY <2>2 DEF Hearing, Listed, Marks, Front
<1>2. CASE Listed(o, "position") = {}
  <2>1. asked[o] = Plain
    <3>1. args[o] # NoArgs => ~args[o].in_use
      BY <1>1, <1>2 DEF IInv, Lists, GoodAt, Good
    <3> QED
      BY <1>1, <3>1 DEF AskedAt
  <2>2. \A k \in 1 .. n : Heard(o)[k] = {<<k, 255, 255>>}
    BY <1>1, <1>2 DEF Heard
  <2>3. n <= 4
    BY <1>1 DEF Front
  <2>4. \A k \in 1 .. 4 : Plain.amps[k] = 255
    BY DEF Plain
  <2>5. \A k \in 1 .. n : asked[o].amps[k] = 255 /\ asked[o].distance = 255
    BY <1>1, <2>1, <2>3, <2>4 DEF Plain
  <2> DEFINE source == [k \in 1 .. n |-> k]
  <2> HIDE DEF n
  <2>6. Served(n, Heard(o), source, asked[o])
    BY <2>2, <2>5 DEF Served
  <2> QED
    BY <2>6 DEF n
<1>3. CASE Listed(o, "position") # {}
  <2> DEFINE i == CHOOSE j \in Listed(o, "position") : TRUE
             out == Outputs(effects[o][i].callback, args[o].room)
             room == args[o].room
  <2>1. i \in Listed(o, "position")
    BY <1>3
  <2>2. args[o] \in Blocks /\ args[o].in_use
    BY <1>1, <1>3 DEF IInv, Lists, GoodAt, Good
  <2>3. effects[o][i].callback = PositionFunc
    BY <1>1, <1>3, <2>1 DEF IInv, Lists, PlacedAt
  <2>4. Suits(spec.channels, args[o], asked[o])
    BY <1>1, <2>2, NoArgsAssumption, NewArgsType DEF AskedAt, Unused
  <2>5. spec.channels \in {1, 2, 4, 6}
    BY <2>4 DEF Suits
  <2>6. PositionFunc = <<"position", spec.format, spec.channels>>
    BY <2>5 DEF PositionFunc, get_position_effect_func
  <2>7. room \in Rooms /\ (spec.channels \in {1, 2} => room = 0)
    BY <2>2, <2>4 DEF Blocks, Suits, Straight, Directed
  <2>8. Stay(out, room, n) \/ Move(out, room, n)
    BY <1>1, <2>3, <2>5, <2>6, <2>7, CornersPlaced DEF Fine
  <2>9. \A k \in 1 .. n : args[o].amps[Turned[room][k]] = asked[o].amps[k]
    BY <2>2, <2>4, AmplitudesAsked
  <2>10. asked[o].distance = args[o].distance
    BY <2>4 DEF Suits
  <2>11. \A k \in 1 .. n : Heard(o)[k] = Through(out[k], args[o].amps, args[o].distance)
    BY <1>1, <1>3 DEF Heard, Through
  <2> HIDE DEF out, room, i
  <2>12. CASE Stay(out, room, n)
    <3> DEFINE source == [k \in 1 .. n |-> k]
    <3> HIDE DEF n
    <3>1. ASSUME NEW k \in 1 .. n
          PROVE  Heard(o)[k] = {<<k, asked[o].amps[k], asked[o].distance>>}
      <4>1. out[k] = {<<k, Turned[room][k]>>}
        BY <2>12 DEF Stay
      <4>2. Heard(o)[k] = {<<k, args[o].amps[Turned[room][k]], args[o].distance>>}
        <5>1. Heard(o)[k] = Through(out[k], args[o].amps, args[o].distance)
          BY <2>11
        <5>2. out[k] = OnePair(k, Turned[room][k])
          BY <4>1 DEF OnePair
        <5>3. Through(OnePair(k, Turned[room][k]), args[o].amps, args[o].distance) =
                 OneTriple(k, args[o].amps[Turned[room][k]], args[o].distance)
          BY OnlyPair
        <5> QED
          BY <5>1, <5>2, <5>3 DEF OneTriple
      <4> QED
        BY <2>9, <2>10, <4>2
    <3>2. Served(n, Heard(o), source, asked[o])
      BY <3>1 DEF Served
    <3> QED
      BY <3>2 DEF n
  <2>13. CASE Move(out, room, n)
    <3>1. ASSUME NEW k \in 1 .. n
          PROVE  Heard(o)[k] = {<<Turned[room][k], asked[o].amps[k], asked[o].distance>>}
      <4>1. out[k] = {<<Turned[room][k], Turned[room][k]>>}
        BY <2>13 DEF Move
      <4>2. Heard(o)[k] = {<<Turned[room][k], args[o].amps[Turned[room][k]], args[o].distance>>}
        <5>1. Heard(o)[k] = Through(out[k], args[o].amps, args[o].distance)
          BY <2>11
        <5>2. out[k] = OnePair(Turned[room][k], Turned[room][k])
          BY <4>1 DEF OnePair
        <5>3. Through(OnePair(Turned[room][k], Turned[room][k]), args[o].amps, args[o].distance) =
                 OneTriple(Turned[room][k], args[o].amps[Turned[room][k]], args[o].distance)
          BY OnlyPair
        <5> QED
          BY <5>1, <5>2, <5>3 DEF OneTriple
      <4> QED
        BY <2>9, <2>10, <4>2
    <3>2. \A s \in 1 .. n : \E k \in 1 .. n : \A j \in 1 .. n : Turned[room][j] = s <=> j = k
      <4>1. CASE spec.channels \in {4, 6}
        <5>1. n = 4
          BY <4>1 DEF Front
        <5> QED
          BY <2>7, <5>1, TurnedOnto
      <4>2. CASE spec.channels \in {1, 2}
        <5>1. \A j \in 1 .. 4 : Turned[room][j] = j
          BY <2>7, <4>2, RoomsTurn
        <5>2. \A j \in 1 .. n : j \in 1 .. 4
          BY <4>2 DEF Front
        <5> QED
          BY <5>1, <5>2
      <4> QED
        BY <2>5, <4>1, <4>2
    <3> HIDE DEF n
    <3>3. Served(n, Heard(o), Turned[room], asked[o])
      BY <3>1, <3>2 DEF Served
    <3> QED
      BY <3>3 DEF n
  <2> QED
    BY <2>8, <2>12, <2>13
<1> QED
  BY <1>2, <1>3

\* What the speakers get through the position effect of a channel, the output or
\* music is what the last panning, distance and position ask for, and full volume
\* once they ask for nothing (Mix_SetPosition, set_amplitudes and _Eff_position_*
\* of effect_position.c).  Not for the two formats whose function for four
\* speakers reads the rear samples from the wrong place; and on four and six
\* speakers not for the five directions that the front speakers do not tell from
\* none, where Mix_SetDistance would take the position away.
THEOREM AskedIsHeard ==
    ASSUME Existing, Named, \A s \in Specs : Fine(s)
    PROVE  Spec => []HeardAsAsked
<1>1. Init => IInv /\ Hearing
  BY Starts, StartsHearing
<1>2. IInv /\ Hearing /\ [Next]_vars => IInv' /\ Hearing'
  BY Keeps, Hears
<1>3. ASSUME IInv, Hearing PROVE HeardAsAsked
  <2> SUFFICES ASSUME Opened, NEW o \in Owners
               PROVE  LET heard == Heard(o)
                      IN  /\ \A k \in Corners : {<<h[2], h[3]>> : h \in heard[k]} =
                                                    {<<asked[o].amps[k], asked[o].distance>>}
                          /\ \A source \in Corners :
                               Cardinality({k \in Corners : \E h \in heard[k] : h[1] = source}) = 1
    BY DEF HeardAsAsked
  <2>1. spec \in Specs /\ Fine(spec)
    BY <1>3 DEF IInv, Numbers, Opened
  <2>2. Corners = 1 .. Front(spec.channels) /\ Front(spec.channels) \in Nat
    <3>1. spec.channels \in Nat
      BY <2>1, EffectsAssumption
    <3> QED
      BY <3>1 DEF Corners, Front
  <2>3. PICK source : Served(Front(spec.channels), Heard(o), source, asked[o])
    BY <1>3, <2>1, OwnerServed
  <2> QED
    BY <2>2, <2>3, ServedIsHeard
<1> QED
  BY <1>1, <1>2, <1>3, PTL DEF Spec

-----------------------------------------------------------------------------
(* Reversed stereo.                                                        *)

LEMMA FramesTurned ==
    ASSUME NEW format \in Formats, NEW frames \in Nat
    PROVE  FramesReversed(format, frames)
<1> DEFINE buffer == [k \in 1 .. 2 * frames |-> k]
           turned == ReversedStereo(format, buffer)
           over == (2 * frames) % 4 # 0
           eight == format \in {"u8", "s8"}
<1>1. \A k \in 1 .. 2 * frames :
         turned[k] = IF eight /\ over /\ k = 2 * frames - 1 THEN buffer[2 * frames]
                     ELSE IF eight /\ over /\ k = 2 * frames THEN buffer[1]
                     ELSE IF k % 2 = 1 THEN buffer[k + 1] ELSE buffer[k - 1]
  <2>0. DOMAIN buffer = 1 .. 2 * frames
    OBVIOUS
  <2>1. CASE eight
    <3>1. turned = _Eff_reversestereo8(buffer)
      BY <2>1 DEF ReversedStereo
    <3>2. Len(buffer) = 2 * frames
      OBVIOUS
    <3> HIDE DEF buffer, turned
    <3> QED
      BY <2>0, <2>1, <3>1, <3>2 DEF _Eff_reversestereo8
  <2>2. CASE ~eight
    <3>1. turned = _Eff_reversestereo16(buffer)
      BY <2>2 DEF ReversedStereo
    <3> HIDE DEF buffer, turned, eight
    <3> QED
      BY <2>0, <2>2, <3>1 DEF _Eff_reversestereo16
  <2> QED
    BY <2>1, <2>2
<1>2. ASSUME NEW f \in 1 .. frames
      PROVE  /\ turned[2 * f - 1] = 2 * f
             /\ ~LeftOver(format, frames, f) => turned[2 * f] = 2 * f - 1
  <2>1. 2 * f - 1 \in 1 .. 2 * frames /\ 2 * f \in 1 .. 2 * frames
    OBVIOUS
  <2>2. (2 * f - 1) % 2 = 1 /\ (2 * f) % 2 = 0
    OBVIOUS
  <2>3. buffer[2 * f - 1] = 2 * f - 1 /\ buffer[2 * f] = 2 * f
    BY <2>1
  <2>4. (2 * f - 1) + 1 = 2 * f /\ (2 * f) - 1 = 2 * f - 1
    OBVIOUS
  <2>5. over <=> frames % 2 = 1
    OBVIOUS
  <2>6. eight /\ over /\ ~LeftOver(format, frames, f) => f # frames
    BY <2>5 DEF LeftOver
  <2>7. /\ 2 * f - 1 = 2 * frames - 1 => f = frames
        /\ 2 * f = 2 * frames => f = frames
        /\ 2 * f - 1 # 2 * frames /\ 2 * f # 2 * frames - 1
    OBVIOUS
  <2> HIDE DEF buffer, turned, over, eight
  <2>8. turned[2 * f - 1] = 2 * f
    BY <1>1, <2>1, <2>2, <2>3, <2>4, <2>7
  <2>9. ~LeftOver(format, frames, f) => turned[2 * f] = 2 * f - 1
    BY <1>1, <2>1, <2>2, <2>3, <2>4, <2>6, <2>7
  <2> QED
    BY <2>8, <2>9
<1> QED
  BY <1>2 DEF FramesReversed

-----------------------------------------------------------------------------
(* The table of volumes.                                                   *)

\* A fraction dropped twice.
LEMMA TwiceDropped ==
    ASSUME NEW x \in Nat, NEW d \in Bytes
    PROVE  /\ ((x \div 255) * d) \div 255 \in Nat
           /\ (x * d) \div 65025 - ((x \div 255) * d) \div 255 \in 0 .. 1
<1> DEFINE q == x \div 255
           r == x % 255
           a == (q * d) \div 255
           s == (q * d) % 255
<1>1. q \in Nat /\ r \in 0 .. 254 /\ x = 255 * q + r /\ d \in 0 .. 255
  BY DEF Bytes
<1>2. q * d \in Nat
  BY <1>1
<1>3. a \in Nat /\ s \in 0 .. 254 /\ q * d = 255 * a + s
  BY <1>2
<1> HIDE DEF q, r, a, s
<1>4. x * d = 255 * (q * d) + r * d
  BY <1>1
<1>5. r * d \in Nat /\ r * d <= 64770
  <2>1. (254 - r) * d >= 0 /\ r * d >= 0
    BY <1>1, SMT
  <2>2. (254 - r) * d = 254 * d - r * d
    BY <1>1, SMT
  <2>3. r * d \in Int /\ 254 * d <= 64770
    BY <1>1, SMT
  <2> QED
    BY <1>1, <2>1, <2>2, <2>3, SMT
<1> DEFINE p == q * d
           t == r * d
           y == x * d
<1>6. y = 255 * p + t /\ p = 255 * a + s /\ t \in Nat /\ t <= 64770
  BY <1>3, <1>4, <1>5, SMT
<1> HIDE DEF p, t, y
<1>7. y = 65025 * a + (255 * s + t) /\ 255 * s + t < 130050
  BY <1>3, <1>6, SMT
<1>8. y \div 65025 - a \in 0 .. 1
  BY <1>3, <1>6, <1>7, SMT
<1> QED
  BY <1>3, <1>8, SMT DEF a, q, y

\* A sample times a volume or two, each of at most 255.
Once(x) == Truncated(x, 255)
Both(x) == Truncated(x, 65025)
Part255(x) == x \div 255
Part65025(x) == x \div 65025

LEMMA TruncatedFlips ==
    ASSUME NEW x \in Nat
    PROVE  /\ Once(x) = Part255(x) /\ Once(-x) = -Part255(x) /\ Part255(x) \in Nat
           /\ Both(x) = Part65025(x) /\ Both(-x) = -Part65025(x) /\ Part65025(x) \in Nat
BY SMT DEF Truncated, Once, Both, Part255, Part65025

LEMMA TruncatedTwice ==
    ASSUME NEW x \in Int, NEW d \in Bytes
    PROVE  Once(Once(x) * d) - Both(x * d) \in -1 .. 1
<1>1. ASSUME NEW y \in Nat
      PROVE  /\ Once(Once(y) * d) - Both(y * d) \in -1 .. 1
             /\ Once(Once(-y) * d) - Both((-y) * d) \in -1 .. 1
  <2> DEFINE q == Part255(y)
             p == q * d
             z == y * d
  <2>1. Once(y) = q /\ Once(-y) = -q /\ q \in Nat
    BY TruncatedFlips
  <2>3. Part65025(z) - Part255(p) \in 0 .. 1
    BY TwiceDropped DEF Part255, Part65025
  <2> HIDE DEF q
  <2>2. p \in Nat /\ z \in Nat /\ (-q) * d = -p /\ (-y) * d = -z
    BY <2>1, SMT DEF Bytes
  <2>6. Once(y) * d = p /\ Once(-y) * d = -p /\ y * d = z
    BY <2>1, <2>2
  <2> HIDE DEF p, z
  <2>4. Once(p) = Part255(p) /\ Once(-p) = -Part255(p) /\ Part255(p) \in Nat
    BY <2>2, TruncatedFlips
  <2>5. Both(z) = Part65025(z) /\ Both(-z) = -Part65025(z) /\ Part65025(z) \in Nat
    BY <2>2, TruncatedFlips
  <2>7. Once(p) - Both(z) \in -1 .. 1 /\ Once(-p) - Both(-z) \in -1 .. 1
    BY <2>3, <2>4, <2>5, SMT
  <2> QED
    BY <2>2, <2>6, <2>7
<1>2. CASE x >= 0
  BY <1>1, <1>2
<1>3. CASE x < 0
  <2>1. -x \in Nat /\ -(-x) = x
    BY <1>3
  <2> QED
    BY <1>1, <2>1
<1> QED
  BY <1>2, <1>3

\* A column of the table of unsigned samples.
Column(sample, volume) == Once((sample - 128) * volume) + 128
Address(sample, volume) == 256 * volume + sample

LEMMA ColumnFound ==
    ASSUME NEW sample \in Bytes, NEW volume \in Bytes
    PROVE  /\ Filled["u8"][Address(sample, volume)] = Column(sample, volume)
           /\ Column(sample, volume) \in Bytes
<1> DEFINE at == Address(sample, volume)
<1>0. sample \in Int /\ volume \in Int /\ sample >= 0 /\ sample <= 255 /\ volume >= 0 /\ volume <= 255
  BY SMT DEF Bytes
<1>1. at \in Int /\ at >= 0 /\ at <= 65535 /\ at = 256 * volume + sample
  BY <1>0, SMT DEF Address
<1> HIDE DEF at
<1>2. at % 256 = sample
  BY <1>0, <1>1, SMT
<1>3. at \div 256 = volume
  BY <1>0, <1>1, SMT
<1>4. at \in 0 .. TableSize - 1
  <2>1. TableSize \in Int /\ at < TableSize
    BY <1>1, SMT DEF TableSize
  <2> QED
    BY <1>1, <2>1, SMT
<1>5. Filled["u8"][at] = (Truncated(((at % 256) - 128) * (at \div 256), 255) + 128) % 256
  BY <1>4 DEF Filled
<1>6. Column(sample, volume) \in Bytes
  <2> DEFINE x == (sample - 128) * volume
  <2>1. x \in Int /\ -32640 <= x /\ x <= 32385
    <3>2. sample * volume >= 0 /\ (255 - sample) * volume >= 0
      BY <1>0, SMT
    <3>3. /\ (255 - sample) * volume = 255 * volume - sample * volume
          /\ (sample - 128) * volume = sample * volume - 128 * volume
          /\ sample * volume \in Int
      BY <1>0, SMT
    <3> QED
      BY <1>0, <3>2, <3>3, SMT
  <2> HIDE DEF x
  <2>2. Once(x) + 128 \in 0 .. 255
    BY <2>1, SMT DEF Truncated, Once
  <2> QED
    BY <2>2, SMT DEF x, Column, Bytes
<1>7. Filled["u8"][at] = Column(sample, volume) % 256
  BY <1>2, <1>3, <1>5 DEF Column, Once
<1>8. Column(sample, volume) % 256 = Column(sample, volume)
  <2> DEFINE c == Column(sample, volume)
  <2> HIDE DEF c
  <2>1. c \in Bytes => c % 256 = c
    BY SMT DEF Bytes
  <2> QED
    BY <1>6, <2>1 DEF c
<1> QED
  BY <1>6, <1>7, <1>8 DEF at

LEMMA TableIsExact ==
    ASSUME NEW volumes, volumes \subseteq Bytes
    PROVE  NoLossInQuality(volumes)
<1>1. ASSUME NEW sample \in Bytes, NEW volume \in Bytes, NEW distance \in Bytes
      PROVE  _Eff_position_table_u8("u8", sample, volume, distance)
                 - Scaled(sample, volume, distance) \in -1 .. 1
  <2> DEFINE x == (sample - 128) * volume
             w == Column(sample, volume)
  <2>1. w \in Bytes /\ Filled["u8"][Address(sample, volume)] = w
    BY ColumnFound
  <2>2. x \in Int /\ w = Once(x) + 128
    BY SMT DEF Column, Bytes
  <2> HIDE DEF w
  <2>3. Filled["u8"][Address(w, distance)] = Column(w, distance)
    BY <2>1, ColumnFound
  <2>4. _Eff_position_table_u8("u8", sample, volume, distance) = Column(w, distance)
    BY <2>1, <2>3 DEF _Eff_position_table_u8, Address
  <2>5. Scaled(sample, volume, distance) = Both(x * distance) + 128
    BY DEF Scaled, Both
  <2> HIDE DEF x
  <2>6. Once(Once(x) * distance) - Both(x * distance) \in -1 .. 1
    BY <2>2, TruncatedTwice
  <2>7. Once(x) \in Int /\ Once(Once(x) * distance) \in Int /\ Both(x * distance) \in Int
    <3>1. Once(x) \in Int
      BY <2>2, SMT DEF Truncated, Once
    <3> DEFINE p == Once(x) * distance
               z == x * distance
    <3>2. p \in Int /\ z \in Int
      BY <2>2, <3>1, SMT DEF Bytes
    <3> HIDE DEF p, z
    <3>3. Once(p) \in Int /\ Both(z) \in Int
      BY <3>2, SMT DEF Truncated, Once, Both
    <3> QED
      BY <3>1, <3>3 DEF p, z
  <2>8. Column(w, distance) = Once(Once(x) * distance) + 128
    <3>1. w - 128 = Once(x)
      BY <2>2, <2>7, SMT
    <3> QED
      BY <3>1 DEF Column
  <2>9. Column(w, distance) - (Both(x * distance) + 128) \in -1 .. 1
    BY <2>6, <2>7, <2>8, SMT
  <2> QED
    BY <2>4, <2>5, <2>9
<1>2. 0 .. 255 = Bytes
  BY DEF Bytes
<1> QED
  BY <1>1, <1>2, Zenon DEF NoLossInQuality

-----------------------------------------------------------------------------
(* The slopes of the directions.                                           *)

\* The volumes of a direction, speaker by speaker.
FrontLeft(a) ==
    IF a < 90 THEN Part(180 - a, 179)
    ELSE IF a < 135 THEN 255 - Part(a - 45, 89)
    ELSE IF a < 180 THEN 255 - Part(225 - a, 89)
    ELSE IF a < 270 THEN Part(a - 90, 179) ELSE 255
FrontRight(a) ==
    IF a < 90 THEN 255
    ELSE IF a < 180 THEN Part(270 - a, 179)
    ELSE IF a < 225 THEN 255 - Part(a - 135, 89)
    ELSE IF a < 270 THEN 255 - Part(315 - a, 89) ELSE Part(a - 180, 179)
BackLeft(a) ==
    IF a < 45 THEN 255 - Part(a + 45, 89)
    ELSE IF a < 90 THEN 255 - Part(135 - a, 89)
    ELSE IF a < 180 THEN Part(a, 179)
    ELSE IF a < 270 THEN 255 ELSE Part(450 - a, 179)
BackRight(a) ==
    IF a < 45 THEN 255 - Part(90 - a, 179)
    ELSE IF a < 90 THEN Part(90 + a, 179)
    ELSE IF a < 180 THEN 255
    ELSE IF a < 270 THEN Part(360 - a, 179)
    ELSE IF a < 315 THEN 255 - Part(a - 225, 89) ELSE 255 - Part(405 - a, 89)
Middle(a) ==
    IF a < 45 THEN 255
    ELSE IF a < 135 THEN Part(225 - a, 179)
    ELSE IF a < 180 THEN 255 - Part(a - 90, 89)
    ELSE IF a < 225 THEN 255 - Part(270 - a, 89)
    ELSE IF a < 315 THEN Part(a - 135, 179) ELSE 255

LEMMA SurroundIs ==
    ASSUME NEW a \in Angles
    PROVE  /\ Surround(a)[1] = FrontLeft(a) /\ Surround(a)[2] = FrontRight(a)
           /\ Surround(a)[3] = BackLeft(a) /\ Surround(a)[4] = BackRight(a)
           /\ Surround(a)[5] = Middle(a)
<1> USE DEF Angles, FrontLeft, FrontRight, BackLeft, BackRight, Middle
<1>1. CASE a < 45
  BY <1>1, SMTT(40) DEF Surround
<1>2. CASE 45 <= a /\ a <= 89
  BY <1>2, SMTT(40) DEF Surround
<1>3. CASE 90 <= a /\ a <= 134
  BY <1>3, SMTT(40) DEF Surround
<1>4. CASE 135 <= a /\ a <= 179
  BY <1>4, SMTT(40) DEF Surround
<1>5. CASE 180 <= a /\ a <= 224
  BY <1>5, SMTT(40) DEF Surround
<1>6. CASE 225 <= a /\ a <= 269
  BY <1>6, SMTT(40) DEF Surround
<1>7. CASE 270 <= a /\ a <= 314
  BY <1>7, SMTT(40) DEF Surround
<1>8. CASE 315 <= a
  BY <1>8, SMTT(40) DEF Surround
<1> QED
  BY <1>1, <1>2, <1>3, <1>4, <1>5, <1>6, <1>7, <1>8, SMT

Up(a) == IF a = 359 THEN 0 ELSE a + 1
Down(a) == IF a = 0 THEN 359 ELSE a - 1

\* How a volume goes from one direction to the next and to its mirror image.
Slopes(here, next, mirror) ==
    Clamped(here) >= Clamped(next) /\ Clamped(here) - Clamped(next) <= 4
    /\ Clamped(here) - Clamped(mirror) \in -2 .. 2

\* The direction next to a, away from one that stands at s; and the one that lies
\* as far on the other side of it.
Away(a, s) ==
    IF (0 <= a - s /\ a - s <= 179) \/ a - s <= -181 THEN Up(a) ELSE Down(a)
Opposite(a, s) ==
    IF 2 * s - a < 0 THEN 2 * s - a + 360
    ELSE IF 2 * s - a >= 360 THEN 2 * s - a - 360 ELSE 2 * s - a

LEMMA SurroundSlopes ==
    ASSUME NEW a \in Angles
    PROVE  /\ Slopes(FrontLeft(a), FrontLeft(Away(a, 315)), FrontLeft(Opposite(a, 315)))
           /\ Slopes(FrontRight(a), FrontRight(Away(a, 45)), FrontRight(Opposite(a, 45)))
           /\ Slopes(BackLeft(a), BackLeft(Away(a, 225)), BackLeft(Opposite(a, 225)))
           /\ Slopes(BackRight(a), BackRight(Away(a, 135)), BackRight(Opposite(a, 135)))
           /\ Slopes(Middle(a), Middle(Away(a, 0)), Middle(Opposite(a, 0)))
<1> USE DEF Angles, Slopes, Clamped, Up, Down, Part, Away, Opposite
<1>1. Slopes(FrontLeft(a), FrontLeft(Away(a, 315)), FrontLeft(Opposite(a, 315)))
  BY SMTT(60) DEF FrontLeft
<1>2. Slopes(FrontRight(a), FrontRight(Away(a, 45)), FrontRight(Opposite(a, 45)))
  BY SMTT(60) DEF FrontRight
<1>3. Slopes(BackLeft(a), BackLeft(Away(a, 225)), BackLeft(Opposite(a, 225)))
  BY SMTT(120) DEF BackLeft
<1>4. Slopes(BackRight(a), BackRight(Away(a, 135)), BackRight(Opposite(a, 135)))
  BY SMTT(60) DEF BackRight
<1>5. Slopes(Middle(a), Middle(Away(a, 0)), Middle(Opposite(a, 0)))
  BY SMTT(60) DEF Middle
<1> HIDE DEF Angles, Slopes, Clamped, Up, Down, Part, Away, Opposite
<1> QED
  BY <1>1, <1>2, <1>3, <1>4, <1>5, SMT

\* The two volumes of a stereo output.
StereoLeft(a) ==
    IF a < 90 THEN 255 - Part(a, 89) ELSE IF a < 180 THEN Part(a - 90, 89) ELSE 255
StereoRight(a) ==
    IF a < 180 THEN 255 ELSE IF a < 270 THEN 255 - Part(a - 180, 89) ELSE Part(a - 270, 89)

LEMMA StereoIs ==
    ASSUME NEW a \in Angles
    PROVE  Stereo(a)[1] = StereoLeft(a) /\ Stereo(a)[2] = StereoRight(a)
<1> USE DEF Angles, StereoLeft, StereoRight
<1>1. CASE a < 90
  BY <1>1, SMTT(40) DEF Stereo
<1>2. CASE 90 <= a /\ a <= 179
  BY <1>2, SMTT(40) DEF Stereo
<1>3. CASE 180 <= a /\ a <= 269
  BY <1>3, SMTT(40) DEF Stereo
<1>4. CASE 270 <= a
  BY <1>4, SMTT(40) DEF Stereo
<1> QED
  BY <1>1, <1>2, <1>3, <1>4, SMT

LEMMA StereoSlopes ==
    ASSUME NEW a \in Angles
    PROVE  /\ Slopes(StereoLeft(a), StereoLeft(Away(a, 270)), StereoLeft(Opposite(a, 270)))
           /\ Slopes(StereoRight(a), StereoRight(Away(a, 90)), StereoRight(Opposite(a, 90)))
<1> USE DEF Angles, Slopes, Clamped, Up, Down, Part, Away, Opposite
<1>1. Slopes(StereoLeft(a), StereoLeft(Away(a, 270)), StereoLeft(Opposite(a, 270)))
  BY SMTT(60) DEF StereoLeft
<1>2. Slopes(StereoRight(a), StereoRight(Away(a, 90)), StereoRight(Opposite(a, 90)))
  BY SMTT(60) DEF StereoRight
<1> HIDE DEF Angles, Slopes, Clamped, Up, Down, Part, Away, Opposite
<1> QED
  BY <1>1, <1>2, SMT

LEMMA AwayIsFarther ==
    ASSUME NEW a \in Angles, NEW s \in Angles
    PROVE  /\ Normal(2 * s - a) = Opposite(a, s)
           /\ Away(a, s) = IF Between(Normal(a + 1), s) > Between(a, s)
                           THEN Normal(a + 1) ELSE Normal(a - 1)
           /\ Away(a, s) \in Angles /\ Opposite(a, s) \in Angles
<1>1. Normal(a + 1) = Up(a) /\ Normal(a - 1) = Down(a) /\ Up(a) \in Angles /\ Down(a) \in Angles
  BY SMT DEF Angles, Normal, Up, Down
<1>2. Normal(2 * s - a) = Opposite(a, s) /\ Opposite(a, s) \in Angles
  BY SMT DEF Angles, Normal, Opposite
<1>3. Between(Up(a), s) > Between(a, s) <=> (0 <= a - s /\ a - s <= 179) \/ a - s <= -181
  <2> DEFINE off == IF a >= s THEN a - s ELSE a - s + 360
             next == IF off = 359 THEN 0 ELSE off + 1
  <2>1. (a - s) % 360 = off /\ off \in 0 .. 359
    BY SMT DEF Angles
  <2>2. (Up(a) - s) % 360 = next
    BY SMTT(40) DEF Angles, Up
  <2>3. Between(Up(a), s) > Between(a, s) <=> off <= 179
    <3> HIDE DEF off
    <3> QED
      BY <2>1, <2>2, SMT DEF Between
  <2> QED
    BY <2>3, SMT DEF Angles
<1> QED
  BY <1>1, <1>2, <1>3 DEF Away

\* The volume of a speaker at a direction, in a room that is not turned.
Volume(channels, k, a) == Clamped(Amplitudes(channels, a)[k])

LEMMA Unturned ==
    ASSUME NEW channels \in {2, 4, 6}, NEW a
    PROVE  \A k \in 1 .. 5 : set_amplitudes(channels, a, 0)[k] = Volume(channels, k, a)
<1> DEFINE c == [k \in 1 .. 5 |-> Clamped(Amplitudes(channels, a)[k])]
<1>1. set_amplitudes(channels, a, 0) = <<c[1], c[2], c[3], c[4]>> \o <<c[5], 255>>
  BY DEF set_amplitudes
<1>2. \A k \in 1 .. 5 : c[k] = Volume(channels, k, a)
  BY DEF Volume
<1> HIDE DEF c
<1>3. \A p, q, r, s, t, u :
         LET w == <<p, q, r, s>> \o <<t, u>>
         IN  w[1] = p /\ w[2] = q /\ w[3] = r /\ w[4] = s /\ w[5] = t
  OBVIOUS
<1>4. \A k \in 1 .. 5 : k = 1 \/ k = 2 \/ k = 3 \/ k = 4 \/ k = 5
  OBVIOUS
<1> QED
  BY <1>1, <1>2, <1>3, <1>4

\* A volume falls from one direction to the next one away from the speaker.
Falls(channels, k, a) ==
    LET s == Stands(channels)[k]
        here == Volume(channels, k, a)
    IN  /\ here >= Volume(channels, k, Away(a, s))
        /\ here - Volume(channels, k, Away(a, s)) <= 4
        /\ here - Volume(channels, k, Opposite(a, s)) \in -2 .. 2

LEMMA SpeakersFall ==
    ASSUME NEW channels \in {2, 4, 6}, NEW a \in Angles, NEW k \in DOMAIN Stands(channels)
    PROVE  Falls(channels, k, a)
<1>1. CASE channels = 2
  <2>0. 270 \in Angles /\ 90 \in Angles
    BY DEF Angles
  <2>1. /\ Stands(channels)[1] = 270 /\ Stands(channels)[2] = 90
        /\ k \in 1 .. 2 /\ \A b : Amplitudes(channels, b) = Stereo(b)
    BY <1>1 DEF Stands, Amplitudes
  <2>2. /\ Away(a, 270) \in Angles /\ Opposite(a, 270) \in Angles
        /\ Away(a, 90) \in Angles /\ Opposite(a, 90) \in Angles
    BY <2>0, AwayIsFarther
  <2>3. \A b \in Angles : Volume(channels, 1, b) = Clamped(StereoLeft(b))
                         /\ Volume(channels, 2, b) = Clamped(StereoRight(b))
    BY <2>1, StereoIs DEF Volume
  <2>4. CASE k = 1
    BY <2>1, <2>2, <2>3, <2>4, StereoSlopes DEF Falls, Slopes
  <2>5. CASE k = 2
    BY <2>1, <2>2, <2>3, <2>5, StereoSlopes DEF Falls, Slopes
  <2> QED
    BY <2>1, <2>4, <2>5
<1>2. CASE channels \in {4, 6}
  <2>0. 315 \in Angles /\ 45 \in Angles /\ 225 \in Angles /\ 135 \in Angles /\ 0 \in Angles
    BY DEF Angles
  <2>1. /\ Stands(channels)[1] = 315 /\ Stands(channels)[2] = 45 /\ Stands(channels)[3] = 225
        /\ Stands(channels)[4] = 135 /\ Stands(channels)[5] = 0
        /\ k \in 1 .. 5 /\ \A b : Amplitudes(channels, b) = Surround(b)
    BY <1>2 DEF Stands, Amplitudes
  <2>2. /\ Away(a, 315) \in Angles /\ Opposite(a, 315) \in Angles
        /\ Away(a, 45) \in Angles /\ Opposite(a, 45) \in Angles
        /\ Away(a, 225) \in Angles /\ Opposite(a, 225) \in Angles
        /\ Away(a, 135) \in Angles /\ Opposite(a, 135) \in Angles
        /\ Away(a, 0) \in Angles /\ Opposite(a, 0) \in Angles
    BY <2>0, AwayIsFarther
  <2>3. \A b \in Angles : /\ Volume(channels, 1, b) = Clamped(FrontLeft(b))
                            /\ Volume(channels, 2, b) = Clamped(FrontRight(b))
                            /\ Volume(channels, 3, b) = Clamped(BackLeft(b))
                            /\ Volume(channels, 4, b) = Clamped(BackRight(b))
                            /\ Volume(channels, 5, b) = Clamped(Middle(b))
    BY <2>1, SurroundIs DEF Volume
  <2>4. CASE k = 1
    BY <2>1, <2>2, <2>3, <2>4, SurroundSlopes DEF Falls, Slopes
  <2>5. CASE k = 2
    BY <2>1, <2>2, <2>3, <2>5, SurroundSlopes DEF Falls, Slopes
  <2>6. CASE k = 3
    BY <2>1, <2>2, <2>3, <2>6, SurroundSlopes DEF Falls, Slopes
  <2>7. CASE k = 4
    BY <2>1, <2>2, <2>3, <2>7, SurroundSlopes DEF Falls, Slopes
  <2>8. CASE k = 5
    BY <2>1, <2>2, <2>3, <2>8, SurroundSlopes DEF Falls, Slopes
  <2> QED
    BY <2>1, <2>4, <2>5, <2>6, <2>7, <2>8
<1> QED
  BY <1>1, <1>2

LEMMA NearerIsLouder == \A channels \in {2, 4, 6} : NearerLouder[channels]
<1> SUFFICES ASSUME NEW channels \in {2, 4, 6} PROVE NearerLouder[channels]
  OBVIOUS
<1> DEFINE amps == [angle \in Angles |-> set_amplitudes(channels, angle, 0)]
           mirror(k, a) == Normal(2 * Stands(channels)[k] - a)
           farther(k, a) == IF Between(Normal(a + 1), Stands(channels)[k])
                                  > Between(a, Stands(channels)[k])
                            THEN Normal(a + 1) ELSE Normal(a - 1)
           fine(k, a) == /\ amps[a][k] >= amps[farther(k, a)][k]
                         /\ amps[a][k] - amps[farther(k, a)][k] <= 4
                         /\ amps[a][k] - amps[mirror(k, a)][k] \in -2..2
<1>1. ASSUME NEW k \in DOMAIN Stands(channels), NEW a \in Angles
      PROVE  fine(k, a)
  <2>1. Stands(channels)[k] \in Angles /\ k \in 1 .. 5
    BY DEF Stands, Angles
  <2>2. /\ mirror(k, a) = Opposite(a, Stands(channels)[k])
        /\ farther(k, a) = Away(a, Stands(channels)[k])
        /\ mirror(k, a) \in Angles /\ farther(k, a) \in Angles
    BY <2>1, AwayIsFarther
  <2>3. \A b \in Angles : amps[b][k] = Volume(channels, k, b)
    BY <2>1, Unturned
  <2>4. Falls(channels, k, a)
    BY SpeakersFall
  <2> HIDE DEF amps, mirror, farther
  <2> QED
    BY <2>2, <2>3, <2>4 DEF Falls
<1>2. NearerLouder[channels] = \A k \in DOMAIN Stands(channels) : \A a \in Angles : fine(k, a)
  BY DEF NearerLouder, Angles
<1> QED
  BY <1>1, <1>2

-----------------------------------------------------------------------------
(* The table is there where it is used.                                    *)

\* Until the table is filled, nobody's block of arguments is in use on an output
\* that works by it.
TableHere == Opened /\ ByTable /\ _Eff_volume_table = "none" => \A o \in Owners : Free(args[o])

LEMMA TableStaysHere ==
    ASSUME IInv, TableHere, [Next]_vars
    PROVE  TableHere'
<1>1. Shaped
  BY DEF IInv, Lists
<1>2. CASE Opened /\ spec' = spec /\ TableAskedFor
  BY <1>2 DEF TableHere, ByTable, TableAskedFor, _Eff_build_volume_table_u8,
     _Eff_build_volume_table_s8
<1>3. CASE UNCHANGED _Eff_volume_table /\ ArgsGo /\ spec' = spec
  <2> SUFFICES ASSUME (Opened /\ ByTable /\ _Eff_volume_table = "none")', NEW o \in Owners
               PROVE  Free(args'[o])
    BY DEF TableHere
  <2>1. Free(args[o])
    BY <1>3 DEF TableHere, Opened, ByTable
  <2>2. args'[o] \in {args[o], NoArgs} /\ Free(NoArgs)
    BY <1>3 DEF ArgsGo, Free
  <2> QED
    BY <2>1, <2>2
<1>4. CASE Mix_CloseAudio
  BY <1>4 DEF Mix_CloseAudio, TableHere, Opened
<1>5. CASE UNCHANGED _Eff_volume_table /\ \E s \in Specs : Mix_OpenAudio(s)
  <2>1. ~Opened /\ loaded = {} /\ UNCHANGED args
    BY <1>5 DEF Mix_OpenAudio
  <2>2. \A o \in Owners : Free(args[o])
    BY <2>1, NobodyHolds
  <2> QED
    BY <2>1, <2>2 DEF TableHere
<1> QED
  BY <1>1, <1>2, <1>3, <1>4, <1>5, TableStep

LEMMA TableIsHere ==
    ASSUME IInv, TableHere, Opened, ByTable, NEW o \in Owners, Listed(o, "position") # {}
    PROVE  _Eff_volume_table # "none"
<1>1. args[o] # NoArgs /\ args[o].in_use
  BY InUseFollows DEF InUseWhileRegistered
<1> QED
  BY <1>1 DEF TableHere, Free

\* What the effects make of samples, for all directions, volumes, distances and
\* lengths of a buffer, on outputs for which there are position effects: the slopes
\* meet (set_amplitudes of effect_position.c); where the position effect works by the
\* table of effects_internal.c, that is filled, and filled for unsigned samples it
\* makes of them what the arithmetic would; and reversed stereo swaps every frame but
\* the right sample of one left over (effect_stereoreverse.c).  Nothing is said of
\* samples that go through a table filled for signed ones.
THEOREM SamplesExact ==
    ASSUME Existing, \A s \in Specs : s.channels \in {1, 2, 4, 6}
    PROVE  Spec => []SamplesAsMeant
<1>1. ASSUME IInv, TableHere PROVE SamplesAsMeant
  <2> SUFFICES ASSUME Opened PROVE SamplesAsMeant
    BY DEF SamplesAsMeant, NearerNeverSofter, TablesLoseNothing, LeftIsRight
  <2>1. spec \in Specs
    BY <1>1 DEF IInv, Numbers, Opened
  <2>2. spec.channels \in {1, 2, 4, 6} /\ spec.format \in Formats
    BY <2>1, EffectsAssumption
  <2>3. NearerNeverSofter
    BY <2>2, NearerIsLouder DEF NearerNeverSofter
  <2>4. TablesLoseNothing
    <3>1. Volumes \subseteq Bytes
      BY ArgumentsAssumption DEF Volumes, Bytes
    <3>2. QualityKept
      BY <3>1, TableIsExact DEF QualityKept
    <3>3. ByTable /\ (\E o \in Owners : Listed(o, "position") # {}) => _Eff_volume_table # "none"
      BY <1>1, TableIsHere
    <3> QED
      BY <3>2, <3>3 DEF TablesLoseNothing
  <2>5. LeftIsRight
    <3>1. \A n \in FrameCounts : FramesReversed(spec.format, n)
      BY <2>2, FramesTurned, EffectsAssumption
    <3> QED
      BY <2>2, <3>1 DEF LeftIsRight, AllReversed
  <2> QED
    BY <2>3, <2>4, <2>5 DEF SamplesAsMeant
<1>2. Init => IInv /\ TableHere
  BY Starts DEF Init, TableHere, Opened
<1>3. IInv /\ TableHere /\ [Next]_vars => IInv' /\ TableHere'
  BY Keeps, TableStaysHere
<1> QED
  BY <1>1, <1>2, <1>3, PTL DEF Spec
=============================================================================
