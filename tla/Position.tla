------------------------------ MODULE Position ------------------------------
(***************************************************************************)
(* The arithmetic of the position effects (effect_position.c): which effect *)
(* function serves an output format, what each of them does to one frame of *)
(* samples, and how loud a direction is on each speaker.                    *)
(*                                                                         *)
(* Speakers, sources and amplitudes are numbered as in a frame: 1 left,     *)
(* 2 right, 3 left rear, 4 right rear, 5 center, 6 low frequencies.  What   *)
(* a speaker gets is a set of pairs <<source, amplitude>>: the source       *)
(* sample and the field of the arguments it is scaled by; two pairs are     *)
(* mixed at half.  Amplitudes are the bytes 0..255.                         *)
(***************************************************************************)
EXTENDS Integers, Sequences

Formats == {"u8", "s8", "u16lsb", "s16lsb", "u16msb", "s16msb",
            "s32lsb", "s32msb", "f32sys"}

Rooms == {0, 90, 180, 270}

-----------------------------------------------------------------------------
(* The effect functions.                                                   *)

\* Which amplitude scales the sample of each of the four corner speakers, in
\* a room turned by so many degrees.
Turned == [room \in Rooms |-> CASE room = 0   -> <<1, 2, 3, 4>>
                               [] room = 90  -> <<2, 4, 1, 3>>
                               [] room = 180 -> <<4, 3, 2, 1>>
                               [] room = 270 -> <<3, 1, 4, 2>>]

\* The samples stay where they are and their amplitudes turn.
InPlace4(room) == [k \in 1..4 |-> {<<k, Turned[room][k]>>}]

\* Every sample is scaled first and then moves with its amplitude; "read" says
\* which source is read for each amplitude.
Moved4(read, room) ==
    [k \in 1..4 |-> {<<read[Turned[room][k]], Turned[room][k]>>}]

\* A six-speaker frame has its own center only in a room that is not turned;
\* otherwise the center is what the two front speakers got, at half.
WithCenter(corners, room, center) ==
    corners \o << IF room = 0 THEN {<<5, 5>>} ELSE center, {<<6, 6>>} >>

InPlace6(room) ==
    WithCenter(InPlace4(room), room,
               {<<5, Turned[room][1]>>, <<5, Turned[room][2]>>})
Moved6(room) ==
    LET corners == Moved4(<<1, 2, 3, 4>>, room)
    IN  WithCenter(corners, room, corners[1] \union corners[2])

\* Stereo: only some of the functions look at the room, which is never turned.
InPlace2(room) ==
    IF room = 180 THEN << {<<1, 2>>}, {<<2, 1>>} >> ELSE << {<<1, 1>>}, {<<2, 2>>} >>
Moved2(room) ==
    IF room = 180 THEN << {<<2, 2>>}, {<<1, 1>>} >> ELSE << {<<1, 1>>}, {<<2, 2>>} >>
Straight2(room) == << {<<1, 1>>}, {<<2, 2>>} >>

_Eff_position_u8(room) == InPlace2(room)
_Eff_position_u8_c4(room) == InPlace4(room)
_Eff_position_u8_c6(room) == InPlace6(room)
_Eff_position_s8(room) == InPlace2(room)
_Eff_position_s8_c4(room) == InPlace4(room)
_Eff_position_s8_c6(room) == InPlace6(room)
_Eff_position_u16lsb(room) == Moved2(room)
_Eff_position_u16lsb_c4(room) == Moved4(<<1, 2, 3, 4>>, room)
_Eff_position_u16lsb_c6(room) == Moved6(room)
_Eff_position_s16lsb(room) == Moved2(room)
\* The rear samples are read from one place before their own.
_Eff_position_s16lsb_c4(room) == Moved4(<<1, 2, 2, 3>>, room)
_Eff_position_s16lsb_c6(room) == Moved6(room)
_Eff_position_u16msb(room) == Moved2(room)
_Eff_position_u16msb_c4(room) == Moved4(<<1, 2, 3, 4>>, room)
_Eff_position_u16msb_c6(room) == Moved6(room)
_Eff_position_s16msb(room) == Straight2(room)
_Eff_position_s16msb_c4(room) == Moved4(<<1, 2, 3, 4>>, room)
_Eff_position_s16msb_c6(room) == Moved6(room)
_Eff_position_s32lsb(room) == Moved2(room)
\* Again one place before their own.
_Eff_position_s32lsb_c4(room) == Moved4(<<1, 2, 2, 3>>, room)
_Eff_position_s32lsb_c6(room) == Moved6(room)
_Eff_position_s32msb(room) == Straight2(room)
_Eff_position_s32msb_c4(room) == Moved4(<<1, 2, 3, 4>>, room)
_Eff_position_s32msb_c6(room) == Moved6(room)
_Eff_position_f32sys(room) == Straight2(room)
_Eff_position_f32sys_c4(room) == Moved4(<<1, 2, 3, 4>>, room)
_Eff_position_f32sys_c6(room) == Moved6(room)

\* The function for a format and a number of channels; there is none for other
\* numbers of channels.
NoFunc == <<"none">>

get_position_effect_func(format, channels) ==
    IF channels \in {1, 2, 4, 6} THEN <<"position", format, channels>> ELSE NoFunc

\* What the function f does to a frame.  The functions for two channels also
\* serve one: their amplitudes are then all alike.
Outputs(f, room) ==
    LET format == f[2]
        c4 == f[3] = 4
        c6 == f[3] = 6
        c2 == ~c4 /\ ~c6
    IN  CASE format = "u8" /\ c4     -> _Eff_position_u8_c4(room)
          [] format = "u8" /\ c6     -> _Eff_position_u8_c6(room)
          [] format = "u8" /\ c2     -> _Eff_position_u8(room)
          [] format = "s8" /\ c4     -> _Eff_position_s8_c4(room)
          [] format = "s8" /\ c6     -> _Eff_position_s8_c6(room)
          [] format = "s8" /\ c2     -> _Eff_position_s8(room)
          [] format = "u16lsb" /\ c4 -> _Eff_position_u16lsb_c4(room)
          [] format = "u16lsb" /\ c6 -> _Eff_position_u16lsb_c6(room)
          [] format = "u16lsb" /\ c2 -> _Eff_position_u16lsb(room)
          [] format = "s16lsb" /\ c4 -> _Eff_position_s16lsb_c4(room)
          [] format = "s16lsb" /\ c6 -> _Eff_position_s16lsb_c6(room)
          [] format = "s16lsb" /\ c2 -> _Eff_position_s16lsb(room)
          [] format = "u16msb" /\ c4 -> _Eff_position_u16msb_c4(room)
          [] format = "u16msb" /\ c6 -> _Eff_position_u16msb_c6(room)
          [] format = "u16msb" /\ c2 -> _Eff_position_u16msb(room)
          [] format = "s16msb" /\ c4 -> _Eff_position_s16msb_c4(room)
          [] format = "s16msb" /\ c6 -> _Eff_position_s16msb_c6(room)
          [] format = "s16msb" /\ c2 -> _Eff_position_s16msb(room)
          [] format = "s32lsb" /\ c4 -> _Eff_position_s32lsb_c4(room)
          [] format = "s32lsb" /\ c6 -> _Eff_position_s32lsb_c6(room)
          [] format = "s32lsb" /\ c2 -> _Eff_position_s32lsb(room)
          [] format = "s32msb" /\ c4 -> _Eff_position_s32msb_c4(room)
          [] format = "s32msb" /\ c6 -> _Eff_position_s32msb_c6(room)
          [] format = "s32msb" /\ c2 -> _Eff_position_s32msb(room)
          [] format = "f32sys" /\ c4 -> _Eff_position_f32sys_c4(room)
          [] format = "f32sys" /\ c6 -> _Eff_position_f32sys_c6(room)
          [] format = "f32sys" /\ c2 -> _Eff_position_f32sys(room)

-----------------------------------------------------------------------------
(* Directions.                                                             *)

\* (int)(255.0f * (a / d)): exact, as no product comes close to an integer.
Part(a, d) == (255 * a) \div d

Clamped(v) == IF v < 0 THEN 0 ELSE IF v > 255 THEN 255 ELSE v

\* Left, right, left rear, right rear and center for a direction, before the
\* room is turned.
Stereo(angle) ==
    CASE angle < 90 -> <<255 - Part(angle, 89), 255, 255, 255, 255>>
      [] angle \in 90..179  -> <<Part(angle - 90, 89), 255, 255, 255, 255>>
      [] angle \in 180..269 -> <<255, 255 - Part(angle - 180, 89), 255, 255, 255>>
      [] angle >= 270 -> <<255, Part(angle - 270, 89), 255, 255, 255>>

Surround(angle) ==
    CASE angle < 45 ->
           <<Part(180 - angle, 179), 255,
             255 - Part(angle + 45, 89), 255 - Part(90 - angle, 179), 255>>
      [] angle \in 45..89 ->
           <<Part(180 - angle, 179), 255,
             255 - Part(135 - angle, 89), Part(90 + angle, 179), Part(225 - angle, 179)>>
      [] angle \in 90..134 ->
           <<255 - Part(angle - 45, 89), Part(270 - angle, 179),
             Part(angle, 179), 255, Part(225 - angle, 179)>>
      [] angle \in 135..179 ->
           <<255 - Part(225 - angle, 89), Part(270 - angle, 179),
             Part(angle, 179), 255, 255 - Part(angle - 90, 89)>>
      [] angle \in 180..224 ->
           <<Part(angle - 90, 179), 255 - Part(angle - 135, 89),
             255, Part(360 - angle, 179), 255 - Part(270 - angle, 89)>>
      [] angle \in 225..269 ->
           <<Part(angle - 90, 179), 255 - Part(315 - angle, 89),
             255, Part(360 - angle, 179), Part(angle - 135, 179)>>
      [] angle \in 270..314 ->
           <<255, Part(angle - 180, 179),
             Part(450 - angle, 179), 255 - Part(angle - 225, 89), Part(angle - 135, 179)>>
      [] angle >= 315 ->
           <<255, Part(angle - 180, 179),
             Part(450 - angle, 179), 255 - Part(405 - angle, 89), 255>>

Amplitudes(channels, angle) ==
    IF channels = 2 THEN Stereo(angle)
    ELSE IF channels \in {4, 6} THEN Surround(angle)
    ELSE <<255, 255, 255, 255, 255>>

\* Mutant: a room turned to the left is kept like one turned to the right.
KeptTheOtherWay(channels, angle, room) ==
    LET a == Amplitudes(channels, angle)
        kept == IF room \in {90, 270} THEN <<a[3], a[1], a[4], a[2]>>
                ELSE IF room = 180 THEN <<a[4], a[3], a[2], a[1]>>
                ELSE <<a[1], a[2], a[3], a[4]>>
    IN  [k \in 1..4 |-> Clamped(kept[k])] \o <<Clamped(a[5]), 255>>

\* The amplitudes in the order in which they are kept for a turned room.
set_amplitudes(channels, angle, room) ==
    LET a == [k \in 1..5 |-> Clamped(Amplitudes(channels, angle)[k])]
        kept == CASE room = 90  -> <<a[3], a[1], a[4], a[2]>>
                  [] room = 180 -> IF channels = 2 THEN <<a[2], a[1], 255, 255>>
                                   ELSE <<a[4], a[3], a[2], a[1]>>
                  [] room = 270 -> <<a[2], a[4], a[1], a[3]>>
                  [] OTHER      -> <<a[1], a[2], a[3], a[4]>>
    IN  kept \o <<a[5], 255>>

\* The room turns with the direction, but not for one or two channels.
RoomAngle(channels, angle) ==
    IF channels \notin {4, 6} \/ angle > 315 THEN 0
    ELSE IF angle > 225 THEN 270
    ELSE IF angle > 135 THEN 180
    ELSE IF angle > 45 THEN 90 ELSE 0

\* C's division rounds towards zero.
Quotient(a, d) == IF a < 0 THEN -((-a) \div d) ELSE a \div d

\* Any angle, as one of 0..359.
Normal(angle) == angle % 360

\* On four and six channels, panning is a direction.
PanAngle(left, right) ==
    IF left = 255 /\ right = 255 THEN 0 ELSE Quotient(-(127 - left) * 90, 128)

-----------------------------------------------------------------------------
(* What the arithmetic is for.                                             *)

\* Where the corner speakers, or the two of a stereo output, stand.
Stands(channels) ==
    IF channels = 2 THEN <<270, 90>> ELSE <<315, 45, 225, 135, 0>>

\* The angle between two directions.
Between(a, b) == LET d == (a - b) % 360 IN IF d > 180 THEN 360 - d ELSE d

\* A speaker is never softer for a direction nearer to it.
NearerLouder ==
    [channels \in {2, 4, 6} |->
        LET amps == [angle \in 0..359 |-> set_amplitudes(channels, angle, 0)]
        IN  \A k \in DOMAIN Stands(channels) : \A angle \in 0..359 :
              LET mirror == Normal(2 * Stands(channels)[k] - angle)
                  farther == IF Between(Normal(angle + 1), Stands(channels)[k])
                                  > Between(angle, Stands(channels)[k])
                             THEN Normal(angle + 1) ELSE Normal(angle - 1)
              IN  /\ amps[angle][k] >= amps[farther][k]
                  /\ amps[angle][k] - amps[farther][k] <= 4
                  /\ amps[angle][k] - amps[mirror][k] \in -2..2]
=============================================================================
