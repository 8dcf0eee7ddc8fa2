------------------------------ MODULE Samples ------------------------------
(***************************************************************************)
(* The samples of eight bits that two effects work on with tricks: the      *)
(* position effect by a table of volumes (effect_position.c,                *)
(* effects_internal.c) and reversed stereo by a word at a time              *)
(* (effect_stereoreverse.c).                                                *)
(***************************************************************************)
EXTENDS Integers, Sequences

\* A conversion from float to an integer drops the fraction.
Truncated(a, d) == IF a < 0 THEN -((-a) \div d) ELSE a \div d

-----------------------------------------------------------------------------
(* One table for both formats, 256 entries for each volume, kept until the  *)
(* program ends.  Whichever format asks first fills it, and the other finds *)
(* it filled: "table" is that format, or "none" so far.                     *)

\* Unsigned samples work by the table only where the user wants speed.
_Eff_build_volume_table_u8(table, fast) == IF fast /\ table = "none" THEN "u8" ELSE table

_Eff_build_volume_table_s8(table) == IF table = "none" THEN "s8" ELSE table

TableSize == 256 * 256

\* What each format puts there, byte by byte.
Filled ==
    [by \in {"u8", "s8"} |-> [at \in 0 .. TableSize - 1 |->
        LET scaled == Truncated(((at % 256) - 128) * (at \div 256), 255)
        IN  (IF by = "u8" THEN scaled + 128 ELSE scaled) % 256]]

\* Mutant: the column of the distance is left out.
TableOnce(table, sample, volume, distance) == Filled[table][256 * volume + sample]

\* A sample through the column of its volume and then that of the distance,
\* whether it is in a word of the buffer or left over.
_Eff_position_table_u8(table, sample, volume, distance) ==
    Filled[table][256 * distance + Filled[table][256 * volume + sample]]

\* Without the table.
Scaled(sample, volume, distance) ==
    Truncated((sample - 128) * volume * distance, 65025) + 128

\* A table filled for unsigned samples makes every one of them what the
\* arithmetic makes of it, give or take one for the fraction dropped twice.
NoLossInQuality(volumes) ==
    \A sample \in 0 .. 255 : \A volume \in volumes, distance \in volumes :
        _Eff_position_table_u8("u8", sample, volume, distance)
            - Scaled(sample, volume, distance) \in -1 .. 1

-----------------------------------------------------------------------------
(* Reversed stereo, on a buffer of samples, two to a frame.                 *)

\* Samples of 16 or 32 bits: pair by pair.
_Eff_reversestereo16(buffer) ==
    [k \in DOMAIN buffer |-> IF k % 2 = 1 THEN buffer[k + 1] ELSE buffer[k - 1]]

\* Samples of 8 bits: two frames in a word.  A frame left over is done first:
\* its left sample becomes its right one, its right one the first of the buffer.
_Eff_reversestereo8(buffer) ==
    LET n == Len(buffer)
        over == n % 4 # 0
    IN  [k \in DOMAIN buffer |->
            IF over /\ k = n - 1 THEN buffer[n]
            ELSE IF over /\ k = n THEN buffer[1]
            ELSE IF k % 2 = 1 THEN buffer[k + 1] ELSE buffer[k - 1]]

ReversedStereo(format, buffer) ==
    IF format \in {"u8", "s8"} THEN _Eff_reversestereo8(buffer)
    ELSE _Eff_reversestereo16(buffer)

\* A frame of eight bits that is not in a word.
LeftOver(format, frames, f) == format \in {"u8", "s8"} /\ frames % 2 = 1 /\ f = frames

\* Left and right change places in every frame of a buffer of so many frames;
\* of a frame left over, only the left speaker is known to play the right.
FramesReversed(format, frames) ==
    LET reversed == ReversedStereo(format, [k \in 1 .. 2 * frames |-> k])
    IN  \A f \in 1 .. frames :
            /\ reversed[2 * f - 1] = 2 * f
            /\ ~LeftOver(format, frames, f) => reversed[2 * f] = 2 * f - 1
=============================================================================
