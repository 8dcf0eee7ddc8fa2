---------------------------- MODULE MCLifecycle ----------------------------
(* Small instances of Lifecycle for TLC. *)
EXTENDS Lifecycle, TLC

CONSTANTS m1, m2, m3, wav, ogg

TwoInterfaces == {wav, ogg}
WavOnly == {wav}
ThreePieces == (m1 :> wav) @@ (m2 :> ogg) @@ (m3 :> ogg)

OnePiece == m1 :> wav

Formats == {[format |-> f, size |-> n] : f \in {"u8", "s16"}, n \in {1, 2}}
OneFormat == {[format |-> "s16", size |-> 1]}
=============================================================================
