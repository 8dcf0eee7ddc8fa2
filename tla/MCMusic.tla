------------------------------- MODULE MCMusic -------------------------------
(* Small instances of Music for TLC. *)
EXTENDS Music, TLC

CONSTANTS m1, m2

TwoMusics == {m1, m2}
Symmetry == Permutations(Music)
=============================================================================
