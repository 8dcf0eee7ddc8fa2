----------------------------- MODULE MCEffects ------------------------------
(* Small instances of Effects for TLC. *)
EXTENDS Effects

CONSTANTS m1, f1

\* Stereo of both signs, which share the table; four speakers whose samples stay, six
\* whose samples move.
SomeSpecs == {[format |-> "u8", channels |-> 2],
              [format |-> "s8", channels |-> 2],
              [format |-> "s8", channels |-> 4],
              [format |-> "f32sys", channels |-> 6]}

SomeTouched == {1, MIX_CHANNEL_POST}
\* At most three effects at a time, two where another output has filled the table.
FewEffects ==
    Len(effects[1]') + Len(effects[MIX_CHANNEL_POST]') + Len(effects[m1]')
        <= IF Opened' /\ _Eff_volume_table' \notin {"none", spec'.format} THEN 2 ELSE 3
SomePlaces == {<<-160, 100>>}
SomePans == {<<255, 255>>, <<60, 200>>}
=============================================================================
