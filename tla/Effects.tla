------------------------------- MODULE Effects -------------------------------
(***************************************************************************)
(* The lists of effects of mixer.c (channels and the output), music.c       *)
(* (music) and the effects that come with the library: position             *)
(* (effect_position.c) and reversed stereo (effect_stereoreverse.c).        *)
(*                                                                         *)
(* An effect is registered by a callback, with a done callback that is run  *)
(* when it is removed: by the application, or because the sound ended, the  *)
(* channel or the music went away, or the mixer was closed.  A position     *)
(* effect keeps its arguments in a block per channel, for the output or per *)
(* music; its done callback gives the block back.                           *)
(*                                                                         *)
(* All calls hold the device lock while they work on a list, so each is one *)
(* action; Mix_AllocateChannels takes it once per channel.                  *)
(***************************************************************************)
EXTENDS Position, Samples, FiniteSets

CONSTANTS
  MIX_CHANNELS,  \* channels after opening
  MaxChannels,   \* bound on Mix_AllocateChannels
  Musics,        \* music objects
  Funcs,         \* effects of the application
  MaxEffects,    \* bound on the length of a list
  Specs,         \* the formats and numbers of channels of the output
  Touched,       \* which channels, and MIX_CHANNEL_POST, the application names
  Existing,      \* it names only channels that exist
  Pans,          \* arguments of Mix_SetPanning: <<left, right>>
  Distances,     \* arguments of Mix_SetDistance
  Places,        \* arguments of Mix_SetPosition: <<angle, distance>>
  FrameCounts,   \* lengths of the buffers the mixer gives to effects, in frames
  MaxSpeed,      \* MIX_EFFECTSMAXSPEED is in the environment
  NoArgs,        \* no argument block
  Closed         \* the state of the output before opening and after closing

MIX_CHANNEL_POST == -2
Channels == 0 .. MaxChannels - 1
Owners == Channels \union {MIX_CHANNEL_POST} \union Musics

ASSUME EffectsAssumption ==
    /\ MIX_CHANNELS \in Nat \ {0} /\ MaxChannels \in Nat /\ MIX_CHANNELS <= MaxChannels
    /\ MaxEffects \in Nat
    /\ Touched \subseteq Int
    /\ Existing \in BOOLEAN /\ MaxSpeed \in BOOLEAN
    /\ FrameCounts \subseteq Nat
    /\ Specs \subseteq [format : Formats, channels : Nat]
    /\ Closed \notin Specs
    /\ Musics \intersect Int = {}

\* The arguments are Uint8, but an angle.
ASSUME ArgumentsAssumption ==
    /\ \A p \in Pans : p[1] \in 0 .. 255 /\ p[2] \in 0 .. 255
    /\ Distances \subseteq 0 .. 255
    /\ \A p \in Places : p[1] \in Int /\ p[2] \in 0 .. 255

VARIABLES
  spec,          \* mixer: the output format, or Closed
  num_channels,
  playing,       \* the channels with a sound
  effects,       \* effects[o]: mix_channel[o].effects, posteffects, o->effects
  args,          \* pos_args_array[o], pos_args_global, o->pos_args
  position_channels,
  _Eff_volume_table,  \* the format it was filled for, or "none"
  loaded,        \* the music that is there
  shrink,        \* Mix_AllocateChannels on its way: <<next channel, new number>>
  owes,          \* history: done callbacks of the application still to be run
  asked          \* history: what the application asked to be heard

vars == <<spec, num_channels, playing, effects, args, position_channels,
          _Eff_volume_table, loaded, shrink, owes, asked>>

NoShrink == <<>>
Opened == spec # Closed

\* Only the application's own thread calls; it does nothing else while a call
\* is on its way.
AppFree == Opened /\ shrink = NoShrink

Exists(c) == c = MIX_CHANNEL_POST \/ c \in 0 .. num_channels - 1

\* What the application may name.
Nameable == {c \in Touched : Existing => Exists(c)}

-----------------------------------------------------------------------------
(* Lists of effects.                                                       *)

Effect(callback, done) == [callback |-> callback, done |-> done]

\* Everything at once is as loud as it was given.
Plain == [amps |-> <<255, 255, 255, 255, 255, 255>>, distance |-> 255]

\* Mutant: the block of a position effect is not given back.
RunDoneKeepingBlock(o, gone) ==
    /\ owes' = [owes EXCEPT ![o] = @ - Cardinality({i \in DOMAIN gone : gone[i].done = "app"})]
    /\ UNCHANGED args

\* _Eff_PositionDone and _Eff_MusicPositionDone, or the application's own done
\* callback, for every entry of a list that goes.
RunDone(o, gone) ==
    LET isDone(kind) == {i \in DOMAIN gone : gone[i].done = kind}
    IN  /\ args' = [args EXCEPT ![o] = IF isDone("position") # {} THEN NoArgs ELSE @]
        /\ owes' = [owes EXCEPT ![o] = @ - Cardinality(isDone("app"))]

\* A list is appended to at its end.
_Mix_register_effect(o, e) == effects' = [effects EXCEPT ![o] = Append(@, e)]

Without(list, i) == SubSeq(list, 1, i - 1) \o SubSeq(list, i + 1, Len(list))

\* The place of the first effect with this callback.
First(list, callback) ==
    CHOOSE i \in DOMAIN list : list[i].callback = callback /\
        \A j \in 1 .. i - 1 : list[j].callback # callback

Has(o, callback) == \E i \in DOMAIN effects[o] : effects[o][i].callback = callback

\* The first effect with this callback goes, after its done callback; without
\* one nothing happens and 0 is returned.
_Mix_remove_effect(o, callback) ==
    IF Has(o, callback)
    THEN LET i == First(effects[o], callback)
         IN  /\ RunDone(o, <<effects[o][i]>>)
             /\ effects' = [effects EXCEPT ![o] = Without(@, i)]
    ELSE UNCHANGED <<effects, args, owes>>

\* Mutant: only the first effect is done, all are freed.
RemovedFirstDone(o) ==
    /\ RunDone(o, IF effects[o] = <<>> THEN <<>> ELSE <<Head(effects[o])>>)
    /\ effects' = [effects EXCEPT ![o] = <<>>]
    /\ asked' = [asked EXCEPT ![o] = Plain]

\* All effects go.
_Mix_remove_all_effects(o) ==
    /\ RunDone(o, effects[o])
    /\ effects' = [effects EXCEPT ![o] = <<>>]
    /\ asked' = [asked EXCEPT ![o] = Plain]

-----------------------------------------------------------------------------
(* Registering and removing.  A channel that does not exist is refused.     *)

_Mix_RegisterEffect_locked(o, e) ==
    IF o \in Musics \/ Exists(o) THEN _Mix_register_effect(o, e) ELSE UNCHANGED effects

_Mix_UnregisterEffect_locked(o, callback) ==
    IF o \in Musics \/ Exists(o) THEN _Mix_remove_effect(o, callback)
    ELSE UNCHANGED <<effects, args, owes>>

Room(o) == Len(effects[o]) < MaxEffects

Registered(o, f) ==
    /\ Room(o)
    /\ _Mix_RegisterEffect_locked(o, Effect(<<"app", f>>, "app"))
    /\ owes' = [owes EXCEPT ![o] = @ + 1]
    /\ UNCHANGED <<spec, num_channels, playing, args, position_channels,
                   _Eff_volume_table, loaded, shrink, asked>>

Unregistered(o, f) ==
    /\ _Mix_UnregisterEffect_locked(o, <<"app", f>>)
    /\ UNCHANGED <<spec, num_channels, playing, position_channels,
                   _Eff_volume_table, loaded, shrink, asked>>

AllUnregistered(o) ==
    /\ _Mix_remove_all_effects(o)
    /\ UNCHANGED <<spec, num_channels, playing, position_channels,
                   _Eff_volume_table, loaded, shrink>>

Mix_RegisterEffect(c, f) == AppFree /\ c \in Nameable /\ Exists(c) /\ Registered(c, f)
Mix_UnregisterEffect(c, f) == AppFree /\ c \in Nameable /\ Exists(c) /\ Unregistered(c, f)
Mix_UnregisterAllEffects(c) == AppFree /\ c \in Nameable /\ Exists(c) /\ AllUnregistered(c)

Mix_RegisterMusicEffect(m, f) == AppFree /\ m \in loaded /\ Registered(m, f)
Mix_UnregisterMusicEffect(m, f) == AppFree /\ m \in loaded /\ Unregistered(m, f)
Mix_UnregisterAllMusicEffects(m) == AppFree /\ m \in loaded /\ AllUnregistered(m)

\* Reversed stereo is an effect without a done callback; it needs two channels.
Reverse == <<"reverse", spec.format>>

Reversed(o, flip) ==
    /\ spec.channels = 2
    /\ IF flip THEN /\ Room(o)
                    /\ _Mix_RegisterEffect_locked(o, Effect(Reverse, "none"))
                    /\ UNCHANGED <<args, owes>>
               ELSE _Mix_UnregisterEffect_locked(o, Reverse)
    /\ UNCHANGED <<spec, num_channels, playing, position_channels,
                   _Eff_volume_table, loaded, shrink, asked>>

Mix_SetReverseStereo(c, flip) == AppFree /\ c \in Nameable /\ Exists(c) /\ Reversed(c, flip)
Mix_SetMusicEffectReverseStereo(m, flip) == AppFree /\ m \in loaded /\ Reversed(m, flip)

-----------------------------------------------------------------------------
(* Positions.                                                              *)

\* init_position_args
NewArgs == [amps |-> Plain.amps, distance |-> 255, room |-> 0, in_use |-> FALSE]

\* The block of an owner: one per channel, one for all that is below zero.
BlockOf(o) == IF o \in Int /\ o < 0 THEN MIX_CHANNEL_POST ELSE o

\* get_position_arg and get_music_position_arg: the block, made if need be,
\* and the table grown to hold it.
BlockFor(o) == IF args[BlockOf(o)] = NoArgs THEN NewArgs ELSE args[BlockOf(o)]
TableFor(o) ==
    position_channels' = IF o \in Int /\ o >= position_channels THEN o + 1
                         ELSE position_channels

PositionFunc == get_position_effect_func(spec.format, spec.channels)

\* To find the function, the table is asked for where it works by it, before the
\* lock is taken and whatever becomes of the call.
TableAskedFor ==
    _Eff_volume_table' =
        IF spec.channels \in {1, 2} /\ spec.format = "u8"
        THEN _Eff_build_volume_table_u8(_Eff_volume_table, MaxSpeed)
        ELSE IF spec.channels \in {1, 2} /\ spec.format = "s8"
        THEN _Eff_build_volume_table_s8(_Eff_volume_table)
        ELSE _Eff_volume_table

\* What the three calls do under the lock, once they know the new block and
\* whether it leaves the sound as it is.
Place(o, neutral, block) ==
    LET f == PositionFunc
        old == BlockFor(o)
    IN  IF neutral
        THEN IF old.in_use
             THEN _Mix_UnregisterEffect_locked(o, f)
             ELSE /\ args' = [args EXCEPT ![BlockOf(o)] = old]
                  /\ UNCHANGED <<effects, owes>>
        ELSE /\ args' = [args EXCEPT ![BlockOf(o)] = [block EXCEPT !.in_use = TRUE]]
             /\ IF old.in_use THEN UNCHANGED effects
                ELSE _Mix_RegisterEffect_locked(o, Effect(f, "position"))
             /\ UNCHANGED owes

\* Only lists that can take one more effect are placed: the bound on lists.
CanPlace(o) == BlockFor(o).in_use \/ Room(o)

\* What is asked of a channel that does not exist is refused.
Asks(o, new) ==
    asked' = IF o \in Musics \/ Exists(o) THEN [asked EXCEPT ![o] = new] ELSE asked

Positioned(o, angle, distance) ==
    LET a == Normal(angle)
        room == RoomAngle(spec.channels, a)
        block == [BlockFor(o) EXCEPT
                    !.amps = set_amplitudes(spec.channels, a, room),
                    !.distance = 255 - distance,
                    !.room = room]
        neutral == distance = 0 /\ a = 0
    IN  /\ PositionFunc # NoFunc
        /\ CanPlace(o)
        /\ TableAskedFor /\ TableFor(o)
        /\ Place(o, neutral, block)
        /\ Asks(o, IF neutral THEN Plain
                   ELSE [amps |-> set_amplitudes(spec.channels, a, 0),
                         distance |-> 255 - distance])
        /\ UNCHANGED <<spec, num_channels, playing, loaded, shrink>>

\* Panning is nothing on one channel, two volumes on two, a direction on more.
Panned(o, left, right) ==
    LET old == BlockFor(o)
        block == [old EXCEPT !.amps[1] = left, !.amps[2] = right, !.room = 0]
        neutral == old.distance = 255 /\ left = 255 /\ right = 255
    IN  \/ /\ spec.channels \in {4, 6}
           /\ Positioned(o, PanAngle(left, right), 0)
        \/ /\ spec.channels = 2
           /\ CanPlace(o)
           /\ TableAskedFor /\ TableFor(o)
           /\ Place(o, neutral, block)
           /\ Asks(o, [asked[BlockOf(o)] EXCEPT !.amps = <<left, right, 255, 255, 255, 255>>])
           /\ UNCHANGED <<spec, num_channels, playing, loaded, shrink>>

Distanced(o, distance) ==
    LET old == BlockFor(o)
        neutral == distance = 0 /\ old.amps[1] = 255 /\ old.amps[2] = 255
    IN  /\ PositionFunc # NoFunc
        /\ CanPlace(o)
        /\ TableAskedFor /\ TableFor(o)
        /\ Place(o, neutral, [old EXCEPT !.distance = 255 - distance])
        /\ Asks(o, LET here == asked[BlockOf(o)]
                   IN  IF distance = 0 /\ here.amps = set_amplitudes(spec.channels, 0, 0)
                       THEN Plain ELSE [here EXCEPT !.distance = 255 - distance])
        /\ UNCHANGED <<spec, num_channels, playing, loaded, shrink>>

Mix_SetPanning(c, left, right) == AppFree /\ c \in Nameable /\ Panned(c, left, right)
Mix_SetDistance(c, distance) == AppFree /\ c \in Nameable /\ Distanced(c, distance)
Mix_SetPosition(c, angle, distance) ==
    AppFree /\ c \in Nameable /\ Positioned(c, angle, distance)

Mix_SetMusicEffectPanning(m, left, right) ==
    AppFree /\ m \in loaded /\ Panned(m, left, right)
Mix_SetMusicEffectDistance(m, distance) == AppFree /\ m \in loaded /\ Distanced(m, distance)
Mix_SetMusicEffectPosition(m, angle, distance) ==
    AppFree /\ m \in loaded /\ Positioned(m, angle, distance)

-----------------------------------------------------------------------------
(* Sounds that begin and end, channels and music that come and go.          *)

\* _Mix_channel_done_playing
DonePlaying(c) == _Mix_remove_all_effects(c)

\* A sound that still plays is replaced, and with it its effects.
Mix_PlayChannel(c) ==
    /\ AppFree /\ c \in 0 .. num_channels - 1
    /\ playing' = playing \union {c}
    /\ IF c \in playing THEN DonePlaying(c) ELSE UNCHANGED <<effects, args, owes, asked>>
    /\ UNCHANGED <<spec, num_channels, position_channels, _Eff_volume_table, loaded, shrink>>

Ends(c) ==
    /\ playing' = playing \ {c}
    /\ IF c \in playing THEN DonePlaying(c) ELSE UNCHANGED <<effects, args, owes, asked>>

Mix_HaltChannel(c) ==
    /\ AppFree /\ c \in playing
    /\ Ends(c)
    /\ UNCHANGED <<spec, num_channels, position_channels, _Eff_volume_table, loaded, shrink>>

\* The audio thread ends a sound, between any two locks of the application.
SoundEnds(c) ==
    /\ Opened /\ c \in playing
    /\ Ends(c)
    /\ UNCHANGED <<spec, num_channels, position_channels, _Eff_volume_table, loaded, shrink>>

\* More channels come without effects; fewer: each one loses its effects, then
\* its sound, under a lock of its own, and then the array shrinks.
Mix_AllocateChannels(n) ==
    /\ AppFree /\ n \in 0 .. MaxChannels /\ n # num_channels
    /\ IF n > num_channels
       THEN /\ num_channels' = n
            /\ effects' = [o \in Owners |->
                              IF o \in num_channels .. n - 1 THEN <<>> ELSE effects[o]]
            /\ UNCHANGED shrink
       ELSE /\ shrink' = <<"unregister", n, n>>
            /\ UNCHANGED <<num_channels, effects>>
    /\ UNCHANGED <<spec, playing, args, position_channels,
                   _Eff_volume_table, loaded, owes, asked>>

ShrinkUnregister ==
    /\ shrink # NoShrink /\ shrink[1] = "unregister"
    /\ IF shrink[2] < num_channels
       THEN /\ _Mix_remove_all_effects(shrink[2])
            /\ shrink' = <<"halt", shrink[2], shrink[3]>>
       ELSE /\ shrink' = <<"resize", shrink[2], shrink[3]>>
            /\ UNCHANGED <<effects, args, owes, asked>>
    /\ UNCHANGED <<spec, num_channels, playing, position_channels, _Eff_volume_table, loaded>>

ShrinkHalt ==
    /\ shrink # NoShrink /\ shrink[1] = "halt"
    /\ Ends(shrink[2])
    /\ shrink' = <<"unregister", shrink[2] + 1, shrink[3]>>
    /\ UNCHANGED <<spec, num_channels, position_channels, _Eff_volume_table, loaded>>

ShrinkResize ==
    /\ shrink # NoShrink /\ shrink[1] = "resize"
    /\ num_channels' = shrink[3]
    /\ shrink' = NoShrink
    /\ UNCHANGED <<spec, playing, effects, args, position_channels,
                   _Eff_volume_table, loaded, owes, asked>>

Mix_LoadMUS(m) ==
    /\ AppFree /\ m \in Musics \ loaded
    /\ loaded' = loaded \union {m}
    /\ effects' = [effects EXCEPT ![m] = <<>>]
    /\ args' = [args EXCEPT ![m] = NoArgs]
    /\ asked' = [asked EXCEPT ![m] = Plain]
    /\ UNCHANGED <<spec, num_channels, playing, position_channels,
                   _Eff_volume_table, shrink, owes>>

\* Also after closing.  A block that is not in use is lost with the music.
Mix_FreeMusic(m) ==
    /\ shrink = NoShrink /\ m \in loaded
    /\ loaded' = loaded \ {m}
    /\ _Mix_remove_all_effects(m)
    /\ UNCHANGED <<spec, num_channels, playing, position_channels, _Eff_volume_table, shrink>>

\* Mix_InitMixer and the opening of the device.  No music is taken from one
\* opening of the mixer to the next.
Mix_OpenAudio(s) ==
    /\ ~Opened /\ loaded = {}
    /\ spec' = s
    /\ num_channels' = MIX_CHANNELS
    /\ effects' = [o \in Owners |-> IF o \in 0 .. MIX_CHANNELS - 1 THEN <<>> ELSE effects[o]]
    /\ UNCHANGED <<playing, args, position_channels,
                   _Eff_volume_table, loaded, shrink, owes, asked>>

\* Mix_FreeMixer: the effects of every channel and of the output go first, then
\* the sounds, and at last the table of arguments (_Mix_DeinitEffects); the
\* number of channels stays.
Mix_CloseAudio ==
    LET gone == (0 .. num_channels - 1) \union {MIX_CHANNEL_POST}
    IN  /\ AppFree
        /\ spec' = Closed
        /\ effects' = [o \in Owners |-> IF o \in gone THEN <<>> ELSE effects[o]]
        /\ owes' = [o \in Owners |->
                       IF o \in gone
                       THEN owes[o] - Cardinality({i \in DOMAIN effects[o] :
                                                      effects[o][i].done = "app"})
                       ELSE owes[o]]
        /\ args' = [o \in Owners |-> IF o \in Musics THEN args[o] ELSE NoArgs]
        /\ position_channels' = 0
        /\ playing' = {}
        /\ asked' = [o \in Owners |-> IF o \in Musics THEN asked[o] ELSE Plain]
        /\ UNCHANGED <<num_channels, _Eff_volume_table, loaded, shrink>>

-----------------------------------------------------------------------------
Init ==
    /\ spec = Closed
    /\ num_channels = 0
    /\ playing = {}
    /\ effects = [o \in Owners |-> <<>>]
    /\ args = [o \in Owners |-> NoArgs]
    /\ position_channels = 0
    /\ _Eff_volume_table = "none"
    /\ loaded = {}
    /\ shrink = NoShrink
    /\ owes = [o \in Owners |-> 0]
    /\ asked = [o \in Owners |-> Plain]

OnChannel(c) ==
    \/ \E f \in Funcs : Mix_RegisterEffect(c, f) \/ Mix_UnregisterEffect(c, f)
    \/ Mix_UnregisterAllEffects(c)
    \/ \E flip \in BOOLEAN : Mix_SetReverseStereo(c, flip)
    \/ \E p \in Pans : Mix_SetPanning(c, p[1], p[2])
    \/ \E d \in Distances : Mix_SetDistance(c, d)
    \/ \E p \in Places : Mix_SetPosition(c, p[1], p[2])

OnMusic(m) ==
    \/ \E f \in Funcs : Mix_RegisterMusicEffect(m, f) \/ Mix_UnregisterMusicEffect(m, f)
    \/ Mix_UnregisterAllMusicEffects(m)
    \/ \E flip \in BOOLEAN : Mix_SetMusicEffectReverseStereo(m, flip)
    \/ \E p \in Pans : Mix_SetMusicEffectPanning(m, p[1], p[2])
    \/ \E d \in Distances : Mix_SetMusicEffectDistance(m, d)
    \/ \E p \in Places : Mix_SetMusicEffectPosition(m, p[1], p[2])
    \/ Mix_LoadMUS(m) \/ Mix_FreeMusic(m)

Next ==
    \/ \E s \in Specs : Mix_OpenAudio(s)
    \/ Mix_CloseAudio
    \/ \E c \in Touched : OnChannel(c)
    \/ \E m \in Musics : OnMusic(m)
    \/ \E c \in Channels \intersect Touched : Mix_PlayChannel(c) \/ Mix_HaltChannel(c) \/ SoundEnds(c)
    \/ \E n \in 0 .. MaxChannels : Mix_AllocateChannels(n)
    \/ ShrinkUnregister \/ ShrinkHalt \/ ShrinkResize

Spec == Init /\ [][Next]_vars

-----------------------------------------------------------------------------
(* Properties.                                                             *)

Callbacks ==
    {<<"app", f>> : f \in Funcs} \union {<<"reverse", f>> : f \in Formats}
    \union {<<"position", s.format, s.channels>> : s \in Specs}
Entries == [callback : Callbacks, done : {"app", "none", "position"}]
Bytes == 0 .. 255
Blocks == [amps : [1..6 -> Bytes], distance : Bytes, room : Rooms, in_use : BOOLEAN]

ASSUME NoArgsAssumption == NoArgs \notin Blocks

\* The types.
TypeOK ==
    /\ spec \in Specs \union {Closed}
    /\ num_channels \in 0 .. MaxChannels
    /\ playing \subseteq 0 .. num_channels - 1
    /\ effects \in [Owners -> Seq(Entries)]
    /\ \A o \in Owners : Len(effects[o]) <= MaxEffects
    /\ args \in [Owners -> Blocks \union {NoArgs}]
    /\ position_channels \in 0 .. MaxChannels
    /\ _Eff_volume_table \in {"none", "u8", "s8"}
    /\ loaded \subseteq Musics
    /\ shrink = NoShrink \/ shrink \in {"unregister", "halt", "resize"} \X (0..MaxChannels) \X (0..MaxChannels)
    /\ owes \in [Owners -> Nat]

Listed(o, done) == {i \in DOMAIN effects[o] : effects[o][i].done = done}

\* Whichever way an effect goes - removed, its sound ended or replaced, its
\* channel or music gone, the mixer closed - its done callback is run, and run
\* once: what is still to be run is what is registered, and nothing is
\* registered on a channel that is not there, on music that is not loaded or on
\* a closed mixer (_Mix_remove_effect, _Mix_remove_all_effects).
DoneOncePerEffect ==
    /\ TypeOK
    /\ \A o \in Owners : owes[o] = Cardinality(Listed(o, "app"))
    /\ \A c \in Channels : c \notin 0 .. num_channels - 1 => effects[c] = <<>>
    /\ \A m \in Musics \ loaded : effects[m] = <<>>
    /\ ~Opened => \A c \in Channels \union {MIX_CHANNEL_POST} : effects[c] = <<>>

\* A block of arguments is marked in use exactly while one position effect that
\* reads it is registered, made for the output as it is, and the table reaches
\* to it: the callback never reads a block given back, and no call changes
\* arguments that nothing reads (get_position_arg, _Eff_PositionDone).
InUseWhileRegistered ==
    \A o \in Owners :
        IF Listed(o, "position") = {}
        THEN args[o] # NoArgs => ~args[o].in_use
        ELSE /\ args[o] # NoArgs /\ args[o].in_use
             /\ Cardinality(Listed(o, "position")) = 1
             /\ Opened => \A i \in Listed(o, "position") : effects[o][i].callback = PositionFunc
             /\ o \in Channels => o < position_channels

\* What the speakers get through the position effect of an owner.
Heard(o) ==
    IF Listed(o, "position") = {}
    THEN [k \in 1 .. spec.channels |-> {<<k, 255, 255>>}]
    ELSE LET i == CHOOSE j \in Listed(o, "position") : TRUE
             out == Outputs(effects[o][i].callback, args[o].room)
         IN  [k \in 1 .. spec.channels |->
                 {<<p[1], args[o].amps[p[2]], args[o].distance>> : p \in out[k]}]

Corners == 1 .. IF spec.channels >= 4 THEN 4 ELSE spec.channels

\* Every corner speaker is as loud as the last panning, distance and position
\* ask for it, and plays at full volume once they ask for nothing: the turned
\* rooms, the amplitudes kept in another order for them, and the removal of
\* effects that change nothing cancel out (Mix_SetPosition, set_amplitudes).  And
\* every corner source is played by one speaker: none is lost, none is doubled
\* (_Eff_position_*_c4, _c6).
HeardAsAsked ==
    Opened => \A o \in Owners :
        LET heard == Heard(o)
        IN  /\ \A k \in Corners : {<<h[2], h[3]>> : h \in heard[k]} =
                                        {<<asked[o].amps[k], asked[o].distance>>}
            /\ \A source \in Corners :
                 Cardinality({k \in Corners : \E h \in heard[k] : h[1] = source}) = 1

\* A speaker is never softer for a direction nearer to it, is as loud to its
\* left as to its right, and does not jump from one degree to the next.
NearerNeverSofter == Opened /\ spec.channels # 1 => NearerLouder[spec.channels]

\* The function of the position effect works by the table.
ByTable ==
    spec.channels \in {1, 2} /\ (spec.format = "s8" \/ (spec.format = "u8" /\ MaxSpeed))

Volumes == {p[1] : p \in Pans} \union {p[2] : p \in Pans} \union {255 - d : d \in Distances}
QualityKept == NoLossInQuality(Volumes)

\* No position effect is run by a table that is not there; and one of unsigned
\* samples makes of every sample what the arithmetic would, to within one, unless
\* it finds the table filled for signed ones (_Eff_build_volume_table_u8 and _s8).
TablesLoseNothing ==
    Opened /\ ByTable /\ (\E o \in Owners : Listed(o, "position") # {}) =>
        /\ _Eff_volume_table # "none"
        /\ spec.format = "u8" /\ _Eff_volume_table # "s8" => QualityKept

AllReversed ==
    [format \in Formats |-> \A n \in FrameCounts : FramesReversed(format, n)]

\* Reversed stereo gives every left sample to the right and every right one to
\* the left, but for the right speaker of a frame of eight bits left over.
LeftIsRight == Opened /\ spec.channels = 2 => AllReversed[spec.format]

\* What the effects make of samples: the slopes of set_amplitudes meet, the table is
\* there and its columns are found by _Eff_position_table_u8, and
\* _Eff_reversestereo8 swaps every frame of its words.
SamplesAsMeant == NearerNeverSofter /\ TablesLoseNothing /\ LeftIsRight
=============================================================================
