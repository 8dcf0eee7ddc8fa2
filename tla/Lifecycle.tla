------------------------------ MODULE Lifecycle ------------------------------
(***************************************************************************)
(* Opening and closing the mixer, and what it opens and closes with it: the *)
(* audio device, the channels, and the interfaces of the decoders with the  *)
(* music that uses them (mixer.c: Mix_Init, Mix_OpenAudioDevice,            *)
(* Mix_InitMixer, Mix_FreeMixer, Mix_CloseAudio, Mix_Quit; music.c:         *)
(* open_music, close_music, unload_music).                                            *)
(*                                                                         *)
(* One application thread makes the calls.  The device calls the mixer in a *)
(* thread of its own and holds its lock meanwhile; closing takes that lock   *)
(* for some of its steps only.  An application that drives the mixer itself *)
(* (Mix_InitMixer, Mix_GetGeneralMixer, Mix_FreeMixer) does so as device 0,   *)
(* whose lock is its own: the library's locks nothing then.                 *)
(* What single channels and pieces of music do is left to the modules        *)
(* Channels and Music.                                                      *)
(***************************************************************************)
EXTENDS Naturals, Sequences, FiniteSets, SequencesExt

CONSTANTS
  Interfaces,    \* the interfaces of the decoders
  WithoutInit,   \* those that need no Mix_Init: MUS_CMD and MUS_WAV
  Music, NoMusic,
  Interface,     \* the interface of a piece of music
  Specs, NoSpec, \* audio formats, with the size of the buffer
  Devices,       \* what SDL may call the devices it opens
  MaxOpens,      \* bound: openings not closed yet
  Courtesies     \* what the application takes care of

ASSUME LifecycleAssumption ==
    /\ WithoutInit \subseteq Interfaces
    /\ Interface \in [Music -> Interfaces] /\ NoMusic \notin Music
    /\ Specs \subseteq [format : STRING, size : Nat \ {0}] /\ NoSpec \notin Specs
    /\ Devices \subseteq Nat \ {0} /\ MaxOpens \in Nat
    /\ Courtesies \subseteq {"closes", "inits", "sizes", "quits", "device"}

\* The courtesies:
\* closes - it opens what is closed, and initialises again only for another format;
\* inits  - it loads decoders and music while the mixer is open, or has never been;
\* sizes  - once streams have played, no larger buffer before Mix_Quit;
\* quits  - it calls Mix_Quit last, all music freed;
\* device - it has the library open the device, and never calls Mix_InitMixer.

VARIABLES
  audio_opened,  \* the count of openings
  mixer,         \* the format of the output; channels have been counted once it is set
  mix_channel,   \* whether the channels are there
  audio_device,  \* the open device, 0: none
  device,        \* SDL: what each device does
  cb,            \* what its callback is about to do
  music_spec, ms_per_step,
  loaded,        \* interfaces with their libraries
  opened,        \* the format an interface was opened for, NoSpec: it is closed
  objects,       \* the pieces of music that are loaded
  music_playing, mix_streams,
  mix_streams_buffer, \* its size; 0: no streams have been played since Mix_Quit
  app,           \* what the application's call still has to do
  owed           \* history: successful openings not closed yet

audio == <<audio_opened, mixer, mix_channel, audio_device, device>>
interfaces == <<music_spec, ms_per_step, loaded, opened>>
players == <<objects, music_playing, mix_streams, mix_streams_buffer>>
vars == <<audio, cb, interfaces, players, app, owed>>

Own == 0
All == Devices \union {Own}

Idle == app = <<>>
Locked == audio_device # 0 => cb[audio_device] = "idle"
Queued(m) == m \in ToSet(mix_streams)

-----------------------------------------------------------------------------
(* The interfaces.                                                         *)

\* open_music_type(_ex): nothing is opened before the first opening.
open_music_type(types, spec) ==
    [t \in Interfaces |->
        IF t \in types /\ opened[t] = NoSpec THEN spec ELSE opened[t]]

\* load_music_type, which may not find the library, and open_music_type.
LoadAndOpen(t) ==
    /\ loaded' = loaded \union {t}
    /\ opened' = open_music_type({t}, music_spec)
    /\ UNCHANGED <<music_spec, ms_per_step>>

\* The application keeps its own callback from its calls.
Apart == cb[Own] = "idle"

AptLoad == "inits" \in Courtesies => audio_opened > 0 \/ music_spec = NoSpec

Mix_Init(t) ==
    /\ Idle /\ Apart /\ AptLoad
    /\ LoadAndOpen(t)
    /\ UNCHANGED <<audio, cb, players, app, owed>>

\* Mix_LoadMUSType_RW with a file that its decoder accepts.
Mix_LoadMUS(m) ==
    /\ Idle /\ Apart /\ AptLoad /\ m \notin objects
    /\ LoadAndOpen(Interface[m])
    /\ opened'[Interface[m]] # NoSpec
    /\ objects' = objects \union {m}
    /\ UNCHANGED <<audio, cb, music_playing, mix_streams, mix_streams_buffer, app, owed>>

\* Mutant: only the interfaces without Mix_Init are opened.
OpenedAgain(spec) == open_music_type(WithoutInit, spec)

Opened(spec) == open_music_type(loaded \union WithoutInit, spec)

open_music(spec) ==
    /\ loaded' = loaded \union WithoutInit
    /\ opened' = Opened(spec)
    /\ music_spec' = spec
    /\ ms_per_step' = TRUE

Closed == [t \in Interfaces |-> NoSpec]

-----------------------------------------------------------------------------
(* Music.                                                                  *)

Mix_PlayMusic(m) ==
    /\ Idle /\ Apart /\ Locked /\ m \in objects /\ ms_per_step /\ ~Queued(m)
    /\ music_playing' = m
    /\ UNCHANGED <<audio, cb, interfaces, objects, mix_streams, mix_streams_buffer, app, owed>>

\* The first stream allocates the buffer for all.
Mix_PlayMusicStream(m) ==
    /\ Idle /\ Apart /\ Locked /\ m \in objects /\ ms_per_step /\ ~Queued(m) /\ m # music_playing
    /\ mix_streams' = Append(mix_streams, m)
    /\ mix_streams_buffer' = IF mix_streams_buffer = 0 THEN music_spec.size
                                                       ELSE mix_streams_buffer
    /\ UNCHANGED <<audio, cb, interfaces, objects, music_playing, app, owed>>

\* _Mix_MultiMusic_Remove
Unqueued(m) ==
    IF Queued(m) THEN RemoveAt(mix_streams, CHOOSE i \in DOMAIN mix_streams : mix_streams[i] = m)
    ELSE mix_streams

\* Mix_FreeMusic, of music that does not fade.
Mix_FreeMusic(m) ==
    /\ Idle /\ Apart /\ Locked /\ m \in objects
    /\ objects' = objects \ {m}
    /\ music_playing' = IF music_playing = m THEN NoMusic ELSE music_playing
    /\ mix_streams' = Unqueued(m)
    /\ UNCHANGED <<audio, cb, interfaces, mix_streams_buffer, app, owed>>

\* Mix_Quit.  Music still queued is freed, but each removal moves the next piece
\* to where the loop has been.
Mix_Quit ==
    /\ Idle /\ Apart
    /\ "quits" \in Courtesies => audio_opened = 0 /\ objects = {}
    /\ objects' = objects \ {mix_streams[i] : i \in {j \in DOMAIN mix_streams : j % 2 = 1}}
    /\ mix_streams' = <<>>
    /\ mix_streams_buffer' = 0
    /\ loaded' = {}
    /\ UNCHANGED <<audio, cb, music_spec, ms_per_step, opened, music_playing, app, owed>>

-----------------------------------------------------------------------------
(* Opening and closing.  A call is the sequence of its steps.              *)

Op(op) == [op |-> op]
OpWith(op, spec) == [op |-> op, spec |-> spec]
HaltAll == [op |-> "halt_each", i |-> 1]

\* Mutant: streams are halted once.
HaltedOnce == <<Op("halt"), HaltAll, Op("close_interfaces"), Op("halt"), Op("free_channels")>>

\* Mix_FreeMixer, when it is the last: close_music, Mix_SetMusicCMD, and the rest.
FreeSteps ==
    <<Op("halt"), HaltAll, Op("close_interfaces"), Op("halt"), HaltAll, Op("free_channels")>>

\* Mutant: the device plays on while the mixer is freed.
CloseSteps == <<Op("free_mixer"), Op("close_device")>>

\* Mix_CloseAudio.
Close == <<Op("pause")>> \o CloseSteps

Matches(spec) == audio_opened > 0 /\ spec.format = mixer.format

\* is_already_initialized, and what follows if it is not.
Unless(spec, op) ==
    /\ app' = IF audio_opened = 0 THEN <<OpWith(op, spec)>>
              ELSE <<Op("free_mixers")>> \o (IF Matches(spec) THEN <<>> ELSE <<OpWith(op, spec)>>)
    /\ audio_opened' = IF Matches(spec) THEN audio_opened + 1 ELSE audio_opened
    /\ UNCHANGED <<mixer, mix_channel, audio_device, device, cb, interfaces, players>>

AptSize(spec) ==
    "sizes" \in Courtesies => mix_streams_buffer = 0 \/ spec.size <= mix_streams_buffer

\* An application that opened the mixer in one way (Mix_OpenAudio or Mix_InitMixer)
\* does not use the other before all is closed: Mix_FreeMixer is for what Mix_InitMixer
\* initialised, by its documentation.  The guards on audio_device say so.
Mix_OpenAudio(spec) ==
    /\ Idle /\ device[Own] = "closed" /\ owed < MaxOpens
    /\ "closes" \in Courtesies => owed = 0
    /\ AptSize(spec)
    /\ owed > 0 => audio_device # 0
    /\ Unless(spec, "open")
    /\ owed' = owed + 1

\* Initialised again, for another format, it need not be freed first.  (The argument
\* skip_init_check is FALSE; the library itself passes TRUE, in OpenDevice.)
Mix_InitMixer(spec) ==
    /\ "device" \notin Courtesies
    /\ Idle /\ device[Own] = "closed" /\ audio_device = 0 /\ owed < MaxOpens
    /\ "closes" \in Courtesies => owed = 0 \/ ~Matches(spec)
    /\ AptSize(spec)
    /\ Unless(spec, "init")
    /\ owed' = IF audio_opened > 0 /\ ~Matches(spec) THEN owed ELSE owed + 1

\* Mix_FreeMixer, called by the application.
Mix_FreeMixer ==
    /\ Idle /\ device[Own] = "closed" /\ audio_device = 0 /\ owed > 0
    /\ app' = <<Op("free_mixer")>>
    /\ owed' = owed - 1
    /\ UNCHANGED <<audio, cb, interfaces, players>>

\* The application begins, or ends, to call the mixer itself.
Driven ==
    /\ Idle /\ Apart /\ audio_device = 0 /\ owed > 0
    /\ device' = [device EXCEPT ![Own] = IF @ = "closed" THEN "running" ELSE "closed"]
    /\ UNCHANGED <<audio_opened, mixer, mix_channel, audio_device, cb, interfaces, players, app, owed>>

Mix_CloseAudio ==
    /\ Idle /\ device[Own] = "closed" /\ owed > 0
    /\ app' = Close
    /\ owed' = owed - 1
    /\ UNCHANGED <<audio, cb, interfaces, players>>

Mix_PauseAudio(pause_on) ==
    /\ Idle /\ Locked /\ audio_device # 0
    /\ device' = [device EXCEPT ![audio_device] = IF pause_on THEN "paused" ELSE "running"]
    /\ UNCHANGED <<audio_opened, mixer, mix_channel, audio_device, cb, interfaces, players, app, owed>>

\* The steps.
At(op) == app # <<>> /\ Head(app).op = op
Then(steps) == app' = steps \o Tail(app)

Pause ==
    /\ At("pause") /\ Locked
    /\ device' = IF audio_device = 0 THEN device ELSE [device EXCEPT ![audio_device] = "paused"]
    /\ Then(<<>>)
    /\ UNCHANGED <<audio_opened, mixer, mix_channel, audio_device, cb, interfaces, players, owed>>

\* Mix_FreeMixer: only the last one frees anything.
FreeOnce ==
    /\ At("free_mixer")
    /\ Then(IF audio_opened = 1 THEN FreeSteps ELSE <<>>)
    /\ audio_opened' = IF audio_opened > 1 THEN audio_opened - 1 ELSE audio_opened
    /\ UNCHANGED <<mixer, mix_channel, audio_device, device, cb, interfaces, players, owed>>

\* As often as the mixer is open.
FreeAll ==
    /\ At("free_mixers")
    /\ IF audio_opened > 1
       THEN audio_opened' = audio_opened - 1 /\ UNCHANGED app
       ELSE Then(IF audio_opened = 1 THEN FreeSteps ELSE <<>>) /\ UNCHANGED audio_opened
    /\ UNCHANGED <<mixer, mix_channel, audio_device, device, cb, interfaces, players, owed>>

\* Mix_HaltMusicStream(music_playing).
Halt ==
    /\ At("halt") /\ Locked
    /\ music_playing' = NoMusic
    /\ Then(<<>>)
    /\ UNCHANGED <<audio, cb, interfaces, objects, mix_streams, mix_streams_buffer, owed>>

\* _Mix_MultiMusic_HaltAll: what is halted leaves the queue, and the next piece
\* takes its place, behind the loop.
HaltEach ==
    /\ At("halt_each") /\ Locked
    /\ LET i == Head(app).i
       IN  IF i > Len(mix_streams) THEN Then(<<>>) /\ UNCHANGED mix_streams
           ELSE /\ mix_streams' = RemoveAt(mix_streams, i)
                /\ Then(<<[op |-> "halt_each", i |-> i + 1]>>)
    /\ UNCHANGED <<audio, cb, interfaces, objects, music_playing, mix_streams_buffer, owed>>

CloseInterfaces ==
    /\ At("close_interfaces")
    /\ opened' = Closed
    /\ ms_per_step' = FALSE
    /\ Then(<<>>)
    /\ UNCHANGED <<audio, cb, music_spec, loaded, players, owed>>

\* Without the lock; the number of channels is kept.
FreeChannels ==
    /\ At("free_channels")
    /\ mix_channel' = FALSE
    /\ audio_opened' = audio_opened - 1
    /\ Then(<<>>)
    /\ UNCHANGED <<mixer, audio_device, device, cb, interfaces, players, owed>>

\* SDL_CloseAudioDevice waits for the callback.
CloseDevice ==
    /\ At("close_device") /\ Locked
    /\ device' = IF audio_device = 0 THEN device ELSE [device EXCEPT ![audio_device] = "closed"]
    /\ audio_device' = 0
    /\ Then(<<>>)
    /\ UNCHANGED <<audio_opened, mixer, mix_channel, cb, interfaces, players, owed>>

\* Mix_InitMixer, behind the test.
Initialised(spec) ==
    /\ mixer' = spec
    /\ mix_channel' = TRUE
    /\ open_music(spec)
    /\ audio_opened' = 1

InitMixer ==
    /\ At("init")
    /\ Initialised(Head(app).spec)
    /\ Then(<<>>)
    /\ UNCHANGED <<audio_device, device, cb, players, owed>>

\* SDL may refuse a device.  A new one is paused until the mixer is initialised.
OpenDevice ==
    /\ At("open")
    /\ \/ /\ audio_device' = 0
          /\ owed' = owed - 1
          /\ UNCHANGED <<audio_opened, mixer, mix_channel, device, interfaces>>
       \/ \E dev \in Devices :
            /\ device[dev] = "closed"
            /\ audio_device' = dev
            /\ device' = [device EXCEPT ![dev] = "running"]
            /\ Initialised(Head(app).spec)
            /\ UNCHANGED owed
    /\ Then(<<>>)
    /\ UNCHANGED <<cb, players>>

-----------------------------------------------------------------------------
(* The callback: mix_channels.                                              *)

Callback(dev) ==
    /\ cb[dev] = "idle" /\ device[dev] = "running"
    /\ cb' = [cb EXCEPT ![dev] = "music"]
    /\ UNCHANGED <<audio, interfaces, players, app, owed>>

\* music_mixer: the music may end.
MixMusic(dev) ==
    /\ cb[dev] = "music"
    /\ cb' = [cb EXCEPT ![dev] = "streams"]
    /\ music_playing' \in {music_playing, NoMusic}
    /\ UNCHANGED <<audio, interfaces, objects, mix_streams, mix_streams_buffer, app, owed>>

\* multi_music_mixer: streams may end; the others stay in the queue,
\* in their order.
MixStreams(dev) ==
    /\ cb[dev] = "streams"
    /\ cb' = [cb EXCEPT ![dev] = "channels"]
    /\ \E n \in 0 .. Len(mix_streams) : \E kept \in [1 .. n -> DOMAIN mix_streams] :
          /\ \A i, j \in 1 .. n : i < j => kept[i] < kept[j]
          /\ mix_streams' = [i \in 1 .. n |-> mix_streams[kept[i]]]
    /\ UNCHANGED <<audio, interfaces, objects, music_playing, mix_streams_buffer, app, owed>>

MixChannels(dev) ==
    /\ cb[dev] = "channels"
    /\ cb' = [cb EXCEPT ![dev] = "idle"]
    /\ UNCHANGED <<audio, interfaces, players, app, owed>>

-----------------------------------------------------------------------------
Init ==
    /\ audio_opened = 0 /\ mixer = NoSpec /\ mix_channel = FALSE
    /\ audio_device = 0
    /\ device = [dev \in All |-> "closed"]
    /\ cb = [dev \in All |-> "idle"]
    /\ music_spec = NoSpec /\ ms_per_step = FALSE
    /\ loaded = {} /\ opened = Closed
    /\ objects = {} /\ music_playing = NoMusic
    /\ mix_streams = <<>> /\ mix_streams_buffer = 0
    /\ app = <<>> /\ owed = 0

Call ==
    \/ \E t \in Interfaces : Mix_Init(t)
    \/ \E m \in Music : \/ Mix_LoadMUS(m) \/ Mix_FreeMusic(m)
                        \/ Mix_PlayMusic(m) \/ Mix_PlayMusicStream(m)
    \/ \E spec \in Specs : Mix_OpenAudio(spec) \/ Mix_InitMixer(spec)
    \/ \E pause_on \in BOOLEAN : Mix_PauseAudio(pause_on)
    \/ Mix_FreeMixer \/ Driven \/ Mix_CloseAudio \/ Mix_Quit

Step ==
    \/ Pause \/ FreeOnce \/ FreeAll \/ Halt \/ HaltEach \/ CloseInterfaces
    \/ FreeChannels \/ CloseDevice \/ InitMixer \/ OpenDevice

Next ==
    \/ Call \/ Step
    \/ \E dev \in All : Callback(dev) \/ MixMusic(dev) \/ MixStreams(dev) \/ MixChannels(dev)

Spec == Init /\ [][Next]_vars

-----------------------------------------------------------------------------
(* What must hold.                                                          *)

\* The types.
TypeOK ==
    /\ audio_opened \in 0 .. MaxOpens + 1
    /\ mixer \in Specs \union {NoSpec} /\ music_spec \in Specs \union {NoSpec}
    /\ mix_channel \in BOOLEAN /\ ms_per_step \in BOOLEAN
    /\ audio_device \in Devices \union {0}
    /\ device \in [All -> {"closed", "paused", "running"}]
    /\ cb \in [All -> {"idle", "music", "streams", "channels"}]
    /\ loaded \subseteq Interfaces
    /\ opened \in [Interfaces -> Specs \union {NoSpec}]
    /\ objects \subseteq Music /\ music_playing \in objects \union {NoMusic}
    /\ ToSet(mix_streams) \subseteq objects /\ IsInjective(mix_streams)
    /\ owed \in 0 .. MaxOpens

Usable(m) == m \in objects /\ opened[Interface[m]] # NoSpec

\* Whenever the device calls the mixer, what it uses is there: the decoders of
\* what plays, a buffer large enough for the streams, and the channels (mix_channels
\* against Mix_FreeMixer, close_music and free() without the lock).
MixerWhileCalled ==
    /\ TypeOK
    /\ \A dev \in All :
          /\ cb[dev] = "music" /\ music_playing # NoMusic => Usable(music_playing)
          /\ cb[dev] = "streams" /\ mix_streams # <<>> =>
                /\ \A m \in ToSet(mix_streams) : Usable(m)
                /\ mixer.size <= mix_streams_buffer
          /\ cb[dev] = "channels" => mix_channel

\* While the mixer is open, so are all interfaces with their libraries, for the
\* format of the output and no earlier one (open_music, close_music, Mix_Init).
OpenedForOutput ==
    Idle /\ audio_opened > 0 => \A t \in loaded : opened[t] = mixer

\* "You may call this function multiple times, however you will have to call
\* Mix_CloseAudio just as many times for the device to actually close"; "after
\* calling this all audio is stopped, the device is closed".
OpenUntilClosed ==
    Idle => IF owed > 0 THEN audio_opened > 0 /\ mix_channel
            ELSE /\ audio_opened = 0 /\ ~mix_channel
                 /\ \A dev \in All : device[dev] = "closed"
                 /\ music_playing = NoMusic /\ mix_streams = <<>>
                 /\ opened = Closed
=============================================================================
