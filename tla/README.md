# A TLA+ model of SDL Mixer X

SDL Mixer X (MixerX) is an audio mixer library: the application plays *chunks*
(sounds in memory) on a set of *channels* and *music* (decoded on the fly) on a
music player; SDL's audio thread calls the mixer back for each buffer of output.
The specifications in this directory are translated from `src/src/*.c` and
`src/include/SDL_mixer.h`.

## The system

| part | source | state | operations | correctness |
|---|---|---|---|---|
| channels | `mixer.c` | `mix_channel[]`, `num_channels`, `reserved_channels` | play, fade in and out, expire, halt, pause, resume, volume, allocate, reserve, free chunk; the callback `mix_channels` | the mixer stays inside the chunk, mixes every pass once, reports every end once, gives the volume back, runs a limit for its time |
| music player | `music.c` | `music_playing`, `music_active`, the queue of music played side by side, the two music volumes, the finished hooks | load, play, fade, cross-fade, halt, pause, resume, free, hooks; `music_mixer`, `multi_music_mixer` | one music at a time on the single player, no music used after it is freed, finished hooks answer plays, fades end |
| lifecycle | `mixer.c`, `music.c` | `audio_opened`, the device, the loaded and open interfaces | open, reopen, close, init, quit | the callback finds what it uses, decoders follow the output, closing stops everything |
| effect lists | `mixer.c`, `music.c` | a list of effects per channel, per music and for the output | register, unregister, unregister all | each done callback runs once |
| position, reversed stereo | `effect_position.c`, `effect_stereoreverse.c` | a block of arguments per channel, per music and for the output; the volume table | panning, distance, position, reverse, done callback | a block is in use exactly while it is registered; each speaker plays what was asked |
| codec streams | `codecs/music_*.c`, `music.c` | play count, loop points, position, the stream between decoder and mixer | play, get audio, seek, stop | what is heard is the file, as often as asked, and then the end |
| MIDI sequencer | `codecs/midi_seq/` | rows of events of each track, the place in each, the loop of the song and the stacks of loops | read a file, play, tick, seek, rewind | every note sounds at its tick, as often as the loops ask for, and a tick ends |
| loading | `mixer.c`, `music.c`, `load_*.c`, `codecs/music_*.c`, `mp3utils.c` | the source: its cursor, and whether it is closed | load music, load a chunk; detect the type, walk the chunks, read the tags | what is loaded is the audio and nothing else, the source is closed once, a load ends |

Application calls and the audio thread share the state of the first two parts.
`mix_channels` runs with the device lock held: it mixes the music first (through
`mix_music` and `mix_multi_music`), then the channels, then runs the output
effects.  Most calls take the same lock (`Mix_LockAudio`); `Mix_Volume`,
`Mix_Pause`, `Mix_ReserveChannels` and the reading queries do not, and several
calls take it more than once (`Mix_AllocateChannels`, `Mix_FreeChunk`,
`Mix_FreeMusic`).  The callbacks of the application (channel finished, music
finished, effects) run inside the lock; the documentation forbids them to call
the library (`src/docs/SDL_mixer_ext.html`: "NEVER call SDL_Mixer functions, nor
SDL_LockAudio, from a callback function"), so no re-entrance is modelled.

What is hard: the interleaving of unlocked calls and of the gaps between two
locks with the callback; the order in which ends, limits, fades and pauses meet;
loops that end exactly with a buffer or fit in it several times; unsigned time
differences; sequences of legal calls that carry a volume, a limit or a number of
reserved channels into a place it was not meant for.  PROJECT.json lists these
hazards one by one at their lines.

## Module Channels

`Channels.tla` models the channel engine of `mixer.c`.

| module | code |
|---|---|
| `ch[i]` | `mix_channel[i]`; `pos` is `samples - chunk->abuf`, `effects` the length of the list |
| `num_channels`, `reserved_channels` | the globals of the same name |
| `mx` | the audio callback: its loop (`pc`), `i`, `index` and `sdl_ticks` |
| `app` | an application call between two of its locks, or in the middle of `Mix_Pause`; its locals |
| `now` | `SDL_GetTicks()` |
| `freed` | chunks whose memory has been released |
| `MixBegin`, `MixCheck`, `MixData`, `MixRefill`, `MixRewind`, `MixEnd` | one iteration each of the loops of `mix_channels` |
| `Mix_...` | the calls; a section under the lock is one action that waits for the callback to return, an unlocked call does not wait |
| `Done...`, `Halted`, `Queued`, `Played`, `FadedIn`, ... | what the code does to one channel |
| `owed`, `left`, `wanted`, `due` | history: ends still to be reported, frames still to be mixed, the volume the application gave, the limit it asked for without the time paused |

Sizes are in sample frames.  The samples and their mixing are left out; tags and
start times, which only the group queries read, as well.  A call on "all channels"
that takes the lock once per channel is a sequence of the single calls; those that
treat all of them in one go (`Mix_HaltChannel`, `Mix_Pause`, `Mix_Resume`) have
their range as an argument.  A mutated form of an operator stands before it,
marked "Mutant": it belongs to the mutation test of the property named in
PROJECT.json and is used by nothing else.

`MCChannels.tla` gives small sets of chunks and arguments.  Some properties hold
only for an application that takes care, and `Channels.tla` says how: it pauses only
what is not paused and resumes only what is (`PausedOnce`); it sets limits only on a
channel that plays and is not paused (`LimitsWhatPlays`); it fades only endless sounds
without a limit and replaces them by another fade or not at all (`FadesEndless`); it
gives no volume to a channel that fades (`VolumesHeld`).  `TimedSpec` and
`EndlessFadesSpec` are such applications.  `channels_all` has the first two as action
constraints, `channels_fade` runs `FadesSpec`, with all but `LimitsWhatPlays`.  They are needed because the code departs from its documentation
there: resuming a channel that is not paused moves its limit by the age of the clock
(`mixer.c:1614`), pausing a paused one forgets when the pause began
(`mixer.c:1590`), and a limit set where nothing plays is later reported as the end
of a sound (`mixer.c:363`).  An end during a fade leaves the channel at the volume the
fade had reached (`mixer.c:412`), where a halt restores it; so does a sound started with
`Mix_PlayChannel` over one that fades (`mixer.c:1228`).  A volume given during a fade
lasts until the next step of it.

### Runs

| run | what it shows |
|---|---|
| `channels_all` | plays, fades, limits, pauses, volumes, halts and released chunks against the callback and the clock, one channel, the restricted application: types, one report per play, the time paused does not count against a limit |
| `channels_finish` | two channels, two chunks (longer than the buffer, and as long), reservation and re-allocation: inside the chunk, all passes mixed, released chunks silent, and the whole an implementation of `Playback` |
| `channels_fade` | fades of 0, 1 and 3 ticks that interrupt one another, limits and pauses, a chunk of which two fit in a buffer: volume restored, a fade-out only gets softer, no unsigned wrap; nothing is reported that did not play; under fairness the callback returns, fade-outs and limits end |

Two things the model shows when its bounds are set to reach them, and the passing
runs stay clear of: a looping chunk *shorter* than the buffer can end inside the
refill loop (`mixer.c:423`), where no finished callback is made - that is why
`channels_finish` has no such chunk and `channels_fade` does not ask for a report
of every play; and `Mix_AllocateChannels` does not lower `reserved_channels`, so
that after a reduction the search for a free channel begins, and may end, behind
the last one (`mixer.c:1209`).

Bounds: one channel is enough where a property speaks of a single channel, as
channels meet only in `Mix_HaltChannel(-1)`, the free-channel search, the chunk
they share and `Mix_AllocateChannels`, for which `channels_finish` has two.  Chunk
lengths 1 to 5 against a buffer of 2 give a pass that ends inside, at and after
the end of a buffer, and two in one.  The clock runs for four or five ticks: enough for a fade or a limit to begin, be
paused or interrupted, and end.

Fairness (`channels_fade`): SDL's audio thread calls the callback for as long as
the device is open and runs it to its end (`MixBegin`, `MixStep`), and the clock
goes on (`Tick`).  Nothing is assumed of the application.  The clock stops at
`LastTick`; calls whose fade or limit would end later are not made.

### Theorems

`ChannelsProofs.tla` first proves what each operation does to one channel: its type,
and which *turn* it is.  A channel is kept, ends (and is reported), begins, is emptied
(memory allocated or given back) or advances (the mixer takes frames); `Turn` is
the disjunction, and each turn says what happens to place, fade, limit and report.
Then every action keeps `TypeOK /\ Located` and lets each channel take one turn
(`NextGood`).  `Located` is the strengthening that
makes the type inductive: the callback is at an allocated channel, it mixes a pass
only while the pass and the buffer last and refills only when the pass is over, an
unfinished call names existing channels, and a playing channel has a chunk.  All
other theorems follow from the turns without looking at the actions again:

| theorem | states |
|---|---|
| `Typed`, `StaysLocated` | the inductive invariant |
| `InsideChunk` | `SamplesInChunk`: no read outside a chunk |
| `PassesMixed` | `EveryPassMixed`: loops + 1 passes, no frame more or less |
| `FadesMeasured` | `FadeNotAhead`: the unsigned fade time does not wrap |
| `ReleasedNotPlayed` | `FreedChunkSilent` |
| `FinishAnswersPlay` | `NoSpuriousFinish`, if `Mix_ExpireChannel` is not used |
| `EveryPlayReported` | `OneFinishPerPlay` and `IdleNotFading`, if besides no chunk is shorter than the buffer |
| `VolumeGivenBack` | `VolumeRestored`, if only endless sounds without a limit fade and volumes are given to what does not fade (`EndlessFadesSpec`) |
| `FadesOutSoftly` | `FadeOutNeverLouder`, if no call sets a volume |
| `PauseStopsClock` | `PauseSuspendsTimer`, if channels are paused once and limits set on what plays (`TimedSpec`), and the clock does not begin at 0 |

They hold for every number of channels, chunks, lengths, arguments and every clock
below the wrap of `Uint32`.  The assumptions are those on the constants; the
conditions of `FinishAnswersPlay` and `EveryPlayReported` are exactly the cases of
`mixer.c:363` and `mixer.c:423` above.

The last three need invariants about volume and time, each inductive by itself:

- a channel that fades has set the application's volume aside (`SetAside`); a fade
  that takes over from another takes over what was set aside, and an end or a halt
  gives it back;
- a channel that fades out is at least as loud as its fade will make it at the tick
  the mixer is at (`AsLoud`), so that the next step of the fade is a step down; the
  rounded steps fall as the clock goes on, and a fade-out is not begun again while it
  runs;
- the limit of a channel that plays is the one asked for and the time it was paused,
  and of a paused one, once the pause so far is added (`Suspended`); a sweep of
  `Mix_Pause` has the clock of its beginning (`SweepAhead`).  `paused` is the tick of
  the pause, and 0 means none: a channel paused at tick 0 is not, hence `FirstTick # 0`.

Only model-checked: the liveness properties.

## Module Playback

`Playback.tla` is what `SDL_mixer.h` promises of a channel to an application that
cannot see how it is mixed.  A channel is a *voice* with a sound, the frames left,
the reports owed and the effects registered on it.  In one step each voice begins,
goes on, stops or gets other effects: it goes forwards through exactly the passes
asked for, the report comes in the very step that stops a play or puts another in
its place, its effects go with it, and what was given back is not playing.

The end of `Channels.tla` maps the channel array to voices: what is left of a
voice is the rest of the pass and one pass for each loop (`Remaining`), channels
that are not allocated rest.  `KeepsPromise` says that every behaviour of
`Channels` is, so mapped, one of `Playback`; `channels_finish` checks it, and
the last part of `ChannelsProofs.tla` proves it:

| theorem | states |
|---|---|
| `Implements` | `KeepsPromise`, if `Mix_ExpireChannel` is not used and no chunk is shorter than the buffer |

Each turn that an action gives a channel is a turn of its voice (`VoiceTurn`), so
the proof looks at no action but the re-allocation, where channels come and go
(`NewChannelsFresh`).  It needs `Located`, that every play is answered
(`AllAnswered`) and that released chunks are silent, all inductive.

## Module Music

`Music.tla` models the two ways `music.c` plays music: the single player
(`music_playing`, with `music_active` and `music_volume`) and the queue of streams
(`mix_streams[]`, each with its own `is_multimusic`, `music_active`,
`music_halted`, `free_on_stop` and `music_volume`).

| module | code |
|---|---|
| `mus[m]` | `struct Mix_Music`; `heard` is the volume last given to the decoder, `loaded` is FALSE once the memory is given back |
| `music_mixer` | the function of that name: one buffer of the single player |
| `MixStream`, `StreamsMixed`, `CleanStream`, `StreamsCleaned` | one iteration each, and the ends, of the two loops of `multi_music_mixer` |
| `Mixed`, `FadeOver`, `FadeStep` | the body common to `music_mixer` and `music_mix_stream` |
| `Mix_...` | the calls; what is done under the lock waits for the mixers, what is not does not |
| `app` | the steps of the application's call still to be done, with what it read before it took the lock |
| `FreeAgain`, `FreeRelease` | `Mix_FreeMusic` after its wait, and after it gave up the lock |
| `StepEach` | one round of `_Mix_MultiMusic_HaltAll`, `PauseAll`, `ResumeAll`: the unlocked read of `mix_streams[i]` |
| `owed` | history: starts still to be reported finished |

A fade is counted in buffers (`ms_per_step`).  Whether a decoder has more to give
is left open, except for music that is played for ever; so is whether it starts.

An application may not name music the library may free under its hands
(`Nameable`: with `free_on_stop` set, only while it plays for ever and does not
fade out).  Beyond that, `Courtesies` restrict it: "plays", it halts, fades out
and cross-fades only what plays and sets the volume only of a stream, of what is
on the single player, or of the player itself; "fades", it turns a stream's fade
back only to a fade-in that is long enough, and not before the second step.
`music_all` needs neither.  The others do because the code accepts such calls:

- `Mix_HaltMusicStream` and `Mix_FadeOutMusicStream` of music that does not play
  run the finished hooks, or leave a fade-out that the next fade-in takes for one
  to turn back; a cross-fade from it leaves `free_on_stop` set;
- `Mix_VolumeMusicStream` of idle music changes `music_volume`, but not the volume
  of the decoder on the single player;
- a fade turned back before its first step stays at its old volume, and one turned
  into a much shorter fade gives a negative volume (both `music.c:2609`);
- `Mix_FadeOutMusic` reads `music_playing` before it takes the lock
  (`music.c:3296`) and may put a fade on music that has just ended, which
  is why only `music_all` makes this call;
- `_Mix_MultiMusic_HaltAll`, `PauseAll` and `ResumeAll` read `mix_streams[i]` without
  the lock; the call they then make may find that stream over, reported or freed;
- music replaced on the single player, and music that fails to start, is not
  reported; a failed start keeps its fade-in (`PlayCan` is TRUE but in `music_all`);
- a stream for which `_Mix_MultiMusic_Add` gets no memory (`RefuseStream`,
  `music.c:2532`) is in no queue and goes on saying that it is a stream, even on the
  single player later.  `OnePlayerEach` names it as the one exception (`Refused`), and
  `music_all` has it.  The other runs have `OutOfMemory` FALSE: halting such music
  runs the hooks (against `NoSpuriousFinish`), its fade-in stays (`IdleNotFading`),
  its volume is not the one it would be heard at (`HeardAsGiven`), and marked to be
  freed it never is (`FreedOnStop`); and to free it after fading it out is to wait for
  ever.  The array of the queue is made once; the model lets it be refused
  whenever the queue is empty, and leaves out its growth beyond ten streams.

Two more observations that no property is about: `_Mix_MultiMusic_HaltAll` skips
every other stream, as each halt moves the rest of the queue up, and
`Mix_CrossFadeMusicStreamPos` returns -1 when it succeeds.  And one that keeps
`music_live` from pausing: `Mix_FreeMusic` of a paused stream that fades out waits
for a fade that no longer moves, and never comes back (`music.c:2272`).

### Runs

| run | what it shows |
|---|---|
| `music_all` | two pieces of music, any order of calls, pauses, decoders that fail, no memory for the queue: volumes in range, each piece plays in one place, the queue has neither holes nor duplicates nor freed music, a halted stream is in it only between the mixer's two loops |
| `music_ends` | two pieces, cross-fades, `free_on_stop`, frees during fades, volumes: every end reported once, unfinished calls name music that is there, each is heard at the volume it was given, no fade outlives the music |
| `music_live` | under fairness, nothing paused: `Mix_FreeMusic` comes back, fade-outs end, what the library is to free is freed |

Bounds: two pieces of music give every relation the code tests (the one named, the
one on the single player, another in the queue; removal from the front, the end
and the middle of a walk).  The two pieces are interchangeable, which justifies
the symmetry of the safety runs; the liveness run does without.  Fades of up to
two steps, scaled when one takes over from another, reach the first, an inner and the
last step, and their interruption at each; `StepBound` only refuses fades that would begin beyond it, which scaling
could otherwise let grow.  A maximal volume of 1 tells silence and full.

Fairness (`music_live`): SDL's audio thread goes on calling the mixers and runs
each call to its end (weak fairness of `music_mixer` and `MixStep`).  A call of
the application that waits for the lock, or polls for the end of a fade every
100 ms, gets the lock some time, although the audio thread takes it again and
again (strong fairness of `AppContinue`): between two buffers the thread sleeps.

### Theorems

`MusicProofs.tla` proves for every set of music, all lengths of fades and all volumes:

| theorem | states |
|---|---|
| `OnePlayer` | `OnePlayerEach`, if the queue gets its memory (`~OutOfMemory`) and the music a cross-fade names plays as a stream, or no call cross-fades |
| `EndsReported` | `EndReported`, if besides every decoder starts |
| `MusicTyped` | `TypeOK` with the ranges of volumes and fades, for a careful application (`Courteous`) |
| `NamesLoaded` | `AppNamesLoaded`: a call that gave up the lock still names music that is there, for the same |
| `EndAnswersStart` | `NoSpuriousFinish`, for the same |
| `HeardAtItsVolume` | `HeardAsGiven`, for the same |
| `FadesWhatPlays` | `IdleNotFading`, for the same |

All of them assume that the queue gets its memory; what holds without, that refused
music is the only exception, is left to the run `music_all`.
The inductive invariant is `Sound == Typing /\ OnePlayerOnly /\ Releasing /\
~OutOfMemory`, `OnePlayerOnly` being `OnePlayerEach` without the exception.
`Typing` is the type without the ranges of fades and volumes, which no safety of
the queue depends on; `Releasing` says where an unfinished free stands: what it
waits for or gives back is its own piece, and a piece that is about to be given
back is on no player.  While no mixer runs, `Sound` comes to something simpler
(`AtRest`): the queue is exactly the set of streams.  So what the application does
under the lock is proved from `AtRest`, and only the mixers, and what runs
without the lock, from the invariant itself.  What an operation does to one piece
is one of two things, it goes on (`Same`) or it is halted (`Halts`), and what a
removal does to the queue is proved once (`RemovedQueue`).

`EndsReported` needs two facts more: what the mixer halted and has not cleaned up
is reported (`HaltedReported`), and a free waits for a fade-out that goes on
(`WaitsForFade`): when it comes back, the music is off its player, so it does not
report again.

The other five are about an application that shows both `Courtesies`, whose decoders
start, and that does not make the calls which read a player without the lock and which
the run `music_ends` leaves out (`Mix_FadeOutMusic`, halting and pausing all streams):
this is `Courteous`.  Each part of it is one of the cases listed above, in which the
code does break a property.  The five follow from one invariant, `Sound /\ Steady`:

- `Players`: what plays is owed one end, nothing else fades, and a fade is within its
  steps, so that the volumes it sets are in range.  A fade turned back is the reason
  why the number of steps is in the invariant;
- `InTune`: the single player, when it does not fade, is heard at its volume; but
  between the two parts of `Mix_VolumeMusic`, where the new volume is stored and not
  yet given to the decoder, a call that will do so is under way (`Retuned`).  A stream
  has no such gap;
- `Listed`: what a half-done call has still to fade, start, set or free is loaded; and
  as long as that call is not done, the mixer cannot free it behind its back: either
  it is not freed on its end, or it has none (`Lasts`: it plays for ever and does not
  fade out).

None of the three is inductive alone: a volume is in tune only if the piece the call
named is still the one that plays, which `Listed` says, and that a fade is over, which
`Players` says.

Only model-checked: the liveness properties.

## Modules Effects, Position and Samples

`Effects.tla` models the lists of effects (`mixer.c`, `music.c`) and the two
effects that come with the library; `Position.tla` the arithmetic of
`effect_position.c`; `Samples.tla` the tricks with samples of eight bits.

| module | code |
|---|---|
| `effects[o]` | the list of a channel, of the output (`MIX_CHANNEL_POST`) or of a piece of music: callbacks with their done callbacks |
| `args[o]` | the block of position arguments: `pos_args_array[]`, `pos_args_global`, `music->pos_args`; amplitudes, distance, room and `in_use` |
| `position_channels` | how far the table of blocks reaches |
| `RunDone`, `_Mix_remove_effect`, `_Mix_remove_all_effects` | a done callback for every entry that goes; `_Eff_PositionDone` gives the block back |
| `Place` | what `Mix_SetPanning`, `Mix_SetDistance` and `Mix_SetPosition` do under the lock, for channels and music alike |
| `Panned`, `Distanced`, `Positioned` | the three calls, with what each makes of the block and when it removes the effect |
| `shrink` | `Mix_AllocateChannels` on its way down, between its locks: the sound of a channel may end in between |
| `Position!_Eff_position_...` | which source sample and which amplitude reaches which speaker, one operator per effect function, 27 of them |
| `set_amplitudes`, `RoomAngle`, `PanAngle` | the amplitudes of a direction, their order in a turned room |
| `_Eff_volume_table`, `TableAskedFor` | the one table of volumes: which format filled it, when the function of an effect was looked for; it outlives the mixer |
| `MaxSpeed` | whether `MIX_EFFECTSMAXSPEED` is in the environment: without it unsigned samples use no table, signed ones always do |
| `Samples!Filled`, `_Eff_position_table_u8`, `_Eff_reversestereo8` | what each format fills the table with, addressed as the code does; two frames reversed in a word, a frame left over beside them |
| `owes`, `asked` | history: done callbacks still to be run; what the application asked to hear |

Memory does not run out, so that the table is there once asked for.  The functions for eight bits leave the samples in place
and turn the amplitudes, the others move both; each is written as it is in the
source.  In `_Eff_build_volume_table_u8` the conversion of a negative float to an
unsigned byte is undefined in C; what is modelled is the low byte of the
truncated value, as the usual compilers make it.  `Heard` says which sample is
played at which loudness; what a look-up makes of the number itself is the matter
of `TablesLoseNothing`.

`effects_all` stays clear of cases in which the code does not do what it is asked:

- `_Eff_position_s16lsb_c4` and `_s32lsb_c4` read the rear samples one place too
  early (`effect_position.c:829`, `:1250`), so the quadrophonic output of the run
  has eight bits;
- `Mix_SetDistance` takes an effect for one that does nothing when the distance is 0
  and the left and right speakers play at full volume (`effect_position.c:2290`),
  whatever the others do: with four or six speakers, a sound straight behind the
  listener that comes close is unregistered and heard from everywhere, although
  "Setting the distance to 0 unregisters this effect, since the data would be
  unchanged" (`SDL_mixer.h:2013`).  `SomePlaces` has no such angle (1, 179 to 181, 359);
- a call for a channel that does not exist marks its block in use although nothing is
  registered (`effect_position.c:2304`): the application of the run names channels
  that are there (`Existing`);
- `_Eff_position_table_s8` leaves out the 128 of its second index
  (`effect_position.c:634`) and in a frame left over of both (`:616`), and puts the
  four bytes of a word together without cutting off their signs: what it makes of
  samples is not modelled, only that it asks for the table and has it;
- the table is one for both signs (`effects_internal.c:69`, `:100`): `QualityKept` is
  asked of unsigned samples unless signed ones filled the table before, on an output
  opened earlier in the program.  The run has both outputs, in both orders;
- without a table, `_Eff_position_u8` scales the first sample of a mono buffer of odd
  length without centring it (`effect_position.c:143`); nothing is said of it;
- `_Eff_reversestereo8` gives the right speaker of a frame left over the first sample
  of the buffer (`effect_stereoreverse.c:94`): of that frame only the left is claimed;
- panning an output of four or six speakers with one side silent turns it to the
  other side than a comment says (`effect_position.c:2219`); `SomePans` has none;
- a block that is not in use is lost with its music (`Mix_FreeMusic`), and no music
  is taken from one opening of the mixer to the next (its effects would work in
  the format of the old one).

| run | what it shows |
|---|---|
| `effects_all` | every done callback runs once whichever way an effect goes; a block is in use exactly while one position effect reads it; every corner speaker is as loud as the last calls ask, plays one source and plays plainly once they ask for nothing; no jump, and no softer, towards a speaker; no effect runs by a table that is not there, the table loses nothing of unsigned samples, and reversal swaps buffers of two, three and four frames but for the right sample of a frame of eight bits left over |

Bounds: one channel beyond those after opening, so that it can go; two effects per
list and three at a time, so that each list is full while another is not empty (two
at a time on an output that another one filled the table for); four outputs that
between them reach the amplitudes kept in place, moved, and mixed into a center, and
both formats that share the table; angles of the passing run lie in a turned room, while
`SamplesAsMeant` goes through all 360.  The table is checked for the volumes
of the run and all 256 samples.

**Theorems.** `EffectsProofs.tla` proves for every number of channels, pieces of music,
effects and formats, of an application that names channels that exist (`Existing`):

| theorem | states |
|---|---|
| `DoneOnce` | `DoneOncePerEffect`: what the application is owed is exactly the done callbacks in its lists |
| `BlockInUse` | `InUseWhileRegistered`: a block is in use exactly while one position effect reads it, and that effect is the one for the output |

The inductive invariant is `IInv == Lists /\ Numbers /\ Shrinking`.  `Lists` counts: the
places of a list with a done callback of the application are as many as it is owed
(`Marks`), at most one place holds a position effect, what cannot hold effects has
none, and the table of blocks reaches to every channel that has one.  `Shrinking` is
about `Mix_AllocateChannels` on its way down, which gives up the lock between the
channels: those it has passed stay empty and silent until the array is cut.  What a
removal does to the counts is proved once for lists (the lemmas on `Marks`), what a
call does once for one owner of a list.

`HeardProofs.tla` goes on with what is heard, for all angles, distances and volumes:

| theorem | states |
|---|---|
| `AskedIsHeard` | `HeardAsAsked`: every corner speaker plays one source, at the loudness that the last panning, distance and position ask for (`Existing`, and see below) |
| `SamplesExact` | `SamplesAsMeant`: no slope jumps or turns; no position effect is run by a table that is not there, and one filled for unsigned samples makes of all 256 at all volumes and distances what the arithmetic makes of them, to within one; reversal swaps buffers of any length, but for the right sample of a frame of eight bits left over (`Existing`) |

`AskedIsHeard` has two more hypotheses, which are the first two of the cases the run
stays clear of, and no wider: no output of four speakers in the formats `s16lsb` and
`s32lsb` (`Fine`); and, where there are four or six speakers and the distance 0 is
used, no direction of 1, 179, 180, 181 or 359 degrees, be it given or made of a
panning (`Named`).  That these five are all comes out of the proof: for any other
direction but 0 one of the speakers `Mix_SetDistance` looks at is below full volume
(`ClearIsHeard`, from `SurroundLow`).

It needs a second invariant on top of `IInv`, `Hearing`: the block of every owner
`Suits` what was asked.  Either the room is not turned and the block holds the volumes
asked for (`Straight`), or both are the volumes of one direction, the block's in the
order of the room (`Directed`); and a block out of use goes with nothing asked for.
`Mix_SetDistance` is the hard step, as it tells from a block whether the effect may
go.  What the functions of the effect then make of a frame undoes the order: each
speaker gets its own sample or that of its place in the turned room (`Stay`, `Move`,
`CornersPlaced`), and turning is one to one (`TurnedOnto`).

`SamplesExact` needs of the state that the table is filled before any block of
arguments is in use on an output that works by it (`TableHere`): a call fills it
before it makes a block, closing keeps it, and a mixer is opened with no block in use
(`NobodyHolds`); that an effect then has its table follows from `BlockInUse`.  Its
hypotheses leave out only numbers of speakers for which there are no position effects,
but the property itself is silent on signed samples and on unsigned ones that meet a
table filled for signed ones, as said above.  A fraction is dropped in each of
the two columns of the table and once by the arithmetic (`TwiceDropped`); the slopes
are compared sector by sector with the next degree and the mirror image
(`SurroundSlopes`, `StereoSlopes`).

## Module Codec

`Codec.tla` models a piece of music with its decoder: the loop of
`music_pcm_getaudio`, the stream between decoder and mixer, `music_internal_play`,
`_position` and `_halt`, and the `Play`, `GetSome`, `Seek` and `Stop` of nineteen
decoders.  A frame is its position in the file.

| module | code |
|---|---|
| `music` | the piece: its decoder, length, loop tags, WAV loop points |
| `d` | what a decoder keeps: `play_count`, where it reads, `flag` (`loop_flag`), the counts of the loop points, a library that loops by itself |
| `stream` | frames put into `SDL_AudioStream` and not given yet |
| `left`, `zero_cycles` | what `music_pcm_getaudio` has still to fill; reads in a row without audio |
| `..._GetSome` | what each decoder does with a block: at the end of the file, at a loop's end, what it cuts off |
| `due`, `After`, `Settled` | the reference: what is to be heard next, of a piece with loops and passes, frame by frame |

`HeardAsWritten` compares the two: however far the decoder has run ahead, what it
has put into the stream, and what has been given, is what the reference says.

| run | what it shows |
|---|---|
| `codecs` | every decoder with its kind of loops, played once, twice, three times and for ever, halted and sought anywhere: heard as written, halted only when over, `music_pcm_getaudio` returns (after `MAX_ZERO_CYCLES` for a file without audio), finite music ends |

The pieces of `AllCases` are among those each decoder plays right: `PlaysRight` says
which these are, and TLC evaluates it on each of them (`RightCases`).  The others can
be tried by giving `Cases` one of the sets at the end of `MCCodec.tla`:

- `OggCase`: a loop that does not start on a page; `ov_read` gets a number of
  frames where it takes bytes (`music_ogg.c`, `ogg_quick_seek_to_loop_start`);
- `OpusCase`: a loop that does not end with a packet; frames are cut off in bytes;
- `QoaCase`: a loop that ends within a block of the end of the file;
- `FlacCase`: a seek to the last block of a loop, or a loop shorter than a block;
- `DrflacCase`: halted or sought when the end of a loop has been read; `loop_flag`
  survives and the next start goes back to the loop;
- `AdlCase`, and `opnmidi`, `edmidi`: a halt does not clear the stream, and the
  next start is heard after the rest of the old block;
- `TimidityCase`: through a stream, a piece that is not a whole number of blocks
  loses its last block;
- WAV loops shorter than a block, and for libxmp a piece that is not a whole number
  of buffers (it fills with silence).

A seek in a WAV file leads to a whole second, and the reference follows it there.

Not modelled: resampling and conversion, errors of the libraries, seeks behind the
end, a seek after the decoder has read its last pass (it changes nothing that is
heard), tags, tempo and pitch.

Bounds: a block of four frames against requests for three makes the two run out of
step; pieces of two to three blocks give a loop inside, at and across a block.

Fairness: the audio thread keeps asking while music plays, and the loop of
`music_pcm_getaudio` runs on.

### Theorems

`CodecProofs.tla` proves, for pieces, blocks, requests and numbers of passes of every
size and for whatever the application does between the callbacks, all nineteen
decoders at once:

| theorem | states |
|---|---|
| `HeardAsWrittenAlways` | `Spec => []HeardAsWritten`: what is given to the mixer, and what waits in the stream, is the piece as it is written; no negative length is put into the stream |
| `EndedWhenOverAlways` | `Spec => EndedWhenOver`: the audio thread halts music only when all of it has been heard, or when it has no audio; the limit of `MAX_ZERO_CYCLES` never ends music that has some |

The hypothesis of both is `\A c \in Cases : PlaysRight(c)`, which excludes the pieces
and calls listed above: there `HeardAsWritten` fails in the code.  Each conjunct says
what one group of decoders needs, and is used in the proof of that group.  Nothing else
is assumed of the calls; the constants satisfy `CodecAssumption`.

`HeardAsWritten` is not inductive: it says nothing of what the next read brings, and
nothing between a halt and the next start.  The invariant `Along` adds:

- *while music plays* (`Playing`), the decoder `Meets` what is due after the frames of
  the stream: it stands, settled, exactly where these lead to, with the passes and the
  counts of the loop points that are left then, or it has finished and nothing is due;
- where a decoder can be (`Positioned`): not behind the file (one past it, for the
  decoder of QOA at its end), at the border of a block where it must be, before the
  loop's end unless its flag says that it has reached it;
- a decoder that brought nothing brings something with the next read (`Yields`), so
  that at most two reads in a row are empty when the piece has audio;
- *while it does not* (`Halt`), nothing of it is left for the next start.

The reference is recursive: `AheadEquation` is proved first, by induction over the
number of frames, and `At` gives what is due one frame at a time.  `RunOn` and
`StraightRun` lead it through a block without a loop's end, `AfterLoop` over the end
of a loop point, and `Settled` over the ends of loops and passes.  With these, `ReadOK`
says of a read what the invariant needs, and is proved decoder by decoder (`PlainOK`,
`FramesOK`, `PacketsOK`, `SamplesOK`, `FlacOK`, `DrflacOK`, `WavOK`, `XmpOK`,
`TimidityOK`, `SynthOK`, joined in `GetSomeOK`).  Each call then has a lemma of its own
(`StartOK`, `SeekOK`, `StopOK`, `CallbackOK`, `TakeOK`, `GiveOK`, `FillOK`).

`Induction.tla` holds what induction is done with: `NumberInduction` says of a *set*
of numbers that has 0 and with each number the next that it has all of them.  It is
proved from `LeastNumber`, and in this form, unlike the library's theorem with its
operator parameter, the provers can use it.

## Module Lifecycle

`Lifecycle.tla` models opening, initialising, freeing, closing and quitting.

| module | code |
|---|---|
| `audio_opened`, `mix_channel`, `audio_device`, `mixer` | the globals; `mix_channel` is whether the array is there |
| `device[dev]` | what SDL does with a device: closed, paused, running |
| `cb[dev]` | the callback of a device, by part: music, streams, channels |
| `loaded`, `opened[t]` | an interface and the format it was opened for (`music_spec` at that time) |
| `mix_streams_buffer` | the size of the streams' buffer, set by the first stream |
| `app` | the steps of an application's call still to be done: halts take the lock, freeing does not |
| `owed` | history: successful openings not closed yet |

Device 0 stands for an application that drives the mixer itself (`Mix_InitMixer`,
`Mix_GetGeneralMixer`, `Mix_FreeMixer`): the library then locks nothing, and the
application keeps its calls and its callback apart.  `Courtesies` are what an
application must take care of itself, because the code does not:

- "closes": it opens only what is closed.  Opened again in the same format, the
  mixer is counted and then freed, and the call returns 0 (`mixer.c:484`, the run
  `reopened`); in another format, it is freed without a pause of the device, and
  the old device is never closed;
- "inits": it does not load decoders after closing; `Mix_Init` would open them for
  the format of the last opening, and the next one does not open them again
  (`music.c:1129`);
- "sizes": no larger buffer once streams have played: `mix_streams_buffer` keeps
  the size of the first (`music.c:107`; nor is it ever freed, as the condition at
  `music.c:194` is inverted);
- "quits": `Mix_Quit` comes last; it unloads interfaces that are open;
- "device" (in `reopened` only): it opens the mixer by `Mix_OpenAudio` and never by
  `Mix_InitMixer`.  In no run does it mix the two: what it opened in one way it closes
  before it opens in the other (`Mix_FreeMixer` is for what `Mix_InitMixer`
  initialised, `docs/5_1_functions_general.texi:527`).

The argument `skip_init_check` of `Mix_InitMixer` is FALSE; with TRUE, which the
library passes itself when it has just opened a device, the test is not made.

`_Mix_MultiMusic_HaltAll` leaves every second stream in the queue.  Closing calls
it twice, which is enough for three streams and not for four: with more, the
mixer is closed with music queued.

| run | what it shows |
|---|---|
| `lifecycle` | a careful application, two formats and buffer sizes, three pieces of music: no callback meets freed channels, closed decoders or a buffer too small; decoders follow the output; after the last close everything has stopped |
| `reopened` (violation) | without "closes": `Mix_OpenAudio` twice in the same format, and the second call, which returns 0, has freed channels and decoders under the running device ("you will have to call Mix_CloseAudio just as many times for the device to actually close", `docs/5_1_functions_general.texi:180`) |

**Theorems.** `LifecycleProofs.tla` proves for all formats, buffer sizes, interfaces
and music, of an application that takes all the care above (`Careful`):

| theorem | states |
|---|---|
| `MixerServed` | `MixerWhileCalled`: whenever a callback runs, what it uses is there |
| `DecodersFollow` | `OpenedForOutput`: what is open was opened for the output as it is |
| `ClosedWhenClosed` | `OpenUntilClosed`, with up to three pieces of music (`Few`), for the reason given above |

The inductive invariant says where the application's call stands (`Phase`): the mixer
runs, is about to open, to close, or has so many steps of freeing before it; the steps
still to be made determine what is open and what plays.  `DevicesApart` adds that no
device but the open one calls, and that one only while it runs; `Furnished`, that
music has its decoder and streams their buffer.  The queue holds each stream once
(`QueueOf`), which is what bounds the two walks of `_Mix_MultiMusic_HaltAll`: each
leaves half of it, rounded down.

Left out: an interface whose `Open` fails, several interfaces for one type, and
the steps of closing that touch only what is modelled elsewhere (channels, effects,
the lists of decoder names).  Bounds: two interfaces, one that needs no `Mix_Init`;
three pieces, which the second walk over the queue needs.

## Modules Loading, Chunks, Tags, Voc and Source

`Source.tla` is a file behind an `SDL_RWops`: blocks with headers, contents and
padding, perhaps behind other data (`origin`) or cut short (`cut`), and a cursor.
What a block says is abstracted to what the readers tell apart: its kind, its
length, and `x` (the encoding of a format, whether a tag is readable).

| module | code |
|---|---|
| `Chunks` | one round each of the loops of `detect_riff_mp3`, `LoadWAVMusic`, and `LoadAIFFMusic` with `Mix_LoadAIFF_RW` |
| `Tags` | `mp3_read_tags`, probe by probe: `probe_riff_container`, the tag in front, `probe_mmtag`, `probe_id3v1`, and the loop over `probe_lyrics3`, `probe_mmtag`, `probe_apetag` |
| `Voc` | `Mix_LoadVOC_RW`: a round each of `voc_get_block`, and what its callers do when it comes back |
| `Loading` | `Mix_LoadMUSType_RW_ARG` and `Mix_LoadWAV_RW` with `Mix_LoadMusic_RW`: the type, the decoders in turn, closing the source |
| `rd` | the locals of the reader at work; `ld` those of the call |

Any step that needs memory, a library or a conversion may fail (`hitch`).  One such
failure is no error to the code: when memory runs out while a music decoder plays a
chunk, `Mix_LoadMusic_RW` returns what was played so far (`mixer.c:774`, `CutShort`);
where a fragment may end is the constant `FragmentEnds`.  Left out: the magic numbers
of other types (one comparison each), MIDI players, `SDL_LoadWAV_RW` beyond what it
does to the source, and samples of other files that look like frames of MPEG.  A file
of no known type is `MUS_MOD` to the code (`music.c:1966`); the model refuses it, as a
build without a decoder of that type does.  `probe_riff_container` also gives up when
a seek over a chunk fails (`mp3utils.c:1196`, `1205`, `1217`), which takes a file that
is shorter, all in all, than one of its chunks says: `Made` leaves those out.

| run | what it shows |
|---|---|
| `loading` | every file of up to three chunks (RIFF: a PCM or MPEG format, long enough or of 14 bytes, data, `LIST`, ID3, an unknown and an empty chunk; AIFF, AIFF-C and 8SVX), whole, behind other data or cut by three bytes, and every MPEG file with one of four beginnings and up to three tags behind, of seven kinds, with audio and without; and VOC files of up to three parts (data in two rates, in none and in an unknown encoding, in 16 bits, extended, continued, silence in two rates and in none, text, loops), with a terminator and without; as music and as a chunk, `freesrc` or not. A well-formed file plays exactly its audio, or a beginning of it where memory ran out (`short`), under the title of its best tag, and is refused only after a failure (`LoadedAsWritten`); the source is closed once, by its owner, and refused music is rewound (`SourceClosedIfOpened`); every load ends (`LoadReturns`) |

Fairness: the call runs in the application's thread, which nothing stops.  Three
chunks are what the longest of the formats needs, and three tags behind are enough
for each to hide another; odd lengths have padding.  Lengths are small but for the
MusicMatch tag, which the loops do not count.

What the properties except, since the code does otherwise:

- `Mix_LoadMusic_RW` returns without closing the source when it has no type or no
  decoder for it (`mixer.c:717`), although "If `freesrc` is non-zero, the RWops will
  be closed before returning, whether this function succeeds or not"
  (`SDL_mixer.h:735`); without the exception `Unopened`, the run finds it;
- `probe_riff_container` sets `start` to an offset that counts from `start`
  (`mp3utils.c:1232`): MPEG audio in a RIFF file behind other data is read from the
  wrong place;
- an APE tag without a header ends the search (`mp3utils.c:1009`), so tags before it
  stay in the audio;
- a file of fewer than 24 bytes is left where reading it ended (`music.c:1697`), and
  so is music for which memory runs out after a decoder took it (`music.c:2228`);
- a VOC file is looked for at the start of the source, wherever that stands
  (`load_voc.c:89`); one that begins with silence is refused, as only data sets the
  size of a sample (`load_voc.c:408`); silence between 16-bit or extended blocks
  loses its length, as their rates are no codes of a byte (`load_voc.c:245`); a
  marker takes two bytes of the next block (`load_voc.c:306`), and the block behind an
  empty one is not counted in `audio_len` (neither of these is among the files);
- an empty chunk ends every list of RIFF chunks (`music_wav.c:1724`): what follows it
  is not found.

**Theorems.** `LoadingProofs.tla` proves, for every set of files and every list of
decoders, from `FilesAssumption` (a file is behind a natural number of other bytes)
and `DecodersAssumption` (decoders have the types the code knows);
`FragmentEndsAssumption` (the ends of fragments are places) is not needed:

| theorem | states |
|---|---|
| `SourceClosedOnce` | `SourceClosedIfOpened`, of all files |
| `LoadedAsWrittenAlways` | `LoadedAsWritten`, when `\A f \in Files : Made(f)` and `BothTypes` |

For the first, the property alone is not inductive: `Standing` adds that nothing is
closed before the call returns, that the cursor is where the file begins whenever no
reader works, and that while the type is looked for the reader remembers that place.

For the second, `Made` says how the blocks of each form are laid out, in files of any
number of blocks of any length, well-formed or not: chunks have a header of 8 bytes
and are padded, a tag is as long as the least of its kind, a VOC block holds at least
what it tells of itself and an extended one comes before its data, and so on; what a
reader does with bytes that are not laid out so is left open.  `BothTypes` asks for a
decoder of either type.  TLC finds both true of the files it is given
(`MCLoading!MadeAssumption`), so the theorem covers them.  Its invariant is
`IInv /\ Typing /\ Fit`:

- `Typing` holds of all made files: the cursor is in the file, and the record of each
  reader has the fields and the range its next step relies on;
- `Fit` holds of well-formed ones: the reader at work stands between two blocks, and what it
  has noted is what the blocks before its place say.  There is one such statement per reader:
  `DetectAt`, `WavAt`, `ProbeAt`, `IffAt` for walks over chunks (which chunks were
  passed, and what the format and the data said), `MpegAt` for the tags (the audio and
  the tags behind it that are not cut off yet, which of the five kinds were handled,
  and the title of the best tag so far), `VocAt` for VOC blocks (the pass that measures or
  the one that reads, what was heard, whether a rate, a size or an extended block is
  pending).  `FitAt` puts them together with the place in the list of decoders: one
  that was tried and failed leaves a file that fits as before.

`Fit` is about the blocks before a place, so what the end of a file means is proved by
induction over its blocks (`Induction`): where a block begins (`Edge`), that what was
passed adds up to what is counted, and that the tags behind the audio are taken off
from the last to the first.  `LoadReturns` needs fairness and stays with TLC.

Besides, `FORM` files that are `EMOD` modules never reach the test for them
(`music.c:1855`), as all of `FORM` is taken for AIFF before.

## Modules Midi, Score and Sequencer

The players of MIDI music that have no sequencer of their own share one, under
`codecs/midi_seq`.  `Midi.tla` is what it makes of a Standard MIDI File,
`Sequencer.tla` how it plays that.

| module | code |
|---|---|
| `Midi!smf_buildTracks`, `smf_buildOneTrack`, `smf_flushRow` | reading the tracks into rows of events |
| `sortEvents` | the order of the events of a row; which release of a note waits for the strike beside it |
| `analyseLoopEvent`, `setLoopStackStart`, `setLoopStackEnd` | the loop points, as they are met |
| `Timed`, `PlaceBefore` | `installLoop` and `buildTimeLine`: where the song and its loop begin |
| `pos` | `m_currentPosition`: `wait`, `time` (`absTimePosition`), and per track the next row, the ticks before it and `lastHandledEvent` |
| `loops[0]`, `loops[k]` | `m_loop`, and `loop` of track `k` |
| `call` | the call under way: its line, and the locals of `Tick`, `seek` and `processEvents` |
| `BeginPass`, `PassTrack`, `BeginRow`, `Event`, `EndRow`, `Schedule` | `processEvents`, an event at a time |
| `Play`, `seek`, `Tick` | the calls; `Tick` is `playStream` when the time it was told to wait has been played |
| `Score` | the reference: the tracks of the file with their loops written out, cut into the stretches that are played one after the other |
| `heard`, `clock`, `from`, `sought` | history: what was heard, and since when |

A tick of the file is the unit of time, so tempo changes nothing.  Of the events
of MIDI, notes are kept, and `AllNotesOff`, which a jump sends.  Left out: the
formats other than SMF (XMI, HMI, MUS, CMF, IMF, KLM, RSXX, GMF), and what only they
hold: branches, breaks out of a loop, notes of a given length; controllers, programs,
devices, hooks and muted channels.  The antiFreeze of `seek` is left out too.

| run | what it shows |
|---|---|
| `sequencer` | songs of one and two tracks, with a loop of the song, stack loops of the song and of a track, nested, neighbouring, with counts and endless; notes struck, released and struck again at one tick and at loop points; tracks that end early, start late and have no end of track; loops that take no time. Played once, twice and for ever, sought and started again at any tick: each track has let hear the notes of the score and no others, and the end comes when all of it has been played (`HeardAsScored`); every call returns (`TickReturns`) |

Bounds: ten ticks are longer than any song of the run played once, and reach the
third pass of its loops; two calls give every call
its turn in the middle of what another began; `FreezeLimit` 6 is more passes
than any proper song of the run makes in one tick; and `stackDepthMax` 7 (127 in the
code) is more than the levels that its loops reach.  A level is not only how deep the
loops are written: where the song's own loop goes back, or a seek, inside the loop of a
track, `stackLevel` stays where it was, and the loop is entered again on top.  The last
entry of the stack, which `process_impl.hpp:201` never counts, is beyond the run.

Fairness: a call runs in the audio thread, or in the application's, to its end
(`Step`), and the mixer calls for as long as music plays (`Tick`).

`HeardAsScored` speaks of the songs and places that are `Proper`.  At the others,
and in songs the run does not have, the code departs from the score:

- a seek into a stack loop leaves `caughtStackEnd` set, and a later loop ends after
  its first event (`process_impl.hpp:446`);
- `LoopState::reset` ("Reset loop state to initial", `midi_sequencer.hpp:718`) leaves
  `stackLevel`: each rewind inside a stack loop loses a level of the stack, which has
  127;
- a seek to or behind `loopEndTime`, which is -1 without a loop end, sets
  `temporaryBroken` (`io_impl.hpp:131`): a song that is to be repeated plays once more than asked; a
  seek that stops just short of a loop end passes it;
- after a seek, the wait for the next row is not played, and rows within half a
  grain behind the place are passed;
- a note released, struck, released and struck at one tick, or of no length and
  then struck, ends silent: `sortEvents` moves releases behind strikes;
- a note at the tick of a loop end but before it in the file is sorted behind it and
  lost in each pass; one at the tick of a loop begin joins the loop;
- two begins of song loops at one tick in two tracks share one entry of the stack:
  song loops belong in the first track;
- a jump of the song inside a loop of a track leaves the count of that loop, and
  `m_loopBeginPosition` is laid on a timeline where track loops are played once: a
  `loopStart` behind them begins in the wrong rows of the other tracks;
- a jump silences only the first channel of a track, and none of the first track of
  a file of several, whose `track_channel` is never set (`read_smf_impl.hpp:149`):
  its notes sound on (`HasChannel`).

Three lines that do nothing: the count of loop begins in `installLoop` is that of the
stacks, but `buildTimeLine` writes the position again; the check for two song loops
in one row never fires, as a loop event ends its row; and the last branch of
`FLUIDSYNTH_GetSome` is not reached.

## Plan

Done: `Channels` with its theorems, `Playback` and the refinement, `Music` with its theorems,
`Effects` with `Position` and `Samples` and its theorems, `Codec` and `Lifecycle` with
their theorems, `Loading` with `Chunks`, `Tags`, `Voc` and its theorems, `Sequencer` with `Midi`
and `Score`.

Left, in this order:

1. The loop points of `smpl` chunks with the decoder that plays them.
2. The other formats of the MIDI sequencer, with their branches and breaks.

## Not modelled

Most of the repository's lines are code of others: the decoders and synthesizers
under `src/src/codecs` with their banks of instruments are more than nine tenths of
them, and the models see only how the library uses them.  Of its own code there is
no model of the text of tags and chunks, which is read into strings and no more, of
the conversion of samples, of custom streams and the external player,
which are input and output, of the deprecated aliases, which call their successors,
and of the language bindings and examples.

What TLAPS cannot do here: liveness, and whatever needs ENABLED: all such properties
are TLC's alone.  Induction over numbers is done with sets (`Induction`), but
`HeardAsScored`, whose reference and sequencer are RECURSIVE operators (`Score`, `Midi`),
is only model-checked: it is the one safety property of the runs that no theorem states.
