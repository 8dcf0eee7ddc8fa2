------------------------------ MODULE Channels ------------------------------
(***************************************************************************)
(* The channel engine of mixer.c: the array mix_channel[], the audio       *)
(* callback mix_channels() that consumes it, and the API calls by which    *)
(* the application starts, fades, times, pauses and halts channels.        *)
(*                                                                         *)
(* Two threads take part.  SDL's audio thread runs mix_channels() with the *)
(* device lock held; the application thread takes the same lock            *)
(* (Mix_LockAudio) in most calls.  The audio callback is split into one    *)
(* action per loop iteration, so that the calls that do NOT take the lock  *)
(* (Mix_Volume, Mix_Pause, Mix_ReserveChannels) and the clock can run in   *)
(* the middle of it.  A section under the lock is one action, and is       *)
(* enabled only while the callback is not running (mx.pc = "idle").        *)
(***************************************************************************)
EXTENDS Integers

CONSTANTS
    Chunks,         \* the chunks the application has loaded (addresses)
    NoChunk,        \* the NULL chunk
    Alen,           \* Alen[c]: chunk->alen, in sample frames
    Len,            \* len of one audio callback, in sample frames
    MIX_CHANNELS,   \* channels allocated by Mix_InitMixer
    MaxChannels,    \* bound: the application never allocates more
    MIX_MAX_VOLUME,
    Loops,          \* the `loops` arguments the application uses
    Timers,         \* the `ticks` arguments (a value <= 0 sets no limit)
    Fades,          \* the `ms` arguments of the fading calls
    Volumes,        \* the `volume` arguments (a value < 0 changes nothing)
    MaxEffects,     \* bound: effects registered on one channel
    FirstTick,      \* SDL_GetTicks() when the mixer is opened
    LastTick,       \* bound: the clock stops here
    UintSpan,       \* the number of values of Uint32, the type of a tick
    Calls           \* the API calls this application makes

ASSUME ChunkAssumption ==
    /\ NoChunk \notin Chunks
    /\ Alen \in [Chunks -> Nat \ {0}]
    /\ Len \in Nat \ {0}
ASSUME ChannelAssumption ==
    /\ MIX_CHANNELS \in Nat /\ MaxChannels \in Nat
    /\ MIX_CHANNELS <= MaxChannels
    /\ MIX_MAX_VOLUME \in Nat
ASSUME ArgumentAssumption ==
    /\ Loops \subseteq Int /\ Timers \subseteq Int /\ Volumes \subseteq Int
    /\ Fades \subseteq Nat
    /\ MaxEffects \in Nat
ASSUME ClockAssumption ==
    /\ FirstTick \in Nat /\ LastTick \in Nat
    /\ FirstTick <= LastTick
    /\ UintSpan \in Nat /\ LastTick < UintSpan

VARIABLES
    ch,             \* mix_channel[], with the history fields below
    num_channels,
    reserved_channels,
    mx,             \* where mix_channels() is, and its locals
    app,            \* where a call that takes the lock several times is
    now,            \* SDL_GetTicks()
    freed           \* chunks whose memory has been given back

vars == <<ch, num_channels, reserved_channels, mx, app, now, freed>>

-----------------------------------------------------------------------------
(* One channel: struct _Mix_Channel.  pos is samples - chunk->abuf, effects *)
(* the length of the effect list; tag and start_time, which only the group  *)
(* queries read, are left out.  The last four fields are history:           *)
(*   owed    plays begun on the channel minus finished callbacks made       *)
(*   left    frames still to be mixed before all the passes the application *)
(*           asked for are out (-1: endless)                                *)
(*   wanted  the volume the application last gave the channel               *)
(*   due     the expiry the application asked for, moved on by every tick   *)
(*           from the call that paused the channel to the call that resumed *)
(*           it (0: none)                                                   *)

Ids == 0 .. MaxChannels - 1
Allocated == 0 .. num_channels - 1
Volume == 0 .. MIX_MAX_VOLUME
Fading == {"no", "in", "out"}

Channel == [chunk : Chunks \cup {NoChunk},
            playing : Nat, looping : Int, pos : Nat,
            paused : 0 .. LastTick, expire : Nat, volume : Volume,
            fading : Fading, fade_volume : Volume, fade_volume_reset : Volume,
            fade_length : Nat, ticks_fade : 0 .. LastTick, effects : Nat,
            owed : Int, left : Int, wanted : Volume, due : Int]

\* A channel as it is initialised; the fields the code leaves uninitialised (the
\* position and the fade's times) are not read before they are written.
Fresh == [chunk |-> NoChunk, playing |-> 0, looping |-> 0, pos |-> 0,
          paused |-> 0, expire |-> 0, volume |-> MIX_MAX_VOLUME,
          fading |-> "no", fade_volume |-> MIX_MAX_VOLUME,
          fade_volume_reset |-> MIX_MAX_VOLUME, fade_length |-> 0,
          ticks_fade |-> 0, effects |-> 0,
          owed |-> 0, left |-> 0, wanted |-> MIX_MAX_VOLUME, due |-> 0]

\* Mix_Playing(which) for one channel.
IsPlaying(c) == c.playing > 0 \/ c.looping # 0

\* (Mutant: the effects stay registered.)
DoneKeepingEffects(c) == [c EXCEPT !.owed = @ - 1]

\* The finished callback, then every registered effect is removed.
DonePlaying(c) == [c EXCEPT !.effects = 0, !.owed = @ - 1]

\* (Mutant: the loops that were left remain.)
SilencedOnce(c) == [c EXCEPT !.playing = 0, !.left = 0]

\* playing = looping = 0: whatever was left to mix is given up.
Silenced(c) == [c EXCEPT !.playing = 0, !.looping = 0, !.left = 0]

WithTimer(c, tick) == [c EXCEPT !.expire = tick, !.due = tick]

\* (Mutant: no upper limit.)
Unclamped(v) == v
Clamped(v) == IF v > MIX_MAX_VOLUME THEN MIX_MAX_VOLUME ELSE v

WithVolume(c, v) ==
    IF v < 0 THEN c ELSE [c EXCEPT !.volume = Clamped(v), !.wanted = Clamped(v)]

\* (Mutant: the volume of a fading channel is left where the fade had it.)
HaltedAsIs(c) ==
    [WithTimer(IF IsPlaying(c) THEN DonePlaying(Silenced(c)) ELSE c, 0)
       EXCEPT !.fading = "no"]

\* Mix_HaltChannel_locked
Halted(c) ==
    LET s == WithTimer(IF IsPlaying(c) THEN DonePlaying(Silenced(c)) ELSE c, 0)
    IN  [s EXCEPT !.volume = IF s.fading = "no" THEN @ ELSE s.fade_volume_reset,
                  !.fading = "no"]

-----------------------------------------------------------------------------
(* Starting and fading.                                                     *)

Deadline(ticks) == IF ticks > 0 THEN now + ticks ELSE 0

\* (Mutant: the chunk that is replaced is not reported.)
QueuedOver(c, k, loops) ==
    [c EXCEPT !.chunk = k, !.pos = 0, !.playing = Alen[k], !.looping = loops,
              !.paused = 0, !.owed = @ + 1,
              !.left = IF loops < 0 THEN -1 ELSE (loops + 1) * Alen[k]]

\* The audio data of chunk k is queued on c, whose chunk, if it is playing one,
\* is first reported finished.
Queued(c, k, loops) ==
    [(IF IsPlaying(c) THEN DonePlaying(c) ELSE c) EXCEPT
        !.chunk = k, !.pos = 0, !.playing = Alen[k], !.looping = loops,
        !.paused = 0, !.owed = @ + 1,
        !.left = IF loops < 0 THEN -1 ELSE (loops + 1) * Alen[k]]

Played(c, k, loops, ticks, v) ==
    WithVolume(WithTimer([Queued(c, k, loops) EXCEPT !.fading = "no"],
                         Deadline(ticks)), v)

FadedIn(c, k, loops, ms, ticks, v) ==
    LET q == WithVolume(WithTimer(Queued(c, k, loops), Deadline(ticks)), v)
    IN  [q EXCEPT !.fade_volume_reset = IF q.fading = "no" THEN q.volume ELSE @,
                  !.fading = "in", !.fade_volume = q.volume, !.volume = 0,
                  !.fade_length = ms, !.ticks_fade = now]

\* (Mutant: the fade starts from the volume of the fade before.)
FadedOutFromOld(c, ms) ==
    [c EXCEPT !.fade_length = ms, !.ticks_fade = now,
              !.fade_volume_reset = IF c.fading = "no" THEN c.volume ELSE @,
              !.fading = "out"]
FadedOut(c, ms) ==
    [c EXCEPT !.fade_volume = c.volume, !.fade_length = ms, !.ticks_fade = now,
              !.fade_volume_reset = IF c.fading = "no" THEN c.volume ELSE @,
              !.fading = "out"]

\* The channel an argument names: -1 is the first free unreserved channel.  The
\* search starts at reserved_channels and reports failure only when it stops
\* exactly at num_channels.
Target(which) ==
    LET free == {i \in reserved_channels .. num_channels - 1 : ~IsPlaying(ch[i])}
    IN  CASE which # -1 -> which
          [] which = -1 /\ free # {} -> CHOOSE i \in free : \A j \in free : i <= j
          [] which = -1 /\ free = {} ->
               IF reserved_channels > num_channels THEN reserved_channels ELSE -1

-----------------------------------------------------------------------------
(* The application thread.  Locked: call f is made and gets the lock at     *)
(* once.  Unlocked: f is made and needs no lock.  A call with -1 for "all   *)
(* channels" that takes the lock once per channel (Mix_ExpireChannel,       *)
(* Mix_FadeOutChannel, Mix_Volume, the group calls) is a sequence of the    *)
(* calls below; Mix_HaltChannel, Mix_Pause and Mix_Resume are not.          *)

Idle == [pc |-> "idle", i |-> 0, n |-> 0, chunk |-> NoChunk, ticks |-> 0]

Call == [pc : {"idle", "pausing", "resuming", "unregister", "halt", "realloc", "free"},
         i : 0 .. MaxChannels, n : 0 .. MaxChannels,
         chunk : Chunks \cup {NoChunk}, ticks : FirstTick .. LastTick \cup {0}]

Unlocked(f) == f \in Calls /\ app.pc = "idle"
\* (Mutant: the call does not take the lock.)
LockForgotten(f) == Unlocked(f)
Locked(f) == Unlocked(f) /\ mx.pc = "idle"

\* Ranges of channels named by one argument: one channel or, for -1, all.
Named == {<<0, num_channels>>} \cup {<<i, i + 1>> : i \in Allocated}

Mix_PlayChannelTimedVolume(which, k, loops, ticks, v) ==
    /\ Locked("Play")
    /\ k \notin freed
    /\ now + ticks < LastTick
    /\ Target(which) \in Allocated
    /\ ch' = [ch EXCEPT ![Target(which)] = Played(@, k, loops, ticks, v)]
    /\ UNCHANGED <<num_channels, reserved_channels, mx, app, now, freed>>

Mix_FadeInChannelTimedVolume(which, k, loops, ms, ticks, v) ==
    /\ Locked("FadeIn")
    /\ k \notin freed
    /\ now + ticks < LastTick /\ now + ms <= LastTick
    /\ Target(which) \in Allocated
    /\ ch' = [ch EXCEPT ![Target(which)] = FadedIn(@, k, loops, ms, ticks, v)]
    /\ UNCHANGED <<num_channels, reserved_channels, mx, app, now, freed>>

Mix_FadeOutChannel(i, ms) ==
    /\ Locked("FadeOut")
    /\ now + ms <= LastTick
    /\ IsPlaying(ch[i]) /\ ch[i].volume > 0 /\ ch[i].fading # "out"
    /\ ch' = [ch EXCEPT ![i] = FadedOut(@, ms)]
    /\ UNCHANGED <<num_channels, reserved_channels, mx, app, now, freed>>

Mix_ExpireChannel(i, ticks) ==
    /\ Locked("Expire")
    /\ now + ticks < LastTick
    /\ ch' = [ch EXCEPT ![i] = WithTimer(@, Deadline(ticks))]
    /\ UNCHANGED <<num_channels, reserved_channels, mx, app, now, freed>>

Mix_HaltChannel(range) ==
    /\ Locked("Halt")
    /\ ch' = [i \in Ids |-> IF i \in range[1] .. range[2] - 1
                              THEN Halted(ch[i]) ELSE ch[i]]
    /\ UNCHANGED <<num_channels, reserved_channels, mx, app, now, freed>>

Mix_Volume(i, v) ==
    /\ Unlocked("Volume")
    /\ ch' = [ch EXCEPT ![i] = WithVolume(@, v)]
    /\ UNCHANGED <<num_channels, reserved_channels, mx, app, now, freed>>

\* _Mix_register_effect on a channel; only the length of the list is kept.
Mix_RegisterEffect(i) ==
    /\ Locked("Effect")
    /\ ch[i].effects < MaxEffects
    /\ ch' = [ch EXCEPT ![i].effects = @ + 1]
    /\ UNCHANGED <<num_channels, reserved_channels, mx, app, now, freed>>

Mix_UnregisterEffect(i) ==
    /\ Locked("Effect")
    /\ ch[i].effects > 0
    /\ ch' = [ch EXCEPT ![i].effects = @ - 1]
    /\ UNCHANGED <<num_channels, reserved_channels, mx, app, now, freed>>

Mix_ReserveChannels(num) ==
    /\ Unlocked("Reserve")
    /\ reserved_channels' = CASE num < 0 -> 0
                              [] num > num_channels -> num_channels
                              [] OTHER -> num
    /\ UNCHANGED <<ch, num_channels, mx, app, now, freed>>

\* Mix_Pause takes no lock: it reads the clock, then visits the channels.
Mix_Pause(range) ==
    /\ Unlocked("Pause")
    /\ app' = [Idle EXCEPT !.pc = "pausing", !.i = range[1], !.n = range[2],
                           !.ticks = now]
    /\ UNCHANGED <<ch, num_channels, reserved_channels, mx, now, freed>>

PausedAt(c, tick) ==
    IF IsPlaying(c)
      THEN [c EXCEPT !.paused = tick,
                     !.due = IF c.paused = 0 /\ @ > 0 THEN @ + (now - tick) ELSE @]
      ELSE c

\* The test and the write, which have no lock, are one step: were the channel to end in
\* between, `paused` would be set on one that is idle, and the next play clears it.
PauseOne ==
    /\ app.pc = "pausing"
    /\ IF app.i < app.n
         THEN /\ ch' = [ch EXCEPT ![app.i] = PausedAt(@, app.ticks)]
              /\ app' = [app EXCEPT !.i = @ + 1]
         ELSE ch' = ch /\ app' = Idle
    /\ UNCHANGED <<num_channels, reserved_channels, mx, now, freed>>

\* Mix_Resume reads the clock before it takes the lock.
Mix_Resume(range) ==
    /\ Unlocked("Resume")
    /\ app' = [Idle EXCEPT !.pc = "resuming", !.i = range[1], !.n = range[2],
                           !.ticks = now]
    /\ UNCHANGED <<ch, num_channels, reserved_channels, mx, now, freed>>

\* The distance between two ticks as Uint32 arithmetic has it.
Elapsed(tick, since) == IF tick >= since THEN tick - since
                                         ELSE tick - since + UintSpan

\* (Mutant: the limit is not moved by the length of the pause.)
ResumedAsIs(c, tick) ==
    IF IsPlaying(c)
      THEN [c EXCEPT !.due = IF c.paused # 0 /\ @ > 0 THEN @ - (now - tick) ELSE @,
                     !.paused = 0]
      ELSE c
Resumed(c, tick) ==
    IF IsPlaying(c)
      THEN [c EXCEPT !.expire = IF @ > 0 THEN @ + Elapsed(tick, c.paused) ELSE @,
                     !.due = IF c.paused # 0 /\ @ > 0 THEN @ - (now - tick) ELSE @,
                     !.paused = 0]
      ELSE c

ResumeAll ==
    /\ app.pc = "resuming" /\ mx.pc = "idle"
    /\ ch' = [i \in Ids |-> IF i \in app.i .. app.n - 1
                              THEN Resumed(ch[i], app.ticks) ELSE ch[i]]
    /\ app' = Idle
    /\ UNCHANGED <<num_channels, reserved_channels, mx, now, freed>>

\* Mix_AllocateChannels: more channels at once; fewer in steps, each channel
\* that goes losing its effects and being halted under locks of its own.
AllocateMore(n) ==
    /\ Locked("Allocate")
    /\ n > num_channels /\ n <= MaxChannels
    /\ num_channels' = n
    /\ ch' = [i \in Ids |-> IF i \in num_channels .. n - 1 THEN Fresh ELSE ch[i]]
    /\ UNCHANGED <<reserved_channels, mx, app, now, freed>>

AllocateFewer(n) ==
    /\ Unlocked("Allocate")
    /\ n >= 0 /\ n < num_channels
    /\ app' = [Idle EXCEPT !.pc = "unregister", !.i = n, !.n = n]
    /\ UNCHANGED <<ch, num_channels, reserved_channels, mx, now, freed>>

AllocateUnregister ==
    /\ app.pc = "unregister" /\ mx.pc = "idle"
    /\ ch' = [ch EXCEPT ![app.i].effects = 0]
    /\ app' = [app EXCEPT !.pc = "halt"]
    /\ UNCHANGED <<num_channels, reserved_channels, mx, now, freed>>

AllocateHalt ==
    /\ app.pc = "halt" /\ mx.pc = "idle"
    /\ ch' = [ch EXCEPT ![app.i] = Halted(@)]
    /\ app' = [app EXCEPT !.i = @ + 1,
                 !.pc = IF app.i + 1 < num_channels THEN "unregister" ELSE "realloc"]
    /\ UNCHANGED <<num_channels, reserved_channels, mx, now, freed>>

\* The memory above n is gone: its contents no longer matter.
AllocateRealloc ==
    /\ app.pc = "realloc" /\ mx.pc = "idle"
    /\ num_channels' = app.n
    /\ ch' = [i \in Ids |-> IF i < app.n THEN ch[i] ELSE Fresh]
    /\ app' = Idle
    /\ UNCHANGED <<reserved_channels, mx, now, freed>>

\* realloc returned NULL: the channels stay, halted.
AllocateFails ==
    /\ app.pc = "realloc" /\ mx.pc = "idle"
    /\ app' = Idle
    /\ UNCHANGED <<ch, num_channels, reserved_channels, mx, now, freed>>

\* Mix_FreeChunk: halt under the lock, release the memory after it.
FreeChunkHalt(k) ==
    /\ Locked("FreeChunk")
    /\ k \notin freed
    /\ ch' = [i \in Ids |-> IF i < num_channels /\ ch[i].chunk = k
                              THEN Halted(ch[i]) ELSE ch[i]]
    /\ app' = [Idle EXCEPT !.pc = "free", !.chunk = k]
    /\ UNCHANGED <<num_channels, reserved_channels, mx, now, freed>>

FreeChunkRelease ==
    /\ app.pc = "free"
    /\ freed' = freed \cup {app.chunk}
    /\ app' = Idle
    /\ UNCHANGED <<ch, num_channels, reserved_channels, mx, now>>

\* The allocator may give a new chunk the address of a freed one.
Mix_LoadWAV(k) ==
    /\ Unlocked("FreeChunk")
    /\ k \in freed
    /\ freed' = freed \ {k}
    /\ UNCHANGED <<ch, num_channels, reserved_channels, mx, app, now>>

-----------------------------------------------------------------------------
(* The audio thread: mix_channels(), with the device lock from MixBegin to  *)
(* MixEnd.                                                                  *)

MixIdle == [pc |-> "idle", i |-> 0, index |-> 0, ticks |-> 0]

Callback == [pc : {"idle", "check", "data", "refill"}, i : 0 .. MaxChannels,
             index : 0 .. Len, ticks : FirstTick .. LastTick \cup {0}]

MixBegin ==
    /\ mx.pc = "idle"
    /\ mx' = [pc |-> "check", i |-> 0, index |-> 0, ticks |-> now]
    /\ UNCHANGED <<ch, num_channels, reserved_channels, app, now, freed>>

MixEnd ==
    /\ mx.pc = "check" /\ mx.i = num_channels
    /\ mx' = MixIdle
    /\ UNCHANGED <<ch, num_channels, reserved_channels, app, now, freed>>

Expired(c) == DonePlaying(WithTimer([Silenced(c) EXCEPT !.fading = "no"], 0))

\* (Mutant: the end of a fade-out does not end the fade.)
FadeOutStays(c) ==
    IF c.fading = "out" THEN [c EXCEPT !.volume = c.fade_volume_reset]
                        ELSE [c EXCEPT !.volume = c.fade_volume_reset, !.fading = "no"]

\* The mixer calls Mix_Volume here and in FadeStep.
FadeFinished(c) ==
    LET v == [c EXCEPT !.volume = c.fade_volume_reset]
        s == IF c.fading = "out" THEN DonePlaying(WithTimer(Silenced(v), 0)) ELSE v
    IN  [s EXCEPT !.fading = "no"]

FadeStep(c, ticks) ==
    LET loud == IF c.fading = "out" THEN c.fade_length - ticks ELSE ticks
    IN  [c EXCEPT !.volume = Clamped((c.fade_volume * loud) \div c.fade_length)]

\* (Mutant: a limit only noticed in the very tick it falls on.)
OverdueExactly(c, tick) == c.expire = tick
Overdue(c, tick) == c.expire > 0 /\ c.expire < tick

\* The expiry and fade part of one channel's turn.
Timed(c, tick) ==
    LET ticks == Elapsed(tick, c.ticks_fade)
    IN  IF Overdue(c, tick) THEN Expired(c)
        ELSE IF c.fading = "no" THEN c
        ELSE IF ticks >= c.fade_length THEN FadeFinished(c)
        ELSE FadeStep(c, ticks)

\* (Mutant: the increment of i is lost.)
SameChannel == [mx EXCEPT !.pc = "check", !.index = 0]
NextChannel == [mx EXCEPT !.pc = "check", !.i = @ + 1, !.index = 0]

MixCheck ==
    /\ mx.pc = "check" /\ mx.i < num_channels
    /\ LET c == ch[mx.i]
           d == IF c.paused = 0 THEN Timed(c, mx.ticks) ELSE c
       IN  /\ ch' = [ch EXCEPT ![mx.i] = d]
           /\ mx' = IF c.paused = 0 /\ d.playing > 0
                      THEN [mx EXCEPT !.pc = "data"] ELSE NextChannel
    /\ UNCHANGED <<num_channels, reserved_channels, app, now, freed>>

\* `n` frames leave the chunk for the stream.
\* (Mutant: the position is set, not advanced.)
MixedFromStart(c, n) == [c EXCEPT !.pos = n, !.playing = @ - n,
                                  !.left = IF @ < 0 THEN @ ELSE @ - n]
Mixed(c, n) == [c EXCEPT !.pos = @ + n, !.playing = @ - n,
                         !.left = IF @ < 0 THEN @ ELSE @ - n]

\* One iteration of the first loop: the rest of the present pass.
MixData ==
    /\ mx.pc = "data"
    /\ LET c == ch[mx.i]
           room == Len - mx.index
           n == IF c.playing > room THEN room ELSE c.playing
           m == Mixed(c, n)
           d == IF m.playing = 0 /\ m.looping = 0
                  THEN DonePlaying(WithTimer([m EXCEPT !.fading = "no"], 0)) ELSE m
       IN  /\ ch' = [ch EXCEPT ![mx.i] = d]
           /\ mx' = [mx EXCEPT !.index = @ + n,
                       !.pc = IF d.playing > 0 /\ mx.index + n < Len
                                THEN "data" ELSE "refill"]
    /\ UNCHANGED <<num_channels, reserved_channels, app, now, freed>>

\* (Mutant: the loop counter is not counted down.)
LoopKept(c) == c
LoopTaken(c) == [c EXCEPT !.looping = IF @ > 0 THEN @ - 1 ELSE @]

\* One iteration of the second loop: a looping chunk fills the rest.
MixRefill ==
    /\ mx.pc = "refill" /\ ch[mx.i].looping # 0 /\ mx.index < Len
    /\ LET c == ch[mx.i]
           room == Len - mx.index
           n == IF room > Alen[c.chunk] THEN Alen[c.chunk] ELSE room
       IN  /\ ch' = [ch EXCEPT ![mx.i] =
                       Mixed([LoopTaken(c) EXCEPT !.pos = 0,
                                !.playing = Alen[c.chunk]], n)]
           /\ mx' = [mx EXCEPT !.index = @ + n]
    /\ UNCHANGED <<num_channels, reserved_channels, app, now, freed>>

\* A pass that ended exactly with the stream: rewind for the next callback.
MixRewind ==
    /\ mx.pc = "refill" /\ ~(ch[mx.i].looping # 0 /\ mx.index < Len)
    /\ LET c == ch[mx.i]
       IN  ch' = [ch EXCEPT ![mx.i] =
                    IF c.playing = 0 /\ c.looping # 0
                      THEN [LoopTaken(c) EXCEPT !.pos = 0, !.playing = Alen[c.chunk]]
                      ELSE c]
    /\ mx' = NextChannel
    /\ UNCHANGED <<num_channels, reserved_channels, app, now, freed>>

-----------------------------------------------------------------------------
\* The clock.  `due` follows the channels whose timer the pause suspends.
Tick ==
    /\ now < LastTick
    /\ now' = now + 1
    /\ ch' = [i \in Ids |->
                IF ch[i].paused # 0 /\ IsPlaying(ch[i]) /\ ch[i].due > 0
                  THEN [ch[i] EXCEPT !.due = @ + 1] ELSE ch[i]]
    /\ UNCHANGED <<num_channels, reserved_channels, mx, app, freed>>

Init ==
    /\ ch = [i \in Ids |-> Fresh]
    /\ num_channels = MIX_CHANNELS
    /\ reserved_channels = 0
    /\ mx = MixIdle
    /\ app = Idle
    /\ now = FirstTick
    /\ freed = {}

AppStart ==
    \/ \E which \in Allocated \cup {-1}, k \in Chunks, loops \in Loops,
          ticks \in Timers, v \in Volumes :
         Mix_PlayChannelTimedVolume(which, k, loops, ticks, v)
    \/ \E which \in Allocated \cup {-1}, k \in Chunks, loops \in Loops,
          ms \in Fades, ticks \in Timers, v \in Volumes :
         Mix_FadeInChannelTimedVolume(which, k, loops, ms, ticks, v)
    \/ \E range \in Named : Mix_HaltChannel(range)
    \/ \E k \in Chunks : FreeChunkHalt(k) \/ Mix_LoadWAV(k)
    \/ \E n \in 0 .. MaxChannels :
         AllocateMore(n) \/ AllocateFewer(n) \/ Mix_ReserveChannels(n)

AppAdjust ==
    \/ \E i \in Allocated, ms \in Fades : Mix_FadeOutChannel(i, ms)
    \/ \E i \in Allocated, ticks \in Timers : Mix_ExpireChannel(i, ticks)
    \/ \E i \in Allocated, v \in Volumes : Mix_Volume(i, v)
    \/ \E i \in Allocated : Mix_RegisterEffect(i) \/ Mix_UnregisterEffect(i)
    \/ \E range \in Named : Mix_Pause(range) \/ Mix_Resume(range)

AppContinue ==
    PauseOne \/ ResumeAll \/ AllocateUnregister \/ AllocateHalt
      \/ AllocateRealloc \/ AllocateFails \/ FreeChunkRelease

MixStep == MixEnd \/ MixCheck \/ MixData \/ MixRefill \/ MixRewind

Next == AppStart \/ AppAdjust \/ AppContinue \/ MixBegin \/ MixStep \/ Tick

Spec == Init /\ [][Next]_vars

\* SDL's audio thread keeps calling mix_channels() and runs it to the end, and
\* the clock does not stop.
Fairness == WF_vars(MixBegin) /\ WF_vars(MixStep) /\ WF_vars(Tick)

FairSpec == Spec /\ Fairness

-----------------------------------------------------------------------------
(* What some of the properties ask of the application: to pause only what   *)
(* is not paused and resume only what is (PausedOnce), to set a limit only  *)
(* on a channel that plays and is not paused (LimitsWhatPlays), to fade     *)
(* only endless sounds without limit and replace one that fades by another  *)
(* fade or not at all (FadesEndless), to give no volume to a channel that   *)
(* fades (VolumesHeld).                                                     *)

PausedOnce ==
    \A range \in Named : \A i \in range[1] .. range[2] - 1 :
        /\ Mix_Pause(range) /\ IsPlaying(ch[i]) => ch[i].paused = 0
        /\ Mix_Resume(range) /\ IsPlaying(ch[i]) => ch[i].paused # 0

LimitsWhatPlays ==
    \A i \in Allocated, ticks \in Timers :
        Mix_ExpireChannel(i, ticks) => IsPlaying(ch[i]) /\ ch[i].paused = 0

FadesEndless ==
    \A i \in Allocated :
        /\ ch'[i].fading # "no" => ch'[i].looping = -1 /\ ch'[i].expire = 0
        /\ mx.pc = "idle" /\ ch[i].fading # "no" /\ IsPlaying(ch'[i]) => ch'[i].fading # "no"

VolumesHeld ==
    \A i \in Allocated : ch[i].fading # "no" => ch'[i].wanted = ch[i].wanted

\* Applications that do.
TimedSpec == Init /\ [][Next /\ PausedOnce /\ LimitsWhatPlays]_vars
EndlessFadesSpec == Init /\ [][Next /\ FadesEndless /\ VolumesHeld]_vars

-----------------------------------------------------------------------------
(* What must hold.                                                          *)

\* Every variable has its type.
TypeOK ==
    /\ ch \in [Ids -> Channel]
    /\ num_channels \in 0 .. MaxChannels
    /\ reserved_channels \in 0 .. MaxChannels
    /\ mx \in Callback
    /\ app \in Call
    /\ now \in FirstTick .. LastTick
    /\ freed \subseteq Chunks

\* Where the callback stands agrees with the channel it stands at, in every step
\* of its loops: the channel exists, a pass is only mixed while some of it and
\* some of the stream is left, and the stream is only refilled when the pass has
\* come to its end.  None of the calls that run without the lock disturbs this.
CallbackLocated ==
    /\ mx.pc # "idle" => mx.i <= num_channels
    /\ mx.pc = "check" => mx.index = 0
    /\ mx.pc \in {"data", "refill"} => mx.i < num_channels
    /\ mx.pc = "data" => ch[mx.i].playing > 0 /\ mx.index < Len
    /\ mx.pc = "refill" => /\ mx.index > 0
                           /\ mx.index < Len => ch[mx.i].playing = 0

\* A call that takes the lock several times still names existing channels when it
\* has it again.
CallLocated ==
    /\ app.pc \in {"pausing", "resuming"} => app.n <= num_channels
    /\ app.pc \in {"unregister", "halt"} => app.i < num_channels /\ app.n <= app.i
    /\ app.pc = "realloc" => app.n <= num_channels
    /\ app.pc = "free" => app.chunk \in Chunks

PlayingLoaded == \A i \in Ids : IsPlaying(ch[i]) => ch[i].chunk \in Chunks

Located == CallbackLocated /\ CallLocated /\ PlayingLoaded

\* The mixer never reads outside a chunk: what remains of the pass ends exactly
\* at the end of the chunk's buffer (the samples/playing arithmetic of
\* mix_channels and of the calls that queue a chunk).
SamplesInChunk ==
    \A i \in Ids : ch[i].playing > 0 =>
        /\ ch[i].chunk \in Chunks
        /\ ch[i].pos + ch[i].playing = Alen[ch[i].chunk]

\* A chunk whose memory is released is on no playing channel (Mix_FreeChunk:
\* "Guarantee that this chunk isn't playing").
FreedChunkSilent ==
    \A i \in Allocated : IsPlaying(ch[i]) => ch[i].chunk \notin freed

\* Played with `loops` >= 0, a chunk is mixed loops + 1 times over, no frame more
\* and no frame less, unless something halts the channel: what is left is what
\* the channel still holds, in every iteration of the mixer's loops.
EveryPassMixed ==
    \A i \in Ids :
        /\ ch[i].looping > 0 => ch[i].chunk \in Chunks
        /\ ch[i].left >= 0 =>
             /\ ch[i].looping >= 0
             /\ ch[i].left = ch[i].playing +
                  (IF ch[i].looping > 0 THEN ch[i].looping * Alen[ch[i].chunk] ELSE 0)

\* The finished callback answers a play, and answers it once: never twice for
\* one play, and never while the channel still plays what it reports.
NoSpuriousFinish ==
    \A i \in Ids : ch[i].owed >= (IF IsPlaying(ch[i]) THEN 1 ELSE 0)

\* Every play that has stopped, by whatever path, has been reported by the
\* finished callback exactly once.
OneFinishPerPlay ==
    \A i \in Ids : ch[i].owed = (IF IsPlaying(ch[i]) THEN 1 ELSE 0)

\* "If nothing is currently playing on the channel ... this returns
\* MIX_NO_FADING" (Mix_FadingChannel): no path stops a channel and leaves its
\* fade running, to act on the next sound.
IdleNotFading ==
    \A i \in Allocated : ~IsPlaying(ch[i]) => ch[i].fading = "no"

\* The mixer measures a fade from its start with unsigned subtraction: it never
\* sees a fade that starts after the tick it took when it began.
FadeNotAhead ==
    mx.pc # "idle" =>
        \A i \in Allocated : ch[i].fading # "no" => ch[i].ticks_fade <= mx.ticks

\* A channel's volume outside a fade is the one the application gave it, and
\* during a fade that one is kept to be restored.
VolumeRestored ==
    \A i \in Allocated :
        ch[i].wanted = IF ch[i].fading = "no" THEN ch[i].volume
                                              ELSE ch[i].fade_volume_reset

\* "A paused channel with an expiration will not expire while paused (the
\* expiration countdown will be adjusted once resumed)": a channel with a limit
\* plays for that long, the time it was paused not counted.
PauseSuspendsTimer ==
    \A i \in Allocated :
        (IsPlaying(ch[i]) /\ ch[i].expire > 0 /\ ch[i].paused = 0) =>
            ch[i].due = ch[i].expire

\* The channels as the application sees them.  What a looping chunk has left is
\* the rest of the pass and a pass for every loop.
Remaining(c) ==
    IF c.looping < 0 THEN -1
    ELSE c.playing + (IF c.looping > 0 THEN c.looping * Alen[c.chunk] ELSE 0)

VoiceOf(c) == [sound |-> IF IsPlaying(c) THEN c.chunk ELSE NoChunk,
               left |-> IF IsPlaying(c) THEN Remaining(c) ELSE 0,
               owed |-> c.owed, effects |-> c.effects]

Voices == [i \in Ids |-> IF i < num_channels THEN VoiceOf(ch[i]) ELSE VoiceOf(Fresh)]

Promise == INSTANCE Playback WITH Channels <- Ids, Sounds <- Chunks,
    Silence <- NoChunk, Length <- Alen, voice <- Voices, released <- freed

\* Every run of the mixer is one the header allows: whatever interleaves with the
\* callback, plays are mixed forwards and to their end, are answered once, and
\* take their effects with them (SDL_mixer.h on Mix_ChannelFinished,
\* Mix_RegisterEffect and Mix_FreeChunk).
KeepsPromise == Promise!Spec

\* While a fade-out runs, the mixer never makes the channel louder, nor moves the
\* volume that the end of the fade restores.
FadeOutNeverLouder ==
    [][\A i \in Allocated :
         (ch[i].fading = "out" /\ ch'[i].fading = "out") =>
             /\ ch'[i].volume <= ch[i].volume
             /\ ch'[i].fade_volume_reset = ch[i].fade_volume_reset]_vars

\* The audio callback always returns: neither of its loops can spin.
CallbackReturns == mx.pc # "idle" ~> mx.pc = "idle"

\* A fade-out that is not stopped by a pause comes to its end.
FadeOutEnds ==
    \A i \in Ids : (ch[i].fading = "out" /\ ch[i].paused = 0) ~>
                      (ch[i].fading # "out" \/ ch[i].paused # 0)

\* A channel played with a time limit does not outlive it: it stops, is given
\* another limit or is paused.
LimitEnds ==
    \A i \in Ids : \A t \in FirstTick .. LastTick - 1 :
        (IsPlaying(ch[i]) /\ ch[i].expire = t /\ ch[i].paused = 0) ~>
            ~(IsPlaying(ch[i]) /\ ch[i].expire = t /\ ch[i].paused = 0)
=============================================================================
