-------------------------------- MODULE Music --------------------------------
(***************************************************************************)
(* The music player of music.c: the single player (music_playing), the     *)
(* queue of music played side by side (mix_streams[]), the two mixers that *)
(* SDL's audio thread runs from mix_channels(), and the calls by which the *)
(* application loads, plays, fades, cross-fades, pauses, halts and frees   *)
(* music.                                                                  *)
(*                                                                         *)
(* The mixers run with the device lock held, one action per piece of music *)
(* mixed or cleaned up; what the application does under the lock waits for *)
(* them (mx.pc = "idle").  What it does outside the lock (reading          *)
(* music_playing or mix_streams[], writing music_volume or free_on_stop)   *)
(* does not wait, and a call with such a part is a list of steps still to  *)
(* be done, app.  There is one application thread.                         *)
(***************************************************************************)
EXTENDS Integers, Sequences

CONSTANTS
    Music,          \* the Mix_Music objects (addresses)
    NoMusic,        \* NULL
    MIX_MAX_VOLUME,
    Fades,          \* the `ms` arguments, in steps of ms_per_step (0: no fade)
    Volumes,        \* the `volume` arguments
    FreeOld,        \* the `free_old` arguments of a cross-fade
    StepBound,      \* bound: no fade is given a step beyond it
    Courtesies,     \* "plays": it names what plays where the call is for that;
                    \* "fades": it turns a fade back only into one that is long
                    \* enough, and not before the second step
    PlayCan,        \* the outcomes of a decoder's Play and Seek (TRUE: it starts)
    OutOfMemory,    \* the queue may not get the memory for its first stream
    Calls           \* the API calls this application makes

ASSUME MusicAssumption == NoMusic \notin Music
ASSUME FadeAssumption ==
    /\ MIX_MAX_VOLUME \in Nat /\ Volumes \subseteq 0 .. MIX_MAX_VOLUME
    /\ Fades \subseteq Nat /\ StepBound \in Nat
    /\ \A n \in Fades : n <= StepBound
ASSUME ChoiceAssumption ==
    /\ FreeOld \subseteq BOOLEAN /\ PlayCan \subseteq BOOLEAN
    /\ Courtesies \subseteq {"plays", "fades"} /\ OutOfMemory \in BOOLEAN

VARIABLES
    mus,            \* the Mix_Music objects
    music_playing,  \* the music on the single player
    music_active,   \* FALSE: the single player is paused
    music_volume,   \* the volume of the single player
    mix_streams,    \* mix_streams[0 .. num_streams - 1]
    mx,             \* where the two mixers are
    app             \* what is left to do of the application's call

vars == <<mus, music_playing, music_active, music_volume, mix_streams, mx, app>>

-----------------------------------------------------------------------------
(* One piece of music: struct Mix_Music, with                               *)
(*   loaded   its memory is allocated                                       *)
(*   heard    the volume its decoder was last given (SetVolume)             *)
(*   endless  it was played with loops = -1: its decoder never ends         *)
(*   owed     history: 1 when it was started and its end is not reported,   *)
(*            0 when there is nothing to report, -1 when more ends were     *)
(*            reported than there were starts                               *)
(* The hooks, the effects, the position and the file name are left out.     *)

Fading == {"no", "in", "out"}
Volume == 0 .. MIX_MAX_VOLUME

MusicObject ==
    [loaded : BOOLEAN, playing : BOOLEAN,
     fading : Fading, fade_step : Int, fade_steps : Nat,
     is_multimusic : BOOLEAN, music_active : BOOLEAN, music_halted : BOOLEAN,
     free_on_stop : BOOLEAN, music_volume : Volume, heard : Volume,
     endless : BOOLEAN, owed : {-1, 0, 1}]

\* A music object as calloc and Mix_LoadMUS leave it, at the player's volume.
Fresh(volume) ==
    [loaded |-> TRUE, playing |-> FALSE,
     fading |-> "no", fade_step |-> 0, fade_steps |-> 0,
     is_multimusic |-> FALSE, music_active |-> FALSE, music_halted |-> FALSE,
     free_on_stop |-> FALSE, music_volume |-> volume, heard |-> MIX_MAX_VOLUME,
     endless |-> FALSE, owed |-> 0]

Gone == [Fresh(MIX_MAX_VOLUME) EXCEPT !.loaded = FALSE]

\* The music finished hooks are called.
Reported(r) == [r EXCEPT !.owed = IF @ = 1 THEN 0 ELSE -1]

\* (Mutants: the fade survives the halt; a halted stream is not marked.)
HaltedUnmarked(r) ==
    [r EXCEPT !.playing = FALSE, !.fading = "no", !.is_multimusic = FALSE,
              !.music_active = FALSE]
HaltedFading(r) ==
    IF r.is_multimusic
      THEN [r EXCEPT !.playing = FALSE, !.is_multimusic = FALSE,
                     !.music_active = FALSE, !.music_halted = TRUE]
      ELSE [r EXCEPT !.playing = FALSE]

\* music_internal_halt, apart from music_playing.
Halted(r) ==
    LET s == [r EXCEPT !.playing = FALSE, !.fading = "no"]
    IN  IF r.is_multimusic
          THEN [s EXCEPT !.is_multimusic = FALSE, !.music_active = FALSE,
                         !.music_halted = TRUE]
          ELSE s

Ended(r) == Reported(Halted(r))

\* Integer division in C: towards zero.
Quotient(a, b) == IF a >= 0 THEN a \div b ELSE -((-a) \div b)

-----------------------------------------------------------------------------
(* Fades, counted in calls of the mixer.                                    *)

\* Mix_FadeInMusicPos and Mix_FadeInMusicStreamPos, "Setup the data".  A fade-out
\* is turned back; (step * n) / n is left out, n being positive.
FadedIn(r, n) ==
    IF n = 0 THEN [r EXCEPT !.fading = "no", !.fade_step = 0, !.fade_steps = 0]
    ELSE [r EXCEPT !.fading = "in", !.fade_steps = n,
                   !.fade_step = IF r.fading = "out" THEN n - @ + 1 ELSE 0]

\* Mix_FadeOutMusicStream: the part of the old fade that is done is kept.
FadedOut(r, n) ==
    [r EXCEPT
       !.fading = "out", !.fade_steps = n,
       !.fade_step = CASE r.fading = "no"  -> 0
                       [] r.fading = "out" -> Quotient(@ * n, r.fade_steps)
                       [] r.fading = "in"  ->
                            Quotient((r.fade_steps - @ + 1) * n, r.fade_steps)]

Bounded(r) == r.fade_step \in -StepBound .. StepBound

\* (Mutant: the step is counted before the test.)
FadeOverEarly(r) == r.fade_step + 1 >= r.fade_steps
\* The fade is over when the mixer looks at it.
FadeOver(r) == r.fade_step >= r.fade_steps

\* (Mutant: the step is not counted.)
FadeUncounted(r, volume) ==
    [r EXCEPT !.heard = Quotient(volume * r.fade_step, r.fade_steps)]

\* One more step of a fade towards, or away from, `volume`.
FadeStep(r, volume) ==
    LET step == r.fade_step + 1
        part == IF r.fading = "out" THEN r.fade_steps - step ELSE step
    IN  [r EXCEPT !.fade_step = step,
                  !.heard = Quotient(volume * part, r.fade_steps)]

\* The body of the loop in music_mixer and music_mix_stream, which runs once: the
\* fade, then the decoder, which has more to give or not.
Mixed(r, volume, more) ==
    IF r.fading = "out" /\ FadeOver(r) THEN Ended([r EXCEPT !.fade_step = @ + 1])
    ELSE LET f == IF r.fading = "no" THEN r
                  ELSE IF FadeOver(r) THEN [r EXCEPT !.fade_step = @ + 1, !.fading = "no"]
                  ELSE FadeStep(r, volume)
         IN  IF more THEN f ELSE Ended(f)

Outcomes(r) == IF r.endless THEN {TRUE} ELSE BOOLEAN

-----------------------------------------------------------------------------
(* The queue.                                                               *)

InPlayQueue(m) == \E k \in DOMAIN mix_streams : mix_streams[k] = m

Plays(m) == m = music_playing \/ InPlayQueue(m)

\* (Mutant: the shift begins one too late.)
RemovedLate(s, m) ==
    IF ~ \E k \in DOMAIN s : s[k] = m THEN s
    ELSE [j \in 1 .. Len(s) - 1 |-> s[j]]

\* _Mix_MultiMusic_Remove: the first m is dropped and what follows moves up.
Removed(s, m) ==
    IF ~ \E k \in DOMAIN s : s[k] = m THEN s
    ELSE LET first == CHOOSE k \in DOMAIN s :
                        s[k] = m /\ \A j \in 1 .. k - 1 : s[j] # m
         IN  [j \in 1 .. Len(s) - 1 |-> IF j < first THEN s[j] ELSE s[j + 1]]

-----------------------------------------------------------------------------
(* The mixers.                                                              *)

MixIdle == [pc |-> "idle", i |-> 0]

MixerState == {MixIdle} \cup [pc : {"streams", "clean"}, i : Nat \ {0}]

\* music_mixer, which mix_channels runs first.
music_mixer ==
    /\ mx.pc = "idle"
    /\ mx' = [pc |-> "streams", i |-> 1]
    /\ IF music_playing # NoMusic /\ music_active
         THEN \E more \in Outcomes(mus[music_playing]) :
                LET r == Mixed(mus[music_playing], music_volume, more)
                IN  /\ mus' = [mus EXCEPT ![music_playing] = r]
                    /\ music_playing' = IF r.playing THEN music_playing ELSE NoMusic
         ELSE UNCHANGED <<mus, music_playing>>
    /\ UNCHANGED <<music_active, music_volume, mix_streams, app>>

\* One iteration of the first loop of multi_music_mixer.
MixStream ==
    /\ mx.pc = "streams" /\ mx.i <= Len(mix_streams)
    /\ LET m == mix_streams[mx.i]
       IN  IF mus[m].music_active
             THEN \E more \in Outcomes(mus[m]) :
                    mus' = [mus EXCEPT ![m] = Mixed(@, @.music_volume, more)]
             ELSE UNCHANGED mus
    /\ mx' = [mx EXCEPT !.i = @ + 1]
    /\ UNCHANGED <<music_playing, music_active, music_volume, mix_streams, app>>

StreamsMixed ==
    /\ mx.pc = "streams" /\ mx.i > Len(mix_streams)
    /\ mx' = [pc |-> "clean", i |-> 1]
    /\ UNCHANGED <<mus, music_playing, music_active, music_volume, mix_streams, app>>

\* (Mutant: after a removal the index moves back one place too many.)
CleanedBack(i) == i - 1
CleanedAt(i) == i

\* One iteration of its second loop: a halted stream leaves the queue, and is
\* freed if the application wanted that.
CleanStream ==
    /\ mx.pc = "clean" /\ mx.i <= Len(mix_streams)
    /\ LET m == mix_streams[mx.i]
       IN  IF mus[m].music_halted
             THEN /\ mix_streams' = Removed(mix_streams, m)
                  /\ mus' = IF mus[m].free_on_stop THEN [mus EXCEPT ![m] = Gone] ELSE mus
                  /\ mx' = [mx EXCEPT !.i = CleanedAt(@)]
             ELSE /\ mx' = [mx EXCEPT !.i = @ + 1]
                  /\ UNCHANGED <<mus, mix_streams>>
    /\ UNCHANGED <<music_playing, music_active, music_volume, app>>

StreamsCleaned ==
    /\ mx.pc = "clean" /\ mx.i > Len(mix_streams)
    /\ mx' = MixIdle
    /\ UNCHANGED <<mus, music_playing, music_active, music_volume, mix_streams, app>>

-----------------------------------------------------------------------------
(* What the calls do under the lock.                                        *)

Locked == mx.pc = "idle"

Target(m) == IF m = NoMusic THEN music_playing ELSE m

\* Mix_HaltMusicStream.  (A call on a music object that is gone is undefined; the
\* model lets it do nothing, and AppNamesLoaded says that there is none.)
Halt(m) ==
    LET t == Target(m)
    IN  IF t = NoMusic \/ ~mus[t].loaded
          THEN UNCHANGED <<mus, music_playing, mix_streams>>
          ELSE /\ mus' = [mus EXCEPT ![t] =
                            [Ended(mus[t]) EXCEPT !.free_on_stop = @ /\ ~mus[t].is_multimusic]]
               /\ mix_streams' = IF mus[t].is_multimusic THEN Removed(mix_streams, t)
                                                         ELSE mix_streams
               /\ music_playing' = IF t = music_playing THEN NoMusic ELSE music_playing

\* Mix_FadeOutMusicStream once the music is chosen: n = 0 halts.
FadeOut(m, n) ==
    IF n = 0 THEN Halt(m)
    ELSE /\ IF m = NoMusic \/ ~mus[m].loaded THEN UNCHANGED mus
            ELSE /\ Bounded(FadedOut(mus[m], n))
                 /\ mus' = [mus EXCEPT ![m] = FadedOut(@, n)]
         /\ UNCHANGED <<music_playing, mix_streams>>

\* Play and Seek: the decoder begins at the volume the fade starts from.
Started(r, volume, endless, ok) ==
    [r EXCEPT !.playing = ok, !.heard = IF r.fading = "in" THEN 0 ELSE volume,
              !.endless = endless, !.owed = IF ok THEN 1 ELSE @]

\* Mix_FadeInMusicStreamPos and music_internal_play_stream.  A stream that plays
\* already only gets the new fade.
FadeInStream(m, n, endless, ok) ==
    LET r == [FadedIn(mus[m], n) EXCEPT !.is_multimusic = TRUE,
                                        !.music_active = TRUE, !.music_halted = FALSE]
        s == Started(r, r.music_volume, endless, ok)
    IN  IF music_playing = m \/ (n > 0 /\ mus[m].fading = "in") \/ ~mus[m].loaded
          THEN UNCHANGED <<mus, mix_streams>>
        ELSE /\ Bounded(r)
             /\ IF InPlayQueue(m)
                  THEN /\ mus' = [mus EXCEPT ![m] = r]
                       /\ UNCHANGED mix_streams
                ELSE IF ok
                  THEN /\ mus' = [mus EXCEPT ![m] = s]
                       /\ mix_streams' = Append(mix_streams, m)
                ELSE /\ mus' = [mus EXCEPT ![m] =
                                  [s EXCEPT !.is_multimusic = FALSE,
                                            !.music_active = FALSE, !.music_halted = TRUE]]
                     /\ UNCHANGED mix_streams

\* The same when _Mix_MultiMusic_Add gets no memory for mix_streams[]: the music is
\* left saying that it is a stream.  The array is made once for good, so the queue is
\* empty; that it may have been made already is not told apart.  (That its growth
\* beyond ten streams, which is not checked, fails is left out.)
RefuseStream(m, n) ==
    /\ OutOfMemory /\ mix_streams = <<>>
    /\ mus[m].loaded /\ music_playing # m /\ ~(n > 0 /\ mus[m].fading = "in")
    /\ Bounded(FadedIn(mus[m], n))
    /\ mus' = [mus EXCEPT ![m] = [FadedIn(@, n) EXCEPT !.is_multimusic = TRUE,
                                                     !.music_active = FALSE,
                                                     !.music_halted = TRUE]]
    /\ UNCHANGED mix_streams

\* Mix_PauseMusicStream
Pause(m) ==
    /\ music_active' = (music_active /\ ~(m = music_playing \/ m = NoMusic))
    /\ mus' = IF m # NoMusic /\ mus[m].loaded /\ mus[m].is_multimusic
                THEN [mus EXCEPT ![m].music_active = FALSE] ELSE mus

\* Mix_ResumeMusicStream
Resume(m) ==
    IF m # NoMusic /\ mus[m].loaded /\ mus[m].is_multimusic /\ m # music_playing
      THEN /\ mus' = [mus EXCEPT ![m].music_active = TRUE]
           /\ UNCHANGED music_active
      ELSE /\ music_active' = (music_active \/ m = music_playing \/ m = NoMusic)
           /\ UNCHANGED mus

-----------------------------------------------------------------------------
(* A call of the application, as the list of its steps.                     *)

Step(op, m, n) == [op |-> op, m |-> m, n |-> n, endless |-> FALSE]

Ops == {"halt", "fadeout", "fadein", "volume", "pause", "resume",
        "halteach", "pauseeach", "resumeeach", "wait", "release"}
StepType == [op : Ops, m : Music \cup {NoMusic}, n : Nat, endless : BOOLEAN]

Free == app = <<>>
May(call) == Free /\ call \in Calls

\* The music an application may name: it is loaded and, if the library is to free
\* it when it stops, still plays and cannot stop by itself before the call.
Nameable(m) ==
    /\ mus[m].loaded
    /\ mus[m].free_on_stop =>
         mus[m].playing /\ mus[m].endless /\ mus[m].fading # "out"

\* What a courteous application restricts itself to.
Apt(m) == "plays" \in Courtesies => Plays(m)
AptVolume(m) == "plays" \in Courtesies => m = music_playing \/ mus[m].is_multimusic
AptFadeIn(m, n) ==
    ("fades" \in Courtesies /\ InPlayQueue(m) /\ mus[m].fading # "no") =>
        n > 0 /\ mus[m].fade_step \in 2 .. n + 1
AptCrossFade(old, new) ==
    "plays" \in Courtesies =>
        /\ mus[old].is_multimusic /\ mus[old].endless
        /\ mus[old].fading # "out" /\ ~Plays(new)

Mix_LoadMUS(m) ==
    /\ May("Load") /\ ~mus[m].loaded
    /\ mus' = [mus EXCEPT ![m] = Fresh(music_volume)]
    /\ UNCHANGED <<music_playing, music_active, music_volume, mix_streams, mx, app>>

\* (Mutant: music that plays as a stream is accepted.)
AcceptedAnyway(m, n) == ~(n > 0 /\ mus[m].fading = "in")
\* What Mix_FadeInMusicPos does not reject.
Accepted(m, n) == ~InPlayQueue(m) /\ ~(n > 0 /\ mus[m].fading = "in")

\* Mix_FadeInMusicPos, Mix_FadeInMusic and Mix_PlayMusic (n = 0) with
\* music_internal_play, which halts what plays, be it the same music.
Mix_FadeInMusicPos(m, n, endless, ok) ==
    /\ May("Play") /\ Locked /\ Nameable(m) /\ Accepted(m, n)
    /\ Bounded(FadedIn(mus[m], n))
    /\ LET faded == [mus EXCEPT ![m] = FadedIn(@, n)]
           alone == IF music_playing = NoMusic THEN faded
                    ELSE [faded EXCEPT ![music_playing] = Halted(@)]
       IN  mus' = [alone EXCEPT ![m] = Started(@, music_volume, endless, ok)]
    /\ music_playing' = IF ok THEN m ELSE NoMusic
    /\ music_active' = ok
    /\ UNCHANGED <<music_volume, mix_streams, mx, app>>

Mix_FadeInMusicStreamPos(m, n, endless, ok) ==
    /\ May("PlayStream") /\ Locked /\ Nameable(m) /\ AptFadeIn(m, n)
    /\ FadeInStream(m, n, endless, ok) \/ RefuseStream(m, n)
    /\ UNCHANGED <<music_playing, music_active, music_volume, mx, app>>

\* Mix_HaltMusic (NoMusic) and Mix_HaltMusicStream.
Mix_HaltMusicStream(m) ==
    /\ May("Halt") /\ Locked /\ (m # NoMusic => Nameable(m) /\ Apt(m))
    /\ Halt(m)
    /\ UNCHANGED <<music_active, music_volume, mx, app>>

Mix_FadeOutMusicStream(m, n) ==
    /\ May("FadeOut") /\ Locked /\ Nameable(m) /\ Apt(m)
    /\ FadeOut(m, n)
    /\ UNCHANGED <<music_active, music_volume, mx, app>>

\* Mix_FadeOutMusic reads music_playing before it takes the lock.
Mix_FadeOutMusic(n) ==
    /\ May("FadeOutPlaying")
    /\ app' = <<Step("fadeout", music_playing, n)>>
    /\ UNCHANGED <<mus, music_playing, music_active, music_volume, mix_streams, mx>>

\* Mix_CrossFadeMusicStreamPos writes free_on_stop without the lock.
Mix_CrossFadeMusicStreamPos(old, new, n, endless, free) ==
    /\ May("CrossFade") /\ Nameable(old) /\ Nameable(new) /\ AptCrossFade(old, new)
    /\ mus' = [mus EXCEPT ![old].free_on_stop = free]
    /\ app' = <<Step("fadeout", old, n), [Step("fadein", new, n) EXCEPT !.endless = endless]>>
    /\ UNCHANGED <<music_playing, music_active, music_volume, mix_streams, mx>>

Mix_PauseMusicStream(m) ==
    /\ May("Pause") /\ Locked /\ (m # NoMusic => Nameable(m))
    /\ Pause(m)
    /\ UNCHANGED <<music_playing, music_volume, mix_streams, mx, app>>

Mix_ResumeMusicStream(m) ==
    /\ May("Pause") /\ Locked /\ (m # NoMusic => Nameable(m))
    /\ Resume(m)
    /\ UNCHANGED <<music_playing, music_volume, mix_streams, mx, app>>

Mix_SetFreeOnStop(m, free) ==
    /\ May("FreeOnStop") /\ Locked /\ Nameable(m)
    /\ m # music_playing /\ mus[m].is_multimusic
    /\ mus' = [mus EXCEPT ![m].free_on_stop = free]
    /\ UNCHANGED <<music_playing, music_active, music_volume, mix_streams, mx, app>>

\* Mix_VolumeMusicStream and Mix_VolumeMusic (NoMusic): the player's volume is
\* written before the lock is taken.  (Volumes are within the range that the clamp
\* leaves alone; a negative one only asks for the volume.)
Mix_VolumeMusicStream(m, volume) ==
    /\ May("Volume") /\ (m # NoMusic => Nameable(m) /\ AptVolume(m))
    /\ music_volume' = IF m # NoMusic /\ mus[m].is_multimusic THEN music_volume ELSE volume
    /\ app' = <<Step("volume", m, volume)>>
    /\ UNCHANGED <<mus, music_playing, music_active, mix_streams, mx>>

\* Mix_SetMusicCMD: HaltMusicStream(music_playing), _Mix_MultiMusic_HaltAll().
Mix_SetMusicCMD ==
    /\ May("HaltAll")
    /\ app' = <<Step("halt", music_playing, 0), Step("halteach", NoMusic, 1)>>
    /\ UNCHANGED <<mus, music_playing, music_active, music_volume, mix_streams, mx>>

Mix_PauseMusicStreamAll(op) ==
    /\ May("PauseAll")
    /\ app' = <<Step(op, NoMusic, 1)>>
    /\ UNCHANGED <<mus, music_playing, music_active, music_volume, mix_streams, mx>>

-----------------------------------------------------------------------------
(* Freeing.                                                                 *)

\* A free waits for a fade-out to end, unless the single player is paused.
Waiting(m, multi) == (music_active \/ multi) /\ mus[m].fading = "out"

\* (Mutants: the hooks are called though the mixer has called them; they are not
\* called at all.)
FreedTwiceReported(r, waited) == Ended(r)
FreedUnreported(r, waited) == Halted(r)
\* The end of Mix_FreeMusic under the lock: the hooks are called unless the mixer
\* has called them.
FreedHalted(r, waited) == IF waited THEN Halted(r) ELSE Ended(r)

Stop(m, waited) ==
    /\ mus' = [mus EXCEPT ![m] = FreedHalted(@, waited)]
    /\ mix_streams' = Removed(mix_streams, m)
    /\ music_playing' = IF m = music_playing THEN NoMusic ELSE music_playing

Mix_FreeMusic(m) ==
    /\ May("Free") /\ Locked /\ Nameable(m)
    /\ LET multi == mus[m].is_multimusic
       IN  IF m # music_playing /\ ~multi
             THEN /\ app' = <<Step("release", m, 0)>>
                  /\ UNCHANGED <<mus, music_playing, mix_streams>>
           ELSE IF Waiting(m, multi)
             THEN /\ app' = <<Step("wait", m, IF multi THEN 1 ELSE 0)>>
                  /\ UNCHANGED <<mus, music_playing, mix_streams>>
           ELSE /\ Stop(m, FALSE)
                /\ app' = <<Step("release", m, 0)>>
    /\ UNCHANGED <<music_active, music_volume, mx>>

\* It has slept and has the lock again.
FreeAgain ==
    /\ ~Free /\ Head(app).op = "wait" /\ Locked
    /\ LET m == Head(app).m
       IN  /\ ~Waiting(m, Head(app).n = 1)
           /\ Stop(m, TRUE)
           /\ app' = <<Step("release", m, 0)>>
    /\ UNCHANGED <<music_active, music_volume, mx>>

\* The memory is given back, after the lock was.
FreeRelease ==
    /\ ~Free /\ Head(app).op = "release"
    /\ mus' = [mus EXCEPT ![Head(app).m] = Gone]
    /\ app' = Tail(app)
    /\ UNCHANGED <<music_playing, music_active, music_volume, mix_streams, mx>>

-----------------------------------------------------------------------------
(* The other steps of a call that are still to be done.                     *)

StepHalt ==
    /\ ~Free /\ Locked /\ Head(app).op \in {"halt", "fadeout"}
    /\ IF Head(app).op = "halt" THEN Halt(Head(app).m) ELSE FadeOut(Head(app).m, Head(app).n)
    /\ app' = Tail(app)
    /\ UNCHANGED <<music_active, music_volume, mx>>

StepFadeIn ==
    /\ ~Free /\ Locked /\ Head(app).op = "fadein"
    /\ \/ \E ok \in PlayCan : FadeInStream(Head(app).m, Head(app).n, Head(app).endless, ok)
       \/ RefuseStream(Head(app).m, Head(app).n)
    /\ app' = Tail(app)
    /\ UNCHANGED <<music_playing, music_active, music_volume, mx>>

StepVolume ==
    /\ ~Free /\ Locked /\ Head(app).op = "volume"
    /\ LET t == Target(Head(app).m)
       IN  mus' = IF t = NoMusic \/ ~mus[t].loaded THEN mus
                  ELSE [mus EXCEPT ![t].music_volume = Head(app).n, ![t].heard = Head(app).n]
    /\ app' = Tail(app)
    /\ UNCHANGED <<music_playing, music_active, music_volume, mix_streams, mx>>

StepPause ==
    /\ ~Free /\ Locked /\ Head(app).op \in {"pause", "resume"}
    /\ IF Head(app).op = "pause" THEN Pause(Head(app).m) ELSE Resume(Head(app).m)
    /\ app' = Tail(app)
    /\ UNCHANGED <<music_playing, music_volume, mix_streams, mx>>

\* _Mix_MultiMusic_HaltAll, PauseAll and ResumeAll read mix_streams[i] without
\* the lock, and the call they then make takes it.
EachOp == [op \in {"halteach", "pauseeach", "resumeeach"} |->
             CASE op = "halteach"   -> "halt"
               [] op = "pauseeach"  -> "pause"
               [] op = "resumeeach" -> "resume"]

StepEach ==
    /\ ~Free /\ Head(app).op \in DOMAIN EachOp
    /\ LET s == Head(app)
       IN  app' = IF s.n > Len(mix_streams) THEN Tail(app)
                  ELSE <<Step(EachOp[s.op], mix_streams[s.n], 0), [s EXCEPT !.n = @ + 1]>>
    /\ UNCHANGED <<mus, music_playing, music_active, music_volume, mix_streams, mx>>

-----------------------------------------------------------------------------
Init ==
    /\ mus = [m \in Music |-> Gone]
    /\ music_playing = NoMusic
    /\ music_active = TRUE
    /\ music_volume = MIX_MAX_VOLUME
    /\ mix_streams = <<>>
    /\ mx = MixIdle
    /\ app = <<>>

AppStart ==
    \/ \E m \in Music : Mix_LoadMUS(m) \/ Mix_FreeMusic(m)
    \/ \E m \in Music, n \in Fades, endless \in BOOLEAN, ok \in PlayCan :
         Mix_FadeInMusicPos(m, n, endless, ok) \/ Mix_FadeInMusicStreamPos(m, n, endless, ok)
    \/ \E old, new \in Music, n \in Fades, endless \in BOOLEAN, free \in FreeOld :
         Mix_CrossFadeMusicStreamPos(old, new, n, endless, free)

AppAdjust ==
    \/ \E m \in Music \cup {NoMusic} :
         Mix_HaltMusicStream(m) \/ Mix_PauseMusicStream(m) \/ Mix_ResumeMusicStream(m)
    \/ \E m \in Music, n \in Fades : Mix_FadeOutMusicStream(m, n)
    \/ \E n \in Fades : Mix_FadeOutMusic(n)
    \/ \E m \in Music, free \in BOOLEAN : Mix_SetFreeOnStop(m, free)
    \/ \E m \in Music \cup {NoMusic}, v \in Volumes : Mix_VolumeMusicStream(m, v)
    \/ Mix_SetMusicCMD
    \/ \E op \in {"pauseeach", "resumeeach"} : Mix_PauseMusicStreamAll(op)

AppContinue ==
    FreeAgain \/ FreeRelease \/ StepHalt \/ StepFadeIn \/ StepVolume \/ StepPause \/ StepEach

MixStep == MixStream \/ StreamsMixed \/ CleanStream \/ StreamsCleaned

Next == AppStart \/ AppAdjust \/ AppContinue \/ music_mixer \/ MixStep

Spec == Init /\ [][Next]_vars

\* SDL's audio thread keeps calling mix_channels() and runs it to the end; between
\* two buffers it leaves the lock long enough for an application that waits for it.
Fairness == WF_vars(music_mixer) /\ WF_vars(MixStep) /\ SF_vars(AppContinue)

FairSpec == Spec /\ Fairness

-----------------------------------------------------------------------------
(* What must hold.                                                          *)

\* Every variable has its type.
TypeOK ==
    /\ mus \in [Music -> MusicObject]
    /\ music_playing \in Music \cup {NoMusic}
    /\ music_active \in BOOLEAN
    /\ music_volume \in Volume
    /\ mix_streams \in Seq(Music)
    /\ mx \in MixerState
    /\ app \in Seq(StepType)

\* What was refused for want of memory says that it is a stream and is in no queue.
Refused(m) ==
    OutOfMemory /\ mus[m].is_multimusic /\ mus[m].music_halted /\ ~InPlayQueue(m)

\* The music on the single player is there, plays, and is in no queue.
PlayerSound ==
    music_playing # NoMusic =>
        /\ mus[music_playing].loaded /\ mus[music_playing].playing
        /\ mus[music_playing].is_multimusic => Refused(music_playing)
        /\ ~InPlayQueue(music_playing)

\* The queue holds each stream once, each of them there; a halted one is only
\* found in it before the mixer that halted it has cleaned up.
QueueSound ==
    /\ \A j, k \in DOMAIN mix_streams : mix_streams[j] = mix_streams[k] => j = k
    /\ \A k \in DOMAIN mix_streams :
         LET r == mus[mix_streams[k]]
         IN  /\ r.loaded
             /\ r.is_multimusic \/ r.music_halted
             /\ r.music_halted => \/ mx.pc = "streams" /\ k < mx.i
                                  \/ mx.pc = "clean" /\ k >= mx.i

\* What says it is a stream is in the queue, plays and is not halted, unless it was
\* refused; what the mixer halted is not.
StreamSound ==
    \A m \in Music :
        /\ mus[m].is_multimusic =>
             Refused(m) \/ (InPlayQueue(m) /\ mus[m].playing /\ ~mus[m].music_halted)
        /\ mus[m].music_active => mus[m].is_multimusic
        /\ mus[m].free_on_stop =>
             \/ InPlayQueue(m) \/ Refused(m)
             \/ ~Free /\ Head(app).op = "release" /\ Head(app).m = m

\* One player for each piece of music: nothing is mixed twice, in a wrong list, or
\* after its memory was freed, and what is to be freed on its end still plays.  Music
\* that _Mix_MultiMusic_Add refused for want of memory is the exception: it goes on
\* saying that it is a stream, as it does on the single player.
OnePlayerEach == PlayerSound /\ QueueSound /\ StreamSound

\* A call still to be made names music that has not been freed meanwhile.
AppNamesLoaded ==
    \A k \in DOMAIN app : app[k].m # NoMusic => mus[app[k].m].loaded

\* The finished hooks answer a start: never twice, and never for music that did
\* not play.
NoSpuriousFinish == \A m \in Music : mus[m].owed >= 0

\* "Any time music stops, the music_finished function will be called": no step
\* takes music off the player or out of the queue without its end having been
\* reported, unless other music takes its place on the single player.
EndReported ==
    [][\A m \in Music :
         (Plays(m) /\ ~Plays(m)') =>
             mus'[m].owed # 1 \/ (m = music_playing /\ music_playing' # NoMusic)]_vars

\* Once its fade is over, music is heard at the volume it was given.
HeardAsGiven ==
    (\A k \in DOMAIN app : app[k].op # "volume") =>
        \A m \in Music : mus[m].fading = "no" =>
            /\ mus[m].is_multimusic => mus[m].heard = mus[m].music_volume
            /\ m = music_playing => mus[m].heard = music_volume

\* Music that does not play does not fade: no path leaves a fade running that the
\* next start would meet.
IdleNotFading == \A m \in Music : mus[m].fading # "no" => Plays(m)

\* "this function will block until the fade completes": Mix_FreeMusic comes back,
\* and so does every other call.
CallReturns == ~Free ~> Free

Paused(m) == ~(IF m = music_playing THEN music_active ELSE mus[m].music_active)

\* A fade-out of music that plays and is not paused ends it, unless it is turned
\* back.
FadeOutEnds ==
    \A m \in Music :
        (mus[m].fading = "out" /\ Plays(m) /\ ~Paused(m)) ~>
            (mus[m].fading # "out" \/ Paused(m))

\* "music will be deleted after it will complete the fade out": what the library
\* is to free is freed once it fades out.
FreedOnStop ==
    \A m \in Music : (mus[m].free_on_stop /\ mus[m].fading = "out") ~> ~mus[m].loaded
=============================================================================
