--------------------------- MODULE ChannelsProofs ---------------------------
(***************************************************************************)
(* The safety of the channel engine, for every value of its constants.     *)
(*                                                                         *)
(* TypeOK /\ Located is inductive.  The proof shows at the same time, for   *)
(* every action, that each channel takes one of the turns of Turn: it is    *)
(* kept, ends, begins, is emptied or advances.  The lemmas come first: what *)
(* the operations on one channel do to it.                                  *)
(* The other invariants follow from the turns, without the actions.        *)
(* Volumes and limits have turns of their own (LevelTurn, ClockTurn), from  *)
(* which follow what fades leave behind and what pauses take off a limit.   *)
(*                                                                         *)
(* At the end, the channel engine implements Playback: each turn that an    *)
(* action gives a channel is, seen by the application, a turn of a voice.   *)
(***************************************************************************)
EXTENDS Channels, TLAPS

(***************************************************************************)
(* Lemmas: what the operations on one channel do to its type.              *)
(***************************************************************************)

\* The scaled volume of a fade step is a natural number.
LEMMA ScaledNat ==
    ASSUME NEW a \in Nat, NEW b \in Nat, NEW d \in Nat \ {0}
    PROVE  (a * b) \div d \in Nat
<1>1. a * b \in Nat
  BY SMT
<1>2. \A x \in Nat : x \div d \in Nat
  BY SMT
<1> QED
  BY <1>1, <1>2

\* One pass more is one length more.
LEMMA OneMore ==
    ASSUME NEW n \in Int, NEW a \in Int
    PROVE  /\ (n + 1) * a = a + n * a
           /\ 0 * a = 0 /\ n * a \in Int
  BY SMT

LEMMA ClampedType == ASSUME NEW v \in Nat PROVE Clamped(v) \in Volume
  BY ChannelAssumption DEF Clamped, Volume

\* The constants that occur as field values.
LEMMA Zeros ==
    /\ 0 \in Nat /\ 0 \in Int /\ -1 \in Int /\ 0 \in 0 .. LastTick
    /\ 0 \in Volume /\ MIX_MAX_VOLUME \in Volume
    /\ "no" \in Fading /\ "in" \in Fading /\ "out" \in Fading
  BY ChannelAssumption, ClockAssumption DEF Volume, Fading

LEMMA FreshType == Fresh \in Channel
  BY Zeros, Zenon DEF Fresh, Channel

LEMMA DonePlayingType ==
    ASSUME NEW c \in Channel PROVE DonePlaying(c) \in Channel
<1>1. c.owed - 1 \in Int
  BY DEF Channel
<1> QED
  BY <1>1, Zeros, Zenon DEF DonePlaying, Channel

LEMMA SilencedType ==
    ASSUME NEW c \in Channel PROVE Silenced(c) \in Channel
  BY Zeros, Zenon DEF Silenced, Channel

LEMMA WithTimerType ==
    ASSUME NEW c \in Channel, NEW t \in Nat PROVE WithTimer(c, t) \in Channel
<1>1. t \in Int
  OBVIOUS
<1> QED
  BY <1>1, Zenon DEF WithTimer, Channel

LEMMA WithVolumeType ==
    ASSUME NEW c \in Channel, NEW v \in Int PROVE WithVolume(c, v) \in Channel
<1>1. CASE v < 0
  BY <1>1 DEF WithVolume
<1>2. CASE ~(v < 0)
  <2>1. Clamped(v) \in Volume
    BY <1>2, ClampedType
  <2>2. [c EXCEPT !.volume = Clamped(v), !.wanted = Clamped(v)] \in Channel
    BY <2>1, Zenon DEF Channel
  <2> QED
    BY <1>2, <2>2 DEF WithVolume
<1> QED
  BY <1>1, <1>2

LEMMA HaltedType ==
    ASSUME NEW c \in Channel PROVE Halted(c) \in Channel
<1> DEFINE s == WithTimer(IF IsPlaying(c) THEN DonePlaying(Silenced(c)) ELSE c, 0)
           v == IF s.fading = "no" THEN s.volume ELSE s.fade_volume_reset
<1>1. s \in Channel
  BY Zeros, SilencedType, DonePlayingType, WithTimerType
<1>2. v \in Volume
  BY <1>1 DEF Channel
<1> HIDE DEF s, v
<1>3. [s EXCEPT !.volume = v, !.fading = "no"] \in Channel
  BY <1>1, <1>2, Zeros, Zenon DEF Channel
<1> QED
  BY <1>3 DEF Halted, s, v

LEMMA QueuedType ==
    ASSUME NEW c \in Channel, NEW k \in Chunks, NEW loops \in Int
    PROVE  Queued(c, k, loops) \in Channel
<1> DEFINE d == IF IsPlaying(c) THEN DonePlaying(c) ELSE c
           left == IF loops < 0 THEN -1 ELSE (loops + 1) * Alen[k]
<1>1. d \in Channel
  BY DonePlayingType
<1>2. Alen[k] \in Nat /\ left \in Int
  BY ChunkAssumption
<1>3. d.owed + 1 \in Int
  BY <1>1 DEF Channel
<1> HIDE DEF d, left
<1>4. [d EXCEPT !.chunk = k, !.pos = 0, !.playing = Alen[k], !.looping = loops,
                !.paused = 0, !.owed = @ + 1, !.left = left] \in Channel
  BY <1>1, <1>2, <1>3, Zeros, Zenon DEF Channel
<1> QED
  BY <1>4 DEF Queued, d, left

LEMMA DeadlineType ==
    ASSUME now \in Nat, NEW ticks \in Int PROVE Deadline(ticks) \in Nat
  BY DEF Deadline

LEMMA PlayedType ==
    ASSUME now \in Nat, NEW c \in Channel, NEW k \in Chunks, NEW loops \in Int,
           NEW ticks \in Int, NEW v \in Int
    PROVE  Played(c, k, loops, ticks, v) \in Channel
<1>1. Queued(c, k, loops) \in Channel
  BY QueuedType
<1>2. [Queued(c, k, loops) EXCEPT !.fading = "no"] \in Channel
  BY <1>1, Zeros, Zenon DEF Channel
<1> QED
  BY <1>2, DeadlineType, WithTimerType, WithVolumeType DEF Played

LEMMA FadedInType ==
    ASSUME now \in 0 .. LastTick, NEW c \in Channel, NEW k \in Chunks,
           NEW loops \in Int, NEW ms \in Nat, NEW ticks \in Int, NEW v \in Int
    PROVE  FadedIn(c, k, loops, ms, ticks, v) \in Channel
<1> DEFINE q == WithVolume(WithTimer(Queued(c, k, loops), Deadline(ticks)), v)
           r == IF q.fading = "no" THEN q.volume ELSE q.fade_volume_reset
<1>1. q \in Channel
  BY QueuedType, DeadlineType, WithTimerType, WithVolumeType, SMTT(40)
<1>2. r \in Volume /\ q.volume \in Volume
  BY <1>1 DEF Channel
<1> HIDE DEF q, r
<1>3. [q EXCEPT !.fade_volume_reset = r, !.fading = "in", !.fade_volume = q.volume,
                !.volume = 0, !.fade_length = ms, !.ticks_fade = now] \in Channel
  BY <1>1, <1>2, Zeros, Zenon DEF Channel
<1> QED
  BY <1>3 DEF FadedIn, q, r

LEMMA FadedOutType ==
    ASSUME now \in 0 .. LastTick, NEW c \in Channel, NEW ms \in Nat
    PROVE  FadedOut(c, ms) \in Channel
<1> DEFINE r == IF c.fading = "no" THEN c.volume ELSE c.fade_volume_reset
<1>1. r \in Volume /\ c.volume \in Volume
  BY DEF Channel
<1> HIDE DEF r
<1>2. [c EXCEPT !.fade_volume = c.volume, !.fade_length = ms, !.ticks_fade = now,
                !.fade_volume_reset = r, !.fading = "out"] \in Channel
  BY <1>1, Zeros, Zenon DEF Channel
<1> QED
  BY <1>2 DEF FadedOut, r

LEMMA ElapsedType ==
    ASSUME NEW t \in 0 .. LastTick, NEW u \in 0 .. LastTick
    PROVE  Elapsed(t, u) \in Nat
  BY ClockAssumption DEF Elapsed

LEMMA PausedAtType ==
    ASSUME now \in Nat, NEW c \in Channel, NEW t \in 0 .. LastTick
    PROVE  PausedAt(c, t) \in Channel
<1> DEFINE d == IF c.paused = 0 /\ c.due > 0 THEN c.due + (now - t) ELSE c.due
<1>1. d \in Int
  BY DEF Channel
<1> HIDE DEF d
<1>2. [c EXCEPT !.paused = t, !.due = d] \in Channel
  BY <1>1, Zenon DEF Channel
<1> QED
  BY <1>2 DEF PausedAt, d

LEMMA ResumedType ==
    ASSUME now \in Nat, NEW c \in Channel, NEW t \in 0 .. LastTick
    PROVE  Resumed(c, t) \in Channel
<1> DEFINE e == IF c.expire > 0 THEN c.expire + Elapsed(t, c.paused) ELSE c.expire
           d == IF c.paused # 0 /\ c.due > 0 THEN c.due - (now - t) ELSE c.due
<1>1. c.paused \in 0 .. LastTick /\ c.expire \in Nat /\ c.due \in Int
  BY DEF Channel
<1>2. e \in Nat /\ d \in Int
  BY <1>1, ElapsedType
<1> HIDE DEF e, d
<1>3. [c EXCEPT !.expire = e, !.due = d, !.paused = 0] \in Channel
  BY <1>2, Zeros, Zenon DEF Channel
<1> QED
  BY <1>3 DEF Resumed, e, d

LEMMA TimedType ==
    ASSUME NEW c \in Channel, NEW t \in 0 .. LastTick
    PROVE  Timed(c, t) \in Channel
<1> DEFINE ticks == Elapsed(t, c.ticks_fade)
<1>1. Expired(c) \in Channel
  <2>1. [Silenced(c) EXCEPT !.fading = "no"] \in Channel
    BY SilencedType, Zeros, Zenon DEF Channel
  <2> QED
    BY <2>1, Zeros, WithTimerType, DonePlayingType DEF Expired
<1>2. FadeFinished(c) \in Channel
  <2> DEFINE v == [c EXCEPT !.volume = c.fade_volume_reset]
             s == IF c.fading = "out" THEN DonePlaying(WithTimer(Silenced(v), 0)) ELSE v
  <2>1. v \in Channel
    BY DEF Channel
  <2>2. s \in Channel
    BY <2>1, Zeros, SilencedType, WithTimerType, DonePlayingType
  <2> HIDE DEF v, s
  <2>3. [s EXCEPT !.fading = "no"] \in Channel
    BY <2>2, Zeros, Zenon DEF Channel
  <2> QED
    BY <2>3 DEF FadeFinished, s, v
<1>3. ASSUME ~(ticks >= c.fade_length) PROVE FadeStep(c, ticks) \in Channel
  <2> DEFINE loud == IF c.fading = "out" THEN c.fade_length - ticks ELSE ticks
             v == (c.fade_volume * loud) \div c.fade_length
  <2>1. /\ ticks \in Nat /\ c.fade_length \in Nat \ {0}
        /\ c.fade_volume \in Nat /\ loud \in Nat
    BY <1>3, ElapsedType, ChannelAssumption DEF Channel, Volume
  <2>2. v \in Nat
    BY <2>1, ScaledNat
  <2>3. Clamped(v) \in Volume
    BY <2>2, ClampedType
  <2> HIDE DEF v
  <2>4. [c EXCEPT !.volume = Clamped(v)] \in Channel
    BY <2>3, Zenon DEF Channel
  <2> QED
    BY <2>4 DEF FadeStep, v
<1> QED
  BY <1>1, <1>2, <1>3, Zenon DEF Timed

LEMMA MixedType ==
    ASSUME NEW c \in Channel, NEW n \in 0 .. c.playing
    PROVE  Mixed(c, n) \in Channel
<1> DEFINE l == IF c.left < 0 THEN c.left ELSE c.left - n
<1>1. /\ c.pos + n \in Nat /\ c.playing - n \in Nat
      /\ l \in Int
  BY DEF Channel
<1> HIDE DEF l
<1>2. [c EXCEPT !.pos = @ + n, !.playing = @ - n, !.left = l] \in Channel
  BY <1>1, Zenon DEF Channel
<1> QED
  BY <1>2 DEF Mixed, l

LEMMA LoopTakenType ==
    ASSUME NEW c \in Channel PROVE LoopTaken(c) \in Channel
<1> DEFINE l == IF c.looping > 0 THEN c.looping - 1 ELSE c.looping
<1>1. l \in Int
  BY DEF Channel
<1> HIDE DEF l
<1>2. [c EXCEPT !.looping = l] \in Channel
  BY <1>1, Zenon DEF Channel
<1> QED
  BY <1>2 DEF LoopTaken, l

\* A pass begins again.
LEMMA RewoundType ==
    ASSUME NEW c \in Channel, c.chunk \in Chunks
    PROVE  /\ [LoopTaken(c) EXCEPT !.pos = 0, !.playing = Alen[c.chunk]] \in Channel
           /\ Alen[c.chunk] \in Nat \ {0}
           /\ [LoopTaken(c) EXCEPT !.pos = 0,
                                   !.playing = Alen[c.chunk]].playing = Alen[c.chunk]
<1>1. LoopTaken(c) \in Channel
  BY LoopTakenType
<1>2. Alen[c.chunk] \in Nat
  BY ChunkAssumption
<1>3. [LoopTaken(c) EXCEPT !.pos = 0, !.playing = Alen[c.chunk]] \in Channel
  BY <1>1, <1>2, Zeros, Zenon DEF Channel
<1>4. Alen[c.chunk] \in Nat \ {0}
  BY ChunkAssumption
<1>5. [LoopTaken(c) EXCEPT !.pos = 0,
                           !.playing = Alen[c.chunk]].playing = Alen[c.chunk]
  BY <1>1 DEF Channel
<1> QED
  BY <1>3, <1>4, <1>5

(***************************************************************************)
(* What the operations on one channel do to the fields the invariant is    *)
(* about.  Same(c, d): d is at the same place of the same sound as c.      *)
(***************************************************************************)

Same(c, d) ==
    /\ d.chunk = c.chunk /\ d.playing = c.playing /\ d.looping = c.looping
    /\ d.pos = c.pos /\ d.left = c.left

Stopped(c, d) ==
    d.chunk = c.chunk /\ d.playing = 0 /\ d.looping = 0 /\ d.left = 0

Untimed(c, d) == d.fading = c.fading /\ d.ticks_fade = c.ticks_fade

LEMMA DonePlayingFields ==
    ASSUME NEW c \in Channel
    PROVE  /\ Same(c, DonePlaying(c)) /\ Untimed(c, DonePlaying(c))
           /\ DonePlaying(c).owed = c.owed - 1 /\ DonePlaying(c).effects = 0
           /\ DonePlaying(c).expire = c.expire
  BY DEF DonePlaying, Channel, Same, Untimed

LEMMA SilencedFields ==
    ASSUME NEW c \in Channel
    PROVE  /\ Stopped(c, Silenced(c)) /\ Untimed(c, Silenced(c))
           /\ Silenced(c).owed = c.owed /\ Silenced(c).effects = c.effects
           /\ Silenced(c).expire = c.expire
  BY DEF Silenced, Channel, Stopped, Untimed

LEMMA WithTimerFields ==
    ASSUME NEW c \in Channel, NEW t \in Nat
    PROVE  /\ Same(c, WithTimer(c, t)) /\ Untimed(c, WithTimer(c, t))
           /\ WithTimer(c, t).owed = c.owed /\ WithTimer(c, t).effects = c.effects
           /\ WithTimer(c, t).expire = t
  BY DEF WithTimer, Channel, Same, Untimed

LEMMA WithVolumeFields ==
    ASSUME NEW c \in Channel, NEW v \in Int
    PROVE  /\ Same(c, WithVolume(c, v)) /\ Untimed(c, WithVolume(c, v))
           /\ WithVolume(c, v).owed = c.owed /\ WithVolume(c, v).effects = c.effects
           /\ WithVolume(c, v).expire = c.expire
  BY DEF WithVolume, Channel, Same, Untimed

LEMMA HaltedFields ==
    ASSUME NEW c \in Channel
    PROVE  /\ IsPlaying(c) => Stopped(c, Halted(c)) /\ Halted(c).owed = c.owed - 1
           /\ ~IsPlaying(c) => Same(c, Halted(c)) /\ Halted(c).owed = c.owed
           /\ Halted(c).fading = "no" /\ Halted(c).expire = 0
           /\ Halted(c).effects = IF IsPlaying(c) THEN 0 ELSE c.effects
<1> DEFINE h == IF IsPlaying(c) THEN DonePlaying(Silenced(c)) ELSE c
           s == WithTimer(h, 0)
           v == IF s.fading = "no" THEN s.volume ELSE s.fade_volume_reset
<1>1. /\ h \in Channel /\ s \in Channel
  BY Zeros, SilencedType, DonePlayingType, WithTimerType
<1>2. /\ IsPlaying(c) => Stopped(c, h) /\ h.owed = c.owed - 1 /\ h.effects = 0
      /\ ~IsPlaying(c) => h = c
  BY SilencedType, SilencedFields, DonePlayingFields DEF Stopped, Same
<1>3. Same(h, s) /\ s.owed = h.owed /\ s.expire = 0 /\ s.effects = h.effects
  BY <1>1, Zeros, WithTimerFields
<1>4. Halted(c) = [s EXCEPT !.volume = v, !.fading = "no"]
  BY DEF Halted
<1> HIDE DEF v, s, h
<1>5. /\ Same(s, Halted(c)) /\ Halted(c).owed = s.owed /\ Halted(c).effects = s.effects
      /\ Halted(c).fading = "no" /\ Halted(c).expire = s.expire
  BY <1>1, <1>4 DEF Same, Channel
<1> QED
  BY <1>2, <1>3, <1>5 DEF Same, Stopped

LEMMA QueuedFields ==
    ASSUME NEW c \in Channel, NEW k \in Chunks, NEW loops \in Int,
           NEW d, d = Queued(c, k, loops)
    PROVE  /\ d.chunk = k /\ d.pos = 0 /\ d.playing = Alen[k] /\ d.looping = loops
           /\ d.left = IF loops < 0 THEN -1 ELSE (loops + 1) * Alen[k]
           /\ d.owed = (IF IsPlaying(c) THEN c.owed ELSE c.owed + 1)
           /\ d.effects = (IF IsPlaying(c) THEN 0 ELSE c.effects)
           /\ Untimed(c, d)
<1> DEFINE e == IF IsPlaying(c) THEN DonePlaying(c) ELSE c
           left == IF loops < 0 THEN -1 ELSE (loops + 1) * Alen[k]
<1>1. /\ e \in Channel /\ Untimed(c, e)
      /\ e.owed = (IF IsPlaying(c) THEN c.owed - 1 ELSE c.owed)
      /\ e.effects = (IF IsPlaying(c) THEN 0 ELSE c.effects)
  BY DonePlayingType, DonePlayingFields DEF Untimed
<1>2. d = [e EXCEPT !.chunk = k, !.pos = 0, !.playing = Alen[k], !.looping = loops,
                    !.paused = 0, !.owed = @ + 1, !.left = left]
  BY DEF Queued
<1>3. c.owed \in Int
  BY DEF Channel
<1> HIDE DEF e, left
<1>4. /\ d.chunk = k /\ d.pos = 0 /\ d.playing = Alen[k] /\ d.looping = loops
      /\ d.left = left /\ d.owed = e.owed + 1 /\ d.effects = e.effects
      /\ Untimed(e, d)
  BY <1>1, <1>2 DEF Channel, Untimed
<1> QED
  BY <1>1, <1>3, <1>4 DEF left, Untimed

LEMMA PlayedFields ==
    ASSUME now \in Nat, NEW c \in Channel, NEW k \in Chunks, NEW loops \in Int,
           NEW ticks \in Int, NEW v \in Int, NEW d, d = Played(c, k, loops, ticks, v)
    PROVE  /\ Same(Queued(c, k, loops), d) /\ d.owed = Queued(c, k, loops).owed
           /\ d.effects = Queued(c, k, loops).effects /\ d.fading = "no"
<1> DEFINE q == Queued(c, k, loops)
           f == [q EXCEPT !.fading = "no"]
<1>1. q \in Channel
  BY QueuedType
<1> HIDE DEF q
<1>2. f \in Channel
  BY <1>1, Zeros, Zenon DEF Channel
<1>3. Same(q, f) /\ f.owed = q.owed /\ f.effects = q.effects /\ f.fading = "no"
  BY <1>1 DEF Channel, Same
<1> HIDE DEF f
<1>4. /\ WithTimer(f, Deadline(ticks)) \in Channel
      /\ Same(f, WithTimer(f, Deadline(ticks)))
      /\ Untimed(f, WithTimer(f, Deadline(ticks)))
      /\ WithTimer(f, Deadline(ticks)).owed = f.owed
      /\ WithTimer(f, Deadline(ticks)).effects = f.effects
  BY <1>2, DeadlineType, WithTimerType, WithTimerFields
<1>5. d = WithVolume(WithTimer(f, Deadline(ticks)), v)
  BY DEF Played, q, f
<1> QED
  BY <1>3, <1>4, <1>5, WithVolumeFields DEF Same, Untimed, q

LEMMA FadedInFields ==
    ASSUME now \in 0 .. LastTick, NEW c \in Channel, NEW k \in Chunks,
           NEW loops \in Int, NEW ms \in Nat, NEW ticks \in Int, NEW v \in Int,
           NEW d, d = FadedIn(c, k, loops, ms, ticks, v)
    PROVE  /\ Same(Queued(c, k, loops), d) /\ d.owed = Queued(c, k, loops).owed
           /\ d.effects = Queued(c, k, loops).effects /\ d.ticks_fade = now
<1> DEFINE t == WithTimer(Queued(c, k, loops), Deadline(ticks))
           q == WithVolume(t, v)
           r == IF q.fading = "no" THEN q.volume ELSE q.fade_volume_reset
<1>0. Queued(c, k, loops) \in Channel /\ Deadline(ticks) \in Nat
  BY ClockAssumption, QueuedType, DeadlineType
<1>1. /\ t \in Channel /\ Same(Queued(c, k, loops), t)
      /\ t.owed = Queued(c, k, loops).owed /\ t.effects = Queued(c, k, loops).effects
  BY <1>0, WithTimerType, WithTimerFields
<1> HIDE DEF t
<1>2. q \in Channel /\ Same(t, q) /\ q.owed = t.owed /\ q.effects = t.effects
  BY <1>1, WithVolumeType, WithVolumeFields
<1>3. d = [q EXCEPT !.fade_volume_reset = r, !.fading = "in", !.fade_volume = q.volume,
                    !.volume = 0, !.fade_length = ms, !.ticks_fade = now]
  BY DEF FadedIn, t
<1> HIDE DEF q, r
<1>4. Same(q, d) /\ d.owed = q.owed /\ d.effects = q.effects /\ d.ticks_fade = now
  BY <1>2, <1>3 DEF Channel, Same
<1> QED
  BY <1>1, <1>2, <1>4 DEF Same

LEMMA FadedOutFields ==
    ASSUME now \in 0 .. LastTick, NEW c \in Channel, NEW ms \in Nat,
           NEW d, d = FadedOut(c, ms)
    PROVE  /\ Same(c, d) /\ d.owed = c.owed /\ d.expire = c.expire
           /\ d.ticks_fade = now
  BY DEF FadedOut, Channel, Same

LEMMA PausedAtFields ==
    ASSUME NEW c \in Channel, NEW t, NEW d, d = PausedAt(c, t)
    PROVE  /\ Same(c, d) /\ Untimed(c, d) /\ d.owed = c.owed
           /\ d.expire = c.expire
  BY DEF PausedAt, Channel, Same, Untimed

LEMMA ResumedFields ==
    ASSUME NEW c \in Channel, NEW t, NEW d, d = Resumed(c, t)
    PROVE  /\ Same(c, d) /\ Untimed(c, d) /\ d.owed = c.owed
           /\ d.expire > 0 => c.expire > 0
  BY DEF Resumed, Channel, Same, Untimed

\* A channel's turn at the clock keeps its place or stops it and reports that.
LEMMA TimedFields ==
    ASSUME NEW c \in Channel, NEW t \in 0 .. LastTick, NEW d, d = Timed(c, t)
    PROVE  \/ /\ Same(c, d) /\ d.owed = c.owed /\ d.expire = c.expire
              /\ d.fading # "no" => Untimed(c, d)
           \/ /\ Stopped(c, d) /\ d.owed = c.owed - 1 /\ d.expire = 0
              /\ d.fading = "no" /\ d.effects = 0
              /\ c.expire > 0 \/ c.fading = "out"
<1> DEFINE ticks == Elapsed(t, c.ticks_fade)
<1>1. CASE Overdue(c, t)
  <2> DEFINE s == Silenced(c)
             f == [s EXCEPT !.fading = "no"]
  <2>1. s \in Channel /\ Stopped(c, s) /\ s.owed = c.owed
    BY SilencedType, SilencedFields
  <2> HIDE DEF s
  <2>2. f \in Channel /\ Stopped(c, f) /\ f.owed = c.owed /\ f.fading = "no"
    BY <2>1, Zeros DEF Channel, Stopped
  <2> HIDE DEF f
  <2>3. /\ WithTimer(f, 0) \in Channel /\ Same(f, WithTimer(f, 0))
        /\ Untimed(f, WithTimer(f, 0)) /\ WithTimer(f, 0).owed = f.owed
        /\ WithTimer(f, 0).expire = 0
    BY <2>2, Zeros, WithTimerType, WithTimerFields
  <2>4. d = DonePlaying(WithTimer(f, 0))
    BY <1>1 DEF Timed, Expired, f, s
  <2>5. /\ Stopped(c, d) /\ d.owed = c.owed - 1 /\ d.expire = 0 /\ d.fading = "no"
        /\ d.effects = 0
    BY <2>2, <2>3, <2>4, DonePlayingFields DEF Same, Stopped, Untimed
  <2> QED
    BY <1>1, <2>5 DEF Overdue
<1>2. CASE ~Overdue(c, t) /\ c.fading = "no"
  BY <1>2 DEF Timed, Same
<1>3. CASE ~Overdue(c, t) /\ c.fading # "no" /\ ticks >= c.fade_length
  <2> DEFINE v == [c EXCEPT !.volume = c.fade_volume_reset]
             w == WithTimer(Silenced(v), 0)
             s == IF c.fading = "out" THEN DonePlaying(w) ELSE v
  <2>1. /\ v \in Channel /\ Same(c, v) /\ v.owed = c.owed /\ v.expire = c.expire
    BY DEF Channel, Same
  <2> HIDE DEF v
  <2>2. /\ w \in Channel /\ Stopped(v, w) /\ w.owed = v.owed /\ w.expire = 0
    <3> DEFINE x == Silenced(v)
    <3>1. x \in Channel /\ Stopped(v, x) /\ x.owed = v.owed
      BY <2>1, SilencedType, SilencedFields
    <3> HIDE DEF x
    <3>2. /\ WithTimer(x, 0) \in Channel /\ Same(x, WithTimer(x, 0))
          /\ WithTimer(x, 0).owed = x.owed /\ WithTimer(x, 0).expire = 0
      BY <3>1, Zeros, WithTimerType, WithTimerFields
    <3>3. w = WithTimer(x, 0)
      BY DEF x
    <3> QED
      BY <3>1, <3>2, <3>3 DEF Same, Stopped
  <2> HIDE DEF w
  <2>3. /\ s \in Channel
        /\ c.fading = "out" => Stopped(v, s) /\ s.owed = v.owed - 1 /\ s.expire = 0
                             /\ s.effects = 0
        /\ c.fading # "out" => s = v
    BY <2>1, <2>2, DonePlayingType, DonePlayingFields DEF Same, Stopped
  <2>4. d = [s EXCEPT !.fading = "no"]
    BY <1>3 DEF Timed, FadeFinished, s, v, w
  <2> HIDE DEF s
  <2>5. /\ Same(s, d) /\ d.owed = s.owed /\ d.expire = s.expire /\ d.fading = "no"
        /\ d.effects = s.effects
    BY <2>3, <2>4 DEF Channel, Same
  <2> QED
    BY <2>1, <2>3, <2>5 DEF Same, Stopped
<1>4. CASE ~Overdue(c, t) /\ c.fading # "no" /\ ~(ticks >= c.fade_length)
  <2>1. d = FadeStep(c, ticks)
    BY <1>4 DEF Timed
  <2> DEFINE v == Clamped((c.fade_volume * (IF c.fading = "out" THEN c.fade_length - ticks
                                                                ELSE ticks))
                            \div c.fade_length)
  <2>2. d = [c EXCEPT !.volume = v]
    BY <2>1 DEF FadeStep
  <2> HIDE DEF v
  <2>3. Same(c, d) /\ d.owed = c.owed /\ d.expire = c.expire /\ Untimed(c, d)
    BY <2>2 DEF Channel, Same, Untimed
  <2> QED
    BY <2>3
<1> QED
  BY <1>1, <1>2, <1>3, <1>4

(***************************************************************************)
(* The ways in which a step may change a channel from c to d.              *)
(***************************************************************************)

\* The place of a channel in its chunk and in its passes is consistent.
Sound(c) ==
    /\ c.playing > 0 => c.pos + c.playing = Alen[c.chunk]
    /\ c.left >= 0 =>
         /\ c.looping >= 0
         /\ c.left = c.playing +
              (IF c.looping > 0 THEN c.looping * Alen[c.chunk] ELSE 0)

\* It stays where it is; a fade may begin on a playing channel, or any fade end.
Kept(c, d) ==
    /\ Same(c, d) /\ d.owed = c.owed
    /\ d.expire > 0 => c.expire > 0 \/ "Expire" \in Calls
    /\ d.fading # "no" =>
         \/ Untimed(c, d)
         \/ mx.pc = "idle" /\ IsPlaying(c) /\ d.ticks_fade = now

\* It stops and is reported.
Ended(c, d) ==
    /\ d.chunk = c.chunk /\ d.playing = 0 /\ d.looping = 0
    /\ Sound(c) => Sound(d)
    /\ d.owed = c.owed - 1 /\ d.effects = 0 /\ d.fading = "no" /\ d.expire = 0
    /\ IsPlaying(c) \/ c.expire > 0 \/ c.fading = "out"

\* A chunk that is not released begins.
Began(c, d) ==
    /\ mx.pc = "idle" /\ app.pc = "idle"
    /\ d.chunk \in Chunks \ freed
    /\ d.pos = 0 /\ d.playing = Alen[d.chunk]
    /\ d.looping \in Loops /\ Sound(d)
    /\ d.effects = (IF IsPlaying(c) THEN 0 ELSE c.effects)
    /\ d.owed = IF IsPlaying(c) THEN c.owed ELSE c.owed + 1
    /\ d.fading # "no" => d.ticks_fade = now

\* It is allocated, or its memory given back.
Emptied(d) == mx.pc = "idle" /\ d = Fresh

\* What remains never grows, and an endless loop stays one.
Onward(c, d) ==
    /\ d.looping < 0 <=> c.looping < 0
    /\ Remaining(d) <= Remaining(c)

\* The mixer takes frames from it.
Advanced(c, d) ==
    /\ IsPlaying(c) /\ d.chunk = c.chunk /\ d.chunk \in Chunks
    /\ Sound(c) => Sound(d)
    /\ Untimed(c, d) /\ d.owed = c.owed /\ d.expire = c.expire
    /\ d.effects = c.effects /\ Onward(c, d)
    /\ IsPlaying(d) \/ Alen[c.chunk] < Len

Turn(c, d) ==
    Kept(c, d) \/ Ended(c, d) \/ Began(c, d) \/ Emptied(d) \/ Advanced(c, d)

LEMMA KeptItself == ASSUME NEW c PROVE Kept(c, c)
  BY DEF Kept, Same, Untimed

LEMMA StoppedSound ==
    ASSUME NEW c, NEW d, Stopped(c, d) PROVE Sound(d)
  BY DEF Stopped, Sound

LEMMA SameSound ==
    ASSUME NEW c, NEW d, Same(c, d), Sound(c) PROVE Sound(d)
  BY DEF Same, Sound

LEMMA HaltedTurn ==
    ASSUME NEW c \in Channel PROVE Kept(c, Halted(c)) \/ Ended(c, Halted(c))
  BY HaltedFields, StoppedSound DEF Kept, Ended, Stopped

LEMMA TimedTurn ==
    ASSUME NEW c \in Channel, NEW t \in 0 .. LastTick
    PROVE  Kept(c, Timed(c, t)) \/ Ended(c, Timed(c, t))
  BY TimedFields, StoppedSound DEF Kept, Ended, Stopped

LEMMA QueuedTurn ==
    ASSUME mx.pc = "idle", app.pc = "idle", NEW c \in Channel,
           NEW k \in Chunks \ freed,
           NEW loops \in Loops, NEW d, Same(Queued(c, k, loops), d),
           d.owed = Queued(c, k, loops).owed,
           d.effects = Queued(c, k, loops).effects,
           d.fading = "no" \/ d.ticks_fade = now
    PROVE  Began(c, d)
<1> DEFINE q == Queued(c, k, loops)
<1>0. loops \in Int
  BY ArgumentAssumption
<1>1. /\ q.chunk = k /\ q.pos = 0 /\ q.playing = Alen[k] /\ q.looping = loops
      /\ q.left = IF loops < 0 THEN -1 ELSE (loops + 1) * Alen[k]
      /\ q.owed = (IF IsPlaying(c) THEN c.owed ELSE c.owed + 1)
      /\ q.effects = (IF IsPlaying(c) THEN 0 ELSE c.effects)
  BY <1>0, QueuedFields
<1> HIDE DEF q
<1>2. Alen[k] \in Nat \ {0} /\ Alen[k] \in Int
  BY ChunkAssumption
<1>3. (loops + 1) * Alen[k] = Alen[k] + loops * Alen[k]
  BY <1>0, <1>2, OneMore, Zenon
<1>4. loops = 0 => loops * Alen[k] = 0
  BY <1>0, <1>2, OneMore, Zenon
<1>5. Sound(q)
  <2> DEFINE rest == loops * Alen[k]
             all == (loops + 1) * Alen[k]
  <2>1. rest \in Int
    BY <1>0, <1>2, OneMore, Zenon
  <2>2. all = Alen[k] + rest /\ (loops = 0 => rest = 0)
    BY <1>3, <1>4, Zenon
  <2>3. q.looping * Alen[q.chunk] = rest
    <3>1. q.looping = loops /\ q.chunk = k
      BY <1>1
    <3> QED
      BY <3>1, Zenon
  <2>4. q.left = IF loops < 0 THEN -1 ELSE all
    BY <1>1, Zenon
  <2> HIDE DEF rest, all
  <2>5. q.playing > 0 => q.pos + q.playing = Alen[q.chunk]
    BY <1>1, <1>2
  <2>6. q.left >= 0 => q.looping >= 0
    BY <1>0, <1>1, <2>4
  <2>7. ~(loops < 0) => q.left = q.playing + (IF q.looping > 0 THEN rest ELSE 0)
    BY <1>0, <1>1, <1>2, <2>1, <2>2, <2>4
  <2> QED
    BY <1>0, <1>1, <2>3, <2>4, <2>5, <2>6, <2>7 DEF Sound
<1> QED
  BY <1>1, <1>5, SameSound DEF Began, Same, q

\* What taking n frames changes.
LEMMA MixedFields ==
    ASSUME NEW c \in Channel, NEW n \in 1 .. c.playing
    PROVE  /\ Mixed(c, n).chunk = c.chunk /\ Mixed(c, n).looping = c.looping
           /\ Mixed(c, n).pos = c.pos + n /\ Mixed(c, n).playing = c.playing - n
           /\ Mixed(c, n).left = IF c.left < 0 THEN c.left ELSE c.left - n
           /\ Untimed(c, Mixed(c, n)) /\ Mixed(c, n).owed = c.owed
           /\ Mixed(c, n).expire = c.expire /\ Mixed(c, n).effects = c.effects
<1> DEFINE l == IF c.left < 0 THEN c.left ELSE c.left - n
           p == c.pos + n
           r == c.playing - n
           d == Mixed(c, n)
<1>1. d = [c EXCEPT !.pos = p, !.playing = r, !.left = l]
  BY DEF Mixed
<1> HIDE DEF l, p, r, d
<1>2. /\ d.chunk = c.chunk /\ d.looping = c.looping /\ d.pos = p
      /\ d.playing = r /\ d.left = l /\ Untimed(c, d) /\ d.owed = c.owed
      /\ d.expire = c.expire /\ d.effects = c.effects
  BY <1>1 DEF Channel, Untimed
<1> QED
  BY <1>2 DEF l, p, r, d

\* A pass is mixed on, perhaps to the end of the last one.
LEMMA DataTurn ==
    ASSUME NEW c \in Channel, NEW n \in 1 .. c.playing, c.chunk \in Chunks,
           NEW d, d = IF Mixed(c, n).playing = 0 /\ Mixed(c, n).looping = 0
                        THEN DonePlaying(WithTimer([Mixed(c, n) EXCEPT !.fading = "no"], 0))
                        ELSE Mixed(c, n)
    PROVE  /\ d \in Channel /\ d.playing = c.playing - n
           /\ Ended(c, d) \/ Advanced(c, d)
<1> DEFINE m == Mixed(c, n)
           f == [m EXCEPT !.fading = "no"]
<1>0. /\ c.playing \in Nat /\ c.pos \in Nat /\ c.left \in Int /\ c.looping \in Int
      /\ Alen[c.chunk] \in Nat
  BY ChunkAssumption DEF Channel
<1>1. /\ m \in Channel /\ m.chunk = c.chunk /\ m.looping = c.looping
      /\ m.pos = c.pos + n /\ m.playing = c.playing - n
      /\ m.left = IF c.left < 0 THEN c.left ELSE c.left - n
      /\ Untimed(c, m) /\ m.owed = c.owed /\ m.expire = c.expire
      /\ m.effects = c.effects
  BY <1>0, MixedType, MixedFields
<1>2. IsPlaying(c) /\ (Sound(c) => Sound(m))
  BY <1>0, <1>1 DEF Sound, IsPlaying
<1>3. CASE ~(m.playing = 0 /\ m.looping = 0)
  <2> HIDE DEF m
  <2>1. d = m
    BY <1>3 DEF m
  <2>2. m.playing \in Nat /\ IsPlaying(m)
    BY <1>0, <1>1, <1>3 DEF IsPlaying
  <2>3. Onward(c, m)
    BY <1>0, <1>1 DEF Onward, Remaining
  <2>4. Advanced(c, m)
    BY <1>1, <1>2, <2>2, <2>3 DEF Advanced
  <2> QED
    BY <1>1, <2>1, <2>4
<1>4. CASE m.playing = 0 /\ m.looping = 0
  <2> HIDE DEF m
  <2>1. f \in Channel /\ Same(m, f) /\ f.owed = m.owed /\ f.fading = "no"
    BY <1>1, Zeros DEF Channel, Same
  <2>2. d = DonePlaying(WithTimer(f, 0))
    BY <1>4 DEF m
  <2> HIDE DEF f
  <2>3. /\ WithTimer(f, 0) \in Channel /\ Same(f, WithTimer(f, 0))
        /\ Untimed(f, WithTimer(f, 0)) /\ WithTimer(f, 0).owed = f.owed
        /\ WithTimer(f, 0).expire = 0
    BY <2>1, Zeros, WithTimerType, WithTimerFields
  <2>4. /\ d \in Channel /\ Same(m, d) /\ d.owed = m.owed - 1
        /\ d.fading = "no" /\ d.expire = 0 /\ d.effects = 0
    BY <2>1, <2>2, <2>3, DonePlayingType, DonePlayingFields DEF Same, Untimed
  <2>5. Sound(c) => Sound(d)
    BY <1>2, <2>4, SameSound
  <2> QED
    BY <1>1, <1>2, <1>4, <2>4, <2>5 DEF Ended, Same
<1> QED
  BY <1>3, <1>4

\* The next pass of a looping chunk begins.
LEMMA RewoundTurn ==
    ASSUME NEW c \in Channel, c.chunk \in Chunks, c.looping # 0, c.playing = 0,
           NEW d, d = [LoopTaken(c) EXCEPT !.pos = 0, !.playing = Alen[c.chunk]]
    PROVE  /\ d \in Channel /\ d.playing = Alen[c.chunk] /\ d.playing \in Nat \ {0}
           /\ d.chunk = c.chunk /\ IsPlaying(c) /\ IsPlaying(d)
           /\ Sound(c) => Sound(d)
           /\ Untimed(c, d) /\ d.owed = c.owed /\ d.expire = c.expire
           /\ d.effects = c.effects /\ Onward(c, d)
<1> DEFINE l == IF c.looping > 0 THEN c.looping - 1 ELSE c.looping
           a == Alen[c.chunk]
           e == LoopTaken(c)
<1>1. d \in Channel /\ d.playing = a /\ a \in Nat \ {0}
  BY RewoundType
<1>2. e = [c EXCEPT !.looping = l]
  BY DEF LoopTaken
<1>3. c.looping \in Int /\ c.left \in Int
  BY DEF Channel
<1> HIDE DEF l, e
<1>4. /\ e.looping = l /\ e.chunk = c.chunk /\ e.left = c.left
      /\ Untimed(c, e) /\ e.owed = c.owed /\ e.expire = c.expire
      /\ e.effects = c.effects
      /\ e = [e EXCEPT !.looping = l]
  BY <1>2 DEF Channel, Untimed
<1>5. e \in Channel
  BY LoopTakenType DEF e
<1>6. d = [e EXCEPT !.pos = 0, !.playing = a]
  BY DEF e
<1> HIDE DEF a
<1>7. /\ d.pos = 0 /\ d.looping = l /\ d.chunk = c.chunk /\ d.left = c.left
      /\ Untimed(c, d) /\ d.owed = c.owed /\ d.expire = c.expire
      /\ d.effects = c.effects
  BY <1>4, <1>5, <1>6 DEF Channel, Untimed
<1>8. c.looping * a = a + (c.looping - 1) * a
  <2>1. a \in Int /\ c.looping - 1 \in Int /\ (c.looping - 1) + 1 = c.looping
    BY <1>1, <1>3
  <2>2. ((c.looping - 1) + 1) * a = a + (c.looping - 1) * a
    BY <2>1, OneMore, Zenon
  <2> QED
    BY <2>1, <2>2
<1>9. /\ c.looping = 1 => (c.looping - 1) * a = 0
      /\ (c.looping - 1) * a \in Int
  <2>1. a \in Int /\ c.looping - 1 \in Int /\ (c.looping = 1 => c.looping - 1 = 0)
    BY <1>1, <1>3
  <2> QED
    BY <2>1, OneMore, Zenon
<1> DEFINE all == c.looping * a
           rest == (c.looping - 1) * a
<1>10. /\ rest \in Int /\ all = a + rest /\ (c.looping = 1 => rest = 0)
       /\ c.looping * Alen[c.chunk] = all
       /\ c.looping > 0 => d.looping * Alen[d.chunk] = rest
  BY <1>3, <1>7, <1>8, <1>9 DEF l, a
<1> HIDE DEF all, rest
<1>11. Sound(c) => Sound(d)
  BY <1>1, <1>3, <1>7, <1>10 DEF Sound, l, a
<1>12. Onward(c, d)
  BY <1>1, <1>3, <1>7, <1>10 DEF Onward, Remaining, l, a
<1> QED
  BY <1>1, <1>7, <1>11, <1>12 DEF IsPlaying, a

\* The next pass begins and n frames of it fill the stream.
LEMMA RefillTurn ==
    ASSUME NEW c \in Channel, c.chunk \in Chunks, c.looping # 0, c.playing = 0,
           NEW n \in 1 .. Alen[c.chunk], n = Alen[c.chunk] => n < Len, NEW d,
           d = Mixed([LoopTaken(c) EXCEPT !.pos = 0, !.playing = Alen[c.chunk]], n)
    PROVE  /\ d \in Channel /\ d.playing = Alen[c.chunk] - n
           /\ Advanced(c, d)
<1> DEFINE e == [LoopTaken(c) EXCEPT !.pos = 0, !.playing = Alen[c.chunk]]
<1>1. /\ e \in Channel /\ e.playing = Alen[c.chunk] /\ e.playing \in Nat \ {0}
      /\ e.chunk = c.chunk /\ IsPlaying(c) /\ (Sound(c) => Sound(e))
      /\ Untimed(c, e) /\ e.owed = c.owed /\ e.expire = c.expire
      /\ e.effects = c.effects /\ Onward(c, e)
  BY RewoundTurn
<1>2. d = Mixed(e, n)
  OBVIOUS
<1> HIDE DEF e
<1>3. /\ e.pos \in Nat /\ e.left \in Int /\ e.looping \in Int
      /\ n \in 1 .. e.playing /\ Alen[e.chunk] \in Nat
  BY <1>1, ChunkAssumption DEF Channel
<1>4. /\ d \in Channel /\ d.chunk = e.chunk /\ d.looping = e.looping
      /\ d.pos = e.pos + n /\ d.playing = e.playing - n
      /\ d.left = IF e.left < 0 THEN e.left ELSE e.left - n
      /\ Untimed(e, d) /\ d.owed = e.owed /\ d.expire = e.expire
      /\ d.effects = e.effects
  BY <1>1, <1>2, MixedType, MixedFields
<1>5. Sound(e) => Sound(d)
  BY <1>1, <1>3, <1>4 DEF Sound
<1>6. IsPlaying(d) \/ Alen[c.chunk] < Len
  BY <1>1, <1>4 DEF IsPlaying
<1>7. Onward(c, d)
  <2> DEFINE rest == IF e.looping > 0 THEN e.looping * Alen[e.chunk] ELSE 0
  <2>1. rest \in Int
    BY <1>3, OneMore
  <2>2. /\ Remaining(e) = IF e.looping < 0 THEN -1 ELSE e.playing + rest
        /\ Remaining(d) = IF e.looping < 0 THEN -1 ELSE (e.playing - n) + rest
    BY <1>4 DEF Remaining
  <2>3. Remaining(c) \in Int
    <3>1. c.looping \in Int /\ c.playing \in Int /\ Alen[c.chunk] \in Int
      BY ChunkAssumption DEF Channel
    <3> QED
      BY <3>1 DEF Remaining
  <2> HIDE DEF rest
  <2> QED
    BY <1>1, <1>3, <1>4, <2>1, <2>2, <2>3 DEF Onward
<1> QED
  BY <1>1, <1>4, <1>5, <1>6, <1>7 DEF Advanced, Untimed
(***************************************************************************)
(* What the operations on one channel do to its volume and its clock.      *)
(***************************************************************************)

\* The volume and the fade are left as they are.
Levels(c, d) ==
    /\ d.volume = c.volume /\ d.wanted = c.wanted /\ d.fading = c.fading
    /\ d.fade_volume = c.fade_volume /\ d.fade_volume_reset = c.fade_volume_reset
    /\ d.fade_length = c.fade_length /\ d.ticks_fade = c.ticks_fade

\* All but the volume, which is kept or is the one now wanted.
Tuned(c, d) ==
    /\ \/ d.volume = c.volume /\ d.wanted = c.wanted
       \/ d.volume = d.wanted
    /\ d.fading = c.fading /\ d.fade_volume_reset = c.fade_volume_reset

\* The pause and the limit are left as they are.
Clock(c, d) == d.paused = c.paused /\ d.expire = c.expire /\ d.due = c.due

LEMMA DonePlayingLevels ==
    ASSUME NEW c \in Channel
    PROVE  Levels(c, DonePlaying(c)) /\ Clock(c, DonePlaying(c))
  BY DEF DonePlaying, Channel, Levels, Clock

LEMMA SilencedLevels ==
    ASSUME NEW c \in Channel
    PROVE  Levels(c, Silenced(c)) /\ Clock(c, Silenced(c))
  BY DEF Silenced, Channel, Levels, Clock

LEMMA WithTimerLevels ==
    ASSUME NEW c \in Channel, NEW t \in Nat
    PROVE  /\ Levels(c, WithTimer(c, t)) /\ WithTimer(c, t).paused = c.paused
           /\ WithTimer(c, t).expire = t /\ WithTimer(c, t).due = t
  BY DEF WithTimer, Channel, Levels

LEMMA WithVolumeLevels ==
    ASSUME NEW c \in Channel, NEW v \in Int
    PROVE  Tuned(c, WithVolume(c, v)) /\ Clock(c, WithVolume(c, v))
  BY DEF WithVolume, Channel, Tuned, Clock

LEMMA QueuedLevels ==
    ASSUME NEW c \in Channel, NEW k \in Chunks, NEW loops \in Int
    PROVE  /\ Levels(c, Queued(c, k, loops)) /\ Queued(c, k, loops).paused = 0
           /\ IsPlaying(Queued(c, k, loops))
<1> DEFINE e == IF IsPlaying(c) THEN DonePlaying(c) ELSE c
           left == IF loops < 0 THEN -1 ELSE (loops + 1) * Alen[k]
           d == Queued(c, k, loops)
<1>1. e \in Channel /\ Levels(c, e)
  BY DonePlayingType, DonePlayingLevels DEF Levels
<1>2. d = [e EXCEPT !.chunk = k, !.pos = 0, !.playing = Alen[k], !.looping = loops,
                    !.paused = 0, !.owed = @ + 1, !.left = left]
  BY DEF Queued
<1> HIDE DEF e, left, d
<1>3. Levels(e, d) /\ d.paused = 0 /\ d.playing = Alen[k]
  BY <1>1, <1>2 DEF Channel, Levels
<1>4. Alen[k] > 0
  BY ChunkAssumption
<1> QED
  BY <1>1, <1>3, <1>4 DEF Levels, IsPlaying, d

LEMMA PlayedLevels ==
    ASSUME now \in Nat, NEW c \in Channel, NEW k \in Chunks, NEW loops \in Int,
           NEW ticks \in Int, NEW v \in Int, NEW d, d = Played(c, k, loops, ticks, v)
    PROVE  /\ d.fading = "no" /\ IsPlaying(d)
           /\ d.volume = d.wanted \/ (d.volume = c.volume /\ d.wanted = c.wanted)
           /\ d.paused = 0 /\ d.expire = d.due
<1> DEFINE q == Queued(c, k, loops)
           f == [q EXCEPT !.fading = "no"]
           w == WithTimer(f, Deadline(ticks))
<1>1. q \in Channel /\ Levels(c, q) /\ q.paused = 0 /\ IsPlaying(q)
  BY QueuedType, QueuedLevels
<1> HIDE DEF q
<1>2. f \in Channel
  BY <1>1, Zeros, Zenon DEF Channel
<1>3. /\ f.fading = "no" /\ f.volume = q.volume /\ f.wanted = q.wanted
      /\ f.paused = 0 /\ IsPlaying(f)
  BY <1>1 DEF Channel, IsPlaying
<1> HIDE DEF f
<1>4. /\ w \in Channel /\ Levels(f, w) /\ w.paused = f.paused /\ Same(f, w)
      /\ w.expire = w.due
  BY <1>2, DeadlineType, WithTimerType, WithTimerLevels, WithTimerFields, ZenonT(60)
<1>5. d = WithVolume(w, v)
  BY DEF Played, q, f
<1> HIDE DEF w
<1>6. Tuned(w, d) /\ Clock(w, d) /\ Same(w, d)
  BY <1>4, <1>5, WithVolumeLevels, WithVolumeFields
<1> QED
  BY <1>1, <1>3, <1>4, <1>6 DEF Levels, Tuned, Clock, Same, IsPlaying

LEMMA FadedInLevels ==
    ASSUME now \in 0 .. LastTick, NEW c \in Channel, NEW k \in Chunks,
           NEW loops \in Int, NEW ms \in Nat, NEW ticks \in Int, NEW v \in Int,
           NEW d, d = FadedIn(c, k, loops, ms, ticks, v)
    PROVE  /\ d.fading = "in" /\ IsPlaying(d)
           /\ c.fading # "no" => d.fade_volume_reset = c.fade_volume_reset
           /\ c.fading = "no" =>
                \/ d.fade_volume_reset = d.wanted
                \/ d.fade_volume_reset = c.volume /\ d.wanted = c.wanted
           /\ d.paused = 0 /\ d.expire = d.due
<1> DEFINE p == Queued(c, k, loops)
           t == WithTimer(p, Deadline(ticks))
           q == WithVolume(t, v)
           r == IF q.fading = "no" THEN q.volume ELSE q.fade_volume_reset
<1>1. p \in Channel /\ Levels(c, p) /\ p.paused = 0 /\ IsPlaying(p)
  BY QueuedType, QueuedLevels
<1>2. Deadline(ticks) \in Nat
  BY ClockAssumption, DeadlineType
<1> HIDE DEF p
<1>3. /\ t \in Channel /\ Levels(p, t) /\ t.paused = 0 /\ Same(p, t)
      /\ t.expire = t.due
  BY <1>1, <1>2, WithTimerType, WithTimerLevels, WithTimerFields, ZenonT(60)
<1>4. d = [q EXCEPT !.fade_volume_reset = r, !.fading = "in", !.fade_volume = q.volume,
                    !.volume = 0, !.fade_length = ms, !.ticks_fade = now]
  BY DEF FadedIn, p
<1> HIDE DEF t
<1>5. q \in Channel /\ Tuned(t, q) /\ Clock(t, q) /\ Same(t, q)
  BY <1>3, WithVolumeType, WithVolumeLevels, WithVolumeFields
<1> HIDE DEF q, r
<1>6. /\ Same(q, d) /\ Clock(q, d) /\ d.fading = "in" /\ d.fade_volume_reset = r
      /\ d.wanted = q.wanted
  BY <1>4, <1>5 DEF Channel, Same, Clock
<1>7. IsPlaying(d) /\ d.paused = 0 /\ d.expire = d.due
  BY <1>1, <1>3, <1>5, <1>6 DEF Same, IsPlaying, Clock
<1>8. /\ q.fading = c.fading
      /\ q.fade_volume_reset = c.fade_volume_reset
      /\ q.volume = q.wanted \/ (q.volume = c.volume /\ q.wanted = c.wanted)
  BY <1>1, <1>3, <1>5 DEF Levels, Tuned
<1> QED
  BY <1>6, <1>7, <1>8 DEF r

LEMMA FadedOutLevels ==
    ASSUME now \in 0 .. LastTick, NEW c \in Channel, NEW ms \in Nat,
           NEW d, d = FadedOut(c, ms)
    PROVE  /\ d.fading = "out" /\ d.volume = c.volume /\ d.wanted = c.wanted
           /\ d.fade_volume = c.volume /\ d.fade_length = ms /\ d.ticks_fade = now
           /\ d.fade_volume_reset = IF c.fading = "no" THEN c.volume
                                                       ELSE c.fade_volume_reset
           /\ Clock(c, d) /\ Same(c, d)
  BY DEF FadedOut, Channel, Clock, Same

LEMMA HaltedLevels ==
    ASSUME NEW c \in Channel
    PROVE  /\ Halted(c).fading = "no" /\ Halted(c).wanted = c.wanted
           /\ Halted(c).volume = IF c.fading = "no" THEN c.volume ELSE c.fade_volume_reset
           /\ Halted(c).paused = c.paused /\ ~IsPlaying(Halted(c))
<1> DEFINE h == IF IsPlaying(c) THEN DonePlaying(Silenced(c)) ELSE c
           s == WithTimer(h, 0)
           v == IF s.fading = "no" THEN s.volume ELSE s.fade_volume_reset
<1>1. h \in Channel /\ s \in Channel
  BY Zeros, SilencedType, DonePlayingType, WithTimerType
<1>2. Levels(c, h) /\ h.paused = c.paused
  BY SilencedType, SilencedLevels, DonePlayingLevels DEF Levels, Clock
<1>3. Levels(h, s) /\ s.paused = h.paused
  BY <1>1, Zeros, WithTimerLevels
<1>4. Halted(c) = [s EXCEPT !.volume = v, !.fading = "no"]
  BY DEF Halted
<1> HIDE DEF v, s, h
<1>5. /\ Halted(c).fading = "no" /\ Halted(c).wanted = s.wanted /\ Halted(c).volume = v
      /\ Halted(c).paused = s.paused
  BY <1>1, <1>4 DEF Channel
<1>6. ~IsPlaying(Halted(c))
  BY HaltedFields DEF Stopped, Same, IsPlaying
<1> QED
  BY <1>2, <1>3, <1>5, <1>6 DEF v, Levels

\* The fade ends with a sound that is cut off: by its limit, or by its end.
Cut(c, d) ==
    /\ d.fading = "no" /\ d.volume = c.volume /\ d.wanted = c.wanted
    /\ c.expire > 0 \/ c.looping = 0

\* It ends, and gives back the volume it was to restore.
Restored(c, d) ==
    /\ d.fading = "no" /\ d.wanted = c.wanted
    /\ d.volume = IF c.fading = "no" THEN c.volume ELSE c.fade_volume_reset

\* It goes on: the volume is the part of the whole that belongs to the tick.
Scaled(c, ticks) == (c.fade_volume * (c.fade_length - ticks)) \div c.fade_length
Faded(c, d, t) ==
    LET ticks == Elapsed(t, c.ticks_fade)
    IN  /\ c.fading # "no" /\ ticks < c.fade_length
        /\ c.fading = "out" => d.volume = Clamped(Scaled(c, ticks))
        /\ d.wanted = c.wanted /\ d.fading = c.fading
        /\ d.fade_volume = c.fade_volume /\ d.fade_volume_reset = c.fade_volume_reset
        /\ d.fade_length = c.fade_length /\ d.ticks_fade = c.ticks_fade

LEMMA CutLevels ==
    ASSUME NEW c \in Channel, NEW m \in Channel,
           m.volume = c.volume, m.wanted = c.wanted, m.paused = c.paused,
           m.playing = 0, m.looping = 0, NEW d,
           d = DonePlaying(WithTimer([m EXCEPT !.fading = "no"], 0))
    PROVE  /\ d.fading = "no" /\ d.volume = c.volume /\ d.wanted = c.wanted
           /\ d.paused = c.paused /\ ~IsPlaying(d)
<1> DEFINE f == [m EXCEPT !.fading = "no"]
           w == WithTimer(f, 0)
<1>1. f \in Channel
  BY Zeros, Zenon DEF Channel
<1>2. /\ f.fading = "no" /\ f.volume = c.volume /\ f.wanted = c.wanted
      /\ f.paused = c.paused /\ f.playing = 0 /\ f.looping = 0
  BY DEF Channel
<1> HIDE DEF f
<1>3. w \in Channel /\ Levels(f, w) /\ w.paused = f.paused /\ Same(f, w)
  BY <1>1, Zeros, WithTimerType, WithTimerLevels, WithTimerFields
<1>4. d = DonePlaying(w)
  BY DEF f
<1> HIDE DEF w
<1>5. Levels(w, d) /\ Clock(w, d) /\ Same(w, d)
  BY <1>3, <1>4, DonePlayingLevels, DonePlayingFields
<1> QED
  BY <1>2, <1>3, <1>5 DEF Levels, Same, Clock, IsPlaying

LEMMA TimedLevels ==
    ASSUME NEW c \in Channel, NEW t \in 0 .. LastTick, NEW d, d = Timed(c, t)
    PROVE  /\ Levels(c, d) \/ Cut(c, d) \/ Restored(c, d) \/ Faded(c, d, t)
           /\ \/ Clock(c, d) /\ (IsPlaying(d) => IsPlaying(c))
              \/ ~IsPlaying(d) /\ d.paused = c.paused
<1> DEFINE ticks == Elapsed(t, c.ticks_fade)
<1>1. CASE Overdue(c, t)
  <2> DEFINE s == Silenced(c)
  <2>1. s \in Channel /\ Levels(c, s) /\ Clock(c, s) /\ Stopped(c, s)
    BY SilencedType, SilencedLevels, SilencedFields
  <2>2. d = DonePlaying(WithTimer([s EXCEPT !.fading = "no"], 0))
    BY <1>1 DEF Timed, Expired
  <2> HIDE DEF s
  <2>3. /\ d.fading = "no" /\ d.volume = c.volume /\ d.wanted = c.wanted
        /\ d.paused = c.paused /\ ~IsPlaying(d)
    BY <2>1, <2>2, CutLevels DEF Levels, Clock, Stopped
  <2> QED
    BY <1>1, <2>3 DEF Cut, Overdue
<1>2. CASE ~Overdue(c, t) /\ c.fading = "no"
  BY <1>2 DEF Timed, Levels, Clock
<1>3. CASE ~Overdue(c, t) /\ c.fading # "no" /\ ticks >= c.fade_length
  <2> DEFINE v == [c EXCEPT !.volume = c.fade_volume_reset]
             w == WithTimer(Silenced(v), 0)
             s == IF c.fading = "out" THEN DonePlaying(w) ELSE v
  <2>1. /\ v \in Channel /\ v.volume = c.fade_volume_reset /\ v.wanted = c.wanted
        /\ Clock(c, v) /\ Same(c, v)
    BY DEF Channel, Same, Clock
  <2> HIDE DEF v
  <2>2. /\ w \in Channel /\ Levels(v, w) /\ w.paused = v.paused /\ ~IsPlaying(w)
    <3> DEFINE x == Silenced(v)
    <3>1. x \in Channel /\ Stopped(v, x) /\ Levels(v, x) /\ Clock(v, x)
      BY <2>1, SilencedType, SilencedFields, SilencedLevels
    <3> HIDE DEF x
    <3>2. /\ WithTimer(x, 0) \in Channel /\ Same(x, WithTimer(x, 0))
          /\ Levels(x, WithTimer(x, 0)) /\ WithTimer(x, 0).paused = x.paused
      BY <3>1, Zeros, WithTimerType, WithTimerFields, WithTimerLevels
    <3>3. w = WithTimer(x, 0)
      BY DEF x
    <3> QED
      BY <3>1, <3>2, <3>3 DEF Same, Stopped, Levels, Clock, IsPlaying
  <2> HIDE DEF w
  <2>3. /\ s \in Channel /\ Levels(v, s)
        /\ (Clock(v, s) /\ Same(v, s)) \/ (~IsPlaying(s) /\ s.paused = v.paused)
    BY <2>1, <2>2, DonePlayingType, DonePlayingFields, DonePlayingLevels
       DEF Same, Levels, Clock, IsPlaying
  <2>4. d = [s EXCEPT !.fading = "no"]
    BY <1>3 DEF Timed, FadeFinished, s, v, w
  <2> HIDE DEF s
  <2>5. /\ Same(s, d) /\ Clock(s, d) /\ d.fading = "no" /\ d.volume = s.volume
        /\ d.wanted = s.wanted
    BY <2>3, <2>4 DEF Channel, Same, Clock
  <2>6. Restored(c, d)
    BY <1>3, <2>1, <2>3, <2>5 DEF Restored, Levels
  <2>7. \/ Clock(c, d) /\ (IsPlaying(d) => IsPlaying(c))
        \/ ~IsPlaying(d) /\ d.paused = c.paused
    BY <2>1, <2>3, <2>5 DEF Same, Clock, IsPlaying
  <2> QED
    BY <2>6, <2>7
<1>4. CASE ~Overdue(c, t) /\ c.fading # "no" /\ ~(ticks >= c.fade_length)
  <2>1. d = FadeStep(c, ticks)
    BY <1>4 DEF Timed
  <2> DEFINE v == Clamped((c.fade_volume * (IF c.fading = "out" THEN c.fade_length - ticks
                                                                ELSE ticks))
                            \div c.fade_length)
  <2>2. d = [c EXCEPT !.volume = v]
    BY <2>1 DEF FadeStep
  <2>3. c.fading = "out" => v = Clamped(Scaled(c, ticks))
    BY DEF Scaled
  <2>4. ticks < c.fade_length
    <3>1. ticks \in Nat /\ c.fade_length \in Nat
      BY ElapsedType DEF Channel
    <3> QED
      BY <1>4, <3>1
  <2> HIDE DEF v, ticks
  <2>5. /\ d.volume = v /\ d.wanted = c.wanted /\ d.fading = c.fading
        /\ d.fade_volume = c.fade_volume /\ d.fade_volume_reset = c.fade_volume_reset
        /\ d.fade_length = c.fade_length /\ d.ticks_fade = c.ticks_fade
        /\ Clock(c, d) /\ Same(c, d)
    BY <2>2 DEF Channel, Same, Clock
  <2>6. Faded(c, d, t)
    BY <1>4, <2>3, <2>4, <2>5 DEF Faded, ticks
  <2> QED
    BY <2>5, <2>6 DEF Same, IsPlaying
<1> QED
  BY <1>1, <1>2, <1>3, <1>4

LEMMA MixedLevels ==
    ASSUME NEW c \in Channel, NEW n \in 1 .. c.playing
    PROVE  Levels(c, Mixed(c, n)) /\ Clock(c, Mixed(c, n))
<1> DEFINE l == IF c.left < 0 THEN c.left ELSE c.left - n
           p == c.pos + n
           r == c.playing - n
           d == Mixed(c, n)
<1>1. d = [c EXCEPT !.pos = p, !.playing = r, !.left = l]
  BY DEF Mixed
<1> HIDE DEF l, p, r, d
<1>2. Levels(c, d) /\ Clock(c, d)
  BY <1>1 DEF Channel, Levels, Clock
<1> QED
  BY <1>2 DEF d

LEMMA DataLevels ==
    ASSUME NEW c \in Channel, NEW n \in 1 .. c.playing,
           NEW d, d = IF Mixed(c, n).playing = 0 /\ Mixed(c, n).looping = 0
                        THEN DonePlaying(WithTimer([Mixed(c, n) EXCEPT !.fading = "no"], 0))
                        ELSE Mixed(c, n)
    PROVE  /\ Levels(c, d) \/ Cut(c, d)
           /\ \/ Clock(c, d) /\ (IsPlaying(d) => IsPlaying(c))
              \/ ~IsPlaying(d) /\ d.paused = c.paused
<1> DEFINE m == Mixed(c, n)
<1>1. /\ m \in Channel /\ Levels(c, m) /\ Clock(c, m) /\ m.looping = c.looping
  <2>1. n \in 0 .. c.playing
    BY DEF Channel
  <2> QED
    BY <2>1, MixedType, MixedLevels, MixedFields
<1>2. IsPlaying(c)
  BY DEF IsPlaying, Channel
<1>3. CASE ~(m.playing = 0 /\ m.looping = 0)
  BY <1>1, <1>2, <1>3
<1>4. CASE m.playing = 0 /\ m.looping = 0
  <2> HIDE DEF m
  <2>1. d = DonePlaying(WithTimer([m EXCEPT !.fading = "no"], 0))
    BY <1>4 DEF m
  <2>2. /\ d.fading = "no" /\ d.volume = c.volume /\ d.wanted = c.wanted
        /\ d.paused = c.paused /\ ~IsPlaying(d)
    BY <1>1, <1>4, <2>1, CutLevels DEF Levels, Clock
  <2> QED
    BY <1>1, <1>4, <2>2 DEF Cut
<1> QED
  BY <1>3, <1>4

LEMMA RewoundLevels ==
    ASSUME NEW c \in Channel, c.chunk \in Chunks,
           NEW d, d = [LoopTaken(c) EXCEPT !.pos = 0, !.playing = Alen[c.chunk]]
    PROVE  /\ Levels(c, d) /\ Clock(c, d) /\ d \in Channel
<1> DEFINE l == IF c.looping > 0 THEN c.looping - 1 ELSE c.looping
           a == Alen[c.chunk]
           e == LoopTaken(c)
<1>1. e = [c EXCEPT !.looping = l] /\ e \in Channel
  BY LoopTakenType DEF LoopTaken
<1>2. a \in Nat /\ 0 \in Nat
  BY ChunkAssumption
<1>3. d = [e EXCEPT !.pos = 0, !.playing = a]
  OBVIOUS
<1> HIDE DEF l, e, a
<1>4. Levels(c, e) /\ Clock(c, e)
  BY <1>1 DEF Channel, Levels, Clock
<1>5. Levels(e, d) /\ Clock(e, d)
  BY <1>1, <1>3 DEF Channel, Levels, Clock
<1>6. d \in Channel
  BY <1>1, <1>2, <1>3, ZenonT(40) DEF Channel
<1> QED
  BY <1>4, <1>5, <1>6 DEF Levels, Clock

LEMMA RefillLevels ==
    ASSUME NEW c \in Channel, c.chunk \in Chunks, NEW n \in 1 .. Alen[c.chunk],
           NEW d, d = Mixed([LoopTaken(c) EXCEPT !.pos = 0, !.playing = Alen[c.chunk]], n)
    PROVE  Levels(c, d) /\ Clock(c, d)
<1> DEFINE e == [LoopTaken(c) EXCEPT !.pos = 0, !.playing = Alen[c.chunk]]
<1>1. Levels(c, e) /\ Clock(c, e) /\ e \in Channel
  BY RewoundLevels
<1>2. e.playing = Alen[c.chunk]
  BY LoopTakenType DEF Channel
<1>3. d = Mixed(e, n)
  OBVIOUS
<1> HIDE DEF e
<1>4. Levels(e, d) /\ Clock(e, d)
  BY <1>1, <1>2, <1>3, MixedLevels
<1> QED
  BY <1>1, <1>4 DEF Levels, Clock

-----------------------------------------------------------------------------
(* The actions.                                                             *)

\* What each action is shown to do.
Good ==
    /\ TypeOK'
    /\ Located'
    /\ \A i \in Ids : Turn(ch[i], ch'[i])

\* A channel whose sound goes on at the same place: all that may happen while the
\* callback is at work.
SameSounds == \A i \in Ids : Same(ch[i], ch'[i])

LEMMA LoadedKept ==
    ASSUME Located, \A i \in Ids : Turn(ch[i], ch'[i])
    PROVE  PlayingLoaded'
<1> SUFFICES ASSUME NEW i \in Ids, IsPlaying(ch'[i]) PROVE ch'[i].chunk \in Chunks
  BY DEF PlayingLoaded, IsPlaying
<1>1. IsPlaying(ch[i]) => ch[i].chunk \in Chunks
  BY DEF Located, PlayingLoaded
<1>2. Turn(ch[i], ch'[i])
  OBVIOUS
<1> QED
  BY <1>1, <1>2
    DEF Turn, Kept, Ended, Began, Emptied, Advanced, Fresh, Same, IsPlaying

LEMMA LocatedKept ==
    ASSUME TypeOK, Located, UNCHANGED <<mx, num_channels>>,
           \A i \in Ids : Turn(ch[i], ch'[i]),
           mx.pc = "idle" \/ SameSounds
    PROVE  CallbackLocated' /\ PlayingLoaded'
<1>1. PlayingLoaded'
  BY LoadedKept
<1>2. CallbackLocated'
  <2>1. CASE mx.pc = "idle"
    BY <2>1 DEF CallbackLocated
  <2>2. CASE mx.pc # "idle" /\ SameSounds
    <3>1. mx.i \in Int /\ mx.i >= 0 /\ num_channels <= MaxChannels /\ num_channels \in Int
      BY DEF TypeOK, Callback
    <3>2. mx.pc \in {"data", "refill"} => mx.i \in Ids
      BY <3>1, ChannelAssumption DEF Ids, Located, CallbackLocated
    <3>3. mx.pc \in {"data", "refill"} => ch'[mx.i].playing = ch[mx.i].playing
      BY <2>2, <3>2 DEF SameSounds, Same
    <3> QED
      BY <3>3 DEF Located, CallbackLocated
  <2> QED
    BY <2>1, <2>2
<1> QED
  BY <1>1, <1>2

\* One channel is changed by a call that leaves everything else alone.
LEMMA OneChannelGood ==
    ASSUME TypeOK, Located,
           UNCHANGED <<num_channels, reserved_channels, mx, app, now, freed>>,
           NEW j \in Ids, NEW d \in Channel, ch' = [ch EXCEPT ![j] = d],
           Turn(ch[j], d), mx.pc = "idle" \/ Same(ch[j], d)
    PROVE  Good
<1>1. ch \in [Ids -> Channel]
  BY DEF TypeOK
<1>2. ch' \in [Ids -> Channel] /\ \A i \in Ids : ch'[i] = IF i = j THEN d ELSE ch[i]
  BY <1>1
<1>3. \A i \in Ids : Turn(ch[i], ch'[i])
  BY <1>2, KeptItself DEF Turn
<1>4. mx.pc = "idle" \/ SameSounds
  BY <1>2 DEF SameSounds, Same
<1>5. TypeOK'
  BY <1>2 DEF TypeOK
<1>6. CallLocated'
  BY DEF Located, CallLocated
<1> QED
  BY <1>3, <1>4, <1>5, <1>6, LocatedKept DEF Good, Located

LEMMA TypesHere ==
    ASSUME TypeOK
    PROVE  /\ ch \in [Ids -> Channel] /\ now \in 0 .. LastTick /\ now \in Nat
           /\ Allocated \subseteq Ids
           /\ app.ticks \in 0 .. LastTick /\ mx.ticks \in 0 .. LastTick
  BY ClockAssumption, ChannelAssumption DEF TypeOK, Allocated, Ids, Call, Callback

-----------------------------------------------------------------------------
(* The calls that change one channel.                                       *)

LEMMA PlayGood ==
    ASSUME TypeOK, Located, NEW which \in Allocated \cup {-1}, NEW k \in Chunks,
           NEW loops \in Loops, NEW ticks \in Timers, NEW v \in Volumes,
           Mix_PlayChannelTimedVolume(which, k, loops, ticks, v)
    PROVE  Good
<1> DEFINE j == Target(which)
           d == Played(ch[j], k, loops, ticks, v)
<1>1. j \in Ids /\ ch[j] \in Channel
  BY TypesHere DEF Mix_PlayChannelTimedVolume
<1>2. mx.pc = "idle" /\ app.pc = "idle" /\ k \in Chunks \ freed
  BY DEF Mix_PlayChannelTimedVolume, Locked, Unlocked
<1>3. loops \in Int /\ ticks \in Int /\ v \in Int
  BY ArgumentAssumption
<1>4. ch' = [ch EXCEPT ![j] = d]
  BY DEF Mix_PlayChannelTimedVolume
<1>5. UNCHANGED <<num_channels, reserved_channels, mx, app, now, freed>>
  BY DEF Mix_PlayChannelTimedVolume
<1> HIDE DEF j
<1>6. d \in Channel
  BY <1>1, <1>3, TypesHere, PlayedType
<1>7. /\ Same(Queued(ch[j], k, loops), d) /\ d.owed = Queued(ch[j], k, loops).owed
      /\ d.effects = Queued(ch[j], k, loops).effects
      /\ d.fading = "no"
  BY <1>1, <1>3, TypesHere, PlayedFields
<1> HIDE DEF d
<1>8. Began(ch[j], d)
  BY <1>1, <1>2, <1>3, <1>7, QueuedTurn
<1> QED
  BY <1>1, <1>2, <1>4, <1>5, <1>6, <1>8, OneChannelGood DEF Turn

LEMMA FadeInGood ==
    ASSUME TypeOK, Located, NEW which \in Allocated \cup {-1}, NEW k \in Chunks,
           NEW loops \in Loops, NEW ms \in Fades, NEW ticks \in Timers,
           NEW v \in Volumes,
           Mix_FadeInChannelTimedVolume(which, k, loops, ms, ticks, v)
    PROVE  Good
<1> DEFINE j == Target(which)
           d == FadedIn(ch[j], k, loops, ms, ticks, v)
<1>1. j \in Ids /\ ch[j] \in Channel
  BY TypesHere DEF Mix_FadeInChannelTimedVolume
<1>2. mx.pc = "idle" /\ app.pc = "idle" /\ k \in Chunks \ freed
  BY DEF Mix_FadeInChannelTimedVolume, Locked, Unlocked
<1>3. loops \in Int /\ ms \in Nat /\ ticks \in Int /\ v \in Int
  BY ArgumentAssumption
<1>4. ch' = [ch EXCEPT ![j] = d]
  BY DEF Mix_FadeInChannelTimedVolume
<1>5. UNCHANGED <<num_channels, reserved_channels, mx, app, now, freed>>
  BY DEF Mix_FadeInChannelTimedVolume
<1> HIDE DEF j
<1>6. d \in Channel
  BY <1>1, <1>3, TypesHere, FadedInType
<1>7. /\ Same(Queued(ch[j], k, loops), d) /\ d.owed = Queued(ch[j], k, loops).owed
      /\ d.effects = Queued(ch[j], k, loops).effects
      /\ d.ticks_fade = now
  BY <1>1, <1>3, TypesHere, FadedInFields
<1> HIDE DEF d
<1>8. Began(ch[j], d)
  BY <1>1, <1>2, <1>3, <1>7, QueuedTurn
<1> QED
  BY <1>1, <1>2, <1>4, <1>5, <1>6, <1>8, OneChannelGood DEF Turn

LEMMA FadeOutGood ==
    ASSUME TypeOK, Located, NEW i \in Allocated, NEW ms \in Fades,
           Mix_FadeOutChannel(i, ms)
    PROVE  Good
<1> DEFINE d == FadedOut(ch[i], ms)
<1>1. i \in Ids /\ ch[i] \in Channel /\ ms \in Nat
  BY TypesHere, ArgumentAssumption
<1>2. d \in Channel
  BY <1>1, TypesHere, FadedOutType
<1>3. Same(ch[i], d) /\ d.owed = ch[i].owed /\ d.expire = ch[i].expire
      /\ d.ticks_fade = now
  BY <1>1, TypesHere, FadedOutFields
<1>4. mx.pc = "idle" /\ IsPlaying(ch[i])
  BY DEF Mix_FadeOutChannel, Locked
<1>5. /\ ch' = [ch EXCEPT ![i] = d]
      /\ UNCHANGED <<num_channels, reserved_channels, mx, app, now, freed>>
  BY DEF Mix_FadeOutChannel
<1> HIDE DEF d
<1>6. Kept(ch[i], d)
  BY <1>3, <1>4 DEF Kept
<1> QED
  BY <1>1, <1>2, <1>4, <1>5, <1>6, OneChannelGood DEF Turn

LEMMA ExpireGood ==
    ASSUME TypeOK, Located, NEW i \in Allocated, NEW ticks \in Timers,
           Mix_ExpireChannel(i, ticks)
    PROVE  Good
<1> DEFINE d == WithTimer(ch[i], Deadline(ticks))
<1>1. i \in Ids /\ ch[i] \in Channel /\ Deadline(ticks) \in Nat
  BY TypesHere, ArgumentAssumption, DeadlineType
<1>2. d \in Channel /\ Same(ch[i], d) /\ Untimed(ch[i], d) /\ d.owed = ch[i].owed
  BY <1>1, WithTimerType, WithTimerFields
<1>3. mx.pc = "idle" /\ "Expire" \in Calls
  BY DEF Mix_ExpireChannel, Locked, Unlocked
<1>4. /\ ch' = [ch EXCEPT ![i] = d]
      /\ UNCHANGED <<num_channels, reserved_channels, mx, app, now, freed>>
  BY DEF Mix_ExpireChannel
<1> HIDE DEF d
<1>5. Kept(ch[i], d)
  BY <1>2, <1>3 DEF Kept
<1> QED
  BY <1>1, <1>2, <1>3, <1>4, <1>5, OneChannelGood DEF Turn

LEMMA VolumeGood ==
    ASSUME TypeOK, Located, NEW i \in Allocated, NEW v \in Volumes,
           Mix_Volume(i, v)
    PROVE  Good
<1> DEFINE d == WithVolume(ch[i], v)
<1>1. i \in Ids /\ ch[i] \in Channel /\ v \in Int
  BY TypesHere, ArgumentAssumption
<1>2. /\ d \in Channel /\ Same(ch[i], d) /\ Untimed(ch[i], d)
      /\ d.owed = ch[i].owed /\ d.expire = ch[i].expire
  BY <1>1, WithVolumeType, WithVolumeFields
<1>3. /\ ch' = [ch EXCEPT ![i] = d]
      /\ UNCHANGED <<num_channels, reserved_channels, mx, app, now, freed>>
  BY DEF Mix_Volume
<1> HIDE DEF d
<1>4. Kept(ch[i], d)
  BY <1>2 DEF Kept
<1> QED
  BY <1>1, <1>2, <1>3, <1>4, OneChannelGood DEF Turn

\* Only the number of effects changes.
LEMMA EffectsKept ==
    ASSUME NEW c \in Channel, NEW e \in Nat
    PROVE  [c EXCEPT !.effects = e] \in Channel /\ Kept(c, [c EXCEPT !.effects = e])
  BY DEF Channel, Kept, Same, Untimed

LEMMA RegisterGood ==
    ASSUME TypeOK, Located, NEW i \in Allocated, Mix_RegisterEffect(i)
    PROVE  Good
<1> DEFINE e == ch[i].effects + 1
<1>1. i \in Ids /\ ch[i] \in Channel
  BY TypesHere
<1>2. e \in Nat
  BY <1>1 DEF Channel
<1>3. mx.pc = "idle"
  BY DEF Mix_RegisterEffect, Locked
<1>4. ch' = [ch EXCEPT ![i] = [ch[i] EXCEPT !.effects = e]]
  BY <1>1, TypesHere DEF Mix_RegisterEffect
<1>5. UNCHANGED <<num_channels, reserved_channels, mx, app, now, freed>>
  BY DEF Mix_RegisterEffect
<1> HIDE DEF e
<1> QED
  BY <1>1, <1>2, <1>3, <1>4, <1>5, EffectsKept, OneChannelGood DEF Turn

LEMMA UnregisterGood ==
    ASSUME TypeOK, Located, NEW i \in Allocated, Mix_UnregisterEffect(i)
    PROVE  Good
<1> DEFINE e == ch[i].effects - 1
<1>1. i \in Ids /\ ch[i] \in Channel
  BY TypesHere
<1>2. e \in Nat
  BY <1>1 DEF Channel, Mix_UnregisterEffect
<1>3. mx.pc = "idle"
  BY DEF Mix_UnregisterEffect, Locked
<1>4. ch' = [ch EXCEPT ![i] = [ch[i] EXCEPT !.effects = e]]
  BY <1>1, TypesHere DEF Mix_UnregisterEffect
<1>5. UNCHANGED <<num_channels, reserved_channels, mx, app, now, freed>>
  BY DEF Mix_UnregisterEffect
<1> HIDE DEF e
<1> QED
  BY <1>1, <1>2, <1>3, <1>4, <1>5, EffectsKept, OneChannelGood DEF Turn

-----------------------------------------------------------------------------
(* The calls that change several channels, or none.                         *)

\* Everything is left alone but what a call keeps for its next step.
LEMMA CallOnlyGood ==
    ASSUME TypeOK, Located, UNCHANGED <<ch, num_channels, mx, now>>,
           reserved_channels' \in 0 .. MaxChannels, freed' \subseteq Chunks,
           app' \in Call,
           CallLocated'
    PROVE  Good
<1>1. \A i \in Ids : Turn(ch[i], ch'[i])
  BY KeptItself DEF Turn
<1>2. SameSounds
  BY DEF SameSounds, Same
<1>3. TypeOK'
  BY DEF TypeOK
<1> QED
  BY <1>1, <1>2, <1>3, LocatedKept DEF Good, Located

\* The mixer does not run and the call changes channels, each by one turn.
LEMMA ManyChannelsGood ==
    ASSUME TypeOK, Located, mx.pc = "idle", mx' = mx,
           num_channels' \in 0 .. MaxChannels, now' = now,
           reserved_channels' = reserved_channels, freed' = freed,
           ch' \in [Ids -> Channel], \A i \in Ids : Turn(ch[i], ch'[i]),
           app' \in Call,
           CallLocated'
    PROVE  Good
<1>1. TypeOK'
  BY DEF TypeOK
<1>2. PlayingLoaded'
  BY LoadedKept
<1>3. CallbackLocated'
  BY DEF CallbackLocated
<1> QED
  BY <1>1, <1>2, <1>3 DEF Good, Located

LEMMA IdleType == Idle \in Call
  BY ChannelAssumption DEF Idle, Call

\* Some channels are halted, the others are left.
LEMMA HaltSome ==
    ASSUME TypeOK, NEW S \in SUBSET Ids,
           ch' = [i \in Ids |-> IF i \in S THEN Halted(ch[i]) ELSE ch[i]]
    PROVE  ch' \in [Ids -> Channel] /\ \A i \in Ids : Turn(ch[i], ch'[i])
<1> SUFFICES ASSUME NEW i \in Ids PROVE ch'[i] \in Channel /\ Turn(ch[i], ch'[i])
  OBVIOUS
<1>1. ch[i] \in Channel
  BY TypesHere
<1>2. /\ Halted(ch[i]) \in Channel
      /\ Kept(ch[i], Halted(ch[i])) \/ Ended(ch[i], Halted(ch[i]))
  BY <1>1, HaltedType, HaltedTurn
<1>3. ch'[i] = Halted(ch[i]) \/ ch'[i] = ch[i]
  OBVIOUS
<1> QED
  BY <1>1, <1>2, <1>3, KeptItself DEF Turn

LEMMA HaltGood ==
    ASSUME TypeOK, Located, NEW range \in Named, Mix_HaltChannel(range)
    PROVE  Good
<1> DEFINE S == {i \in Ids : i \in range[1] .. range[2] - 1}
<1>1. ch' = [i \in Ids |-> IF i \in S THEN Halted(ch[i]) ELSE ch[i]]
  BY DEF Mix_HaltChannel
<1> HIDE DEF S
<1>2. ch' \in [Ids -> Channel] /\ \A i \in Ids : Turn(ch[i], ch'[i])
  BY <1>1, HaltSome DEF S
<1>3. /\ mx.pc = "idle"
      /\ UNCHANGED <<num_channels, reserved_channels, mx, app, now, freed>>
  BY DEF Mix_HaltChannel, Locked
<1>4. app' = app /\ CallLocated' /\ num_channels' \in 0 .. MaxChannels
  BY <1>3 DEF Located, CallLocated, TypeOK
<1> QED
  BY <1>2, <1>3, <1>4, ManyChannelsGood DEF TypeOK

LEMMA FreeChunkHaltGood ==
    ASSUME TypeOK, Located, NEW k \in Chunks, FreeChunkHalt(k)
    PROVE  Good
<1> DEFINE S == {i \in Ids : i < num_channels /\ ch[i].chunk = k}
<1>1. ch' = [i \in Ids |-> IF i \in S THEN Halted(ch[i]) ELSE ch[i]]
  BY DEF FreeChunkHalt
<1> HIDE DEF S
<1>2. ch' \in [Ids -> Channel] /\ \A i \in Ids : Turn(ch[i], ch'[i])
  BY <1>1, HaltSome DEF S
<1>3. /\ mx.pc = "idle" /\ app' = [Idle EXCEPT !.pc = "free", !.chunk = k]
      /\ UNCHANGED <<num_channels, reserved_channels, mx, now, freed>>
  BY DEF FreeChunkHalt, Locked
<1>4. app' = [pc |-> "free", i |-> 0, n |-> 0, chunk |-> k, ticks |-> 0]
  BY <1>3 DEF Idle
<1>5. app' \in Call /\ app'.pc = "free" /\ app'.chunk = k
  BY <1>4, ChannelAssumption DEF Call
<1>6. CallLocated' /\ num_channels' \in 0 .. MaxChannels
  BY <1>3, <1>5 DEF CallLocated, TypeOK
<1> QED
  BY <1>2, <1>3, <1>5, <1>6, ManyChannelsGood

LEMMA LoadGood ==
    ASSUME TypeOK, Located, NEW k \in Chunks, Mix_LoadWAV(k) PROVE Good
<1>1. /\ UNCHANGED <<ch, num_channels, reserved_channels, mx, app, now>>
      /\ freed' = freed \ {k}
  BY DEF Mix_LoadWAV
<1>2. CallLocated'
  BY <1>1 DEF Located, CallLocated
<1> QED
  BY <1>1, <1>2, CallOnlyGood DEF TypeOK

LEMMA ReserveGood ==
    ASSUME TypeOK, Located, NEW n \in 0 .. MaxChannels, Mix_ReserveChannels(n)
    PROVE  Good
<1>1. /\ UNCHANGED <<ch, num_channels, mx, app, now, freed>>
      /\ reserved_channels' = CASE n < 0 -> 0
                                [] n > num_channels -> num_channels
                                [] OTHER -> n
  BY DEF Mix_ReserveChannels
<1>2. reserved_channels' = num_channels \/ reserved_channels' = n
  BY <1>1
<1>3. reserved_channels' \in 0 .. MaxChannels
  BY <1>2 DEF TypeOK
<1>4. CallLocated'
  BY <1>1 DEF Located, CallLocated
<1> QED
  BY <1>1, <1>3, <1>4, CallOnlyGood DEF TypeOK

\* A call that reads the clock and then visits the channels of a range.
LEMMA RangeGood ==
    ASSUME TypeOK, Located, NEW range \in Named, Mix_Pause(range) \/ Mix_Resume(range)
    PROVE  Good
<1>1. range[2] \in Nat /\ range[2] <= num_channels /\ range[1] \in 0 .. num_channels
  BY DEF Named, Allocated, TypeOK
<1>2. num_channels \in 0 .. MaxChannels /\ now \in FirstTick .. LastTick
  BY DEF TypeOK
<1>3. \E pc \in {"pausing", "resuming"} :
        app' = [Idle EXCEPT !.pc = pc, !.i = range[1], !.n = range[2], !.ticks = now]
  BY DEF Mix_Pause, Mix_Resume
<1>4. UNCHANGED <<ch, num_channels, reserved_channels, mx, now, freed>>
  BY DEF Mix_Pause, Mix_Resume
<1>5. \E pc \in {"pausing", "resuming"} :
        app' = [pc |-> pc, i |-> range[1], n |-> range[2], chunk |-> NoChunk,
                ticks |-> now]
  BY <1>3 DEF Idle
<1>6. range[1] \in 0 .. MaxChannels /\ range[2] \in 0 .. MaxChannels
  BY <1>1, <1>2, ChannelAssumption
<1>7. app' \in Call /\ app'.pc \in {"pausing", "resuming"} /\ app'.n = range[2]
  BY <1>2, <1>5, <1>6 DEF Call
<1>8. CallLocated'
  BY <1>1, <1>4, <1>7 DEF CallLocated
<1> QED
  BY <1>4, <1>7, <1>8, CallOnlyGood DEF TypeOK

LEMMA AllocateMoreGood ==
    ASSUME TypeOK, Located, NEW n \in 0 .. MaxChannels, AllocateMore(n)
    PROVE  Good
<1>1. /\ mx.pc = "idle" /\ app.pc = "idle" /\ num_channels' = n
      /\ UNCHANGED <<reserved_channels, mx, app, now, freed>>
  BY DEF AllocateMore, Locked, Unlocked
<1>2. \A i \in Ids : ch'[i] = Fresh \/ ch'[i] = ch[i]
  BY DEF AllocateMore
<1>3. ch' \in [Ids -> Channel]
  <2>1. ch' = [i \in Ids |-> ch'[i]]
    BY DEF AllocateMore
  <2> QED
    BY <1>2, <2>1, FreshType, TypesHere
<1>4. \A i \in Ids : Turn(ch[i], ch'[i])
  BY <1>1, <1>2, KeptItself DEF Turn, Emptied
<1>5. CallLocated' /\ app' = app
  BY <1>1 DEF CallLocated
<1> QED
  BY <1>1, <1>3, <1>4, <1>5, ManyChannelsGood DEF TypeOK

LEMMA AllocateFewerGood ==
    ASSUME TypeOK, Located, NEW n \in 0 .. MaxChannels, AllocateFewer(n)
    PROVE  Good
<1>1. /\ UNCHANGED <<ch, num_channels, reserved_channels, mx, now, freed>>
      /\ app' = [Idle EXCEPT !.pc = "unregister", !.i = n, !.n = n]
      /\ n < num_channels
  BY DEF AllocateFewer
<1>2. app' = [pc |-> "unregister", i |-> n, n |-> n, chunk |-> NoChunk, ticks |-> 0]
  BY <1>1 DEF Idle
<1>3. app' \in Call /\ app'.pc = "unregister" /\ app'.i = n /\ app'.n = n
  BY <1>2 DEF Call
<1>4. CallLocated'
  BY <1>1, <1>3 DEF CallLocated
<1> QED
  BY <1>1, <1>3, <1>4, CallOnlyGood DEF TypeOK

-----------------------------------------------------------------------------
(* The steps of a call that has begun, and the clock.                       *)

LEMMA PauseOneGood == ASSUME TypeOK, Located, PauseOne PROVE Good
<1>1. /\ app \in Call /\ app.n <= num_channels /\ app.pc = "pausing"
      /\ UNCHANGED <<num_channels, reserved_channels, mx, now, freed>>
  BY DEF PauseOne, Located, CallLocated, TypeOK
<1>2. num_channels \in 0 .. MaxChannels
  BY DEF TypeOK
<1>3. CASE app.i < app.n
  <2> DEFINE j == app.i
             d == PausedAt(ch[j], app.ticks)
  <2>1. j \in Ids /\ app.i \in 0 .. MaxChannels /\ app.n \in 0 .. MaxChannels
    BY <1>1, <1>2, <1>3, ChannelAssumption DEF Ids, Call
  <2>2. ch[j] \in Channel
    BY <2>1, TypesHere
  <2>3. d \in Channel /\ Same(ch[j], d) /\ Untimed(ch[j], d) /\ d.owed = ch[j].owed
        /\ d.expire = ch[j].expire
    BY <2>2, TypesHere, PausedAtType, PausedAtFields
  <2>4. ch' = [ch EXCEPT ![j] = d] /\ app' = [app EXCEPT !.i = @ + 1]
    BY <1>3, <2>1, TypesHere DEF PauseOne
  <2> HIDE DEF d
  <2>5. Kept(ch[j], d)
    BY <2>3 DEF Kept
  <2>6. app' \in Call /\ app'.pc = "pausing" /\ app'.n = app.n
    BY <1>1, <1>2, <1>3, <2>1, <2>4, ChannelAssumption DEF Call
  <2>7. CallLocated'
    BY <1>1, <2>6 DEF CallLocated
  <2>8. /\ ch' \in [Ids -> Channel]
        /\ \A i \in Ids : ch'[i] = IF i = j THEN d ELSE ch[i]
    BY <2>1, <2>3, <2>4, TypesHere
  <2>9. /\ \A i \in Ids : Turn(ch[i], ch'[i])
        /\ SameSounds
    BY <2>3, <2>5, <2>8, KeptItself DEF Turn, SameSounds, Same
  <2>10. TypeOK'
    BY <1>1, <2>6, <2>8 DEF TypeOK
  <2> QED
    BY <1>1, <2>7, <2>9, <2>10, LocatedKept DEF Good, Located
<1>4. CASE ~(app.i < app.n)
  <2>1. ch' = ch /\ app' = Idle
    BY <1>4 DEF PauseOne
  <2>2. CallLocated'
    BY <2>1 DEF CallLocated, Idle
  <2> QED
    BY <1>1, <2>1, <2>2, IdleType, CallOnlyGood DEF TypeOK
<1> QED
  BY <1>3, <1>4

LEMMA ResumeAllGood == ASSUME TypeOK, Located, ResumeAll PROVE Good
<1>1. /\ mx.pc = "idle" /\ app' = Idle
      /\ UNCHANGED <<num_channels, reserved_channels, mx, now, freed>>
  BY DEF ResumeAll
<1>2. ASSUME NEW i \in Ids PROVE ch'[i] \in Channel /\ Turn(ch[i], ch'[i])
  <2> DEFINE d == Resumed(ch[i], app.ticks)
  <2>1. ch[i] \in Channel
    BY TypesHere
  <2>2. /\ d \in Channel /\ Same(ch[i], d) /\ Untimed(ch[i], d)
        /\ d.owed = ch[i].owed /\ (d.expire > 0 => ch[i].expire > 0)
    BY <2>1, TypesHere, ResumedType, ResumedFields
  <2>3. ch'[i] = d \/ ch'[i] = ch[i]
    BY DEF ResumeAll
  <2> HIDE DEF d
  <2>4. Kept(ch[i], d)
    BY <2>2 DEF Kept
  <2> QED
    BY <2>1, <2>2, <2>3, <2>4, KeptItself DEF Turn
<1>3. ch' \in [Ids -> Channel]
  <2>1. ch' = [i \in Ids |-> ch'[i]]
    BY DEF ResumeAll
  <2> QED
    BY <1>2, <2>1
<1>4. CallLocated'
  BY <1>1 DEF CallLocated, Idle
<1> QED
  BY <1>1, <1>2, <1>3, <1>4, IdleType, ManyChannelsGood DEF TypeOK

LEMMA AllocateUnregisterGood ==
    ASSUME TypeOK, Located, AllocateUnregister PROVE Good
<1>1. /\ mx.pc = "idle" /\ app.i < num_channels /\ app.n <= app.i
      /\ UNCHANGED <<num_channels, reserved_channels, mx, now, freed>>
      /\ app' = [app EXCEPT !.pc = "halt"] /\ app \in Call
      /\ num_channels \in 0 .. MaxChannels
  BY DEF AllocateUnregister, Located, CallLocated, TypeOK
<1> DEFINE d == [ch[app.i] EXCEPT !.effects = 0]
<1>2. app.i \in Ids
  BY <1>1, ChannelAssumption DEF Call, Ids
<1>3. d \in Channel /\ Kept(ch[app.i], d)
  BY <1>2, TypesHere, EffectsKept
<1>4. ch' = [ch EXCEPT ![app.i] = d]
  BY <1>2, TypesHere DEF AllocateUnregister
<1> HIDE DEF d
<1>5. /\ ch' \in [Ids -> Channel]
      /\ \A i \in Ids : ch'[i] = IF i = app.i THEN d ELSE ch[i]
  BY <1>2, <1>3, <1>4, TypesHere
<1>6. \A i \in Ids : Turn(ch[i], ch'[i])
  BY <1>3, <1>5, KeptItself DEF Turn
<1>7. app' \in Call /\ app'.pc = "halt" /\ app'.i = app.i /\ app'.n = app.n
  BY <1>1 DEF Call
<1>8. CallLocated'
  BY <1>1, <1>7 DEF CallLocated
<1> QED
  BY <1>1, <1>5, <1>6, <1>7, <1>8, ManyChannelsGood DEF TypeOK

LEMMA AllocateHaltGood ==
    ASSUME TypeOK, Located, AllocateHalt PROVE Good
<1>1. /\ mx.pc = "idle" /\ app.i < num_channels /\ app.n <= app.i
      /\ UNCHANGED <<num_channels, reserved_channels, mx, now, freed>>
      /\ app \in Call /\ num_channels \in 0 .. MaxChannels
  BY DEF AllocateHalt, Located, CallLocated, TypeOK
<1> DEFINE d == Halted(ch[app.i])
           next == IF app.i + 1 < num_channels THEN "unregister" ELSE "realloc"
<1>2. app.i \in Ids /\ app.i + 1 \in 0 .. MaxChannels /\ app.n <= app.i + 1
  BY <1>1, ChannelAssumption DEF Call, Ids
<1>3. d \in Channel /\ (Kept(ch[app.i], d) \/ Ended(ch[app.i], d))
  BY <1>2, TypesHere, HaltedType, HaltedTurn
<1>4. ch' = [ch EXCEPT ![app.i] = d]
  BY <1>2, TypesHere DEF AllocateHalt
<1> HIDE DEF d
<1>5. /\ ch' \in [Ids -> Channel]
      /\ \A i \in Ids : ch'[i] = IF i = app.i THEN d ELSE ch[i]
  BY <1>2, <1>3, <1>4, TypesHere
<1>6. \A i \in Ids : Turn(ch[i], ch'[i])
  BY <1>3, <1>5, KeptItself DEF Turn
<1>7. app' = [app EXCEPT !.i = @ + 1, !.pc = next]
  BY DEF AllocateHalt
<1>8. next \in {"unregister", "realloc"}
  OBVIOUS
<1>9. /\ next = "unregister" => app.i + 1 < num_channels
      /\ app.n <= num_channels
  BY <1>1, <1>2 DEF Call
<1> HIDE DEF next
<1>10. app' \in Call /\ app'.pc = next /\ app'.i = app.i + 1 /\ app'.n = app.n
  BY <1>1, <1>2, <1>7, <1>8 DEF Call
<1>11. CallLocated'
  BY <1>1, <1>2, <1>8, <1>9, <1>10 DEF CallLocated
<1> QED
  BY <1>1, <1>5, <1>6, <1>10, <1>11, ManyChannelsGood DEF TypeOK

LEMMA AllocateReallocGood ==
    ASSUME TypeOK, Located, AllocateRealloc PROVE Good
<1>1. /\ mx.pc = "idle" /\ app' = Idle /\ num_channels' = app.n
      /\ UNCHANGED <<reserved_channels, mx, now, freed>>
  BY DEF AllocateRealloc
<1>2. \A i \in Ids : ch'[i] = Fresh \/ ch'[i] = ch[i]
  BY DEF AllocateRealloc
<1>3. ch' \in [Ids -> Channel]
  <2>1. ch' = [i \in Ids |-> ch'[i]]
    BY DEF AllocateRealloc
  <2> QED
    BY <1>2, <2>1, FreshType, TypesHere
<1>4. \A i \in Ids : Turn(ch[i], ch'[i])
  BY <1>1, <1>2, KeptItself DEF Turn, Emptied
<1>5. CallLocated' /\ num_channels' \in 0 .. MaxChannels
  BY <1>1 DEF CallLocated, Idle, TypeOK, Call
<1> QED
  BY <1>1, <1>3, <1>4, <1>5, IdleType, ManyChannelsGood

LEMMA AllocateFailsGood ==
    ASSUME TypeOK, Located, AllocateFails PROVE Good
<1>1. app' = Idle /\ UNCHANGED <<ch, num_channels, reserved_channels, mx, now, freed>>
  BY DEF AllocateFails
<1>2. CallLocated'
  BY <1>1 DEF CallLocated, Idle
<1> QED
  BY <1>1, <1>2, IdleType, CallOnlyGood DEF TypeOK

LEMMA FreeChunkReleaseGood ==
    ASSUME TypeOK, Located, FreeChunkRelease PROVE Good
<1>1. /\ app' = Idle /\ freed' = freed \cup {app.chunk}
      /\ UNCHANGED <<ch, num_channels, reserved_channels, mx, now>>
  BY DEF FreeChunkRelease
<1>2. app.chunk \in Chunks
  BY DEF FreeChunkRelease, Located, CallLocated
<1>3. CallLocated'
  BY <1>1 DEF CallLocated, Idle
<1> QED
  BY <1>1, <1>2, <1>3, IdleType, CallOnlyGood DEF TypeOK

LEMMA TickGood == ASSUME TypeOK, Located, Tick PROVE Good
<1>1. /\ UNCHANGED <<num_channels, reserved_channels, mx, app, freed>>
      /\ now' \in FirstTick .. LastTick
  BY ClockAssumption DEF Tick, TypeOK
<1>2. ASSUME NEW i \in Ids
      PROVE  /\ ch'[i] \in Channel /\ Turn(ch[i], ch'[i])
             /\ Same(ch[i], ch'[i])
  <2> DEFINE e == ch[i].due + 1
             d == [ch[i] EXCEPT !.due = e]
  <2>1. ch[i] \in Channel
    BY TypesHere
  <2>2. e \in Int
    BY <2>1 DEF Channel
  <2>3. ch'[i] = d \/ ch'[i] = ch[i]
    BY <2>1 DEF Tick
  <2> HIDE DEF e
  <2>4. d \in Channel /\ Kept(ch[i], d)
    BY <2>1, <2>2 DEF Channel, Kept, Same, Untimed
  <2> QED
    BY <2>1, <2>3, <2>4, KeptItself DEF Turn, Kept
<1>3. ch' \in [Ids -> Channel]
  <2>1. ch' = [i \in Ids |-> ch'[i]]
    BY DEF Tick
  <2> QED
    BY <1>2, <2>1
<1>4. CallLocated'
  BY <1>1 DEF CallLocated, Located
<1>5. TypeOK'
  BY <1>1, <1>3 DEF TypeOK
<1> QED
  BY <1>1, <1>2, <1>4, <1>5, LocatedKept DEF Good, Located, SameSounds

-----------------------------------------------------------------------------
(* The audio callback.                                                      *)

\* A step of the callback: the channel it is at takes a turn.
LEMMA MixGood ==
    ASSUME TypeOK, Located,
           UNCHANGED <<num_channels, reserved_channels, app, now, freed>>,
           NEW j \in Ids, NEW d \in Channel, ch' = [ch EXCEPT ![j] = d],
           Turn(ch[j], d), mx' \in Callback, CallbackLocated'
    PROVE  Good
<1>1. /\ ch' \in [Ids -> Channel]
      /\ \A i \in Ids : ch'[i] = IF i = j THEN d ELSE ch[i]
  BY TypesHere
<1>2. \A i \in Ids : Turn(ch[i], ch'[i])
  BY <1>1, KeptItself DEF Turn
<1>3. TypeOK'
  BY <1>1 DEF TypeOK
<1>4. CallLocated'
  BY DEF CallLocated, Located
<1> QED
  BY <1>2, <1>3, <1>4, LoadedKept DEF Good, Located

\* A step of the callback that touches no channel.
LEMMA MixOnlyGood ==
    ASSUME TypeOK, Located,
           UNCHANGED <<ch, num_channels, reserved_channels, app, now, freed>>,
           mx' \in Callback, CallbackLocated'
    PROVE  Good
<1>1. \A i \in Ids : Turn(ch[i], ch'[i])
  BY KeptItself DEF Turn
<1>2. TypeOK'
  BY DEF TypeOK
<1>3. CallLocated'
  BY DEF CallLocated, Located
<1> QED
  BY <1>1, <1>2, <1>3, LoadedKept DEF Good, Located

LEMMA MixBeginGood == ASSUME TypeOK, Located, MixBegin PROVE Good
<1>1. /\ mx' = [pc |-> "check", i |-> 0, index |-> 0, ticks |-> now]
      /\ UNCHANGED <<ch, num_channels, reserved_channels, app, now, freed>>
  BY DEF MixBegin
<1>2. mx' \in Callback
  BY <1>1, ChannelAssumption, ChunkAssumption DEF Callback, TypeOK
<1>3. CallbackLocated'
  BY <1>1 DEF CallbackLocated, TypeOK
<1> QED
  BY <1>1, <1>2, <1>3, MixOnlyGood

LEMMA MixEndGood == ASSUME TypeOK, Located, MixEnd PROVE Good
<1>1. /\ mx' = MixIdle
      /\ UNCHANGED <<ch, num_channels, reserved_channels, app, now, freed>>
  BY DEF MixEnd
<1>2. mx' \in Callback
  BY <1>1, ChannelAssumption, ChunkAssumption DEF Callback, MixIdle
<1>3. CallbackLocated'
  BY <1>1 DEF CallbackLocated, MixIdle
<1> QED
  BY <1>1, <1>2, <1>3, MixOnlyGood

\* The callback is at an allocated channel.
LEMMA HereType ==
    ASSUME TypeOK, Located, mx.pc # "idle", mx.i < num_channels
    PROVE  /\ mx.i \in Ids /\ ch[mx.i] \in Channel
           /\ mx.i + 1 \in 0 .. MaxChannels /\ mx.i + 1 <= num_channels
           /\ mx.i \in Nat /\ num_channels \in Nat
           /\ NextChannel \in Callback
           /\ NextChannel.pc = "check" /\ NextChannel.i = mx.i + 1
           /\ NextChannel.index = 0
<1>1. /\ mx \in Callback /\ num_channels \in 0 .. MaxChannels
  BY DEF TypeOK
<1>2. mx.i \in Ids /\ mx.i + 1 \in 0 .. MaxChannels /\ mx.i + 1 <= num_channels
      /\ mx.i \in Nat /\ num_channels \in Nat
  BY <1>1, ChannelAssumption DEF Callback, Ids
<1> DEFINE k == mx.i + 1
<1>3. NextChannel = [mx EXCEPT !.pc = "check", !.i = k, !.index = 0]
  BY DEF NextChannel
<1> HIDE DEF k
<1>4. /\ NextChannel \in Callback
      /\ NextChannel.pc = "check" /\ NextChannel.i = k /\ NextChannel.index = 0
  <2>1. 0 \in 0 .. Len /\ k \in 0 .. MaxChannels
    BY <1>2, ChunkAssumption DEF k
  <2> QED
    BY <1>1, <1>3, <2>1 DEF Callback
<1> QED
  BY <1>2, <1>4, TypesHere DEF k

LEMMA MixCheckGood == ASSUME TypeOK, Located, MixCheck PROVE Good
<1> DEFINE c == ch[mx.i]
           d == IF c.paused = 0 THEN Timed(c, mx.ticks) ELSE c
<1>1. /\ mx.pc = "check" /\ mx.i < num_channels
      /\ ch' = [ch EXCEPT ![mx.i] = d]
      /\ mx' = IF c.paused = 0 /\ d.playing > 0
                 THEN [mx EXCEPT !.pc = "data"] ELSE NextChannel
      /\ UNCHANGED <<num_channels, reserved_channels, app, now, freed>>
  BY DEF MixCheck
<1>2. /\ mx.i \in Ids /\ c \in Channel /\ mx.i \in Nat /\ num_channels \in Nat
      /\ mx.i + 1 <= num_channels
  BY <1>1, HereType
<1>3. d \in Channel /\ (Kept(c, d) \/ Ended(c, d))
  BY <1>2, TypesHere, TimedType, TimedTurn, KeptItself
<1>4. mx \in Callback
  BY DEF TypeOK
<1> HIDE DEF d
<1>5. mx' \in Callback /\ CallbackLocated'
  <2>1. CASE d.playing > 0 /\ mx' = [mx EXCEPT !.pc = "data"]
    <3>1. /\ mx'.pc = "data" /\ mx'.i = mx.i /\ mx'.index = mx.index
          /\ mx' \in Callback
      BY <1>4, <2>1 DEF Callback
    <3>2. mx.index = 0 /\ 0 < Len
      BY <1>1, ChunkAssumption DEF Located, CallbackLocated
    <3>3. ch'[mx.i] = d
      BY <1>1, <1>2, <1>3, TypesHere
    <3> QED
      BY <1>1, <1>2, <2>1, <3>1, <3>2, <3>3 DEF CallbackLocated
  <2>2. CASE mx' = NextChannel
    <3>1. /\ mx'.pc = "check" /\ mx'.i = mx.i + 1 /\ mx'.index = 0
          /\ mx' \in Callback /\ num_channels' = num_channels
      BY <1>1, <2>2, HereType
    <3> QED
      BY <1>2, <3>1 DEF CallbackLocated
  <2> QED
    BY <1>1, <2>1, <2>2
<1>6. Turn(c, d)
  BY <1>3 DEF Turn
<1> HIDE DEF c
<1> QED
  BY <1>1, <1>2, <1>3, <1>5, <1>6, MixGood DEF c

LEMMA MixDataGood == ASSUME TypeOK, Located, MixData PROVE Good
<1> DEFINE c == ch[mx.i]
           room == Len - mx.index
           n == IF c.playing > room THEN room ELSE c.playing
           d == IF Mixed(c, n).playing = 0 /\ Mixed(c, n).looping = 0
                  THEN DonePlaying(WithTimer([Mixed(c, n) EXCEPT !.fading = "no"], 0))
                  ELSE Mixed(c, n)
           pc == IF d.playing > 0 /\ mx.index + n < Len THEN "data" ELSE "refill"
           k == mx.index + n
<1>1. /\ mx.pc = "data" /\ mx.i < num_channels
      /\ c.playing > 0 /\ mx.index < Len /\ mx \in Callback
  BY DEF MixData, Located, CallbackLocated, TypeOK
<1>2. /\ ch' = [ch EXCEPT ![mx.i] = d] /\ mx' = [mx EXCEPT !.index = @ + n, !.pc = pc]
      /\ UNCHANGED <<num_channels, reserved_channels, app, now, freed>>
  BY DEF MixData
<1>3. /\ mx.i \in Ids /\ c \in Channel /\ mx.i \in Nat /\ num_channels \in Nat
  BY <1>1, HereType
<1>4. c.playing \in Nat /\ mx.index \in 0 .. Len /\ Len \in Nat
  BY <1>1, <1>3, ChunkAssumption DEF Channel, Callback
<1>5. n \in 1 .. c.playing /\ k \in 1 .. Len /\ (k < Len => n = c.playing)
  BY <1>1, <1>4
<1>6. c.chunk \in Chunks
  BY <1>1, <1>3 DEF Located, PlayingLoaded, IsPlaying
<1> HIDE DEF n
<1>7. d \in Channel /\ d.playing = c.playing - n /\ (Ended(c, d) \/ Advanced(c, d))
  BY <1>3, <1>5, <1>6, DataTurn
<1> HIDE DEF d
<1>8. mx' = [mx EXCEPT !.index = k, !.pc = pc]
  BY <1>2
<1>9. /\ pc \in {"data", "refill"}
      /\ pc = "data" => d.playing > 0 /\ k < Len
      /\ pc = "refill" => (k < Len => d.playing = 0)
  BY <1>4, <1>5, <1>7
<1>10. k \in 0 .. Len
  BY <1>5
<1> HIDE DEF pc, k
<1>11. mx' \in Callback /\ mx'.pc = pc /\ mx'.i = mx.i /\ mx'.index = k
  BY <1>1, <1>8, <1>9, <1>10 DEF Callback
<1>12. ch'[mx.i] = d
  BY <1>2, <1>3, <1>7, TypesHere
<1>13. CallbackLocated'
  BY <1>1, <1>2, <1>3, <1>5, <1>9, <1>11, <1>12 DEF CallbackLocated
<1>14. Turn(c, d)
  BY <1>7 DEF Turn
<1> HIDE DEF c
<1> QED
  BY <1>2, <1>3, <1>7, <1>11, <1>13, <1>14, MixGood DEF c

LEMMA MixRefillGood == ASSUME TypeOK, Located, MixRefill PROVE Good
<1> DEFINE c == ch[mx.i]
           room == Len - mx.index
           n == IF room > Alen[c.chunk] THEN Alen[c.chunk] ELSE room
           d == Mixed([LoopTaken(c) EXCEPT !.pos = 0, !.playing = Alen[c.chunk]], n)
           k == mx.index + n
<1>1. /\ mx.pc = "refill" /\ mx.i < num_channels /\ mx.index < Len /\ c.looping # 0
      /\ mx.index > 0 /\ c.playing = 0 /\ mx \in Callback
  BY DEF MixRefill, Located, CallbackLocated, TypeOK
<1>2. /\ ch' = [ch EXCEPT ![mx.i] = d] /\ mx' = [mx EXCEPT !.index = @ + n]
      /\ UNCHANGED <<num_channels, reserved_channels, app, now, freed>>
  BY DEF MixRefill
<1>3. /\ mx.i \in Ids /\ c \in Channel /\ mx.i \in Nat /\ num_channels \in Nat
  BY <1>1, HereType
<1>4. c.chunk \in Chunks
  BY <1>1, <1>3 DEF Located, PlayingLoaded, IsPlaying
<1>5. Alen[c.chunk] \in Nat \ {0} /\ mx.index \in 0 .. Len /\ Len \in Nat
  BY <1>1, <1>4, ChunkAssumption DEF Callback
<1>6. /\ n \in 1 .. Alen[c.chunk] /\ n < Len /\ k \in 1 .. Len
      /\ k < Len => n = Alen[c.chunk]
  BY <1>1, <1>5
<1> HIDE DEF n
<1>7. d \in Channel /\ d.playing = Alen[c.chunk] - n /\ Advanced(c, d)
  BY <1>1, <1>3, <1>4, <1>6, RefillTurn
<1> HIDE DEF d
<1>8. mx' = [mx EXCEPT !.index = k]
  BY <1>2
<1>9. k \in 0 .. Len /\ (k < Len => d.playing = 0)
  BY <1>5, <1>6, <1>7
<1> HIDE DEF k
<1>10. mx' \in Callback /\ mx'.pc = "refill" /\ mx'.i = mx.i /\ mx'.index = k
  BY <1>1, <1>8, <1>9 DEF Callback
<1>11. ch'[mx.i] = d
  BY <1>2, <1>3, <1>7, TypesHere
<1>12. CallbackLocated'
  BY <1>1, <1>2, <1>3, <1>6, <1>9, <1>10, <1>11 DEF CallbackLocated
<1>13. Turn(c, d)
  BY <1>7 DEF Turn
<1> HIDE DEF c
<1> QED
  BY <1>2, <1>3, <1>7, <1>10, <1>12, <1>13, MixGood DEF c

LEMMA MixRewindGood == ASSUME TypeOK, Located, MixRewind PROVE Good
<1> DEFINE c == ch[mx.i]
           e == [LoopTaken(c) EXCEPT !.pos = 0, !.playing = Alen[c.chunk]]
           d == IF c.playing = 0 /\ c.looping # 0 THEN e ELSE c
<1>1. mx.pc = "refill" /\ mx.i < num_channels
  BY DEF MixRewind, Located, CallbackLocated
<1>2. /\ ch' = [ch EXCEPT ![mx.i] = d] /\ mx' = NextChannel
      /\ UNCHANGED <<num_channels, reserved_channels, app, now, freed>>
  BY DEF MixRewind
<1>3. /\ mx.i \in Ids /\ c \in Channel /\ mx.i \in Nat /\ num_channels \in Nat
      /\ mx.i + 1 <= num_channels
      /\ mx' \in Callback /\ mx'.pc = "check" /\ mx'.i = mx.i + 1 /\ mx'.index = 0
  BY <1>1, <1>2, HereType
<1>4. d \in Channel /\ Turn(c, d)
  <2>1. CASE c.playing = 0 /\ c.looping # 0
    <3>1. c.chunk \in Chunks
      BY <1>3, <2>1 DEF Located, PlayingLoaded, IsPlaying
    <3>2. /\ e \in Channel /\ e.chunk = c.chunk /\ IsPlaying(c) /\ IsPlaying(e)
          /\ Sound(c) => Sound(e)
          /\ Untimed(c, e) /\ e.owed = c.owed /\ e.expire = c.expire
          /\ e.effects = c.effects /\ Onward(c, e)
      BY <1>3, <2>1, <3>1, RewoundTurn
    <3> HIDE DEF e
    <3>3. Advanced(c, e)
      BY <3>1, <3>2 DEF Advanced
    <3> QED
      BY <2>1, <3>2, <3>3 DEF Turn
  <2>2. CASE ~(c.playing = 0 /\ c.looping # 0)
    BY <1>3, <2>2, KeptItself DEF Turn
  <2> QED
    BY <2>1, <2>2
<1> HIDE DEF d
<1>5. CallbackLocated'
  BY <1>2, <1>3 DEF CallbackLocated
<1> HIDE DEF c
<1> QED
  BY <1>2, <1>3, <1>4, <1>5, MixGood DEF c

-----------------------------------------------------------------------------
(* The theorems.                                                            *)

LEMMA InitLocated == Init => TypeOK /\ Located
<1> SUFFICES ASSUME Init PROVE TypeOK /\ Located
  OBVIOUS
<1>1. ch \in [Ids -> Channel]
  BY FreshType DEF Init
<1>2. app \in Call /\ app.pc = "idle"
  BY IdleType DEF Init, Idle
<1>3. mx \in Callback /\ mx.pc = "idle"
  BY ChunkAssumption, ChannelAssumption DEF Init, MixIdle, Callback
<1>4. TypeOK
  BY <1>1, <1>2, <1>3, ChannelAssumption, ClockAssumption DEF Init, TypeOK
<1>5. PlayingLoaded
  BY DEF Init, PlayingLoaded, Fresh, IsPlaying
<1> QED
  BY <1>2, <1>3, <1>4, <1>5 DEF Located, CallbackLocated, CallLocated

LEMMA NextGood == ASSUME TypeOK, Located, [Next]_vars PROVE Good
<1>1. CASE AppStart
  <2>1. ASSUME NEW range \in Named, Mix_HaltChannel(range) PROVE Good
    BY <2>1, HaltGood
  <2>2. ASSUME NEW k \in Chunks, FreeChunkHalt(k) \/ Mix_LoadWAV(k) PROVE Good
    BY <2>2, FreeChunkHaltGood, LoadGood
  <2>3. ASSUME NEW n \in 0 .. MaxChannels,
               AllocateMore(n) \/ AllocateFewer(n) \/ Mix_ReserveChannels(n)
        PROVE  Good
    BY <2>3, AllocateMoreGood, AllocateFewerGood, ReserveGood
  <2> QED
    BY <1>1, <2>1, <2>2, <2>3, PlayGood, FadeInGood DEF AppStart
<1>2. CASE AppAdjust
  BY <1>2, FadeOutGood, ExpireGood, VolumeGood, RegisterGood, UnregisterGood, RangeGood
    DEF AppAdjust
<1>3. CASE AppContinue
  BY <1>3, PauseOneGood, ResumeAllGood, AllocateUnregisterGood, AllocateHaltGood,
     AllocateReallocGood, AllocateFailsGood, FreeChunkReleaseGood DEF AppContinue
<1>4. CASE MixBegin \/ MixStep
  BY <1>4, MixBeginGood, MixEndGood, MixCheckGood, MixDataGood, MixRefillGood,
     MixRewindGood DEF MixStep
<1>5. CASE Tick
  BY <1>5, TickGood
<1>6. CASE UNCHANGED vars
  <2>1. CallLocated'
    BY <1>6 DEF vars, CallLocated, Located
  <2> QED
    BY <1>6, <2>1, CallOnlyGood DEF vars, TypeOK
<1> QED
  BY <1>1, <1>2, <1>3, <1>4, <1>5, <1>6 DEF Next

\* The type invariant of the channel engine, for every number of channels, every
\* set of chunks and every sequence of calls: in particular the callback's index
\* never passes the end of its stream, nor its channel the end of the array.
THEOREM Typed == Spec => []TypeOK
<1>1. TypeOK /\ Located /\ [Next]_vars => (TypeOK /\ Located)'
  BY NextGood DEF Good
<1> QED
  BY <1>1, InitLocated, PTL DEF Spec

\* Where the callback and an unfinished call stand agrees with the channels, in
\* every interleaving (mix_channels, and the calls that give up the lock between
\* two of their steps: Mix_Pause, Mix_Resume, Mix_AllocateChannels, Mix_FreeChunk).
THEOREM StaysLocated == Spec => []Located
<1>1. TypeOK /\ Located /\ [Next]_vars => (TypeOK /\ Located)'
  BY NextGood DEF Good
<1> QED
  BY <1>1, InitLocated, PTL DEF Spec

AllSound == \A i \in Ids : Sound(ch[i])

LEMMA TurnSound == ASSUME NEW c, NEW d, Turn(c, d), Sound(c) PROVE Sound(d)
<1>1. Sound(Fresh)
  BY DEF Sound, Fresh
<1> QED
  BY <1>1, SameSound DEF Turn, Kept, Ended, Began, Emptied, Advanced

LEMMA AlwaysSound == Spec => [](TypeOK /\ Located /\ AllSound)
<1>1. Init => AllSound
  BY DEF Init, AllSound, Sound, Fresh
<1>2. TypeOK /\ Located /\ AllSound /\ [Next]_vars => AllSound'
  <2> SUFFICES ASSUME TypeOK, Located, AllSound, [Next]_vars, NEW i \in Ids
               PROVE  Sound(ch[i])'
    BY DEF AllSound
  <2>1. Turn(ch[i], ch'[i]) /\ Sound(ch[i])
    BY NextGood DEF Good, AllSound
  <2>2. Sound(ch'[i])
    BY <2>1, TurnSound
  <2> QED
    BY <2>2 DEF Sound
<1>3. TypeOK /\ Located /\ [Next]_vars => (TypeOK /\ Located)'
  BY NextGood DEF Good
<1> QED
  BY <1>1, <1>2, <1>3, InitLocated, PTL DEF Spec

\* The mixer never reads outside a chunk, whatever the application does: no call
\* that runs without the lock, and no replacement, halt or re-allocation under it,
\* lets samples + playing pass the end of chunk->abuf.
THEOREM InsideChunk == Spec => []SamplesInChunk
<1>1. TypeOK /\ Located /\ AllSound => SamplesInChunk
  BY DEF Located, PlayingLoaded, AllSound, Sound, SamplesInChunk, IsPlaying
<1> QED
  BY <1>1, AlwaysSound, PTL

\* Of a sound that nothing halts the mixer mixes exactly loops + 1 passes, for
\* every chunk length, buffer length and number of loops: also where a pass ends
\* inside a buffer, or several passes fit in one.
THEOREM PassesMixed == Spec => []EveryPassMixed
<1>1. TypeOK /\ Located /\ AllSound => EveryPassMixed
  BY DEF Located, PlayingLoaded, AllSound, Sound, EveryPassMixed, IsPlaying
<1> QED
  BY <1>1, AlwaysSound, PTL

-----------------------------------------------------------------------------
(* Fades and the callback's clock.                                          *)

FadesBegun ==
    \A i \in Ids : ch[i].fading # "no" =>
        /\ ch[i].ticks_fade <= now
        /\ mx.pc # "idle" => ch[i].ticks_fade <= mx.ticks

\* The callback keeps the tick it took when it began.
LEMMA TicksKept ==
    ASSUME TypeOK, Located, [Next]_vars
    PROVE  /\ now <= now' /\ now \in Int /\ now' \in Int
           /\ mx'.pc # "idle" =>
                \/ mx.pc # "idle" /\ mx'.ticks = mx.ticks
                \/ mx.pc = "idle" /\ mx'.ticks = now
<1>1. now \in Int /\ now' \in Int
  BY NextGood, ClockAssumption DEF Good, TypeOK
<1>2. CASE Tick
  BY <1>1, <1>2, ClockAssumption DEF Tick, TypeOK
<1>3. CASE MixBegin
  BY <1>1, <1>3 DEF MixBegin
<1>4. CASE MixStep
  <2>1. mx \in Callback /\ mx.pc # "idle" /\ now' = now
    BY <1>4 DEF MixStep, MixEnd, MixCheck, MixData, MixRefill, MixRewind, TypeOK
  <2>2. mx'.pc = "idle" \/ mx'.ticks = mx.ticks
    <3>1. NextChannel.ticks = mx.ticks
      <4> DEFINE k == mx.i + 1
      <4>1. NextChannel = [mx EXCEPT !.pc = "check", !.i = k, !.index = 0]
        BY DEF NextChannel
      <4> HIDE DEF k
      <4> QED
        BY <2>1, <4>1 DEF Callback
    <3>2. CASE MixEnd
      BY <3>2 DEF MixEnd, MixIdle
    <3>3. CASE MixCheck \/ MixRewind
      <4>1. mx' = [mx EXCEPT !.pc = "data"] \/ mx' = NextChannel
        BY <3>3 DEF MixCheck, MixRewind
      <4> QED
        BY <2>1, <3>1, <4>1 DEF Callback
    <3>4. CASE MixData \/ MixRefill
      <4>1. \E k, p : mx' = [mx EXCEPT !.index = k, !.pc = p] \/ mx' = [mx EXCEPT !.index = k]
        BY <3>4 DEF MixData, MixRefill
      <4> QED
        BY <2>1, <4>1 DEF Callback
    <3> QED
      BY <1>4, <3>2, <3>3, <3>4 DEF MixStep
  <2> QED
    BY <1>1, <2>1, <2>2
<1>5. CASE AppStart \/ AppAdjust \/ AppContinue \/ UNCHANGED vars
  <2>1. mx' = mx /\ now' = now
    BY <1>5
      DEF AppStart, AppAdjust, AppContinue, vars, Mix_PlayChannelTimedVolume,
          Mix_FadeInChannelTimedVolume, Mix_HaltChannel, FreeChunkHalt, Mix_LoadWAV,
          AllocateMore, AllocateFewer, Mix_ReserveChannels, Mix_FadeOutChannel,
          Mix_ExpireChannel, Mix_Volume, Mix_RegisterEffect, Mix_UnregisterEffect,
          Mix_Pause, Mix_Resume, PauseOne, ResumeAll, AllocateUnregister, AllocateHalt,
          AllocateRealloc, AllocateFails, FreeChunkRelease
  <2> QED
    BY <1>1, <2>1, ClockAssumption DEF TypeOK
<1> QED
  BY <1>2, <1>3, <1>4, <1>5 DEF Next

\* The unsigned distance between the callback's tick and the start of a fade never
\* wraps around: the start of a fade is written under the lock, and the callback
\* reads the clock after it has the lock, so that it never looks back from an
\* older tick.
THEOREM FadesMeasured == Spec => []FadeNotAhead
<1>1. Init => FadesBegun
  BY DEF Init, FadesBegun, Fresh
<1>2. TypeOK /\ Located /\ FadesBegun /\ [Next]_vars => FadesBegun'
  <2> SUFFICES ASSUME TypeOK, Located, FadesBegun, [Next]_vars, NEW i \in Ids,
                      ch'[i].fading # "no"
               PROVE  /\ ch'[i].ticks_fade <= now'
                      /\ mx'.pc # "idle" => ch'[i].ticks_fade <= mx'.ticks
    BY DEF FadesBegun
  <2> DEFINE c == ch[i]
             d == ch'[i]
  <2>1. TypeOK /\ TypeOK' /\ Turn(c, d)
    BY NextGood DEF Good
  <2>2. c.ticks_fade \in Int /\ d.ticks_fade \in Int
    BY <2>1 DEF TypeOK, Channel
  <2>3. \/ c.fading # "no" /\ Untimed(c, d)
        \/ mx.pc = "idle" /\ d.ticks_fade = now
    <3>1. d.fading # "no"
      OBVIOUS
    <3> HIDE DEF c, d
    <3>2. CASE Kept(c, d)
      BY <3>1, <3>2 DEF Kept, Untimed
    <3>3. CASE ~Kept(c, d)
      BY <2>1, <3>1, <3>3 DEF Turn, Ended, Began, Emptied, Advanced, Fresh, Untimed
    <3> QED
      BY <3>2, <3>3
  <2>4. c.fading # "no" => /\ c.ticks_fade <= now
                           /\ mx.pc # "idle" => c.ticks_fade <= mx.ticks
    BY DEF FadesBegun
  <2> QED
    BY <2>2, <2>3, <2>4, TicksKept DEF Untimed
<1>3. TypeOK /\ FadesBegun => FadeNotAhead
  BY TypesHere DEF FadesBegun, FadeNotAhead
<1>4. TypeOK /\ Located /\ [Next]_vars => (TypeOK /\ Located)'
  BY NextGood DEF Good
<1> QED
  BY <1>1, <1>2, <1>3, <1>4, InitLocated, PTL DEF Spec

-----------------------------------------------------------------------------
(* Released chunks.                                                         *)

ReleasedSilent ==
    \A i \in Ids : i < num_channels /\ IsPlaying(ch[i]) =>
        /\ ch[i].chunk \notin freed
        /\ app.pc = "free" => ch[i].chunk # app.chunk

\* Only four actions have to do with chunks being released or channels appearing.
LEMMA ReleaseFrame ==
    ASSUME TypeOK, Located, [Next]_vars
    PROVE  \/ \E n \in 0 .. MaxChannels : AllocateMore(n)
           \/ \E k \in Chunks : FreeChunkHalt(k)
           \/ FreeChunkRelease
           \/ /\ freed' \subseteq freed /\ num_channels' <= num_channels
              /\ app'.pc = "free" => app.pc = "free" /\ app'.chunk = app.chunk
<1>1. num_channels \in Int /\ app \in Call
  BY DEF TypeOK
<1> DEFINE Quiet ==
             /\ freed' \subseteq freed /\ num_channels' <= num_channels
             /\ app'.pc = "free" => app.pc = "free" /\ app'.chunk = app.chunk
<1>2. /\ UNCHANGED <<freed, num_channels, app>> => Quiet
      /\ UNCHANGED <<freed, num_channels>> /\ app'.pc # "free" => Quiet
  BY <1>1
<1>3. CASE AppStart
  <2>1. ASSUME NEW range \in Named, Mix_HaltChannel(range) PROVE Quiet
    BY <1>2, <2>1 DEF Mix_HaltChannel
  <2>2. ASSUME NEW k \in Chunks, Mix_LoadWAV(k) PROVE Quiet
    BY <1>1, <2>2 DEF Mix_LoadWAV
  <2>3. ASSUME NEW n \in 0 .. MaxChannels, AllocateFewer(n) PROVE Quiet
    <3>1. app' = [Idle EXCEPT !.pc = "unregister", !.i = n, !.n = n]
      BY <2>3 DEF AllocateFewer
    <3>2. app'.pc = "unregister"
      BY <3>1 DEF Idle
    <3> QED
      BY <1>2, <2>3, <3>2 DEF AllocateFewer
  <2>4. ASSUME NEW n \in 0 .. MaxChannels, Mix_ReserveChannels(n) PROVE Quiet
    BY <1>2, <2>4 DEF Mix_ReserveChannels
  <2>5. ASSUME NEW which, NEW k, NEW loops, NEW ms, NEW ticks, NEW v,
               Mix_PlayChannelTimedVolume(which, k, loops, ticks, v)
                 \/ Mix_FadeInChannelTimedVolume(which, k, loops, ms, ticks, v)
        PROVE  Quiet
    BY <1>2, <2>5 DEF Mix_PlayChannelTimedVolume, Mix_FadeInChannelTimedVolume
  <2> HIDE DEF Quiet
  <2>6. Quiet \/ (\E n \in 0 .. MaxChannels : AllocateMore(n))
              \/ (\E k \in Chunks : FreeChunkHalt(k))
    BY <1>3, <2>1, <2>2, <2>3, <2>4, <2>5 DEF AppStart
  <2> QED
    BY <2>6 DEF Quiet
<1>4. CASE AppAdjust
  <2>1. ASSUME NEW range \in Named, Mix_Pause(range) \/ Mix_Resume(range) PROVE Quiet
    <3>1. \E pc \in {"pausing", "resuming"} :
            app' = [Idle EXCEPT !.pc = pc, !.i = range[1], !.n = range[2], !.ticks = now]
      BY <2>1 DEF Mix_Pause, Mix_Resume
    <3>2. app'.pc # "free"
      BY <3>1 DEF Idle
    <3> QED
      BY <1>2, <2>1, <3>2 DEF Mix_Pause, Mix_Resume
  <2>2. ASSUME NEW i, NEW x, \/ Mix_FadeOutChannel(i, x) \/ Mix_ExpireChannel(i, x)
                             \/ Mix_Volume(i, x) \/ Mix_RegisterEffect(i)
                             \/ Mix_UnregisterEffect(i)
        PROVE  Quiet
    BY <1>2, <2>2 DEF Mix_FadeOutChannel, Mix_ExpireChannel, Mix_Volume,
                      Mix_RegisterEffect, Mix_UnregisterEffect
  <2> QED
    BY <1>4, <2>1, <2>2 DEF AppAdjust
<1>5. CASE AllocateRealloc \/ AllocateFails
  BY <1>1, <1>5 DEF AllocateRealloc, AllocateFails, Idle, Located, CallLocated
<1>6. CASE PauseOne \/ ResumeAll \/ AllocateUnregister \/ AllocateHalt
  <2>1. UNCHANGED <<freed, num_channels>>
    BY <1>6 DEF PauseOne, ResumeAll, AllocateUnregister, AllocateHalt
  <2>2. \/ app' = Idle
        \/ \E k : app' = [app EXCEPT !.i = k] /\ app.pc = "pausing"
        \/ app' = [app EXCEPT !.pc = "halt"]
        \/ \E k, pc : /\ app' = [app EXCEPT !.i = k, !.pc = pc]
                      /\ pc \in {"unregister", "realloc"}
    BY <1>6 DEF PauseOne, ResumeAll, AllocateUnregister, AllocateHalt
  <2>3. CASE app' = Idle \/ app' = [app EXCEPT !.pc = "halt"]
    BY <1>1, <1>2, <2>1, <2>3 DEF Idle, Call
  <2>4. ASSUME NEW k, app' = [app EXCEPT !.i = k], app.pc = "pausing"
        PROVE  app'.pc # "free"
    BY <1>1, <2>4 DEF Call
  <2>5. ASSUME NEW k, NEW pc \in {"unregister", "realloc"},
               app' = [app EXCEPT !.i = k, !.pc = pc]
        PROVE  app'.pc # "free"
    BY <1>1, <2>5 DEF Call
  <2> QED
    BY <1>2, <2>1, <2>2, <2>3, <2>4, <2>5
<1>7. CASE MixBegin \/ MixStep \/ Tick \/ UNCHANGED vars
  BY <1>2, <1>7
    DEF MixBegin, MixStep, MixEnd, MixCheck, MixData, MixRefill, MixRewind, Tick, vars
<1> QED
  BY <1>3, <1>4, <1>5, <1>6, <1>7 DEF Next, AppContinue

LEMMA ReleasedKept ==
    ASSUME TypeOK, Located, ReleasedSilent, [Next]_vars
    PROVE  ReleasedSilent'
<1> SUFFICES ASSUME NEW i \in Ids, i < num_channels', IsPlaying(ch'[i])
             PROVE  /\ ch'[i].chunk \notin freed'
                    /\ app'.pc = "free" => ch'[i].chunk # app'.chunk
  BY DEF ReleasedSilent, IsPlaying
<1>1. /\ Turn(ch[i], ch'[i])
      /\ num_channels \in Int /\ num_channels' \in Int /\ i \in Int
  BY NextGood, ChannelAssumption DEF Good, TypeOK, Ids
<1>2. CASE \E n \in 0 .. MaxChannels : AllocateMore(n)
  <2>1. PICK n \in 0 .. MaxChannels : AllocateMore(n)
    BY <1>2
  <2>2. /\ num_channels' = n /\ app' = app /\ freed' = freed
        /\ ch'[i] = IF i \in num_channels .. n - 1 THEN Fresh ELSE ch[i]
    BY <2>1 DEF AllocateMore
  <2>3. ch'[i] = Fresh \/ (i < num_channels /\ ch'[i] = ch[i])
    BY <1>1, <2>2
  <2> QED
    BY <2>2, <2>3 DEF ReleasedSilent, Fresh, IsPlaying
<1>3. CASE \E k \in Chunks : FreeChunkHalt(k)
  <2>1. PICK k \in Chunks : FreeChunkHalt(k)
    BY <1>3
  <2>2. /\ freed' = freed /\ num_channels' = num_channels
        /\ app' = [Idle EXCEPT !.pc = "free", !.chunk = k]
        /\ ch'[i] = IF i < num_channels /\ ch[i].chunk = k THEN Halted(ch[i])
                                                          ELSE ch[i]
    BY <2>1 DEF FreeChunkHalt
  <2>3. app'.chunk = k
    BY <2>2 DEF Idle
  <2>4. ~IsPlaying(Halted(ch[i]))
    BY <1>1, TypesHere, HaltedFields DEF Stopped, Same, IsPlaying
  <2>5. ch'[i] = ch[i] /\ ch[i].chunk # k
    BY <2>2, <2>4
  <2> QED
    BY <2>2, <2>3, <2>5 DEF ReleasedSilent
<1>4. CASE FreeChunkRelease
  <2>1. /\ app.pc = "free" /\ app'.pc = "idle" /\ freed' = freed \cup {app.chunk}
        /\ ch' = ch /\ num_channels' = num_channels
    BY <1>4 DEF FreeChunkRelease, Idle
  <2> QED
    BY <2>1 DEF ReleasedSilent
<1>5. CASE /\ freed' \subseteq freed /\ num_channels' <= num_channels
           /\ app'.pc = "free" => app.pc = "free" /\ app'.chunk = app.chunk
  <2>1. i < num_channels
    BY <1>1, <1>5
  <2>2. CASE Began(ch[i], ch'[i])
    BY <1>5, <2>2 DEF Began
  <2>3. CASE ~Began(ch[i], ch'[i])
    <3>1. IsPlaying(ch[i]) /\ ch'[i].chunk = ch[i].chunk
      BY <1>1, <2>3
        DEF Turn, Kept, Ended, Emptied, Advanced, Fresh, Same, IsPlaying
    <3> QED
      BY <1>5, <2>1, <3>1 DEF ReleasedSilent
  <2> QED
    BY <2>2, <2>3
<1> QED
  BY <1>2, <1>3, <1>4, <1>5, ReleaseFrame

\* No channel ever plays a chunk whose memory has been given back, though
\* Mix_FreeChunk halts the channels under one lock and releases the memory after
\* it, and the mixer may run in between.
THEOREM ReleasedNotPlayed == Spec => []FreedChunkSilent
<1>1. Init => ReleasedSilent
  BY DEF Init, ReleasedSilent, Idle
<1>2. TypeOK /\ Located /\ ReleasedSilent /\ [Next]_vars => ReleasedSilent'
  BY ReleasedKept
<1>3. TypeOK /\ ReleasedSilent => FreedChunkSilent
  <2> SUFFICES ASSUME TypeOK, ReleasedSilent, NEW i \in Allocated, IsPlaying(ch[i])
               PROVE  ch[i].chunk \notin freed
    BY DEF FreedChunkSilent
  <2>1. i \in Ids /\ i < num_channels
    BY TypesHere DEF Allocated, TypeOK
  <2> QED
    BY <2>1 DEF ReleasedSilent
<1>4. TypeOK /\ Located /\ [Next]_vars => (TypeOK /\ Located)'
  BY NextGood DEF Good
<1> QED
  BY <1>1, <1>2, <1>3, <1>4, InitLocated, PTL DEF Spec

-----------------------------------------------------------------------------
(* The finished callback.                                                   *)

\* Whatever may still report a channel finished has a play to report.
Credited(c) ==
    c.owed >= IF IsPlaying(c) \/ c.expire > 0 \/ c.fading = "out" THEN 1 ELSE 0

LEMMA TurnCredited ==
    ASSUME "Expire" \notin Calls, NEW c \in Channel, NEW d \in Channel,
           Turn(c, d), Credited(c)
    PROVE  Credited(d)
<1>1. c.owed \in Int /\ d.owed \in Int
  BY DEF Channel
<1>2. CASE Kept(c, d)
  BY <1>1, <1>2 DEF Kept, Same, Untimed, Credited, IsPlaying
<1>3. CASE Ended(c, d)
  BY <1>1, <1>3 DEF Ended, Credited, IsPlaying
<1>4. CASE Began(c, d)
  <2>1. d.owed >= 1
    BY <1>1, <1>4 DEF Began, Credited
  <2> QED
    BY <1>1, <2>1 DEF Credited
<1>5. CASE Emptied(d)
  BY <1>5 DEF Emptied, Fresh, Credited, IsPlaying
<1>6. CASE Advanced(c, d)
  BY <1>1, <1>6 DEF Advanced, Untimed, Credited
<1> QED
  BY <1>2, <1>3, <1>4, <1>5, <1>6 DEF Turn

\* An application that never calls Mix_ExpireChannel is never told twice that one
\* play has finished, nor while the channel plays: for all lengths of chunks and
\* buffers, and however pauses, fades, halts and re-allocations interleave.
THEOREM FinishAnswersPlay ==
    ASSUME "Expire" \notin Calls
    PROVE  Spec => []NoSpuriousFinish
<1> DEFINE Inv == \A i \in Ids : Credited(ch[i])
<1>1. Init => Inv
  BY DEF Init, Credited, Fresh, IsPlaying
<1>2. TypeOK /\ Located /\ Inv /\ [Next]_vars => Inv'
  <2> SUFFICES ASSUME TypeOK, Located, Inv, [Next]_vars, NEW i \in Ids
               PROVE  Credited(ch'[i])
    BY DEF Credited, IsPlaying
  <2>1. Turn(ch[i], ch'[i]) /\ ch[i] \in Channel /\ ch'[i] \in Channel
    BY NextGood DEF Good, TypeOK
  <2> QED
    BY <2>1, TurnCredited
<1>3. TypeOK /\ Inv => NoSpuriousFinish
  <2> SUFFICES ASSUME TypeOK, Inv, NEW i \in Ids
               PROVE  ch[i].owed >= (IF IsPlaying(ch[i]) THEN 1 ELSE 0)
    BY DEF NoSpuriousFinish
  <2>1. ch[i].owed \in Int
    BY TypesHere DEF Channel
  <2> QED
    BY <2>1 DEF Credited
<1>4. TypeOK /\ Located /\ [Next]_vars => (TypeOK /\ Located)'
  BY NextGood DEF Good
<1> QED
  BY <1>1, <1>2, <1>3, <1>4, InitLocated, PTL DEF Spec

\* A channel that plays is owed one report, one that does not none, and keeps
\* neither fade nor limit.
Answered(c) ==
    /\ c.owed = IF IsPlaying(c) THEN 1 ELSE 0
    /\ ~IsPlaying(c) => c.fading = "no" /\ ~(c.expire > 0)

LEMMA TurnAnswered ==
    ASSUME "Expire" \notin Calls, \A k \in Chunks : Alen[k] >= Len,
           NEW c \in Channel, NEW d \in Channel, Turn(c, d), Answered(c)
    PROVE  Answered(d)
<1>1. CASE Kept(c, d)
  BY <1>1 DEF Kept, Same, Untimed, Answered, IsPlaying
<1>2. CASE Ended(c, d)
  BY <1>2 DEF Ended, Answered, IsPlaying
<1>3. CASE Began(c, d)
  <2>1. IsPlaying(d)
    BY <1>3, ChunkAssumption DEF Began, IsPlaying
  <2> QED
    BY <1>3, <2>1 DEF Began, Answered
<1>4. CASE Emptied(d)
  BY <1>4 DEF Emptied, Fresh, Answered, IsPlaying
<1>5. CASE Advanced(c, d)
  <2>1. c.chunk \in Chunks /\ ~(Alen[c.chunk] < Len)
    BY <1>5, ChunkAssumption DEF Advanced
  <2> QED
    BY <1>5, <2>1 DEF Advanced, Answered
<1> QED
  BY <1>1, <1>2, <1>3, <1>4, <1>5 DEF Turn

AllAnswered == \A i \in Ids : Answered(ch[i])

LEMMA AnsweredKept ==
    ASSUME "Expire" \notin Calls, \A k \in Chunks : Alen[k] >= Len,
           TypeOK, Located, AllAnswered, [Next]_vars
    PROVE  AllAnswered'
<1> SUFFICES ASSUME NEW i \in Ids PROVE Answered(ch'[i])
  BY DEF AllAnswered, Answered, IsPlaying
<1>1. Turn(ch[i], ch'[i]) /\ ch[i] \in Channel /\ ch'[i] \in Channel
  BY NextGood DEF Good, TypeOK
<1> QED
  BY <1>1, TurnAnswered DEF AllAnswered

\* When, besides, every chunk is at least as long as the buffer of one callback,
\* each play is reported finished exactly once, by whatever path it ends, and a
\* channel that has stopped keeps no fade.  Both conditions are needed: a looping
\* chunk shorter than the buffer can end in the refill loop, which reports nothing,
\* and a limit set on a silent channel is reported when it runs out.
THEOREM EveryPlayReported ==
    ASSUME "Expire" \notin Calls, \A k \in Chunks : Alen[k] >= Len
    PROVE  Spec => [](OneFinishPerPlay /\ IdleNotFading)
<1>1. Init => AllAnswered
  BY DEF Init, AllAnswered, Answered, Fresh, IsPlaying
<1>2. TypeOK /\ Located /\ AllAnswered /\ [Next]_vars => AllAnswered'
  BY AnsweredKept
<1>3. TypeOK /\ AllAnswered => OneFinishPerPlay /\ IdleNotFading
  BY TypesHere DEF AllAnswered, Answered, OneFinishPerPlay, IdleNotFading
<1>4. TypeOK /\ Located /\ [Next]_vars => (TypeOK /\ Located)'
  BY NextGood DEF Good
<1> QED
  BY <1>1, <1>2, <1>3, <1>4, InitLocated, PTL DEF Spec

-----------------------------------------------------------------------------
(* Volumes and limits: what every action makes of them on each channel.     *)

\* The volume of a sound that is played over another, or with a volume of its own.
PlaysAt(c, d) ==
    /\ mx.pc = "idle" /\ d.fading = "no" /\ IsPlaying(d)
    /\ d.volume = d.wanted \/ (d.volume = c.volume /\ d.wanted = c.wanted)

FadesIn(c, d) ==
    /\ d.fading = "in"
    /\ c.fading # "no" => d.fade_volume_reset = c.fade_volume_reset
    /\ c.fading = "no" => \/ d.fade_volume_reset = d.wanted
                          \/ d.fade_volume_reset = c.volume /\ d.wanted = c.wanted

FadesOut(c, d) ==
    /\ mx.pc = "idle" /\ c.fading # "out" /\ d.fading = "out"
    /\ d.volume = c.volume /\ d.wanted = c.wanted
    /\ d.fade_volume = c.volume /\ d.fade_length \in Nat /\ d.ticks_fade = now
    /\ d.fade_volume_reset = IF c.fading = "no" THEN c.volume ELSE c.fade_volume_reset

LevelTurn(c, d) ==
    \/ Levels(c, d) \/ d = Fresh
    \/ PlaysAt(c, d) \/ FadesIn(c, d) \/ FadesOut(c, d)
    \/ Cut(c, d) \/ Restored(c, d)
    \/ mx.pc = "check" /\ Faded(c, d, mx.ticks)
    \/ "Volume" \in Calls /\ Tuned(c, d)

\* The limit of a channel that starts is the one asked for.
Starts(d) ==
    d.paused = 0 /\ d.expire = d.due /\ (app.pc = "idle" \/ ~IsPlaying(d))

Limits(i, c, d) ==
    /\ i \in Allocated /\ \E ticks \in Timers : Mix_ExpireChannel(i, ticks)
    /\ d.paused = c.paused /\ d.expire = d.due /\ Same(c, d)

ClockTurn(i, c, d) ==
    \/ Clock(c, d) /\ (IsPlaying(d) => IsPlaying(c))
    \/ ~IsPlaying(d) /\ d.paused = c.paused
    \/ Starts(d)
    \/ Limits(i, c, d)
    \/ PauseOne /\ app.i < app.n /\ i = app.i /\ d = PausedAt(c, app.ticks)
    \/ ResumeAll /\ i \in app.i .. app.n - 1 /\ d = Resumed(c, app.ticks)
    \/ Tick /\ c.paused # 0 /\ IsPlaying(c) /\ c.due > 0 /\ d = [c EXCEPT !.due = @ + 1]

TurnsAt(i) == LevelTurn(ch[i], ch'[i]) /\ ClockTurn(i, ch[i], ch'[i])

LEMMA TurnsItself == ASSUME NEW i, ch'[i] = ch[i] PROVE TurnsAt(i)
  BY DEF TurnsAt, LevelTurn, ClockTurn, Levels, Clock

LEMMA TurnsFresh == ASSUME NEW i, ch'[i] = Fresh PROVE TurnsAt(i)
  BY DEF TurnsAt, LevelTurn, ClockTurn, Starts, Fresh, IsPlaying

LEMMA TurnsHalted ==
    ASSUME NEW i, ch[i] \in Channel, ch'[i] = Halted(ch[i]) PROVE TurnsAt(i)
  BY HaltedLevels DEF TurnsAt, LevelTurn, ClockTurn, Restored

\* One channel changes.
LEMMA TurnsOne ==
    ASSUME TypeOK, NEW j \in Ids, NEW d, ch' = [ch EXCEPT ![j] = d],
           LevelTurn(ch[j], d), ClockTurn(j, ch[j], d), NEW i \in Ids
    PROVE  TurnsAt(i)
<1>1. ch'[i] = IF i = j THEN d ELSE ch[i]
  BY TypesHere
<1>2. CASE i = j
  BY <1>1, <1>2 DEF TurnsAt
<1>3. CASE i # j
  BY <1>1, <1>3, TurnsItself
<1> QED
  BY <1>2, <1>3

LEMMA PlayTurns ==
    ASSUME TypeOK, NEW which \in Allocated \cup {-1}, NEW k \in Chunks,
           NEW loops \in Loops, NEW ticks \in Timers, NEW v \in Volumes,
           Mix_PlayChannelTimedVolume(which, k, loops, ticks, v), NEW i \in Ids
    PROVE  TurnsAt(i)
<1> DEFINE j == Target(which)
           d == Played(ch[j], k, loops, ticks, v)
<1>1. j \in Ids /\ ch[j] \in Channel /\ mx.pc = "idle" /\ app.pc = "idle"
  BY TypesHere DEF Mix_PlayChannelTimedVolume, Locked, Unlocked
<1>2. loops \in Int /\ ticks \in Int /\ v \in Int
  BY ArgumentAssumption
<1>3. ch' = [ch EXCEPT ![j] = d]
  BY DEF Mix_PlayChannelTimedVolume
<1> HIDE DEF j
<1>4. PlaysAt(ch[j], d) /\ Starts(d)
  BY <1>1, <1>2, TypesHere, PlayedLevels DEF PlaysAt, Starts
<1> HIDE DEF d
<1> QED
  BY <1>1, <1>3, <1>4, TurnsOne DEF LevelTurn, ClockTurn

LEMMA FadeInTurns ==
    ASSUME TypeOK, NEW which \in Allocated \cup {-1}, NEW k \in Chunks,
           NEW loops \in Loops, NEW ms \in Fades, NEW ticks \in Timers,
           NEW v \in Volumes,
           Mix_FadeInChannelTimedVolume(which, k, loops, ms, ticks, v), NEW i \in Ids
    PROVE  TurnsAt(i)
<1> DEFINE j == Target(which)
           d == FadedIn(ch[j], k, loops, ms, ticks, v)
<1>1. j \in Ids /\ ch[j] \in Channel /\ app.pc = "idle"
  BY TypesHere DEF Mix_FadeInChannelTimedVolume, Locked, Unlocked
<1>2. loops \in Int /\ ms \in Nat /\ ticks \in Int /\ v \in Int
  BY ArgumentAssumption
<1>3. ch' = [ch EXCEPT ![j] = d]
  BY DEF Mix_FadeInChannelTimedVolume
<1> HIDE DEF j
<1>4. FadesIn(ch[j], d) /\ Starts(d)
  BY <1>1, <1>2, TypesHere, FadedInLevels DEF FadesIn, Starts
<1> HIDE DEF d
<1> QED
  BY <1>1, <1>3, <1>4, TurnsOne DEF LevelTurn, ClockTurn

LEMMA FadeOutTurns ==
    ASSUME TypeOK, NEW j \in Allocated, NEW ms \in Fades, Mix_FadeOutChannel(j, ms),
           NEW i \in Ids
    PROVE  TurnsAt(i)
<1> DEFINE d == FadedOut(ch[j], ms)
<1>1. j \in Ids /\ ch[j] \in Channel /\ ms \in Nat /\ mx.pc = "idle" /\ ch[j].fading # "out"
  BY TypesHere, ArgumentAssumption DEF Mix_FadeOutChannel, Locked
<1>2. ch' = [ch EXCEPT ![j] = d]
  BY DEF Mix_FadeOutChannel
<1>3. FadesOut(ch[j], d) /\ Clock(ch[j], d) /\ Same(ch[j], d)
  BY <1>1, TypesHere, FadedOutLevels DEF FadesOut
<1> HIDE DEF d
<1> QED
  BY <1>1, <1>2, <1>3, TurnsOne DEF LevelTurn, ClockTurn, Same, IsPlaying

LEMMA ExpireTurns ==
    ASSUME TypeOK, NEW j \in Allocated, NEW ticks \in Timers,
           Mix_ExpireChannel(j, ticks), NEW i \in Ids
    PROVE  TurnsAt(i)
<1> DEFINE t == Deadline(ticks)
           d == WithTimer(ch[j], t)
<1>1. j \in Ids /\ ch[j] \in Channel /\ t \in Nat
  BY TypesHere, ArgumentAssumption, DeadlineType
<1>2. ch' = [ch EXCEPT ![j] = d]
  BY DEF Mix_ExpireChannel
<1> HIDE DEF t
<1>3. /\ Levels(ch[j], d) /\ d.paused = ch[j].paused /\ d.expire = d.due
      /\ Same(ch[j], d)
  BY <1>1, WithTimerLevels, WithTimerFields
<1> HIDE DEF d
<1>4. Limits(j, ch[j], d)
  BY <1>3 DEF Limits
<1> QED
  BY <1>1, <1>2, <1>3, <1>4, TurnsOne DEF LevelTurn, ClockTurn

LEMMA VolumeTurns ==
    ASSUME TypeOK, NEW j \in Allocated, NEW v \in Volumes, Mix_Volume(j, v), NEW i \in Ids
    PROVE  TurnsAt(i)
<1> DEFINE d == WithVolume(ch[j], v)
<1>1. j \in Ids /\ ch[j] \in Channel /\ v \in Int /\ "Volume" \in Calls
  BY TypesHere, ArgumentAssumption DEF Mix_Volume, Unlocked
<1>2. ch' = [ch EXCEPT ![j] = d]
  BY DEF Mix_Volume
<1>3. Tuned(ch[j], d) /\ Clock(ch[j], d) /\ Same(ch[j], d)
  BY <1>1, WithVolumeLevels, WithVolumeFields
<1> HIDE DEF d
<1> QED
  BY <1>1, <1>2, <1>3, TurnsOne DEF LevelTurn, ClockTurn, Same, IsPlaying

LEMMA EffectsLevels ==
    ASSUME NEW c \in Channel, NEW e, NEW d, d = [c EXCEPT !.effects = e]
    PROVE  Levels(c, d) /\ Clock(c, d) /\ (IsPlaying(d) => IsPlaying(c))
  BY DEF Channel, Levels, Clock, IsPlaying

LEMMA EffectTurns ==
    ASSUME TypeOK, NEW j \in Ids, NEW e, ch' = [ch EXCEPT ![j].effects = e], NEW i \in Ids
    PROVE  TurnsAt(i)
<1> DEFINE d == [ch[j] EXCEPT !.effects = e]
<1>1. ch[j] \in Channel
  BY TypesHere
<1>2. Levels(ch[j], d) /\ Clock(ch[j], d) /\ (IsPlaying(d) => IsPlaying(ch[j]))
  BY <1>1, EffectsLevels
<1>3. ch' = [ch EXCEPT ![j] = d]
  BY TypesHere
<1> HIDE DEF d
<1> QED
  BY <1>2, <1>3, TurnsOne DEF LevelTurn, ClockTurn

LEMMA PauseOneTurns == ASSUME TypeOK, Located, PauseOne, NEW i \in Ids PROVE TurnsAt(i)
<1>1. CASE ~(app.i < app.n)
  <2>1. ch'[i] = ch[i]
    BY <1>1 DEF PauseOne
  <2> QED
    BY <2>1, TurnsItself
<1>2. CASE app.i < app.n
  <2> DEFINE j == app.i
             d == PausedAt(ch[j], app.ticks)
  <2>1. j \in Ids
    BY <1>2, ChannelAssumption DEF Ids, Call, PauseOne, Located, CallLocated, TypeOK
  <2>2. ch[j] \in Channel
    BY <2>1, TypesHere
  <2>3. ch' = [ch EXCEPT ![j] = d]
    BY <1>2 DEF PauseOne
  <2>4. Levels(ch[j], d)
    BY <2>2 DEF PausedAt, Channel, Levels
  <2>5. ClockTurn(j, ch[j], d)
    BY <1>2 DEF ClockTurn
  <2> HIDE DEF d
  <2> QED
    BY <2>1, <2>3, <2>4, <2>5, TurnsOne DEF LevelTurn
<1> QED
  BY <1>1, <1>2

LEMMA ResumeAllTurns == ASSUME TypeOK, ResumeAll, NEW i \in Ids PROVE TurnsAt(i)
<1>1. CASE i \notin app.i .. app.n - 1
  <2>1. ch'[i] = ch[i]
    BY <1>1 DEF ResumeAll
  <2> QED
    BY <2>1, TurnsItself
<1>2. CASE i \in app.i .. app.n - 1
  <2> DEFINE d == Resumed(ch[i], app.ticks)
  <2>1. ch[i] \in Channel
    BY TypesHere
  <2>2. ch'[i] = d
    BY <1>2 DEF ResumeAll
  <2>3. Levels(ch[i], d)
    BY <2>1 DEF Resumed, Channel, Levels
  <2>4. ClockTurn(i, ch[i], d)
    BY <1>2 DEF ClockTurn
  <2> HIDE DEF d
  <2> QED
    BY <2>2, <2>3, <2>4 DEF TurnsAt, LevelTurn
<1> QED
  BY <1>1, <1>2

LEMMA TickTurns == ASSUME TypeOK, Tick, NEW i \in Ids PROVE TurnsAt(i)
<1>1. CASE ~(ch[i].paused # 0 /\ IsPlaying(ch[i]) /\ ch[i].due > 0)
  <2>1. ch'[i] = ch[i]
    BY <1>1 DEF Tick
  <2> QED
    BY <2>1, TurnsItself
<1>2. CASE ch[i].paused # 0 /\ IsPlaying(ch[i]) /\ ch[i].due > 0
  <2> DEFINE d == [ch[i] EXCEPT !.due = @ + 1]
  <2>1. ch[i] \in Channel
    BY TypesHere
  <2>2. ch'[i] = d
    BY <1>2 DEF Tick
  <2>3. Levels(ch[i], d)
    BY <2>1 DEF Channel, Levels
  <2>4. ClockTurn(i, ch[i], d)
    BY <1>2 DEF ClockTurn
  <2> HIDE DEF d
  <2> QED
    BY <2>2, <2>3, <2>4 DEF TurnsAt, LevelTurn
<1> QED
  BY <1>1, <1>2

LEMMA MixCheckTurns ==
    ASSUME TypeOK, Located, MixCheck, NEW i \in Ids PROVE TurnsAt(i)
<1> DEFINE c == ch[mx.i]
           d == IF c.paused = 0 THEN Timed(c, mx.ticks) ELSE c
<1>1. /\ mx.pc = "check" /\ mx.i < num_channels /\ ch' = [ch EXCEPT ![mx.i] = d]
  BY DEF MixCheck
<1>2. mx.i \in Ids /\ c \in Channel
  BY <1>1, HereType
<1>3. LevelTurn(c, d) /\ ClockTurn(mx.i, c, d)
  <2>1. CASE c.paused = 0
    <3>1. d = Timed(c, mx.ticks)
      BY <2>1
    <3> HIDE DEF c, d
    <3>2. /\ Levels(c, d) \/ Cut(c, d) \/ Restored(c, d) \/ Faded(c, d, mx.ticks)
          /\ \/ Clock(c, d) /\ (IsPlaying(d) => IsPlaying(c))
             \/ ~IsPlaying(d) /\ d.paused = c.paused
      BY <1>2, <3>1, TypesHere, TimedLevels
    <3> QED
      BY <1>1, <3>2 DEF LevelTurn, ClockTurn
  <2>2. CASE c.paused # 0
    <3>1. d = c
      BY <2>2
    <3> HIDE DEF c, d
    <3> QED
      BY <3>1 DEF LevelTurn, ClockTurn, Levels, Clock
  <2> QED
    BY <2>1, <2>2
<1> HIDE DEF d
<1> QED
  BY <1>1, <1>2, <1>3, TurnsOne

LEMMA MixDataTurns ==
    ASSUME TypeOK, Located, MixData, NEW i \in Ids PROVE TurnsAt(i)
<1> DEFINE c == ch[mx.i]
           room == Len - mx.index
           n == IF c.playing > room THEN room ELSE c.playing
           d == IF Mixed(c, n).playing = 0 /\ Mixed(c, n).looping = 0
                  THEN DonePlaying(WithTimer([Mixed(c, n) EXCEPT !.fading = "no"], 0))
                  ELSE Mixed(c, n)
<1>1. /\ mx.pc = "data" /\ mx.i < num_channels
      /\ c.playing > 0 /\ mx.index < Len /\ mx \in Callback
  BY DEF MixData, Located, CallbackLocated, TypeOK
<1>2. ch' = [ch EXCEPT ![mx.i] = d]
  BY DEF MixData
<1>3. mx.i \in Ids /\ c \in Channel
  BY <1>1, HereType
<1>4. n \in 1 .. c.playing
  <2>1. c.playing \in Nat /\ mx.index \in 0 .. Len /\ Len \in Nat
    BY <1>1, <1>3, ChunkAssumption DEF Channel, Callback
  <2> QED
    BY <1>1, <2>1
<1> HIDE DEF n, c
<1>5. /\ Levels(c, d) \/ Cut(c, d)
      /\ \/ Clock(c, d) /\ (IsPlaying(d) => IsPlaying(c))
         \/ ~IsPlaying(d) /\ d.paused = c.paused
  BY <1>3, <1>4, DataLevels
<1> HIDE DEF d
<1>6. LevelTurn(c, d) /\ ClockTurn(mx.i, c, d)
  BY <1>5 DEF LevelTurn, ClockTurn
<1> QED
  BY <1>2, <1>3, <1>6, TurnsOne DEF c

LEMMA MixRefillTurns ==
    ASSUME TypeOK, Located, MixRefill, NEW i \in Ids PROVE TurnsAt(i)
<1> DEFINE c == ch[mx.i]
           room == Len - mx.index
           n == IF room > Alen[c.chunk] THEN Alen[c.chunk] ELSE room
           d == Mixed([LoopTaken(c) EXCEPT !.pos = 0, !.playing = Alen[c.chunk]], n)
<1>1. /\ mx.pc = "refill" /\ mx.i < num_channels /\ mx.index < Len /\ c.looping # 0
      /\ mx \in Callback
  BY DEF MixRefill, Located, CallbackLocated, TypeOK
<1>2. ch' = [ch EXCEPT ![mx.i] = d]
  BY DEF MixRefill
<1>3. mx.i \in Ids /\ c \in Channel
  BY <1>1, HereType
<1>4. c.chunk \in Chunks /\ IsPlaying(c)
  BY <1>1, <1>3 DEF Located, PlayingLoaded, IsPlaying
<1>5. n \in 1 .. Alen[c.chunk]
  <2>1. Alen[c.chunk] \in Nat \ {0} /\ mx.index \in 0 .. Len /\ Len \in Nat
    BY <1>1, <1>4, ChunkAssumption DEF Callback
  <2> QED
    BY <1>1, <2>1
<1> HIDE DEF n, c
<1>6. Levels(c, d) /\ Clock(c, d)
  BY <1>3, <1>4, <1>5, RefillLevels
<1> HIDE DEF d
<1>7. LevelTurn(c, d) /\ ClockTurn(mx.i, c, d)
  BY <1>4, <1>6 DEF LevelTurn, ClockTurn
<1> QED
  BY <1>2, <1>3, <1>7, TurnsOne DEF c

LEMMA MixRewindTurns ==
    ASSUME TypeOK, Located, MixRewind, NEW i \in Ids PROVE TurnsAt(i)
<1> DEFINE c == ch[mx.i]
           e == [LoopTaken(c) EXCEPT !.pos = 0, !.playing = Alen[c.chunk]]
           d == IF c.playing = 0 /\ c.looping # 0 THEN e ELSE c
<1>1. mx.pc = "refill" /\ mx.i < num_channels
  BY DEF MixRewind, Located, CallbackLocated
<1>2. ch' = [ch EXCEPT ![mx.i] = d]
  BY DEF MixRewind
<1>3. mx.i \in Ids /\ c \in Channel
  BY <1>1, HereType
<1>4. LevelTurn(c, d) /\ ClockTurn(mx.i, c, d)
  <2>1. CASE c.playing = 0 /\ c.looping # 0
    <3>1. c.chunk \in Chunks /\ IsPlaying(c)
      BY <1>3, <2>1 DEF Located, PlayingLoaded, IsPlaying
    <3>2. d = e
      BY <2>1
    <3> HIDE DEF c, d
    <3>3. Levels(c, d) /\ Clock(c, d)
      BY <1>3, <3>1, <3>2, RewoundLevels
    <3> QED
      BY <3>1, <3>3 DEF LevelTurn, ClockTurn
  <2>2. CASE ~(c.playing = 0 /\ c.looping # 0)
    <3>1. d = c
      BY <2>2
    <3> HIDE DEF c, d
    <3> QED
      BY <3>1 DEF LevelTurn, ClockTurn, Levels, Clock
  <2> QED
    BY <2>1, <2>2
<1> HIDE DEF d
<1> QED
  BY <1>2, <1>3, <1>4, TurnsOne

LEMMA AllTurns ==
    ASSUME TypeOK, Located, [Next]_vars, NEW i \in Ids PROVE TurnsAt(i)
<1> USE TypesHere
<1>1. CASE AppStart
  <2>1. ASSUME NEW range \in Named, Mix_HaltChannel(range) PROVE TurnsAt(i)
    BY <2>1, TurnsItself, TurnsHalted DEF Mix_HaltChannel
  <2>2. ASSUME NEW k \in Chunks, FreeChunkHalt(k) \/ Mix_LoadWAV(k) PROVE TurnsAt(i)
    BY <2>2, TurnsItself, TurnsHalted DEF FreeChunkHalt, Mix_LoadWAV
  <2>3. ASSUME NEW n \in 0 .. MaxChannels,
               AllocateMore(n) \/ AllocateFewer(n) \/ Mix_ReserveChannels(n)
        PROVE  TurnsAt(i)
    BY <2>3, TurnsItself, TurnsFresh DEF AllocateMore, AllocateFewer, Mix_ReserveChannels
  <2> QED
    BY <1>1, <2>1, <2>2, <2>3, PlayTurns, FadeInTurns DEF AppStart
<1>2. CASE AppAdjust
  <2>1. ASSUME NEW j \in Allocated, Mix_RegisterEffect(j) \/ Mix_UnregisterEffect(j)
        PROVE  TurnsAt(i)
    <3>1. \E e : ch' = [ch EXCEPT ![j].effects = e]
      BY <2>1 DEF Mix_RegisterEffect, Mix_UnregisterEffect
    <3> QED
      BY <3>1, EffectTurns
  <2>2. ASSUME NEW range \in Named, Mix_Pause(range) \/ Mix_Resume(range)
        PROVE  TurnsAt(i)
    BY <2>2, TurnsItself DEF Mix_Pause, Mix_Resume
  <2> QED
    BY <1>2, <2>1, <2>2, FadeOutTurns, ExpireTurns, VolumeTurns DEF AppAdjust
<1>3. CASE AppContinue
  <2>1. CASE AllocateUnregister
    <3>1. app.i \in Ids
      BY <2>1, ChannelAssumption
         DEF AllocateUnregister, Located, CallLocated, TypeOK, Call, Ids
    <3> QED
      BY <2>1, <3>1, EffectTurns DEF AllocateUnregister
  <2>2. CASE AllocateHalt
    <3>1. ch'[i] = ch[i] \/ ch'[i] = Halted(ch[i])
      BY <2>2 DEF AllocateHalt
    <3> QED
      BY <3>1, TurnsItself, TurnsHalted
  <2>3. CASE AllocateRealloc \/ AllocateFails \/ FreeChunkRelease
    BY <2>3, TurnsItself, TurnsFresh DEF AllocateRealloc, AllocateFails, FreeChunkRelease
  <2> QED
    BY <1>3, <2>1, <2>2, <2>3, PauseOneTurns, ResumeAllTurns DEF AppContinue
<1>4. CASE MixBegin \/ MixStep
  <2>1. CASE MixBegin \/ MixEnd
    BY <2>1, TurnsItself DEF MixBegin, MixEnd
  <2> QED
    BY <1>4, <2>1, MixCheckTurns, MixDataTurns, MixRefillTurns, MixRewindTurns DEF MixStep
<1>5. CASE Tick
  BY <1>5, TickTurns
<1>6. CASE UNCHANGED vars
  BY <1>6, TurnsItself DEF vars
<1> QED
  BY <1>1, <1>2, <1>3, <1>4, <1>5, <1>6 DEF Next

\* Channels are new only when they are allocated.
LEMMA NewFresh ==
    ASSUME TypeOK, Located, [Next]_vars, NEW i \in Ids, i < num_channels'
    PROVE  i < num_channels \/ ch'[i] = Fresh
<1>1. i \in Int /\ num_channels \in Int /\ num_channels' \in Int
  BY NextGood, ChannelAssumption DEF Good, TypeOK, Ids
<1>2. CASE \E n \in 0 .. MaxChannels : AllocateMore(n)
  BY <1>1, <1>2 DEF AllocateMore
<1>3. CASE \E k \in Chunks : FreeChunkHalt(k)
  BY <1>3 DEF FreeChunkHalt
<1>4. CASE FreeChunkRelease
  BY <1>4 DEF FreeChunkRelease
<1>5. CASE num_channels' <= num_channels
  BY <1>1, <1>5
<1> QED
  BY <1>2, <1>3, <1>4, <1>5, ReleaseFrame

-----------------------------------------------------------------------------
(* The volume after a fade.                                                 *)

\* A channel's own volume is set aside while it fades, and only what has neither
\* an end nor a limit of its own fades.
SetAside(c) ==
    /\ c.wanted = IF c.fading = "no" THEN c.volume ELSE c.fade_volume_reset
    /\ c.fading # "no" => c.looping = -1 /\ c.expire = 0

LEMMA SetAsideKept ==
    ASSUME NEW c, NEW d, LevelTurn(c, d), SetAside(c),
           c.fading # "no" => d.wanted = c.wanted,
           d.fading # "no" => d.looping = -1 /\ d.expire = 0,
           mx.pc = "idle" /\ c.fading # "no" /\ IsPlaying(d) => d.fading # "no"
    PROVE  SetAside(d)
<1>1. SetAside(Fresh)
  BY DEF SetAside, Fresh
<1>2. CASE Levels(c, d)
  BY <1>2 DEF Levels, SetAside
<1>3. CASE PlaysAt(c, d)
  BY <1>3 DEF PlaysAt, SetAside
<1>4. CASE FadesIn(c, d)
  BY <1>4 DEF FadesIn, SetAside
<1>5. CASE FadesOut(c, d)
  BY <1>5 DEF FadesOut, SetAside
<1>6. CASE Cut(c, d)
  BY <1>6 DEF Cut, SetAside
<1>7. CASE Restored(c, d)
  BY <1>7 DEF Restored, SetAside
<1>8. CASE Faded(c, d, mx.ticks)
  BY <1>8 DEF Faded, SetAside
<1>9. CASE Tuned(c, d)
  BY <1>9 DEF Tuned, SetAside
<1> QED
  BY <1>1, <1>2, <1>3, <1>4, <1>5, <1>6, <1>7, <1>8, <1>9 DEF LevelTurn

\* Whatever fades, breaks off and is faded again, a channel that has stopped fading
\* has the volume the application last gave it: for an application that fades
\* sounds without end or limit and sets no volume meanwhile.  For others it is
\* false: a limit, the end of a sound and another sound put an end to a fade
\* without restoring the volume.
THEOREM VolumeGivenBack == EndlessFadesSpec => []VolumeRestored
<1> DEFINE Inv == \A i \in Ids : i < num_channels => SetAside(ch[i])
           Step == Next /\ FadesEndless /\ VolumesHeld
<1>1. Init => Inv
  BY DEF Init, SetAside, Fresh
<1>2. TypeOK /\ Located /\ Inv /\ [Step]_vars => Inv'
  <2> SUFFICES ASSUME TypeOK, Located, Inv, [Step]_vars, NEW i \in Ids, i < num_channels'
               PROVE  SetAside(ch'[i])
    BY DEF SetAside
  <2>1. CASE UNCHANGED vars
    BY <2>1 DEF vars
  <2>2. CASE Step /\ i < num_channels
    <3>1. i \in Allocated
      BY <2>2 DEF Allocated, Ids, TypeOK
    <3>2. /\ ch[i].fading # "no" => ch'[i].wanted = ch[i].wanted
          /\ ch'[i].fading # "no" => ch'[i].looping = -1 /\ ch'[i].expire = 0
          /\ mx.pc = "idle" /\ ch[i].fading # "no" /\ IsPlaying(ch'[i])
               => ch'[i].fading # "no"
      BY <2>2, <3>1 DEF FadesEndless, VolumesHeld
    <3>3. LevelTurn(ch[i], ch'[i])
      BY <2>2, AllTurns DEF TurnsAt
    <3> QED
      BY <2>2, <3>2, <3>3, SetAsideKept
  <2>3. CASE Step /\ ~(i < num_channels)
    BY <2>3, NewFresh DEF SetAside, Fresh
  <2> QED
    BY <2>1, <2>2, <2>3
<1>3. TypeOK /\ Inv => VolumeRestored
  <2> SUFFICES ASSUME TypeOK, Inv, NEW i \in Allocated PROVE SetAside(ch[i])
    BY DEF VolumeRestored, SetAside
  <2> QED
    BY TypesHere DEF Allocated, TypeOK
<1>4. TypeOK /\ Located /\ [Step]_vars => (TypeOK /\ Located)'
  BY NextGood DEF Good
<1> QED
  BY <1>1, <1>2, <1>3, <1>4, InitLocated, PTL DEF EndlessFadesSpec

-----------------------------------------------------------------------------
(* How loud a fade-out is.                                                  *)

LEMMA ScaledFalls ==
    ASSUME NEW a \in Nat, NEW n \in Nat, NEW x \in Int, NEW y \in Int,
           0 <= x, x <= y, y < n
    PROVE  /\ (a * (n - y)) \div n \in Nat /\ (a * (n - x)) \div n \in Nat
           /\ (a * (n - y)) \div n <= (a * (n - x)) \div n
           /\ (a * (n - x)) \div n <= a
<1> DEFINE p == a * (n - y)
           q == a * (n - x)
<1>1. p \in Nat /\ q \in Nat /\ p <= q /\ q <= a * n
  <2>1. a * (n - y) = a * n - a * y /\ a * (n - x) = a * n - a * x
    OBVIOUS
  <2>2. a * x <= a * y /\ 0 <= a * x /\ a * y <= a * n
    OBVIOUS
  <2>3. a * x \in Int /\ a * y \in Int /\ a * n \in Int
    OBVIOUS
  <2> HIDE DEF p, q
  <2> QED
    BY <2>1, <2>2, <2>3 DEF p, q
<1>2. a * n \in Nat /\ (a * n) \div n = a
  OBVIOUS
<1>3. \A u \in Nat, v \in Nat : u <= v => u \div n <= v \div n /\ u \div n \in Nat
  OBVIOUS
<1> HIDE DEF p, q
<1>4. p \div n <= q \div n /\ p \div n \in Nat
  BY <1>1, <1>3
<1>5. q \div n <= a /\ q \div n \in Nat
  BY <1>1, <1>2, <1>3
<1> QED
  BY <1>4, <1>5 DEF p, q

\* The tick the callback goes by, or will go by if it begins now.
MixTick == IF mx.pc = "idle" THEN now ELSE mx.ticks

\* The fade is never softer than it will be at that tick.
AsLoud(c, tick) ==
    c.fading = "out" =>
        /\ c.ticks_fade <= tick
        /\ tick - c.ticks_fade < c.fade_length =>
             c.volume >= Scaled(c, tick - c.ticks_fade)

LEMMA MixTickGrows ==
    ASSUME TypeOK, Located, [Next]_vars, mx.pc # "idle" => mx.ticks <= now
    PROVE  /\ MixTick <= MixTick' /\ MixTick \in Int /\ MixTick' \in Int
           /\ mx'.pc # "idle" => mx'.ticks <= now'
<1>1. mx.ticks \in Int /\ mx'.ticks \in Int
  <2>1. TypeOK'
    BY NextGood DEF Good
  <2>2. mx \in Callback /\ mx' \in Callback
    BY <2>1 DEF TypeOK
  <2> QED
    BY <2>2, ClockAssumption DEF Callback
<1> QED
  BY <1>1, TicksKept DEF MixTick

LEMMA AsLoudKept ==
    ASSUME "Volume" \notin Calls, NEW c \in Channel, NEW d \in Channel,
           LevelTurn(c, d), NEW t \in 0 .. LastTick, t = MixTick, NEW u \in Int, t <= u,
           AsLoud(c, t)
    PROVE  /\ AsLoud(d, u)
           /\ c.fading = "out" /\ d.fading = "out" =>
                d.volume <= c.volume /\ d.fade_volume_reset = c.fade_volume_reset
<1> SUFFICES ASSUME d.fading = "out"
             PROVE  /\ AsLoud(d, u)
                    /\ c.fading = "out" =>
                         d.volume <= c.volume /\ d.fade_volume_reset = c.fade_volume_reset
  BY DEF AsLoud
<1>1. /\ c.fade_volume \in Nat /\ d.fade_volume \in Nat
      /\ c.volume \in Nat /\ d.volume \in Nat
      /\ c.fade_volume <= MIX_MAX_VOLUME /\ MIX_MAX_VOLUME \in Nat
      /\ c.fade_length \in Nat /\ d.fade_length \in Nat
      /\ c.ticks_fade \in 0 .. LastTick /\ d.ticks_fade \in Int
  BY ChannelAssumption DEF Channel, Volume
<1>2. LastTick \in Nat
  BY ClockAssumption
<1>3. CASE Levels(c, d)
  <2>1. /\ c.ticks_fade <= t
        /\ t - c.ticks_fade < c.fade_length => c.volume >= Scaled(c, t - c.ticks_fade)
    BY <1>3 DEF AsLoud, Levels
  <2>2. Scaled(d, u - c.ticks_fade) = Scaled(c, u - c.ticks_fade)
    BY <1>3 DEF Levels, Scaled
  <2>3. u - c.ticks_fade < c.fade_length =>
          /\ Scaled(c, u - c.ticks_fade) <= Scaled(c, t - c.ticks_fade)
          /\ Scaled(c, u - c.ticks_fade) \in Nat /\ Scaled(c, t - c.ticks_fade) \in Nat
    <3> DEFINE x == t - c.ticks_fade
               y == u - c.ticks_fade
    <3>1. x \in Int /\ y \in Int /\ 0 <= x /\ x <= y
      BY <1>1, <1>2, <2>1
    <3> HIDE DEF x, y
    <3>2. y < c.fade_length => /\ Scaled(c, y) <= Scaled(c, x)
                               /\ Scaled(c, y) \in Nat /\ Scaled(c, x) \in Nat
      BY <1>1, <3>1, ScaledFalls DEF Scaled
    <3> QED
      BY <3>2 DEF x, y
  <2>4. c.ticks_fade <= u /\ (u - c.ticks_fade < c.fade_length => t - c.ticks_fade < c.fade_length)
    BY <1>1, <1>2, <2>1
  <2>5. /\ d.ticks_fade = c.ticks_fade /\ d.fade_length = c.fade_length
        /\ d.volume = c.volume /\ d.fade_volume_reset = c.fade_volume_reset
    BY <1>3 DEF Levels
  <2>6. u - c.ticks_fade < c.fade_length => d.volume >= Scaled(d, u - c.ticks_fade)
    <3> HIDE DEF Scaled
    <3> SUFFICES ASSUME u - c.ticks_fade < c.fade_length
                 PROVE  d.volume >= Scaled(c, u - c.ticks_fade)
      BY <2>2
    <3> DEFINE m == Scaled(c, u - c.ticks_fade)
               n == Scaled(c, t - c.ticks_fade)
    <3>1. m <= n /\ m \in Nat /\ n \in Nat /\ c.volume >= n
      BY <2>1, <2>3, <2>4
    <3> HIDE DEF m, n
    <3>2. c.volume >= m
      BY <1>1, <3>1
    <3> QED
      BY <2>5, <3>2 DEF m
  <2> QED
    BY <1>1, <2>4, <2>5, <2>6 DEF AsLoud
<1>4. CASE FadesOut(c, d)
  <2>1. /\ d.volume = d.fade_volume /\ d.ticks_fade = t /\ c.fading # "out"
    BY <1>4 DEF FadesOut, MixTick
  <2>2. u - t < d.fade_length => Scaled(d, u - t) <= d.volume
    <3> DEFINE x == u - t
    <3>1. x \in Int /\ 0 <= x
      BY <1>2
    <3> HIDE DEF x
    <3>2. x < d.fade_length => Scaled(d, x) <= d.volume
      BY <1>1, <2>1, <3>1, ScaledFalls DEF Scaled
    <3> QED
      BY <3>2 DEF x
  <2>3. Scaled(d, u - t) \in Int \/ ~(u - t < d.fade_length)
    <3> DEFINE x == u - t
    <3>1. x \in Int /\ 0 <= x
      BY <1>2
    <3> HIDE DEF x
    <3>2. x < d.fade_length => Scaled(d, x) \in Int
      BY <1>1, <3>1, ScaledFalls DEF Scaled
    <3> QED
      BY <3>2 DEF x
  <2> QED
    BY <1>1, <2>1, <2>2, <2>3 DEF AsLoud
<1>5. CASE mx.pc = "check" /\ Faded(c, d, mx.ticks)
  <2> DEFINE x == t - c.ticks_fade
             y == u - c.ticks_fade
             s == Scaled(c, x)
  <2>1. t = mx.ticks /\ c.fading = "out"
    BY <1>5 DEF MixTick, Faded
  <2>2. /\ c.ticks_fade <= t
        /\ x < c.fade_length => c.volume >= s
    BY <2>1 DEF AsLoud
  <2>3. Elapsed(mx.ticks, c.ticks_fade) = x
    BY <1>1, <1>2, <2>1, <2>2 DEF Elapsed
  <2>4. x < c.fade_length /\ d.volume = Clamped(s)
    BY <1>5, <2>1, <2>3 DEF Faded
  <2>5. /\ d.ticks_fade = c.ticks_fade /\ d.fade_length = c.fade_length
        /\ d.fade_volume = c.fade_volume /\ d.fade_volume_reset = c.fade_volume_reset
    BY <1>5 DEF Faded
  <2>6. x \in Int /\ y \in Int /\ 0 <= x /\ x <= y
    BY <1>1, <1>2, <2>2
  <2> HIDE DEF x, y
  <2>7. s \in Nat /\ s <= c.fade_volume
    BY <1>1, <2>4, <2>6, ScaledFalls DEF Scaled
  <2>8. y < c.fade_length => Scaled(d, y) <= s /\ Scaled(d, y) \in Nat
    BY <1>1, <2>5, <2>6, ScaledFalls DEF Scaled
  <2>9. s <= MIX_MAX_VOLUME
    BY <1>1, <2>7
  <2> HIDE DEF s
  <2>10. d.volume = s
    BY <1>1, <2>4, <2>7, <2>9 DEF Clamped
  <2>11. y < d.fade_length => d.volume >= Scaled(d, y)
    BY <2>5, <2>7, <2>8, <2>10
  <2>12. d.ticks_fade <= u
    BY <1>1, <1>2, <2>2, <2>5
  <2>13. AsLoud(d, u)
    BY <2>5, <2>11, <2>12 DEF AsLoud, y
  <2> QED
    BY <1>1, <2>2, <2>4, <2>5, <2>7, <2>10, <2>13
<1> QED
  BY <1>3, <1>4, <1>5
    DEF LevelTurn, PlaysAt, FadesIn, Cut, Restored, Fresh

\* Of a fade-out the mixer never hears a step up, whatever the lengths of the fade
\* and of the buffers, the volumes and the pauses: the rounded steps fall with the
\* clock, no fade-out is begun a second time, and no call but Mix_Volume moves the
\* volume of a channel that fades out or the one to be restored after it.
THEOREM FadesOutSoftly ==
    ASSUME "Volume" \notin Calls
    PROVE  Spec => FadeOutNeverLouder
<1> DEFINE Inv == /\ mx.pc # "idle" => mx.ticks <= now
                  /\ \A i \in Ids : AsLoud(ch[i], MixTick)
           Falls == \A i \in Allocated :
                      (ch[i].fading = "out" /\ ch'[i].fading = "out") =>
                        /\ ch'[i].volume <= ch[i].volume
                        /\ ch'[i].fade_volume_reset = ch[i].fade_volume_reset
<1>1. Init => Inv
  BY DEF Init, AsLoud, Fresh, MixIdle
<1>2. TypeOK /\ Located /\ Inv /\ [Next]_vars => Inv' /\ Falls
  <2> SUFFICES ASSUME TypeOK, Located, Inv, [Next]_vars PROVE Inv' /\ Falls
    OBVIOUS
  <2>1. /\ MixTick <= MixTick' /\ MixTick' \in Int
        /\ mx'.pc # "idle" => mx'.ticks <= now'
    BY MixTickGrows
  <2>2. MixTick \in 0 .. LastTick
    BY TypesHere DEF MixTick
  <2>3. ASSUME NEW i \in Ids
        PROVE  /\ AsLoud(ch'[i], MixTick')
               /\ ch[i].fading = "out" /\ ch'[i].fading = "out" =>
                    /\ ch'[i].volume <= ch[i].volume
                    /\ ch'[i].fade_volume_reset = ch[i].fade_volume_reset
    <3>1. ch[i] \in Channel /\ ch'[i] \in Channel
      BY NextGood DEF Good, TypeOK
    <3>2. LevelTurn(ch[i], ch'[i])
      BY AllTurns DEF TurnsAt
    <3> QED
      BY <2>1, <2>2, <3>1, <3>2, AsLoudKept
  <2>4. Falls
    BY <2>3, TypesHere
  <2>5. \A i \in Ids : AsLoud(ch[i], MixTick)'
    <3> TAKE i \in Ids
    <3>1. AsLoud(ch'[i], MixTick')
      BY <2>3
    <3> QED
      BY <3>1 DEF AsLoud, Scaled
  <2> QED
    BY <2>1, <2>4, <2>5
<1>3. TypeOK /\ Located /\ [Next]_vars => (TypeOK /\ Located)'
  BY NextGood DEF Good
<1>4. Falls => [Falls]_vars
  OBVIOUS
<1> HIDE DEF Inv, Falls
<1>5. Spec => [][Falls]_vars
  BY <1>1, <1>2, <1>3, <1>4, InitLocated, PTL DEF Spec
<1> QED
  BY <1>5 DEF Falls, FadeOutNeverLouder

-----------------------------------------------------------------------------
(* Pauses and limits.                                                       *)

Sweeping == {"pausing", "resuming"}

\* The clock only moves in a Tick, and a call that pauses or resumes channels goes
\* on with the tick and the channels it began with.
LEMMA SweepFrame ==
    ASSUME TypeOK, Located, [Next]_vars
    PROVE  /\ Tick \/ now' = now
           /\ \/ app'.pc \notin Sweeping
              \/ app' = app
              \/ PauseOne /\ app.i < app.n /\ app' = [app EXCEPT !.i = @ + 1]
              \/ \E range \in Named : Mix_Pause(range) \/ Mix_Resume(range)
<1> DEFINE Calm == /\ now' = now
                   /\ app'.pc \notin Sweeping \/ app' = app
<1>1. app \in Call
  BY DEF TypeOK
<1>2. Idle.pc \notin Sweeping
  BY DEF Idle, Sweeping
<1>3. CASE AppStart
  <2>1. ASSUME NEW range \in Named, Mix_HaltChannel(range) PROVE Calm
    BY <2>1 DEF Mix_HaltChannel
  <2>2. ASSUME NEW k \in Chunks, FreeChunkHalt(k) \/ Mix_LoadWAV(k) PROVE Calm
    <3>1. now' = now
      BY <2>2 DEF FreeChunkHalt, Mix_LoadWAV
    <3>2. app'.pc = "free" \/ app' = app
      BY <2>2 DEF FreeChunkHalt, Mix_LoadWAV, Idle
    <3> QED
      BY <3>1, <3>2 DEF Sweeping
  <2>3. ASSUME NEW n \in 0 .. MaxChannels,
               AllocateMore(n) \/ AllocateFewer(n) \/ Mix_ReserveChannels(n)
        PROVE  Calm
    <3>1. now' = now
      BY <2>3 DEF AllocateMore, AllocateFewer, Mix_ReserveChannels
    <3>2. app'.pc = "unregister" \/ app' = app
      BY <2>3 DEF AllocateMore, AllocateFewer, Mix_ReserveChannels, Idle
    <3> QED
      BY <3>1, <3>2 DEF Sweeping
  <2>4. ASSUME NEW which, NEW k, NEW loops, NEW ms, NEW ticks, NEW v,
               Mix_PlayChannelTimedVolume(which, k, loops, ticks, v)
                 \/ Mix_FadeInChannelTimedVolume(which, k, loops, ms, ticks, v)
        PROVE  Calm
    BY <2>4 DEF Mix_PlayChannelTimedVolume, Mix_FadeInChannelTimedVolume
  <2> HIDE DEF Calm
  <2>5. Calm
    BY <1>3, <2>1, <2>2, <2>3, <2>4 DEF AppStart
  <2> QED
    BY <2>5 DEF Calm
<1>4. CASE AppAdjust
  <2>1. ASSUME NEW range \in Named, Mix_Pause(range) \/ Mix_Resume(range)
        PROVE  now' = now
    BY <2>1 DEF Mix_Pause, Mix_Resume
  <2>2. ASSUME NEW i, NEW x, \/ Mix_FadeOutChannel(i, x) \/ Mix_ExpireChannel(i, x)
                             \/ Mix_Volume(i, x) \/ Mix_RegisterEffect(i)
                             \/ Mix_UnregisterEffect(i)
        PROVE  Calm
    BY <2>2 DEF Mix_FadeOutChannel, Mix_ExpireChannel, Mix_Volume,
                Mix_RegisterEffect, Mix_UnregisterEffect
  <2> QED
    BY <1>4, <2>1, <2>2 DEF AppAdjust
<1>5. CASE PauseOne
  <2>1. /\ now' = now
        /\ \/ app' = Idle
           \/ app.i < app.n /\ app' = [app EXCEPT !.i = @ + 1]
    BY <1>5 DEF PauseOne
  <2> QED
    BY <1>2, <1>5, <2>1
<1>6. CASE ResumeAll \/ AllocateRealloc \/ AllocateFails \/ FreeChunkRelease
  BY <1>2, <1>6 DEF ResumeAll, AllocateRealloc, AllocateFails, FreeChunkRelease
<1>7. CASE AllocateUnregister \/ AllocateHalt
  <2>1. now' = now
    BY <1>7 DEF AllocateUnregister, AllocateHalt
  <2>2. \/ app' = [app EXCEPT !.pc = "halt"]
        \/ \E i, pc : /\ app' = [app EXCEPT !.i = i, !.pc = pc]
                      /\ pc \in {"unregister", "realloc"}
    BY <1>7 DEF AllocateUnregister, AllocateHalt
  <2>3. app'.pc \in {"unregister", "halt", "realloc"}
    BY <1>1, <2>2 DEF Call
  <2> QED
    BY <2>1, <2>3 DEF Sweeping
<1>8. CASE MixBegin \/ MixStep \/ UNCHANGED vars
  BY <1>8 DEF MixBegin, MixStep, MixEnd, MixCheck, MixData, MixRefill, MixRewind, vars
<1>9. CASE Tick
  BY <1>9 DEF Tick
<1> QED
  BY <1>3, <1>4, <1>5, <1>6, <1>7, <1>8, <1>9 DEF Next, AppContinue

\* What the limit the application asked for is ahead of the mixer's: the time the
\* channel has been paused, which the mixer adds when it is resumed.
Late(c, t) == IF c.paused = 0 THEN 0 ELSE t - c.paused
Suspended(c, t) ==
    /\ c.paused <= t
    /\ IsPlaying(c) /\ c.expire > 0 => c.due = c.expire + Late(c, t)

\* While a call pauses or resumes channels, those it has not reached are still to be
\* paused or resumed, at a tick that is past.
SweepAhead ==
    /\ app.pc \in Sweeping => app.ticks <= now /\ app.ticks # 0
    /\ app.pc = "pausing" =>
         \A i \in Ids : i \in app.i .. app.n - 1 /\ IsPlaying(ch[i]) => ch[i].paused = 0
    /\ app.pc = "resuming" =>
         \A i \in Ids : /\ ch[i].paused <= app.ticks
                        /\ i \in app.i .. app.n - 1 /\ IsPlaying(ch[i]) => ch[i].paused # 0

\* One turn of a channel, while the clock stands still.
LEMMA SuspendedKept ==
    ASSUME NEW i, NEW c \in Channel, NEW d \in Channel, ClockTurn(i, c, d), ~Tick,
           now \in Nat, app.ticks \in Nat, Suspended(c, now),
           Limits(i, c, d) => c.paused = 0,
           app.pc \in Sweeping => app.ticks <= now /\ app.ticks # 0,
           PauseOne /\ app.i < app.n /\ i = app.i /\ IsPlaying(c) => c.paused = 0,
           ResumeAll /\ i \in app.i .. app.n - 1 /\ IsPlaying(c) =>
             c.paused # 0 /\ c.paused <= app.ticks
    PROVE  Suspended(d, now)
<1>1. /\ c.paused \in Nat /\ d.paused \in Nat /\ c.expire \in Nat /\ d.expire \in Nat
      /\ c.due \in Int /\ d.due \in Int
  BY ClockAssumption DEF Channel
<1>2. CASE Clock(c, d) /\ (IsPlaying(d) => IsPlaying(c))
  BY <1>2 DEF Clock, Suspended, Late
<1>3. CASE ~IsPlaying(d) /\ d.paused = c.paused
  BY <1>3 DEF Suspended
<1>4. CASE Starts(d)
  BY <1>1, <1>4 DEF Starts, Suspended, Late
<1>5. CASE Limits(i, c, d)
  <2>1. c.paused = 0 /\ d.paused = 0 /\ d.expire = d.due
    BY <1>5 DEF Limits
  <2> QED
    BY <1>1, <2>1 DEF Suspended, Late
<1>6. CASE PauseOne /\ app.i < app.n /\ i = app.i /\ d = PausedAt(c, app.ticks)
  <2>1. CASE ~IsPlaying(c)
    <3>1. d = c
      BY <1>6, <2>1 DEF PausedAt
    <3> QED
      BY <3>1
  <2>2. CASE IsPlaying(c)
    <3>1. app.ticks <= now /\ app.ticks # 0
      BY <1>6 DEF PauseOne, Sweeping
    <3>2. c.paused = 0
      BY <1>6, <2>2
    <3> DEFINE p == app.ticks
               u == IF c.paused = 0 /\ c.due > 0 THEN c.due + (now - p) ELSE c.due
    <3>3. d = [c EXCEPT !.paused = p, !.due = u]
      BY <1>6, <2>2 DEF PausedAt
    <3>4. IsPlaying(c) /\ c.expire > 0 => c.due = c.expire + 0
      BY <3>2 DEF Suspended, Late
    <3>5. c.expire > 0 => u = c.expire + (now - p)
      BY <1>1, <2>2, <3>2, <3>4
    <3> HIDE DEF p, u
    <3>6. d.paused = p /\ d.due = u /\ d.expire = c.expire
      BY <3>3 DEF Channel
    <3> QED
      BY <3>1, <3>5, <3>6 DEF Suspended, Late, p
  <2> QED
    BY <2>1, <2>2
<1>7. CASE ResumeAll /\ i \in app.i .. app.n - 1 /\ d = Resumed(c, app.ticks)
  <2>1. CASE ~IsPlaying(c)
    <3>1. d = c
      BY <1>7, <2>1 DEF Resumed
    <3> QED
      BY <3>1
  <2>2. CASE IsPlaying(c)
    <3>1. app.ticks <= now /\ c.paused # 0 /\ c.paused <= app.ticks
      BY <1>7, <2>2 DEF ResumeAll, Sweeping
    <3> DEFINE e == IF c.expire > 0 THEN c.expire + Elapsed(app.ticks, c.paused)
                                    ELSE c.expire
               u == IF c.paused # 0 /\ c.due > 0 THEN c.due - (now - app.ticks)
                                                 ELSE c.due
    <3>2. d = [c EXCEPT !.expire = e, !.due = u, !.paused = 0]
      BY <1>7, <2>2 DEF Resumed
    <3>3. c.expire > 0 => c.due = c.expire + (now - c.paused)
      BY <2>2, <3>1 DEF Suspended, Late
    <3>4. Elapsed(app.ticks, c.paused) = app.ticks - c.paused
      BY <1>1, <3>1 DEF Elapsed
    <3>5. e > 0 => u = e
      BY <1>1, <3>1, <3>3, <3>4
    <3> HIDE DEF e, u
    <3>6. d.paused = 0 /\ d.due = u /\ d.expire = e
      BY <3>2 DEF Channel
    <3>7. u + 0 = u
      BY <1>1, <3>6
    <3> QED
      BY <3>5, <3>6, <3>7 DEF Suspended, Late
  <2> QED
    BY <2>1, <2>2
<1> QED
  BY <1>2, <1>3, <1>4, <1>5, <1>6, <1>7 DEF ClockTurn

\* A sweep begun or gone on with still has before it only what it is to change.
LEMMA SweepKept ==
    ASSUME FirstTick # 0, TypeOK, Located, [Next]_vars, PausedOnce \/ UNCHANGED vars,
           SweepAhead, \A i \in Ids : ch[i].paused <= now
    PROVE  SweepAhead'
<1>1. /\ now <= now' /\ now \in Int /\ now' \in Int /\ app.ticks \in Int
      /\ app \in Call /\ \A i \in Ids : ch[i] \in Channel /\ ch[i].paused \in Nat
  BY TicksKept, TypesHere, ClockAssumption DEF TypeOK, Channel
<1>2. CASE app'.pc \notin Sweeping
  BY <1>2 DEF SweepAhead, Sweeping
<1>3. CASE \E range \in Named : Mix_Pause(range) \/ Mix_Resume(range)
  <2>1. PICK range \in Named : Mix_Pause(range) \/ Mix_Resume(range)
    BY <1>3
  <2>2. ch' = ch /\ now' = now
    BY <2>1 DEF Mix_Pause, Mix_Resume
  <2>3. \E pc \in Sweeping :
          /\ app' = [Idle EXCEPT !.pc = pc, !.i = range[1], !.n = range[2], !.ticks = now]
          /\ pc = "pausing" => Mix_Pause(range)
          /\ pc = "resuming" => Mix_Resume(range)
    BY <2>1 DEF Mix_Pause, Mix_Resume, Sweeping
  <2>4. /\ app'.i = range[1] /\ app'.n = range[2] /\ app'.ticks = now
        /\ app'.pc = "pausing" => Mix_Pause(range)
        /\ app'.pc = "resuming" => Mix_Resume(range)
    BY <2>3 DEF Idle
  <2>5. PausedOnce
    <3>1. app' # app
      BY <2>1, <2>3 DEF Mix_Pause, Mix_Resume, Unlocked, Sweeping, Idle
    <3> QED
      BY <3>1 DEF vars
  <2>6. now # 0
    BY ClockAssumption DEF TypeOK
  <2>7. /\ app'.pc = "pausing" =>
             \A i \in Ids : i \in range[1] .. range[2] - 1 /\ IsPlaying(ch[i]) =>
                              ch[i].paused = 0
        /\ app'.pc = "resuming" =>
             \A i \in Ids : i \in range[1] .. range[2] - 1 /\ IsPlaying(ch[i]) =>
                              ch[i].paused # 0
    BY <2>4, <2>5 DEF PausedOnce
  <2> QED
    BY <1>1, <2>2, <2>4, <2>6, <2>7 DEF SweepAhead, IsPlaying
<1>4. CASE /\ app'.pc \in Sweeping
           /\ \/ app' = app
              \/ PauseOne /\ app.i < app.n /\ app' = [app EXCEPT !.i = @ + 1]
  <2> DEFINE Ahead == {i \in Ids : i \in app'.i .. app'.n - 1}
  <2>1. /\ app'.pc = app.pc /\ app'.ticks = app.ticks
        /\ Ahead \subseteq {i \in Ids : i \in app.i .. app.n - 1}
        /\ PauseOne => app.i \notin Ahead
    <3>1. app.i \in Int /\ app.n \in Int
      BY <1>1, ChannelAssumption DEF Call
    <3>2. CASE app' = app
      <4>1. app' # Idle /\ app' # [app EXCEPT !.i = @ + 1]
        BY <1>1, <1>4, <3>1, <3>2 DEF Idle, Sweeping, Call
      <4>2. ~PauseOne
        BY <4>1 DEF PauseOne
      <4> QED
        BY <3>2, <4>2
    <3>3. CASE app' = [app EXCEPT !.i = @ + 1]
      <4>1. app'.pc = app.pc /\ app'.ticks = app.ticks /\ app'.i = app.i + 1 /\ app'.n = app.n
        BY <1>1, <3>3 DEF Call
      <4> QED
        BY <3>1, <4>1
    <3> QED
      BY <1>4, <3>2, <3>3
  <2>2. ~ResumeAll
    BY <1>4 DEF ResumeAll, Idle, Sweeping
  <2>3. ASSUME NEW i \in Ids
        PROVE  /\ IsPlaying(ch'[i]) /\ i \in Ahead => IsPlaying(ch[i]) /\ ch'[i].paused = ch[i].paused
               /\ app.pc = "resuming" => ch'[i].paused = ch[i].paused \/ ch'[i].paused = 0
    <3>1. ClockTurn(i, ch[i], ch'[i])
      BY AllTurns DEF TurnsAt
    <3>2. app.pc # "idle"
      BY <1>4, <2>1 DEF Sweeping
    <3>3. ~Limits(i, ch[i], ch'[i])
      BY <3>2 DEF Limits, Mix_ExpireChannel, Locked, Unlocked
    <3>4. Tick /\ ch'[i] = [ch[i] EXCEPT !.due = @ + 1] =>
            ch'[i].paused = ch[i].paused /\ (IsPlaying(ch'[i]) => IsPlaying(ch[i]))
      BY <1>1 DEF Channel, IsPlaying
    <3>5. PauseOne => app.pc = "pausing"
      BY DEF PauseOne
    <3> HIDE DEF Ahead
    <3>6. PauseOne /\ i = app.i => i \notin Ahead
      BY <2>1
    <3> QED
      BY <2>2, <3>1, <3>2, <3>3, <3>4, <3>5, <3>6 DEF ClockTurn, Clock, Starts
  <2>4. app'.ticks <= now' /\ app'.ticks # 0
    BY <1>1, <1>4, <2>1 DEF SweepAhead
  <2>5. \A i \in Ids : i \in Ahead => i \in app.i .. app.n - 1
    BY <2>1
  <2>6. \A i \in Ids : ch[i].paused <= app.ticks => ch'[i].paused <= app.ticks
                                                 \/ app.pc # "resuming"
    BY <1>1, <2>3, <2>4, <2>1
  <2> HIDE DEF Ahead
  <2>7. /\ app.pc = "pausing" =>
             \A i \in Ids : i \in Ahead /\ IsPlaying(ch'[i]) => ch'[i].paused = 0
        /\ app.pc = "resuming" =>
             \A i \in Ids : i \in Ahead /\ IsPlaying(ch'[i]) => ch'[i].paused # 0
    BY <2>3, <2>5 DEF SweepAhead
  <2> QED
    BY <2>1, <2>4, <2>6, <2>7 DEF SweepAhead, Ahead, IsPlaying
<1> QED
  BY <1>2, <1>3, <1>4, SweepFrame

\* A paused limit does not run: when the channel plays again it is given back the
\* time the pause took, however often it is paused and resumed, in however many
\* sweeps, and wherever the callback stands meanwhile.  For an application that
\* pauses what is not paused, resumes what is, and sets limits on what plays; and
\* from the first millisecond on, since a pause at tick 0 is none.
THEOREM PauseStopsClock ==
    ASSUME FirstTick # 0
    PROVE  TimedSpec => []PauseSuspendsTimer
<1> DEFINE Inv == SweepAhead /\ \A i \in Ids : Suspended(ch[i], now)
           Step == Next /\ PausedOnce /\ LimitsWhatPlays
<1>1. Init => Inv
  BY ClockAssumption DEF Init, Idle, SweepAhead, Sweeping, Suspended, Fresh, IsPlaying
<1>2. TypeOK /\ Located /\ Inv /\ [Step]_vars => Inv'
  <2> SUFFICES ASSUME TypeOK, Located, Inv, [Step]_vars PROVE Inv'
    OBVIOUS
  <2>1. SweepAhead'
    BY SweepKept DEF Suspended
  <2>2. ASSUME NEW i \in Ids PROVE Suspended(ch'[i], now')
    <3>1. /\ ch[i] \in Channel /\ ch'[i] \in Channel /\ now \in Nat /\ app.ticks \in Nat
          /\ Suspended(ch[i], now)
      BY NextGood, TypesHere, ClockAssumption DEF Good, TypeOK
    <3>2. CASE Step /\ ~Tick
      <4>1. now' = now
        BY <3>2, SweepFrame
      <4>2. ClockTurn(i, ch[i], ch'[i])
        BY AllTurns DEF TurnsAt
      <4>3. Limits(i, ch[i], ch'[i]) => ch[i].paused = 0
        <5> SUFFICES ASSUME i \in Allocated, NEW ticks \in Timers, Mix_ExpireChannel(i, ticks)
                     PROVE  ch[i].paused = 0
          BY DEF Limits
        <5> QED
          BY <3>2 DEF LimitsWhatPlays
      <4>4. app.pc \in Sweeping => app.ticks <= now /\ app.ticks # 0
        BY DEF SweepAhead
      <4>5. PauseOne /\ app.i < app.n /\ i = app.i /\ IsPlaying(ch[i]) => ch[i].paused = 0
        <5> SUFFICES ASSUME PauseOne, app.i < app.n, i = app.i PROVE i \in app.i .. app.n - 1
          BY DEF SweepAhead, PauseOne
        <5> QED
          BY ChannelAssumption DEF TypeOK, Call
      <4>6. ResumeAll /\ i \in app.i .. app.n - 1 /\ IsPlaying(ch[i]) =>
              ch[i].paused # 0 /\ ch[i].paused <= app.ticks
        BY DEF SweepAhead, ResumeAll
      <4>7. Suspended(ch'[i], now)
        BY <3>1, <3>2, <4>2, <4>3, <4>4, <4>5, <4>6, SuspendedKept
      <4> QED
        BY <4>1, <4>7
    <3>3. CASE Tick
      <4> DEFINE c == ch[i]
                 d == [c EXCEPT !.due = @ + 1]
      <4>1. /\ now' = now + 1
            /\ ch'[i] = IF c.paused # 0 /\ IsPlaying(c) /\ c.due > 0 THEN d ELSE c
        BY <3>3 DEF Tick
      <4>2. /\ d.paused = c.paused /\ d.expire = c.expire /\ d.due = c.due + 1
            /\ IsPlaying(d) <=> IsPlaying(c)
            /\ c.paused \in Nat /\ c.expire \in Nat /\ c.due \in Int
        BY <3>1, ClockAssumption DEF Channel, IsPlaying
      <4>3. Suspended(c, now)
        BY <3>1
      <4> HIDE DEF c, d
      <4>4. ~(c.paused # 0 /\ IsPlaying(c) /\ c.due > 0) => Suspended(c, now + 1)
        BY <3>1, <4>2, <4>3 DEF Suspended, Late
      <4>5. c.paused # 0 /\ IsPlaying(c) /\ c.due > 0 => Suspended(d, now + 1)
        BY <3>1, <4>2, <4>3 DEF Suspended, Late
      <4>6. Suspended(ch'[i], now + 1)
        BY <4>1, <4>4, <4>5
      <4> QED
        BY <4>1, <4>6
    <3>4. CASE UNCHANGED vars
      BY <3>1, <3>4 DEF vars
    <3> QED
      BY <3>2, <3>3, <3>4
  <2> QED
    BY <2>1, <2>2 DEF Suspended, Late
<1>3. TypeOK /\ Inv => PauseSuspendsTimer
  <2> SUFFICES ASSUME TypeOK, Inv, NEW i \in Allocated, IsPlaying(ch[i]),
                      ch[i].expire > 0, ch[i].paused = 0
               PROVE  ch[i].due = ch[i].expire
    BY DEF PauseSuspendsTimer
  <2>1. i \in Ids /\ ch[i].expire \in Int
    BY TypesHere DEF Channel
  <2> QED
    BY <2>1 DEF Suspended, Late
<1>4. TypeOK /\ Located /\ [Step]_vars => (TypeOK /\ Located)'
  BY NextGood DEF Good
<1> QED
  BY <1>1, <1>2, <1>3, <1>4, InitLocated, PTL DEF TimedSpec

-----------------------------------------------------------------------------
(* The channel engine implements Playback.                                 *)

LEMMA RemainingType ==
    ASSUME NEW c \in Channel, IsPlaying(c), c.chunk \in Chunks
    PROVE  /\ Remaining(c) \in Int
           /\ c.looping < 0 => Remaining(c) = -1
           /\ ~(c.looping < 0) => Remaining(c) > 0
<1>1. c.playing \in Nat /\ c.looping \in Int /\ Alen[c.chunk] \in Nat \ {0}
  BY ChunkAssumption DEF Channel
<1>2. c.looping > 0 => c.looping * Alen[c.chunk] \in Nat \ {0}
  BY <1>1
<1> QED
  BY <1>1, <1>2 DEF Remaining, IsPlaying

LEMMA VoiceFields ==
    ASSUME NEW c, NEW v, v = VoiceOf(c)
    PROVE  /\ v.sound = (IF IsPlaying(c) THEN c.chunk ELSE NoChunk)
           /\ v.left = (IF IsPlaying(c) THEN Remaining(c) ELSE 0)
           /\ v.owed = c.owed /\ v.effects = c.effects
  BY DEF VoiceOf

\* A silent channel that is answered, and has no effects, is a resting voice.
LEMMA VoiceRests ==
    ASSUME NEW c, ~IsPlaying(c), c.owed = 0, c.effects = 0
    PROVE  VoiceOf(c) = Promise!Resting
  BY DEF VoiceOf, Promise!Resting

LEMMA FreshVoice == VoiceOf(Fresh) = Promise!Resting /\ ~IsPlaying(Fresh)
  BY VoiceRests DEF Fresh, IsPlaying

\* Whatever is left of a voice when the channel's memory goes is given up.
LEMMA RestingTurn ==
    ASSUME NEW c \in Channel, Answered(c), IsPlaying(c) => c.chunk \in Chunks
    PROVE  Promise!Turn(VoiceOf(c), Promise!Resting)
<1> DEFINE v == VoiceOf(c)
<1>1. /\ v.sound = (IF IsPlaying(c) THEN c.chunk ELSE NoChunk)
      /\ v.left = (IF IsPlaying(c) THEN Remaining(c) ELSE 0)
      /\ v.owed = c.owed
  BY VoiceFields
<1> HIDE DEF v
<1>2. CASE IsPlaying(c)
  BY <1>1, <1>2, ChunkAssumption DEF Promise!Turn, Promise!Stops, v
<1>3. CASE ~IsPlaying(c)
  BY <1>1, <1>3 DEF Answered, Promise!Turn, Promise!Equipped, Promise!Resting,
                      v
<1> QED
  BY <1>2, <1>3

LEMMA VoiceTurn ==
    ASSUME \A k \in Chunks : Alen[k] >= Len,
           NEW c \in Channel, NEW d \in Channel, Turn(c, d),
           Answered(c), Answered(d),
           IsPlaying(c) => c.chunk \in Chunks, IsPlaying(d) => d.chunk \in Chunks
    PROVE  Promise!Turn(VoiceOf(c), VoiceOf(d))
<1> DEFINE v == VoiceOf(c)
           w == VoiceOf(d)
<1>1. /\ v.sound = (IF IsPlaying(c) THEN c.chunk ELSE NoChunk)
      /\ v.left = (IF IsPlaying(c) THEN Remaining(c) ELSE 0)
      /\ v.owed = c.owed /\ v.effects = c.effects
  BY VoiceFields
<1>2. /\ w.sound = (IF IsPlaying(d) THEN d.chunk ELSE NoChunk)
      /\ w.left = (IF IsPlaying(d) THEN Remaining(d) ELSE 0)
      /\ w.owed = d.owed /\ w.effects = d.effects
  BY VoiceFields
<1>3. d.effects \in Nat /\ c.owed \in Int
  BY DEF Channel
<1>4. CASE Kept(c, d)
  <2>1. IsPlaying(d) = IsPlaying(c) /\ d.chunk = c.chunk /\ d.owed = c.owed
    BY <1>4 DEF Kept, Same, IsPlaying
  <2>2. Remaining(d) = Remaining(c)
    BY <1>4 DEF Kept, Same, Remaining
  <2> HIDE DEF v, w
  <2> QED
    BY <1>1, <1>2, <1>3, <2>1, <2>2 DEF Promise!Turn, Promise!Equipped, v, w
<1>5. CASE Ended(c, d)
  <2>1. ~IsPlaying(d) /\ d.owed = 0 /\ d.effects = 0
    BY <1>5 DEF Ended, IsPlaying, Answered
  <2> QED
    BY <2>1, VoiceRests, RestingTurn
<1>6. CASE Began(c, d)
  <2>1. /\ d.chunk \in Chunks \ freed /\ d.looping \in Loops
        /\ d.playing = Alen[d.chunk] /\ Alen[d.chunk] \in Nat \ {0}
        /\ d.effects = (IF IsPlaying(c) THEN 0 ELSE c.effects)
    BY <1>6, ChunkAssumption DEF Began
  <2>2. IsPlaying(d) /\ d.owed = 1
    BY <2>1 DEF IsPlaying, Answered
  <2>3. d.looping \in Int
    BY <2>1, ArgumentAssumption
  <2>4. /\ d.looping > 0 => (d.looping + 1) * Alen[d.chunk]
                              = Alen[d.chunk] + d.looping * Alen[d.chunk]
        /\ d.looping = 0 => (d.looping + 1) * Alen[d.chunk] = Alen[d.chunk]
    BY <2>1, <2>3, OneMore
  <2>5. Remaining(d) = Promise!Total(d.chunk, d.looping)
    BY <2>1, <2>3, <2>4 DEF Remaining, Promise!Total
  <2>6. w.effects = IF v.sound = NoChunk THEN v.effects ELSE 0
    BY <1>1, <1>2, <2>1, ChunkAssumption
  <2> HIDE DEF v, w
  <2>7. w.left = Promise!Total(w.sound, d.looping)
    BY <1>2, <2>2, <2>5
  <2>8. Promise!Begins(v, w)
    BY <1>2, <2>1, <2>2, <2>6, <2>7 DEF Promise!Begins
  <2> QED
    BY <2>8 DEF Promise!Turn, v, w
<1>7. CASE Emptied(d)
  <2>1. VoiceOf(d) = Promise!Resting
    BY <1>7, FreshVoice DEF Emptied
  <2> QED
    BY <2>1, RestingTurn
<1>8. CASE Advanced(c, d)
  <2>1. /\ IsPlaying(c) /\ IsPlaying(d) /\ d.chunk = c.chunk /\ d.chunk \in Chunks
        /\ d.owed = c.owed /\ d.effects = c.effects
        /\ d.looping < 0 <=> c.looping < 0
        /\ Remaining(d) <= Remaining(c)
    <3>1. ~(Alen[c.chunk] < Len)
      BY <1>8, ChunkAssumption DEF Advanced
    <3> QED
      BY <1>8, <3>1 DEF Advanced, Onward
  <2>2. /\ Remaining(c) \in Int /\ Remaining(d) \in Int
        /\ d.looping < 0 => Remaining(c) = -1 /\ Remaining(d) = -1
        /\ ~(d.looping < 0) => Remaining(c) > 0 /\ Remaining(d) > 0
    BY <2>1, RemainingType
  <2>3. IF Remaining(c) < 0 THEN Remaining(d) = Remaining(c)
                            ELSE Remaining(d) \in 1 .. Remaining(c)
    BY <2>1, <2>2
  <2> HIDE DEF v, w
  <2>4. Promise!Advances(v, w)
    BY <1>1, <1>2, <2>1, <2>3, ChunkAssumption DEF Promise!Advances
  <2> QED
    BY <2>4 DEF Promise!Turn, v, w
<1> QED
  BY <1>4, <1>5, <1>6, <1>7, <1>8 DEF Turn

-----------------------------------------------------------------------------
(* Steps.                                                                   *)

RefInv == TypeOK /\ Located /\ AllAnswered /\ ReleasedSilent

\* Channels come and go with Mix_AllocateChannels only; those that come are fresh.
LEMMA NewChannelsFresh ==
    ASSUME TypeOK, Located, [Next]_vars, NEW i \in Ids,
           ~(i < num_channels), i < num_channels'
    PROVE  ch'[i] = Fresh
<1>1. num_channels \in Int /\ num_channels' \in Int /\ i \in Int
  BY NextGood, ChannelAssumption DEF Good, TypeOK, Ids
<1>2. CASE \E n \in 0 .. MaxChannels : AllocateMore(n)
  <2>1. PICK n \in 0 .. MaxChannels : AllocateMore(n)
    BY <1>2
  <2>2. /\ num_channels' = n
        /\ ch'[i] = IF i \in num_channels .. n - 1 THEN Fresh ELSE ch[i]
    BY <2>1 DEF AllocateMore
  <2> QED
    BY <1>1, <2>2
<1>3. CASE FreeChunkRelease \/ \E k \in Chunks : FreeChunkHalt(k)
  BY <1>1, <1>3 DEF FreeChunkRelease, FreeChunkHalt
<1> QED
  BY <1>1, <1>2, <1>3, ReleaseFrame

LEMMA VoicesStep ==
    ASSUME "Expire" \notin Calls, \A k \in Chunks : Alen[k] >= Len,
           RefInv, RefInv', [Next]_vars
    PROVE  Promise!Next
<1>1. ASSUME NEW i \in Ids PROVE Promise!Turn(Voices[i], Voices'[i])
  <2> DEFINE c == ch[i]
             d == ch'[i]
  <2>1. /\ Turn(c, d) /\ c \in Channel /\ d \in Channel
        /\ Answered(c) /\ Answered(d)
        /\ IsPlaying(c) => c.chunk \in Chunks
        /\ IsPlaying(d) => d.chunk \in Chunks
    BY NextGood
      DEF Good, RefInv, TypeOK, AllAnswered, Answered, Located, PlayingLoaded, IsPlaying
  <2>2. /\ Voices[i] = IF i < num_channels THEN VoiceOf(c) ELSE Promise!Resting
        /\ Voices'[i] = IF i < num_channels' THEN VoiceOf(d) ELSE Promise!Resting
    BY FreshVoice DEF Voices, VoiceOf, IsPlaying, Remaining, Fresh
  <2>3. CASE i < num_channels /\ i < num_channels'
    BY <2>1, <2>2, <2>3, VoiceTurn
  <2>4. CASE i < num_channels /\ ~(i < num_channels')
    BY <2>1, <2>2, <2>4, RestingTurn
  <2>5. CASE ~(i < num_channels) /\ i < num_channels'
    <3>1. VoiceOf(d) = Promise!Resting
      BY <2>5, NewChannelsFresh, FreshVoice DEF RefInv
    <3> QED
      BY <2>2, <2>5, <3>1 DEF Promise!Turn, Promise!Equipped, Promise!Resting
  <2>6. CASE ~(i < num_channels) /\ ~(i < num_channels')
    BY <2>2, <2>6 DEF Promise!Turn, Promise!Equipped, Promise!Resting
  <2> QED
    BY <2>3, <2>4, <2>5, <2>6
<1>2. freed' \subseteq Chunks
  BY DEF RefInv, TypeOK
<1>3. ASSUME NEW i \in Ids PROVE Voices'[i].sound \notin freed'
  <2>1. Voices'[i] = IF i < num_channels' THEN VoiceOf(ch'[i]) ELSE Promise!Resting
    BY FreshVoice DEF Voices, VoiceOf, IsPlaying, Remaining, Fresh
  <2>2. NoChunk \notin freed'
    BY <1>2, ChunkAssumption
  <2>3. CASE i < num_channels' /\ IsPlaying(ch'[i])
    <3>1. ch'[i].chunk \notin freed'
      BY <2>3 DEF RefInv, ReleasedSilent, IsPlaying
    <3>2. VoiceOf(ch'[i]).sound = ch'[i].chunk
      BY <2>3, VoiceFields
    <3> QED
      BY <2>1, <2>3, <3>1, <3>2
  <2>4. CASE i < num_channels' /\ ~IsPlaying(ch'[i])
    <3>1. VoiceOf(ch'[i]).sound = NoChunk
      BY <2>4, VoiceFields
    <3> QED
      BY <2>1, <2>2, <2>4, <3>1
  <2>5. CASE ~(i < num_channels')
    BY <2>1, <2>2, <2>5 DEF Promise!Resting
  <2> QED
    BY <2>3, <2>4, <2>5
<1> QED
  BY <1>1, <1>2, <1>3 DEF Promise!Next

\* The mixer implements Playback, for every number of channels, every set of
\* chunks no shorter than the callback's buffer and every application that does
\* not call Mix_ExpireChannel: whichever calls and callbacks interleave, no play
\* is mixed backwards or past its last pass, each is answered in the step that
\* ends it and takes its effects with it, and no chunk that is given back plays.
THEOREM Implements ==
    ASSUME "Expire" \notin Calls, \A k \in Chunks : Alen[k] >= Len
    PROVE  Spec => KeepsPromise
<1>1. Init => RefInv
  <2>1. Init => AllAnswered
    BY DEF Init, AllAnswered, Answered, Fresh, IsPlaying
  <2>2. Init => ReleasedSilent
    BY DEF Init, ReleasedSilent, Idle
  <2> QED
    BY <2>1, <2>2, InitLocated DEF RefInv
<1>2. RefInv /\ [Next]_vars => RefInv'
  <2> SUFFICES ASSUME RefInv, [Next]_vars PROVE RefInv'
    OBVIOUS
  <2>1. TypeOK' /\ Located'
    BY NextGood DEF RefInv, Good
  <2>2. AllAnswered' /\ ReleasedSilent'
    BY AnsweredKept, ReleasedKept DEF RefInv
  <2> QED
    BY <2>1, <2>2 DEF RefInv
<1>3. Init => Promise!Init
  BY FreshVoice DEF Init, Voices, Promise!Init
<1>4. RefInv /\ RefInv' /\ [Next]_vars => Promise!Next
  BY VoicesStep
<1> QED
  BY <1>1, <1>2, <1>3, <1>4, PTL DEF Spec, KeepsPromise, Promise!Spec
=============================================================================
