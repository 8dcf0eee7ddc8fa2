-------------------------------- MODULE Codec --------------------------------
(***************************************************************************)
(* A piece of music and its decoder: the files music_*.c under codecs, the  *)
(* loop that asks them for audio (music_pcm_getaudio) and the calls that    *)
(* start, seek and halt them (music_internal_play, music_internal_position, *)
(* music_internal_halt).                                                   *)
(*                                                                         *)
(* A decoder reads a block of frames into an audio stream, from which the   *)
(* audio thread takes what it needs; at the end of the file, or at a loop   *)
(* point, it goes back.  It therefore runs ahead of what is heard, by up to *)
(* a block, and calls find it there.  A frame of audio is its position in   *)
(* the file; rates and formats are not converted.                           *)
(*                                                                         *)
(* The calls hold the lock of the audio thread, so they come between        *)
(* callbacks.                                                              *)
(***************************************************************************)
EXTENDS Integers, Sequences, FiniteSets

CONSTANTS
  Cases,       \* the pieces of music: see CaseType
  Counts,      \* how often a piece is played; -1: for ever
  Block,       \* the frames of a decoder's buffer
  Want,        \* the frames the audio thread asks for
  Second       \* the frames of a second

FrameBytes == 4        \* two channels of sixteen bits
MAX_ZERO_CYCLES == 10
Silent == -1           \* a frame that no file has

\* The decoders that only know the end of the file.
Plain == {"drmp3", "mpg123", "wavpack", "modplug", "ffmpeg"}
\* Those that look at the loop tags after each block, and go back at once.
AtOnce == {"ogg", "ogg_stb", "opus", "qoa"}
\* Those whose library goes back by itself.
Synths == {"adlmidi", "opnmidi", "edmidi", "fluidsynth"}
Codecs == Plain \union AtOnce \union Synths
          \union {"xmp", "flac", "drflac", "wav", "timidity", "timidity_stream"}

\* [start, end) is the loop of the tags, none when end = 0; points are the loop
\* points of a WAV file; page, where a page of an Ogg file begins at or before
\* start; calls and seeks, what the application does with the piece.
CaseType ==
    [codec : Codecs, length : Nat, start : Nat, end : Nat, page : Nat,
     points : Seq([start : Nat, stop : Nat, count : Nat]),
     calls : SUBSET {"stop", "seek"}, seeks : SUBSET Nat]

ASSUME CodecAssumption ==
    /\ Cases \subseteq CaseType
    /\ \A c \in Cases : /\ c.end <= c.length /\ c.page <= c.start
                        /\ c.end > 0 => c.start < c.end
                        /\ \A p \in c.seeks : p < c.length
    /\ Counts \subseteq {-1} \union (Nat \ {0})
    /\ Block \in Nat \ {0} /\ Want \in Nat \ {0} /\ Second \in Nat \ {0}

VARIABLES
  music,        \* the piece of music
  playing,      \* music->playing
  d,            \* the decoder: play_count, the position it reads at, ...
  stream,       \* music->stream: frames
  left,         \* what music_pcm_getaudio still has to fill; 0: not called
  zero_cycles,
  due,          \* history: the frame that is due next, and what follows it
  right,        \* history: every frame given so far was the one due
  put_short     \* history: a length below zero was put into the stream

vars == <<music, playing, d, stream, left, zero_cycles, due, right, put_short>>

Least(a, b) == IF a < b THEN a ELSE b

\* The frames from position a up to, not including, b.
Frames(a, b) == [i \in 1 .. (IF b > a THEN b - a ELSE 0) |-> a + i - 1]

\* play_count of the next pass.
Fewer(count) == IF count > 0 THEN count - 1 ELSE -1

-----------------------------------------------------------------------------
(* What is due.                                                            *)

Fresh(c) == [i \in DOMAIN c.points |-> c.points[i].count]

Tagged(c) == c.end > 0

\* Where u goes on, if it stands at a loop's end or the end of the file.
Settled(c, u) ==
    IF Tagged(c) /\ u.passes # 1 /\ u.pos >= c.end
    THEN [u EXCEPT !.pos = c.start, !.passes = Fewer(@)]
    ELSE IF u.pos < c.length THEN u
    ELSE IF u.passes = 1 THEN [u EXCEPT !.over = TRUE]
    ELSE [u EXCEPT !.pos = 0, !.passes = Fewer(@), !.points = Fresh(c)]

\* The loop points still to be played around a position; -1 marks one done.
Around(c, points, pos) ==
    {i \in DOMAIN points : points[i] # -1 /\ pos \in c.points[i].start .. c.points[i].stop}

\* Of several, the first counts.
Leading(loops) == CHOOSE i \in loops : \A j \in loops : i <= j

Played(points, i) ==
    [points EXCEPT ![i] = IF @ = 1 THEN -1 ELSE IF @ > 0 THEN @ - 1 ELSE @]

\* What is due after one more frame.
After(c, u) ==
    LET loops == Around(c, u.points, u.pos)
        i == Leading(loops)
    IN  IF u.queue # <<>> THEN [u EXCEPT !.queue = Tail(@)]
        ELSE IF u.over THEN u
        ELSE IF loops # {} /\ u.pos = c.points[i].stop
        THEN Settled(c, [u EXCEPT !.points = Played(@, i),
                                  !.pos = IF u.points[i] = 1 THEN @ + 1 ELSE c.points[i].start])
        ELSE Settled(c, [u EXCEPT !.pos = @ + 1])

Frame(u) == IF u.queue # <<>> THEN Head(u.queue) ELSE IF u.over THEN Silent ELSE u.pos

\* What is due after each of the next n frames.
Ahead(c, u, n) ==
    LET f[k \in 0 .. n] == IF k = 0 THEN u ELSE After(c, f[k - 1]) IN f

-----------------------------------------------------------------------------
(* The decoders.  A read returns what it puts into the stream, how many     *)
(* frames it meant to put there, and the decoder after it.                  *)

Clears(codec) == [play |-> codec \in {"flac", "ffmpeg", "fluidsynth"},
                  seek |-> codec = "flac",
                  stop |-> codec \notin {"ffmpeg", "timidity", "timidity_stream",
                                         "adlmidi", "opnmidi", "edmidi"}]

\* amount: frames to be put, of those read from position a.
Read(a, amount, dd) == [put |-> Frames(a, a + amount), amount |-> amount, d |-> dd]

\* libFLAC hands over the rest of the block that a seek leads into, with the
\* seek itself.
flac_write_music_cb(c, dd) ==
    LET to == Least((dd.pos \div Block + 1) * Block, c.length)
        loops == Tagged(c) /\ dd.play_count # 1 /\ to >= c.end
    IN  Read(dd.pos, to - dd.pos - (IF loops THEN to - c.end ELSE 0),
             [dd EXCEPT !.pos = to, !.flag = @ \/ loops])

\* WAV files seek to whole seconds.
Destination(c, p) == IF c.codec = "wav" THEN p - (p % Second) ELSE p

\* Seek of the interfaces.
SeekTo(c, dd, p) ==
    IF c.codec = "flac" THEN flac_write_music_cb(c, [dd EXCEPT !.pos = p])
    ELSE IF c.codec \in Synths
    THEN Read(0, 0, [dd EXCEPT !.library = Settled(c, [@ EXCEPT !.pos = p, !.over = FALSE])])
    ELSE Read(0, 0, [dd EXCEPT !.pos = Destination(c, p), !.at_end = FALSE])

\* Play of the interfaces: all begin at 0.
PlayFrom0(c, dd, count) ==
    LET started == [dd EXCEPT !.play_count = count,
                              !.points = Fresh(c), !.active = TRUE,
                              !.library = [queue |-> <<>>, pos |-> 0, passes |-> count,
                                           points |-> <<>>, over |-> c.length = 0]]
    IN  SeekTo(c, started, 0)

\* Mutant: only endless music is played again.
OnePassOnly(c, dd) ==
    IF dd.play_count > 0 THEN Read(0, 0, [dd EXCEPT !.play_count = 0])
    ELSE PlayFrom0(c, dd, -1)

\* Mutant: the number of passes is not taken down.
CountKept(c, dd) ==
    IF dd.play_count = 1 THEN Read(0, 0, [dd EXCEPT !.play_count = 0])
    ELSE PlayFrom0(c, dd, dd.play_count)

\* The end of the file: the last pass is over, or the next one begins.
EndOfPass(c, dd) ==
    IF dd.play_count = 1 THEN Read(0, 0, [dd EXCEPT !.play_count = 0])
    ELSE PlayFrom0(c, dd, Fewer(dd.play_count))

\* What a library hands over at once: a buffer full, less at the end of the
\* file; some libraries hand over less anyway, or stop where a packet ends.
Full(c, dd) == Least(Block, c.length - dd.pos)
Any(c, dd) == IF Full(c, dd) > 0 THEN 1 .. Full(c, dd) ELSE {0}
Packet(c, dd) == Least(Full(c, dd), Block - (dd.pos % Block))

\* A block, or the end of the pass.
PlainGetSome(c, dd, sizes) ==
    {IF n > 0 THEN Read(dd.pos, n, [dd EXCEPT !.pos = @ + n]) ELSE EndOfPass(c, dd)
        : n \in sizes}

DRMP3_GetSome(c, dd) == PlainGetSome(c, dd, {Full(c, dd)})
MPG123_GetSome(c, dd) == PlainGetSome(c, dd, Any(c, dd))
WAVPACK_GetSome(c, dd) == PlainGetSome(c, dd, {Full(c, dd)})
MODPLUG_GetSome(c, dd) == PlainGetSome(c, dd, Any(c, dd))
FFMPEG_GetSome(c, dd) == PlainGetSome(c, dd, Any(c, dd))

\* libxmp fills the rest of the last buffer with silence, and repeats an
\* endless piece by itself.
XMP_GetSome(c, dd) ==
    LET at == IF dd.play_count < 0 /\ c.length > 0 THEN dd.pos % c.length ELSE dd.pos
    IN  IF at >= c.length THEN {EndOfPass(c, dd)}
        ELSE {[Read(at, Block, [dd EXCEPT !.pos = at + Block])
                 EXCEPT !.put = [i \in 1 .. Block |->
                                    IF at + i <= c.length THEN at + i - 1
                                    ELSE IF dd.play_count < 0 THEN (at + i - 1) % c.length
                                    ELSE Silent]]}

-----------------------------------------------------------------------------
\* From the page on, frames are read and dropped;
\* their number is given to ov_read as a number of bytes.
ogg_quick_seek_to_loop_start(c) ==
    LET gap == c.start - c.page
        step == Block \div FrameBytes
        reads == {k \in 0 .. gap : gap - k * step < Block}
        k == IF step = 0 THEN 0 ELSE CHOOSE i \in reads : \A j \in reads : i <= j
        rest == gap - k * step
    IN  IF rest >= Block THEN c.page
        ELSE c.page + k * step + rest \div FrameBytes

\* Mutant: the samples after the end of the loop are not cut off.
Uncut(c, dd, n, pcmPos, per, start) ==
    IF Tagged(c) /\ dd.play_count # 1 /\ pcmPos >= c.end
    THEN Read(dd.pos, n, [dd EXCEPT !.pos = start, !.play_count = Fewer(@), !.at_end = FALSE])
    ELSE IF n > 0 THEN Read(dd.pos, n, [dd EXCEPT !.pos = pcmPos])
    ELSE EndOfPass(c, dd)

\* A block of n frames, after which the position is pcmPos.  If it ends past the
\* loop's end, that much is cut off, per frame so much, and the decoder goes on
\* at start.
AtOnceGetSome(c, dd, n, pcmPos, per, start) ==
    LET amount == n - (pcmPos - c.end) * per
    IN  IF Tagged(c) /\ dd.play_count # 1 /\ pcmPos >= c.end
        THEN Read(dd.pos, IF amount > 0 THEN amount ELSE 0,
                  [dd EXCEPT !.pos = start, !.play_count = Fewer(@), !.at_end = FALSE])
        ELSE IF n > 0 THEN Read(dd.pos, n, [dd EXCEPT !.pos = pcmPos])
        ELSE EndOfPass(c, dd)

OGG_GetSome(c, dd) ==
    {AtOnceGetSome(c, dd, n, dd.pos + n, 1, ogg_quick_seek_to_loop_start(c)) : n \in Any(c, dd)}

OGG_STB_GetSome(c, dd) ==
    {AtOnceGetSome(c, dd, Full(c, dd), dd.pos + Full(c, dd), 1, c.start)}

\* The block is counted in frames, what is cut off in bytes.
OPUS_GetSome(c, dd) ==
    {AtOnceGetSome(c, dd, Packet(c, dd), dd.pos + Packet(c, dd), FrameBytes, c.start)}

\* Running into the end of the file leaves the position one past it.  (A seek into the
\* middle of a block of the file sets skip_samples, which the next read skips: the
\* position is where the seek led.)
_QOA_ReadSamples(c, dd) ==
    LET n == IF dd.at_end THEN 0 ELSE Full(c, dd)
        ends == ~dd.at_end /\ n < Block
    IN  [n |-> n, pos |-> dd.pos + n + (IF ends THEN 1 ELSE 0), at_end |-> dd.at_end \/ ends]

QOA_GetSome(c, dd) ==
    LET samples == _QOA_ReadSamples(c, dd)
    IN  {AtOnceGetSome(c, [dd EXCEPT !.at_end = samples.at_end], samples.n, samples.pos,
                       1, c.start)}

-----------------------------------------------------------------------------
\* The block is put by the callback; a loop's end that it found is acted on
\* afterwards, by a seek that puts the first block of the next pass.
FLAC_GetSome(c, dd) ==
    LET one == IF dd.pos < c.length THEN flac_write_music_cb(c, dd) ELSE Read(0, 0, dd)
        back == flac_write_music_cb(c, [one.d EXCEPT !.pos = c.start])
    IN  IF one.d.flag
        THEN {[put |-> one.put \o back.put, amount |-> Least(one.amount, back.amount),
               d |-> [back.d EXCEPT !.flag = FALSE, !.play_count = Fewer(@)]]}
        ELSE IF dd.pos >= c.length THEN {EndOfPass(c, one.d)}
        ELSE {one}

\* The loop's end that the last block found is acted on before the next one.
DRFLAC_GetSome(c, dd) ==
    LET here == IF dd.flag THEN [dd EXCEPT !.pos = c.start, !.play_count = Fewer(@), !.flag = FALSE]
                ELSE dd
        n == Least(Block, c.length - here.pos)
        to == here.pos + n
        loops == Tagged(c) /\ here.play_count # 1 /\ to >= c.end
    IN  IF n = 0 THEN {EndOfPass(c, here)}
        ELSE {Read(here.pos, n - (IF loops THEN to - c.end ELSE 0),
                   [here EXCEPT !.pos = to, !.flag = loops])}

WavPlayed(points, i) == Played(points, i)

\* A block ends at the end of the loop point it begins in.
WAV_GetSome(c, dd) ==
    LET loops == Around(c, dd.points, dd.pos)
        i == Leading(loops)
        stop == IF loops # {} THEN c.points[i].stop + 1 ELSE c.length
        to == dd.pos + Least(Block, stop - dd.pos)
        next == [dd EXCEPT !.pos = to]
        ends == loops # {} /\ to >= stop
        counted == IF ends THEN [next EXCEPT !.points = WavPlayed(@, i)] ELSE next
        block == Read(dd.pos, to - dd.pos, counted)
    IN  IF ends /\ dd.points[i] # 1
        THEN {[block EXCEPT !.d.pos = c.points[i].start]}
        ELSE IF to >= c.length
        THEN {[block EXCEPT !.d = EndOfPass(c, counted).d]}
        ELSE {block}

-----------------------------------------------------------------------------
\* A pass ends with a read that returns less than it should.
TIMIDITY_GetSome(c, dd, bytes) ==
    LET n == IF dd.active THEN Least(bytes, c.length - dd.pos) ELSE 0
        next == [dd EXCEPT !.pos = @ + n, !.active = @ /\ n = bytes]
    IN  IF n < bytes THEN {[Read(dd.pos, n, next) EXCEPT !.d = EndOfPass(c, next).d]}
        ELSE {Read(dd.pos, n, next)}

\* The library counts the passes; it has ended when it plays nothing.
SynthGetSome(c, dd) ==
    LET states == Ahead(c, dd.library, Block)
        n == Cardinality({k \in 0 .. Block - 1 : ~states[k].over})
    IN  {[put |-> [k \in 1 .. n |-> Frame(states[k - 1])], amount |-> n,
          d |-> [dd EXCEPT !.library = states[n]]]}

ADLMIDI_playSome(c, dd) == SynthGetSome(c, dd)
OPNMIDI_playSome(c, dd) == SynthGetSome(c, dd)
EDMIDI_playSome(c, dd) == SynthGetSome(c, dd)
FLUIDSYNTH_GetSome(c, dd) == SynthGetSome(c, dd)

\* GetSome of the interfaces, once the stream is empty.
GetSome(c, dd, bytes) ==
    CASE c.codec = "drmp3"           -> DRMP3_GetSome(c, dd)
      [] c.codec = "mpg123"          -> MPG123_GetSome(c, dd)
      [] c.codec = "wavpack"         -> WAVPACK_GetSome(c, dd)
      [] c.codec = "modplug"         -> MODPLUG_GetSome(c, dd)
      [] c.codec = "ffmpeg"          -> FFMPEG_GetSome(c, dd)
      [] c.codec = "xmp"             -> XMP_GetSome(c, dd)
      [] c.codec = "ogg"             -> OGG_GetSome(c, dd)
      [] c.codec = "ogg_stb"         -> OGG_STB_GetSome(c, dd)
      [] c.codec = "opus"            -> OPUS_GetSome(c, dd)
      [] c.codec = "qoa"             -> QOA_GetSome(c, dd)
      [] c.codec = "flac"            -> FLAC_GetSome(c, dd)
      [] c.codec = "drflac"          -> DRFLAC_GetSome(c, dd)
      [] c.codec = "wav"             -> WAV_GetSome(c, dd)
      [] c.codec = "timidity"        -> TIMIDITY_GetSome(c, dd, bytes)
      [] c.codec = "timidity_stream" -> TIMIDITY_GetSome(c, dd, Block)
      [] c.codec = "adlmidi"         -> ADLMIDI_playSome(c, dd)
      [] c.codec = "opnmidi"         -> OPNMIDI_playSome(c, dd)
      [] c.codec = "edmidi"          -> EDMIDI_playSome(c, dd)
      [] c.codec = "fluidsynth"      -> FLUIDSYNTH_GetSome(c, dd)

-----------------------------------------------------------------------------
(* The calls.                                                              *)

Stopped(dd) == [dd EXCEPT !.active = FALSE]
Kept(codec, cleared) == IF cleared THEN <<>> ELSE stream

Put(r, kept) ==
    /\ stream' = kept \o r.put
    /\ put_short' = (put_short \/ r.amount < 0)

\* music_internal_halt.
Halted == /\ playing' = FALSE
          /\ d' = Stopped(d)
          /\ stream' = Kept(music.codec, Clears(music.codec).stop)

\* music_internal_play: what plays is halted; Play, and then a seek, be it to 0.
Start(count, p) ==
    /\ left = 0
    /\ playing => "stop" \in music.calls
    /\ p = 0 \/ (p \in music.seeks /\ "seek" \in music.calls)
    /\ LET codec == music.codec
           halted == IF playing THEN Kept(codec, Clears(codec).stop) ELSE stream
           cleared == IF Clears(codec).play THEN <<>> ELSE halted
           first == PlayFrom0(music, IF playing THEN Stopped(d) ELSE d, count)
           then == SeekTo(music, first.d, p)
       IN  /\ d' = then.d
           /\ stream' = (IF Clears(codec).seek THEN <<>> ELSE cleared \o first.put) \o then.put
           /\ put_short' = (put_short \/ first.amount < 0 \/ then.amount < 0)
    /\ playing' = TRUE
    /\ due' = Settled(music, [queue |-> <<>>, pos |-> Destination(music, p), passes |-> count,
                              points |-> Fresh(music), over |-> FALSE])
    /\ UNCHANGED <<music, left, zero_cycles, right>>

\* Mix_HaltMusic.
Stop ==
    /\ left = 0 /\ playing /\ "stop" \in music.calls
    /\ Halted
    /\ UNCHANGED <<music, left, zero_cycles, due, right, put_short>>

\* Mix_SetMusicPosition: what is in the stream is still heard first, unless it
\* is cleared; the passes and loop points are those the decoder has come to.
Seek(p) ==
    /\ left = 0 /\ playing /\ "seek" \in music.calls /\ p \in music.seeks
    /\ LET r == SeekTo(music, d, p)
           kept == Kept(music.codec, Clears(music.codec).seek)
           counted == IF music.codec \in Synths THEN d.library.passes ELSE d.play_count
       IN  /\ d' = r.d
           /\ Put(r, kept)
           /\ due' = IF counted = 0 THEN [due EXCEPT !.queue = kept, !.over = TRUE]
                     ELSE Settled(music, [queue |-> kept, pos |-> Destination(music, p),
                                          passes |-> counted, points |-> d.points, over |-> FALSE])
    /\ UNCHANGED <<music, playing, left, zero_cycles, right>>

\* The audio thread asks for audio (music_mix_stream).
Callback ==
    /\ left = 0 /\ playing
    /\ left' = Want
    /\ zero_cycles' = 0
    /\ UNCHANGED <<music, playing, d, stream, due, right, put_short>>

\* Some frames are given to the mixer.
Given(frames) ==
    LET n == Len(frames)
        states == Ahead(music, due, n)
    IN  /\ due' = states[n]
        /\ right' = (right /\ \A k \in 1 .. n : frames[k] = Frame(states[k - 1]))
        /\ left' = left - n
        /\ zero_cycles' = 0

\* With the audio complete, the mixer asks the decoder whether it plays; only
\* the one for Timidity answers.
Asked(dd) == \/ left' > 0
             \/ music.codec \notin {"timidity", "timidity_stream"}
             \/ dd.active

AudioStreamGet ==
    /\ left > 0 /\ stream # <<>>
    /\ LET n == Least(left, Len(stream))
       IN  /\ Given(SubSeq(stream, 1, n))
           /\ stream' = SubSeq(stream, n + 1, Len(stream))
    /\ playing' = Asked(d)
    /\ UNCHANGED <<music, d, put_short>>

\* The decoder is done: audio is missing, and the mixer halts the music.
Done ==
    /\ left > 0 /\ stream = <<>> /\ d.play_count = 0
    /\ Halted
    /\ left' = 0
    /\ UNCHANGED <<music, zero_cycles, due, right, put_short>>

\* Mutant: reads that bring nothing are not counted.
CycleUncounted == zero_cycles' = zero_cycles

Cycle == zero_cycles' = zero_cycles + 1

\* A read that gives nothing to the mixer itself, though it may put something
\* into the stream; after too many without any audio, the music is halted.
Reads(r) ==
    /\ Cycle
    /\ IF zero_cycles' > MAX_ZERO_CYCLES
       THEN Halted /\ left' = 0 /\ UNCHANGED put_short
       ELSE d' = r.d /\ Put(r, <<>>) /\ UNCHANGED <<left, playing>>
    /\ UNCHANGED <<due, right>>

\* The synthesizers report the end at once.
Ends(r) == music.codec \in Synths /\ r.amount = 0

GetSomeMore ==
    /\ left > 0 /\ stream = <<>> /\ d.play_count # 0
    /\ \E r \in GetSome(music, d, left) :
          IF Ends(r)
          THEN Halted /\ left' = 0 /\ UNCHANGED <<zero_cycles, due, right, put_short>>
          ELSE IF music.codec = "timidity" /\ r.put # <<>>
          THEN /\ Given(r.put)
               /\ d' = r.d
               /\ playing' = Asked(r.d)
               /\ UNCHANGED <<stream, put_short>>
          ELSE Reads(r)
    /\ UNCHANGED music

-----------------------------------------------------------------------------
Init ==
    /\ music \in Cases
    /\ playing = FALSE
    /\ d = [play_count |-> 0, pos |-> 0, flag |-> FALSE, at_end |-> FALSE, active |-> FALSE,
            points |-> Fresh(music),
            library |-> [queue |-> <<>>, pos |-> 0, passes |-> 1, points |-> <<>>, over |-> TRUE]]
    /\ stream = <<>>
    /\ left = 0
    /\ zero_cycles = 0
    /\ due = [queue |-> <<>>, pos |-> 0, passes |-> 1, points |-> <<>>, over |-> TRUE]
    /\ right = TRUE
    /\ put_short = FALSE

Next ==
    \/ \E count \in Counts : \E p \in music.seeks \union {0} : Start(count, p)
    \/ Stop
    \/ \E p \in music.seeks : Seek(p)
    \/ Callback \/ AudioStreamGet \/ Done \/ GetSomeMore

Spec == Init /\ [][Next]_vars

\* The audio thread keeps running.
FairSpec == Spec /\ WF_vars(Callback) /\ WF_vars(AudioStreamGet) /\ WF_vars(Done)
                 /\ WF_vars(GetSomeMore)

-----------------------------------------------------------------------------
(* Properties.                                                             *)

\* The types.
TypeOK ==
    /\ music \in Cases
    /\ playing \in BOOLEAN
    /\ d.play_count \in Int /\ d.play_count >= -1
    /\ d.pos \in 0 .. music.length + 1
    /\ Len(stream) <= 2 * Block
    /\ left \in 0 .. Want
    /\ zero_cycles \in 0 .. MAX_ZERO_CYCLES + 1
    /\ left > 0 => playing

\* Every seek, and the end, is at the border of a block.
InBlocks(c) == c.length % Block = 0 /\ \A p \in c.seeks : p % Block = 0

\* Loop points lie in the file and apart, and none is shorter than a block.
PointsApart(c) ==
    \A i \in DOMAIN c.points :
        LET p == c.points[i]
        IN  /\ p.start + Block <= p.stop + 1 /\ p.stop < c.length
            /\ \A j \in DOMAIN c.points :
                 j # i => p.stop < c.points[j].start \/ c.points[j].stop < p.start

\* The pieces that their decoder plays as they are written.  For each decoder with a
\* condition there are others that it does not: a loop that does not start on a page
\* (ogg) or end with a packet (opus), that ends with the file (qoa) or in the block a
\* seek leads into (flac), that is left by a halt or a seek (drflac), or is shorter
\* than a block (wav); a last block that is not full (xmp, timidity_stream); and
\* what a halt leaves in the stream (timidity_stream and the synthesizers).
PlaysRight(c) ==
    /\ c.points # <<>> => c.codec = "wav" /\ PointsApart(c)
    /\ Tagged(c) => c.codec \in AtOnce \union Synths \union {"flac", "drflac"}
    /\ c.codec \in Synths => c.length > 0
    /\ c.codec = "ogg" => ogg_quick_seek_to_loop_start(c) = c.start
    /\ c.codec = "opus" => c.end % Block = 0
    /\ c.codec = "qoa" /\ Tagged(c) => c.end + Block <= c.length + 1
    /\ c.codec = "flac" /\ Tagged(c) =>
         \A p \in c.seeks \union {0, c.start} : (p \div Block + 1) * Block < c.end
    /\ c.codec = "drflac" /\ Tagged(c) => c.calls = {}
    /\ c.codec \in {"xmp", "timidity_stream"} => InBlocks(c)
    /\ c.codec \in {"timidity_stream", "adlmidi", "opnmidi", "edmidi"} => "stop" \notin c.calls

\* What is heard of a piece is what it says: every frame of every pass once and
\* in order, from a loop's end to its start, from the end to the beginning, and
\* from where a seek leads to - however far the decoder had run ahead of it
\* (the GetSome functions, music_internal_play, music_internal_halt).
HeardAsWritten ==
    /\ TypeOK
    /\ right /\ ~put_short
    /\ playing => LET states == Ahead(music, due, Len(stream))
                  IN  \A k \in DOMAIN stream : stream[k] = Frame(states[k - 1])

\* Music is halted by its end only when all of its passes have been heard;
\* only music without any audio is given up (music_pcm_getaudio).
EndedWhenOver ==
    [][playing /\ ~playing' /\ left > 0 => due'.over \/ music.length = 0]_vars

Finite == d.play_count > 0 /\ \A i \in DOMAIN music.points : music.points[i].count > 0

\* The audio thread always gets its audio, or the end, in finitely many reads.
GetAudioReturns == left > 0 ~> left = 0

\* Music played a number of times, and left alone, ends.
FiniteEnds == playing /\ Finite /\ music.calls = {} ~> ~playing
=============================================================================
