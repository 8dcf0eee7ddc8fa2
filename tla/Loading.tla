-------------------------------- MODULE Loading --------------------------------
(***************************************************************************)
(* Mix_LoadMUSType_RW_ARG and Mix_LoadWAV_RW: what kind of file a source   *)
(* is, the decoders that are tried on it one after the other, and who      *)
(* closes the source.  A chunk of a kind Mix_LoadWAV_RW does not know is   *)
(* played by a music decoder from its beginning to its end.                *)
(***************************************************************************)
EXTENDS Tags, Voc, FiniteSets, SequencesExt

CONSTANTS
    Files,      \* the files an application has
    FragmentEnds,   \* the places of the source where a fragment may end
    Decoders    \* the music interfaces in their order: the type of files and how
                \* the decoder reads tags ("keep" the one in front, or "cut" it)

ASSUME DecodersAssumption ==
    Decoders \in Seq([type : {"wav", "mp3"}, front : {"keep", "cut", ""}])

ASSUME FilesAssumption == \A f \in Files : f.origin \in Nat

ASSUME FragmentEndsAssumption == FragmentEnds \subseteq Nat

VARIABLE
    ld      \* the call: where it is, its freesrc, where the source was, the type of
            \* the file, the decoder that is tried, how often the source was closed,
            \* whether memory, a decoder or a conversion failed, and whether a sound
            \* was loaded in part for want of memory

vars == <<file, pos, rd, ld>>

Init ==
    /\ file \in Files
    /\ pos = file.origin
    /\ rd = NoReader
    /\ \E call \in {"music", "chunk"}, freesrc \in BOOLEAN :
         ld = [pc |-> IF call = "music" THEN "LoadMUS" ELSE "LoadWAV", call |-> call,
               freesrc |-> freesrc, start |-> pos, type |-> "none", i |-> 0, closed |-> 0,
               hitch |-> FALSE, short |-> FALSE]

-----------------------------------------------------------------------------
(* How a call returns.                                                      *)

Close(l) == IF l.freesrc THEN [l EXCEPT !.closed = @ + 1] ELSE l

To(pc) == ld' = [ld EXCEPT !.pc = pc]

Return(l) == ld' = [l EXCEPT !.pc = "null"]

\* Memory or a library fails: what is made so far is freed.
Hitched(l) == [l EXCEPT !.hitch = TRUE]

-----------------------------------------------------------------------------
(* detect_music_type                                                        *)

HasAudio == \E k \in DOMAIN file.blocks : file.blocks[k].kind = "audio" /\ file.blocks[k].len > 0

\* Of no type: Mix_LoadMusic_RW, which loads chunks, returns without closing the source.
Untyped(p) ==
    /\ Return(IF ld.call = "music" THEN Close(ld) ELSE ld)
    /\ pos' = p /\ UNCHANGED rd

Typed(type) ==
    /\ ld' = [ld EXCEPT !.pc = "open", !.type = type]
    /\ UNCHANGED <<pos, rd>>

\* A file of tags alone may still look like frames of MPEG audio.  A file of no known
\* type is MUS_MOD in the code, for which no decoder is built here: it is refused.
DetectType ==
    \/ FileEnd - pos < 24 /\ Untyped(FileEnd)
    \/ /\ FileEnd - pos >= 24
       /\ CASE file.form = "RIFF" -> rd' = Detect /\ pos' = pos + 12 /\ To("detect")
            [] file.form = "MPEG" -> Typed("mp3") \/ (~HasAudio /\ Untyped(pos))
            [] file.form \in DOMAIN IffNeeds -> Typed("wav")
            [] OTHER -> Untyped(pos)

LoadMUS == ld.pc = "LoadMUS" /\ DetectType /\ UNCHANGED file

DetectedType ==
    /\ ld.pc = "detect" /\ rd.pc = "detected"
    /\ ld' = [ld EXCEPT !.pc = "open", !.type = rd.type]
    /\ rd' = NoReader
    /\ UNCHANGED <<file, pos>>

-----------------------------------------------------------------------------
(* Mix_LoadWAV_RW                                                           *)

\* The files that have a loader of their own for chunks.
OwnForms == DOMAIN IffNeeds \cup {"VOC"}

\* voc_check_header: a VOC file is looked for at the start of the source, whatever
\* lies before the place the caller gave.
VocHeader ==
    IF file.origin = 0 THEN rd' = VocReader /\ pos' = Reached(file.lead) /\ To("read")
    ELSE Return(Close(ld)) /\ pos' = Reached(20) /\ UNCHANGED rd

LoadWAV ==
    /\ ld.pc = "LoadWAV"
    /\ \/ Return(Close(Hitched(ld))) /\ UNCHANGED <<pos, rd>>
       \/ FileEnd - pos < 4 /\ Return(Close(ld)) /\ pos' = FileEnd /\ UNCHANGED rd
       \/ /\ FileEnd - pos >= 4
          /\ CASE file.form = "RIFF" -> To("sdl") /\ UNCHANGED <<pos, rd>>
               [] file.form \in DOMAIN IffNeeds ->
                    rd' = IffReader("chunk") /\ pos' = Reached(pos + 12) /\ To("read")
               [] file.form = "VOC" -> VocHeader
               [] OTHER -> DetectType
    /\ UNCHANGED file

\* SDL_LoadWAV_RW closes the source itself; then the samples are converted.
LoadedBySDL ==
    /\ ld.pc = "sdl"
    /\ \/ ld' = [Close(ld) EXCEPT !.pc = "loaded"]
       \/ Return(Close(Hitched(ld)))
    /\ pos' \in {ld.start, FileEnd}
    /\ UNCHANGED <<file, rd>>

-----------------------------------------------------------------------------
(* The decoders.                                                            *)

\* load_music_type and open_music_type_ex, which may fail.
OpenType ==
    /\ ld.pc = "open"
    /\ \/ ld' = [ld EXCEPT !.pc = "try", !.i = 1]
       \/ Return(LET l == Hitched(ld) IN IF ld.call = "music" THEN Close(l) ELSE l)
    /\ UNCHANGED <<file, pos, rd>>

TryDecoder ==
    /\ ld.pc = "try"
    /\ IF ld.i > Len(Decoders) THEN Return(Close(ld)) /\ UNCHANGED <<pos, rd>>
       ELSE LET d == Decoders[ld.i]
            IN  IF d.type # ld.type THEN ld' = [ld EXCEPT !.i = @ + 1] /\ UNCHANGED <<pos, rd>>
                ELSE /\ To("read")
                     /\ IF d.type = "mp3" THEN rd' = TagReader(d.front = "keep") /\ UNCHANGED pos
                        ELSE /\ rd' = IF file.form = "RIFF" THEN WavReader ELSE IffReader("music")
                             /\ pos' = Reached(pos + 12)
    /\ UNCHANGED file

ReadOn ==
    /\ ld.pc \in {"detect", "read"}
    /\ ChunkStep \/ TagStep \/ VocStep
    /\ UNCHANGED ld

\* Mix_LoadAIFF_RW or Mix_LoadVOC_RW
OwnLoader == ld.pc = "read" /\ ld.i = 0

\* (Mutant: the decoder is not left behind.)
TryAgain == ld
TryNext == [ld EXCEPT !.i = @ + 1]

\* CreateFromRW failed, at the file or at something else: the next decoder starts over.
NotOpened ==
    /\ ld.pc = "read" /\ rd.pc \in {"failed", "found"}
    /\ LET l == IF rd.pc = "found" THEN Hitched(ld) ELSE ld
       IN  IF OwnLoader THEN Return(Close(l)) /\ UNCHANGED pos
           ELSE /\ ld' = [TryNext EXCEPT !.pc = "try", !.hitch = l.hitch]
                /\ pos' = ld.start
    /\ rd' = NoReader
    /\ UNCHANGED file

\* (Mutant: the source is closed by the decoder and by Mix_LoadMusic_RW.)
DeletedTwice == Close(Close(ld))
\* The decoder owns the source, which it closes when it is deleted.
Deleted == Close(ld)

\* The fragments Mix_LoadMusic_RW plays a chunk in stop where memory runs out behind one
\* of them: what was played till there is the sound, and no error.
CutShort ==
    /\ ld.call = "chunk" /\ ~OwnLoader
    /\ ld' = [Deleted EXCEPT !.pc = "loaded", !.short = TRUE]
    /\ \E till \in FragmentEnds :
         /\ rd.audio[1].from < till /\ till < rd.audio[1].to
         /\ rd' = Found(rd.audio[1].from, till, rd.title)

\* A decoder took the file.  Music keeps the decoder, a chunk plays it to the end and
\* deletes it; then its samples are converted.
Opened ==
    /\ ld.pc = "read" /\ rd.pc = "found"
    /\ \/ /\ ld' = [(IF ld.call = "music" THEN ld ELSE Deleted) EXCEPT !.pc = "loaded"]
          /\ UNCHANGED rd
       \/ Return(Hitched(Deleted)) /\ UNCHANGED rd
       \/ CutShort
    /\ UNCHANGED <<file, pos>>

Returned == ld.pc \in {"null", "loaded"}

Next == \/ LoadMUS \/ DetectedType \/ LoadWAV \/ LoadedBySDL \/ OpenType
        \/ TryDecoder \/ ReadOn \/ NotOpened \/ Opened

\* The call runs in the thread of the application and blocks it.
Spec == Init /\ [][Next]_vars /\ WF_vars(Next)

-----------------------------------------------------------------------------
(* Properties.                                                              *)

\* The types; the cursor does not leave the file.
TypeOK ==
    /\ pos \in 0 .. FileEnd
    /\ rd.pc \in {"none", "failed", "found", "detect", "detected", "wav", "iff",
                 "tags", "probe", "head", "mm", "id3v1", "tails", "over", "vocBlock", "vocGot"}
    /\ ld.pc \in {"LoadMUS", "LoadWAV", "detect", "open", "try", "sdl", "read", "null", "loaded"}
    /\ ld.i \in 0 .. Len(Decoders) + 1
    /\ ld.closed \in 0 .. 1

\* The blocks of a kind, by their place.
Places(kinds) == {k \in DOMAIN file.blocks : file.blocks[k].kind \in kinds}
Place(kind) == CHOOSE k \in Places({kind}) : TRUE
Once(kinds) == Cardinality(Places(kinds)) <= 1

\* A tag behind the audio is whole, and there is one of a kind.  ID3v1 is the last but
\* for MusicMatch, and nothing stands between the audio and an APE tag that does not
\* say where it begins.
TagsWellFormed ==
    /\ \A k \in DOMAIN file.blocks : file.blocks[k].x # "broken"
    /\ \A kinds \in {{"id3v1"}, {"lyrics1", "lyrics2"}, {"mm"}} : Once(kinds)
    /\ Cardinality(Places({"ape"}) \ {1}) <= 1
    /\ \A k \in Places({"id3v1"}) : \A j \in DOMAIN file.blocks : j > k => file.blocks[j].kind = "mm"
    /\ \A k \in DOMAIN file.blocks :
         file.blocks[k].x = "headless" => file.blocks[k - 1].kind = "audio"

\* A VOC file begins its source, and ends with its terminator or without one; its sound
\* is of one encoding and one rate, and silence stands between plain 8-bit data.
VocWellFormed ==
    LET Kind(k) == file.blocks[k].kind
        sounds == Places({"data", "data16", "cont", "silence"})
        plain == {k \in Places({"data"}) : k = 1 \/ Kind(k - 1) # "extended"}
    IN  /\ file.origin = 0 /\ ld.call = "chunk"
        /\ \A k \in Places({"term"}) : k = Len(file.blocks)
        /\ sounds # {} /\ \A k \in sounds : (\A j \in sounds : k <= j) => Kind(k) \in {"data", "data16"}
        /\ Places({"data"}) = {} \/ Places({"data16"}) = {}
        /\ Places({"silence"}) # {} => Places({"data16", "extended"}) = {}
        /\ \A k \in Places({"data", "data16", "extended"}) : file.blocks[k].x.n # 0
        /\ \A k \in plain \cup Places({"data16", "extended", "silence"}) : file.blocks[k].x.rate # 0
        /\ Cardinality({file.blocks[k].x.rate : k \in plain \cup Places({"data16", "extended"})}) = 1

\* What a writer of the format makes of it.  MPEG audio in a RIFF file is looked for at
\* the wrong place when the source does not begin with the file.
WellFormed ==
    /\ file.cut = 0
    /\ CASE file.form = "RIFF" ->
              /\ Cardinality(Places({"fmt"})) = 1 /\ Cardinality(Places({"data"})) = 1
              /\ \A k \in DOMAIN file.blocks : file.blocks[k].len > 0
              /\ file.blocks[Place("fmt")].len >= 16
              /\ file.blocks[Place("fmt")].x = "mp3" => file.origin = 0
         [] file.form = "MPEG" -> HasAudio /\ TagsWellFormed
         [] file.form \in DOMAIN IffNeeds ->
              /\ \A kind \in IffNeeds[file.form] : Cardinality(Places({kind})) = 1
              /\ file.form # "8SVX" => /\ file.blocks[Place("COMM")].x > 0
                                       /\ Places({"BODY"}) = {}
              /\ file.form = "8SVX" => Places({"COMM", "SSND"}) = {}
         [] file.form = "VOC" -> VocWellFormed
         [] OTHER -> FALSE

\* The stretches of a VOC file.
VocWritten ==
    LET rate == file.blocks[CHOOSE k \in Places({"data", "data16"}) : TRUE].x.rate
        Part(k) ==
            LET b == file.blocks[k]
            IN  CASE b.kind \in {"data", "cont", "data16"} -> <<Stretch(Begin(k) + 4 + Told(b), Begin(k + 1))>>
                  [] b.kind = "silence" -> <<Silence((b.x.n * (256 - b.x.rate)) \div (256 - rate))>>
                  [] OTHER -> <<>>
    IN  FlattenSeq([k \in DOMAIN file.blocks |-> Part(k)])

\* The stretches of the file that are audio.
Written ==
    CASE file.form = "VOC" -> VocWritten
      [] file.form = "RIFF" ->
           LET k == Place("data") IN <<Stretch(Begin(k) + 8, Begin(k) + 8 + file.blocks[k].len)>>
      [] file.form = "8SVX" ->
           LET k == Place("BODY") IN <<Stretch(Begin(k) + 8, Begin(k + 1) - file.blocks[k].pad)>>
      [] file.form = "MPEG" ->
           LET k == Place("audio")
               kept == file.blocks[1].kind = "id3v2" /\ Decoders[ld.i].front = "keep"
           IN  <<Stretch(IF kept THEN file.origin ELSE Begin(k), Begin(k + 1))>>
      [] OTHER -> LET k == Place("SSND")
                      first == Begin(k) + 16 + file.blocks[k].x
                  IN  <<Stretch(first, first + file.blocks[Place("COMM")].x)>>

\* The length of the buffer of a VOC file: whole frames only.
Counted ==
    LET all == VocWritten
        sum[k \in 0 .. Len(all)] == IF k = 0 THEN 0 ELSE sum[k - 1] + Size(all[k])
        bytes == sum[Len(all)]
        wide == \E k \in Places({"data16", "extended"}) : file.blocks[k].x.n = 2
    IN  IF wide THEN bytes - (bytes % 2) ELSE bytes

\* The tag that names the music: the one in front, then APE, then ID3v1.
Title ==
    LET head == file.blocks[1]
        last == Places({"ape"}) \ {1}
    IN  IF file.form # "MPEG" THEN ""
        ELSE IF head.kind \in {"id3v2", "ape"} /\ head.x = "ok" THEN head.kind
        ELSE IF \E k \in last : file.blocks[k].x = "ok" THEN "ape"
        ELSE IF Places({"id3v1"}) # {} THEN "id3v1" ELSE ""

\* A first part of the one stretch of a sound, and not the whole.
Beginning(part, whole) ==
    /\ Len(part) = 1 /\ part[1].from = whole[1].from
    /\ part[1].from < part[1].to /\ part[1].to < whole[1].to

\* The variables keep their types; of a well-formed file exactly the audio is played,
\* whichever decoder opens it and after whichever others: no byte of a tag, of another
\* chunk or of padding, and no byte too few, all in its order and as many as are counted;
\* its title is the one of the best tag; and such a file is refused only when
\* memory, a decoder or a conversion fails (Mix_LoadMUSType_RW_ARG, Mix_LoadWAV_RW).
\* Where memory runs out while a decoder plays a chunk, what is loaded is a beginning of
\* the audio (Mix_LoadMusic_RW).
LoadedAsWritten ==
    /\ TypeOK
    /\ WellFormed =>
          /\ ld.pc = "loaded" /\ rd.pc = "found" =>
                /\ rd.audio = Written \/ (ld.short /\ Beginning(rd.audio, Written))
                /\ rd.title = Title
                /\ file.form = "VOC" => rd.bytes = Counted
          /\ ld.pc = "null" => ld.hitch

\* The source is closed once when the caller asked for it and the load is over or has
\* failed, by music that is loaded not before that is deleted, and never otherwise; what
\* is left open after no decoder took music of 24 bytes or more is where it was.
SourceClosed ==
    Returned =>
        /\ ld.closed = IF ld.freesrc /\ (ld.pc = "null" \/ ld.call = "chunk") THEN 1 ELSE 0
        /\ /\ ld.pc = "null" /\ ld.call = "music" /\ ~ld.freesrc
           /\ ~(FileEnd - ld.start < 24) /\ rd.pc # "found"
           => pos = ld.start

\* Mix_LoadMusic_RW returned before it tried a decoder.
Unopened == ld.call = "chunk" /\ ld.pc = "null" /\ ld.i = 0 /\ file.form \notin OwnForms

\* SourceClosed, but for a chunk of no known type: its source is left open
\* (Mix_LoadMusic_RW).
SourceClosedIfOpened == Unopened \/ SourceClosed

\* A load comes to its end, at every file: the loops over chunks, tags and decoders end.
LoadReturns == <>Returned

-----------------------------------------------------------------------------
(* What the theorems take for granted of the files, well-formed or not: how *)
(* the blocks of each form are laid out; and of the decoders.  MCLoading    *)
(* checks it of its own.                                                    *)

\* The chunks are aligned; the sound of an AIFF file fits its chunk.
ChunksMade(f) ==
    /\ f.lead = 12
    /\ \A k \in DOMAIN f.blocks :
         LET b == f.blocks[k]
         IN  /\ b.head = 8 /\ b.pad = b.len % 2
             /\ f.form = "RIFF" /\ b.kind = "fmt" => b.x \in {"pcm", "mp3"}
             /\ f.form # "RIFF" /\ b.kind \in {"COMM", "SSND"} => b.x \in Nat
    /\ f.form # "RIFF" =>
         \A j, k \in DOMAIN f.blocks :
            f.blocks[j].kind = "SSND" /\ f.blocks[k].kind = "COMM"
            => 8 + f.blocks[j].x + f.blocks[k].x <= f.blocks[j].len

\* The audio is as long as what is looked at for it, the first block or behind one tag;
\* a tag is not shorter than the least of its kind.
MpegMade(f) ==
    /\ f.lead = 0
    /\ \A k \in DOMAIN f.blocks :
         LET b == f.blocks[k]
         IN  CASE b.kind = "audio" ->
                    /\ b.len >= 24
                    /\ \/ k = 1
                       \/ /\ k = 2 /\ f.blocks[1].x # "headless"
                          /\ f.blocks[1].kind \in {"id3v2", "ape"}
               [] b.kind = "id3v2" -> k = 1
               [] b.kind = "mm" -> Total(b) >= 68
               [] b.kind = "id3v1" -> Total(b) >= 128
               [] b.kind = "ape" -> k = 1 \/ (Total(b) >= 32 /\ b.x \in {"ok", "headless", "broken"})
               [] OTHER -> b.kind \in {"lyrics1", "lyrics2"} /\ Total(b) >= 20

\* A block of sound is longer than what is told of it, silence lasts, and an extended
\* block comes before its data.
VocBlockMade(f, k) ==
    LET b == f.blocks[k]
        data == {j \in DOMAIN f.blocks : f.blocks[j].kind = "data"}
    IN  /\ b.kind # "nothing" /\ b.x.n \in Nat /\ b.x.rate \in Nat
        /\ b.pad = 0 /\ Told(b) <= b.len
        /\ IF b.kind = "term" THEN b.head = 1 /\ b.len = 0 ELSE b.head = 4
        /\ b.kind = "data" => b.len > 2 /\ b.x.rate <= 255
        /\ b.kind = "data16" => b.len >= 12 + b.x.n /\ b.x.n <= 2
        /\ b.kind = "cont" => b.len >= 2
        /\ b.kind \in {"extended", "silence"} => b.len = Told(b)
        /\ b.kind = "extended" => b.x.n <= 2 /\ k + 1 \in data
        /\ b.kind = "silence" =>
             /\ b.x.rate <= 255
             /\ \A j \in data : b.x.n * (256 - b.x.rate) >= 256 - f.blocks[j].x.rate

\* What blocks of a kind say of the samples is alike.
VocMade(f) ==
    /\ f.lead = 26
    /\ \A k \in DOMAIN f.blocks : VocBlockMade(f, k)
    /\ \A kind \in {"data16", "extended"} : \A j, k \in DOMAIN f.blocks :
         f.blocks[j].kind = kind /\ f.blocks[k].kind = kind => f.blocks[j].x.n = f.blocks[k].x.n

Made(f) ==
    /\ {f.origin, f.lead, f.cut} \subseteq Nat /\ f.cut <= f.lead
    /\ Len(f.blocks) \in Nat /\ DOMAIN f.blocks = 1 .. Len(f.blocks)
    /\ \A k \in DOMAIN f.blocks :
         LET b == f.blocks[k]
         IN  {b.head, b.len, b.pad} \subseteq Nat /\ Total(b) > 0
    /\ f.form \in {"RIFF"} \cup DOMAIN IffNeeds => ChunksMade(f)
    /\ f.form = "MPEG" => MpegMade(f)
    /\ f.form = "VOC" => VocMade(f)

\* There is a decoder of each type.
BothTypes == \A t \in {"wav", "mp3"} : \E j \in 1 .. Len(Decoders) : Decoders[j].type = t
=============================================================================
