--------------------------------- MODULE Tags ---------------------------------
(***************************************************************************)
(* mp3_read_tags of mp3utils.c: where in a file the MPEG audio begins and  *)
(* ends.  Tags of five kinds stand before and behind it, or a RIFF file is *)
(* wrapped around it.  The reader narrows [start, start + length) tag by   *)
(* tag, and takes the title from the tags it can read.  What it reads      *)
(* between is left out: the cursor is set when it ends.                    *)
(***************************************************************************)
EXTENDS Chunks

\* MP3_RWinit; keep: the decoder wants the ID3v2 tag in front of the audio.
TagReader(keep) ==
    [pc |-> "tags", keep |-> keep, start |-> pos, length |-> FileEnd - pos,
     title |-> "", handled |-> FALSE, mm |-> FALSE, lyr |-> FALSE, ape |-> FALSE,
     fmt |-> FALSE, data |-> <<>>]

Refused == rd' = Failed /\ pos' = Reached(rd.start)

ReadTags ==
    /\ rd.pc = "tags"
    /\ IF rd.length = 0 THEN Refused
       ELSE IF file.form = "RIFF"
         THEN rd' = [rd EXCEPT !.pc = "probe"] /\ pos' = Reached(rd.start + 12)
       ELSE rd' = [rd EXCEPT !.pc = "head"] /\ UNCHANGED pos
    /\ UNCHANGED file

-----------------------------------------------------------------------------
(* probe_riff_container                                                     *)

\* No MPEG audio in it: the tags are looked for as in any other file.
NotRiff == rd' = [rd EXCEPT !.pc = "head"] /\ UNCHANGED pos

\* A seek over a chunk fails only where the whole file is shorter than the chunk says,
\* which a file that is cut within its last chunks is not.
ProbeChunk ==
    /\ rd.pc = "probe"
    /\ LET c == At(pos)
           next == pos' = Reached(Past(c))
       IN  IF c.len = 0
             THEN IF rd.fmt /\ rd.data # <<>>
                    THEN /\ rd' = [rd EXCEPT !.pc = "over", !.start = rd.data[1],
                                             !.length = rd.data[2]]
                         /\ UNCHANGED pos
                    ELSE NotRiff
           ELSE CASE c.kind = "fmt" ->
                       IF c.len >= 16 /\ c.x = "mp3"
                         THEN rd' = [rd EXCEPT !.fmt = TRUE] /\ next ELSE NotRiff
                  [] c.kind = "data" ->
                       \* an offset in the file, not from rd.start
                       rd' = [rd EXCEPT !.data = <<pos + c.head - rd.start, c.len>>] /\ next
                  [] c.kind = "LIST" ->
                       IF pos + c.head < FileEnd THEN UNCHANGED rd /\ next ELSE NotRiff
                  [] OTHER -> UNCHANGED rd /\ next
    /\ UNCHANGED file

-----------------------------------------------------------------------------
(* The tag in front.                                                        *)

\* The front of the file is cut off.
Fronted(r, b) == [r EXCEPT !.start = @ + Total(b), !.length = @ - Total(b)]

HeadTag ==
    /\ rd.pc = "head"
    /\ LET b == At(rd.start)
           r == [rd EXCEPT !.pc = "mm", !.title = b.kind, !.handled = TRUE]
           front == b.kind = "id3v2" \/ (b.kind = "ape" /\ b.x # "headless")
       IN  IF front /\ Total(b) >= rd.length THEN Refused
           ELSE /\ rd' = IF ~front THEN [rd EXCEPT !.pc = "mm"]
                         ELSE LET s == IF b.x = "ok" THEN r ELSE [rd EXCEPT !.pc = "mm"]
                              IN  IF b.kind = "id3v2" /\ rd.keep THEN s ELSE Fronted(s, b)
                /\ UNCHANGED pos
    /\ UNCHANGED file

-----------------------------------------------------------------------------
(* The tags behind.                                                         *)

Hind(r) == Before(r.start + r.length)

Dropped(r, b) == [r EXCEPT !.length = @ - Total(b)]

\* What cannot be a tag: it is broken, or there would be nothing else.
Invalid(r, b) == b.x = "broken" \/ Total(b) >= r.length

\* probe_mmtag, before and in the loop.
MmTag(r) == r.length >= 68 /\ Hind(r).kind = "mm"

FirstMm ==
    /\ rd.pc = "mm"
    /\ IF MmTag(rd) /\ Invalid(rd, Hind(rd)) THEN Refused
       ELSE /\ rd' = IF MmTag(rd)
                       THEN [Dropped(rd, Hind(rd)) EXCEPT !.pc = "id3v1", !.mm = TRUE]
                       ELSE [rd EXCEPT !.pc = "id3v1"]
            /\ UNCHANGED pos
    /\ UNCHANGED file

\* probe_id3v1; a title that was found before is kept.
Id3v1 ==
    /\ rd.pc = "id3v1"
    /\ LET r == [rd EXCEPT !.pc = "tails"]
       IN  rd' = IF rd.length >= 128 /\ Hind(rd).kind = "id3v1"
                   THEN [Dropped(r, Hind(rd)) EXCEPT !.title = IF rd.handled THEN @ ELSE "id3v1"]
                   ELSE r
    /\ UNCHANGED <<file, pos>>

\* probe_lyrics3: version 1 is searched for its beginning.
LyricsTag(r) == ~r.lyr /\ r.length >= 15 /\ Hind(r).kind \in {"lyrics1", "lyrics2"}

LyricsInvalid(r) ==
    IF Hind(r).kind = "lyrics1" THEN r.length < 20 \/ Hind(r).x = "broken" ELSE Invalid(r, Hind(r))

\* probe_apetag: the footer of version 2 says whether there is a header.
ApeTag(r) == ~r.ape /\ r.length >= 32 /\ Hind(r).kind = "ape"

\* (Mutant: the loop ends at the first tag.)
AgainNever(r) == [r EXCEPT !.pc = "over"]
\* Another round: what was hidden behind the tag is at the end now.
Again(r) == r

\* One round of the loop for tags in any order.
Tails ==
    /\ rd.pc = "tails"
    /\ LET b == Hind(rd)
           r == Dropped(rd, b)
           ape == IF rd.handled THEN r ELSE [r EXCEPT !.title = "ape"]
       IN  CASE LyricsTag(rd) ->
                  IF LyricsInvalid(rd) THEN Refused
                  ELSE rd' = Again([r EXCEPT !.lyr = TRUE]) /\ UNCHANGED pos
             [] ~rd.mm /\ MmTag(rd) ->
                  IF Invalid(rd, b) THEN Refused
                  ELSE rd' = Again([r EXCEPT !.mm = TRUE]) /\ UNCHANGED pos
             [] ApeTag(rd) ->
                  IF Invalid(rd, b) THEN Refused
                  ELSE /\ rd' = IF b.x = "headless" THEN [r EXCEPT !.pc = "over"]
                                ELSE Again([ape EXCEPT !.ape = TRUE])
                       /\ UNCHANGED pos
             [] OTHER -> rd' = [rd EXCEPT !.pc = "over"] /\ UNCHANGED pos
    /\ UNCHANGED file

\* "succ:" and "fail:"
TagsRead ==
    /\ rd.pc = "over"
    /\ rd' = IF rd.length > 0 THEN Found(rd.start, rd.start + rd.length, rd.title) ELSE Failed
    /\ pos' = Reached(rd.start)
    /\ UNCHANGED file

TagStep == ReadTags \/ ProbeChunk \/ HeadTag \/ FirstMm \/ Id3v1 \/ Tails \/ TagsRead
=============================================================================
