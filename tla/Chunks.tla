-------------------------------- MODULE Chunks --------------------------------
(***************************************************************************)
(* The readers of chunk lists: detect_riff_mp3 of music.c, which looks for  *)
(* MPEG audio in a RIFF file; LoadWAVMusic and LoadAIFFMusic of            *)
(* music_wav.c; Mix_LoadAIFF_RW of load_aiff.c.  One action is one round   *)
(* of the loop over the chunks.  A length of 0 is what SDL_ReadLE32 gives  *)
(* at the end of the file.                                                 *)
(***************************************************************************)
EXTENDS Source

\* (Mutant: the padding byte is forgotten.)
PastUnpadded(c) == pos + c.head + c.len
\* Behind the contents of chunk c and its padding byte.
Past(c) == pos + c.head + c.len + (c.len % 2)

Whole(c) == pos + c.head + c.len <= FileEnd

-----------------------------------------------------------------------------
(* detect_riff_mp3                                                          *)

Detect == [pc |-> "detect", start |-> pos]

Detected(type) ==
    /\ rd' = [pc |-> "detected", type |-> type]
    /\ pos' = rd.start

DetectChunk ==
    /\ rd.pc = "detect"
    /\ LET c == At(pos)
       IN  IF c.len = 0 THEN Detected("wav")
           ELSE IF c.kind = "fmt"
             THEN Detected(IF c.len >= 16 /\ c.x = "mp3" THEN "mp3" ELSE "wav")
           ELSE pos' = Reached(Past(c)) /\ UNCHANGED rd
    /\ UNCHANGED file

-----------------------------------------------------------------------------
(* LoadWAVMusic                                                             *)

WavReader == [pc |-> "wav", fmt |-> FALSE, data |-> FALSE, start |-> 0, stop |-> 0]

\* ParseFMT, ParseDATA, ParseSMPL, ParseLIST and ParseID3: the contents are read as
\* a whole, but a LIST may be cut off by the end of the file; a format has 16 bytes.
WavParsed(c) ==
    CASE c.kind = "fmt" -> IF c.len >= 16 /\ Whole(c) /\ c.x = "pcm" THEN [rd EXCEPT !.fmt = TRUE] ELSE Failed
      [] c.kind = "data" -> [rd EXCEPT !.data = TRUE, !.start = pos + c.head,
                                       !.stop = pos + c.head + c.len]
      [] c.kind \in {"smpl", "ID3"} -> IF Whole(c) THEN rd ELSE Failed
      [] c.kind = "LIST" -> IF pos + c.head < FileEnd THEN rd ELSE Failed
      [] OTHER -> rd

WavChunk ==
    /\ rd.pc = "wav"
    /\ LET c == At(pos)
       IN  IF c.len = 0
             THEN /\ rd' = IF rd.fmt /\ rd.data THEN Found(rd.start, rd.stop, "") ELSE Failed
                  /\ UNCHANGED pos
             ELSE rd' = WavParsed(c) /\ pos' = Reached(Past(c))
    /\ UNCHANGED file

-----------------------------------------------------------------------------
(* LoadAIFFMusic, and Mix_LoadAIFF_RW, which knows fewer chunks.            *)

IffReader(by) == [pc |-> "iff", by |-> by, seen |-> {}, start |-> 0, bytes |-> 0]

IffParsed(c) ==
    LET r == [rd EXCEPT !.seen = @ \cup {c.kind}]
    IN  CASE c.kind = "SSND" -> [r EXCEPT !.start = pos + c.head + 8 + c.x]
          [] c.kind = "COMM" -> IF c.x > 0 THEN [r EXCEPT !.bytes = c.x] ELSE Failed
          [] c.kind = "BODY" -> [r EXCEPT !.start = pos + c.head, !.bytes = c.len]
          [] c.kind \in {"ID3", "NAME"} -> IF rd.by = "music" /\ ~Whole(c) THEN Failed ELSE r
          [] OTHER -> r

\* The chunks each type of file must have.
IffNeeds == [type \in {"AIFF", "AIFC", "8SVX"} |->
               CASE type = "AIFF" -> {"SSND", "COMM"}
                 [] type = "AIFC" -> {"SSND", "COMM", "FVER"}
                 [] type = "8SVX" -> {"VHDR", "BODY"}]

\* The sound in memory is read at once, music when it plays.
IffFound(r) ==
    IF IffNeeds[file.form] \subseteq r.seen
         /\ (r.by = "chunk" => r.start + r.bytes <= FileEnd)
      THEN Found(r.start, r.start + r.bytes, "") ELSE Failed

IffChunk ==
    /\ rd.pc = "iff"
    /\ LET c == At(pos)
           r == IffParsed(c)
       IN  IF r = Failed THEN rd' = Failed /\ UNCHANGED pos
           ELSE IF c # Nothing /\ Past(c) < FileEnd THEN rd' = r /\ pos' = Past(c)
           ELSE rd' = IffFound(r) /\ UNCHANGED pos
    /\ UNCHANGED file

ChunkStep == DetectChunk \/ WavChunk \/ IffChunk
=============================================================================
