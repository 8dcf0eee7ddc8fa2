---------------------------- MODULE LoadingProofs ----------------------------
(***************************************************************************)
(* What a load does, for all files and decoders.  First who closes the     *)
(* source, from where the call stands, whatever the readers find; then     *)
(* what they find: where each reader is in a file of its form, what the    *)
(* blocks before that place told it, and that this is, at the end, what    *)
(* the file was written with.                                              *)
(***************************************************************************)
EXTENDS Loading, TLAPS, Induction, FiniteSetTheorems

Call == [pc : {"LoadMUS", "LoadWAV", "detect", "open", "try", "sdl", "read", "null", "loaded"},
         call : {"music", "chunk"}, freesrc : BOOLEAN, start : Nat,
         type : {"none", "wav", "mp3"}, i : Nat, closed : Nat, hitch : BOOLEAN,
         short : BOOLEAN]

\* What is known where the call stands: before it returns nothing is closed, and while
\* no reader is at work the cursor is where it was.
Standing ==
    /\ ~Returned => ld.closed = 0
    /\ ld.pc \in {"LoadMUS", "LoadWAV", "open", "try"} => pos = ld.start
    /\ ld.pc \in {"LoadMUS", "LoadWAV", "detect", "open"} => ld.i = 0
    /\ ld.pc = "try" => ld.i # 0
    /\ ld.pc \in {"LoadMUS", "detect"} => ld.call = "music"
    /\ ld.pc \in {"LoadWAV", "sdl"} => ld.call = "chunk"
    /\ ld.pc = "read" /\ ld.i = 0 => ld.call = "chunk"
    /\ ld.pc = "open" /\ ld.call = "chunk" => file.form \notin OwnForms
    /\ ld.pc = "detect" => \/ rd.pc = "detect" /\ rd.start = ld.start
                           \/ rd.pc = "detected" /\ pos = ld.start /\ rd.type \in {"wav", "mp3"}

IInv == /\ file \in Files
        /\ ld \in Call
        /\ Standing
        /\ SourceClosedIfOpened

\* No step writes the file.
LEMMA FileKept == Next => file' = file
  BY DEF Next, LoadMUS, DetectedType, LoadWAV, LoadedBySDL, OpenType, TryDecoder, ReadOn,
         NotOpened, Opened, ChunkStep, TagStep, DetectChunk, WavChunk, IffChunk, ReadTags,
         ProbeChunk, HeadTag, FirstMm, Id3v1, Tails, TagsRead, VocStep, VocBlock, VocGot

\* A file that stays has the end it had.
LEMMA EndKept == ASSUME file' = file PROVE FileEnd' = FileEnd
  BY DEF FileEnd, Begin, Total

\* A call begins with nothing closed and the cursor at the start.
LEMMA InitInv == Init => IInv
<1> SUFFICES ASSUME Init PROVE IInv
  OBVIOUS
<1>1. file \in Files /\ pos = file.origin /\ file.origin \in Nat
  BY FilesAssumption DEF Init
<1>2. PICK call \in {"music", "chunk"}, freesrc \in BOOLEAN :
        ld = [pc |-> IF call = "music" THEN "LoadMUS" ELSE "LoadWAV", call |-> call,
              freesrc |-> freesrc, start |-> pos, type |-> "none", i |-> 0, closed |-> 0,
              hitch |-> FALSE, short |-> FALSE]
  BY DEF Init
<1>3. ld \in Call /\ ld.pc \in {"LoadMUS", "LoadWAV"} /\ ld.start = pos /\ ld.i = 0
      /\ ld.closed = 0 /\ (ld.pc = "LoadMUS" => ld.call = "music")
      /\ (ld.pc = "LoadWAV" => ld.call = "chunk")
  BY <1>1, <1>2 DEF Call
<1>4. ~Returned
  BY <1>3 DEF Returned
<1>5. Standing
  BY <1>1, <1>3, <1>4 DEF Standing, Call
<1> QED
  BY <1>1, <1>3, <1>4, <1>5 DEF IInv, SourceClosedIfOpened, SourceClosed

\* A failure of memory or a library moves nothing else.
LEMMA HitchedFields ==
    ASSUME NEW l \in Call
    PROVE  /\ Hitched(l) \in Call /\ Hitched(l).closed = l.closed /\ Hitched(l).pc = l.pc
           /\ Hitched(l).call = l.call /\ Hitched(l).freesrc = l.freesrc
           /\ Hitched(l).start = l.start /\ Hitched(l).i = l.i
<1>1. Hitched(l) \in Call
  BY Zenon DEF Hitched, Call
<1>2. Hitched(l).closed = l.closed /\ Hitched(l).pc = l.pc
      /\ Hitched(l).call = l.call /\ Hitched(l).freesrc = l.freesrc
      /\ Hitched(l).start = l.start /\ Hitched(l).i = l.i
  BY DEF Hitched, Call
<1> QED
  BY <1>1, <1>2

\* A return closes what is to be closed.
LEMMA Returning ==
    ASSUME NEW l \in Call, l.closed = 0
    PROVE  /\ Close(l) \in Call
           /\ Close(l).closed = IF l.freesrc THEN 1 ELSE 0
           /\ Close(l).pc = l.pc /\ Close(l).call = l.call /\ Close(l).freesrc = l.freesrc
           /\ Close(l).start = l.start /\ Close(l).i = l.i
           /\ Hitched(l) \in Call /\ Hitched(l).closed = l.closed /\ Hitched(l).pc = l.pc
           /\ Hitched(l).call = l.call /\ Hitched(l).freesrc = l.freesrc
           /\ Hitched(l).start = l.start /\ Hitched(l).i = l.i
<1>1. CASE l.freesrc
  <2>1. Close(l) = [l EXCEPT !.closed = 1]
    BY <1>1 DEF Close
  <2>2. Close(l) \in Call
    <3>1. 1 \in Nat
      OBVIOUS
    <3> QED
      BY <2>1, <3>1, Zenon DEF Call
  <2>3. /\ Close(l).closed = 1
        /\ Close(l).pc = l.pc /\ Close(l).call = l.call /\ Close(l).freesrc = l.freesrc
        /\ Close(l).start = l.start /\ Close(l).i = l.i
    BY <2>1 DEF Call
  <2> QED
    BY <1>1, <2>2, <2>3, HitchedFields
<1>2. CASE ~l.freesrc
  BY <1>2, HitchedFields DEF Close
<1> QED
  BY <1>1, <1>2

\* To return with the source closed is to return well, if music is rewound.
LEMMA ClosedWell ==
    ASSUME NEW l \in Call, l.closed = 0, ld' = [Close(l) EXCEPT !.pc = "null"],
           l.call = "music" /\ ~l.freesrc =>
               pos' = l.start \/ FileEnd' - l.start < 24 \/ rd'.pc = "found"
    PROVE  ld' \in Call /\ Standing' /\ SourceClosedIfOpened'
<1>1. ld' \in Call /\ ld'.pc = "null" /\ ld'.closed = (IF l.freesrc THEN 1 ELSE 0)
      /\ ld'.call = l.call /\ ld'.freesrc = l.freesrc /\ ld'.start = l.start
  <2> DEFINE c == Close(l)
  <2>1. /\ c \in Call /\ c.closed = (IF l.freesrc THEN 1 ELSE 0)
        /\ c.call = l.call /\ c.freesrc = l.freesrc /\ c.start = l.start
    BY Returning
  <2> HIDE DEF c
  <2>2. ld' = [c EXCEPT !.pc = "null"]
    BY DEF c
  <2>3. ld' \in Call
    BY <2>1, <2>2, Zenon DEF Call
  <2>4. /\ ld'.pc = "null" /\ ld'.closed = c.closed /\ ld'.call = c.call
        /\ ld'.freesrc = c.freesrc /\ ld'.start = c.start
    BY <2>1, <2>2 DEF Call
  <2> QED
    BY <2>1, <2>3, <2>4
<1>2. Returned'
  BY <1>1 DEF Returned
<1>3. Standing'
  BY <1>1, <1>2 DEF Standing
<1>4. SourceClosed'
  BY <1>1, <1>2 DEF SourceClosed, Call
<1> QED
  BY <1>1, <1>3, <1>4 DEF SourceClosedIfOpened

\* A chunk that is given up before a decoder is tried.
LEMMA LeftOpen ==
    ASSUME NEW l \in Call, l.call = "chunk", l.i = 0, ld' = [l EXCEPT !.pc = "null"],
           file'.form \notin OwnForms
    PROVE  ld' \in Call /\ Standing' /\ SourceClosedIfOpened'
<1>1. ld' \in Call /\ ld'.pc = "null" /\ ld'.call = "chunk" /\ ld'.i = 0
  BY DEF Call
<1>2. Unopened'
  BY <1>1 DEF Unopened, OwnForms
<1>3. Standing'
  BY <1>1 DEF Standing, Returned
<1> QED
  BY <1>1, <1>2, <1>3 DEF SourceClosedIfOpened

\* As long as a call has not returned there is nothing to be closed.
LEMMA GoesOn ==
    ASSUME ~Returned'
    PROVE  SourceClosedIfOpened'
  BY DEF SourceClosedIfOpened, SourceClosed

\* detect_music_type: the cursor is back at the start when a type is found.
LEMMA Detecting ==
    ASSUME IInv, DetectType, file' = file, ld.pc \in {"LoadMUS", "LoadWAV"},
           ld.pc = "LoadWAV" => file.form # "RIFF" /\ file.form \notin OwnForms
    PROVE  ld' \in Call /\ Standing' /\ SourceClosedIfOpened'
<1>1. ld \in Call /\ ld.closed = 0 /\ pos = ld.start /\ ld.i = 0
      /\ (ld.pc = "LoadMUS" => ld.call = "music") /\ (ld.pc = "LoadWAV" => ld.call = "chunk")
  BY DEF IInv, Standing, Returned
<1>2. FileEnd' = FileEnd
  BY EndKept
<1>3. ASSUME NEW p, Untyped(p), p = pos \/ FileEnd - pos < 24
      PROVE  ld' \in Call /\ Standing' /\ SourceClosedIfOpened'
  <2>1. CASE ld.pc = "LoadMUS"
    <3>1. ld' = [Close(ld) EXCEPT !.pc = "null"] /\ pos' = p
      BY <1>1, <1>3, <2>1 DEF Untyped, Return
    <3> QED
      BY <1>1, <1>2, <1>3, <3>1, ClosedWell
  <2>2. CASE ld.pc = "LoadWAV"
    <3>1. ld' = [ld EXCEPT !.pc = "null"]
      BY <1>1, <1>3, <2>2 DEF Untyped, Return
    <3> QED
      BY <1>1, <2>2, <3>1, LeftOpen
  <2> QED
    BY <2>1, <2>2
<1>4. ASSUME NEW type \in {"mp3", "wav"}, Typed(type),
             ld.pc = "LoadWAV" => file.form \notin OwnForms
      PROVE  ld' \in Call /\ Standing' /\ SourceClosedIfOpened'
  <2>1. ld' \in Call /\ ld'.pc = "open" /\ ld'.call = ld.call /\ ld'.i = 0 /\ ld'.closed = 0
        /\ ld'.start = ld.start /\ pos' = pos
    BY <1>1, <1>4 DEF Typed, Call
  <2>2. ~Returned'
    BY <2>1 DEF Returned
  <2>3. ld'.call = "chunk" => file'.form \notin OwnForms
    BY <1>1, <1>4, <2>1
  <2>4. Standing'
    BY <1>1, <2>1, <2>2, <2>3 DEF Standing, OwnForms
  <2> QED
    BY <2>1, <2>2, <2>4, GoesOn
<1>5. ASSUME ld.pc = "LoadMUS", rd' = Detect, To("detect")
      PROVE  ld' \in Call /\ Standing' /\ SourceClosedIfOpened'
  <2>1. ld' \in Call /\ ld'.pc = "detect" /\ ld'.call = "music" /\ ld'.closed = 0
        /\ ld'.start = ld.start /\ ld'.i = 0
    BY <1>1, <1>5 DEF To, Call
  <2>2. rd'.pc = "detect" /\ rd'.start = ld'.start
    BY <1>1, <1>5, <2>1 DEF Detect
  <2>3. ~Returned'
    BY <2>1 DEF Returned
  <2>4. Standing'
    BY <2>1, <2>2, <2>3 DEF Standing
  <2> QED
    BY <2>1, <2>3, <2>4, GoesOn
<1>6. \/ Untyped(pos)
      \/ Untyped(FileEnd) /\ FileEnd - pos < 24
      \/ Typed("mp3")
      \/ Typed("wav") /\ file.form \in DOMAIN IffNeeds
      \/ file.form = "RIFF" /\ rd' = Detect /\ To("detect")
  BY DEF DetectType
<1> QED
  BY <1>3, <1>4, <1>5, <1>6

-----------------------------------------------------------------------------
(* The steps, one by one.                                                   *)

\* The type is looked for.
LEMMA StepLoadMUS == ASSUME IInv, LoadMUS PROVE ld' \in Call /\ Standing' /\ SourceClosedIfOpened'
  BY Detecting DEF LoadMUS

\* detect_riff_mp3 has found the type.
LEMMA StepDetectedType ==
    ASSUME IInv, DetectedType PROVE ld' \in Call /\ Standing' /\ SourceClosedIfOpened'
<1>1. ld \in Call /\ ld.pc = "detect" /\ ld.closed = 0 /\ ld.call = "music" /\ pos = ld.start
      /\ ld.i = 0 /\ rd.type \in {"wav", "mp3"}
  BY DEF IInv, Standing, Returned, DetectedType
<1>2. ld' = [ld EXCEPT !.pc = "open", !.type = rd.type] /\ pos' = pos
  BY DEF DetectedType
<1>3. ld' \in Call
  BY <1>1, <1>2, Zenon DEF Call
<1>4. ld'.pc = "open" /\ ld'.closed = 0 /\ ld'.call = "music" /\ ld'.start = ld.start /\ ld'.i = 0
  BY <1>1, <1>2 DEF Call
<1>5. ~Returned'
  BY <1>4 DEF Returned
<1>6. Standing'
  BY <1>1, <1>2, <1>4, <1>5 DEF Standing
<1> QED
  BY <1>3, <1>5, <1>6, GoesOn

\* Mix_LoadWAV_RW picks its loader.
LEMMA StepLoadWAV ==
    ASSUME IInv, LoadWAV PROVE ld' \in Call /\ Standing' /\ SourceClosedIfOpened'
<1>1. ld \in Call /\ ld.pc = "LoadWAV" /\ ld.closed = 0 /\ ld.call = "chunk"
      /\ pos = ld.start /\ ld.i = 0 /\ file' = file
  BY DEF IInv, Standing, Returned, LoadWAV
<1>2. CASE Return(Close(Hitched(ld)))
  <2>1. ld' = [Close(Hitched(ld)) EXCEPT !.pc = "null"]
    BY <1>2 DEF Return
  <2> QED
    BY <1>1, <2>1, HitchedFields, ClosedWell
<1>3. CASE Return(Close(ld))
  <2>1. ld' = [Close(ld) EXCEPT !.pc = "null"]
    BY <1>3 DEF Return
  <2> QED
    BY <1>1, <2>1, ClosedWell
<1>4. ASSUME NEW pc \in {"sdl", "read"}, To(pc)
      PROVE  ld' \in Call /\ Standing' /\ SourceClosedIfOpened'
  <2>1. ld' \in Call /\ ld'.pc = pc /\ ld'.call = "chunk" /\ ld'.closed = 0
    BY <1>1, <1>4 DEF To, Call
  <2>2. ~Returned'
    BY <2>1 DEF Returned
  <2>3. Standing'
    BY <2>1, <2>2 DEF Standing
  <2> QED
    BY <2>1, <2>2, <2>3, GoesOn
<1>5. CASE DetectType /\ file.form # "RIFF" /\ file.form \notin OwnForms
  BY <1>1, <1>5, Detecting
<1>6. CASE VocHeader
  BY <1>3, <1>4, <1>6 DEF VocHeader
<1> QED
  BY <1>2, <1>3, <1>4, <1>5, <1>6 DEF LoadWAV, OwnForms

\* SDL_LoadWAV_RW has closed the source.
LEMMA StepLoadedBySDL ==
    ASSUME IInv, LoadedBySDL PROVE ld' \in Call /\ Standing' /\ SourceClosedIfOpened'
<1>1. ld \in Call /\ ld.closed = 0 /\ ld.call = "chunk"
  BY DEF IInv, Standing, Returned, LoadedBySDL
<1>2. CASE ld' = [Close(ld) EXCEPT !.pc = "loaded"]
  <2>1. ld' \in Call /\ ld'.pc = "loaded" /\ ld'.call = "chunk" /\ ld'.freesrc = ld.freesrc
        /\ ld'.closed = IF ld.freesrc THEN 1 ELSE 0
    BY <1>1, <1>2, Returning, ZenonT(60) DEF Call
  <2>2. Standing' /\ SourceClosed'
    BY <2>1 DEF Standing, SourceClosed, Returned
  <2> QED
    BY <2>1, <2>2 DEF SourceClosedIfOpened
<1>3. CASE Return(Close(Hitched(ld)))
  <2>1. ld' = [Close(Hitched(ld)) EXCEPT !.pc = "null"]
    BY <1>3 DEF Return
  <2> QED
    BY <1>1, <2>1, HitchedFields, ClosedWell
<1> QED
  BY <1>2, <1>3 DEF LoadedBySDL

\* The libraries of the type are loaded.
LEMMA StepOpenType ==
    ASSUME IInv, OpenType PROVE ld' \in Call /\ Standing' /\ SourceClosedIfOpened'
<1>1. ld \in Call /\ ld.closed = 0 /\ ld.pc = "open" /\ pos = ld.start /\ ld.i = 0
      /\ (ld.call = "chunk" => file.form \notin OwnForms) /\ file' = file /\ pos' = pos
  BY DEF IInv, Standing, Returned, OpenType
<1>2. CASE ld' = [ld EXCEPT !.pc = "try", !.i = 1]
  <2>1. ld' \in Call /\ ld'.pc = "try" /\ ld'.closed = 0 /\ ld'.start = ld.start /\ ld'.i = 1
    BY <1>1, <1>2 DEF Call
  <2>2. ~Returned'
    BY <2>1 DEF Returned
  <2>3. Standing'
    BY <1>1, <2>1, <2>2 DEF Standing
  <2> QED
    BY <2>1, <2>2, <2>3, GoesOn
<1>3. CASE ld.call = "music" /\ ld' = [Close(Hitched(ld)) EXCEPT !.pc = "null"]
  BY <1>1, <1>3, HitchedFields, ClosedWell
<1>4. CASE ld.call = "chunk" /\ ld' = [Hitched(ld) EXCEPT !.pc = "null"]
  BY <1>1, <1>4, HitchedFields, LeftOpen
<1>5. ld.call = "music" \/ ld.call = "chunk"
  BY <1>1 DEF Call
<1> QED
  BY <1>2, <1>3, <1>4, <1>5 DEF OpenType, Return

\* The next decoder is tried from the start.
LEMMA TryingNext ==
    ASSUME NEW l \in Call, NEW hitch \in BOOLEAN, l.closed = 0, pos' = l.start,
           ld' = [l EXCEPT !.i = @ + 1, !.pc = "try", !.hitch = hitch]
    PROVE  ld' \in Call /\ Standing' /\ SourceClosedIfOpened'
<1>1. l.i + 1 \in Nat /\ l.i + 1 # 0
  BY DEF Call
<1>2. ld' \in Call
  BY <1>1, Zenon DEF Call
<1>3. ld'.pc = "try" /\ ld'.closed = 0 /\ ld'.start = l.start /\ ld'.i = l.i + 1
  BY DEF Call
<1>4. ~Returned'
  BY <1>3 DEF Returned
<1>5. Standing'
  BY <1>1, <1>3, <1>4 DEF Standing
<1> QED
  BY <1>2, <1>4, <1>5, GoesOn

\* A decoder is passed by or tried, or there is none left.
LEMMA StepTryDecoder ==
    ASSUME IInv, TryDecoder PROVE ld' \in Call /\ Standing' /\ SourceClosedIfOpened'
<1>1. ld \in Call /\ ld.closed = 0 /\ ld.pc = "try" /\ pos = ld.start /\ ld.i # 0
  BY DEF IInv, Standing, Returned, TryDecoder
<1>2. CASE ld' = [Close(ld) EXCEPT !.pc = "null"] /\ pos' = pos
  BY <1>1, <1>2, ClosedWell
<1>3. CASE ld' = [ld EXCEPT !.i = @ + 1] /\ pos' = pos
  <2>1. ld' = [ld EXCEPT !.i = @ + 1, !.pc = "try", !.hitch = ld.hitch] /\ ld.hitch \in BOOLEAN
    BY <1>1, <1>3 DEF Call
  <2> QED
    BY <1>1, <1>3, <2>1, TryingNext
<1>4. CASE ld' = [ld EXCEPT !.pc = "read"]
  <2>1. ld' \in Call /\ ld'.pc = "read" /\ ld'.closed = 0 /\ ld'.i # 0
    BY <1>1, <1>4 DEF Call
  <2>2. ~Returned'
    BY <2>1 DEF Returned
  <2>3. Standing'
    BY <2>1, <2>2 DEF Standing
  <2> QED
    BY <2>1, <2>2, <2>3, GoesOn
<1> QED
  BY <1>2, <1>3, <1>4 DEF TryDecoder, Return, To

\* While the type is looked for only detect_riff_mp3 reads.
LEMMA StepReadOn ==
    ASSUME IInv, ReadOn PROVE ld' \in Call /\ Standing' /\ SourceClosedIfOpened'
<1>1. ld \in Call /\ ld' = ld /\ ld.pc \in {"detect", "read"} /\ Standing
  BY DEF IInv, ReadOn
<1>2. ~Returned /\ ~Returned'
  BY <1>1 DEF Returned
<1>3. CASE ld.pc = "read"
  BY <1>1, <1>2, <1>3, GoesOn DEF Standing
<1>4. CASE ld.pc = "detect"
  <2>1. rd.pc \in {"detect", "detected"}
    BY <1>1, <1>4 DEF Standing
  <2>2. DetectChunk /\ rd.pc = "detect" /\ rd.start = ld.start
    BY <1>1, <1>4, <2>1 DEF Standing, ReadOn, ChunkStep, TagStep, DetectChunk, WavChunk, IffChunk,
       ReadTags, ProbeChunk, HeadTag, FirstMm, Id3v1, Tails, TagsRead, VocStep, VocBlock, VocGot
  <2>3. \/ rd' = rd
        \/ rd'.pc = "detected" /\ pos' = rd.start /\ rd'.type \in {"wav", "mp3"}
    BY <2>2 DEF DetectChunk, Detected
  <2>4. Standing'
    BY <1>1, <1>2, <1>4, <2>2, <2>3 DEF Standing
  <2> QED
    BY <1>1, <1>2, <2>4, GoesOn
<1> QED
  BY <1>1, <1>3, <1>4

\* The decoder fails, and music is back at its start.
LEMMA StepNotOpened ==
    ASSUME IInv, NotOpened PROVE ld' \in Call /\ Standing' /\ SourceClosedIfOpened'
<1>1. ld \in Call /\ ld.closed = 0 /\ ld.pc = "read" /\ (ld.i = 0 => ld.call = "chunk")
  BY DEF IInv, Standing, Returned, NotOpened
<1>2. CASE OwnLoader
  <2>1. PICK l \in Call : ld' = [Close(l) EXCEPT !.pc = "null"] /\ l.closed = 0 /\ l.call = "chunk"
    BY <1>1, <1>2, HitchedFields DEF NotOpened, OwnLoader, Return
  <2> QED
    BY <2>1, ClosedWell
<1>3. CASE ~OwnLoader
  <2>1. PICK hitch \in BOOLEAN :
          ld' = [ld EXCEPT !.i = @ + 1, !.pc = "try", !.hitch = hitch] /\ pos' = ld.start
    <3>1. PICK l \in Call : ld' = [TryNext EXCEPT !.pc = "try", !.hitch = l.hitch] /\ pos' = ld.start
      BY <1>1, <1>3, HitchedFields DEF NotOpened
    <3>2. l.hitch \in BOOLEAN
      BY DEF Call
    <3> QED
      BY <1>1, <3>1, <3>2 DEF TryNext, Call
  <2> QED
    BY <1>1, <2>1, TryingNext
<1> QED
  BY <1>2, <1>3

\* A sound that is cut short is loaded as any other.
LEMMA ShortFields ==
    ASSUME NEW l \in Call
    PROVE  LET s == [l EXCEPT !.short = TRUE]
           IN  /\ s \in Call /\ s.call = l.call /\ s.freesrc = l.freesrc
               /\ s.closed = l.closed /\ s.start = l.start /\ s.i = l.i
               /\ [l EXCEPT !.pc = "loaded", !.short = TRUE] = [s EXCEPT !.pc = "loaded"]
               /\ [s EXCEPT !.pc = "loaded"].short
<1> DEFINE s == [l EXCEPT !.short = TRUE]
<1>1. s \in Call
  <2>1. TRUE \in BOOLEAN
    OBVIOUS
  <2> QED
    BY <2>1, Zenon DEF Call
<1>2. /\ s.call = l.call /\ s.freesrc = l.freesrc /\ s.closed = l.closed
      /\ s.start = l.start /\ s.i = l.i
  BY DEF Call
<1>3. /\ [l EXCEPT !.pc = "loaded", !.short = TRUE] = [s EXCEPT !.pc = "loaded"]
      /\ [s EXCEPT !.pc = "loaded"].short
  BY DEF Call
<1> QED
  BY <1>1, <1>2, <1>3

\* The decoder took the file; a chunk is played and deletes it.
LEMMA StepOpened ==
    ASSUME IInv, Opened PROVE ld' \in Call /\ Standing' /\ SourceClosedIfOpened'
<1>1. ld \in Call /\ ld.closed = 0 /\ rd.pc = "found" /\ rd'.pc = "found"
  BY DEF IInv, Standing, Returned, Opened, CutShort, Found
<1>2. ASSUME NEW l \in Call, ld' = [l EXCEPT !.pc = "loaded"], l.call = ld.call,
             l.closed = IF l.freesrc /\ l.call = "chunk" THEN 1 ELSE 0
      PROVE  ld' \in Call /\ Standing' /\ SourceClosedIfOpened'
  <2>1. ld' \in Call /\ ld'.pc = "loaded" /\ ld'.call = l.call /\ ld'.freesrc = l.freesrc
        /\ ld'.closed = IF l.freesrc /\ l.call = "chunk" THEN 1 ELSE 0
    BY <1>2 DEF Call
  <2>2. Standing' /\ SourceClosed'
    BY <2>1 DEF Standing, SourceClosed, Returned
  <2> QED
    BY <2>1, <2>2 DEF SourceClosedIfOpened
<1>3. CASE ld.call = "music" /\ ld' = [ld EXCEPT !.pc = "loaded"]
  BY <1>1, <1>2, <1>3
<1>4. CASE ld.call # "music" /\ ld' = [Close(ld) EXCEPT !.pc = "loaded"]
  <2>1. ld.call = "chunk"
    BY <1>1, <1>4 DEF Call
  <2> QED
    BY <1>1, <1>2, <1>4, <2>1, Returning
<1>5. CASE ld' = [Hitched(Close(ld)) EXCEPT !.pc = "null"]
  <2>1. Hitched(Close(ld)) = Close(Hitched(ld))
    BY <1>1 DEF Hitched, Close, Call
  <2> QED
    BY <1>1, <1>5, <2>1, HitchedFields, ClosedWell
<1>6. CASE CutShort
  <2> DEFINE c == Close(ld)
             l == [c EXCEPT !.short = TRUE]
  <2>1. ld.call = "chunk" /\ ld' = [c EXCEPT !.pc = "loaded", !.short = TRUE]
    BY <1>6 DEF CutShort, Deleted
  <2>2. /\ c \in Call /\ c.call = ld.call /\ c.freesrc = ld.freesrc
        /\ c.closed = IF ld.freesrc THEN 1 ELSE 0
    BY <1>1, Returning
  <2> HIDE DEF c
  <2>3. /\ l \in Call /\ l.call = c.call /\ l.freesrc = c.freesrc /\ l.closed = c.closed
        /\ [c EXCEPT !.pc = "loaded", !.short = TRUE] = [l EXCEPT !.pc = "loaded"]
    BY <2>2, ShortFields
  <2> HIDE DEF l
  <2>4. l.call = ld.call /\ l.closed = IF l.freesrc /\ l.call = "chunk" THEN 1 ELSE 0
    BY <2>1, <2>2, <2>3
  <2>5. ld' = [l EXCEPT !.pc = "loaded"]
    BY <2>1, <2>3, Zenon
  <2> QED
    BY <1>2, <2>3, <2>4, <2>5
<1> QED
  BY <1>3, <1>4, <1>5, <1>6 DEF Opened, Deleted, Return

\* The invariant is inductive.
LEMMA NextInv == IInv /\ [Next]_vars => IInv'
<1> SUFFICES ASSUME IInv, [Next]_vars PROVE IInv'
  OBVIOUS
<1>1. CASE Next
  <2>1. file' \in Files
    BY <1>1, FileKept DEF IInv
  <2>2. ld' \in Call /\ Standing' /\ SourceClosedIfOpened'
    BY <1>1, StepLoadMUS, StepDetectedType, StepLoadWAV, StepLoadedBySDL, StepOpenType,
       StepTryDecoder, StepReadOn, StepNotOpened, StepOpened DEF Next
  <2> QED
    BY <2>1, <2>2 DEF IInv
<1>2. CASE UNCHANGED vars
  <2>1. FileEnd' = FileEnd /\ Returned' = Returned
    BY <1>2, EndKept DEF vars, Returned
  <2> QED
    BY <1>2, <2>1 DEF vars, IInv, Standing, SourceClosedIfOpened, Unopened, SourceClosed, OwnForms, IffNeeds
<1> QED
  BY <1>1, <1>2

\* Whatever the file and whichever decoders are tried on it, the source of a load is
\* closed once by the one who owns it, but for the chunk of no known type
\* (Mix_LoadMUSType_RW_ARG, Mix_LoadMusic_RW, Mix_LoadWAV_RW).
THEOREM SourceClosedOnce == Spec => []SourceClosedIfOpened
<1>1. IInv => SourceClosedIfOpened
  BY DEF IInv
<1> QED
  BY InitInv, NextInv, <1>1, PTL DEF Spec

-----------------------------------------------------------------------------
(* Where the blocks of a file are.                                          *)

\* Begin and FileEnd of any file.
Edges(f, n) ==
    LET begin[j \in 1 .. n] ==
          IF j = 1 THEN f.origin + f.lead ELSE begin[j - 1] + Total(f.blocks[j - 1])
    IN  begin

\* Where block k begins.
Edge(f, k) == Edges(f, k)[k]

\* The end of the file.
End(f) == Edge(f, Len(f.blocks) + 1) - f.cut

\* The function that Begin builds satisfies its equation.
LEMMA EdgesEquation ==
    ASSUME NEW f, NEW n \in Nat
    PROVE  Edges(f, n) = [j \in 1 .. n |-> IF j = 1 THEN f.origin + f.lead
                                           ELSE Edges(f, n)[j - 1] + Total(f.blocks[j - 1])]
<1> DEFINE Solves(g, m) == g = [j \in 1 .. m |-> IF j = 1 THEN f.origin + f.lead
                                                ELSE g[j - 1] + Total(f.blocks[j - 1])]
           S == {m \in Nat : \E g : Solves(g, m)}
<1>1. 0 \in S
  <2>1. Solves([j \in 1 .. 0 |-> 0], 0)
    OBVIOUS
  <2> QED
    BY <2>1
<1>2. ASSUME NEW m \in Nat, m \in S PROVE m + 1 \in S
  <2>1. PICK g : Solves(g, m)
    BY <1>2
  <2> DEFINE h == [j \in 1 .. m + 1 |-> IF j = 1 THEN f.origin + f.lead
                                       ELSE g[j - 1] + Total(f.blocks[j - 1])]
  <2>2. Solves(h, m + 1)
    BY <2>1
  <2> HIDE DEF h
  <2>3. m + 1 \in Nat
    OBVIOUS
  <2> QED
    BY <2>2, <2>3
<1>3. \A m \in Nat : m \in S
  <2> HIDE DEF S
  <2> QED
    BY <1>1, <1>2, NumberInduction
<1>4. \E g : Solves(g, n)
  BY <1>3
<1> QED
  BY <1>4 DEF Edges

\* Where a block begins does not depend on how far the function reaches.
LEMMA EdgesAt ==
    ASSUME NEW f, NEW n \in Nat, NEW k \in 1 .. n
    PROVE  Edges(f, n)[k] = Edge(f, k)
<1> DEFINE S == {i \in Nat : i = 0 \/ \A m \in Nat : i <= m => Edges(f, m)[i] = Edge(f, i)}
<1>1. 0 \in S
  OBVIOUS
<1>2. ASSUME NEW i \in Nat, i \in S PROVE i + 1 \in S
  <2>1. CASE i = 0
    <3>1. \A m \in Nat : 1 <= m => Edges(f, m)[1] = f.origin + f.lead
      BY EdgesEquation
    <3> QED
      BY <2>1, <3>1 DEF Edge
  <2>2. CASE i # 0
    <3>1. \A m \in Nat : i + 1 <= m =>
             Edges(f, m)[i + 1] = Edges(f, m)[i] + Total(f.blocks[i])
      <4>1. ASSUME NEW m \in Nat, i + 1 <= m
            PROVE  Edges(f, m)[i + 1] = Edges(f, m)[i] + Total(f.blocks[i])
        <5>1. i + 1 \in 1 .. m /\ i + 1 # 1 /\ (i + 1) - 1 = i
          BY <2>2, <4>1
        <5> QED
          BY <5>1, EdgesEquation
      <4> QED
        BY <4>1
    <3>2. \A m \in Nat : i + 1 <= m => Edges(f, m)[i] = Edge(f, i)
      BY <1>2, <2>2
    <3> QED
      BY <3>1, <3>2 DEF Edge
  <2> QED
    BY <2>1, <2>2
<1>3. \A i \in Nat : i \in S
  <2> HIDE DEF S
  <2> QED
    BY <1>1, <1>2, NumberInduction
<1> QED
  BY <1>3

\* A block begins where the one before it ends.
LEMMA EdgeNext ==
    ASSUME NEW f
    PROVE  /\ Edge(f, 1) = f.origin + f.lead
           /\ \A k \in Nat \ {0} : Edge(f, k + 1) = Edge(f, k) + Total(f.blocks[k])
<1>1. Edge(f, 1) = f.origin + f.lead
  BY EdgesEquation DEF Edge
<1>2. ASSUME NEW k \in Nat \ {0} PROVE Edge(f, k + 1) = Edge(f, k) + Total(f.blocks[k])
  <2>1. k + 1 \in 1 .. k + 1 /\ k \in 1 .. k + 1 /\ k + 1 # 1 /\ (k + 1) - 1 = k
    OBVIOUS
  <2>2. Edges(f, k + 1)[k + 1] = Edges(f, k + 1)[k] + Total(f.blocks[k])
    BY <2>1, EdgesEquation
  <2> QED
    BY <2>1, <2>2, EdgesAt DEF Edge
<1> QED
  BY <1>1, <1>2

\* What is known of the blocks of every file.
LEMMA MadeBlocks ==
    ASSUME NEW f, Made(f)
    PROVE  /\ f.origin \in Nat /\ f.lead \in Nat /\ f.cut \in Nat /\ f.cut <= f.lead
           /\ Len(f.blocks) \in Nat /\ DOMAIN f.blocks = 1 .. Len(f.blocks)
           /\ \A k \in 1 .. Len(f.blocks) :
                /\ f.blocks[k].head \in Nat /\ f.blocks[k].len \in Nat /\ f.blocks[k].pad \in Nat
                /\ Total(f.blocks[k]) = f.blocks[k].head + f.blocks[k].len + f.blocks[k].pad
                /\ Total(f.blocks[k]) \in Nat /\ Total(f.blocks[k]) > 0
<1>1. \A k \in 1 .. Len(f.blocks) :
         /\ f.blocks[k].head \in Nat /\ f.blocks[k].len \in Nat /\ f.blocks[k].pad \in Nat
         /\ Total(f.blocks[k]) > 0
  BY DEF Made
<1>2. /\ f.origin \in Nat /\ f.lead \in Nat /\ f.cut \in Nat /\ f.cut <= f.lead
      /\ Len(f.blocks) \in Nat /\ DOMAIN f.blocks = 1 .. Len(f.blocks)
  BY DEF Made
<1>3. ASSUME NEW k \in 1 .. Len(f.blocks)
      PROVE  /\ Total(f.blocks[k]) = f.blocks[k].head + f.blocks[k].len + f.blocks[k].pad
             /\ Total(f.blocks[k]) \in Nat
  <2>1. f.blocks[k].head \in Nat /\ f.blocks[k].len \in Nat /\ f.blocks[k].pad \in Nat
    BY <1>1
  <2>2. Total(f.blocks[k]) = f.blocks[k].head + f.blocks[k].len + f.blocks[k].pad
    BY Zenon DEF Total
  <2> DEFINE h == f.blocks[k].head
             l == f.blocks[k].len
             p == f.blocks[k].pad
  <2>3. h + l + p \in Nat
    <3>1. h \in Nat /\ l \in Nat /\ p \in Nat
      BY <2>1
    <3> HIDE DEF h, l, p
    <3> QED
      BY <3>1
  <2>4. Total(f.blocks[k]) = h + l + p
    BY <2>2
  <2> HIDE DEF h, l, p
  <2>5. Total(f.blocks[k]) \in Nat
    BY <2>3, <2>4, Zenon
  <2> QED
    BY <2>2, <2>5, Zenon DEF h, l, p
<1> QED
  BY <1>1, <1>2, <1>3

\* Every block begins behind the lead of the file.
LEMMA EdgeIn ==
    ASSUME NEW f, Made(f)
    PROVE  \A k \in 1 .. Len(f.blocks) + 1 : Edge(f, k) \in Nat /\ Edge(f, k) >= f.origin + f.lead
<1> DEFINE S == {i \in Nat : i + 1 <= Len(f.blocks) + 1 =>
                     Edge(f, i + 1) \in Nat /\ Edge(f, i + 1) >= f.origin + f.lead}
<1>1. 0 \in S
  BY MadeBlocks, EdgeNext
<1>2. ASSUME NEW i \in Nat, i \in S PROVE i + 1 \in S
  <2>1. CASE (i + 1) + 1 <= Len(f.blocks) + 1
    <3>1. i + 1 \in 1 .. Len(f.blocks) /\ i + 1 \in Nat \ {0}
      BY <2>1, MadeBlocks
    <3>2. Edge(f, (i + 1) + 1) = Edge(f, i + 1) + Total(f.blocks[i + 1])
      BY <3>1, EdgeNext
    <3>3. Total(f.blocks[i + 1]) \in Nat
      BY <3>1, MadeBlocks
    <3>4. Edge(f, i + 1) \in Nat /\ Edge(f, i + 1) >= f.origin + f.lead
      BY <1>2, <2>1, MadeBlocks
    <3> QED
      BY <3>2, <3>3, <3>4, MadeBlocks
  <2> QED
    BY <2>1
<1>3. \A i \in Nat : i \in S
  <2> HIDE DEF S
  <2> QED
    BY <1>1, <1>2, NumberInduction
<1>4. ASSUME NEW k \in 1 .. Len(f.blocks) + 1
      PROVE  Edge(f, k) \in Nat /\ Edge(f, k) >= f.origin + f.lead
  <2>1. k - 1 \in Nat /\ (k - 1) + 1 = k /\ k <= Len(f.blocks) + 1
    BY MadeBlocks
  <2> QED
    BY <1>3, <2>1
<1> QED
  BY <1>4

\* A block ends no later than a later one begins.
LEMMA EdgeApart ==
    ASSUME NEW f, Made(f), NEW j \in 1 .. Len(f.blocks)
    PROVE  \A k \in j + 1 .. Len(f.blocks) + 1 : Edge(f, j) + Total(f.blocks[j]) <= Edge(f, k)
<1>0. Len(f.blocks) \in Nat /\ j \in Nat /\ Total(f.blocks[j]) \in Nat /\ Edge(f, j) \in Nat
  BY MadeBlocks, EdgeIn
<1> DEFINE S == {i \in Nat : (j + 1) + i <= Len(f.blocks) + 1 =>
                     Edge(f, j) + Total(f.blocks[j]) <= Edge(f, (j + 1) + i)}
<1>1. 0 \in S
  <2>1. Edge(f, j + 1) = Edge(f, j) + Total(f.blocks[j]) /\ (j + 1) + 0 = j + 1
    BY EdgeNext
  <2> QED
    BY <1>0, <2>1
<1>2. ASSUME NEW i \in Nat, i \in S PROVE i + 1 \in S
  <2>1. CASE (j + 1) + (i + 1) <= Len(f.blocks) + 1
    <3> DEFINE k == (j + 1) + i
    <3>1. k \in 1 .. Len(f.blocks) /\ k \in Nat \ {0} /\ (j + 1) + (i + 1) = k + 1
          /\ k \in 1 .. Len(f.blocks) + 1
      BY <1>0, <2>1
    <3>2. Edge(f, k + 1) = Edge(f, k) + Total(f.blocks[k])
      BY <3>1, EdgeNext
    <3>3. Total(f.blocks[k]) \in Nat /\ Edge(f, k) \in Nat
      BY <3>1, MadeBlocks, EdgeIn
    <3>4. Edge(f, j) + Total(f.blocks[j]) <= Edge(f, k)
      BY <1>0, <1>2, <2>1
    <3>5. Edge(f, j) + Total(f.blocks[j]) <= Edge(f, k + 1)
      <4> HIDE DEF k
      <4> QED
        BY <1>0, <3>2, <3>3, <3>4
    <3> QED
      BY <3>1, <3>5
  <2> QED
    BY <2>1
<1>3. \A i \in Nat : i \in S
  <2> HIDE DEF S
  <2> QED
    BY <1>1, <1>2, NumberInduction
<1>4. ASSUME NEW k \in j + 1 .. Len(f.blocks) + 1
      PROVE  Edge(f, j) + Total(f.blocks[j]) <= Edge(f, k)
  <2>1. k - (j + 1) \in Nat /\ (j + 1) + (k - (j + 1)) = k /\ k <= Len(f.blocks) + 1
    BY <1>0
  <2>2. k - (j + 1) \in S
    BY <1>3, <2>1
  <2> QED
    BY <2>1, <2>2
<1> QED
  BY <1>4

\* Later blocks begin later, and no two at the same place.
LEMMA EdgesDiffer ==
    ASSUME NEW f, Made(f), NEW j \in 1 .. Len(f.blocks) + 1, NEW k \in 1 .. Len(f.blocks) + 1
    PROVE  /\ j < k => Edge(f, j) < Edge(f, k)
           /\ Edge(f, j) = Edge(f, k) => j = k
<1>0. Len(f.blocks) \in Nat
  BY MadeBlocks
<1>1. ASSUME NEW a \in 1 .. Len(f.blocks) + 1, NEW b \in 1 .. Len(f.blocks) + 1, a < b
      PROVE  Edge(f, a) < Edge(f, b)
  <2>1. a \in 1 .. Len(f.blocks) /\ b \in a + 1 .. Len(f.blocks) + 1
    BY <1>0, <1>1
  <2>2. Total(f.blocks[a]) \in Nat /\ Total(f.blocks[a]) > 0 /\ Edge(f, a) \in Nat /\ Edge(f, b) \in Nat
    BY <2>1, MadeBlocks, EdgeIn
  <2>3. Edge(f, a) + Total(f.blocks[a]) <= Edge(f, b)
    BY <2>1, EdgeApart
  <2> QED
    BY <2>2, <2>3
<1>2. Edge(f, j) \in Nat /\ Edge(f, k) \in Nat
  BY EdgeIn
<1>3. j < k \/ k < j \/ j = k
  BY <1>0
<1> QED
  BY <1>1, <1>2, <1>3

\* The end of a file, and of one that is whole.
LEMMA EndIn ==
    ASSUME NEW f, Made(f)
    PROVE  /\ End(f) \in Nat /\ f.origin <= End(f)
           /\ f.cut = 0 => /\ End(f) = Edge(f, Len(f.blocks) + 1)
                           /\ \A k \in 1 .. Len(f.blocks) :
                                Edge(f, k) + Total(f.blocks[k]) <= End(f)
<1>1. Len(f.blocks) \in Nat /\ f.cut \in Nat /\ f.origin \in Nat /\ f.lead \in Nat /\ f.cut <= f.lead
  BY MadeBlocks
<1>2. Len(f.blocks) + 1 \in 1 .. Len(f.blocks) + 1
  BY <1>1
<1>3. Edge(f, Len(f.blocks) + 1) \in Nat /\ Edge(f, Len(f.blocks) + 1) >= f.origin + f.lead
  BY <1>2, EdgeIn
<1>4. ASSUME NEW k \in 1 .. Len(f.blocks)
      PROVE  Edge(f, k) + Total(f.blocks[k]) <= Edge(f, Len(f.blocks) + 1)
  <2>1. Len(f.blocks) + 1 \in k + 1 .. Len(f.blocks) + 1
    BY <1>1
  <2> QED
    BY <2>1, EdgeApart
<1> QED
  BY <1>1, <1>3, <1>4 DEF End

-----------------------------------------------------------------------------
(* What is found at a place of a file.                                      *)

\* At and Before of any file, and Reached.
BlockAt(f, p) ==
    LET ks == {k \in DOMAIN f.blocks : Edge(f, k) = p /\ p + f.blocks[k].head <= End(f)}
    IN  IF ks = {} THEN Nothing ELSE f.blocks[CHOOSE k \in ks : TRUE]

BlockBefore(f, p) ==
    LET ks == {k \in DOMAIN f.blocks : Edge(f, k + 1) = p}
    IN  IF ks = {} THEN Nothing ELSE f.blocks[CHOOSE k \in ks : TRUE]

ReachedIn(f, p) == IF p > End(f) THEN End(f) ELSE p

\* Of the file of the model these are the operators of Source.
LEMMA Here ==
    /\ \A k : Begin(k) = Edge(file, k)
    /\ FileEnd = End(file)
    /\ \A p : At(p) = BlockAt(file, p) /\ Before(p) = BlockBefore(file, p)
               /\ Reached(p) = ReachedIn(file, p)
<1>1. \A k : Begin(k) = Edge(file, k)
  BY DEF Begin, Edge, Edges
<1>2. FileEnd = End(file)
  BY <1>1 DEF FileEnd, End
<1>3. ASSUME NEW p
      PROVE  At(p) = BlockAt(file, p) /\ Before(p) = BlockBefore(file, p)
             /\ Reached(p) = ReachedIn(file, p)
  <2> DEFINE A == {k \in DOMAIN file.blocks : Begin(k) = p /\ p + file.blocks[k].head <= FileEnd}
             B == {k \in DOMAIN file.blocks : Edge(file, k) = p
                                             /\ p + file.blocks[k].head <= End(file)}
             C == {k \in DOMAIN file.blocks : Begin(k + 1) = p}
             D == {k \in DOMAIN file.blocks : Edge(file, k + 1) = p}
  <2>1. A = B
    BY <1>1, <1>2
  <2>2. C = D
    BY <1>1
  <2>3. At(p) = BlockAt(file, p)
    <3>1. At(p) = OneOf(A)
      BY DEF At
    <3>2. BlockAt(file, p) = OneOf(B)
      BY Zenon DEF BlockAt, OneOf
    <3> QED
      BY <2>1, <3>1, <3>2, Zenon
  <2>4. Before(p) = BlockBefore(file, p)
    <3>1. Before(p) = OneOf(C)
      BY DEF Before
    <3>2. BlockBefore(file, p) = OneOf(D)
      BY Zenon DEF BlockBefore, OneOf
    <3> QED
      BY <2>2, <3>1, <3>2, Zenon
  <2>5. Reached(p) = ReachedIn(file, p)
    BY <1>2 DEF Reached, ReachedIn
  <2> QED
    BY <2>3, <2>4, <2>5
<1> QED
  BY <1>1, <1>2, <1>3

\* Nothing has no bytes.
LEMMA OfNothing ==
    Nothing.kind = "nothing" /\ Nothing.head = 0 /\ Nothing.len = 0 /\ Nothing.pad = 0
    /\ Nothing.x = "" /\ Total(Nothing) = 0
  BY DEF Nothing, Block, Total

\* At the edge of a block of a whole file is that block, at its end nothing.
LEMMA AtEdge ==
    ASSUME NEW f, Made(f), f.cut = 0, NEW k \in 1 .. Len(f.blocks)
    PROVE  BlockAt(f, Edge(f, k)) = f.blocks[k] /\ BlockBefore(f, Edge(f, k + 1)) = f.blocks[k]
<1>0. Len(f.blocks) \in Nat /\ DOMAIN f.blocks = 1 .. Len(f.blocks)
      /\ f.blocks[k].head \in Nat /\ f.blocks[k].len \in Nat /\ f.blocks[k].pad \in Nat
      /\ Total(f.blocks[k]) = f.blocks[k].head + f.blocks[k].len + f.blocks[k].pad
  BY MadeBlocks
<1>1. Edge(f, k) \in Nat /\ End(f) \in Nat /\ Edge(f, k) + Total(f.blocks[k]) <= End(f)
  BY <1>0, EdgeIn, EndIn
<1>2. Edge(f, k) + f.blocks[k].head <= End(f)
  BY <1>0, <1>1, SMTT(60)
<1>3. {j \in DOMAIN f.blocks : Edge(f, j) = Edge(f, k)
                               /\ Edge(f, k) + f.blocks[j].head <= End(f)} = {k}
  <2>1. \A j \in 1 .. Len(f.blocks) : Edge(f, j) = Edge(f, k) => j = k
    BY <1>0, EdgesDiffer
  <2> QED
    BY <1>0, <1>2, <2>1
<1>4. {j \in DOMAIN f.blocks : Edge(f, j + 1) = Edge(f, k + 1)} = {k}
  <2>1. ASSUME NEW j \in 1 .. Len(f.blocks), Edge(f, j + 1) = Edge(f, k + 1) PROVE j = k
    <3>1. j + 1 \in 1 .. Len(f.blocks) + 1 /\ k + 1 \in 1 .. Len(f.blocks) + 1
      BY <1>0
    <3>2. j + 1 = k + 1
      BY <2>1, <3>1, EdgesDiffer
    <3> QED
      BY <1>0, <3>2
  <2> QED
    BY <1>0, <2>1
<1> QED
  BY <1>3, <1>4 DEF BlockAt, BlockBefore

\* Nothing stands at the end of a whole file.
LEMMA AtEnd ==
    ASSUME NEW f, Made(f), f.cut = 0
    PROVE  BlockAt(f, Edge(f, Len(f.blocks) + 1)) = Nothing
<1>1. Len(f.blocks) \in Nat /\ DOMAIN f.blocks = 1 .. Len(f.blocks)
  BY MadeBlocks
<1>2. \A j \in 1 .. Len(f.blocks) : Edge(f, j) # Edge(f, Len(f.blocks) + 1)
  <2>1. ASSUME NEW j \in 1 .. Len(f.blocks) PROVE Edge(f, j) # Edge(f, Len(f.blocks) + 1)
    <3>1. j \in 1 .. Len(f.blocks) + 1 /\ Len(f.blocks) + 1 \in 1 .. Len(f.blocks) + 1
          /\ j # Len(f.blocks) + 1
      BY <1>1
    <3> QED
      BY <3>1, EdgesDiffer
  <2> QED
    BY <2>1
<1>3. {j \in DOMAIN f.blocks : Edge(f, j) = Edge(f, Len(f.blocks) + 1)
          /\ Edge(f, Len(f.blocks) + 1) + f.blocks[j].head <= End(f)} = {}
  BY <1>1, <1>2
<1> QED
  BY <1>3 DEF BlockAt

\* What is found in any file is a block of it where it lies, or nothing.
LEMMA AtTyped ==
    ASSUME NEW f, Made(f), NEW p
    PROVE  /\ \/ BlockAt(f, p) = Nothing
              \/ \E k \in 1 .. Len(f.blocks) : BlockAt(f, p) = f.blocks[k] /\ Edge(f, k) = p
                                               /\ p + f.blocks[k].head <= End(f)
           /\ \/ BlockBefore(f, p) = Nothing
              \/ \E k \in 1 .. Len(f.blocks) : BlockBefore(f, p) = f.blocks[k]
           /\ BlockAt(f, p).head \in Nat /\ BlockAt(f, p).len \in Nat
           /\ Total(BlockAt(f, p)) \in Nat /\ Total(BlockBefore(f, p)) \in Nat
<1>0. Len(f.blocks) \in Nat /\ DOMAIN f.blocks = 1 .. Len(f.blocks)
  BY MadeBlocks
<1>1. \/ BlockAt(f, p) = Nothing
      \/ \E k \in 1 .. Len(f.blocks) : BlockAt(f, p) = f.blocks[k] /\ Edge(f, k) = p
                                       /\ p + f.blocks[k].head <= End(f)
  <2> DEFINE ks == {k \in DOMAIN f.blocks : Edge(f, k) = p /\ p + f.blocks[k].head <= End(f)}
  <2>1. CASE ks = {}
    BY <2>1 DEF BlockAt
  <2>2. CASE ks # {}
    <3>1. PICK k \in ks : BlockAt(f, p) = f.blocks[k]
      BY <2>2 DEF BlockAt
    <3> QED
      BY <1>0, <3>1
  <2> QED
    BY <2>1, <2>2
<1>2. \/ BlockBefore(f, p) = Nothing
      \/ \E k \in 1 .. Len(f.blocks) : BlockBefore(f, p) = f.blocks[k]
  <2> DEFINE ks == {k \in DOMAIN f.blocks : Edge(f, k + 1) = p}
  <2>1. CASE ks = {}
    BY <2>1 DEF BlockBefore
  <2>2. CASE ks # {}
    <3>1. PICK k \in ks : BlockBefore(f, p) = f.blocks[k]
      BY <2>2 DEF BlockBefore
    <3> QED
      BY <1>0, <3>1
  <2> QED
    BY <2>1, <2>2
<1>3. ASSUME NEW b, b = Nothing \/ \E k \in 1 .. Len(f.blocks) : b = f.blocks[k]
      PROVE  b.head \in Nat /\ b.len \in Nat /\ Total(b) \in Nat
  <2>1. CASE b = Nothing
    <3>1. b.head = 0 /\ b.len = 0 /\ Total(b) = 0 /\ 0 \in Nat
      BY <2>1, OfNothing, Zenon
    <3> QED
      BY <3>1
  <2>2. ASSUME NEW k \in 1 .. Len(f.blocks), b = f.blocks[k]
        PROVE  b.head \in Nat /\ b.len \in Nat /\ Total(b) \in Nat
    BY <2>2, MadeBlocks
  <2> QED
    BY <1>3, <2>1, <2>2
<1>4. BlockAt(f, p).head \in Nat /\ BlockAt(f, p).len \in Nat /\ Total(BlockAt(f, p)) \in Nat
  BY <1>1, <1>3
<1>5. Total(BlockBefore(f, p)) \in Nat
  BY <1>2, <1>3
<1> QED
  BY <1>1, <1>2, <1>4, <1>5

\* The blocks of some kinds, and the only one of a kind.
KindsAt(f, kinds) == {k \in DOMAIN f.blocks : f.blocks[k].kind \in kinds}
The(f, kind) == CHOOSE k \in KindsAt(f, {kind}) : TRUE
Sole(f, kind) == \E k \in DOMAIN f.blocks : KindsAt(f, {kind}) = {k}

\* The only block of a kind.
LEMMA SoleOne ==
    ASSUME NEW f, NEW kind, Sole(f, kind)
    PROVE  /\ The(f, kind) \in DOMAIN f.blocks /\ f.blocks[The(f, kind)].kind = kind
           /\ \A k \in DOMAIN f.blocks : f.blocks[k].kind = kind => k = The(f, kind)
<1>1. PICK k \in DOMAIN f.blocks : KindsAt(f, {kind}) = {k}
  BY DEF Sole
<1>2. The(f, kind) = k
  BY <1>1 DEF The
<1>3. \A j \in DOMAIN f.blocks : f.blocks[j].kind = kind <=> j = k
  BY <1>1 DEF KindsAt
<1> QED
  BY <1>2, <1>3

\* A chunk of a whole file: behind it and its padding is the next.
LEMMA ChunkFacts ==
    ASSUME NEW f, Made(f), f.form \in {"RIFF", "AIFF", "AIFC", "8SVX"}, f.cut = 0
    PROVE  /\ f.lead = 12
           /\ \A k \in 1 .. Len(f.blocks) :
                /\ f.blocks[k].head = 8 /\ f.blocks[k].len \in Nat /\ Edge(f, k) \in Nat
                /\ f.blocks[k].pad = f.blocks[k].len % 2 /\ f.blocks[k].pad \in 0 .. 1
                /\ Edge(f, k + 1) = Edge(f, k) + 8 + f.blocks[k].len + (f.blocks[k].len % 2)
                /\ Edge(f, k + 1) <= End(f) /\ Edge(f, k) + 8 + f.blocks[k].len <= End(f)
                /\ BlockAt(f, Edge(f, k)) = f.blocks[k]
<1>1. ChunksMade(f)
  BY DEF Made, IffNeeds
<1>2. ASSUME NEW k \in 1 .. Len(f.blocks)
      PROVE  /\ f.blocks[k].head = 8 /\ f.blocks[k].len \in Nat /\ Edge(f, k) \in Nat
             /\ f.blocks[k].pad = f.blocks[k].len % 2 /\ f.blocks[k].pad \in 0 .. 1
             /\ Edge(f, k + 1) = Edge(f, k) + 8 + f.blocks[k].len + (f.blocks[k].len % 2)
             /\ Edge(f, k + 1) <= End(f) /\ Edge(f, k) + 8 + f.blocks[k].len <= End(f)
             /\ BlockAt(f, Edge(f, k)) = f.blocks[k]
  <2>1. DOMAIN f.blocks = 1 .. Len(f.blocks) /\ f.blocks[k].len \in Nat /\ f.blocks[k].pad \in Nat
        /\ Len(f.blocks) \in Nat
        /\ Total(f.blocks[k]) = f.blocks[k].head + f.blocks[k].len + f.blocks[k].pad
    BY MadeBlocks
  <2>2. f.blocks[k].head = 8 /\ f.blocks[k].pad = f.blocks[k].len % 2
    BY <1>1, <2>1 DEF ChunksMade
  <2>3. f.blocks[k].len % 2 \in 0 .. 1
    BY <2>1
  <2>4. Edge(f, k) \in Nat /\ End(f) \in Nat
    BY <2>1, EdgeIn, EndIn
  <2>5. k \in Nat \ {0}
    BY <2>1
  <2>6. Edge(f, k + 1) = Edge(f, k) + Total(f.blocks[k])
    BY <2>5, EdgeNext
  <2>7. Edge(f, k) + Total(f.blocks[k]) <= End(f)
    BY EndIn
  <2>8. BlockAt(f, Edge(f, k)) = f.blocks[k]
    BY AtEdge
  <2> DEFINE e == Edge(f, k)
             l == f.blocks[k].len
             p == f.blocks[k].len % 2
             n == Edge(f, k + 1)
             z == End(f)
  <2>9. e \in Nat /\ l \in Nat /\ p \in 0 .. 1 /\ z \in Nat /\ n = e + (8 + l + p) /\ e + (8 + l + p) <= z
    BY <2>1, <2>2, <2>3, <2>4, <2>6, <2>7
  <2>10. n = e + 8 + l + p /\ n <= z /\ e + 8 + l <= z
    <3> HIDE DEF e, l, p, n, z
    <3> QED
      BY <2>9
  <2> QED
    BY <2>1, <2>2, <2>3, <2>4, <2>8, <2>10
<1>3. f.lead = 12
  BY <1>1 DEF ChunksMade
<1> QED
  BY <1>2, <1>3

\* A RIFF file as a writer makes it, and where its audio is.
GoodRiff(f) ==
    /\ f.form = "RIFF" /\ f.cut = 0 /\ Sole(f, "fmt") /\ Sole(f, "data")
    /\ \A k \in DOMAIN f.blocks : f.blocks[k].len > 0
    /\ f.blocks[The(f, "fmt")].len >= 16
    /\ f.blocks[The(f, "fmt")].x = "mp3" => f.origin = 0

\* The format of the audio of a RIFF file, and where its audio is.
RiffType(f) == IF f.blocks[The(f, "fmt")].x = "mp3" THEN "mp3" ELSE "wav"

DataFrom(f) == Edge(f, The(f, "data")) + 8
DataLen(f) == f.blocks[The(f, "data")].len

\* Where the reader of detect_riff_mp3 is: not behind the format.
DetectAt(f, r, p) ==
    /\ r.start = f.origin
    /\ \E k \in 1 .. Len(f.blocks) : p = Edge(f, k) /\ k <= The(f, "fmt")

\* Where the reader of a WAV file is, and what it has seen.
WavRecord == [pc : {"wav"}, fmt : BOOLEAN, data : BOOLEAN, start : Nat, stop : Nat]

WavAt(f, r, p) ==
    /\ r \in WavRecord
    /\ \E k \in 1 .. Len(f.blocks) + 1 :
         /\ p = Edge(f, k)
         /\ r.fmt <=> The(f, "fmt") < k
         /\ r.data <=> The(f, "data") < k
         /\ The(f, "data") < k => r.start = DataFrom(f) /\ r.stop = DataFrom(f) + DataLen(f)

TagSteps == {"tags", "probe", "head", "mm", "id3v1", "tails", "over"}

\* The record of the reader of tags.
TagRecord == [pc : TagSteps, keep : BOOLEAN, start : Nat, length : Int,
              title : {"", "id3v2", "ape", "id3v1"},
              handled : BOOLEAN, mm : BOOLEAN, lyr : BOOLEAN, ape : BOOLEAN, fmt : BOOLEAN,
              data : {<<>>} \cup (Nat \X Nat)]

\* Where probe_riff_container is, and what it has seen.
ProbeAt(f, r, p) ==
    /\ r.title = ""
    /\ r.pc \in {"tags", "probe"} => r.start = f.origin
    /\ r.pc = "tags" => r.length = End(f) - f.origin /\ ~r.fmt /\ r.data = <<>>
    /\ r.pc = "probe" =>
         \E k \in 1 .. Len(f.blocks) + 1 :
            /\ p = Edge(f, k)
            /\ r.fmt <=> The(f, "fmt") < k
            /\ r.data = IF The(f, "data") < k THEN <<DataFrom(f), DataLen(f)>> ELSE <<>>
    /\ r.pc \in {"tags", "probe", "over"}
    /\ r.pc = "over" => r.start = DataFrom(f) /\ r.length = DataLen(f)

\* What a RIFF file of a writer says.
LEMMA RiffFacts ==
    ASSUME NEW f, Made(f), GoodRiff(f)
    PROVE  /\ f.form = "RIFF" /\ f.cut = 0 /\ f.origin \in Nat /\ f.lead = 12
           /\ Len(f.blocks) \in Nat /\ DOMAIN f.blocks = 1 .. Len(f.blocks)
           /\ The(f, "fmt") \in 1 .. Len(f.blocks) /\ The(f, "data") \in 1 .. Len(f.blocks)
           /\ \A k \in 1 .. Len(f.blocks) :
                /\ f.blocks[k].len > 0
                /\ f.blocks[k].kind = "fmt" <=> k = The(f, "fmt")
                /\ f.blocks[k].kind = "data" <=> k = The(f, "data")
                /\ k = The(f, "fmt") => f.blocks[k].len >= 16
                /\ k = The(f, "fmt") => \/ f.blocks[k].x = "pcm" /\ RiffType(f) = "wav"
                                        \/ /\ f.blocks[k].x = "mp3" /\ f.blocks[k].len >= 16
                                           /\ RiffType(f) = "mp3" /\ f.origin = 0
           /\ DataFrom(f) \in Nat /\ DataLen(f) \in Nat /\ DataLen(f) > 0
           /\ DataFrom(f) = Edge(f, The(f, "data")) + 8
           /\ DataLen(f) = f.blocks[The(f, "data")].len
           /\ RiffType(f) \in {"wav", "mp3"}
<1>1. /\ f.form = "RIFF" /\ f.cut = 0 /\ f.origin \in Nat /\ f.lead = 12
      /\ Len(f.blocks) \in Nat /\ DOMAIN f.blocks = 1 .. Len(f.blocks)
      /\ ChunksMade(f)
  BY MadeBlocks DEF GoodRiff, Made, ChunksMade
<1>2. /\ The(f, "fmt") \in 1 .. Len(f.blocks) /\ The(f, "data") \in 1 .. Len(f.blocks)
      /\ \A k \in 1 .. Len(f.blocks) :
           /\ f.blocks[k].kind = "fmt" <=> k = The(f, "fmt")
           /\ f.blocks[k].kind = "data" <=> k = The(f, "data")
  BY <1>1, SoleOne DEF GoodRiff
<1>3. \A k \in 1 .. Len(f.blocks) : f.blocks[k].len > 0
  BY <1>1 DEF GoodRiff
<1>0. f.blocks[The(f, "fmt")].len >= 16
  BY DEF GoodRiff
<1>4. \/ f.blocks[The(f, "fmt")].x = "pcm" /\ RiffType(f) = "wav"
      \/ /\ f.blocks[The(f, "fmt")].x = "mp3" /\ f.blocks[The(f, "fmt")].len >= 16
         /\ RiffType(f) = "mp3" /\ f.origin = 0
  <2>1. f.blocks[The(f, "fmt")].kind = "fmt"
    BY <1>2
  <2>2. \/ f.blocks[The(f, "fmt")].x = "pcm"
        \/ f.blocks[The(f, "fmt")].x = "mp3" /\ f.blocks[The(f, "fmt")].len >= 16
    BY <1>0, <1>1, <1>2, <2>1 DEF ChunksMade
  <2> QED
    BY <2>2 DEF RiffType, GoodRiff
<1>5. DataFrom(f) = Edge(f, The(f, "data")) + 8 /\ DataLen(f) = f.blocks[The(f, "data")].len
  BY DEF DataFrom, DataLen
<1>6. Edge(f, The(f, "data")) \in Nat /\ f.blocks[The(f, "data")].len \in Nat
  BY <1>1, <1>2, ChunkFacts
<1> QED
  BY <1>0, <1>1, <1>2, <1>3, <1>4, <1>5, <1>6

\* What stands where a chunk of a whole file begins.
LEMMA ChunkHere ==
    ASSUME Made(file), file.form \in {"RIFF", "AIFF", "AIFC", "8SVX"}, file.cut = 0,
           NEW k \in 1 .. Len(file.blocks), pos = Edge(file, k)
    PROVE  /\ At(pos) = file.blocks[k]
           /\ file.blocks[k].head = 8 /\ file.blocks[k].len \in Nat /\ pos \in Nat
           /\ Past(file.blocks[k]) = Edge(file, k + 1) /\ Edge(file, k + 1) \in Nat
           /\ Reached(Past(file.blocks[k])) = Edge(file, k + 1) /\ Whole(file.blocks[k])
           /\ file.blocks[k].len > 0 => pos + file.blocks[k].head < FileEnd
<1>1. BlockAt(file, pos) = file.blocks[k]
      /\ file.blocks[k].head = 8 /\ file.blocks[k].len \in Nat /\ pos \in Nat
      /\ file.blocks[k].pad \in 0 .. 1
      /\ Edge(file, k + 1) = pos + 8 + file.blocks[k].len + (file.blocks[k].len % 2)
      /\ Edge(file, k + 1) <= End(file) /\ pos + 8 + file.blocks[k].len <= End(file)
  BY ChunkFacts
<1>2. At(pos) = BlockAt(file, pos) /\ FileEnd = End(file) /\ End(file) \in Nat
  BY Here, EndIn
<1>3. Past(file.blocks[k]) = Edge(file, k + 1)
  BY <1>1 DEF Past
<1>4. Edge(file, k + 1) \in Nat
  BY <1>1
<1>5. Reached(Edge(file, k + 1)) = Edge(file, k + 1)
  BY <1>1, <1>2, <1>4 DEF Reached
<1> QED
  BY <1>1, <1>2, <1>3, <1>4, <1>5, SMTT(60) DEF Whole

\* detect_riff_mp3 finds the format, whatever chunks are before it.
LEMMA StepDetectChunk ==
    ASSUME Made(file), GoodRiff(file), DetectAt(file, rd, pos), DetectChunk
    PROVE  \/ rd' = rd /\ DetectAt(file, rd', pos')
           \/ rd'.pc = "detected" /\ rd'.type = RiffType(file)
<1> DEFINE f == file
           n == Len(file.blocks)
<1>1. PICK k \in 1 .. n : pos = Edge(file, k) /\ k <= The(file, "fmt")
  BY DEF DetectAt
<1>2. At(pos) = file.blocks[k] /\ Reached(Past(file.blocks[k])) = Edge(file, k + 1)
  BY <1>1, ChunkHere, RiffFacts
<1>3. file.blocks[k].len # 0
  BY RiffFacts
<1>4. CASE file.blocks[k].kind = "fmt"
  <2>1. k = The(file, "fmt")
    BY <1>4, RiffFacts
  <2>2. rd' = [pc |-> "detected",
               type |-> IF file.blocks[k].len >= 16 /\ file.blocks[k].x = "mp3" THEN "mp3" ELSE "wav"]
    BY <1>2, <1>3, <1>4 DEF DetectChunk, Detected
  <2>3. \/ file.blocks[k].x = "pcm" /\ RiffType(file) = "wav"
        \/ file.blocks[k].x = "mp3" /\ file.blocks[k].len >= 16 /\ RiffType(file) = "mp3"
    BY <2>1, RiffFacts
  <2> QED
    BY <2>2, <2>3
<1>5. CASE file.blocks[k].kind # "fmt"
  <2>1. rd' = rd /\ pos' = Reached(Past(file.blocks[k]))
    BY <1>2, <1>3, <1>5 DEF DetectChunk
  <2>2. pos' = Edge(file, k + 1)
    BY <1>2, <2>1
  <2>3. k # The(file, "fmt")
    BY <1>5, RiffFacts
  <2>4. n \in Nat /\ The(file, "fmt") \in 1 .. n
    BY RiffFacts
  <2>5. k + 1 \in 1 .. n /\ k + 1 <= The(file, "fmt")
    BY <1>1, <2>3, <2>4
  <2> QED
    BY <2>1, <2>2, <2>5 DEF DetectAt
<1> QED
  BY <1>4, <1>5

\* LoadWAVMusic: it has what lies behind it.
LEMMA StepWavChunk ==
    ASSUME Made(file), GoodRiff(file), RiffType(file) = "wav", WavAt(file, rd, pos), WavChunk
    PROVE  \/ WavAt(file, rd', pos')
           \/ rd' = Found(DataFrom(file), DataFrom(file) + DataLen(file), "")
<1> DEFINE n == Len(file.blocks)
           fmt == The(file, "fmt")
           data == The(file, "data")
<1>1. PICK k \in 1 .. n + 1 :
        /\ pos = Edge(file, k)
        /\ rd.fmt <=> fmt < k
        /\ rd.data <=> data < k
        /\ data < k => rd.start = DataFrom(file) /\ rd.stop = DataFrom(file) + DataLen(file)
  BY DEF WavAt
<1>2. rd \in WavRecord /\ n \in Nat /\ fmt \in 1 .. n /\ data \in 1 .. n
      /\ DataFrom(file) \in Nat /\ DataLen(file) \in Nat
  BY RiffFacts DEF WavAt
<1>3. CASE k = n + 1
  <2>1. At(pos) = Nothing
    BY <1>1, <1>3, Here, AtEnd, RiffFacts
  <2>2. fmt < k /\ data < k
    BY <1>2, <1>3
  <2>3. rd' = IF rd.fmt /\ rd.data THEN Found(rd.start, rd.stop, "") ELSE Failed
    BY <2>1, OfNothing DEF WavChunk
  <2>4. rd' = Found(rd.start, rd.stop, "")
    BY <1>1, <2>2, <2>3
  <2> QED
    BY <1>1, <2>2, <2>4
<1>4. CASE k # n + 1
  <2>1. k \in 1 .. n
    BY <1>2, <1>4
  <2> DEFINE c == file.blocks[k]
  <2>2. At(pos) = c /\ c.head = 8 /\ c.len \in Nat /\ pos \in Nat
        /\ Reached(Past(c)) = Edge(file, k + 1) /\ Whole(c) /\ (c.len > 0 => pos + c.head < FileEnd)
    BY <1>1, <2>1, ChunkHere, RiffFacts
  <2>3. c.len # 0 /\ c.len > 0
    BY <2>1, RiffFacts, <2>2
  <2>4. rd' = WavParsed(c) /\ pos' = Reached(Past(c))
    BY <2>2, <2>3 DEF WavChunk
  <2>5. pos' = Edge(file, k + 1)
    BY <2>2, <2>4
  <2>6. Whole(c) /\ pos + c.head < FileEnd
    BY <2>2, <2>3
  <2>7. k + 1 \in 1 .. n + 1 /\ (fmt < k + 1 <=> fmt < k \/ fmt = k)
        /\ (data < k + 1 <=> data < k \/ data = k)
    BY <1>2, <2>1
  <2>8. (c.kind = "fmt" <=> k = fmt) /\ (c.kind = "data" <=> k = data)
        /\ (k = fmt => c.x = "pcm" /\ c.len >= 16)
    BY <2>1, RiffFacts
  <2>9. CASE k = fmt
    <3>1. rd' = [rd EXCEPT !.fmt = TRUE]
      BY <2>4, <2>6, <2>8, <2>9 DEF WavParsed
    <3>2. rd' \in WavRecord
      BY <1>2, <3>1, Zenon DEF WavRecord
    <3>3. rd'.fmt /\ rd'.data = rd.data /\ rd'.start = rd.start /\ rd'.stop = rd.stop
      BY <1>2, <3>1 DEF WavRecord
    <3>4. data # k
      BY <2>8, <2>9
    <3>5. rd'.fmt <=> fmt < k + 1
      BY <2>7, <2>9, <3>3
    <3>6. rd'.data <=> data < k + 1
      BY <1>1, <2>7, <3>3, <3>4
    <3>7. data < k + 1 => rd'.start = DataFrom(file) /\ rd'.stop = DataFrom(file) + DataLen(file)
      BY <1>1, <2>7, <3>3, <3>4
    <3> QED
      BY <2>5, <2>7, <3>2, <3>5, <3>6, <3>7 DEF WavAt
  <2>10. CASE k = data
    <3>0. DataFrom(file) = pos + 8 /\ DataLen(file) = c.len
      BY <1>1, <2>10, RiffFacts
    <3>1. rd' = [rd EXCEPT !.data = TRUE, !.start = pos + c.head, !.stop = pos + c.head + c.len]
      BY <2>4, <2>8, <2>10 DEF WavParsed
    <3>2. rd' = [rd EXCEPT !.data = TRUE, !.start = DataFrom(file),
                           !.stop = DataFrom(file) + DataLen(file)]
      BY <2>2, <3>0, <3>1
    <3>3. DataFrom(file) + DataLen(file) \in Nat
      BY <1>2
    <3>4. rd' \in WavRecord
      BY <1>2, <3>2, <3>3, Zenon DEF WavRecord
    <3>5. rd'.fmt = rd.fmt /\ rd'.data /\ rd'.start = DataFrom(file)
          /\ rd'.stop = DataFrom(file) + DataLen(file)
      BY <1>2, <3>2 DEF WavRecord
    <3>6. fmt # k
      BY <2>8, <2>10
    <3>7. rd'.fmt <=> fmt < k + 1
      BY <1>1, <2>7, <3>5, <3>6
    <3>8. rd'.data <=> data < k + 1
      BY <2>7, <2>10, <3>5
    <3> QED
      BY <2>5, <2>7, <3>4, <3>5, <3>7, <3>8 DEF WavAt
  <2>11. CASE k # fmt /\ k # data
    <3>1. rd' = rd
      BY <2>4, <2>6, <2>8, <2>11 DEF WavParsed
    <3>2. fmt # k /\ data # k
      BY <2>11
    <3> QED
      BY <1>1, <1>2, <2>5, <2>7, <3>1, <3>2 DEF WavAt
  <2> QED
    BY <2>9, <2>10, <2>11
<1> QED
  BY <1>3, <1>4

\* Where probe_riff_container is, at a chunk it comes to.
LEMMA ProbeGoes ==
    ASSUME NEW f, NEW r, NEW p, NEW k \in 1 .. Len(f.blocks) + 1,
           r.pc = "probe", r.title = "", r.start = f.origin, p = Edge(f, k),
           r.fmt <=> The(f, "fmt") < k,
           r.data = IF The(f, "data") < k THEN <<DataFrom(f), DataLen(f)>> ELSE <<>>
    PROVE  ProbeAt(f, r, p)
  BY DEF ProbeAt

\* probe_riff_container finds the audio in the file.
LEMMA StepProbe ==
    ASSUME Made(file), GoodRiff(file), RiffType(file) = "mp3", rd \in TagRecord,
           ProbeAt(file, rd, pos), TagStep
    PROVE  \/ rd' \in TagRecord /\ rd'.keep = rd.keep /\ ProbeAt(file, rd', pos')
           \/ rd' = Found(DataFrom(file), DataFrom(file) + DataLen(file), "")
<1> DEFINE n == Len(file.blocks)
           fmt == The(file, "fmt")
           data == The(file, "data")
<1>1. /\ file.form = "RIFF" /\ file.cut = 0 /\ file.origin = 0 /\ file.lead = 12
      /\ n \in Nat /\ fmt \in 1 .. n /\ data \in 1 .. n
      /\ DataFrom(file) \in Nat /\ DataLen(file) \in Nat /\ DataLen(file) > 0
  <2>1. RiffType(file) # "wav"
    OBVIOUS
  <2> QED
    BY <2>1, RiffFacts
<1>2. FileEnd = End(file) /\ End(file) \in Nat /\ Edge(file, 1) = 12 /\ 12 <= End(file)
  <2>1. 1 \in 1 .. n /\ n + 1 \in 1 .. n + 1
    BY <1>1
  <2>2. Edge(file, 1) = 0 + 12
    BY <1>1, EdgeNext
  <2>3. End(file) = Edge(file, n + 1)
    BY <1>1, EndIn
  <2>4. Edge(file, n + 1) >= 0 + 12
    BY <1>1, <2>1, EdgeIn
  <2> QED
    BY <2>2, <2>3, <2>4, Here, EndIn
<1>3. CASE rd.pc = "tags"
  <2>1. rd.start = 0 /\ rd.length = End(file) - 0 /\ ~rd.fmt /\ rd.data = <<>> /\ rd.title = ""
    BY <1>1, <1>3 DEF ProbeAt
  <2>2. ReadTags
    BY <1>3 DEF TagStep, ReadTags, ProbeChunk, HeadTag, FirstMm, Id3v1, Tails, TagsRead
  <2>a. rd.length # 0 /\ rd.start + 12 = 12 /\ ~(12 > FileEnd)
    <3>1. \A s, e, l : s = 0 /\ e \in Nat /\ 12 <= e /\ l = e - 0
                       => l # 0 /\ s + 12 = 12 /\ ~(12 > e)
      OBVIOUS
    <3> QED
      BY <1>2, <2>1, <3>1, Zenon
  <2>3. rd' = [rd EXCEPT !.pc = "probe"] /\ pos' = Reached(rd.start + 12)
    BY <1>1, <2>a, <2>2 DEF ReadTags
  <2>4. pos' = Edge(file, 1)
    <3>1. Reached(12) = 12
      BY <2>a DEF Reached
    <3> QED
      BY <1>2, <2>a, <2>3, <3>1
  <2>5. rd' \in TagRecord
    BY <2>3, Zenon DEF TagRecord, TagSteps
  <2>6. rd'.pc = "probe" /\ rd'.start = rd.start /\ rd'.title = rd.title /\ rd'.keep = rd.keep
        /\ rd'.fmt = rd.fmt /\ rd'.data = rd.data
    BY <2>3 DEF TagRecord
  <2>7. 1 \in 1 .. n + 1 /\ ~(fmt < 1) /\ ~(data < 1)
    BY <1>1
  <2>8. rd'.fmt <=> fmt < 1
    BY <2>1, <2>6, <2>7
  <2>9. rd'.data = IF data < 1 THEN <<DataFrom(file), DataLen(file)>> ELSE <<>>
    BY <2>1, <2>6, <2>7, Zenon
  <2>10. rd'.pc = "probe" /\ rd'.title = "" /\ rd'.start = file.origin
    BY <1>1, <2>1, <2>6
  <2>11. ProbeAt(file, rd', pos')
    BY <2>4, <2>7, <2>8, <2>9, <2>10, ProbeGoes
  <2> QED
    BY <2>5, <2>6, <2>11
<1>4. CASE rd.pc = "probe"
  <2>1. PICK k \in 1 .. n + 1 :
            /\ pos = Edge(file, k)
            /\ rd.fmt <=> fmt < k
            /\ rd.data = IF data < k THEN <<DataFrom(file), DataLen(file)>> ELSE <<>>
    BY <1>4 DEF ProbeAt
  <2>2. ProbeChunk /\ rd.start = 0 /\ rd.title = ""
    BY <1>1, <1>4 DEF TagStep, ReadTags, ProbeChunk, HeadTag, FirstMm, Id3v1, Tails, TagsRead, ProbeAt
  <2>3. CASE k = n + 1
    <3>1. At(pos) = Nothing
      BY <1>1, <2>1, <2>3, Here, AtEnd
    <3>2. fmt < k /\ data < k
      BY <1>1, <2>3
    <3>3. rd.fmt /\ rd.data = <<DataFrom(file), DataLen(file)>> /\ rd.data # <<>>
      BY <2>1, <3>2
    <3>4. rd' = [rd EXCEPT !.pc = "over", !.start = rd.data[1], !.length = rd.data[2]]
      BY <2>2, <3>1, <3>3, OfNothing DEF ProbeChunk
    <3>5. rd' = [rd EXCEPT !.pc = "over", !.start = DataFrom(file), !.length = DataLen(file)]
      BY <3>3, <3>4
    <3>6. DataLen(file) \in Int
      BY <1>1
    <3>7. rd' \in TagRecord
      BY <1>1, <3>5, <3>6, Zenon DEF TagRecord, TagSteps
    <3>8. rd'.pc = "over" /\ rd'.start = DataFrom(file) /\ rd'.length = DataLen(file)
          /\ rd'.title = rd.title /\ rd'.keep = rd.keep
      BY <3>5 DEF TagRecord
    <3>9. ProbeAt(file, rd', pos')
      BY <2>2, <3>8 DEF ProbeAt
    <3> QED
      BY <3>7, <3>8, <3>9
  <2>4. CASE k # n + 1
    <3> DEFINE c == file.blocks[k]
    <3>1. k \in 1 .. n
      BY <1>1, <2>4
    <3>2. At(pos) = c /\ c.head = 8 /\ c.len \in Nat /\ pos \in Nat
          /\ Reached(Past(c)) = Edge(file, k + 1) /\ (c.len > 0 => pos + c.head < FileEnd)
      BY <1>1, <2>1, <3>1, ChunkHere
    <3>3. c.len > 0 /\ c.len # 0
      BY <3>1, <3>2, RiffFacts
    <3>4. pos + c.head < FileEnd
      BY <3>2, <3>3
    <3>5. (c.kind = "fmt" <=> k = fmt) /\ (c.kind = "data" <=> k = data)
          /\ (k = fmt => c.x = "mp3" /\ c.len >= 16)
      BY <3>1, RiffFacts
    <3>6. k + 1 \in 1 .. n + 1 /\ (fmt < k + 1 <=> fmt < k \/ fmt = k)
          /\ (data < k + 1 <=> data < k \/ data = k)
      BY <1>1, <3>1
    <3>7. CASE k = fmt
      <4>1. rd' = [rd EXCEPT !.fmt = TRUE] /\ pos' = Reached(Past(c))
        BY <2>2, <3>2, <3>3, <3>5, <3>7 DEF ProbeChunk
      <4>2. rd' \in TagRecord
        BY <4>1, Zenon DEF TagRecord, TagSteps
      <4>3. rd'.pc = "probe" /\ rd'.start = rd.start /\ rd'.title = rd.title /\ rd'.keep = rd.keep
            /\ rd'.fmt /\ rd'.data = rd.data
        BY <1>4, <4>1 DEF TagRecord
      <4>4. rd'.fmt <=> fmt < k + 1
        BY <3>6, <3>7, <4>3
      <4>5. data # k
        BY <3>5, <3>7
      <4>6. rd'.data = IF data < k + 1 THEN <<DataFrom(file), DataLen(file)>> ELSE <<>>
        BY <2>1, <3>6, <4>3, <4>5
      <4>7. ProbeAt(file, rd', pos')
        BY <1>1, <2>2, <3>2, <3>6, <4>1, <4>3, <4>4, <4>6, ProbeGoes
      <4> QED
        BY <4>2, <4>3, <4>7
    <3>8. CASE k = data
      <4>0. DataFrom(file) = pos + 8 /\ DataLen(file) = c.len
        BY <2>1, <3>8, RiffFacts
      <4>1. rd' = [rd EXCEPT !.data = <<pos + c.head - rd.start, c.len>>] /\ pos' = Reached(Past(c))
        BY <2>2, <3>2, <3>3, <3>5, <3>8 DEF ProbeChunk
      <4>a. pos + c.head - rd.start = DataFrom(file) /\ c.len = DataLen(file)
        <5>1. \A p, h, s : p \in Nat /\ h = 8 /\ s = 0 => p + h - s = p + 8
          OBVIOUS
        <5> QED
          BY <2>2, <3>2, <4>0, <5>1, Zenon
      <4>2. rd' = [rd EXCEPT !.data = <<DataFrom(file), DataLen(file)>>]
        BY <4>1, <4>a, Zenon
      <4>3. <<DataFrom(file), DataLen(file)>> \in Nat \X Nat
        BY <1>1
      <4>4. rd' \in TagRecord
        BY <4>2, <4>3, Zenon DEF TagRecord, TagSteps
      <4>5. rd'.pc = "probe" /\ rd'.start = rd.start /\ rd'.title = rd.title /\ rd'.keep = rd.keep
            /\ rd'.fmt = rd.fmt /\ rd'.data = <<DataFrom(file), DataLen(file)>>
        BY <1>4, <4>2 DEF TagRecord
      <4>6. fmt # k
        BY <3>5, <3>8
      <4>7. rd'.fmt <=> fmt < k + 1
        BY <2>1, <3>6, <4>5, <4>6
      <4>8. rd'.data = IF data < k + 1 THEN <<DataFrom(file), DataLen(file)>> ELSE <<>>
        BY <3>6, <3>8, <4>5
      <4>9. ProbeAt(file, rd', pos')
        BY <1>1, <2>2, <3>2, <3>6, <4>1, <4>5, <4>7, <4>8, ProbeGoes, ZenonT(60)
      <4> QED
        BY <4>4, <4>5, <4>9
    <3>9. CASE k # fmt /\ k # data
      <4>1. rd' = rd /\ pos' = Reached(Past(c))
        BY <2>2, <3>2, <3>3, <3>4, <3>5, <3>9 DEF ProbeChunk
      <4>2. fmt # k /\ data # k
        BY <3>9
      <4>3. rd.fmt <=> fmt < k + 1
        BY <2>1, <3>6, <4>2
      <4>4. rd.data = IF data < k + 1 THEN <<DataFrom(file), DataLen(file)>> ELSE <<>>
        BY <2>1, <3>6, <4>2
      <4>5. ProbeAt(file, rd', pos')
        BY <1>1, <1>4, <2>2, <3>2, <3>6, <4>1, <4>3, <4>4, ProbeGoes
      <4> QED
        BY <4>1, <4>5
    <3> QED
      BY <3>7, <3>8, <3>9
  <2> QED
    BY <2>3, <2>4
<1>5. CASE rd.pc = "over"
  <2>1. rd.start = DataFrom(file) /\ rd.length = DataLen(file) /\ rd.title = ""
    BY <1>5 DEF ProbeAt
  <2>2. TagsRead
    BY <1>5 DEF TagStep, ReadTags, ProbeChunk, HeadTag, FirstMm, Id3v1, Tails, TagsRead
  <2> QED
    BY <1>1, <2>1, <2>2 DEF TagsRead
<1>6. rd.pc \in {"tags", "probe", "over"}
  BY DEF ProbeAt
<1> QED
  BY <1>3, <1>4, <1>5, <1>6

\* IFF
GoodIff(f) ==
    /\ f.form \in DOMAIN IffNeeds /\ f.cut = 0
    /\ \A kind \in IffNeeds[f.form] : Sole(f, kind)
    /\ f.form # "8SVX" => f.blocks[The(f, "COMM")].x > 0 /\ KindsAt(f, {"BODY"}) = {}
    /\ f.form = "8SVX" => KindsAt(f, {"COMM", "SSND"}) = {}

\* The kinds of the chunks of a file, of which the reader of IFF chunks has seen some.
KindsOf(f) == {f.blocks[k].kind : k \in DOMAIN f.blocks}

IffRecord(f) ==
    [pc : {"iff"}, by : {"chunk", "music"}, seen : SUBSET KindsOf(f), start : Nat, bytes : Nat]

\* Where the sound of an IFF file is, how long, and which chunks tell it.
SoundFrom(f) == IF f.form = "8SVX" THEN Edge(f, The(f, "BODY")) + 8
                ELSE Edge(f, The(f, "SSND")) + 16 + f.blocks[The(f, "SSND")].x
SoundLen(f) == IF f.form = "8SVX" THEN f.blocks[The(f, "BODY")].len ELSE f.blocks[The(f, "COMM")].x
FromChunk(f) == The(f, IF f.form = "8SVX" THEN "BODY" ELSE "SSND")
LenChunk(f) == The(f, IF f.form = "8SVX" THEN "BODY" ELSE "COMM")

\* Where the reader of an IFF file is: at a chunk, and what the chunks before it told.
IffAt(f, r, p) ==
    /\ r \in IffRecord(f)
    /\ \E k \in 1 .. Len(f.blocks) :
         /\ p = Edge(f, k)
         /\ r.seen = {f.blocks[j].kind : j \in 1 .. k - 1}
         /\ FromChunk(f) < k => r.start = SoundFrom(f)
         /\ LenChunk(f) < k => r.bytes = SoundLen(f)

\* What an IFF file of a writer says.
LEMMA IffFacts ==
    ASSUME NEW f, Made(f), GoodIff(f)
    PROVE  /\ f.form \in {"AIFF", "AIFC", "8SVX"} /\ f.cut = 0 /\ f.origin \in Nat /\ f.lead = 12
           /\ Len(f.blocks) \in Nat /\ DOMAIN f.blocks = 1 .. Len(f.blocks)
           /\ FromChunk(f) \in 1 .. Len(f.blocks) /\ LenChunk(f) \in 1 .. Len(f.blocks)
           /\ \A k \in 1 .. Len(f.blocks) :
                /\ f.blocks[k].kind = "SSND" <=> k = FromChunk(f) /\ f.form # "8SVX"
                /\ f.blocks[k].kind = "COMM" <=> k = LenChunk(f) /\ f.form # "8SVX"
                /\ f.blocks[k].kind = "BODY" <=> k = FromChunk(f) /\ f.form = "8SVX"
                /\ f.blocks[k].kind = "SSND" =>
                     f.blocks[k].x \in Nat /\ SoundFrom(f) = Edge(f, k) + 16 + f.blocks[k].x
                /\ f.blocks[k].kind = "COMM" =>
                     f.blocks[k].x \in Nat /\ f.blocks[k].x > 0 /\ SoundLen(f) = f.blocks[k].x
                /\ f.blocks[k].kind = "BODY" =>
                     /\ k = LenChunk(f) /\ SoundFrom(f) = Edge(f, k) + 8
                     /\ SoundLen(f) = f.blocks[k].len
           /\ SoundFrom(f) \in Nat /\ SoundLen(f) \in Nat /\ SoundFrom(f) + SoundLen(f) <= End(f)
           /\ IffNeeds[f.form] \subseteq KindsOf(f)
<1> DEFINE n == Len(f.blocks)
<1>1. /\ f.form \in {"AIFF", "AIFC", "8SVX"} /\ f.form # "RIFF" /\ f.cut = 0 /\ f.origin \in Nat
      /\ n \in Nat /\ DOMAIN f.blocks = 1 .. n /\ ChunksMade(f)
  BY MadeBlocks DEF GoodIff, Made, IffNeeds
<1>2. f.lead = 12
  BY <1>1 DEF ChunksMade
<1>3. \A kind \in IffNeeds[f.form] :
         /\ The(f, kind) \in 1 .. n /\ f.blocks[The(f, kind)].kind = kind
         /\ \A k \in 1 .. n : f.blocks[k].kind = kind => k = The(f, kind)
  BY <1>1, SoleOne DEF GoodIff
<1>4. IffNeeds[f.form] \subseteq KindsOf(f)
  BY <1>1, <1>3 DEF KindsOf
<1>5. \A k \in 1 .. n : f.blocks[k].len \in Nat /\ Edge(f, k) \in Nat
                        /\ Edge(f, k) + 8 + f.blocks[k].len <= End(f)
  BY <1>1, ChunkFacts
<1>6. End(f) \in Nat
  BY EndIn
<1>7. CASE f.form = "8SVX"
  <2>1. "BODY" \in IffNeeds[f.form]
    BY <1>7 DEF IffNeeds
  <2>2. FromChunk(f) = The(f, "BODY") /\ LenChunk(f) = The(f, "BODY")
    BY <1>7 DEF FromChunk, LenChunk
  <2>3. The(f, "BODY") \in 1 .. n
        /\ \A k \in 1 .. n : f.blocks[k].kind = "BODY" <=> k = The(f, "BODY")
    BY <1>3, <2>1
  <2>4. \A k \in 1 .. n : f.blocks[k].kind # "SSND" /\ f.blocks[k].kind # "COMM"
    <3>1. KindsAt(f, {"COMM", "SSND"}) = {}
      BY <1>7 DEF GoodIff
    <3> QED
      BY <1>1, <3>1 DEF KindsAt
  <2>5. SoundFrom(f) = Edge(f, The(f, "BODY")) + 8 /\ SoundLen(f) = f.blocks[The(f, "BODY")].len
    BY <1>7 DEF SoundFrom, SoundLen
  <2>6. SoundFrom(f) \in Nat /\ SoundLen(f) \in Nat /\ SoundFrom(f) + SoundLen(f) <= End(f)
    BY <1>5, <1>6, <2>3, <2>5
  <2> QED
    BY <1>1, <1>2, <1>4, <1>7, <2>2, <2>3, <2>4, <2>5, <2>6
<1>8. CASE f.form # "8SVX"
  <2>1. "SSND" \in IffNeeds[f.form] /\ "COMM" \in IffNeeds[f.form]
    BY <1>1, <1>8 DEF IffNeeds
  <2> DEFINE s == The(f, "SSND")
             c == The(f, "COMM")
  <2>2. FromChunk(f) = s /\ LenChunk(f) = c
    BY <1>8 DEF FromChunk, LenChunk
  <2>3. s \in 1 .. n /\ c \in 1 .. n
        /\ (\A k \in 1 .. n : f.blocks[k].kind = "SSND" <=> k = s)
        /\ (\A k \in 1 .. n : f.blocks[k].kind = "COMM" <=> k = c)
    BY <1>3, <2>1
  <2>4. \A k \in 1 .. n : f.blocks[k].kind # "BODY"
    <3>1. KindsAt(f, {"BODY"}) = {}
      BY <1>8 DEF GoodIff
    <3> QED
      BY <1>1, <3>1 DEF KindsAt
  <2>5. SoundFrom(f) = Edge(f, s) + 16 + f.blocks[s].x /\ SoundLen(f) = f.blocks[c].x
    BY <1>8 DEF SoundFrom, SoundLen
  <2>6. f.blocks[s].kind = "SSND" /\ f.blocks[c].kind = "COMM"
    BY <2>3
  <2>7. f.blocks[s].x \in Nat /\ f.blocks[c].x \in Nat
        /\ 8 + f.blocks[s].x + f.blocks[c].x <= f.blocks[s].len
    BY <1>1, <2>3, <2>6 DEF ChunksMade
  <2>8. f.blocks[c].x > 0
    BY <1>8 DEF GoodIff
  <2>9. SoundFrom(f) \in Nat /\ SoundLen(f) \in Nat /\ SoundFrom(f) + SoundLen(f) <= End(f)
    <3>1. f.blocks[s].len \in Nat /\ Edge(f, s) \in Nat /\ Edge(f, s) + 8 + f.blocks[s].len <= End(f)
      BY <1>5, <2>3
    <3> DEFINE e == Edge(f, s)
               l == f.blocks[s].len
               x == f.blocks[s].x
               y == f.blocks[c].x
               z == End(f)
    <3>2. e \in Nat /\ l \in Nat /\ x \in Nat /\ y \in Nat /\ z \in Nat /\ e + 8 + l <= z
          /\ 8 + x + y <= l
      BY <1>6, <2>7, <3>1, Zenon
    <3>3. e + 16 + x \in Nat /\ y \in Nat /\ (e + 16 + x) + y <= z
      <4> HIDE DEF e, l, x, y, z
      <4> QED
        BY <3>2
    <3> QED
      BY <2>5, <3>3, Zenon
  <2> HIDE DEF s, c, n
  <2>10. \A k \in 1 .. n :
                /\ f.blocks[k].kind = "SSND" =>
                     f.blocks[k].x \in Nat /\ SoundFrom(f) = Edge(f, k) + 16 + f.blocks[k].x
                /\ f.blocks[k].kind = "COMM" =>
                     f.blocks[k].x \in Nat /\ f.blocks[k].x > 0 /\ SoundLen(f) = f.blocks[k].x
    BY <2>3, <2>5, <2>7, <2>8
  <2> QED
    BY <1>1, <1>2, <1>4, <1>8, <2>2, <2>3, <2>4, <2>9, <2>10 DEF n
<1> QED
  BY <1>7, <1>8

\* What a reader of AIFF knows when it has read one more chunk.
LEMMA IffParsing ==
    ASSUME Made(file), GoodIff(file), rd \in IffRecord(file), NEW k \in 1 .. Len(file.blocks),
           pos = Edge(file, k), rd.seen = {file.blocks[j].kind : j \in 1 .. k - 1},
           FromChunk(file) < k => rd.start = SoundFrom(file),
           LenChunk(file) < k => rd.bytes = SoundLen(file),
           NEW r, r = IffParsed(file.blocks[k])
    PROVE  /\ r \in IffRecord(file) /\ r # Failed /\ r.by = rd.by
           /\ r.seen = {file.blocks[j].kind : j \in 1 .. k}
           /\ FromChunk(file) < k + 1 => r.start = SoundFrom(file)
           /\ LenChunk(file) < k + 1 => r.bytes = SoundLen(file)
<1> DEFINE n == Len(file.blocks)
           c == file.blocks[k]
           s == [rd EXCEPT !.seen = @ \cup {c.kind}]
<1>1. n \in Nat /\ DOMAIN file.blocks = 1 .. n /\ FromChunk(file) \in 1 .. n /\ LenChunk(file) \in 1 .. n
      /\ file.form \in {"RIFF", "AIFF", "AIFC", "8SVX"} /\ file.cut = 0
      /\ SoundFrom(file) \in Nat /\ SoundLen(file) \in Nat
  BY IffFacts
<1>2. c.head = 8 /\ c.len \in Nat /\ pos \in Nat /\ Whole(c)
  BY <1>1, ChunkHere
<1>3. c.kind \in KindsOf(file)
  BY <1>1 DEF KindsOf
<1>4. /\ c.kind = "SSND" <=> k = FromChunk(file) /\ file.form # "8SVX"
      /\ c.kind = "COMM" <=> k = LenChunk(file) /\ file.form # "8SVX"
      /\ c.kind = "BODY" <=> k = FromChunk(file) /\ file.form = "8SVX"
      /\ c.kind = "SSND" => c.x \in Nat /\ SoundFrom(file) = pos + 16 + c.x
      /\ c.kind = "COMM" => c.x \in Nat /\ c.x > 0 /\ SoundLen(file) = c.x
      /\ c.kind = "BODY" => k = LenChunk(file) /\ SoundFrom(file) = pos + 8 /\ SoundLen(file) = c.len
  BY IffFacts
<1>5. {file.blocks[j].kind : j \in 1 .. k} = rd.seen \cup {c.kind}
  <2>1. 1 .. k = (1 .. k - 1) \cup {k}
    BY <1>1
  <2> QED
    BY <2>1
<1>6. s \in IffRecord(file) /\ s.pc = "iff" /\ s.by = rd.by /\ s.start = rd.start /\ s.bytes = rd.bytes
      /\ s.seen = rd.seen \cup {c.kind}
  <2>1. rd.seen \cup {c.kind} \in SUBSET KindsOf(file)
    BY <1>3 DEF IffRecord
  <2>2. s \in IffRecord(file)
    BY <2>1, Zenon DEF IffRecord
  <2> QED
    BY <2>2 DEF IffRecord
<1>7. (FromChunk(file) < k + 1 <=> FromChunk(file) < k \/ FromChunk(file) = k)
      /\ (LenChunk(file) < k + 1 <=> LenChunk(file) < k \/ LenChunk(file) = k)
  BY <1>1
<1>8. \A q \in IffRecord(file) : q # Failed
  BY DEF IffRecord, Failed
<1> HIDE DEF s, c, n
<1>9. r = CASE c.kind = "SSND" -> [s EXCEPT !.start = pos + c.head + 8 + c.x]
            [] c.kind = "COMM" -> IF c.x > 0 THEN [s EXCEPT !.bytes = c.x] ELSE Failed
            [] c.kind = "BODY" -> [s EXCEPT !.start = pos + c.head, !.bytes = c.len]
            [] c.kind \in {"ID3", "NAME"} -> IF rd.by = "music" /\ ~Whole(c) THEN Failed ELSE s
            [] OTHER -> s
  BY Zenon DEF IffParsed, s, c
<1>10. CASE c.kind = "SSND"
  <2>1. r = [s EXCEPT !.start = pos + c.head + 8 + c.x]
    BY <1>9, <1>10
  <2>2. pos + c.head + 8 + c.x = SoundFrom(file)
    <3>2. c.x \in Nat /\ SoundFrom(file) = pos + 16 + c.x
      BY <1>4, <1>10, Zenon
    <3>3. pos \in Nat /\ c.head = 8
      BY <1>2, Zenon
    <3> DEFINE h == c.head
               x == c.x
    <3>4. pos + h + 8 + x = pos + 16 + x
      <4>1. pos \in Nat /\ h = 8 /\ x \in Nat
        BY <3>2, <3>3
      <4> HIDE DEF h, x
      <4> QED
        BY <4>1
    <3> QED
      BY <3>2, <3>4, Zenon
  <2>3. r = [s EXCEPT !.start = SoundFrom(file)]
    BY <2>1, <2>2, Zenon
  <2>4. r \in IffRecord(file)
    BY <1>1, <1>6, <2>3, Zenon DEF IffRecord
  <2>5. r.by = s.by /\ r.seen = s.seen /\ r.start = SoundFrom(file) /\ r.bytes = s.bytes
    BY <1>6, <2>3 DEF IffRecord
  <2>6. LenChunk(file) # k
    BY <1>4, <1>10
  <2> QED
    BY <1>5, <1>6, <1>7, <1>8, <2>4, <2>5, <2>6 DEF c
<1>11. CASE c.kind = "COMM"
  <2>1. r = [s EXCEPT !.bytes = SoundLen(file)]
    BY <1>4, <1>9, <1>11
  <2>2. r \in IffRecord(file)
    BY <1>1, <1>6, <2>1, Zenon DEF IffRecord
  <2>3. r.by = s.by /\ r.seen = s.seen /\ r.start = s.start /\ r.bytes = SoundLen(file)
    BY <1>6, <2>1 DEF IffRecord
  <2>4. FromChunk(file) # k
    BY <1>4, <1>11
  <2> QED
    BY <1>5, <1>6, <1>7, <1>8, <2>2, <2>3, <2>4 DEF c
<1>12. CASE c.kind = "BODY"
  <2>1. r = [s EXCEPT !.start = SoundFrom(file), !.bytes = SoundLen(file)]
    BY <1>2, <1>4, <1>9, <1>12
  <2>2. r \in IffRecord(file)
    BY <1>1, <1>6, <2>1, Zenon DEF IffRecord
  <2>3. r.by = s.by /\ r.seen = s.seen /\ r.start = SoundFrom(file) /\ r.bytes = SoundLen(file)
    BY <1>6, <2>1 DEF IffRecord
  <2> QED
    BY <1>5, <1>6, <1>7, <1>8, <2>2, <2>3 DEF c
<1>13. CASE c.kind \notin {"SSND", "COMM", "BODY"}
  <2>1. r = s
    BY <1>2, <1>9, <1>13
  <2>2. FromChunk(file) # k /\ LenChunk(file) # k
    <3>1. file.form = "8SVX" => FromChunk(file) = LenChunk(file)
      BY DEF FromChunk, LenChunk
    <3> QED
      BY <1>4, <1>13, <3>1
  <2> QED
    BY <1>5, <1>6, <1>7, <1>8, <2>1, <2>2 DEF c
<1> QED
  BY <1>10, <1>11, <1>12, <1>13

\* LoadAIFFMusic and Mix_LoadAIFF_RW find the sound, whatever chunks are around it.
LEMMA StepIffChunk ==
    ASSUME Made(file), GoodIff(file), IffAt(file, rd, pos), IffChunk
    PROVE  \/ IffAt(file, rd', pos') /\ rd'.pc = "iff"
           \/ rd' = Found(SoundFrom(file), SoundFrom(file) + SoundLen(file), "")
<1> DEFINE n == Len(file.blocks)
<1>1. PICK k \in 1 .. n :
         /\ pos = Edge(file, k)
         /\ rd.seen = {file.blocks[j].kind : j \in 1 .. k - 1}
         /\ FromChunk(file) < k => rd.start = SoundFrom(file)
         /\ LenChunk(file) < k => rd.bytes = SoundLen(file)
  BY DEF IffAt
<1> DEFINE c == file.blocks[k]
           r == IffParsed(c)
<1>2. rd \in IffRecord(file)
  BY DEF IffAt
<1>3. n \in Nat /\ DOMAIN file.blocks = 1 .. n /\ FromChunk(file) \in 1 .. n /\ LenChunk(file) \in 1 .. n
      /\ file.form \in {"RIFF", "AIFF", "AIFC", "8SVX"} /\ file.cut = 0
      /\ SoundFrom(file) \in Nat /\ SoundLen(file) \in Nat
      /\ SoundFrom(file) + SoundLen(file) <= End(file) /\ IffNeeds[file.form] \subseteq KindsOf(file)
  BY IffFacts
<1>4. /\ r \in IffRecord(file) /\ r # Failed /\ r.by = rd.by
      /\ r.seen = {file.blocks[j].kind : j \in 1 .. k}
      /\ FromChunk(file) < k + 1 => r.start = SoundFrom(file)
      /\ LenChunk(file) < k + 1 => r.bytes = SoundLen(file)
  BY <1>1, <1>2, IffParsing
<1>5. At(pos) = c /\ c.head = 8 /\ Past(c) = Edge(file, k + 1) /\ FileEnd = End(file)
      /\ Edge(file, k + 1) \in Nat
  BY <1>1, <1>3, ChunkHere, Here
<1>6. c # Nothing
  <2>1. Nothing.head = 0
    BY OfNothing, Zenon
  <2>2. c.head = 8
    BY <1>5, Zenon
  <2>3. 8 # 0
    OBVIOUS
  <2> QED
    BY <2>1, <2>2, <2>3, Zenon
<1> HIDE DEF r
<1>7. \/ Edge(file, k + 1) < End(file) /\ rd' = r /\ pos' = Edge(file, k + 1)
      \/ ~(Edge(file, k + 1) < End(file)) /\ rd' = IffFound(r)
  <2>1. LET q == IffParsed(c)
        IN  IF q = Failed THEN rd' = Failed /\ UNCHANGED pos
            ELSE IF c # Nothing /\ Past(c) < FileEnd THEN rd' = q /\ pos' = Past(c)
            ELSE rd' = IffFound(q) /\ UNCHANGED pos
    BY <1>5 DEF IffChunk
  <2>2. IF r = Failed THEN rd' = Failed /\ UNCHANGED pos
        ELSE IF c # Nothing /\ Past(c) < FileEnd THEN rd' = r /\ pos' = Past(c)
        ELSE rd' = IffFound(r) /\ UNCHANGED pos
    BY <2>1 DEF r
  <2> QED
    BY <1>4, <1>5, <1>6, <2>2
<1>8. End(file) = Edge(file, n + 1)
  BY <1>3, EndIn
<1>9. CASE Edge(file, k + 1) < End(file) /\ rd' = r /\ pos' = Edge(file, k + 1)
  <2>1. k + 1 # n + 1
    BY <1>5, <1>8, <1>9
  <2>2. k + 1 \in 1 .. n /\ (k + 1) - 1 = k
    BY <1>3, <2>1
  <2>3. rd'.seen = {file.blocks[j].kind : j \in 1 .. (k + 1) - 1}
    BY <1>4, <1>9, <2>2
  <2>4. IffAt(file, rd', pos')
    BY <1>4, <1>9, <2>2, <2>3 DEF IffAt
  <2>5. rd'.pc = "iff"
    BY <1>4, <1>9 DEF IffRecord
  <2> QED
    BY <2>4, <2>5
<1>10. CASE ~(Edge(file, k + 1) < End(file)) /\ rd' = IffFound(r)
  <2>1. k = n
    <3>1. k + 1 \in 1 .. n + 1 /\ n + 1 \in 1 .. n + 1
      BY <1>3
    <3>2. ~(k + 1 < n + 1)
      BY <1>8, <1>10, <3>1, EdgesDiffer
    <3> QED
      BY <1>3, <3>1, <3>2
  <2>2. r.start = SoundFrom(file) /\ r.bytes = SoundLen(file)
    BY <1>3, <1>4, <2>1
  <2>3. r.seen = KindsOf(file)
    BY <1>3, <1>4, <2>1 DEF KindsOf
  <2>4. IffNeeds[file.form] \subseteq r.seen /\ r.start + r.bytes <= FileEnd
    BY <1>3, <1>5, <2>2, <2>3
  <2>5. rd' = Found(r.start, r.start + r.bytes, "")
    BY <1>10, <2>4 DEF IffFound
  <2> QED
    BY <2>2, <2>5
<1> QED
  BY <1>7, <1>9, <1>10

\* MPEG
GoodMpeg(f) ==
    LET kind(k) == f.blocks[k].kind
    IN  /\ f.form = "MPEG" /\ f.cut = 0 /\ Sole(f, "audio")
        /\ \A k \in DOMAIN f.blocks :
             /\ f.blocks[k].x # "broken"
             /\ f.blocks[k].x = "headless" => kind(k - 1) = "audio"
             /\ kind(k) = "id3v1" => \A j \in DOMAIN f.blocks : j > k => kind(j) = "mm"
             /\ \A j \in DOMAIN f.blocks :
                  \/ kind(j) = kind(k) /\ kind(k) \in {"id3v1", "mm"}
                  \/ {kind(j), kind(k)} \subseteq {"lyrics1", "lyrics2"}
                  \/ kind(j) = "ape" /\ kind(k) = "ape" /\ j # 1 /\ k # 1
                  => j = k

\* The title that is found in front and behind block j.
HeadTitled(f) == f.blocks[1].kind \in {"id3v2", "ape"} /\ f.blocks[1].x = "ok"

ApeBehind(f, j) ==
    \E k \in DOMAIN f.blocks : k > j /\ k # 1 /\ f.blocks[k].kind = "ape" /\ f.blocks[k].x = "ok"

Id3v1Behind(f, j) == \E k \in DOMAIN f.blocks : k > j /\ f.blocks[k].kind = "id3v1"

TitleBehind(f, j) ==
    IF HeadTitled(f) THEN f.blocks[1].kind
    ELSE IF ApeBehind(f, j) THEN "ape" ELSE IF Id3v1Behind(f, j) THEN "id3v1" ELSE ""

\* Where the audio begins for a decoder that keeps the tag in front or cuts it.
MpegFrom(f, keep) ==
    IF f.blocks[1].kind = "id3v2" /\ keep THEN f.origin ELSE Edge(f, The(f, "audio"))

\* Where the reader of tags is: block j is the last it has not cut off.
MpegAt(f, r) ==
    IF r.pc \in {"tags", "head"}
    THEN /\ r.start = f.origin /\ r.length = End(f) - f.origin /\ r.title = ""
         /\ ~r.handled /\ ~r.mm /\ ~r.lyr /\ ~r.ape
    ELSE \E j \in The(f, "audio") .. Len(f.blocks) :
         /\ r.start = MpegFrom(f, r.keep) /\ r.length = Edge(f, j + 1) - r.start
         /\ r.title = TitleBehind(f, j)
         /\ r.handled <=> HeadTitled(f)
         /\ r.pc = "mm" => j = Len(f.blocks) /\ ~r.mm
         /\ r.pc \in {"mm", "id3v1"} => ~r.lyr /\ ~r.ape
         /\ r.pc = "id3v1" => \A k \in DOMAIN f.blocks : k <= j /\ f.blocks[k].kind = "id3v1" => k = j
         /\ r.pc = "tails" => \A k \in DOMAIN f.blocks : k <= j => f.blocks[k].kind # "id3v1"
         /\ r.mm => \E k \in DOMAIN f.blocks : k > j /\ f.blocks[k].kind = "mm"
         /\ r.lyr => \E k \in DOMAIN f.blocks : k > j /\ f.blocks[k].kind \in {"lyrics1", "lyrics2"}
         /\ r.ape => \E k \in DOMAIN f.blocks : k > j /\ k # 1 /\ f.blocks[k].kind = "ape"
         /\ r.pc = "over" => j = The(f, "audio")
         /\ r.pc # "probe"

\* What MPEG audio with its tags is.
LEMMA MpegFacts ==
    ASSUME NEW f, Made(f), GoodMpeg(f)
    PROVE  /\ f.form = "MPEG" /\ f.cut = 0 /\ f.origin \in Nat /\ Edge(f, 1) = f.origin
           /\ Len(f.blocks) \in Nat /\ DOMAIN f.blocks = 1 .. Len(f.blocks)
           /\ The(f, "audio") \in 1 .. Len(f.blocks) /\ The(f, "audio") \in {1, 2}
           /\ f.blocks[The(f, "audio")].len \in Nat /\ f.blocks[The(f, "audio")].len >= 24
           /\ \A k \in 1 .. Len(f.blocks) : f.blocks[k].kind = "audio" <=> k = The(f, "audio")
           /\ The(f, "audio") = 2 => /\ f.blocks[1].kind \in {"id3v2", "ape"}
                                     /\ f.blocks[1].x # "headless"
           /\ \A k \in 1 .. Len(f.blocks) : k > The(f, "audio") =>
                \/ f.blocks[k].kind = "mm" /\ Total(f.blocks[k]) >= 68
                \/ f.blocks[k].kind = "id3v1" /\ Total(f.blocks[k]) >= 128
                \/ /\ f.blocks[k].kind = "ape" /\ Total(f.blocks[k]) >= 32
                   /\ f.blocks[k].x \in {"ok", "headless"}
                \/ f.blocks[k].kind \in {"lyrics1", "lyrics2"} /\ Total(f.blocks[k]) >= 20
<1> DEFINE n == Len(f.blocks)
           a == The(f, "audio")
<1>1. /\ f.form = "MPEG" /\ f.cut = 0 /\ f.origin \in Nat
      /\ n \in Nat /\ DOMAIN f.blocks = 1 .. n /\ MpegMade(f) /\ Sole(f, "audio")
  BY MadeBlocks DEF GoodMpeg, Made
<1>2. a \in 1 .. n /\ \A k \in 1 .. n : f.blocks[k].kind = "audio" <=> k = a
  BY <1>1, SoleOne
<1>3. Edge(f, 1) = f.origin
  <2>1. f.lead = 0
    BY <1>1 DEF MpegMade
  <2> QED
    BY <1>1, <2>1, EdgeNext
<1>4. f.blocks[a].len >= 24
      /\ (a = 1 \/ (a = 2 /\ f.blocks[1].x # "headless" /\ f.blocks[1].kind \in {"id3v2", "ape"}))
  <2>1. f.blocks[a].kind = "audio"
    BY <1>2
  <2> QED
    BY <1>1, <1>2, <2>1 DEF MpegMade
<1>5. f.blocks[a].len \in Nat
  BY <1>2, MadeBlocks
<1>6. ASSUME NEW k \in 1 .. n, k > a
      PROVE  \/ f.blocks[k].kind = "mm" /\ Total(f.blocks[k]) >= 68
             \/ f.blocks[k].kind = "id3v1" /\ Total(f.blocks[k]) >= 128
             \/ /\ f.blocks[k].kind = "ape" /\ Total(f.blocks[k]) >= 32
                /\ f.blocks[k].x \in {"ok", "headless"}
             \/ f.blocks[k].kind \in {"lyrics1", "lyrics2"} /\ Total(f.blocks[k]) >= 20
  <2>1. f.blocks[k].kind # "audio" /\ k # 1
    BY <1>1, <1>2, <1>6
  <2>2. f.blocks[k].x # "broken"
    BY <1>1 DEF GoodMpeg
  <2> DEFINE b == f.blocks[k]
  <2>3. (CASE b.kind = "audio" ->
                    /\ b.len >= 24
                    /\ \/ k = 1
                       \/ /\ k = 2 /\ f.blocks[1].x # "headless"
                          /\ f.blocks[1].kind \in {"id3v2", "ape"}
               [] b.kind = "id3v2" -> k = 1
               [] b.kind = "mm" -> Total(b) >= 68
               [] b.kind = "id3v1" -> Total(b) >= 128
               [] b.kind = "ape" -> k = 1 \/ (Total(b) >= 32 /\ b.x \in {"ok", "headless", "broken"})
               [] OTHER -> b.kind \in {"lyrics1", "lyrics2"} /\ Total(b) >= 20)
    BY <1>1 DEF MpegMade
  <2> HIDE DEF b
  <2>4. b.kind # "audio" /\ k # 1 /\ b.x # "broken"
    BY <2>1, <2>2 DEF b
  <2>5. \/ b.kind = "mm" /\ Total(b) >= 68
        \/ b.kind = "id3v1" /\ Total(b) >= 128
        \/ b.kind = "ape" /\ Total(b) >= 32 /\ b.x \in {"ok", "headless"}
        \/ b.kind \in {"lyrics1", "lyrics2"} /\ Total(b) >= 20
    BY <2>3, <2>4
  <2> QED
    BY <2>5 DEF b
<1> HIDE DEF n
<1>7. a \in {1, 2} /\ (a = 2 => f.blocks[1].kind \in {"id3v2", "ape"} /\ f.blocks[1].x # "headless")
  BY <1>4
<1> QED
  BY <1>1, <1>2, <1>3, <1>4, <1>5, <1>6, <1>7 DEF n

\* What the last tag of a stretch adds to the title.
LEMMA TitleBefore ==
    ASSUME NEW f, Made(f), NEW j \in 2 .. Len(f.blocks)
    PROVE  /\ ApeBehind(f, j - 1) <=> \/ ApeBehind(f, j)
                                      \/ f.blocks[j].kind = "ape" /\ f.blocks[j].x = "ok"
           /\ Id3v1Behind(f, j - 1) <=> Id3v1Behind(f, j) \/ f.blocks[j].kind = "id3v1"
<1>1. DOMAIN f.blocks = 1 .. Len(f.blocks) /\ Len(f.blocks) \in Nat
  BY MadeBlocks
<1>2. \A k \in 1 .. Len(f.blocks) : k > j - 1 <=> k > j \/ k = j
  BY <1>1
<1>3. j \in DOMAIN f.blocks /\ j # 1
  BY <1>1
<1> QED
  BY <1>1, <1>2, <1>3 DEF ApeBehind, Id3v1Behind

\* Where the audio begins, whether the tag before it is kept or not.
LEMMA MpegFromIn ==
    ASSUME NEW f, Made(f), GoodMpeg(f), NEW keep
    PROVE  /\ MpegFrom(f, keep) \in Nat /\ MpegFrom(f, keep) <= Edge(f, The(f, "audio"))
           /\ Edge(f, The(f, "audio")) \in Nat
           /\ Edge(f, The(f, "audio")) + 24 <= Edge(f, The(f, "audio") + 1)
           /\ Edge(f, The(f, "audio") + 1) \in Nat
<1> DEFINE a == The(f, "audio")
           n == Len(f.blocks)
<1>1. a \in 1 .. n /\ n \in Nat /\ f.origin \in Nat /\ f.lead \in Nat
      /\ f.blocks[a].len \in Nat /\ f.blocks[a].len >= 24
  BY MpegFacts, MadeBlocks
<1>2. a \in 1 .. n + 1 /\ a + 1 \in 1 .. n + 1 /\ a \in Nat \ {0}
  BY <1>1
<1>3. Edge(f, a) \in Nat /\ Edge(f, a) >= f.origin + f.lead /\ Edge(f, a + 1) \in Nat
  BY <1>2, EdgeIn
<1>4. Edge(f, a + 1) = Edge(f, a) + Total(f.blocks[a])
  BY <1>2, EdgeNext
<1>5. Total(f.blocks[a]) = f.blocks[a].head + f.blocks[a].len + f.blocks[a].pad
      /\ f.blocks[a].head \in Nat /\ f.blocks[a].pad \in Nat
  BY <1>1, MadeBlocks
<1>6. Edge(f, a) + 24 <= Edge(f, a + 1)
  <2> DEFINE e == Edge(f, a)
             t == Edge(f, a + 1)
             h == f.blocks[a].head
             l == f.blocks[a].len
             p == f.blocks[a].pad
  <2>1. e \in Nat /\ h \in Nat /\ l \in Nat /\ p \in Nat /\ l >= 24 /\ t = e + (h + l + p)
    BY <1>1, <1>3, <1>4, <1>5
  <2>2. e + 24 <= t
    <3> HIDE DEF e, t, h, l, p
    <3> QED
      BY <2>1
  <2> QED
    BY <2>2
<1>7. MpegFrom(f, keep) = f.origin \/ MpegFrom(f, keep) = Edge(f, a)
  BY DEF MpegFrom
<1> QED
  BY <1>1, <1>3, <1>6, <1>7

\* The block at the end of what is left, and what is left without it.
LEMMA HindHere ==
    ASSUME Made(file), GoodMpeg(file), NEW r, NEW keep,
           NEW j \in The(file, "audio") .. Len(file.blocks),
           r.start = MpegFrom(file, keep), r.length = Edge(file, j + 1) - r.start
    PROVE  /\ j \in 1 .. Len(file.blocks) /\ Hind(r) = file.blocks[j] /\ r.length \in Nat /\ r.length >= 24
           /\ r.start \in Nat
           /\ j # The(file, "audio") =>
                /\ j - 1 \in The(file, "audio") .. Len(file.blocks) /\ j \in 2 .. Len(file.blocks)
                /\ r.length - Total(file.blocks[j]) \in Int
                /\ r.length - Total(file.blocks[j]) = Edge(file, (j - 1) + 1) - r.start
                /\ Total(file.blocks[j]) \in Nat /\ Total(file.blocks[j]) < r.length
<1> DEFINE a == The(file, "audio")
           n == Len(file.blocks)
<1>1. a \in 1 .. n /\ n \in Nat /\ file.cut = 0
  BY MpegFacts
<1>2. j \in 1 .. n /\ j \in 1 .. n + 1 /\ j + 1 \in 1 .. n + 1 /\ j \in Nat \ {0} /\ a <= j
      /\ (j # a => j - 1 \in a .. n /\ j \in 2 .. n /\ j \in a + 1 .. n + 1) /\ (j - 1) + 1 = j
      /\ j + 1 \in a + 1 .. n + 1
  BY <1>1
<1>3. /\ MpegFrom(file, keep) \in Nat /\ MpegFrom(file, keep) <= Edge(file, a)
      /\ Edge(file, a) \in Nat /\ Edge(file, a) + 24 <= Edge(file, a + 1) /\ Edge(file, a + 1) \in Nat
  BY MpegFromIn
<1>4. Edge(file, j) \in Nat /\ Edge(file, j + 1) \in Nat /\ Total(file.blocks[j]) \in Nat
      /\ Edge(file, j + 1) = Edge(file, j) + Total(file.blocks[j])
  BY <1>2, EdgeIn, EdgeNext, MadeBlocks
<1>5. Edge(file, a) + Total(file.blocks[a]) = Edge(file, a + 1)
  <2>1. a \in Nat \ {0}
    BY <1>1
  <2> QED
    BY <2>1, EdgeNext
<1>6. Edge(file, a + 1) <= Edge(file, j + 1) /\ (j # a => Edge(file, a + 1) <= Edge(file, j))
  <2>1. \A k \in a + 1 .. n + 1 : Edge(file, a) + Total(file.blocks[a]) <= Edge(file, k)
    BY <1>1, EdgeApart
  <2>2. \A k \in a + 1 .. n + 1 : Edge(file, a + 1) <= Edge(file, k)
    BY <1>5, <2>1
  <2> QED
    BY <1>2, <2>2
<1> DEFINE s == r.start
           l == r.length
           m == MpegFrom(file, keep)
           e == Edge(file, a)
           g == Edge(file, a + 1)
           x == Edge(file, j)
           y == Edge(file, j + 1)
           t == Total(file.blocks[j])
<1>7. /\ m \in Nat /\ m <= e /\ e \in Nat /\ e + 24 <= g /\ g \in Nat /\ x \in Nat /\ y \in Nat
      /\ t \in Nat /\ y = x + t /\ g <= y /\ (j # a => g <= x) /\ s = m /\ l = y - s
  BY <1>3, <1>4, <1>6
<1>8. /\ l \in Nat /\ l >= 24 /\ s \in Nat /\ s + l = y
      /\ (j # a => l - t \in Int /\ l - t = x - s /\ t < l)
  <2> HIDE DEF s, l, m, e, g, x, y, t, a
  <2> QED
    BY <1>7
<1>9. Hind(r) = file.blocks[j]
  <2>1. Hind(r) = BlockBefore(file, y)
    BY <1>8, Here DEF Hind
  <2> QED
    BY <1>1, <1>2, <2>1, AtEdge
<1> QED
  BY <1>2, <1>4, <1>8, <1>9

\* A tag is dropped.
LEMMA Dropping ==
    ASSUME NEW r \in TagRecord, NEW b, r.length - Total(b) \in Int
    PROVE  /\ Dropped(r, b) \in TagRecord
           /\ Dropped(r, b).length = r.length - Total(b)
           /\ Dropped(r, b).start = r.start /\ Dropped(r, b).pc = r.pc /\ Dropped(r, b).keep = r.keep
           /\ Dropped(r, b).title = r.title /\ Dropped(r, b).handled = r.handled
           /\ Dropped(r, b).mm = r.mm /\ Dropped(r, b).lyr = r.lyr /\ Dropped(r, b).ape = r.ape
<1> DEFINE l == r.length - Total(b)
<1>1. Dropped(r, b) = [r EXCEPT !.length = l]
  BY DEF Dropped
<1> HIDE DEF l
<1>2. l \in Int
  BY DEF l
<1>3. [r EXCEPT !.length = l] \in TagRecord
  BY <1>2, Zenon DEF TagRecord
<1>4. Dropped(r, b).length = l
      /\ Dropped(r, b).start = r.start /\ Dropped(r, b).pc = r.pc /\ Dropped(r, b).keep = r.keep
      /\ Dropped(r, b).title = r.title /\ Dropped(r, b).handled = r.handled
      /\ Dropped(r, b).mm = r.mm /\ Dropped(r, b).lyr = r.lyr /\ Dropped(r, b).ape = r.ape
  BY <1>1 DEF TagRecord
<1> QED
  BY <1>1, <1>3, <1>4 DEF l

\* In the middle of the tags behind.
LEMMA MpegGoes ==
    ASSUME NEW f, NEW r, NEW j \in The(f, "audio") .. Len(f.blocks),
           r.pc \in {"mm", "id3v1", "tails", "over"},
           r.start = MpegFrom(f, r.keep), r.length = Edge(f, j + 1) - r.start,
           r.title = TitleBehind(f, j), r.handled <=> HeadTitled(f),
           r.pc = "mm" => j = Len(f.blocks) /\ ~r.mm,
           r.pc \in {"mm", "id3v1"} => ~r.lyr /\ ~r.ape,
           r.pc = "id3v1" => \A k \in DOMAIN f.blocks : k <= j /\ f.blocks[k].kind = "id3v1" => k = j,
           r.pc = "tails" => \A k \in DOMAIN f.blocks : k <= j => f.blocks[k].kind # "id3v1",
           r.mm => \E k \in DOMAIN f.blocks : k > j /\ f.blocks[k].kind = "mm",
           r.lyr => \E k \in DOMAIN f.blocks : k > j /\ f.blocks[k].kind \in {"lyrics1", "lyrics2"},
           r.ape => \E k \in DOMAIN f.blocks : k > j /\ k # 1 /\ f.blocks[k].kind = "ape",
           r.pc = "over" => j = The(f, "audio")
    PROVE  MpegAt(f, r)
  BY DEF MpegAt

\* What is left when the reader is behind the head.
LEMMA MpegComes ==
    ASSUME NEW f, NEW r, MpegAt(f, r), r.pc \notin {"tags", "head"}
    PROVE  \E j \in The(f, "audio") .. Len(f.blocks) :
         /\ r.start = MpegFrom(f, r.keep) /\ r.length = Edge(f, j + 1) - r.start
         /\ r.title = TitleBehind(f, j)
         /\ r.handled <=> HeadTitled(f)
         /\ r.pc = "mm" => j = Len(f.blocks) /\ ~r.mm
         /\ r.pc \in {"mm", "id3v1"} => ~r.lyr /\ ~r.ape
         /\ r.pc = "id3v1" => \A k \in DOMAIN f.blocks : k <= j /\ f.blocks[k].kind = "id3v1" => k = j
         /\ r.pc = "tails" => \A k \in DOMAIN f.blocks : k <= j => f.blocks[k].kind # "id3v1"
         /\ r.mm => \E k \in DOMAIN f.blocks : k > j /\ f.blocks[k].kind = "mm"
         /\ r.lyr => \E k \in DOMAIN f.blocks : k > j /\ f.blocks[k].kind \in {"lyrics1", "lyrics2"}
         /\ r.ape => \E k \in DOMAIN f.blocks : k > j /\ k # 1 /\ f.blocks[k].kind = "ape"
         /\ r.pc = "over" => j = The(f, "audio")
  BY DEF MpegAt

\* The file is as long as its audio at least.
LEMMA MpegLong ==
    ASSUME NEW f, Made(f), GoodMpeg(f)
    PROVE  /\ End(f) \in Nat /\ End(f) = Edge(f, Len(f.blocks) + 1) /\ f.origin \in Nat
           /\ f.origin + 24 <= End(f)
           /\ The(f, "audio") = 2 => /\ f.origin + Total(f.blocks[1]) = Edge(f, 2)
                                     /\ Total(f.blocks[1]) \in Nat
                                     /\ Edge(f, 2) + 24 <= End(f) /\ Edge(f, 2) \in Nat
<1> DEFINE a == The(f, "audio")
           n == Len(f.blocks)
<1>1. a \in 1 .. n /\ n \in Nat /\ f.origin \in Nat /\ f.lead \in Nat /\ f.cut = 0
      /\ Edge(f, 1) = f.origin
  BY MpegFacts, MadeBlocks
<1>2. End(f) \in Nat /\ End(f) = Edge(f, n + 1)
  BY <1>1, EndIn
<1>3. Edge(f, a) \in Nat /\ Edge(f, a) + 24 <= Edge(f, a + 1) /\ Edge(f, a + 1) \in Nat
  BY MpegFromIn
<1>4. a \in 1 .. n + 1 /\ n + 1 \in a + 1 .. n + 1 /\ a \in Nat \ {0}
  BY <1>1
<1>5. Edge(f, a) >= f.origin
  <2>1. Edge(f, a) >= f.origin + f.lead
    BY <1>4, EdgeIn
  <2> QED
    BY <1>1, <1>3, <2>1
<1>6. Edge(f, a + 1) <= End(f)
  <2>1. Edge(f, a) + Total(f.blocks[a]) <= End(f)
    BY <1>1, EndIn
  <2>2. Edge(f, a + 1) = Edge(f, a) + Total(f.blocks[a])
    BY <1>4, EdgeNext
  <2> QED
    BY <2>1, <2>2
<1>7. f.origin + 24 <= End(f) /\ Edge(f, a) + 24 <= End(f)
  <2> DEFINE o == f.origin
             e == Edge(f, a)
             g == Edge(f, a + 1)
             z == End(f)
  <2>1. o \in Nat /\ e \in Nat /\ g \in Nat /\ z \in Nat /\ e >= o /\ e + 24 <= g /\ g <= z
    BY <1>1, <1>2, <1>3, <1>5, <1>6
  <2>2. o + 24 <= z /\ e + 24 <= z
    <3> HIDE DEF o, e, g, z
    <3> QED
      BY <2>1
  <2> QED
    BY <2>2
<1>8. CASE a = 2
  <2>1. 1 \in 1 .. n /\ 1 \in Nat \ {0}
    BY <1>1, <1>8
  <2>2. Edge(f, 1 + 1) = Edge(f, 1) + Total(f.blocks[1]) /\ 1 + 1 = 2
    BY <2>1, EdgeNext
  <2>3. Total(f.blocks[1]) \in Nat
    BY <2>1, MadeBlocks
  <2> QED
    BY <1>1, <1>2, <1>3, <1>7, <1>8, <2>2, <2>3
<1> QED
  BY <1>1, <1>2, <1>7, <1>8

\* mp3_read_tags begins.
LEMMA StepMpegTags ==
    ASSUME Made(file), GoodMpeg(file), rd \in TagRecord, MpegAt(file, rd), rd.pc = "tags", ReadTags
    PROVE  rd' \in TagRecord /\ rd'.keep = rd.keep /\ MpegAt(file, rd')
<1>1. rd.start = file.origin /\ rd.length = End(file) - file.origin /\ rd.title = ""
      /\ ~rd.handled /\ ~rd.mm /\ ~rd.lyr /\ ~rd.ape
  BY DEF MpegAt
<1>2. rd.length # 0
  <2> DEFINE o == file.origin
             z == End(file)
             l == rd.length
  <2>1. o \in Nat /\ z \in Nat /\ o + 24 <= z /\ l = z - o
    BY <1>1, MpegLong
  <2>2. l # 0
    <3> HIDE DEF o, z, l
    <3> QED
      BY <2>1
  <2> QED
    BY <2>2
<1>3. file.form # "RIFF"
  BY DEF GoodMpeg
<1>4. rd' = [rd EXCEPT !.pc = "head"]
  BY <1>2, <1>3 DEF ReadTags
<1>5. rd' \in TagRecord
  BY <1>4, Zenon DEF TagRecord, TagSteps
<1>6. /\ rd'.pc = "head" /\ rd'.keep = rd.keep /\ rd'.start = rd.start /\ rd'.length = rd.length
      /\ rd'.title = rd.title /\ rd'.handled = rd.handled /\ rd'.mm = rd.mm /\ rd'.lyr = rd.lyr
      /\ rd'.ape = rd.ape
  BY <1>4 DEF TagRecord
<1>7. MpegAt(file, rd')
  BY <1>1, <1>6 DEF MpegAt
<1> QED
  BY <1>5, <1>6, <1>7

\* Nothing is behind the end.
LEMMA TitleAtEnd ==
    ASSUME NEW f, Made(f)
    PROVE  TitleBehind(f, Len(f.blocks)) = IF HeadTitled(f) THEN f.blocks[1].kind ELSE ""
<1>1. DOMAIN f.blocks = 1 .. Len(f.blocks) /\ Len(f.blocks) \in Nat
  BY MadeBlocks
<1>2. ~ApeBehind(f, Len(f.blocks)) /\ ~Id3v1Behind(f, Len(f.blocks))
  BY <1>1 DEF ApeBehind, Id3v1Behind
<1> QED
  BY <1>2 DEF TitleBehind

\* Arithmetic of a stretch.
LEMMA RestOf ==
    ASSUME NEW s \in Nat, NEW l \in Int, NEW e, s + l = e
    PROVE  l = e - s
  OBVIOUS

\* The last number of an interval.
LEMMA LastOf == ASSUME NEW n \in Nat, NEW a \in 1 .. n PROVE n \in a .. n
  OBVIOUS

\* The reader is behind the head: all the tags at the end are left.
LEMMA MpegHeaded ==
    ASSUME Made(file), GoodMpeg(file), NEW r, r.pc = "mm", NEW keep, r.keep = keep,
           r.start = MpegFrom(file, keep), r.start + r.length = End(file), r.length \in Int,
           r.title = IF HeadTitled(file) THEN file.blocks[1].kind ELSE "",
           r.handled <=> HeadTitled(file), ~r.mm, ~r.lyr, ~r.ape
    PROVE  MpegAt(file, r)
<1> DEFINE n == Len(file.blocks)
<1>0. The(file, "audio") \in 1 .. n /\ n \in Nat
  BY MpegFacts
<1>1. n \in The(file, "audio") .. n
  BY <1>0, LastOf, Zenon
<1>2. r.title = TitleBehind(file, n)
  BY TitleAtEnd
<1>3. r.length = Edge(file, n + 1) - r.start
  <2>1. r.start \in Nat /\ Edge(file, n + 1) \in Nat /\ r.length \in Int
        /\ r.start + r.length = Edge(file, n + 1)
    BY MpegLong, MpegFromIn
  <2> QED
    BY <2>1, RestOf, Zenon
<1>4. r.pc \in {"mm", "id3v1", "tails", "over"} /\ r.pc # "id3v1" /\ r.pc # "tails" /\ r.pc # "over"
  OBVIOUS
<1>5. r.start = MpegFrom(file, r.keep)
  OBVIOUS
<1> QED
  BY <1>1, <1>2, <1>3, <1>4, <1>5, MpegGoes, Zenon

\* The tag in front is kept or cut off.
LEMMA StepMpegHead ==
    ASSUME Made(file), GoodMpeg(file), rd \in TagRecord, MpegAt(file, rd), rd.pc = "head", HeadTag
    PROVE  rd' \in TagRecord /\ rd'.keep = rd.keep /\ MpegAt(file, rd')
<1> DEFINE a == The(file, "audio")
           n == Len(file.blocks)
           b == file.blocks[1]
<1>1. rd.start = file.origin /\ rd.length = End(file) - file.origin /\ rd.title = ""
      /\ ~rd.handled /\ ~rd.mm /\ ~rd.lyr /\ ~rd.ape
  BY DEF MpegAt
<1>2. a \in 1 .. n /\ a \in {1, 2} /\ n \in Nat /\ Edge(file, 1) = file.origin
      /\ file.cut = 0 /\ file.origin \in Nat
      /\ (b.kind = "audio" <=> a = 1) /\ (a = 2 => b.kind \in {"id3v2", "ape"} /\ b.x # "headless")
  <2>1. 1 \in 1 .. n
    BY MpegFacts
  <2> QED
    BY <2>1, MpegFacts
<1>3. At(rd.start) = b
  <2>1. 1 \in 1 .. n
    BY <1>2
  <2>2. BlockAt(file, Edge(file, 1)) = b
    BY <1>2, <2>1, AtEdge
  <2> QED
    BY <1>1, <1>2, <2>2, Here
<1>4. /\ End(file) \in Nat /\ file.origin + 24 <= End(file)
      /\ a = 2 => /\ file.origin + Total(b) = Edge(file, 2) /\ Total(b) \in Nat
                  /\ Edge(file, 2) + 24 <= End(file) /\ Edge(file, 2) \in Nat
  BY MpegLong
<1> HIDE DEF b
<1> DEFINE front == b.kind = "id3v2" \/ (b.kind = "ape" /\ b.x # "headless")
           t == [rd EXCEPT !.pc = "mm"]
           r == [rd EXCEPT !.pc = "mm", !.title = b.kind, !.handled = TRUE]
<1>5. IF front /\ Total(b) >= rd.length THEN Refused
      ELSE rd' = IF ~front THEN t
                 ELSE LET s == IF b.x = "ok" THEN r ELSE t
                      IN  IF b.kind = "id3v2" /\ rd.keep THEN s ELSE Fronted(s, b)
  BY <1>3, Zenon DEF HeadTag
<1>6. t \in TagRecord /\ t.pc = "mm" /\ t.keep = rd.keep /\ t.start = rd.start
      /\ t.length = rd.length /\ t.title = "" /\ ~t.handled /\ ~t.mm /\ ~t.lyr /\ ~t.ape
  <2>1. t \in TagRecord
    BY Zenon DEF TagRecord, TagSteps
  <2>2. t.pc = "mm" /\ t.keep = rd.keep /\ t.start = rd.start /\ t.length = rd.length
        /\ t.title = rd.title /\ t.handled = rd.handled /\ t.mm = rd.mm /\ t.lyr = rd.lyr
        /\ t.ape = rd.ape
    BY DEF TagRecord
  <2> QED
    BY <1>1, <2>1, <2>2, Zenon
<1>7. rd.start + rd.length = End(file) /\ rd.length \in Int /\ rd.length \in Nat
  <2> DEFINE o == file.origin
             z == End(file)
  <2>1. o \in Nat /\ z \in Nat /\ o + 24 <= z
    BY <1>2, <1>4
  <2>2. o + (z - o) = z /\ z - o \in Int /\ z - o \in Nat
    <3> HIDE DEF o, z
    <3> QED
      BY <2>1
  <2> QED
    BY <1>1, <2>2, Zenon
<1>8. CASE a = 1
  <2>1. ~front
    BY <1>2, <1>8
  <2>2. rd' = t
    BY <1>5, <2>1
  <2>3. ~HeadTitled(file)
    BY <1>2, <1>8 DEF HeadTitled, b
  <2>4. MpegFrom(file, rd.keep) = file.origin
    BY <1>2, <1>8 DEF MpegFrom, b
  <2>5. t.start = MpegFrom(file, rd.keep) /\ t.start + t.length = End(file) /\ t.length \in Int
    BY <1>1, <1>6, <1>7, <2>4, Zenon
  <2>6. t.title = (IF HeadTitled(file) THEN file.blocks[1].kind ELSE "") /\ (t.handled <=> HeadTitled(file))
    BY <1>6, <2>3, Zenon
  <2> HIDE DEF t
  <2>7. MpegAt(file, t)
    BY <1>6, <2>5, <2>6, MpegHeaded, Zenon
  <2> QED
    BY <1>6, <2>2, <2>7
<1>9. CASE a = 2
  <2>1. front /\ ~(Total(b) >= rd.length)
    <3>1. front
      BY <1>2, <1>9 DEF b
    <3> DEFINE o == file.origin
               z == End(file)
               k == Total(b)
               e == Edge(file, 2)
               l == rd.length
    <3>2. o \in Nat /\ z \in Nat /\ k \in Nat /\ o + k = e /\ e + 24 <= z /\ l = z - o
      BY <1>1, <1>2, <1>4, <1>9
    <3>3. ~(k >= l)
      <4> HIDE DEF o, z, k, e, l
      <4> QED
        BY <3>2
    <3> QED
      BY <3>1, <3>3
  <2> DEFINE s == IF b.x = "ok" THEN r ELSE t
  <2>2. rd' = IF b.kind = "id3v2" /\ rd.keep THEN s ELSE Fronted(s, b)
    BY <1>5, <2>1
  <2>3. HeadTitled(file) <=> b.x = "ok"
    BY <1>2, <1>9 DEF HeadTitled, b
  <2>4. b.kind \in {"", "id3v2", "ape", "id3v1"}
    BY <1>2, <1>9
  <2>5. r \in TagRecord /\ r.pc = "mm" /\ r.keep = rd.keep /\ r.start = rd.start
        /\ r.length = rd.length /\ r.title = b.kind /\ r.handled /\ ~r.mm /\ ~r.lyr /\ ~r.ape
    <3>1. r \in TagRecord
      BY <2>4, Zenon DEF TagRecord, TagSteps
    <3>2. r.pc = "mm" /\ r.keep = rd.keep /\ r.start = rd.start /\ r.length = rd.length
          /\ r.title = b.kind /\ r.handled = TRUE /\ r.mm = rd.mm /\ r.lyr = rd.lyr /\ r.ape = rd.ape
      BY DEF TagRecord
    <3> QED
      BY <1>1, <3>1, <3>2, Zenon
  <2> HIDE DEF r, t
  <2>6. s \in TagRecord /\ s.pc = "mm" /\ s.keep = rd.keep /\ s.start = rd.start
        /\ s.length = rd.length /\ (s.title = IF HeadTitled(file) THEN file.blocks[1].kind ELSE "")
        /\ (s.handled <=> HeadTitled(file)) /\ ~s.mm /\ ~s.lyr /\ ~s.ape
    <3>1. CASE b.x = "ok"
      <4>1. s = r
        BY <3>1
      <4>2. HeadTitled(file)
        BY <2>3, <3>1
      <4> HIDE DEF s
      <4> QED
        BY <2>5, <4>1, <4>2, Zenon DEF b
    <3>2. CASE b.x # "ok"
      <4>1. s = t
        BY <3>2
      <4>2. ~HeadTitled(file)
        BY <2>3, <3>2
      <4> HIDE DEF s
      <4> QED
        BY <1>6, <4>1, <4>2, Zenon
    <3> QED
      BY <3>1, <3>2, Zenon
  <2> HIDE DEF s
  <2>7. CASE b.kind = "id3v2" /\ rd.keep
    <3>1. MpegFrom(file, rd.keep) = file.origin
      BY <2>7 DEF MpegFrom, b
    <3>2. s.start = MpegFrom(file, rd.keep) /\ s.start + s.length = End(file) /\ s.length \in Int
      BY <1>1, <1>7, <2>6, <3>1, Zenon
    <3>3. MpegAt(file, s)
      BY <2>6, <3>2, MpegHeaded, Zenon
    <3> QED
      BY <2>2, <2>6, <2>7, <3>3
  <2>8. CASE ~(b.kind = "id3v2" /\ rd.keep)
    <3> DEFINE u == [s EXCEPT !.start = Edge(file, 2), !.length = End(file) - Edge(file, 2)]
    <3>1. MpegFrom(file, rd.keep) = Edge(file, 2)
      BY <1>9, <2>8 DEF MpegFrom, b
    <3>2. Fronted(s, b) = u
      <4>1. Fronted(s, b) = [s EXCEPT !.start = s.start + Total(b), !.length = s.length - Total(b)]
        BY Zenon DEF Fronted
      <4> DEFINE o == file.origin
                 z == End(file)
                 k == Total(b)
                 e == Edge(file, 2)
                 l == s.length
                 g == s.start
      <4>2. o \in Nat /\ z \in Nat /\ k \in Nat /\ o + k = e /\ e + 24 <= z /\ l = z - o /\ g = o
        BY <1>1, <1>2, <1>4, <1>9, <2>6
      <4>3. g + k = e /\ l - k = z - e
        <5> HIDE DEF o, z, k, e, l, g
        <5> QED
          BY <4>2
      <4> QED
        BY <4>1, <4>3, Zenon
    <3>3. Edge(file, 2) \in Nat /\ End(file) - Edge(file, 2) \in Int
          /\ Edge(file, 2) + (End(file) - Edge(file, 2)) = End(file)
      BY <1>4, <1>9
    <3>4. u \in TagRecord
      BY <2>6, <3>3, Zenon DEF TagRecord
    <3>5. u.pc = s.pc /\ u.keep = s.keep /\ u.start = Edge(file, 2)
          /\ u.length = End(file) - Edge(file, 2) /\ u.title = s.title /\ u.handled = s.handled
          /\ u.mm = s.mm /\ u.lyr = s.lyr /\ u.ape = s.ape
      BY <2>6 DEF TagRecord
    <3> HIDE DEF u
    <3>6. u.start = MpegFrom(file, rd.keep) /\ u.start + u.length = End(file) /\ u.length \in Int
      BY <3>1, <3>3, <3>5, Zenon
    <3>7. u.pc = "mm" /\ u.keep = rd.keep
          /\ (u.title = IF HeadTitled(file) THEN file.blocks[1].kind ELSE "")
          /\ (u.handled <=> HeadTitled(file)) /\ ~u.mm /\ ~u.lyr /\ ~u.ape
      BY <2>6, <3>5, Zenon
    <3>8. MpegAt(file, u)
      BY <3>6, <3>7, MpegHeaded, Zenon
    <3>9. rd' = u
      BY <2>2, <2>8, <3>2, Zenon
    <3> QED
      BY <3>4, <3>7, <3>8, <3>9, Zenon
  <2> QED
    BY <2>7, <2>8
<1> QED
  BY <1>2, <1>8, <1>9

\* What a writer does not put behind the audio.
LEMMA MpegApart ==
    ASSUME NEW f, Made(f), GoodMpeg(f)
    PROVE  /\ \A k \in 1 .. Len(f.blocks) :
                /\ f.blocks[k].x # "broken"
                /\ f.blocks[k].x = "headless" => f.blocks[k - 1].kind = "audio"
           /\ \A j, k \in 1 .. Len(f.blocks) :
                /\ f.blocks[k].kind = "id3v1" /\ j > k => f.blocks[j].kind = "mm"
                /\ f.blocks[j].kind = "mm" /\ f.blocks[k].kind = "mm" => j = k
                /\ f.blocks[j].kind \in {"lyrics1", "lyrics2"} /\ f.blocks[k].kind \in {"lyrics1", "lyrics2"}
                   => j = k
                /\ f.blocks[j].kind = "ape" /\ f.blocks[k].kind = "ape" /\ j # 1 /\ k # 1 => j = k
<1>1. DOMAIN f.blocks = 1 .. Len(f.blocks)
  BY MadeBlocks
<1>2. \A k \in 1 .. Len(f.blocks) :
                /\ f.blocks[k].x # "broken"
                /\ f.blocks[k].x = "headless" => f.blocks[k - 1].kind = "audio"
  BY <1>1 DEF GoodMpeg
<1>3. \A j, k \in 1 .. Len(f.blocks) :
         f.blocks[k].kind = "id3v1" /\ j > k => f.blocks[j].kind = "mm"
  BY <1>1 DEF GoodMpeg
<1>4. \A j, k \in 1 .. Len(f.blocks) :
                  \/ f.blocks[j].kind = f.blocks[k].kind /\ f.blocks[k].kind \in {"id3v1", "mm"}
                  \/ {f.blocks[j].kind, f.blocks[k].kind} \subseteq {"lyrics1", "lyrics2"}
                  \/ f.blocks[j].kind = "ape" /\ f.blocks[k].kind = "ape" /\ j # 1 /\ k # 1
                  => j = k
  BY <1>1 DEF GoodMpeg
<1> QED
  BY <1>2, <1>3, <1>4

\* The title of a stretch without its last tag.
LEMMA TitleWithout ==
    ASSUME NEW f, Made(f), NEW j \in 2 .. Len(f.blocks)
    PROVE  /\ ~(f.blocks[j].kind = "ape" /\ f.blocks[j].x = "ok") /\ f.blocks[j].kind # "id3v1"
              => TitleBehind(f, j - 1) = TitleBehind(f, j)
           /\ HeadTitled(f) => TitleBehind(f, j - 1) = TitleBehind(f, j)
           /\ ~HeadTitled(f) /\ f.blocks[j].kind = "ape" /\ f.blocks[j].x = "ok"
              => TitleBehind(f, j - 1) = "ape"
           /\ ~HeadTitled(f) /\ f.blocks[j].kind = "id3v1" /\ ~ApeBehind(f, j)
              => TitleBehind(f, j - 1) = "id3v1"
  BY TitleBefore DEF TitleBehind

\* probe_mmtag: MusicMatch is the last, or there is none at the end.
LEMMA StepMpegMm ==
    ASSUME Made(file), GoodMpeg(file), rd \in TagRecord, MpegAt(file, rd), rd.pc = "mm", FirstMm
    PROVE  rd' \in TagRecord /\ rd'.keep = rd.keep /\ MpegAt(file, rd')
<1> DEFINE a == The(file, "audio")
           n == Len(file.blocks)
           b == file.blocks[n]
<1>1. /\ n \in a .. n
      /\ rd.start = MpegFrom(file, rd.keep) /\ rd.length = Edge(file, n + 1) - rd.start
      /\ rd.title = TitleBehind(file, n) /\ (rd.handled <=> HeadTitled(file)) /\ ~rd.mm
      /\ ~rd.lyr /\ ~rd.ape
  BY MpegComes
<1>2. /\ n \in 1 .. n /\ Hind(rd) = b /\ rd.length \in Nat /\ rd.start \in Nat
      /\ n # a =>
           /\ n - 1 \in a .. n /\ n \in 2 .. n
           /\ rd.length - Total(b) \in Int
           /\ rd.length - Total(b) = Edge(file, (n - 1) + 1) - rd.start
           /\ Total(b) \in Nat /\ Total(b) < rd.length
  BY <1>1, HindHere
<1>3. a \in 1 .. n /\ n \in Nat /\ DOMAIN file.blocks = 1 .. n /\ (b.kind = "audio" <=> n = a)
      /\ (n > a /\ b.kind = "mm" => Total(b) >= 68) /\ b.x # "broken"
  <2>1. n \in 1 .. n
    BY <1>2
  <2>2. b.x # "broken"
    BY <2>1, MpegApart
  <2> QED
    BY <2>1, <2>2, MpegFacts
<1>4. \A j, k \in 1 .. n :
         /\ file.blocks[k].kind = "id3v1" /\ j > k => file.blocks[j].kind = "mm"
         /\ file.blocks[j].kind = "mm" /\ file.blocks[k].kind = "mm" => j = k
  BY MpegApart
<1>5. CASE b.kind = "mm"
  <2> DEFINE d == Dropped(rd, b)
             r == [d EXCEPT !.pc = "id3v1", !.mm = TRUE]
             m == n - 1
  <2>1. n # a /\ n > a
    BY <1>3, <1>5
  <2>2. rd.length >= 68 /\ ~(Total(b) >= rd.length)
    <3> DEFINE t == Total(b)
               l == rd.length
    <3>1. t >= 68 /\ t \in Nat /\ l \in Nat /\ t < l
      BY <1>2, <1>3, <1>5, <2>1
    <3>2. l >= 68 /\ ~(t >= l)
      <4> HIDE DEF t, l
      <4> QED
        BY <3>1
    <3> QED
      BY <3>2
  <2>3. MmTag(rd) /\ ~Invalid(rd, Hind(rd))
    BY <1>2, <1>3, <1>5, <2>2 DEF MmTag, Invalid
  <2>4. rd' = r
    BY <1>2, <2>3, Zenon DEF FirstMm
  <2>5. d \in TagRecord /\ d.length = rd.length - Total(b) /\ d.start = rd.start /\ d.keep = rd.keep
        /\ d.title = rd.title /\ d.handled = rd.handled /\ d.lyr = rd.lyr /\ d.ape = rd.ape
    BY <1>2, <2>1, Dropping
  <2> HIDE DEF d
  <2>6. r \in TagRecord
    BY <2>5, Zenon DEF TagRecord, TagSteps
  <2>7. r.pc = "id3v1" /\ r.mm = TRUE /\ r.length = d.length /\ r.start = d.start /\ r.keep = d.keep
        /\ r.title = d.title /\ r.handled = d.handled /\ r.lyr = d.lyr /\ r.ape = d.ape
    BY <2>5 DEF TagRecord
  <2> HIDE DEF r
  <2>8. m \in a .. n /\ m = n - 1 /\ m + 1 = n /\ n > m
    BY <1>2, <1>3, <2>1
  <2>9. TitleBehind(file, m) = TitleBehind(file, n)
    BY <1>2, <1>5, <2>1, TitleWithout
  <2>10. \A k \in DOMAIN file.blocks : k <= m /\ file.blocks[k].kind = "id3v1" => k = m
    <3>1. ASSUME NEW k \in 1 .. n, k <= m, file.blocks[k].kind = "id3v1", k # m PROVE FALSE
      <4>1. m \in 1 .. n /\ m > k /\ m # n
        BY <1>3, <2>8, <3>1
      <4>2. file.blocks[m].kind = "mm"
        BY <1>4, <3>1, <4>1
      <4> QED
        BY <1>2, <1>4, <1>5, <4>1, <4>2
    <3> QED
      BY <1>3, <3>1
  <2>11. \E k \in DOMAIN file.blocks : k > m /\ file.blocks[k].kind = "mm"
    BY <1>2, <1>3, <1>5, <2>8
  <2>12. r.length = Edge(file, m + 1) - r.start /\ r.start = MpegFrom(file, r.keep)
         /\ r.title = TitleBehind(file, m) /\ (r.handled <=> HeadTitled(file)) /\ ~r.lyr /\ ~r.ape
    BY <1>1, <1>2, <2>1, <2>5, <2>7, <2>9, Zenon
  <2>13. r.pc \in {"mm", "id3v1", "tails", "over"} /\ r.pc # "mm" /\ r.pc # "tails" /\ r.pc # "over"
    BY <2>7
  <2> HIDE DEF m
  <2>14. MpegAt(file, r)
    BY <2>8, <2>10, <2>11, <2>12, <2>13, MpegGoes, Zenon
  <2> QED
    BY <2>4, <2>5, <2>6, <2>7, <2>14, Zenon
<1>6. CASE b.kind # "mm"
  <2> DEFINE r == [rd EXCEPT !.pc = "id3v1"]
  <2>1. ~MmTag(rd)
    BY <1>2, <1>6 DEF MmTag
  <2>2. rd' = r
    BY <2>1, Zenon DEF FirstMm
  <2>3. r \in TagRecord
    BY Zenon DEF TagRecord, TagSteps
  <2>4. r.pc = "id3v1" /\ r.mm = rd.mm /\ r.length = rd.length /\ r.start = rd.start /\ r.keep = rd.keep
        /\ r.title = rd.title /\ r.handled = rd.handled /\ r.lyr = rd.lyr /\ r.ape = rd.ape
    BY DEF TagRecord
  <2> HIDE DEF r
  <2>5. \A k \in DOMAIN file.blocks : k <= n /\ file.blocks[k].kind = "id3v1" => k = n
    <3>1. ASSUME NEW k \in 1 .. n, k <= n, file.blocks[k].kind = "id3v1", k # n PROVE FALSE
      <4>1. n > k
        BY <1>3, <3>1
      <4> QED
        BY <1>2, <1>4, <1>6, <3>1, <4>1
    <3> QED
      BY <1>3, <3>1
  <2>6. r.length = Edge(file, n + 1) - r.start /\ r.start = MpegFrom(file, r.keep)
         /\ r.title = TitleBehind(file, n) /\ (r.handled <=> HeadTitled(file)) /\ ~r.lyr /\ ~r.ape /\ ~r.mm
    BY <1>1, <2>4, Zenon
  <2>7. r.pc \in {"mm", "id3v1", "tails", "over"} /\ r.pc # "mm" /\ r.pc # "tails" /\ r.pc # "over"
    BY <2>4
  <2>8. MpegAt(file, r)
    BY <1>1, <2>5, <2>6, <2>7, MpegGoes, Zenon
  <2> QED
    BY <2>2, <2>3, <2>4, <2>8, Zenon
<1> QED
  BY <1>5, <1>6

\* probe_id3v1: what it takes away is the only one.
LEMMA StepMpegId3v1 ==
    ASSUME Made(file), GoodMpeg(file), rd \in TagRecord, MpegAt(file, rd), rd.pc = "id3v1", Id3v1
    PROVE  rd' \in TagRecord /\ rd'.keep = rd.keep /\ MpegAt(file, rd')
<1> DEFINE a == The(file, "audio")
           n == Len(file.blocks)
<1>1. PICK j \in a .. n :
         /\ rd.start = MpegFrom(file, rd.keep) /\ rd.length = Edge(file, j + 1) - rd.start
         /\ rd.title = TitleBehind(file, j) /\ (rd.handled <=> HeadTitled(file))
         /\ ~rd.lyr /\ ~rd.ape
         /\ \A k \in DOMAIN file.blocks : k <= j /\ file.blocks[k].kind = "id3v1" => k = j
         /\ rd.mm => \E k \in DOMAIN file.blocks : k > j /\ file.blocks[k].kind = "mm"
  BY MpegComes
<1> DEFINE b == file.blocks[j]
<1>2. /\ j \in 1 .. n /\ Hind(rd) = b /\ rd.length \in Nat /\ rd.start \in Nat
      /\ j # a =>
           /\ j - 1 \in a .. n /\ j \in 2 .. n
           /\ rd.length - Total(b) \in Int
           /\ rd.length - Total(b) = Edge(file, (j - 1) + 1) - rd.start
           /\ Total(b) \in Nat /\ Total(b) < rd.length
  BY <1>1, HindHere
<1>3. a \in 1 .. n /\ n \in Nat /\ DOMAIN file.blocks = 1 .. n /\ (b.kind = "audio" <=> j = a)
      /\ (j > a /\ b.kind = "id3v1" => Total(b) >= 128)
  BY <1>2, MpegFacts
<1>4. \A i, k \in 1 .. n : file.blocks[k].kind = "id3v1" /\ i > k => file.blocks[i].kind = "mm"
  BY MpegApart
<1>5. CASE b.kind = "id3v1"
  <2> DEFINE d == Dropped([rd EXCEPT !.pc = "tails"], b)
             t == [rd EXCEPT !.pc = "tails"]
             r == [d EXCEPT !.title = IF rd.handled THEN @ ELSE "id3v1"]
             m == j - 1
  <2>1. j # a /\ j > a
    BY <1>1, <1>3, <1>5
  <2>2. rd.length >= 128
    <3> DEFINE e == Total(b)
               l == rd.length
    <3>1. e >= 128 /\ e \in Nat /\ l \in Nat /\ e < l
      BY <1>2, <1>3, <1>5, <2>1
    <3>2. l >= 128
      <4> HIDE DEF e, l
      <4> QED
        BY <3>1
    <3> QED
      BY <3>2
  <2>3. rd' = r
    BY <1>2, <1>5, <2>2, Zenon DEF Id3v1
  <2>4. t \in TagRecord /\ t.pc = "tails" /\ t.length = rd.length /\ t.start = rd.start
        /\ t.keep = rd.keep /\ t.title = rd.title /\ t.handled = rd.handled /\ t.mm = rd.mm
        /\ t.lyr = rd.lyr /\ t.ape = rd.ape
    <3>1. t \in TagRecord
      BY Zenon DEF TagRecord, TagSteps
    <3> QED
      BY <3>1 DEF TagRecord
  <2>a. d = Dropped(t, b)
    OBVIOUS
  <2> HIDE DEF t
  <2>5. d \in TagRecord /\ d.pc = "tails" /\ d.length = rd.length - Total(b) /\ d.start = rd.start
        /\ d.keep = rd.keep /\ d.title = rd.title /\ d.handled = rd.handled /\ d.mm = rd.mm
        /\ d.lyr = rd.lyr /\ d.ape = rd.ape
    <3>1. t.length - Total(b) \in Int
      BY <1>2, <2>1, <2>4
    <3> HIDE DEF d
    <3> QED
      BY <2>4, <2>a, <3>1, Dropping
  <2> HIDE DEF d
  <2>6. TitleBehind(file, m) = IF rd.handled THEN rd.title ELSE "id3v1"
    <3>1. ~ApeBehind(file, j)
      <4>1. \A k \in 1 .. n : k > j => file.blocks[k].kind = "mm"
        BY <1>2, <1>4, <1>5
      <4> QED
        BY <1>3, <4>1 DEF ApeBehind
    <3>2. j \in 2 .. n
      BY <1>2, <2>1
    <3>3. HeadTitled(file) => TitleBehind(file, m) = TitleBehind(file, j)
      BY <3>2, TitleWithout
    <3>4. ~HeadTitled(file) => TitleBehind(file, m) = "id3v1"
      BY <1>5, <3>1, <3>2, TitleWithout
    <3> QED
      BY <1>1, <3>3, <3>4
  <2>7. r = [d EXCEPT !.title = TitleBehind(file, m)]
    BY <2>5, <2>6, Zenon
  <2>8. TitleBehind(file, m) \in {"", "id3v2", "ape", "id3v1"}
    BY <2>6 DEF TagRecord
  <2>9. r \in TagRecord
    BY <2>5, <2>7, <2>8, Zenon DEF TagRecord
  <2>10. r.pc = d.pc /\ r.length = d.length /\ r.start = d.start /\ r.keep = d.keep
        /\ r.title = TitleBehind(file, m) /\ r.handled = d.handled /\ r.lyr = d.lyr /\ r.ape = d.ape
        /\ r.mm = d.mm
    BY <2>5, <2>7 DEF TagRecord
  <2> HIDE DEF r
  <2>11. m \in a .. n /\ m = j - 1 /\ m + 1 = j /\ j > m
    BY <1>2, <1>3, <2>1
  <2>12. \A k \in DOMAIN file.blocks : k <= m => file.blocks[k].kind # "id3v1"
    BY <1>1, <1>2, <1>3, <2>11, SMTT(60)
  <2>13. rd.mm => \E k \in DOMAIN file.blocks : k > m /\ file.blocks[k].kind = "mm"
    BY <1>1, <1>2, <1>3, <2>11
  <2>14. r.length = Edge(file, m + 1) - r.start /\ r.start = MpegFrom(file, r.keep)
         /\ r.title = TitleBehind(file, m) /\ (r.handled <=> HeadTitled(file)) /\ ~r.lyr /\ ~r.ape
         /\ (r.mm => \E k \in DOMAIN file.blocks : k > m /\ file.blocks[k].kind = "mm")
    BY <1>1, <1>2, <2>1, <2>5, <2>10, <2>13, Zenon
  <2>15. r.pc \in {"mm", "id3v1", "tails", "over"} /\ r.pc # "mm" /\ r.pc # "id3v1" /\ r.pc # "over"
    BY <2>5, <2>10
  <2> HIDE DEF m
  <2>16. MpegAt(file, r)
    BY <2>11, <2>12, <2>14, <2>15, MpegGoes, Zenon
  <2> QED
    BY <2>3, <2>5, <2>9, <2>10, <2>16, Zenon
<1>6. CASE b.kind # "id3v1"
  <2> DEFINE r == [rd EXCEPT !.pc = "tails"]
  <2>1. rd' = r
    BY <1>2, <1>6, Zenon DEF Id3v1
  <2>2. r \in TagRecord
    BY Zenon DEF TagRecord, TagSteps
  <2>3. r.pc = "tails" /\ r.mm = rd.mm /\ r.length = rd.length /\ r.start = rd.start /\ r.keep = rd.keep
        /\ r.title = rd.title /\ r.handled = rd.handled /\ r.lyr = rd.lyr /\ r.ape = rd.ape
    BY DEF TagRecord
  <2> HIDE DEF r
  <2>4. \A k \in DOMAIN file.blocks : k <= j => file.blocks[k].kind # "id3v1"
    BY <1>1, <1>6
  <2>5. r.length = Edge(file, j + 1) - r.start /\ r.start = MpegFrom(file, r.keep)
         /\ r.title = TitleBehind(file, j) /\ (r.handled <=> HeadTitled(file)) /\ ~r.lyr /\ ~r.ape
         /\ (r.mm => \E k \in DOMAIN file.blocks : k > j /\ file.blocks[k].kind = "mm")
    BY <1>1, <2>3, Zenon
  <2>6. r.pc \in {"mm", "id3v1", "tails", "over"} /\ r.pc # "mm" /\ r.pc # "id3v1" /\ r.pc # "over"
    BY <2>3
  <2>7. MpegAt(file, r)
    BY <1>1, <2>4, <2>5, <2>6, MpegGoes, Zenon
  <2> QED
    BY <2>1, <2>2, <2>3, <2>7, Zenon
<1> QED
  BY <1>5, <1>6

\* The last tag is dropped in the loop.
LEMMA MpegLess ==
    ASSUME Made(file), GoodMpeg(file), rd \in TagRecord, NEW j \in The(file, "audio") .. Len(file.blocks),
           j # The(file, "audio"), rd.start = MpegFrom(file, rd.keep),
           rd.length = Edge(file, j + 1) - rd.start, rd.handled <=> HeadTitled(file),
           \A k \in DOMAIN file.blocks : k <= j => file.blocks[k].kind # "id3v1",
           rd.mm => \E k \in DOMAIN file.blocks : k > j /\ file.blocks[k].kind = "mm",
           rd.lyr => \E k \in DOMAIN file.blocks : k > j /\ file.blocks[k].kind \in {"lyrics1", "lyrics2"},
           rd.ape => \E k \in DOMAIN file.blocks : k > j /\ k # 1 /\ file.blocks[k].kind = "ape",
           NEW r, r \in TagRecord, r.pc \in {"tails", "over"}, r.keep = rd.keep, r.start = rd.start,
           r.length = rd.length - Total(file.blocks[j]), r.title = TitleBehind(file, j - 1),
           r.handled <=> rd.handled, r.mm <=> rd.mm \/ file.blocks[j].kind = "mm",
           r.lyr <=> rd.lyr \/ file.blocks[j].kind \in {"lyrics1", "lyrics2"},
           r.ape <=> rd.ape \/ file.blocks[j].kind = "ape",
           r.pc = "over" => j - 1 = The(file, "audio")
    PROVE  MpegAt(file, r)
<1> DEFINE a == The(file, "audio")
           n == Len(file.blocks)
           m == j - 1
<1>1. /\ a \in 1 .. n /\ n \in Nat /\ DOMAIN file.blocks = 1 .. n
  BY MpegFacts
<1>2. j \in 1 .. n /\ m \in a .. n /\ j # 1
      /\ rd.length - Total(file.blocks[j]) = Edge(file, m + 1) - rd.start
  BY <1>1, HindHere
<1>3. j > m /\ \A k \in 1 .. n : (k <= m => k <= j) /\ (k > j => k > m)
  BY <1>1, <1>2
<1>4. r.length = Edge(file, m + 1) - r.start /\ r.start = MpegFrom(file, r.keep)
      /\ r.title = TitleBehind(file, m) /\ (r.handled <=> HeadTitled(file))
  BY <1>2, Zenon
<1>5. \A k \in DOMAIN file.blocks : k <= m => file.blocks[k].kind # "id3v1"
  BY <1>1, <1>3
<1> HIDE DEF m
<1>6. r.mm => \E k \in DOMAIN file.blocks : k > m /\ file.blocks[k].kind = "mm"
  <2>1. CASE file.blocks[j].kind = "mm"
    BY <1>1, <1>2, <1>3, <2>1
  <2>2. CASE rd.mm
    BY <1>1, <1>3, <2>2
  <2> QED
    BY <2>1, <2>2
<1>7. r.lyr => \E k \in DOMAIN file.blocks : k > m /\ file.blocks[k].kind \in {"lyrics1", "lyrics2"}
  <2>1. CASE file.blocks[j].kind \in {"lyrics1", "lyrics2"}
    BY <1>1, <1>2, <1>3, <2>1
  <2>2. CASE rd.lyr
    BY <1>1, <1>3, <2>2
  <2> QED
    BY <2>1, <2>2
<1>8. r.ape => \E k \in DOMAIN file.blocks : k > m /\ k # 1 /\ file.blocks[k].kind = "ape"
  <2>1. CASE file.blocks[j].kind = "ape"
    BY <1>1, <1>2, <1>3, <2>1
  <2>2. CASE rd.ape
    BY <1>1, <1>3, <2>2
  <2> QED
    BY <2>1, <2>2
<1>9. r.pc \in {"mm", "id3v1", "tails", "over"} /\ r.pc # "mm" /\ r.pc # "id3v1"
  OBVIOUS
<1>10. r.pc = "over" => m = a
  BY DEF m
<1> QED
  BY <1>2, <1>4, <1>5, <1>6, <1>7, <1>8, <1>9, <1>10, MpegGoes, Zenon

\* A round of the loop for Lyrics3, APE and MusicMatch tags: the tag at the end is taken
\* away, whichever it is, until the audio is at the end.
LEMMA StepMpegTails ==
    ASSUME Made(file), GoodMpeg(file), rd \in TagRecord, MpegAt(file, rd), rd.pc = "tails", Tails
    PROVE  rd' \in TagRecord /\ rd'.keep = rd.keep /\ MpegAt(file, rd')
<1> DEFINE a == The(file, "audio")
           n == Len(file.blocks)
<1>1. PICK j \in a .. n :
         /\ rd.start = MpegFrom(file, rd.keep) /\ rd.length = Edge(file, j + 1) - rd.start
         /\ rd.title = TitleBehind(file, j) /\ (rd.handled <=> HeadTitled(file))
         /\ \A k \in DOMAIN file.blocks : k <= j => file.blocks[k].kind # "id3v1"
         /\ rd.mm => \E k \in DOMAIN file.blocks : k > j /\ file.blocks[k].kind = "mm"
         /\ rd.lyr => \E k \in DOMAIN file.blocks : k > j /\ file.blocks[k].kind \in {"lyrics1", "lyrics2"}
         /\ rd.ape => \E k \in DOMAIN file.blocks : k > j /\ k # 1 /\ file.blocks[k].kind = "ape"
  BY MpegComes
<1> DEFINE b == file.blocks[j]
           r == Dropped(rd, b)
           ape == IF rd.handled THEN r ELSE [r EXCEPT !.title = "ape"]
<1>2. /\ j \in 1 .. n /\ Hind(rd) = b /\ rd.length \in Nat /\ rd.start \in Nat
      /\ j # a =>
           /\ j - 1 \in a .. n /\ j \in 2 .. n
           /\ rd.length - Total(b) \in Int
           /\ rd.length - Total(b) = Edge(file, (j - 1) + 1) - rd.start
           /\ Total(b) \in Nat /\ Total(b) < rd.length
  BY <1>1, HindHere
<1>3. a \in 1 .. n /\ n \in Nat /\ DOMAIN file.blocks = 1 .. n /\ (b.kind = "audio" <=> j = a)
      /\ (j > a => \/ b.kind = "mm" /\ Total(b) >= 68
                   \/ b.kind = "id3v1" /\ Total(b) >= 128
                   \/ b.kind = "ape" /\ Total(b) >= 32 /\ b.x \in {"ok", "headless"}
                   \/ b.kind \in {"lyrics1", "lyrics2"} /\ Total(b) >= 20)
  BY <1>2, MpegFacts
<1>4. b.kind # "id3v1" /\ b.x # "broken" /\ (b.x = "headless" => file.blocks[j - 1].kind = "audio")
  <2>1. j <= j
    BY <1>2, <1>3
  <2> QED
    BY <1>1, <1>2, <1>3, <2>1, MpegApart
<1>5. (CASE LyricsTag(rd) ->
                  IF LyricsInvalid(rd) THEN Refused
                  ELSE rd' = Again([r EXCEPT !.lyr = TRUE]) /\ UNCHANGED pos
             [] ~rd.mm /\ MmTag(rd) ->
                  IF Invalid(rd, b) THEN Refused
                  ELSE rd' = Again([r EXCEPT !.mm = TRUE]) /\ UNCHANGED pos
             [] ApeTag(rd) ->
                  IF Invalid(rd, b) THEN Refused
                  ELSE /\ rd' = IF b.x = "headless" THEN [r EXCEPT !.pc = "over"]
                                ELSE Again([ape EXCEPT !.ape = TRUE])
                       /\ UNCHANGED pos
             [] OTHER -> rd' = [rd EXCEPT !.pc = "over"] /\ UNCHANGED pos)
  BY <1>2, Zenon DEF Tails
<1> HIDE DEF b, r, ape
<1>6. CASE j = a
  <2> DEFINE s == [rd EXCEPT !.pc = "over"]
  <2>1. b.kind = "audio"
    BY <1>3, <1>6
  <2>2. ~LyricsTag(rd) /\ ~MmTag(rd) /\ ~ApeTag(rd)
    BY <1>2, <2>1 DEF LyricsTag, MmTag, ApeTag
  <2>3. rd' = s
    BY <1>5, <2>2, Zenon
  <2>4. s \in TagRecord
    BY Zenon DEF TagRecord, TagSteps
  <2>5. s.pc = "over" /\ s.mm = rd.mm /\ s.length = rd.length /\ s.start = rd.start /\ s.keep = rd.keep
        /\ s.title = rd.title /\ s.handled = rd.handled /\ s.lyr = rd.lyr /\ s.ape = rd.ape
    BY DEF TagRecord
  <2> HIDE DEF s
  <2>6. s.pc \in {"mm", "id3v1", "tails", "over"} /\ s.pc # "mm" /\ s.pc # "id3v1" /\ s.pc # "tails"
    BY <2>5
  <2>7. s.length = Edge(file, j + 1) - s.start /\ s.start = MpegFrom(file, s.keep)
        /\ s.title = TitleBehind(file, j) /\ (s.handled <=> HeadTitled(file))
        /\ (s.mm => \E k \in DOMAIN file.blocks : k > j /\ file.blocks[k].kind = "mm")
        /\ (s.lyr => \E k \in DOMAIN file.blocks : k > j /\ file.blocks[k].kind \in {"lyrics1", "lyrics2"})
        /\ (s.ape => \E k \in DOMAIN file.blocks : k > j /\ k # 1 /\ file.blocks[k].kind = "ape")
    BY <1>1, <2>5, Zenon
  <2>8. MpegAt(file, s)
    BY <1>1, <1>6, <2>6, <2>7, MpegGoes, Zenon
  <2> QED
    BY <2>3, <2>4, <2>5, <2>8, Zenon
<1>7. CASE j # a
  <2>1. j > a /\ j \in 2 .. n /\ j # 1 /\ rd.length - Total(b) \in Int /\ Total(b) \in Nat
        /\ Total(b) < rd.length
    <3>1. j > a
      BY <1>1, <1>3, <1>7
    <3> QED
      BY <1>2, <1>7, <3>1 DEF b
  <2>2. \/ b.kind = "mm" /\ Total(b) >= 68
        \/ b.kind = "ape" /\ Total(b) >= 32 /\ b.x \in {"ok", "headless"}
        \/ b.kind \in {"lyrics1", "lyrics2"} /\ Total(b) >= 20
    BY <1>3, <1>4, <2>1 DEF b
  <2>3. r \in TagRecord /\ r.pc = "tails" /\ r.length = rd.length - Total(b) /\ r.start = rd.start
        /\ r.keep = rd.keep /\ r.title = rd.title /\ r.handled = rd.handled /\ r.mm = rd.mm
        /\ r.lyr = rd.lyr /\ r.ape = rd.ape
    BY <2>1, Dropping DEF r
  <2>4. ~(Total(b) >= rd.length) /\ ~Invalid(rd, b)
    <3>1. ~(Total(b) >= rd.length)
      BY <1>2, <2>1
    <3> QED
      BY <1>4, <3>1 DEF Invalid, b
  <2>5. ~(b.kind = "ape" /\ b.x = "ok") => TitleBehind(file, j - 1) = rd.title
    BY <1>1, <1>4, <2>1, TitleWithout DEF b
  <2>a. b = file.blocks[j]
    BY DEF b
  <2>6. CASE b.kind = "mm" /\ Total(b) >= 68
    <3> DEFINE s == [r EXCEPT !.mm = TRUE]
    <3>1. ~rd.mm
      <4>1. ASSUME NEW k \in DOMAIN file.blocks, k > j, file.blocks[k].kind = "mm" PROVE FALSE
        <5>1. k = j
          BY <1>2, <1>3, <2>6, <4>1, MpegApart DEF b
        <5> QED
          BY <1>2, <1>3, <4>1, <5>1
      <4> QED
        BY <1>1, <4>1
    <3>2. MmTag(rd) /\ ~LyricsTag(rd) /\ ~ApeTag(rd)
      <4>1. rd.length >= 68
        BY <1>2, <2>1, <2>6
      <4> QED
        BY <1>2, <2>6, <4>1 DEF MmTag, LyricsTag, ApeTag, b
    <3>3. rd' = s
      BY <1>5, <2>4, <3>1, <3>2, Zenon DEF Again
    <3>4. s \in TagRecord
      BY <2>3, Zenon DEF TagRecord
    <3>5. s.pc = "tails" /\ s.mm = TRUE /\ s.length = r.length /\ s.start = r.start /\ s.keep = r.keep
          /\ s.title = r.title /\ s.handled = r.handled /\ s.lyr = r.lyr /\ s.ape = r.ape
      BY <2>3 DEF TagRecord
    <3> HIDE DEF s
    <3>6. s.title = TitleBehind(file, j - 1)
      BY <2>3, <2>5, <2>6, <3>5
    <3>7. b.kind \notin {"lyrics1", "lyrics2"} /\ b.kind # "ape" /\ s.pc # "over"
          /\ s.pc \in {"tails", "over"}
      BY <2>6, <3>5
    <3>9. (s.mm <=> rd.mm \/ file.blocks[j].kind = "mm")
          /\ (s.lyr <=> rd.lyr \/ file.blocks[j].kind \in {"lyrics1", "lyrics2"})
          /\ (s.ape <=> rd.ape \/ file.blocks[j].kind = "ape")
      BY <2>a, <2>3, <2>6, <3>5, <3>7, Zenon
    <3>10. s.length = rd.length - Total(file.blocks[j]) /\ s.start = rd.start /\ s.keep = rd.keep
           /\ (s.handled <=> rd.handled)
      BY <2>a, <2>3, <3>5, Zenon
    <3>8. MpegAt(file, s)
      BY <1>1, <1>7, <3>4, <3>6, <3>7, <3>9, <3>10, MpegLess, Zenon
    <3> QED
      BY <2>3, <3>3, <3>4, <3>5, <3>8, Zenon
  <2>7. CASE b.kind \in {"lyrics1", "lyrics2"} /\ Total(b) >= 20
    <3> DEFINE s == [r EXCEPT !.lyr = TRUE]
    <3>1. ~rd.lyr
      <4>1. ASSUME NEW k \in DOMAIN file.blocks, k > j, file.blocks[k].kind \in {"lyrics1", "lyrics2"}
            PROVE  FALSE
        <5>1. k = j
          BY <1>2, <1>3, <2>7, <4>1, MpegApart DEF b
        <5> QED
          BY <1>2, <1>3, <4>1, <5>1
      <4> QED
        BY <1>1, <4>1
    <3>2. LyricsTag(rd) /\ ~LyricsInvalid(rd) /\ ~MmTag(rd) /\ ~ApeTag(rd)
      <4>1. rd.length >= 15 /\ ~(rd.length < 20)
        BY <1>2, <2>1, <2>7
      <4>2. Hind(rd) = b
        BY <1>2 DEF b
      <4>3. LyricsTag(rd)
        BY <2>7, <3>1, <4>1, <4>2 DEF LyricsTag
      <4>4. ~MmTag(rd) /\ ~ApeTag(rd)
        BY <2>7, <4>2 DEF MmTag, ApeTag
      <4> QED
        BY <1>4, <2>4, <4>1, <4>2, <4>3, <4>4 DEF LyricsInvalid, b
    <3>3. rd' = s
      BY <1>5, <3>2, Zenon DEF Again
    <3>4. s \in TagRecord
      BY <2>3, Zenon DEF TagRecord
    <3>5. s.pc = "tails" /\ s.lyr = TRUE /\ s.length = r.length /\ s.start = r.start /\ s.keep = r.keep
          /\ s.title = r.title /\ s.handled = r.handled /\ s.mm = r.mm /\ s.ape = r.ape
      BY <2>3 DEF TagRecord
    <3> HIDE DEF s
    <3>6. s.title = TitleBehind(file, j - 1)
      BY <2>3, <2>5, <2>7, <3>5
    <3>7. b.kind # "mm" /\ b.kind # "ape" /\ s.pc # "over" /\ s.pc \in {"tails", "over"}
      BY <2>7, <3>5
    <3>9. (s.mm <=> rd.mm \/ file.blocks[j].kind = "mm")
          /\ (s.lyr <=> rd.lyr \/ file.blocks[j].kind \in {"lyrics1", "lyrics2"})
          /\ (s.ape <=> rd.ape \/ file.blocks[j].kind = "ape")
      BY <2>a, <2>3, <2>7, <3>5, <3>7, Zenon
    <3>10. s.length = rd.length - Total(file.blocks[j]) /\ s.start = rd.start /\ s.keep = rd.keep
           /\ (s.handled <=> rd.handled)
      BY <2>a, <2>3, <3>5, Zenon
    <3>8. MpegAt(file, s)
      BY <1>1, <1>7, <3>4, <3>6, <3>7, <3>9, <3>10, MpegLess, Zenon
    <3> QED
      BY <2>3, <3>3, <3>4, <3>5, <3>8, Zenon
  <2>8. CASE b.kind = "ape" /\ Total(b) >= 32 /\ b.x \in {"ok", "headless"}
    <3>1. ~rd.ape
      <4>1. ASSUME NEW k \in DOMAIN file.blocks, k > j, k # 1, file.blocks[k].kind = "ape"
            PROVE  FALSE
        <5>1. k = j
          BY <1>2, <1>3, <2>1, <2>8, <4>1, MpegApart DEF b
        <5> QED
          BY <1>2, <1>3, <4>1, <5>1
      <4> QED
        BY <1>1, <4>1
    <3>2. ApeTag(rd) /\ ~MmTag(rd) /\ ~LyricsTag(rd)
      <4>1. rd.length >= 32
        BY <1>2, <2>1, <2>8
      <4>2. Hind(rd) = b
        BY <1>2 DEF b
      <4> QED
        BY <2>8, <3>1, <4>1, <4>2 DEF MmTag, LyricsTag, ApeTag
    <3>3. rd' = IF b.x = "headless" THEN [r EXCEPT !.pc = "over"] ELSE [ape EXCEPT !.ape = TRUE]
      BY <1>5, <2>4, <3>2, Zenon DEF Again
    <3>4. b.kind # "mm" /\ b.kind \notin {"lyrics1", "lyrics2"}
      BY <2>8
    <3>5. CASE b.x = "headless"
      <4> DEFINE s == [r EXCEPT !.pc = "over"]
      <4>1. rd' = s
        BY <3>3, <3>5
      <4>2. s \in TagRecord
        BY <2>3, Zenon DEF TagRecord, TagSteps
      <4>3. s.pc = "over" /\ s.lyr = r.lyr /\ s.length = r.length /\ s.start = r.start /\ s.keep = r.keep
            /\ s.title = r.title /\ s.handled = r.handled /\ s.mm = r.mm /\ s.ape = r.ape
        BY <2>3 DEF TagRecord
      <4> HIDE DEF s
      <4>4. s.title = TitleBehind(file, j - 1)
        BY <2>3, <2>5, <3>5, <4>3
      <4>5. j - 1 = a
        <5>1. file.blocks[j - 1].kind = "audio" /\ j - 1 \in 1 .. n
          BY <1>4, <2>1, <3>5 DEF b
        <5> QED
          BY <5>1, MpegFacts
      <4>6. \A k \in DOMAIN file.blocks : k <= a => file.blocks[k].kind # "id3v1"
        BY <1>1, <1>3, <2>1
      <4>7. s.start = MpegFrom(file, s.keep) /\ s.length = Edge(file, (j - 1) + 1) - s.start
            /\ (s.handled <=> HeadTitled(file)) /\ ~s.ape
        BY <1>1, <1>2, <1>7, <2>a, <2>3, <3>1, <4>3, Zenon
      <4>8. s.pc \in {"mm", "id3v1", "tails", "over"} /\ s.pc # "mm" /\ s.pc # "id3v1" /\ s.pc # "tails"
        BY <4>3
      <4>9. \A k \in DOMAIN file.blocks : k > j => k > j - 1
        BY <1>2, <1>3
      <4>10. (s.mm => \E k \in DOMAIN file.blocks : k > j - 1 /\ file.blocks[k].kind = "mm")
             /\ (s.lyr => \E k \in DOMAIN file.blocks :
                            k > j - 1 /\ file.blocks[k].kind \in {"lyrics1", "lyrics2"})
        BY <1>1, <2>3, <4>3, <4>9, Zenon
      <4>11. j - 1 \in a .. n
        BY <1>2, <1>7
      <4> DEFINE m == j - 1
      <4>12. MpegAt(file, s)
        <5>1. /\ m \in a .. n /\ s.title = TitleBehind(file, m) /\ m = a
              /\ s.length = Edge(file, m + 1) - s.start
              /\ (s.mm => \E k \in DOMAIN file.blocks : k > m /\ file.blocks[k].kind = "mm")
              /\ (s.lyr => \E k \in DOMAIN file.blocks :
                            k > m /\ file.blocks[k].kind \in {"lyrics1", "lyrics2"})
          BY <4>4, <4>5, <4>7, <4>10, <4>11, Zenon
        <5> HIDE DEF m
        <5> QED
          BY <4>7, <4>8, <5>1, MpegGoes, Zenon
      <4> QED
        BY <2>3, <4>1, <4>2, <4>3, <4>12, Zenon
    <3>6. CASE b.x = "ok"
      <4> DEFINE s == [ape EXCEPT !.ape = TRUE]
                 t == TitleBehind(file, j - 1)
      <4>1. b.x # "headless"
        BY <3>6
      <4>2. rd' = s
        BY <3>3, <4>1
      <4>3. t = IF rd.handled THEN rd.title ELSE "ape"
        <5>1. HeadTitled(file) => t = TitleBehind(file, j)
          BY <2>1, TitleWithout
        <5>2. ~HeadTitled(file) => t = "ape"
          BY <2>1, <2>8, <3>6, TitleWithout DEF b
        <5> QED
          BY <1>1, <5>1, <5>2
      <4>4. t \in {"", "id3v2", "ape", "id3v1"}
        BY <4>3 DEF TagRecord
      <4>5. ape \in TagRecord /\ ape.pc = "tails" /\ ape.lyr = r.lyr /\ ape.length = r.length
            /\ ape.start = r.start /\ ape.keep = r.keep /\ ape.title = t /\ ape.handled = r.handled
            /\ ape.mm = r.mm
        <5>1. CASE rd.handled
          <6>1. ape = r
            BY <5>1 DEF ape
          <6>2. t = rd.title
            BY <4>3, <5>1
          <6> HIDE DEF t
          <6> QED
            BY <2>3, <6>1, <6>2
        <5>2. CASE ~rd.handled
          <6>1. ape = [r EXCEPT !.title = "ape"]
            BY <5>2 DEF ape
          <6>2. t = "ape"
            BY <4>3, <5>2
          <6>3. [r EXCEPT !.title = "ape"] \in TagRecord
            BY <2>3, Zenon DEF TagRecord
          <6> DEFINE q == [r EXCEPT !.title = "ape"]
          <6>4. /\ q.pc = r.pc /\ q.lyr = r.lyr /\ q.length = r.length /\ q.start = r.start
                /\ q.keep = r.keep /\ q.title = "ape" /\ q.handled = r.handled /\ q.mm = r.mm
            <7>1. r \in TagRecord
              BY <2>3
            <7> HIDE DEF r
            <7> QED
              BY <7>1 DEF TagRecord
          <6>5. r.pc = "tails"
            BY <2>3
          <6> HIDE DEF t, q
          <6>6. ape = q /\ q \in TagRecord
            BY <6>1, <6>3 DEF q
          <6> QED
            BY <6>2, <6>4, <6>5, <6>6, Zenon
        <5> QED
          BY <5>1, <5>2
      <4> HIDE DEF t
      <4>6. s \in TagRecord
        BY <4>5, Zenon DEF TagRecord
      <4>7. s.pc = "tails" /\ s.lyr = ape.lyr /\ s.length = ape.length /\ s.start = ape.start
            /\ s.keep = ape.keep /\ s.title = t /\ s.handled = ape.handled /\ s.mm = ape.mm /\ s.ape = TRUE
        BY <4>5 DEF TagRecord
      <4> HIDE DEF s
      <4>8. s.pc # "over" /\ s.pc \in {"tails", "over"} /\ s.title = TitleBehind(file, j - 1)
        BY <4>7 DEF t
      <4>10. (s.mm <=> rd.mm \/ file.blocks[j].kind = "mm")
             /\ (s.lyr <=> rd.lyr \/ file.blocks[j].kind \in {"lyrics1", "lyrics2"})
             /\ (s.ape <=> rd.ape \/ file.blocks[j].kind = "ape")
        BY <2>a, <2>3, <2>8, <3>4, <4>5, <4>7, Zenon
      <4>11. s.length = rd.length - Total(file.blocks[j]) /\ s.start = rd.start /\ s.keep = rd.keep
             /\ (s.handled <=> rd.handled)
        BY <2>a, <2>3, <4>5, <4>7, Zenon
      <4>9. MpegAt(file, s)
        BY <1>1, <1>7, <4>6, <4>8, <4>10, <4>11, MpegLess, Zenon
      <4> QED
        BY <2>3, <4>2, <4>5, <4>6, <4>7, <4>9, Zenon
    <3> QED
      BY <2>8, <3>5, <3>6
  <2> QED
    BY <2>2, <2>6, <2>7, <2>8
<1> QED
  BY <1>6, <1>7

\* mp3_read_tags of MPEG audio finds what lies between the tags.
LEMMA StepMpeg ==
    ASSUME Made(file), GoodMpeg(file), rd \in TagRecord, MpegAt(file, rd), TagStep
    PROVE  \/ rd' \in TagRecord /\ rd'.keep = rd.keep /\ MpegAt(file, rd')
           \/ rd' = Found(MpegFrom(file, rd.keep), Edge(file, The(file, "audio") + 1),
                          TitleBehind(file, The(file, "audio")))
<1>1. rd.pc # "probe"
  BY DEF MpegAt
<1>2. CASE rd.pc = "over" /\ TagsRead
  <2> DEFINE a == The(file, "audio")
  <2>1. PICK j \in a .. Len(file.blocks) :
           /\ rd.start = MpegFrom(file, rd.keep) /\ rd.length = Edge(file, j + 1) - rd.start
           /\ rd.title = TitleBehind(file, j) /\ j = a
    BY <1>2, MpegComes
  <2>2. rd.length \in Nat /\ rd.length >= 24 /\ rd.start \in Nat
    BY <2>1, HindHere
  <2>3. rd.length > 0
    BY <2>2
  <2>4. rd' = Found(rd.start, rd.start + rd.length, rd.title)
    BY <1>2, <2>3 DEF TagsRead
  <2>5. rd.start + rd.length = Edge(file, a + 1)
    <3>1. \A s, l, e : s \in Nat /\ e \in Nat /\ l = e - s => s + l = e
      OBVIOUS
    <3>2. Edge(file, a + 1) \in Nat
      BY MpegFromIn
    <3> QED
      BY <2>1, <2>2, <3>1, <3>2, Zenon
  <2> QED
    BY <2>1, <2>4, <2>5, Zenon
<1>3. \/ ReadTags /\ rd.pc = "tags"
      \/ HeadTag /\ rd.pc = "head"
      \/ FirstMm /\ rd.pc = "mm"
      \/ Id3v1 /\ rd.pc = "id3v1"
      \/ Tails /\ rd.pc = "tails"
      \/ TagsRead /\ rd.pc = "over"
  BY <1>1, Zenon DEF TagStep, ReadTags, ProbeChunk, HeadTag, FirstMm, Id3v1, Tails, TagsRead
<1> QED
  BY <1>2, <1>3, StepMpegTags, StepMpegHead, StepMpegMm, StepMpegId3v1, StepMpegTails, Zenon

\* VOC
Sounds(f) == KindsAt(f, {"data", "data16", "cont", "silence"})
Plain(f) == {k \in KindsAt(f, {"data"}) : k = 1 \/ f.blocks[k - 1].kind # "extended"}
Rated(f) == Plain(f) \cup KindsAt(f, {"data16", "extended"})
FileRate(f) == f.blocks[CHOOSE k \in Rated(f) : TRUE].x.rate

\* What a writer of VOC files writes.
GoodVoc(f) ==
    LET kind(k) == f.blocks[k].kind
    IN  /\ f.form = "VOC" /\ f.cut = 0 /\ f.origin = 0
        /\ \A k \in KindsAt(f, {"term"}) : k = Len(f.blocks)
        /\ Sounds(f) # {}
        /\ \A k \in Sounds(f) : (\A j \in Sounds(f) : k <= j) => kind(k) \in {"data", "data16"}
        /\ KindsAt(f, {"data"}) = {} \/ KindsAt(f, {"data16"}) = {}
        /\ KindsAt(f, {"silence"}) # {} => KindsAt(f, {"data16", "extended"}) = {}
        /\ \A k \in KindsAt(f, {"data", "data16", "extended"}) : f.blocks[k].x.n # 0
        /\ \A k \in Rated(f) \cup KindsAt(f, {"silence"}) : f.blocks[k].x.rate # 0
        /\ \A k \in Rated(f) : f.blocks[k].x.rate = FileRate(f)

\* The stretch that a block of a VOC file stands for, if any.
VocPartOf(f, k) ==
    LET b == f.blocks[k]
        rate == f.blocks[CHOOSE j \in KindsAt(f, {"data", "data16"}) : TRUE].x.rate
    IN  CASE b.kind \in {"data", "cont", "data16"} -> <<Stretch(Edge(f, k) + 4 + Told(b), Edge(f, k + 1))>>
          [] b.kind = "silence" -> <<Silence((b.x.n * (256 - b.x.rate)) \div (256 - rate))>>
          [] OTHER -> <<>>

VocParts(f) == [k \in DOMAIN f.blocks |-> VocPartOf(f, k)]

\* FlattenSeq and the sum in Counted.
Flat(s) ==
    LET flatten[i \in 1 .. Len(s)] == IF i = 1 THEN s[i] ELSE flatten[i - 1] \o s[i]
    IN  flatten

\* The sum of the sizes of stretches.
Sums(s) == LET sum[k \in 0 .. Len(s)] == IF k = 0 THEN 0 ELSE sum[k - 1] + Size(s[k]) IN sum

SumOf(s) == Sums(s)[Len(s)]

\* The stretches of the blocks before k.
AudioTill(f, k) == IF k = 1 THEN <<>> ELSE Flat(VocParts(f))[k - 1]

Stretches == Seq([from : Nat, to : Nat])

\* The bytes of a sample and the channels.
SampleSize(f) ==
    IF KindsAt(f, {"data16"}) = {} THEN 1
    ELSE f.blocks[CHOOSE k \in KindsAt(f, {"data16"}) : TRUE].x.n
Channels(f) == f.blocks[CHOOSE k \in KindsAt(f, {"extended"}) : TRUE].x.n

\* The record of the reader of a VOC file.
VocRecord == [pc : {"vocBlock", "vocGot"}, part : {"first", "next", "read"}, rest : Nat,
              silent : BOOLEAN, rate : Nat, size : Nat, channels : Nat, extended : BOOLEAN,
              bytes : Nat, audio : Stretches]

\* the blocks before k are read
VocSo(f, r, k) ==
    /\ r.rate = IF \E j \in Rated(f) : j < k THEN FileRate(f) ELSE VOC_BAD_RATE
    /\ r.size = IF \E j \in KindsAt(f, {"data", "data16"}) : j < k THEN SampleSize(f) ELSE 0
    /\ r.channels = IF \E j \in KindsAt(f, {"extended"}) : j < k THEN Channels(f) ELSE 1
    /\ r.extended <=> \E j \in KindsAt(f, {"extended"}) : j = k - 1

\* What is heard of the blocks before k.
VocHeard(f, r, k) ==
    /\ r.audio = AudioTill(f, k) /\ r.bytes = SumOf(r.audio)
    /\ r.part = "first" <=> \A j \in Sounds(f) : j >= k

\* Where the reader of a VOC file is: at a block, at the end, or in the sound of one.
VocAt(f, r, p) ==
    /\ r \in VocRecord
    /\ \E k \in 1 .. Len(f.blocks) + 1 :
         /\ VocHeard(f, r, k)
         /\ \/ /\ r.pc = "vocBlock" /\ r.rest = 0 /\ p = Edge(f, k) /\ VocSo(f, r, k)
               /\ r.part = "read" => k = Len(f.blocks) + 1
            \/ /\ r.pc = "vocGot" /\ r.rest = 0 /\ p = Edge(f, k) /\ VocSo(f, r, k)
               /\ k = Len(f.blocks) + 1
            \/ /\ r.pc = "vocGot" /\ k \in Sounds(f) /\ r.part # "read" /\ VocSo(f, r, k + 1)
               /\ r.rest > 0
               /\ IF r.silent
                  THEN p = Edge(f, k + 1) /\ VocPartOf(f, k) = <<Silence(r.rest)>>
                  ELSE /\ p + r.rest = Edge(f, k + 1) /\ r.rest >= r.size
                       /\ VocPartOf(f, k) = <<Stretch(p, p + r.rest)>>

\* The function that FlattenSeq builds satisfies its equation.
LEMMA FlatEquation ==
    ASSUME NEW s, Len(s) \in Nat
    PROVE  Flat(s) = [i \in 1 .. Len(s) |-> IF i = 1 THEN s[i] ELSE Flat(s)[i - 1] \o s[i]]
<1> DEFINE Solves(g, m) == g = [i \in 1 .. m |-> IF i = 1 THEN s[i] ELSE g[i - 1] \o s[i]]
           S == {m \in Nat : \E g : Solves(g, m)}
<1>1. 0 \in S
  <2>1. Solves([i \in 1 .. 0 |-> 0], 0)
    OBVIOUS
  <2> QED
    BY <2>1
<1>2. ASSUME NEW m \in Nat, m \in S PROVE m + 1 \in S
  <2>1. PICK g : Solves(g, m)
    BY <1>2
  <2> DEFINE h == [i \in 1 .. m + 1 |-> IF i = 1 THEN s[i] ELSE g[i - 1] \o s[i]]
  <2>2. \A i \in 1 .. m : h[i] = g[i]
    <3>1. \A i \in 1 .. m : g[i] = IF i = 1 THEN s[i] ELSE g[i - 1] \o s[i]
      BY <2>1
    <3>2. \A i \in 1 .. m : h[i] = IF i = 1 THEN s[i] ELSE g[i - 1] \o s[i]
      OBVIOUS
    <3> QED
      BY <3>1, <3>2
  <2>4. ASSUME NEW i \in 1 .. m + 1
        PROVE  h[i] = IF i = 1 THEN s[i] ELSE h[i - 1] \o s[i]
    <3>1. CASE i = 1
      BY <3>1
    <3>2. CASE i # 1
      <4>1. i - 1 \in 1 .. m
        BY <3>2
      <4>2. h[i] = g[i - 1] \o s[i]
        BY <3>2
      <4>3. h[i - 1] = g[i - 1]
        BY <2>2, <4>1
      <4> QED
        BY <3>2, <4>2, <4>3, Zenon
    <3> QED
      BY <3>1, <3>2
  <2>5. h = [i \in 1 .. m + 1 |-> h[i]]
    OBVIOUS
  <2> HIDE DEF h
  <2>6. Solves(h, m + 1)
    BY <2>4, <2>5
  <2>3. m + 1 \in Nat
    OBVIOUS
  <2> QED
    BY <2>3, <2>6
<1>3. \A m \in Nat : m \in S
  <2> HIDE DEF S
  <2> QED
    BY <1>1, <1>2, NumberInduction
<1>4. \E g : Solves(g, Len(s))
  BY <1>3
<1> QED
  BY <1>4 DEF Flat

\* The function that Counted builds satisfies its equation.
LEMMA SumsEquation ==
    ASSUME NEW s, Len(s) \in Nat
    PROVE  Sums(s) = [k \in 0 .. Len(s) |-> IF k = 0 THEN 0 ELSE Sums(s)[k - 1] + Size(s[k])]
<1> DEFINE Solves(g, m) == g = [k \in 0 .. m |-> IF k = 0 THEN 0 ELSE g[k - 1] + Size(s[k])]
           S == {m \in Nat : \E g : Solves(g, m)}
<1>1. 0 \in S
  <2>1. Solves([k \in 0 .. 0 |-> 0], 0)
    OBVIOUS
  <2> QED
    BY <2>1
<1>2. ASSUME NEW m \in Nat, m \in S PROVE m + 1 \in S
  <2>1. PICK g : Solves(g, m)
    BY <1>2
  <2> DEFINE h == [k \in 0 .. m + 1 |-> IF k = 0 THEN 0 ELSE g[k - 1] + Size(s[k])]
  <2>2. Solves(h, m + 1)
    BY <2>1
  <2> HIDE DEF h
  <2>3. m + 1 \in Nat
    OBVIOUS
  <2> QED
    BY <2>2, <2>3
<1>3. \A m \in Nat : m \in S
  <2> HIDE DEF S
  <2> QED
    BY <1>1, <1>2, NumberInduction
<1>4. \E g : Solves(g, Len(s))
  BY <1>3
<1> QED
  BY <1>4 DEF Sums

\* A stretch more.
LEMMA SumGrows ==
    ASSUME NEW s \in Stretches, NEW e \in [from : Nat, to : Nat]
    PROVE  /\ Append(s, e) \in Stretches /\ SumOf(Append(s, e)) = SumOf(s) + Size(e)
           /\ s \o <<e>> = Append(s, e) /\ s \o <<>> = s
<1> DEFINE t == Append(s, e)
           n == Len(s)
<1>1. n \in Nat /\ t \in Stretches /\ Len(t) = n + 1 /\ t[n + 1] = e /\ \A k \in 1 .. n : t[k] = s[k]
  BY DEF Stretches
<1>2. s \o <<e>> = t /\ s \o <<>> = s
  BY DEF Stretches
<1> HIDE DEF t
<1> DEFINE S == {i \in Nat : i <= n => Sums(t)[i] = Sums(s)[i]}
<1>3. Sums(s) = [k \in 0 .. n |-> IF k = 0 THEN 0 ELSE Sums(s)[k - 1] + Size(s[k])]
  BY <1>1, SumsEquation
<1>4. Sums(t) = [k \in 0 .. n + 1 |-> IF k = 0 THEN 0 ELSE Sums(t)[k - 1] + Size(t[k])]
  <2>1. Len(t) \in Nat
    BY <1>1
  <2>2. Sums(t) = [k \in 0 .. Len(t) |-> IF k = 0 THEN 0 ELSE Sums(t)[k - 1] + Size(t[k])]
    BY <2>1, SumsEquation
  <2> QED
    BY <1>1, <2>2
<1>5. 0 \in S
  BY <1>1, <1>3, <1>4
<1>6. ASSUME NEW i \in Nat, i \in S PROVE i + 1 \in S
  <2>1. CASE i + 1 <= n
    <3>1. i + 1 \in 1 .. n /\ i + 1 # 0 /\ (i + 1) - 1 = i /\ i <= n
      BY <1>1, <2>1
    <3>2. Sums(t)[i + 1] = Sums(t)[i] + Size(t[i + 1])
      BY <1>1, <1>4, <3>1
    <3>3. Sums(s)[i + 1] = Sums(s)[i] + Size(s[i + 1])
      BY <1>1, <1>3, <3>1
    <3>4. t[i + 1] = s[i + 1] /\ Sums(t)[i] = Sums(s)[i]
      BY <1>1, <1>6, <3>1
    <3> QED
      BY <3>2, <3>3, <3>4
  <2> QED
    BY <2>1
<1>7. \A i \in Nat : i \in S
  <2> HIDE DEF S
  <2> QED
    BY <1>5, <1>6, NumberInduction
<1>8. Sums(t)[n] = Sums(s)[n]
  BY <1>1, <1>7
<1>9. Sums(t)[n + 1] = Sums(t)[n] + Size(e)
  <2>1. n + 1 \in 0 .. n + 1 /\ n + 1 # 0 /\ (n + 1) - 1 = n
    BY <1>1
  <2>2. Sums(t)[n + 1] = Sums(t)[n] + Size(t[n + 1])
    BY <1>4, <2>1
  <2> QED
    BY <1>1, <2>2
<1>10. SumOf(t) = SumOf(s) + Size(e)
  BY <1>1, <1>8, <1>9 DEF SumOf
<1> QED
  BY <1>1, <1>2, <1>10 DEF t

\* What is assumed of a block of a VOC file, and how many numbers tell of it.
LEMMA VocAsMade ==
    ASSUME NEW f, Made(f), f.form = "VOC", NEW k \in 1 .. Len(f.blocks)
    PROVE  /\ VocBlockMade(f, k) /\ f.blocks[k].len \in Nat
           /\ Told(f.blocks[k]) \in Nat
           /\ f.blocks[k].kind = "data" => Told(f.blocks[k]) = 2
           /\ f.blocks[k].kind = "data16" => Told(f.blocks[k]) = 12
           /\ f.blocks[k].kind = "cont" => Told(f.blocks[k]) = 0
<1>1. DOMAIN f.blocks = 1 .. Len(f.blocks) /\ VocMade(f) /\ f.blocks[k].len \in Nat
  BY MadeBlocks DEF Made
<1>2. VocBlockMade(f, k)
  BY <1>1 DEF VocMade
<1> DEFINE b == f.blocks[k]
<1>3. b.len \in Nat
  BY <1>1
<1> HIDE DEF b
<1>4. Told(b) \in Nat /\ (b.kind = "data" => Told(b) = 2) /\ (b.kind = "data16" => Told(b) = 12)
      /\ (b.kind = "cont" => Told(b) = 0)
  BY <1>3 DEF Told
<1> QED
  BY <1>2, <1>3, <1>4, Zenon DEF b

\* The numbers in a block of a VOC file, and that what it tells is within it.
LEMMA VocNumbers ==
    ASSUME NEW f, Made(f), f.form = "VOC", NEW k \in 1 .. Len(f.blocks)
    PROVE  /\ f.blocks[k].x.n \in Nat /\ f.blocks[k].x.rate \in Nat
           /\ f.blocks[k].pad = 0 /\ f.blocks[k].len \in Nat /\ f.blocks[k].kind # "nothing"
           /\ Told(f.blocks[k]) \in Nat /\ Told(f.blocks[k]) <= f.blocks[k].len
<1> DEFINE b == f.blocks[k]
<1>1. VocBlockMade(f, k) /\ b.len \in Nat /\ Told(b) \in Nat
  BY VocAsMade, Zenon
<1>2. b.kind # "nothing" /\ b.x.n \in Nat /\ b.x.rate \in Nat /\ b.pad = 0 /\ Told(b) <= b.len
  BY <1>1, Zenon DEF VocBlockMade
<1> QED
  BY <1>1, <1>2, Zenon

\* The header of a block of a VOC file, and the blocks that are told to their end.
LEMMA VocHeads ==
    ASSUME NEW f, Made(f), f.form = "VOC", NEW k \in 1 .. Len(f.blocks)
    PROVE  /\ f.blocks[k].kind = "term" => f.blocks[k].head = 1 /\ f.blocks[k].len = 0
           /\ f.blocks[k].kind # "term" => f.blocks[k].head = 4
           /\ f.blocks[k].kind \in {"extended", "silence"} => f.blocks[k].len = Told(f.blocks[k])
<1> DEFINE b == f.blocks[k]
<1>1. VocBlockMade(f, k)
  BY VocAsMade, Zenon
<1>2. IF b.kind = "term" THEN b.head = 1 /\ b.len = 0 ELSE b.head = 4
  BY <1>1, Zenon DEF VocBlockMade
<1>3. b.kind \in {"extended", "silence"} => b.len = Told(b)
  BY <1>1, Zenon DEF VocBlockMade
<1> QED
  BY <1>2, <1>3, Zenon

\* What the blocks with samples hold.
LEMMA VocSounding ==
    ASSUME NEW f, Made(f), f.form = "VOC", NEW k \in 1 .. Len(f.blocks)
    PROVE  /\ f.blocks[k].kind = "data" => f.blocks[k].len > 2 /\ Told(f.blocks[k]) = 2
           /\ f.blocks[k].kind = "data16" =>
                f.blocks[k].len >= 12 + f.blocks[k].x.n /\ Told(f.blocks[k]) = 12
           /\ f.blocks[k].kind = "cont" => f.blocks[k].len >= 2 /\ Told(f.blocks[k]) = 0
<1> DEFINE b == f.blocks[k]
<1>1. VocBlockMade(f, k)
  BY VocAsMade, Zenon
<1>2. /\ b.kind = "data" => Told(b) = 2
      /\ b.kind = "data16" => Told(b) = 12
      /\ b.kind = "cont" => Told(b) = 0
  BY VocAsMade, Zenon
<1>3. b.kind = "data" => b.len > 2
  BY <1>1, Zenon DEF VocBlockMade
<1>4. b.kind = "data16" => b.len >= 12 + b.x.n
  BY <1>1, Zenon DEF VocBlockMade
<1>5. b.kind = "cont" => b.len >= 2
  BY <1>1, Zenon DEF VocBlockMade
<1> QED
  BY <1>2, <1>3, <1>4, <1>5, Zenon

\* The rates the blocks of a VOC file name.
LEMMA VocRates ==
    ASSUME NEW f, Made(f), f.form = "VOC", NEW k \in 1 .. Len(f.blocks)
    PROVE  /\ f.blocks[k].kind = "data" => f.blocks[k].x.rate <= 255
           /\ f.blocks[k].kind = "silence" => f.blocks[k].x.rate <= 255
<1> DEFINE b == f.blocks[k]
<1>1. VocBlockMade(f, k)
  BY VocAsMade, Zenon
<1>2. b.kind = "data" => b.x.rate <= 255
  BY <1>1, Zenon DEF VocBlockMade
<1>3. b.kind = "silence" => b.x.rate <= 255
  BY <1>1, Zenon DEF VocBlockMade
<1> QED
  BY <1>2, <1>3, Zenon

\* A block that names channels names at most two.
LEMMA VocSmall ==
    ASSUME NEW f, Made(f), f.form = "VOC", NEW k \in 1 .. Len(f.blocks)
    PROVE  /\ f.blocks[k].kind = "data16" => f.blocks[k].x.n <= 2
           /\ f.blocks[k].kind = "extended" => f.blocks[k].x.n <= 2
<1> DEFINE b == f.blocks[k]
<1>1. VocBlockMade(f, k)
  BY VocAsMade, Zenon
<1>2. b.kind = "data16" => b.x.n <= 2
  BY <1>1, Zenon DEF VocBlockMade
<1>3. b.kind = "extended" => b.x.n <= 2
  BY <1>1, Zenon DEF VocBlockMade
<1> QED
  BY <1>2, <1>3, Zenon

\* A block of samples follows an extended block.
LEMMA VocExtended ==
    ASSUME NEW f, Made(f), f.form = "VOC", NEW k \in 1 .. Len(f.blocks),
           f.blocks[k].kind = "extended"
    PROVE  k + 1 \in 1 .. Len(f.blocks) /\ f.blocks[k + 1].kind = "data"
<1>1. VocBlockMade(f, k)
  BY VocAsMade, Zenon
<1>2. k + 1 \in {j \in DOMAIN f.blocks : f.blocks[j].kind = "data"}
  BY <1>1, Zenon DEF VocBlockMade
<1>3. DOMAIN f.blocks = 1 .. Len(f.blocks)
  BY DEF Made
<1> QED
  BY <1>2, <1>3

\* Where the sound of a VOC file is read from.
LEMMA VocPlaces ==
    ASSUME NEW f, Made(f), f.form = "VOC", f.cut = 0, NEW k \in 1 .. Len(f.blocks)
    PROVE  /\ Edge(f, k) \in Nat /\ Edge(f, k + 1) \in Nat /\ Edge(f, k + 1) <= End(f) /\ End(f) \in Nat
           /\ BlockAt(f, Edge(f, k)) = f.blocks[k] /\ f.blocks[k] # Nothing
           /\ f.blocks[k].kind = "term" => Edge(f, k + 1) = Edge(f, k) + f.blocks[k].head
           /\ f.blocks[k].kind # "term" => Edge(f, k + 1) = Edge(f, k) + 4 + f.blocks[k].len
<1>1. f.blocks[k].len \in Nat /\ f.blocks[k].pad = 0 /\ k \in Nat \ {0} /\ Len(f.blocks) \in Nat
      /\ Total(f.blocks[k]) = f.blocks[k].head + f.blocks[k].len + f.blocks[k].pad
      /\ f.blocks[k].head \in Nat /\ Total(f.blocks[k]) > 0
      /\ (f.blocks[k].kind = "term" => f.blocks[k].head = 1 /\ f.blocks[k].len = 0)
      /\ (f.blocks[k].kind # "term" => f.blocks[k].head = 4)
  BY MadeBlocks, VocNumbers, VocHeads, SMTT(30)
<1>2. Edge(f, k) \in Nat /\ End(f) \in Nat
  BY <1>1, EdgeIn, EndIn
<1>3. Edge(f, k + 1) = Edge(f, k) + Total(f.blocks[k]) /\ Edge(f, k) + Total(f.blocks[k]) <= End(f)
  BY <1>1, EdgeNext, EndIn
<1>4. BlockAt(f, Edge(f, k)) = f.blocks[k]
  BY AtEdge
<1>5. f.blocks[k] # Nothing
  <2>1. f.blocks[k].head # 0
    BY <1>1
  <2> QED
    BY <2>1, OfNothing, Zenon
<1> DEFINE e == Edge(f, k)
           g == Edge(f, k + 1)
           h == f.blocks[k].head
           l == f.blocks[k].len
           p == f.blocks[k].pad
           z == End(f)
<1>6. e \in Nat /\ h \in Nat /\ l \in Nat /\ p = 0 /\ z \in Nat /\ g = e + (h + l + p) /\ g <= z
  BY <1>1, <1>2, <1>3
<1>7. g \in Nat /\ (l = 0 => g = e + h) /\ (h = 4 => g = e + 4 + l)
  <2> HIDE DEF e, g, h, l, p, z
  <2> QED
    BY <1>6
<1> QED
  BY <1>1, <1>2, <1>4, <1>5, <1>6, <1>7

\* What a VOC file of a writer says.
LEMMA VocFacts ==
    ASSUME NEW f, Made(f), GoodVoc(f)
    PROVE  /\ f.form = "VOC" /\ f.cut = 0 /\ f.origin = 0
           /\ Len(f.blocks) \in Nat /\ DOMAIN f.blocks = 1 .. Len(f.blocks)
           /\ \E k \in Sounds(f) : /\ f.blocks[k].kind \in {"data", "data16"}
                                   /\ \A j \in Sounds(f) : k <= j
           /\ Sounds(f) \subseteq 1 .. Len(f.blocks) /\ Rated(f) \subseteq 1 .. Len(f.blocks)
           /\ \A k \in Rated(f) : f.blocks[k].x.rate = FileRate(f)
           /\ FileRate(f) \in Nat /\ FileRate(f) # 0
<1>1. f.form = "VOC" /\ f.cut = 0 /\ f.origin = 0
      /\ Len(f.blocks) \in Nat /\ DOMAIN f.blocks = 1 .. Len(f.blocks)
  BY MadeBlocks DEF GoodVoc
<1>2. Sounds(f) \subseteq 1 .. Len(f.blocks) /\ Rated(f) \subseteq 1 .. Len(f.blocks)
  BY <1>1 DEF Sounds, Rated, Plain, KindsAt
<1>3. PICK k \in Sounds(f) : \A j \in Sounds(f) : k <= j
  <2>1. Sounds(f) \subseteq Nat /\ Sounds(f) # {}
    BY <1>2 DEF GoodVoc
  <2> QED
    BY <2>1, LeastNumber
<1>4. f.blocks[k].kind \in {"data", "data16"}
  BY <1>3 DEF GoodVoc
<1>5. \A j \in Rated(f) : f.blocks[j].x.rate = FileRate(f)
  BY DEF GoodVoc
<1>6. \A j \in Rated(f) : f.blocks[j].x.rate \in Nat /\ f.blocks[j].x.rate # 0
  <2>2. ASSUME NEW j \in Rated(f) PROVE f.blocks[j].x.rate \in Nat /\ f.blocks[j].x.rate # 0
    <3>1. j \in 1 .. Len(f.blocks)
      BY <1>2
    <3>2. f.blocks[j].x.rate \in Nat
      BY <1>1, <3>1, VocNumbers
    <3> QED
      BY <3>2 DEF GoodVoc
  <2> QED
    BY <2>2
<1>7. \E j \in Rated(f) : TRUE
  <2>1. CASE f.blocks[k].kind = "data16"
    BY <1>1, <1>2, <1>3, <2>1 DEF Rated, KindsAt
  <2>2. CASE f.blocks[k].kind = "data" /\ k \in Plain(f)
    BY <2>2 DEF Rated
  <2>3. CASE f.blocks[k].kind = "data" /\ k \notin Plain(f)
    <3>1. k # 1 /\ f.blocks[k - 1].kind = "extended"
      BY <1>1, <1>2, <1>3, <2>3 DEF Plain, KindsAt
    <3>2. k - 1 \in DOMAIN f.blocks
      BY <1>1, <1>2, <1>3, <3>1
    <3> QED
      BY <3>1, <3>2 DEF Rated, KindsAt
  <2> QED
    BY <1>4, <2>1, <2>2, <2>3
<1>8. FileRate(f) \in Nat /\ FileRate(f) # 0
  BY <1>5, <1>6, <1>7
<1> QED
  BY <1>1, <1>2, <1>3, <1>4, <1>5, <1>8

\* A block more is heard.
LEMMA TillNext ==
    ASSUME NEW f, Made(f), NEW k \in 1 .. Len(f.blocks), AudioTill(f, k) \in Stretches
    PROVE  /\ \A e \in [from : Nat, to : Nat] : VocPartOf(f, k) = <<e>> =>
                AudioTill(f, k + 1) = Append(AudioTill(f, k), e)
           /\ VocPartOf(f, k) = <<>> => AudioTill(f, k + 1) = AudioTill(f, k)
<1> DEFINE n == Len(f.blocks)
           s == VocParts(f)
<1>1. n \in Nat /\ DOMAIN f.blocks = 1 .. n
  BY MadeBlocks
<1>2. s = [i \in 1 .. n |-> VocPartOf(f, i)]
  BY <1>1 DEF VocParts
<1>3. Len(s) = n
  BY <1>1, <1>2
<1> HIDE DEF s
<1>4. Flat(s) = [i \in 1 .. n |-> IF i = 1 THEN s[i] ELSE Flat(s)[i - 1] \o s[i]]
  BY <1>1, <1>3, FlatEquation
<1>5. AudioTill(f, k + 1) = Flat(s)[k]
  <2>1. k + 1 # 1 /\ (k + 1) - 1 = k
    BY <1>1
  <2> QED
    BY <2>1 DEF AudioTill, s
<1>6. s[k] = VocPartOf(f, k)
  BY <1>2
<1>7. CASE k = 1
  <2>1. Flat(s)[k] = VocPartOf(f, k)
    BY <1>4, <1>6, <1>7
  <2>2. AudioTill(f, k) = <<>>
    BY <1>7 DEF AudioTill
  <2>3. \A e \in [from : Nat, to : Nat] : Append(<<>>, e) = <<e>>
    OBVIOUS
  <2> QED
    BY <1>5, <2>1, <2>2, <2>3
<1>8. CASE k # 1
  <2>1. Flat(s)[k] = Flat(s)[k - 1] \o s[k]
    BY <1>4, <1>8
  <2>2. AudioTill(f, k) = Flat(s)[k - 1]
    BY <1>8 DEF AudioTill, s
  <2>3. AudioTill(f, k + 1) = AudioTill(f, k) \o VocPartOf(f, k)
    BY <1>5, <1>6, <2>1, <2>2, Zenon
  <2>4. \A e \in [from : Nat, to : Nat] : AudioTill(f, k) \o <<e>> = Append(AudioTill(f, k), e)
                                          /\ AudioTill(f, k) \o <<>> = AudioTill(f, k)
    BY SumGrows
  <2>5. [from |-> 0, to |-> 0] \in [from : Nat, to : Nat]
    OBVIOUS
  <2>6. ASSUME NEW e \in [from : Nat, to : Nat], VocPartOf(f, k) = <<e>>
        PROVE  AudioTill(f, k + 1) = Append(AudioTill(f, k), e)
    BY <2>3, <2>4, <2>6, Zenon
  <2>7. ASSUME VocPartOf(f, k) = <<>>
        PROVE  AudioTill(f, k + 1) = AudioTill(f, k)
    BY <2>3, <2>4, <2>5, <2>7, Zenon
  <2> QED
    BY <2>6, <2>7
<1> QED
  BY <1>7, <1>8

\* Arithmetic of quotients.
LEMMA Quotient ==
    /\ \A a \in Nat : \A b \in Nat : b > 0 => a \div b \in Nat
    /\ \A a \in Nat : \A b \in Nat : b > 0 /\ a >= b => a \div b > 0
    /\ \A a \in Nat : \A b \in Nat : b > 0 => (a * b) \div b = a
    /\ \A a \in Nat : \A b \in Nat : a * b \in Nat
  OBVIOUS

\* The sizes of the samples are the same in all blocks.
LEMMA VocSizes ==
    ASSUME NEW f, Made(f), GoodVoc(f), NEW k \in 1 .. Len(f.blocks)
    PROVE  /\ f.blocks[k].kind = "data" => SampleSize(f) = 1
           /\ f.blocks[k].kind = "data16" =>
                SampleSize(f) = f.blocks[k].x.n /\ f.blocks[k].x.n \in {1, 2}
           /\ f.blocks[k].kind = "extended" =>
                Channels(f) = f.blocks[k].x.n /\ f.blocks[k].x.n \in {1, 2}
           /\ f.blocks[k].kind \in {"data", "data16", "extended"} => f.blocks[k].x.n # 0
           /\ SampleSize(f) \in {1, 2}
<1>1. /\ f.form = "VOC" /\ Len(f.blocks) \in Nat /\ DOMAIN f.blocks = 1 .. Len(f.blocks) /\ VocMade(f)
  BY MadeBlocks DEF Made, GoodVoc
<1>2. \A kind \in {"data16", "extended"} : \A i, j \in KindsAt(f, {kind}) :
        f.blocks[i].x.n = f.blocks[j].x.n
  BY <1>1 DEF VocMade, KindsAt
<1>3. \A j \in 1 .. Len(f.blocks) :
        f.blocks[j].kind \in {"data", "data16", "extended"} => f.blocks[j].x.n # 0
  BY <1>1 DEF GoodVoc, KindsAt
<1>4. \A j \in 1 .. Len(f.blocks) :
        f.blocks[j].kind \in {"data16", "extended"} => f.blocks[j].x.n \in {1, 2}
  <2>1. ASSUME NEW j \in 1 .. Len(f.blocks), f.blocks[j].kind \in {"data16", "extended"}
        PROVE  f.blocks[j].x.n \in {1, 2}
    <3>1. f.blocks[j].x.n \in Nat /\ f.blocks[j].x.n <= 2 /\ f.blocks[j].x.n # 0
      BY <1>1, <1>3, <2>1, VocNumbers, VocSmall
    <3> DEFINE n == f.blocks[j].x.n
    <3>2. n \in {1, 2}
      <4>1. n \in Nat /\ n <= 2 /\ n # 0
        BY <3>1
      <4> HIDE DEF n
      <4> QED
        BY <4>1
    <3> QED
      BY <3>2
  <2> QED
    BY <2>1
<1>5. f.blocks[k].kind = "data" => KindsAt(f, {"data16"}) = {}
  <2>1. f.blocks[k].kind = "data" => k \in KindsAt(f, {"data"})
    BY <1>1 DEF KindsAt
  <2> QED
    BY <2>1 DEF GoodVoc
<1>6. CASE KindsAt(f, {"data16"}) = {}
  <2>1. SampleSize(f) = 1
    BY <1>6 DEF SampleSize
  <2>2. f.blocks[k].kind # "data16"
    BY <1>1, <1>6 DEF KindsAt
  <2>3. f.blocks[k].kind = "extended" => Channels(f) = f.blocks[k].x.n
    BY <1>1, <1>2 DEF Channels, KindsAt
  <2> QED
    BY <1>3, <1>4, <2>1, <2>2, <2>3
<1>7. CASE KindsAt(f, {"data16"}) # {}
  <2>1. PICK i \in KindsAt(f, {"data16"}) : SampleSize(f) = f.blocks[i].x.n
    BY <1>7 DEF SampleSize
  <2>2. i \in 1 .. Len(f.blocks) /\ f.blocks[i].kind = "data16"
    BY <1>1 DEF KindsAt
  <2>3. SampleSize(f) \in {1, 2}
    BY <1>4, <2>1, <2>2
  <2>4. f.blocks[k].kind = "data16" => SampleSize(f) = f.blocks[k].x.n
    <3>1. f.blocks[k].kind = "data16" => k \in KindsAt(f, {"data16"})
      BY <1>1 DEF KindsAt
    <3> QED
      BY <1>2, <2>1, <3>1
  <2>5. f.blocks[k].kind = "extended" => Channels(f) = f.blocks[k].x.n
    BY <1>1, <1>2 DEF Channels, KindsAt
  <2> QED
    BY <1>3, <1>4, <1>5, <1>7, <2>3, <2>4, <2>5
<1> QED
  BY <1>6, <1>7

\* What is known when a block more is read.
LEMMA SoNext ==
    ASSUME NEW f, Made(f), GoodVoc(f), NEW k \in 1 .. Len(f.blocks), NEW r, VocSo(f, r, k), NEW q,
           q.rate = IF k \in Rated(f) THEN FileRate(f) ELSE r.rate,
           q.size = IF f.blocks[k].kind \in {"data", "data16"} THEN SampleSize(f) ELSE r.size,
           q.channels = IF f.blocks[k].kind = "extended" THEN Channels(f) ELSE r.channels,
           q.extended <=> f.blocks[k].kind = "extended"
    PROVE  VocSo(f, q, k + 1)
<1>1. Len(f.blocks) \in Nat /\ DOMAIN f.blocks = 1 .. Len(f.blocks)
  BY MadeBlocks
<1>2. \A j \in 1 .. Len(f.blocks) : (j < k + 1 <=> j < k \/ j = k) /\ (j = (k + 1) - 1 <=> j = k)
  BY <1>1
<1>3. Rated(f) \subseteq 1 .. Len(f.blocks)
      /\ KindsAt(f, {"data", "data16"}) \subseteq 1 .. Len(f.blocks)
      /\ KindsAt(f, {"extended"}) \subseteq 1 .. Len(f.blocks)
  BY <1>1, VocFacts DEF KindsAt
<1>4. (k \in KindsAt(f, {"data", "data16"}) <=> f.blocks[k].kind \in {"data", "data16"})
      /\ (k \in KindsAt(f, {"extended"}) <=> f.blocks[k].kind = "extended")
  BY <1>1 DEF KindsAt
<1>5. (\E j \in Rated(f) : j < k + 1) <=> (\E j \in Rated(f) : j < k) \/ k \in Rated(f)
  BY <1>2, <1>3
<1>6. (\E j \in KindsAt(f, {"data", "data16"}) : j < k + 1)
      <=> (\E j \in KindsAt(f, {"data", "data16"}) : j < k) \/ k \in KindsAt(f, {"data", "data16"})
  BY <1>2, <1>3
<1>7. (\E j \in KindsAt(f, {"extended"}) : j < k + 1)
      <=> (\E j \in KindsAt(f, {"extended"}) : j < k) \/ k \in KindsAt(f, {"extended"})
  BY <1>2, <1>3
<1>8. (\E j \in KindsAt(f, {"extended"}) : j = (k + 1) - 1) <=> k \in KindsAt(f, {"extended"})
  BY <1>2, <1>3
<1>9. /\ r.rate = IF \E j \in Rated(f) : j < k THEN FileRate(f) ELSE VOC_BAD_RATE
      /\ r.size = IF \E j \in KindsAt(f, {"data", "data16"}) : j < k THEN SampleSize(f) ELSE 0
      /\ r.channels = IF \E j \in KindsAt(f, {"extended"}) : j < k THEN Channels(f) ELSE 1
  BY Zenon DEF VocSo
<1>10. q.rate = IF \E j \in Rated(f) : j < k + 1 THEN FileRate(f) ELSE VOC_BAD_RATE
  BY <1>5, <1>9, Zenon
<1>11. q.size = IF \E j \in KindsAt(f, {"data", "data16"}) : j < k + 1 THEN SampleSize(f) ELSE 0
  BY <1>4, <1>6, <1>9, Zenon
<1>12. q.channels = IF \E j \in KindsAt(f, {"extended"}) : j < k + 1 THEN Channels(f) ELSE 1
  BY <1>4, <1>7, <1>9, Zenon
<1>13. q.extended <=> \E j \in KindsAt(f, {"extended"}) : j = (k + 1) - 1
  BY <1>4, <1>8, Zenon
<1> QED
  BY <1>10, <1>11, <1>12, <1>13, Zenon DEF VocSo

\* What is known at a block: of the one before it, and what was before a sound that is
\* not the first.
LEMMA SoHere ==
    ASSUME NEW f, Made(f), GoodVoc(f), NEW k \in 1 .. Len(f.blocks), NEW r, VocSo(f, r, k)
    PROVE  /\ r.rate = VOC_BAD_RATE \/ r.rate = FileRate(f)
           /\ r.extended => r.rate = FileRate(f) /\ f.blocks[k].kind = "data"
           /\ f.blocks[k].kind = "data" /\ ~r.extended => k \in Rated(f)
           /\ f.blocks[k].kind \in {"data16", "extended"} => k \in Rated(f)
           /\ k \in Rated(f) => f.blocks[k].x.rate = FileRate(f)
           /\ f.blocks[k].kind \in {"cont", "silence"} =>
                r.rate = FileRate(f) /\ r.size = SampleSize(f)
<1>1. /\ Len(f.blocks) \in Nat /\ DOMAIN f.blocks = 1 .. Len(f.blocks) /\ f.form = "VOC"
      /\ Rated(f) \subseteq 1 .. Len(f.blocks) /\ Sounds(f) \subseteq 1 .. Len(f.blocks)
      /\ \A j \in Rated(f) : f.blocks[j].x.rate = FileRate(f)
  BY VocFacts
<1>2. /\ r.rate = IF \E j \in Rated(f) : j < k THEN FileRate(f) ELSE VOC_BAD_RATE
      /\ r.size = IF \E j \in KindsAt(f, {"data", "data16"}) : j < k THEN SampleSize(f) ELSE 0
      /\ r.extended <=> \E j \in KindsAt(f, {"extended"}) : j = k - 1
  BY Zenon DEF VocSo
<1>3. ASSUME r.extended PROVE r.rate = FileRate(f) /\ f.blocks[k].kind = "data"
  <2>1. PICK j \in KindsAt(f, {"extended"}) : j = k - 1
    BY <1>2, <1>3
  <2>2. j \in 1 .. Len(f.blocks) /\ f.blocks[j].kind = "extended" /\ j \in Rated(f) /\ j < k /\ j + 1 = k
    BY <1>1, <2>1 DEF Rated, KindsAt
  <2>3. f.blocks[j + 1].kind = "data"
    BY <1>1, <2>2, VocExtended
  <2> QED
    BY <1>2, <2>2, <2>3
<1>4. f.blocks[k].kind \in {"data16", "extended"} => k \in Rated(f)
  BY <1>1 DEF Rated, KindsAt
<1>5. ASSUME f.blocks[k].kind = "data", ~r.extended PROVE k \in Rated(f)
  <2>1. k = 1 \/ f.blocks[k - 1].kind # "extended"
    <3>1. k # 1 => k - 1 \in DOMAIN f.blocks
      BY <1>1
    <3> QED
      BY <1>2, <1>5, <3>1 DEF KindsAt
  <2> QED
    BY <1>1, <1>5, <2>1 DEF Rated, Plain, KindsAt
<1>6. ASSUME f.blocks[k].kind \in {"cont", "silence"}
      PROVE  r.rate = FileRate(f) /\ r.size = SampleSize(f)
  <2>1. PICK i \in Sounds(f) : /\ f.blocks[i].kind \in {"data", "data16"}
                               /\ \A j \in Sounds(f) : i <= j
    BY VocFacts
  <2>2. k \in Sounds(f)
    BY <1>1, <1>6 DEF Sounds, KindsAt
  <2>3. i < k /\ i \in 1 .. Len(f.blocks)
    <3>1. i <= k /\ i # k
      BY <1>6, <2>1, <2>2
    <3> QED
      BY <1>1, <2>2, <3>1
  <2>4. i \in KindsAt(f, {"data", "data16"})
    BY <1>1, <2>1, <2>3 DEF KindsAt
  <2>5. \E j \in Rated(f) : j < k
    <3>1. CASE i \in Rated(f)
      BY <2>3, <3>1
    <3>2. CASE i \notin Rated(f)
      <4>1. f.blocks[i].kind = "data" /\ i # 1 /\ f.blocks[i - 1].kind = "extended"
        BY <1>1, <2>1, <2>3, <3>2 DEF Rated, Plain, KindsAt
      <4>2. i - 1 \in 1 .. Len(f.blocks) /\ i - 1 < k
        BY <1>1, <2>3, <4>1
      <4>3. i - 1 \in Rated(f)
        BY <1>1, <4>1, <4>2 DEF Rated, KindsAt
      <4> QED
        BY <4>2, <4>3
    <3> QED
      BY <3>1, <3>2
  <2> QED
    BY <1>2, <2>3, <2>4, <2>5
<1>7. r.rate = VOC_BAD_RATE \/ r.rate = FileRate(f)
  BY <1>2
<1> QED
  BY <1>1, <1>3, <1>4, <1>5, <1>6, <1>7, Zenon

\* Arithmetic of a block of sound: what is left behind its header.
LEMMA SoundSums ==
    \A e, l, t, s, n \in Nat :
       /\ s > 0
       /\ \/ l > 2 /\ t = 2 /\ s = 1
          \/ l >= 12 + n /\ t = 12 /\ s = n
          \/ l >= 2 /\ t = 0 /\ s <= 2
       => /\ e + 4 + t \in Nat /\ l - t \in Nat /\ l - t > 0
          /\ l - t >= s
          /\ (e + 4 + t) + (l - t) = e + 4 + l
  OBVIOUS

\* Arithmetic of the codes of rates.
LEMMA Codes ==
    \A z \in Nat : \A r \in 1 .. 255 : z <= 255 =>
       /\ 256 - z \in Nat /\ 256 - z > 0 /\ 256 - r \in Nat /\ 256 - r > 0
       /\ (256 - z = 256 - r <=> r = z)
       /\ r # 0 /\ r < 256
  OBVIOUS

\* A quotient of a greater number is not zero.
LEMMA Quota ==
    \A p \in Nat : \A y \in Nat : y > 0 /\ p >= y => p \div y \in Nat /\ p \div y > 0
  OBVIOUS

\* Silence is as long as it would be at the rate of the file.
LEMMA VocSilence ==
    ASSUME NEW f, Made(f), GoodVoc(f), NEW k \in 1 .. Len(f.blocks), f.blocks[k].kind = "silence"
    PROVE  /\ Period(f.blocks[k], FileRate(f)) \in Nat
           /\ Period(f.blocks[k], FileRate(f)) > 0
           /\ VocPartOf(f, k) = <<Silence(Period(f.blocks[k], FileRate(f)))>>
<1> DEFINE b == f.blocks[k]
           j == CHOOSE j \in KindsAt(f, {"data", "data16"}) : TRUE
           a == b.x.n
           x == 256 - b.x.rate
           rate == FileRate(f)
           y == 256 - rate
           q == (a * x) \div y
<1>1. /\ Len(f.blocks) \in Nat /\ DOMAIN f.blocks = 1 .. Len(f.blocks) /\ f.form = "VOC"
      /\ \A i \in Rated(f) : f.blocks[i].x.rate = FileRate(f)
  BY VocFacts
<1>2. KindsAt(f, {"data16"}) = {} /\ KindsAt(f, {"extended"}) = {}
  <2>1. k \in KindsAt(f, {"silence"})
    BY <1>1 DEF KindsAt
  <2>2. KindsAt(f, {"data16", "extended"}) = {}
    BY <2>1 DEF GoodVoc
  <2> QED
    BY <2>2 DEF KindsAt
<1>3. KindsAt(f, {"data", "data16"}) # {}
  <2>1. PICK i \in Sounds(f) : f.blocks[i].kind \in {"data", "data16"}
    BY VocFacts
  <2>2. i \in KindsAt(f, {"data", "data16"})
    BY <2>1 DEF Sounds, KindsAt
  <2> QED
    BY <2>2
<1>4. j \in KindsAt(f, {"data", "data16"})
  BY <1>3
<1> HIDE DEF j
<1>5. j \in 1 .. Len(f.blocks) /\ f.blocks[j].kind = "data"
  BY <1>1, <1>2, <1>4 DEF KindsAt
<1>6. j \in Rated(f)
  <2>1. j = 1 \/ f.blocks[j - 1].kind # "extended"
    <3>1. j # 1 => j - 1 \in DOMAIN f.blocks
      BY <1>1, <1>5
    <3> QED
      BY <1>2, <3>1 DEF KindsAt
  <2> QED
    BY <1>1, <1>5, <2>1 DEF Rated, Plain, KindsAt
<1>7. f.blocks[j].x.rate = rate
  BY <1>1, <1>6
<1>8. rate \in 1 .. 255
  <2>1. rate \in Nat /\ rate # 0 /\ rate <= 255
    BY <1>1, <1>5, <1>7, VocRates, VocFacts
  <2> HIDE DEF rate
  <2> QED
    BY <2>1
<1>9. a \in Nat /\ b.x.rate \in Nat /\ b.x.rate <= 255
  BY <1>1, VocNumbers, VocRates
<1>10. a * x >= y
  <2>1. VocMade(f) /\ k \in DOMAIN f.blocks /\ j \in DOMAIN f.blocks
    BY <1>1, <1>5 DEF Made
  <2>2. \A i \in {i \in DOMAIN f.blocks : f.blocks[i].kind = "data"} :
          a * (256 - b.x.rate) >= 256 - f.blocks[i].x.rate
    <3>1. VocBlockMade(f, k)
      BY <2>1 DEF VocMade
    <3> QED
      BY <2>1, <3>1, Zenon DEF VocBlockMade
  <2>3. a * (256 - b.x.rate) >= 256 - f.blocks[j].x.rate
    BY <1>5, <2>1, <2>2, Zenon
  <2> QED
    BY <1>7, <2>3
<1>11. x \in Nat /\ x > 0 /\ y \in Nat /\ y > 0 /\ (x = y <=> rate = b.x.rate)
  <2> DEFINE z == b.x.rate
  <2>1. rate \in 1 .. 255 /\ z \in Nat /\ z <= 255
    BY <1>8, <1>9
  <2>2. \A r \in 1 .. 255 :
          /\ 256 - z \in Nat /\ 256 - z > 0 /\ 256 - r \in Nat /\ 256 - r > 0
          /\ (256 - z = 256 - r <=> r = z)
    <3> HIDE DEF z
    <3> QED
      BY <2>1, Codes
  <2> QED
    BY <2>1, <2>2, Zenon
<1>12. VocPartOf(f, k) = <<Silence(q)>>
  <2>1. VocPartOf(f, k) = <<Silence((b.x.n * (256 - b.x.rate)) \div (256 - f.blocks[j].x.rate))>>
    BY DEF VocPartOf, j
  <2> QED
    BY <1>7, <2>1
<1>13. q \in Nat /\ q > 0 /\ (x = y => q = a)
  <2> HIDE DEF a, x, y
  <2>1. a * x \in Nat
    BY <1>9, <1>11, Quotient, Zenon
  <2>2. q \in Nat /\ q > 0
    <3>1. \A p \in Nat : p >= y => p \div y \in Nat /\ p \div y > 0
      BY <1>11, Quota, Zenon
    <3> QED
      BY <1>10, <2>1, <3>1, Zenon
  <2>3. x = y => q = a
    <3>1. (a * y) \div y = a
      BY <1>9, <1>11, Quotient, Zenon
    <3> QED
      BY <3>1, Zenon
  <2> QED
    BY <2>2, <2>3
<1>14. Period(b, rate) = IF rate = b.x.rate THEN a ELSE q
  <2>1. rate # VOC_BAD_RATE /\ rate < 256
    <3> HIDE DEF rate
    <3> QED
      BY <1>8 DEF VOC_BAD_RATE
  <2> HIDE DEF rate
  <2> QED
    BY <2>1, Zenon DEF Period
<1>15. Period(b, rate) = q
  BY <1>11, <1>13, <1>14, ZenonT(60)
<1> QED
  BY <1>12, <1>13, <1>15, Zenon

\* The sound of a block.
LEMMA VocSound ==
    ASSUME NEW f, Made(f), GoodVoc(f), NEW k \in 1 .. Len(f.blocks),
           f.blocks[k].kind \in {"data", "data16", "cont"}
    PROVE  LET from == Edge(f, k) + f.blocks[k].head + Told(f.blocks[k])
               rest == f.blocks[k].len - Told(f.blocks[k])
           IN  /\ from \in Nat /\ rest \in Nat /\ rest > 0 /\ rest >= SampleSize(f)
               /\ from + rest = Edge(f, k + 1)
               /\ VocPartOf(f, k) = <<Stretch(from, from + rest)>>
<1> DEFINE b == f.blocks[k]
           e == Edge(f, k)
           g == Edge(f, k + 1)
           h == b.head
           l == b.len
           t == Told(b)
           s == SampleSize(f)
           n == b.x.n
<1>1. f.form = "VOC" /\ f.cut = 0 /\ Len(f.blocks) \in Nat
  BY VocFacts
<1>2. e \in Nat /\ g \in Nat /\ g = e + 4 + l
  BY <1>1, VocPlaces
<1>3. h = 4 /\ l \in Nat /\ t \in Nat /\ n \in Nat
  BY <1>1, VocNumbers, VocHeads
<1>4. s \in Nat /\ s <= 2 /\ s > 0
  BY VocSizes
<1>5. \/ l > 2 /\ t = 2 /\ s = 1
      \/ l >= 12 + n /\ t = 12 /\ s = n
      \/ l >= 2 /\ t = 0 /\ s <= 2
  BY <1>1, <1>4, VocSounding, VocSizes
<1>6. e + 4 + t \in Nat /\ l - t \in Nat /\ l - t > 0 /\ l - t >= s /\ (e + 4 + t) + (l - t) = g
  <2> HIDE DEF e, g, l, t, s, n
  <2>1. /\ e + 4 + t \in Nat /\ l - t \in Nat /\ l - t > 0 /\ l - t >= s
        /\ (e + 4 + t) + (l - t) = e + 4 + l
    BY <1>2, <1>3, <1>4, <1>5, SoundSums
  <2> QED
    BY <1>2, <2>1, Zenon
<1>7. VocPartOf(f, k) = <<Stretch(e + 4 + t, g)>>
  BY DEF VocPartOf
<1> QED
  BY <1>3, <1>6, <1>7, Zenon

\* After a sound the rate and the size of the samples are known.
LEMMA SoAfter ==
    ASSUME NEW f, Made(f), GoodVoc(f), NEW k \in Sounds(f), NEW m \in Nat, k < m, NEW r, VocSo(f, r, m)
    PROVE  r.rate = FileRate(f) /\ r.size = SampleSize(f)
<1>1. /\ Len(f.blocks) \in Nat /\ DOMAIN f.blocks = 1 .. Len(f.blocks)
      /\ Sounds(f) \subseteq 1 .. Len(f.blocks) /\ Rated(f) \subseteq 1 .. Len(f.blocks)
  BY VocFacts
<1>2. PICK i \in Sounds(f) : f.blocks[i].kind \in {"data", "data16"} /\ \A j \in Sounds(f) : i <= j
  BY VocFacts
<1>3. i < m /\ i \in 1 .. Len(f.blocks)
  BY <1>1, <1>2
<1>4. \E j \in KindsAt(f, {"data", "data16"}) : j < m
  BY <1>1, <1>2, <1>3 DEF KindsAt
<1>5. \E j \in Rated(f) : j < m
  <2>1. CASE i \in Rated(f)
    BY <1>3, <2>1
  <2>2. CASE i \notin Rated(f)
    <3>1. f.blocks[i].kind = "data" /\ i # 1 /\ f.blocks[i - 1].kind = "extended"
      BY <1>1, <1>2, <1>3, <2>2 DEF Rated, Plain, KindsAt
    <3>2. i - 1 \in 1 .. Len(f.blocks) /\ i - 1 < m
      BY <1>1, <1>3, <3>1
    <3>3. i - 1 \in Rated(f)
      BY <1>1, <3>1, <3>2 DEF Rated, KindsAt
    <3> QED
      BY <3>2, <3>3
  <2> QED
    BY <2>1, <2>2
<1> QED
  BY <1>4, <1>5, Zenon DEF VocSo

\* What is known is known of a reader that agrees in the fields.
LEMMA SoSame ==
    ASSUME NEW f, NEW k, NEW r, NEW q, VocSo(f, r, k), q.rate = r.rate, q.size = r.size,
           q.channels = r.channels, q.extended = r.extended
    PROVE  VocSo(f, q, k)
  BY Zenon DEF VocSo

\* What is heard is heard of a reader that agrees in the fields.
LEMMA HeardSame ==
    ASSUME NEW f, NEW k, NEW r, NEW q, VocHeard(f, r, k), q.audio = r.audio, q.bytes = r.bytes,
           q.part = r.part
    PROVE  VocHeard(f, q, k)
  BY Zenon DEF VocHeard

\* A block without sound.
LEMMA HeardOn ==
    ASSUME NEW f, Made(f), GoodVoc(f), NEW k \in 1 .. Len(f.blocks), k \notin Sounds(f),
           NEW r, r.audio \in Stretches, VocHeard(f, r, k)
    PROVE  VocHeard(f, r, k + 1)
<1>1. Len(f.blocks) \in Nat /\ DOMAIN f.blocks = 1 .. Len(f.blocks) /\ Sounds(f) \subseteq 1 .. Len(f.blocks)
  BY VocFacts
<1>2. VocPartOf(f, k) = <<>>
  <2>1. f.blocks[k].kind \notin {"data", "data16", "cont", "silence"}
    BY <1>1 DEF Sounds, KindsAt
  <2> QED
    BY <2>1 DEF VocPartOf
<1>3. AudioTill(f, k + 1) = AudioTill(f, k)
  <2>1. AudioTill(f, k) \in Stretches
    BY Zenon DEF VocHeard
  <2> QED
    BY <1>2, <2>1, TillNext
<1>4. (\A j \in Sounds(f) : j >= k) <=> (\A j \in Sounds(f) : j >= k + 1)
  BY <1>1
<1> QED
  BY <1>3, <1>4, Zenon DEF VocHeard

\* A block of sound.
LEMMA HeardMore ==
    ASSUME NEW f, Made(f), GoodVoc(f), NEW k \in Sounds(f),
           NEW r, r.audio \in Stretches, VocHeard(f, r, k),
           NEW e \in [from : Nat, to : Nat], VocPartOf(f, k) = <<e>>,
           NEW q, q.audio = Append(r.audio, e), q.bytes = r.bytes + Size(e), q.part = "next"
    PROVE  VocHeard(f, q, k + 1)
<1>1. Len(f.blocks) \in Nat /\ k \in 1 .. Len(f.blocks)
  BY VocFacts
<1>2. r.audio = AudioTill(f, k) /\ r.bytes = SumOf(r.audio)
  BY Zenon DEF VocHeard
<1>3. AudioTill(f, k + 1) = Append(AudioTill(f, k), e)
  BY <1>1, <1>2, TillNext
<1>4. SumOf(Append(r.audio, e)) = SumOf(r.audio) + Size(e)
  BY SumGrows
<1>5. q.audio = AudioTill(f, k + 1) /\ q.bytes = SumOf(q.audio)
  BY <1>2, <1>3, <1>4, Zenon
<1>6. ~(\A j \in Sounds(f) : j >= k + 1)
  BY <1>1
<1> QED
  BY <1>5, <1>6 DEF VocHeard

\* Where voc_get_block is after a block.
LEMMA VocHere ==
    ASSUME Made(file), GoodVoc(file), NEW k \in 1 .. Len(file.blocks), pos = Edge(file, k),
           rd.rest = 0, VocBlock
    PROVE  /\ file.blocks[k].kind = "term" =>
                /\ rd' = [rd EXCEPT !.pc = "vocGot", !.silent = FALSE]
                /\ pos' = Edge(file, k + 1)
           /\ file.blocks[k].kind # "term" =>
                /\ rd' = VocParsed(file.blocks[k])
                /\ pos' = pos + file.blocks[k].head + Told(file.blocks[k])
<1> DEFINE c == file.blocks[k]
           e == Edge(file, k)
           g == Edge(file, k + 1)
           h == c.head
           l == c.len
           t == Told(c)
           z == End(file)
<1>1. file.form = "VOC" /\ file.cut = 0 /\ Len(file.blocks) \in Nat
  BY VocFacts
<1>2. e \in Nat /\ g \in Nat /\ g <= z /\ z \in Nat /\ BlockAt(file, e) = c /\ c # Nothing
      /\ (c.kind = "term" => g = e + h) /\ (c.kind # "term" => g = e + 4 + l)
  BY <1>1, VocPlaces
<1>3. c.kind # "nothing" /\ (c.kind # "term" => h = 4) /\ t \in Nat /\ t <= l /\ l \in Nat
  BY <1>1, VocNumbers, VocHeads
<1>4. At(pos) = c /\ FileEnd = z /\ \A p : Reached(p) = IF p > z THEN z ELSE p
  BY <1>2, Here DEF ReachedIn
<1>5. CASE c.kind = "term"
  <2>1. rd' = [rd EXCEPT !.pc = "vocGot", !.silent = FALSE] /\ pos' = pos + h
    BY <1>2, <1>4, <1>5 DEF VocBlock
  <2> QED
    BY <1>2, <1>5, <2>1
<1>6. CASE c.kind # "term"
  <2>1. h = 4 /\ g = e + 4 + l
    BY <1>2, <1>3, <1>6
  <2>2. e + h + t <= z
    <3>1. e \in Nat /\ l \in Nat /\ t \in Nat /\ z \in Nat /\ t <= l /\ e + 4 + l <= z
      BY <1>2, <1>3, <2>1
    <3>2. e + 4 + t <= z
      <4> HIDE DEF e, l, t, z
      <4> QED
        BY <3>1
    <3> QED
      BY <2>1, <3>2, Zenon
  <2>3. ~(e + h + t > z)
    <3> DEFINE w == e + h + t
    <3>1. w \in Nat /\ z \in Nat /\ w <= z
      BY <1>2, <1>3, <2>1, <2>2
    <3>2. ~(w > z)
      <4> HIDE DEF w, z
      <4> QED
        BY <3>1
    <3> QED
      BY <3>2
  <2>4. rd' = VocParsed(c) /\ pos' = Reached(pos + h + t)
    BY <1>3, <1>4, <1>6, <2>3 DEF VocBlock
  <2> QED
    BY <1>4, <1>6, <2>3, <2>4
<1> QED
  BY <1>5, <1>6

\* The reader stands at a block.
LEMMA VocAtBlock ==
    ASSUME NEW f, Made(f), NEW k \in 1 .. Len(f.blocks) + 1, NEW r \in VocRecord, NEW p,
           VocHeard(f, r, k), r.pc = "vocBlock", r.rest = 0, p = Edge(f, k), VocSo(f, r, k),
           r.part = "read" => k = Len(f.blocks) + 1
    PROVE  VocAt(f, r, p)
  BY Zenon DEF VocAt

\* The reader stands at the end.
LEMMA VocAtEnd ==
    ASSUME NEW f, Made(f), NEW k, NEW r \in VocRecord, NEW p, k = Len(f.blocks) + 1,
           k \in 1 .. Len(f.blocks) + 1,
           VocHeard(f, r, k), r.pc = "vocGot", r.rest = 0, p = Edge(f, k), VocSo(f, r, k)
    PROVE  VocAt(f, r, p)
  BY Zenon DEF VocAt

\* The reader is about to take sound or silence.
LEMMA VocAtSound ==
    ASSUME NEW f, Made(f), NEW k \in 1 .. Len(f.blocks) + 1, NEW r \in VocRecord, NEW p,
           VocHeard(f, r, k), r.pc = "vocGot", k \in Sounds(f), r.part # "read",
           VocSo(f, r, k + 1), r.rest > 0,
           \/ r.silent /\ p = Edge(f, k + 1) /\ VocPartOf(f, k) = <<Silence(r.rest)>>
           \/ /\ ~r.silent /\ p + r.rest = Edge(f, k + 1) /\ r.rest >= r.size
              /\ VocPartOf(f, k) = <<Stretch(p, p + r.rest)>>
    PROVE  VocAt(f, r, p)
<1>1. IF r.silent
      THEN p = Edge(f, k + 1) /\ VocPartOf(f, k) = <<Silence(r.rest)>>
      ELSE /\ p + r.rest = Edge(f, k + 1) /\ r.rest >= r.size
           /\ VocPartOf(f, k) = <<Stretch(p, p + r.rest)>>
  BY Zenon
<1> QED
  BY <1>1, Zenon DEF VocAt

\* The number of the next block.
LEMMA NextPlace ==
    ASSUME NEW f, Made(f), NEW k \in 1 .. Len(f.blocks)
    PROVE  k \in 1 .. Len(f.blocks) + 1 /\ k + 1 \in 1 .. Len(f.blocks) + 1 /\ k < k + 1 /\ k + 1 \in Nat
<1>1. Len(f.blocks) \in Nat
  BY MadeBlocks
<1> QED
  BY <1>1

\* A block of sound is got.
LEMMA GotSound ==
    ASSUME Made(file), GoodVoc(file), NEW k \in 1 .. Len(file.blocks),
           file.blocks[k].kind \in {"data", "data16", "cont"},
           rd \in VocRecord, VocHeard(file, rd, k), VocSo(file, rd, k), rd.part # "read",
           pos = Edge(file, k), rd' = VocParsed(file.blocks[k]),
           pos' = pos + file.blocks[k].head + Told(file.blocks[k])
    PROVE  VocAt(file, rd', pos')
<1> DEFINE c == file.blocks[k]
           rate == FileRate(file)
           size == SampleSize(file)
           left == c.len - Told(c)
<1>1. k \in Sounds(file)
  <2>1. k \in DOMAIN file.blocks
    BY VocFacts
  <2> QED
    BY <2>1 DEF Sounds, KindsAt
<1>2. /\ rd.rate = VOC_BAD_RATE \/ rd.rate = rate
      /\ rd.extended => rd.rate = rate /\ c.kind = "data"
      /\ c.kind = "data" /\ ~rd.extended => k \in Rated(file)
      /\ c.kind = "data16" => k \in Rated(file)
      /\ k \in Rated(file) => c.x.rate = rate
      /\ c.kind = "cont" => rd.rate = rate /\ rd.size = size
  BY SoHere, Zenon
<1>3. /\ c.kind = "data" => size = 1
      /\ c.kind = "data16" => size = c.x.n
      /\ c.kind \in {"data", "data16"} => c.x.n # 0
      /\ size \in {1, 2} /\ rate \in Nat
  BY VocSizes, VocFacts
<1>4. /\ left \in Nat /\ left > 0 /\ left >= size /\ pos' \in Nat
      /\ pos' + left = Edge(file, k + 1) /\ VocPartOf(file, k) = <<Stretch(pos', pos' + left)>>
  BY VocSound
<1> HIDE DEF left
<1> DEFINE r == [rd EXCEPT !.silent = FALSE]
           sound == [r EXCEPT !.pc = "vocGot", !.rest = left]
           q == CASE c.kind = "data" -> [sound EXCEPT !.size = 1, !.extended = FALSE, !.rate = rate]
                  [] c.kind = "data16" -> [sound EXCEPT !.size = c.x.n, !.rate = rate]
                  [] c.kind = "cont" -> sound
<1>5. VocParsed(c) = q
  <2>1. CASE c.kind = "data"
    <3>1. CASE rd.extended
      <4>1. VocParsed(c) = [sound EXCEPT !.size = 1, !.extended = FALSE, !.rate = @]
        BY <1>2, <1>3, <2>1, <3>1 DEF VocParsed, left
      <4>2. sound.rate = rate
        BY <1>2, <3>1 DEF VocRecord
      <4> QED
        BY <2>1, <4>1, <4>2
    <3>2. CASE ~rd.extended
      <4>1. c.x.rate = rate
        BY <1>2, <2>1, <3>2
      <4>2. ~(rd.rate \notin {VOC_BAD_RATE, c.x.rate})
        BY <1>2, <4>1
      <4>4. c.x.rate # 0
        BY <4>1, VocFacts
      <4>3. VocParsed(c) = [sound EXCEPT !.size = 1, !.extended = FALSE, !.rate = c.x.rate]
        BY <1>3, <2>1, <3>2, <4>2, <4>4 DEF VocParsed, left
      <4> QED
        BY <2>1, <4>1, <4>3
    <3> QED
      BY <3>1, <3>2
  <2>2. CASE c.kind = "data16"
    <3>1. c.x.rate = rate
      BY <1>2, <2>2
    <3>2. ~(rd.rate \notin {VOC_BAD_RATE, c.x.rate})
      BY <1>2, <3>1
    <3>4. c.x.rate # 0
      BY <3>1, VocFacts
    <3>3. VocParsed(c) = [sound EXCEPT !.size = c.x.n, !.rate = c.x.rate]
      BY <1>3, <2>2, <3>2, <3>4 DEF VocParsed, left
    <3> QED
      BY <2>2, <3>1, <3>3
  <2>3. CASE c.kind = "cont"
    BY <2>3 DEF VocParsed, left
  <2> QED
    BY <2>1, <2>2, <2>3
<1>6. q \in VocRecord
  <2>1. r \in VocRecord
    BY Zenon DEF VocRecord
  <2>2. sound \in VocRecord
    <3> HIDE DEF r
    <3> QED
      BY <1>4, <2>1, Zenon DEF VocRecord
  <2>3. 1 \in Nat /\ size \in Nat
    BY <1>3
  <2>4. c.kind = "data" => [sound EXCEPT !.size = 1, !.extended = FALSE, !.rate = rate] \in VocRecord
    <3> HIDE DEF sound
    <3> QED
      BY <1>3, <2>2, <2>3, Zenon DEF VocRecord
  <2>5. c.kind = "data16" => [sound EXCEPT !.size = c.x.n, !.rate = rate] \in VocRecord
    <3>1. c.kind = "data16" => c.x.n \in Nat
      BY <1>3, <2>3, Zenon
    <3> HIDE DEF sound
    <3> QED
      BY <1>3, <2>2, <3>1, Zenon DEF VocRecord
  <2> QED
    BY <2>2, <2>4, <2>5
<1>7. /\ q.pc = "vocGot" /\ q.part = rd.part /\ q.rest = left /\ ~q.silent
      /\ q.audio = rd.audio /\ q.bytes = rd.bytes /\ q.channels = rd.channels
      /\ ~q.extended /\ q.rate = rate /\ q.size = size
  <2>1. CASE c.kind = "data"
    BY <1>3, <2>1 DEF VocRecord
  <2>2. CASE c.kind = "data16"
    <3>1. ~rd.extended /\ c.x.n = size
      BY <1>2, <1>3, <2>2
    <3> QED
      BY <2>2, <3>1 DEF VocRecord
  <2>3. CASE c.kind = "cont"
    <3>1. ~rd.extended /\ rd.rate = rate /\ rd.size = size
      BY <1>2, <2>3
    <3> QED
      BY <2>3, <3>1 DEF VocRecord
  <2> QED
    BY <2>1, <2>2, <2>3
<1> HIDE DEF q
<1>8. VocSo(file, q, k + 1)
  <2>1. q.rate = IF k \in Rated(file) THEN FileRate(file) ELSE rd.rate
    <3>1. k \notin Rated(file) => rd.rate = rate
      BY <1>2
    <3> QED
      BY <1>7, <3>1
  <2>2. q.size = IF file.blocks[k].kind \in {"data", "data16"} THEN SampleSize(file) ELSE rd.size
    <3>1. c.kind \notin {"data", "data16"} => rd.size = size
      BY <1>2
    <3> QED
      BY <1>7, <3>1
  <2>3. q.channels = IF file.blocks[k].kind = "extended" THEN Channels(file) ELSE rd.channels
    BY <1>7
  <2>4. q.extended <=> file.blocks[k].kind = "extended"
    BY <1>7
  <2> QED
    BY <2>1, <2>2, <2>3, <2>4, SoNext, Zenon
<1>9. VocHeard(file, q, k)
  BY <1>7, HeardSame, Zenon
<1>10. rd' = q
  BY <1>5
<1>11. q.rest > 0 /\ pos' + q.rest = Edge(file, k + 1) /\ q.rest >= q.size
       /\ VocPartOf(file, k) = <<Stretch(pos', pos' + q.rest)>> /\ ~q.silent /\ q.part # "read"
  BY <1>4, <1>7, Zenon
<1>12. VocAt(file, q, pos')
  BY <1>1, <1>6, <1>7, <1>8, <1>9, <1>11, NextPlace, VocAtSound, Zenon
<1> QED
  BY <1>10, <1>12

\* Silence is got.
LEMMA GotSilence ==
    ASSUME Made(file), GoodVoc(file), NEW k \in 1 .. Len(file.blocks),
           file.blocks[k].kind = "silence",
           rd \in VocRecord, VocHeard(file, rd, k), VocSo(file, rd, k), rd.part # "read",
           pos = Edge(file, k), rd' = VocParsed(file.blocks[k]),
           pos' = pos + file.blocks[k].head + Told(file.blocks[k])
    PROVE  VocAt(file, rd', pos')
<1> DEFINE c == file.blocks[k]
           rate == FileRate(file)
           left == Period(c, rate)
<1>1. k \in Sounds(file)
  <2>1. k \in DOMAIN file.blocks
    BY VocFacts
  <2> QED
    BY <2>1 DEF Sounds, KindsAt
<1>2. rd.rate = rate /\ rd.size = SampleSize(file) /\ ~rd.extended
  BY SoHere, Zenon
<1>3. rate \in Nat /\ rate # VOC_BAD_RATE /\ file.form = "VOC" /\ file.cut = 0
  BY VocFacts DEF VOC_BAD_RATE
<1>4. left \in Nat /\ left > 0 /\ VocPartOf(file, k) = <<Silence(left)>>
  BY VocSilence
<1>5. pos' = Edge(file, k + 1)
  <2>1. c.head = 4 /\ c.len = Told(c)
    BY <1>3, VocHeads
  <2>2. Edge(file, k + 1) = Edge(file, k) + 4 + c.len
    BY <1>3, VocPlaces
  <2> QED
    BY <2>1, <2>2
<1> HIDE DEF left
<1> DEFINE r == [rd EXCEPT !.silent = FALSE]
           sound == [r EXCEPT !.pc = "vocGot", !.rest = c.len - Told(c)]
           q == [sound EXCEPT !.rest = left, !.silent = TRUE, !.rate = rate]
<1>6. VocParsed(c) = q
  <2>1. VocParsed(c) = [sound EXCEPT !.rest = Period(c, rd.rate), !.silent = TRUE,
                                     !.rate = IF @ = VOC_BAD_RATE THEN c.x.rate ELSE @]
    <3>1. k \in KindsAt(file, {"silence"})
      BY VocFacts DEF KindsAt
    <3>2. c.x.rate # 0
      BY <3>1 DEF GoodVoc
    <3> QED
      BY <3>2 DEF VocParsed
  <2>2. sound.rate = rate
    BY <1>2 DEF VocRecord
  <2>3. Period(c, rd.rate) = left
    BY <1>2 DEF left
  <2> HIDE DEF sound
  <2> QED
    BY <1>3, <2>1, <2>2, <2>3
<1>7. q \in VocRecord
  <2>1. r \in VocRecord
    BY Zenon DEF VocRecord
  <2>2. sound \in VocRecord
    <3>1. c.len - Told(c) \in Nat
      <4>1. c.len \in Nat /\ c.len = Told(c)
        BY <1>3, VocNumbers, VocHeads
      <4> QED
        BY <4>1
    <3> HIDE DEF r
    <3> QED
      BY <2>1, <3>1, Zenon DEF VocRecord
  <2> HIDE DEF sound
  <2> QED
    BY <1>3, <1>4, <2>2, Zenon DEF VocRecord
<1>8. /\ q.pc = "vocGot" /\ q.part = rd.part /\ q.rest = left /\ q.silent
      /\ q.audio = rd.audio /\ q.bytes = rd.bytes /\ q.channels = rd.channels
      /\ ~q.extended /\ q.rate = rate /\ q.size = rd.size
  BY <1>2 DEF VocRecord
<1> HIDE DEF q
<1>9. VocSo(file, q, k + 1)
  <2>1. q.rate = IF k \in Rated(file) THEN FileRate(file) ELSE rd.rate
    BY <1>2, <1>8
  <2>2. q.size = IF file.blocks[k].kind \in {"data", "data16"} THEN SampleSize(file) ELSE rd.size
    BY <1>8
  <2>3. q.channels = IF file.blocks[k].kind = "extended" THEN Channels(file) ELSE rd.channels
    BY <1>8
  <2>4. q.extended <=> file.blocks[k].kind = "extended"
    BY <1>8
  <2> QED
    BY <2>1, <2>2, <2>3, <2>4, SoNext, Zenon
<1>10. VocHeard(file, q, k)
  BY <1>8, HeardSame, Zenon
<1>11. q.rest > 0 /\ q.silent /\ VocPartOf(file, k) = <<Silence(q.rest)>> /\ q.part # "read"
  BY <1>4, <1>8, Zenon
<1>12. VocAt(file, q, pos')
  BY <1>1, <1>5, <1>7, <1>8, <1>9, <1>10, <1>11, NextPlace, VocAtSound, Zenon
<1> QED
  BY <1>6, <1>12

\* A block without sound is read over.
LEMMA GotOther ==
    ASSUME Made(file), GoodVoc(file), NEW k \in 1 .. Len(file.blocks),
           file.blocks[k].kind \notin {"data", "data16", "cont", "silence", "term"},
           rd \in VocRecord, VocHeard(file, rd, k), VocSo(file, rd, k), rd.part # "read",
           rd.pc = "vocBlock", rd.rest = 0,
           pos = Edge(file, k), rd' = VocParsed(file.blocks[k]),
           pos' = pos + file.blocks[k].head + Told(file.blocks[k])
    PROVE  VocAt(file, rd', pos')
<1> DEFINE c == file.blocks[k]
           rate == FileRate(file)
<1>1. k \notin Sounds(file) /\ file.form = "VOC" /\ file.cut = 0 /\ rate \in Nat
  BY VocFacts DEF Sounds, KindsAt
<1>2. /\ rd.rate = VOC_BAD_RATE \/ rd.rate = rate
      /\ rd.extended => c.kind = "data"
      /\ c.kind = "extended" => k \in Rated(file)
      /\ k \in Rated(file) => c.x.rate = rate
  BY SoHere, Zenon
<1>3. pos' = Edge(file, k + 1)
  <2>1. c.head = 4 /\ c.len = Told(c)
    <3>1. c.head = 4 /\ (c.kind = "extended" => c.len = Told(c))
      BY <1>1, VocHeads
    <3>2. c.kind # "extended" => c.len = Told(c)
      BY DEF Told
    <3> QED
      BY <3>1, <3>2
  <2>2. Edge(file, k + 1) = Edge(file, k) + 4 + c.len
    BY <1>1, VocPlaces
  <2> QED
    BY <2>1, <2>2
<1> DEFINE r == [rd EXCEPT !.silent = FALSE]
           s == [r EXCEPT !.extended = TRUE, !.rate = rate, !.channels = c.x.n]
           q == IF c.kind = "extended" THEN s ELSE r
<1>4. c.kind = "extended" => c.x.n # 0 /\ c.x.n \in Nat /\ c.x.n = Channels(file)
  BY <1>1, VocNumbers, VocSizes
<1>5. VocParsed(c) = q
  <2>1. CASE c.kind = "extended"
    <3>1. c.x.rate = rate
      BY <1>2, <2>1
    <3>2. ~(rd.rate \notin {VOC_BAD_RATE, c.x.rate})
      BY <1>2, <3>1
    <3>4. c.x.rate # 0
      BY <3>1, VocFacts
    <3>3. VocParsed(c) = [r EXCEPT !.extended = TRUE, !.rate = c.x.rate, !.channels = c.x.n]
      BY <1>4, <2>1, <3>2, <3>4 DEF VocParsed
    <3> QED
      BY <2>1, <3>1, <3>3
  <2>2. CASE c.kind # "extended"
    <3>1. c.kind \notin {"data", "data16", "cont", "silence", "extended"}
      BY <2>2
    <3> QED
      BY <3>1 DEF VocParsed
  <2> QED
    BY <2>1, <2>2
<1>6. q \in VocRecord
  <2>1. r \in VocRecord
    BY Zenon DEF VocRecord
  <2>2. c.kind = "extended" => s \in VocRecord
    <3> HIDE DEF r
    <3> QED
      BY <1>1, <1>4, <2>1, Zenon DEF VocRecord
  <2> QED
    BY <2>1, <2>2
<1>7. /\ q.pc = "vocBlock" /\ q.part = rd.part /\ q.rest = 0
      /\ q.audio = rd.audio /\ q.bytes = rd.bytes /\ q.size = rd.size
      /\ q.channels = IF c.kind = "extended" THEN Channels(file) ELSE rd.channels
      /\ q.extended <=> c.kind = "extended"
      /\ q.rate = IF k \in Rated(file) THEN rate ELSE rd.rate
  <2>1. CASE c.kind = "extended"
    <3>1. k \in Rated(file) /\ c.x.n = Channels(file)
      BY <1>2, <1>4, <2>1
    <3> QED
      BY <2>1, <3>1 DEF VocRecord
  <2>2. CASE c.kind # "extended"
    <3>1. k \notin Rated(file)
      BY <2>2 DEF Rated, Plain, KindsAt
    <3>2. ~rd.extended
      BY <1>2
    <3> QED
      BY <2>2, <3>1, <3>2 DEF VocRecord
  <2> QED
    BY <2>1, <2>2
<1> HIDE DEF q
<1>8. VocSo(file, q, k + 1)
  <2>1. q.size = IF file.blocks[k].kind \in {"data", "data16"} THEN SampleSize(file) ELSE rd.size
    BY <1>7
  <2> QED
    BY <1>7, <2>1, SoNext, Zenon
<1>9. VocHeard(file, q, k + 1)
  <2>1. VocHeard(file, q, k)
    BY <1>7, HeardSame, Zenon
  <2>2. q.audio \in Stretches
    BY <1>6 DEF VocRecord
  <2> QED
    BY <1>1, <2>1, <2>2, HeardOn, Zenon
<1>10. q.part = "read" => k + 1 = Len(file.blocks) + 1
  BY <1>7
<1>11. VocAt(file, q, pos')
  BY <1>3, <1>6, <1>7, <1>8, <1>9, <1>10, NextPlace, VocAtBlock, Zenon
<1> QED
  BY <1>5, <1>11

\* voc_get_block of a good file.
LEMMA StepVocBlock ==
    ASSUME Made(file), GoodVoc(file), VocAt(file, rd, pos), VocBlock
    PROVE  VocAt(file, rd', pos')
<1> DEFINE n == Len(file.blocks)
<1>1. rd \in VocRecord /\ rd.pc = "vocBlock"
  BY DEF VocAt, VocBlock
<1>2. PICK k \in 1 .. n + 1 :
         /\ VocHeard(file, rd, k) /\ rd.rest = 0 /\ pos = Edge(file, k) /\ VocSo(file, rd, k)
         /\ rd.part = "read" => k = n + 1
  <2>1. rd.pc # "vocGot"
    BY <1>1
  <2> QED
    BY <2>1, Zenon DEF VocAt
<1>3. file.form = "VOC" /\ file.cut = 0 /\ n \in Nat /\ k \in Nat
  BY VocFacts
<1> DEFINE q == [rd EXCEPT !.pc = "vocGot", !.silent = FALSE]
<1>4. q \in VocRecord
  BY <1>1, Zenon DEF VocRecord
<1>5. /\ q.pc = "vocGot" /\ q.part = rd.part /\ q.rest = rd.rest /\ q.audio = rd.audio
      /\ q.bytes = rd.bytes /\ q.rate = rd.rate /\ q.size = rd.size /\ q.channels = rd.channels
      /\ q.extended = rd.extended
  BY <1>1 DEF VocRecord
<1>6. CASE k = n + 1
  <2>1. At(pos) = Nothing
    BY <1>2, <1>3, <1>6, AtEnd, Here
  <2>2. Nothing.kind = "nothing"
    BY DEF Nothing, Block
  <2>3. rd' = q /\ pos' = FileEnd
    BY <1>2, <2>1, <2>2 DEF VocBlock
  <2>4. pos' = Edge(file, k)
    <3>1. FileEnd = Edge(file, k) - file.cut /\ Edge(file, k) \in Nat
      BY <1>2, <1>6, Here, EdgeIn DEF End
    <3> QED
      BY <1>3, <2>3, <3>1
  <2>5. VocHeard(file, q, k) /\ VocSo(file, q, k)
    BY <1>2, <1>5, SoSame, HeardSame, ZenonT(60)
  <2> HIDE DEF q
  <2>6. VocAt(file, q, pos')
    BY <1>2, <1>4, <1>5, <1>6, <2>4, <2>5, VocAtEnd, Zenon
  <2> QED
    BY <2>3, <2>6
<1>7. CASE k # n + 1
  <2>1. k \in 1 .. n
    BY <1>2, <1>3, <1>7
  <2>2. rd.part # "read"
    BY <1>2, <1>7
  <2>3. CASE file.blocks[k].kind = "term"
    <3>1. rd' = q /\ pos' = Edge(file, k + 1)
      BY <1>2, <2>1, <2>3, VocHere
    <3>2. k + 1 = n + 1 /\ k + 1 \in 1 .. n + 1
      <4>1. k \in KindsAt(file, {"term"})
        BY <2>1, <2>3, VocFacts DEF KindsAt
      <4>2. k = n
        BY <4>1 DEF GoodVoc
      <4> QED
        BY <1>3, <2>1, <4>2
    <3>3. k \notin Sounds(file) /\ k \notin Rated(file)
      BY <2>3 DEF Sounds, Rated, Plain, KindsAt
    <3>4. ~rd.extended
      <4>1. rd.extended => file.blocks[k].kind = "data"
        BY <1>2, <2>1, SoHere, Zenon
      <4> QED
        BY <2>3, <4>1
    <3>5. VocSo(file, q, k + 1)
      <4>1. q.rate = IF k \in Rated(file) THEN FileRate(file) ELSE rd.rate
        BY <1>5, <3>3
      <4>2. q.size = IF file.blocks[k].kind \in {"data", "data16"} THEN SampleSize(file) ELSE rd.size
        BY <1>5, <2>3
      <4>3. q.channels = IF file.blocks[k].kind = "extended" THEN Channels(file) ELSE rd.channels
        BY <1>5, <2>3
      <4>4. q.extended <=> file.blocks[k].kind = "extended"
        BY <1>5, <2>3, <3>4
      <4> HIDE DEF q
      <4> QED
        BY <1>2, <2>1, <4>1, <4>2, <4>3, <4>4, SoNext, Zenon
    <3>6. VocHeard(file, q, k + 1)
      <4>1. VocHeard(file, q, k)
        BY <1>2, <1>5, HeardSame, Zenon
      <4>2. q.audio \in Stretches
        BY <1>4 DEF VocRecord
      <4> HIDE DEF q
      <4> QED
        BY <2>1, <3>3, <4>1, <4>2, HeardOn, Zenon
    <3> HIDE DEF q
    <3>7. VocAt(file, q, pos')
      BY <1>2, <1>4, <1>5, <3>1, <3>2, <3>5, <3>6, VocAtEnd, Zenon
    <3> QED
      BY <3>1, <3>7
  <2>4. CASE file.blocks[k].kind # "term"
    <3>1. rd' = VocParsed(file.blocks[k])
          /\ pos' = pos + file.blocks[k].head + Told(file.blocks[k])
      BY <1>2, <2>1, <2>4, VocHere
    <3>2. CASE file.blocks[k].kind \in {"data", "data16", "cont"}
      BY <1>1, <1>2, <2>1, <2>2, <3>1, <3>2, GotSound, Zenon
    <3>3. CASE file.blocks[k].kind = "silence"
      BY <1>1, <1>2, <2>1, <2>2, <3>1, <3>3, GotSilence, Zenon
    <3>4. CASE file.blocks[k].kind \notin {"data", "data16", "cont", "silence", "term"}
      BY <1>1, <1>2, <2>1, <2>2, <3>1, <3>4, GotOther, Zenon
    <3> QED
      BY <2>4, <3>2, <3>3, <3>4
  <2> QED
    BY <2>3, <2>4
<1> QED
  BY <1>6, <1>7

\* What a VOC file is heard as: whole frames.
FrameSize(f) == SampleSize(f) * (IF KindsAt(f, {"extended"}) = {} THEN 1 ELSE Channels(f))

BytesFound(f) ==
    LET bytes == SumOf(AudioTill(f, Len(f.blocks) + 1)) IN bytes - (bytes % FrameSize(f))

\* The end of a load of a VOC file.
VocEnds(f) ==
    [pc |-> "found", audio |-> AudioTill(f, Len(f.blocks) + 1), title |-> "", bytes |-> BytesFound(f)]

\* At the end of the file the whole of it is found.
LEMMA FoundAtEnd ==
    ASSUME NEW f, Made(f), GoodVoc(f), NEW r, VocSo(f, r, Len(f.blocks) + 1),
           VocHeard(f, r, Len(f.blocks) + 1)
    PROVE  VocFound(r) = VocEnds(f) /\ r.part # "first"
<1> DEFINE n == Len(f.blocks)
<1>1. /\ n \in Nat /\ DOMAIN f.blocks = 1 .. n /\ Sounds(f) \subseteq 1 .. n
      /\ \E k \in Sounds(f) : TRUE
  BY VocFacts
<1>2. PICK k \in Sounds(f) : TRUE
  BY <1>1
<1>3. k \in 1 .. n /\ k < n + 1 /\ n + 1 \in Nat
  BY <1>1
<1>4. r.size = SampleSize(f)
  BY <1>3, SoAfter
<1>5. r.channels = IF KindsAt(f, {"extended"}) = {} THEN 1 ELSE Channels(f)
  <2>1. KindsAt(f, {"extended"}) \subseteq 1 .. n
    BY <1>1 DEF KindsAt
  <2>2. (\E j \in KindsAt(f, {"extended"}) : j < n + 1) <=> KindsAt(f, {"extended"}) # {}
    BY <1>1, <2>1
  <2> QED
    BY <2>2 DEF VocSo
<1>6. r.size * r.channels = FrameSize(f)
  BY <1>4, <1>5, Zenon DEF FrameSize
<1>7. r.audio = AudioTill(f, n + 1) /\ r.bytes = SumOf(AudioTill(f, n + 1))
  BY Zenon DEF VocHeard
<1>8. r.part # "first"
  <2>1. ~(k >= n + 1)
    BY <1>1, <1>3
  <2> QED
    BY <2>1, Zenon DEF VocHeard
<1> QED
  BY <1>6, <1>7, <1>8, Zenon DEF VocFound, VocEnds, BytesFound

\* Arithmetic of a block that is read in one piece.
LEMMA Filled ==
    /\ \A p, r, g : p \in Nat /\ r \in Nat /\ p + r = g => g - p = r /\ g \in Nat
    /\ \A r \in Nat : r - r = 0 /\ r - 0 = r
    /\ \A r \in Nat : \A s \in {1, 2} : r >= s => r \div s # 0
    /\ \A r \in Nat : r > 0 => r # 0 /\ ~(r = 0)
  OBVIOUS

\* Mix_LoadVOC_RW and voc_read of a good file.
LEMMA StepVocGot ==
    ASSUME Made(file), GoodVoc(file), VocAt(file, rd, pos), pos \in Nat, VocGot
    PROVE  VocAt(file, rd', pos') \/ rd' = VocEnds(file)
<1> DEFINE n == Len(file.blocks)
<1>1. rd \in VocRecord /\ rd.pc = "vocGot"
  BY DEF VocAt, VocGot
<1>2. PICK k \in 1 .. n + 1 :
         /\ VocHeard(file, rd, k)
         /\ \/ rd.rest = 0 /\ pos = Edge(file, k) /\ VocSo(file, rd, k) /\ k = n + 1
            \/ /\ k \in Sounds(file) /\ rd.part # "read" /\ VocSo(file, rd, k + 1) /\ rd.rest > 0
               /\ IF rd.silent
                  THEN pos = Edge(file, k + 1) /\ VocPartOf(file, k) = <<Silence(rd.rest)>>
                  ELSE /\ pos + rd.rest = Edge(file, k + 1) /\ rd.rest >= rd.size
                       /\ VocPartOf(file, k) = <<Stretch(pos, pos + rd.rest)>>
  <2>1. rd.pc # "vocBlock"
    BY <1>1
  <2> QED
    BY <2>1, Zenon DEF VocAt
<1>3. file.form = "VOC" /\ file.cut = 0 /\ n \in Nat /\ k \in Nat /\ Sounds(file) \subseteq 1 .. n
  BY VocFacts
<1>4. CASE rd.rest = 0 /\ pos = Edge(file, k) /\ VocSo(file, rd, k) /\ k = n + 1
  <2>1. VocFound(rd) = VocEnds(file) /\ rd.part # "first"
    BY <1>2, <1>4, FoundAtEnd, Zenon
  <2>2. CASE rd.part = "read"
    <3>1. rd' = VocFound(rd)
      BY <1>4, <2>2 DEF VocGot
    <3> QED
      BY <2>1, <3>1
  <2>3. CASE rd.part = "next"
    <3> DEFINE q == [rd EXCEPT !.pc = "vocBlock", !.part = "read"]
    <3>1. rd' = q /\ pos' = pos
      BY <1>4, <2>3 DEF VocGot
    <3>2. q \in VocRecord
      BY <1>1, Zenon DEF VocRecord
    <3>3. /\ q.pc = "vocBlock" /\ q.part = "read" /\ q.rest = rd.rest /\ q.audio = rd.audio
          /\ q.bytes = rd.bytes /\ q.rate = rd.rate /\ q.size = rd.size /\ q.channels = rd.channels
          /\ q.extended = rd.extended
      BY <1>1 DEF VocRecord
    <3>4. VocSo(file, q, k)
      BY <1>4, <3>3, SoSame, Zenon
    <3>5. VocHeard(file, q, k)
      <4>1. q.part # "first"
        BY <3>3
      <4>2. ~(\A j \in Sounds(file) : j >= k)
        BY <1>2, <2>1, Zenon DEF VocHeard
      <4> QED
        BY <1>2, <3>3, <4>1, <4>2, Zenon DEF VocHeard
    <3> HIDE DEF q
    <3>6. VocAt(file, q, pos)
      BY <1>2, <1>4, <3>2, <3>3, <3>4, <3>5, VocAtBlock, Zenon
    <3> QED
      BY <3>1, <3>6
  <2> QED
    BY <1>1, <2>1, <2>2, <2>3 DEF VocRecord
<1>5. CASE /\ k \in Sounds(file) /\ rd.part # "read" /\ VocSo(file, rd, k + 1) /\ rd.rest > 0
           /\ IF rd.silent
              THEN pos = Edge(file, k + 1) /\ VocPartOf(file, k) = <<Silence(rd.rest)>>
              ELSE /\ pos + rd.rest = Edge(file, k + 1) /\ rd.rest >= rd.size
                   /\ VocPartOf(file, k) = <<Stretch(pos, pos + rd.rest)>>
  <2> DEFINE longer == [rd EXCEPT !.bytes = @ + rd.rest]
             next == [longer EXCEPT !.pc = "vocBlock", !.part = "next"]
  <2>1. k \in 1 .. n
    BY <1>3, <1>5
  <2>2. rd.rate = FileRate(file) /\ rd.size = SampleSize(file)
    BY <1>5, <2>1, NextPlace, SoAfter
  <2>3. rd.rate # VOC_BAD_RATE /\ rd.size \in {1, 2} /\ rd.size # 0
    <3>1. FileRate(file) # 0 /\ SampleSize(file) \in {1, 2}
      BY <2>1, VocFacts, VocSizes
    <3> QED
      BY <2>2, <3>1 DEF VOC_BAD_RATE
  <2>4. rd.rest \in Nat /\ rd.rest # 0 /\ rd.bytes \in Nat /\ rd.audio \in Stretches
    <3>1. rd.rest \in Nat /\ rd.bytes \in Nat /\ rd.audio \in Stretches
      BY <1>1 DEF VocRecord
    <3>2. rd.rest > 0
      BY <1>5
    <3> QED
      BY <3>1, <3>2, Filled, Zenon
  <2>5. VocFilled(longer)
    BY <1>5, <2>3, <2>4 DEF VocGot
  <2>6. next \in VocRecord
    <3>1. rd.bytes + rd.rest \in Nat
      BY <2>4
    <3>2. longer \in VocRecord
      BY <1>1, <3>1, Zenon DEF VocRecord
    <3> HIDE DEF longer
    <3> QED
      BY <3>2, Zenon DEF VocRecord
  <2>7. /\ next.pc = "vocBlock" /\ next.part = "next" /\ next.rest = rd.rest
        /\ next.audio = rd.audio /\ next.bytes = rd.bytes + rd.rest /\ next.rate = rd.rate
        /\ next.size = rd.size /\ next.channels = rd.channels /\ next.extended = rd.extended
        /\ longer.silent = rd.silent /\ longer.rest = rd.rest /\ longer.size = rd.size
    BY <1>1 DEF VocRecord
  <2> DEFINE Q(e) == [next EXCEPT !.rest = 0, !.audio = Append(@, e)]
  <2>8. ASSUME NEW e \in [from : Nat, to : Nat], VocPartOf(file, k) = <<e>>, Size(e) = rd.rest
        PROVE  VocAt(file, Q(e), Edge(file, k + 1))
    <3> HIDE DEF next, longer
    <3>1. Append(rd.audio, e) \in Stretches
      BY <2>4, SumGrows
    <3>2. Q(e) \in VocRecord
      <4>1. Append(next.audio, e) \in Stretches
        BY <2>7, <3>1
      <4>2. 0 \in Nat
        OBVIOUS
      <4> QED
        BY <2>6, <4>1, <4>2, Zenon DEF VocRecord
    <3>3. /\ Q(e).pc = "vocBlock" /\ Q(e).part = "next" /\ Q(e).rest = 0
          /\ Q(e).audio = Append(rd.audio, e) /\ Q(e).bytes = rd.bytes + Size(e)
          /\ Q(e).rate = rd.rate /\ Q(e).size = rd.size /\ Q(e).channels = rd.channels
          /\ Q(e).extended = rd.extended
      BY <2>6, <2>7, <2>8 DEF VocRecord
    <3> DEFINE q == Q(e)
    <3> HIDE DEF q
    <3>4. /\ q.pc = "vocBlock" /\ q.part = "next" /\ q.rest = 0
          /\ q.audio = Append(rd.audio, e) /\ q.bytes = rd.bytes + Size(e)
          /\ q.rate = rd.rate /\ q.size = rd.size /\ q.channels = rd.channels
          /\ q.extended = rd.extended /\ q \in VocRecord
      BY <3>2, <3>3, Zenon DEF q
    <3>5. VocSo(file, q, k + 1)
      BY <1>5, <3>4, SoSame, Zenon
    <3>6. VocHeard(file, q, k + 1)
      BY <1>2, <1>5, <2>4, <2>8, <3>4, HeardMore, Zenon
    <3>7. q.part = "read" => k + 1 = n + 1
      BY <3>4
    <3>8. VocAt(file, q, Edge(file, k + 1))
      BY <2>1, <3>4, <3>5, <3>6, <3>7, NextPlace, VocAtBlock, Zenon
    <3> QED
      BY <3>8, Zenon DEF q
  <2>9. CASE rd.silent
    <3>1. rd' = Q(Silence(rd.rest)) /\ pos' = pos
      BY <2>5, <2>7, <2>9 DEF VocFilled
    <3>2. pos = Edge(file, k + 1) /\ VocPartOf(file, k) = <<Silence(rd.rest)>>
      BY <1>5, <2>9
    <3>3. Silence(rd.rest) \in [from : Nat, to : Nat] /\ Size(Silence(rd.rest)) = rd.rest
      BY <2>4 DEF Silence, Stretch, Size
    <3> HIDE DEF Q
    <3> QED
      BY <2>8, <3>1, <3>2, <3>3, Zenon
  <2>10. CASE ~rd.silent
    <3> DEFINE till == pos + rd.rest
    <3>1. till = Edge(file, k + 1) /\ rd.rest >= rd.size
          /\ VocPartOf(file, k) = <<Stretch(pos, till)>>
      BY <1>5, <2>10
    <3>2. till - pos = rd.rest /\ till \in Nat
      BY <2>4
    <3>3. Reached(pos + rd.rest) = till
      <4>1. till <= End(file) /\ End(file) \in Nat
        BY <1>3, <2>1, <3>1, VocPlaces
      <4>2. ~(till > End(file))
        BY <3>2, <4>1
      <4> QED
        BY <4>2, Here DEF ReachedIn
    <3>4. (till - pos) \div rd.size # 0
      BY <2>3, <2>4, <3>1, <3>2, Filled, Zenon
    <3>5. next.rest - (till - pos) = 0
      BY <2>4, <2>7, <3>2
    <3>6. rd' = Q(Stretch(pos, till)) /\ pos' = till
      <4> DEFINE read == [next EXCEPT !.rest = @ - (till - pos),
                                      !.audio = Append(@, Stretch(pos, till))]
      <4>1. read = Q(Stretch(pos, till))
        BY <3>5
      <4>2. rd' = read /\ pos' = till
        BY <2>5, <2>7, <2>10, <3>3, <3>4 DEF VocFilled
      <4> QED
        BY <4>1, <4>2
    <3>7. Stretch(pos, till) \in [from : Nat, to : Nat] /\ Size(Stretch(pos, till)) = rd.rest
      BY <3>2 DEF Stretch, Size
    <3> HIDE DEF Q, till
    <3> QED
      BY <2>8, <3>1, <3>6, <3>7, Zenon
  <2> QED
    BY <2>9, <2>10
<1> QED
  BY <1>2, <1>4, <1>5

\* Of every file: the types of the reader, and where the cursor is.
Readers == {"none", "failed", "found", "detect", "detected", "wav", "iff", "vocBlock", "vocGot"}
           \cup TagSteps

ReaderTyped(f, r, p) ==
    /\ p \in 0 .. End(f)
    /\ r.pc \in Readers
    /\ r.pc \in TagSteps => r \in TagRecord
    /\ r.pc \in {"tags", "probe"} => r.start <= p
    /\ r.pc = "detect" => r.start = f.origin
    /\ r.pc \in {"wav", "iff"} => "pc" \in DOMAIN r
    /\ r.pc \in {"vocBlock", "vocGot"} =>
         /\ f.form = "VOC" /\ r.rest \in Nat /\ r.rate \in Nat
         /\ {"pc", "rest", "rate"} \subseteq DOMAIN r

\* A place that is reached lies in the file.
LEMMA ReachedTyped ==
    ASSUME NEW f, Made(f)
    PROVE  /\ \A p \in Nat : ReachedIn(f, p) \in 0 .. End(f) /\ ReachedIn(f, p) <= p
           /\ \A p \in Nat : \A s \in Nat : s <= p /\ s <= End(f) => s <= ReachedIn(f, p)
           /\ \A p \in 0 .. End(f) : ReachedIn(f, p) = p
           /\ f.origin \in 0 .. End(f) /\ End(f) \in 0 .. End(f) /\ End(f) \in Nat
<1>1. End(f) \in Nat /\ f.origin <= End(f) /\ f.origin \in Nat
  BY EndIn, MadeBlocks
<1> QED
  BY <1>1 DEF ReachedIn

\* A reader that has ended.
LEMMA EndedTyped ==
    ASSUME NEW f, NEW r, NEW p \in 0 .. End(f), r.pc \in {"none", "failed", "found", "detected"}
    PROVE  ReaderTyped(f, r, p)
  BY DEF ReaderTyped, Readers, TagSteps

\* A reader of tags.
LEMMA TagTyped ==
    ASSUME NEW f, NEW r \in TagRecord, NEW p \in 0 .. End(f),
           r.pc \in {"tags", "probe"} => r.start <= p
    PROVE  ReaderTyped(f, r, p)
<1>1. r.pc \in TagSteps
  BY DEF TagRecord
<1> QED
  BY <1>1 DEF ReaderTyped, Readers, TagSteps

\* The readers of chunks.
LEMMA ChunkTyped ==
    ASSUME Made(file), ReaderTyped(file, rd, pos), ChunkStep
    PROVE  ReaderTyped(file, rd', pos')
<1> DEFINE c == At(pos)
<1>1. c.head \in Nat /\ c.len \in Nat /\ pos \in 0 .. End(file) /\ End(file) \in Nat
  BY AtTyped, Here, EndIn DEF ReaderTyped
<1>2. Past(c) \in Nat
  <2> DEFINE h == c.head
             l == c.len
             e == End(file)
  <2>1. h \in Nat /\ l \in Nat /\ pos \in 0 .. e /\ e \in Nat
    BY <1>1
  <2>2. pos + h + l + (l % 2) \in Nat
    <3> HIDE DEF h, l, e
    <3> QED
      BY <2>1
  <2> QED
    BY <2>2 DEF Past
<1>3. Reached(Past(c)) \in 0 .. End(file) /\ FileEnd = End(file)
  BY <1>2, ReachedTyped, Here
<1> HIDE DEF c
<1>4. CASE DetectChunk
  <2>1. rd.start \in 0 .. End(file) /\ rd.pc = "detect" /\ rd.start = file.origin
    BY <1>4, ReachedTyped DEF ReaderTyped, DetectChunk
  <2>2. \/ rd'.pc = "detected" /\ pos' = rd.start
        \/ rd' = rd /\ pos' = Reached(Past(c))
    BY <1>4 DEF DetectChunk, Detected, c
  <2>3. CASE rd'.pc = "detected" /\ pos' = rd.start
    BY <2>1, <2>3, EndedTyped
  <2>4. CASE rd' = rd /\ pos' = Reached(Past(c))
    BY <1>3, <2>1, <2>4 DEF ReaderTyped, Readers, TagSteps
  <2> QED
    BY <2>2, <2>3, <2>4
<1>5. CASE WavChunk
  <2>1. rd.pc = "wav" /\ "pc" \in DOMAIN rd
    BY <1>5 DEF WavChunk, ReaderTyped
  <2>2. pos' \in 0 .. End(file)
    BY <1>1, <1>3, <1>5 DEF WavChunk, c
  <2>3. rd'.pc \in {"found", "failed"} \/ (rd'.pc = "wav" /\ "pc" \in DOMAIN rd')
    <3>1. rd' \in {Found(rd.start, rd.stop, ""), Failed} \/ rd' = WavParsed(c)
      BY <1>5 DEF WavChunk, c
    <3>2. WavParsed(c) \in {rd, Failed, [rd EXCEPT !.fmt = TRUE],
                            [rd EXCEPT !.data = TRUE, !.start = pos + c.head,
                                       !.stop = pos + c.head + c.len]}
      BY DEF WavParsed
    <3>3. rd' \in {Found(rd.start, rd.stop, ""), Failed, rd, [rd EXCEPT !.fmt = TRUE],
                   [rd EXCEPT !.data = TRUE, !.start = pos + c.head, !.stop = pos + c.head + c.len]}
      BY <3>1, <3>2
    <3>4. [rd EXCEPT !.fmt = TRUE].pc = "wav" /\ "pc" \in DOMAIN [rd EXCEPT !.fmt = TRUE]
      BY <2>1
    <3>5. \A a, b : LET r == [rd EXCEPT !.data = TRUE, !.start = a, !.stop = b]
                   IN  r.pc = "wav" /\ "pc" \in DOMAIN r
      BY <2>1
    <3>6. Found(rd.start, rd.stop, "").pc = "found" /\ Failed.pc = "failed"
      BY DEF Found, Failed
    <3> QED
      BY <2>1, <3>3, <3>4, <3>5, <3>6, Zenon
  <2> QED
    BY <2>2, <2>3 DEF ReaderTyped, Readers, TagSteps
<1>6. CASE IffChunk
  <2>1. rd.pc = "iff" /\ "pc" \in DOMAIN rd
    BY <1>6 DEF IffChunk, ReaderTyped
  <2>2. pos' \in 0 .. End(file)
    <3>1. Past(c) < FileEnd => Past(c) \in 0 .. End(file)
      BY <1>1, <1>2, <1>3
    <3> QED
      BY <1>1, <1>6, <3>1 DEF IffChunk, c
  <2>3. rd'.pc \in {"found", "failed"} \/ (rd'.pc = "iff" /\ "pc" \in DOMAIN rd')
    <3>1. rd' = Failed \/ rd' = IffParsed(c) \/ rd' = IffFound(IffParsed(c))
      BY <1>6 DEF IffChunk, c
    <3>2. IffFound(IffParsed(c)).pc \in {"found", "failed"}
      BY DEF IffFound, Found, Failed
    <3>3. IffParsed(c) = Failed \/ (IffParsed(c).pc = "iff" /\ "pc" \in DOMAIN IffParsed(c))
      <4> DEFINE r == [rd EXCEPT !.seen = @ \cup {c.kind}]
      <4>1. r.pc = "iff" /\ "pc" \in DOMAIN r
        BY <2>1
      <4>2. IffParsed(c) \in {r, Failed, [r EXCEPT !.start = pos + c.head + 8 + c.x],
                              [r EXCEPT !.bytes = c.x],
                              [r EXCEPT !.start = pos + c.head, !.bytes = c.len]}
        BY DEF IffParsed
      <4> HIDE DEF r
      <4>3. \A a : LET s == [r EXCEPT !.start = a] IN s.pc = "iff" /\ "pc" \in DOMAIN s
        BY <4>1
      <4>4. \A a : LET s == [r EXCEPT !.bytes = a] IN s.pc = "iff" /\ "pc" \in DOMAIN s
        BY <4>1
      <4>5. \A a, b : LET s == [r EXCEPT !.start = a, !.bytes = b]
                     IN  s.pc = "iff" /\ "pc" \in DOMAIN s
        BY <4>1
      <4> QED
        BY <4>1, <4>2, <4>3, <4>4, <4>5, Zenon
    <3> QED
      BY <3>1, <3>2, <3>3 DEF Failed
  <2> QED
    BY <2>2, <2>3 DEF ReaderTyped, Readers, TagSteps
<1> QED
  BY <1>4, <1>5, <1>6 DEF ChunkStep

\* Taking b off the front or the end.
LEMMA TagCut ==
    ASSUME NEW f, Made(f), NEW r \in TagRecord, NEW p
    PROVE  /\ Dropped(r, BlockBefore(f, p)) \in TagRecord
           /\ Dropped(r, BlockBefore(f, p)).pc = r.pc
           /\ Fronted(r, BlockAt(f, p)) \in TagRecord
           /\ Fronted(r, BlockAt(f, p)).pc = r.pc
<1> DEFINE a == BlockAt(f, p)
           b == BlockBefore(f, p)
<1>1. Total(a) \in Nat /\ Total(b) \in Nat
  BY AtTyped
<1>2. r.length \in Int /\ r.start \in Nat
  BY DEF TagRecord
<1>3. r.length - Total(b) \in Int /\ r.length - Total(a) \in Int /\ r.start + Total(a) \in Nat
  BY <1>1, <1>2
<1> HIDE DEF a, b
<1>4. Dropped(r, b) \in TagRecord /\ Dropped(r, b).pc = r.pc
  BY <1>3, Dropping
<1>5. Fronted(r, a) \in TagRecord
  BY <1>3, Zenon DEF Fronted, TagRecord
<1>6. Fronted(r, a).pc = r.pc
  BY DEF Fronted, TagRecord
<1> QED
  BY <1>4, <1>5, <1>6 DEF a, b

\* The fields of a reader of tags.
LEMMA TagSet ==
    ASSUME NEW r \in TagRecord
    PROVE  /\ \A pc \in TagSteps : [r EXCEPT !.pc = pc] \in TagRecord /\ [r EXCEPT !.pc = pc].pc = pc
                                   /\ [r EXCEPT !.pc = pc].start = r.start
           /\ \A t \in {"", "id3v2", "ape", "id3v1"} :
                [r EXCEPT !.title = t] \in TagRecord /\ [r EXCEPT !.title = t].pc = r.pc
           /\ [r EXCEPT !.mm = TRUE] \in TagRecord /\ [r EXCEPT !.mm = TRUE].pc = r.pc
           /\ [r EXCEPT !.lyr = TRUE] \in TagRecord /\ [r EXCEPT !.lyr = TRUE].pc = r.pc
           /\ [r EXCEPT !.ape = TRUE] \in TagRecord /\ [r EXCEPT !.ape = TRUE].pc = r.pc
           /\ [r EXCEPT !.handled = TRUE] \in TagRecord /\ [r EXCEPT !.handled = TRUE].pc = r.pc
           /\ [r EXCEPT !.fmt = TRUE] \in TagRecord /\ [r EXCEPT !.fmt = TRUE].pc = r.pc
                /\ [r EXCEPT !.fmt = TRUE].start = r.start
           /\ \A d \in Nat \X Nat : [r EXCEPT !.data = d] \in TagRecord /\ [r EXCEPT !.data = d].pc = r.pc
                                    /\ [r EXCEPT !.data = d].start = r.start
           /\ r.start \in Nat /\ r.length \in Int
           /\ r.data # <<>> => r.data[1] \in Nat /\ r.data[2] \in Nat
           /\ r.title \in {"", "id3v2", "ape", "id3v1"}
<1>1. TRUE \in BOOLEAN /\ Nat \X Nat \subseteq {<<>>} \cup (Nat \X Nat)
  OBVIOUS
<1>2. \A pc \in TagSteps : [r EXCEPT !.pc = pc] \in TagRecord
  BY Zenon DEF TagRecord
<1>3. \A t \in {"", "id3v2", "ape", "id3v1"} : [r EXCEPT !.title = t] \in TagRecord
  BY Zenon DEF TagRecord
<1>4. [r EXCEPT !.mm = TRUE] \in TagRecord
  BY <1>1, Zenon DEF TagRecord
<1>5. [r EXCEPT !.lyr = TRUE] \in TagRecord
  BY <1>1, Zenon DEF TagRecord
<1>6. [r EXCEPT !.ape = TRUE] \in TagRecord
  BY <1>1, Zenon DEF TagRecord
<1>7. [r EXCEPT !.handled = TRUE] \in TagRecord
  BY <1>1, Zenon DEF TagRecord
<1>8. [r EXCEPT !.fmt = TRUE] \in TagRecord
  BY <1>1, Zenon DEF TagRecord
<1>9. \A d \in Nat \X Nat : [r EXCEPT !.data = d] \in TagRecord
  BY <1>1, Zenon DEF TagRecord
<1>10. /\ \A pc \in TagSteps : [r EXCEPT !.pc = pc].pc = pc /\ [r EXCEPT !.pc = pc].start = r.start
       /\ \A t : [r EXCEPT !.title = t].pc = r.pc
       /\ [r EXCEPT !.mm = TRUE].pc = r.pc /\ [r EXCEPT !.lyr = TRUE].pc = r.pc
       /\ [r EXCEPT !.ape = TRUE].pc = r.pc /\ [r EXCEPT !.handled = TRUE].pc = r.pc
       /\ [r EXCEPT !.fmt = TRUE].pc = r.pc /\ [r EXCEPT !.fmt = TRUE].start = r.start
       /\ \A d : [r EXCEPT !.data = d].pc = r.pc /\ [r EXCEPT !.data = d].start = r.start
  BY DEF TagRecord
<1>11. r.start \in Nat /\ r.length \in Int /\ r.data \in {<<>>} \cup (Nat \X Nat)
       /\ r.title \in {"", "id3v2", "ape", "id3v1"}
  BY DEF TagRecord
<1>12. r.data # <<>> => r.data[1] \in Nat /\ r.data[2] \in Nat
  BY <1>11
<1> QED
  BY <1>2, <1>3, <1>4, <1>5, <1>6, <1>7, <1>8, <1>9, <1>10, <1>11, <1>12

\* The reader of tags.
LEMMA TagsTyped ==
    ASSUME Made(file), ReaderTyped(file, rd, pos), TagStep
    PROVE  ReaderTyped(file, rd', pos')
<1> DEFINE a == BlockAt(file, rd.start)
           b == BlockBefore(file, rd.start + rd.length)
<1>1. rd.pc \in TagSteps
  BY DEF TagStep, ReadTags, ProbeChunk, HeadTag, FirstMm, Id3v1, Tails, TagsRead, TagSteps
<1>2. rd \in TagRecord /\ pos \in 0 .. End(file) /\ (rd.pc \in {"tags", "probe"} => rd.start <= pos)
  BY <1>1 DEF ReaderTyped
<1>3. rd.start \in Nat /\ End(file) \in Nat /\ rd.length \in Int
  BY <1>2, EndIn, TagSet
<1>4. FileEnd = End(file) /\ Hind(rd) = b /\ At(rd.start) = a
      /\ \A p : Reached(p) = ReachedIn(file, p)
  BY Here DEF Hind
<1>5. Dropped(rd, b) \in TagRecord /\ Dropped(rd, b).pc = rd.pc
      /\ Fronted(rd, a) \in TagRecord /\ Fronted(rd, a).pc = rd.pc
  BY <1>2, TagCut
<1>6. rd.start \in 0 .. End(file) => ReachedIn(file, rd.start) = rd.start
  BY ReachedTyped
<1>7. ReachedIn(file, rd.start) \in 0 .. End(file)
  BY <1>3, ReachedTyped
<1>8. ASSUME Refused PROVE ReaderTyped(file, rd', pos')
  BY <1>4, <1>7, <1>8, EndedTyped DEF Refused, Failed
<1>9. ASSUME rd' \in TagRecord, rd'.pc \in {"head", "mm", "id3v1", "tails", "over"}, pos' = pos
      PROVE  ReaderTyped(file, rd', pos')
  BY <1>2, <1>9, TagTyped
<1>10. ASSUME rd' \in TagRecord, rd'.start = rd.start, rd.start <= pos' , pos' \in 0 .. End(file)
       PROVE  ReaderTyped(file, rd', pos')
  BY <1>10, TagTyped
<1> HIDE DEF a, b
<1>11. CASE ReadTags
  <2>1. rd.pc = "tags" /\ rd.start <= pos
    BY <1>2, <1>11 DEF ReadTags
  <2>2. CASE Refused
    BY <1>8, <2>2
  <2>3. CASE rd' = [rd EXCEPT !.pc = "probe"] /\ pos' = Reached(rd.start + 12)
    <3>1. rd.start + 12 \in Nat /\ rd.start <= rd.start + 12 /\ rd.start <= End(file)
      BY <1>2, <1>3, <2>1
    <3>2. pos' \in 0 .. End(file) /\ rd.start <= pos'
      BY <1>3, <1>4, <2>3, <3>1, ReachedTyped
    <3>3. rd' \in TagRecord /\ rd'.start = rd.start
      BY <1>2, <2>3, TagSet DEF TagSteps
    <3> QED
      BY <1>10, <3>2, <3>3
  <2>4. CASE rd' = [rd EXCEPT !.pc = "head"] /\ pos' = pos
    BY <1>2, <1>9, <2>4, TagSet DEF TagSteps
  <2> QED
    BY <1>11, <2>2, <2>3, <2>4 DEF ReadTags
<1>12. CASE ProbeChunk
  <2> DEFINE c == At(pos)
  <2>1. rd.pc = "probe" /\ rd.start <= pos
    BY <1>2, <1>12 DEF ProbeChunk
  <2>2. c.head \in Nat /\ c.len \in Nat
    BY AtTyped, Here
  <2>3. Past(c) \in Nat /\ pos <= Past(c) /\ pos + c.head - rd.start \in Nat
    <3> DEFINE h == c.head
               l == c.len
               e == End(file)
               s == rd.start
    <3>1. h \in Nat /\ l \in Nat /\ pos \in 0 .. e /\ e \in Nat /\ s \in Nat /\ s <= pos
      BY <1>2, <1>3, <2>1, <2>2
    <3>2. pos + h + l + (l % 2) \in Nat /\ pos <= pos + h + l + (l % 2) /\ pos + h - s \in Nat
      <4> HIDE DEF h, l, e, s
      <4> QED
        BY <3>1
    <3> QED
      BY <3>2 DEF Past
  <2>4. Reached(Past(c)) \in 0 .. End(file) /\ rd.start <= Reached(Past(c))
    <3>1. rd.start <= Past(c) /\ rd.start <= End(file)
      BY <1>2, <1>3, <2>1, <2>3
    <3> QED
      BY <1>3, <1>4, <2>3, <3>1, ReachedTyped
  <2> HIDE DEF c
  <2>5. CASE rd' = [rd EXCEPT !.pc = "over", !.start = rd.data[1], !.length = rd.data[2]]
             /\ rd.data # <<>> /\ pos' = pos
    <3>1. rd.data[1] \in Nat /\ rd.data[2] \in Int /\ "over" \in TagSteps
      <4>1. rd.data # <<>>
        BY <2>5
      <4>2. rd.data[1] \in Nat /\ rd.data[2] \in Nat
        BY <1>2, <4>1, TagSet, Zenon
      <4> QED
        BY <4>2 DEF TagSteps
    <3>2. rd' \in TagRecord
      BY <1>2, <2>5, <3>1, Zenon DEF TagRecord
    <3>3. rd'.pc = "over"
      BY <1>2, <2>5 DEF TagRecord
    <3> QED
      BY <1>9, <2>5, <3>2, <3>3
  <2>6. CASE NotRiff
    <3>1. rd' = [rd EXCEPT !.pc = "head"] /\ pos' = pos
      BY <2>6 DEF NotRiff
    <3> QED
      BY <1>2, <1>9, <3>1, TagSet DEF TagSteps
  <2>7. CASE rd' = [rd EXCEPT !.fmt = TRUE] /\ pos' = Reached(Past(c))
    <3>1. rd' \in TagRecord /\ rd'.start = rd.start
      BY <1>2, <2>7, TagSet, Zenon
    <3> QED
      BY <1>10, <2>4, <2>7, <3>1
  <2>8. CASE rd' = [rd EXCEPT !.data = <<pos + c.head - rd.start, c.len>>] /\ pos' = Reached(Past(c))
    <3>1. <<pos + c.head - rd.start, c.len>> \in Nat \X Nat
      BY <2>2, <2>3
    <3>2. rd' \in TagRecord /\ rd'.start = rd.start
      BY <1>2, <2>8, <3>1, TagSet, Zenon
    <3> QED
      BY <1>10, <2>4, <2>8, <3>2
  <2>9. CASE rd' = rd /\ pos' = Reached(Past(c))
    BY <1>2, <1>10, <2>4, <2>9
  <2> QED
    BY <1>12, <2>5, <2>6, <2>7, <2>8, <2>9 DEF ProbeChunk, c
<1>13. CASE HeadTag
  <2> DEFINE r == [rd EXCEPT !.pc = "mm", !.title = a.kind, !.handled = TRUE]
             o == [rd EXCEPT !.pc = "mm"]
  <2>1. o \in TagRecord /\ o.pc = "mm"
    BY <1>2, TagSet DEF TagSteps
  <2>2. a.kind \in {"id3v2", "ape"} => r \in TagRecord /\ r.pc = "mm"
    <3>1. TRUE \in BOOLEAN /\ "mm" \in TagSteps
      BY DEF TagSteps
    <3>2. a.kind \in {"id3v2", "ape"} => a.kind \in {"", "id3v2", "ape", "id3v1"}
      OBVIOUS
    <3>3. a.kind \in {"id3v2", "ape"} => r \in TagRecord
      BY <1>2, <3>1, <3>2, Zenon DEF TagRecord
    <3>4. r.pc = "mm"
      BY <1>2 DEF TagRecord
    <3> QED
      BY <3>3, <3>4
  <2>3. Fronted(o, a) \in TagRecord /\ Fronted(o, a).pc = "mm"
    <3> HIDE DEF o
    <3> QED
      BY <2>1, TagCut DEF a
  <2>4. a.kind \in {"id3v2", "ape"} => Fronted(r, a) \in TagRecord /\ Fronted(r, a).pc = "mm"
    <3> HIDE DEF r
    <3>1. ASSUME r \in TagRecord, r.pc = "mm"
          PROVE  Fronted(r, a) \in TagRecord /\ Fronted(r, a).pc = "mm"
      BY <3>1, TagCut DEF a
    <3> QED
      BY <2>2, <3>1
  <2>5. \/ Refused
        \/ /\ pos' = pos
           /\ \/ rd' \in {o, Fronted(o, a)}
              \/ a.kind \in {"id3v2", "ape"} /\ rd' \in {r, Fronted(r, a)}
    BY <1>4, <1>13 DEF HeadTag
  <2> HIDE DEF r, o
  <2> QED
    BY <1>8, <1>9, <2>1, <2>2, <2>3, <2>4, <2>5
<1>14. CASE FirstMm
  <2> DEFINE o == [rd EXCEPT !.pc = "id3v1"]
             d == Dropped(rd, b)
             r == [d EXCEPT !.pc = "id3v1", !.mm = TRUE]
  <2>1. o \in TagRecord /\ o.pc = "id3v1"
    BY <1>2, TagSet DEF TagSteps
  <2>2. r \in TagRecord /\ r.pc = "id3v1"
    <3>1. TRUE \in BOOLEAN /\ "id3v1" \in TagSteps
      BY DEF TagSteps
    <3> HIDE DEF d
    <3>2. d \in TagRecord
      BY <1>5 DEF d
    <3>3. r \in TagRecord
      BY <3>1, <3>2, Zenon DEF TagRecord
    <3>4. r.pc = "id3v1"
      BY <3>2 DEF TagRecord
    <3> QED
      BY <3>3, <3>4
  <2>3. Refused \/ (pos' = pos /\ rd' \in {o, r})
    BY <1>4, <1>14 DEF FirstMm
  <2> HIDE DEF r, o
  <2> QED
    BY <1>8, <1>9, <2>1, <2>2, <2>3
<1>15. CASE Id3v1
  <2> DEFINE o == [rd EXCEPT !.pc = "tails"]
             d == Dropped(o, b)
             r == [d EXCEPT !.title = IF rd.handled THEN @ ELSE "id3v1"]
  <2>1. o \in TagRecord /\ o.pc = "tails"
    BY <1>2, TagSet DEF TagSteps
  <2>2. d \in TagRecord /\ d.pc = "tails"
    <3> HIDE DEF o
    <3> QED
      BY <2>1, TagCut DEF b
  <2>3. r \in TagRecord /\ r.pc = "tails"
    <3> HIDE DEF d
    <3>1. (IF rd.handled THEN d.title ELSE "id3v1") \in {"", "id3v2", "ape", "id3v1"}
      BY <2>2, TagSet
    <3>2. r = [d EXCEPT !.title = IF rd.handled THEN d.title ELSE "id3v1"]
      OBVIOUS
    <3> DEFINE t == IF rd.handled THEN d.title ELSE "id3v1"
    <3>3. t \in {"", "id3v2", "ape", "id3v1"} /\ r = [d EXCEPT !.title = t]
      BY <3>1, <3>2
    <3> HIDE DEF r, t
    <3> QED
      BY <2>2, <3>3, TagSet
  <2>4. pos' = pos /\ rd' \in {o, r}
    BY <1>4, <1>15 DEF Id3v1
  <2> HIDE DEF r, o
  <2> QED
    BY <1>9, <2>1, <2>3, <2>4
<1>16. CASE Tails
  <2> DEFINE r == Dropped(rd, b)
             ape == IF rd.handled THEN r ELSE [r EXCEPT !.title = "ape"]
             o == [rd EXCEPT !.pc = "over"]
  <2>1. rd.pc = "tails"
    BY <1>16 DEF Tails
  <2>2. o \in TagRecord /\ o.pc = "over"
    BY <1>2, TagSet DEF TagSteps
  <2>3. r \in TagRecord /\ r.pc = "tails"
    BY <1>5, <2>1
  <2>4. ape \in TagRecord /\ ape.pc = "tails"
    <3> HIDE DEF r
    <3> QED
      BY <2>3, TagSet
  <2>5. \/ Refused
        \/ /\ pos' = pos
           /\ rd' \in {[r EXCEPT !.lyr = TRUE], [r EXCEPT !.mm = TRUE], [r EXCEPT !.pc = "over"],
                       [ape EXCEPT !.ape = TRUE], o}
    BY <1>4, <1>16 DEF Tails, Again
  <2> HIDE DEF r, ape, o
  <2>6. /\ [r EXCEPT !.lyr = TRUE] \in TagRecord /\ [r EXCEPT !.lyr = TRUE].pc = "tails"
        /\ [r EXCEPT !.mm = TRUE] \in TagRecord /\ [r EXCEPT !.mm = TRUE].pc = "tails"
        /\ [r EXCEPT !.pc = "over"] \in TagRecord /\ [r EXCEPT !.pc = "over"].pc = "over"
        /\ [ape EXCEPT !.ape = TRUE] \in TagRecord /\ [ape EXCEPT !.ape = TRUE].pc = "tails"
    <3>1. "over" \in TagSteps
      BY DEF TagSteps
    <3> QED
      BY <2>3, <2>4, <3>1, TagSet, ZenonT(60)
  <2> QED
    BY <1>8, <1>9, <2>2, <2>5, <2>6, Zenon
<1>17. CASE TagsRead
  <2>1. rd'.pc \in {"found", "failed"} /\ pos' \in 0 .. End(file)
    BY <1>4, <1>7, <1>17 DEF TagsRead, Found, Failed
  <2> QED
    BY <2>1, EndedTyped
<1> QED
  BY <1>11, <1>12, <1>13, <1>14, <1>15, <1>16, <1>17 DEF TagStep

\* Arithmetic of a read that may end before its length.
LEMMA Read ==
    \A p, n, z \in Nat : p <= z =>
       LET t == IF p + n > z THEN z ELSE p + n
       IN  t \in 0 .. z /\ n - (t - p) \in Nat
  OBVIOUS

\* The reader of VOC files.
LEMMA VocTyped ==
    ASSUME Made(file), ReaderTyped(file, rd, pos), VocStep
    PROVE  ReaderTyped(file, rd', pos')
<1> DEFINE Ok(r) == r.pc \in {"vocBlock", "vocGot"} /\ r.rest \in Nat /\ r.rate \in Nat
                    /\ {"pc", "rest", "rate"} \subseteq DOMAIN r
<1>1. rd.pc \in {"vocBlock", "vocGot"}
  BY DEF VocStep, VocBlock, VocGot
<1>2. file.form = "VOC" /\ Ok(rd) /\ pos \in 0 .. End(file)
  BY <1>1 DEF ReaderTyped
<1>3. End(file) \in Nat /\ FileEnd = End(file) /\ pos \in Nat /\ pos <= End(file)
      /\ \A p : Reached(p) = ReachedIn(file, p)
  BY <1>2, EndIn, Here
<1>4. ASSUME Ok(rd'), pos' \in 0 .. End(file) PROVE ReaderTyped(file, rd', pos')
  <2>1. rd'.pc \in {"vocBlock", "vocGot"} /\ rd'.rest \in Nat /\ rd'.rate \in Nat
        /\ {"pc", "rest", "rate"} \subseteq DOMAIN rd'
    BY <1>4
  <2> QED
    BY <1>2, <1>4, <2>1 DEF ReaderTyped, Readers, TagSteps
<1>5. ASSUME rd' \in {VocFound(rd), Failed}, pos' \in 0 .. End(file)
      PROVE  ReaderTyped(file, rd', pos')
  <2>1. rd'.pc \in {"found", "failed"}
    <3>1. VocFound(rd).pc = "found" /\ Failed.pc = "failed"
      BY DEF VocFound, Failed
    <3> QED
      BY <1>5, <3>1
  <2> QED
    BY <1>5, <2>1, EndedTyped
<1>6. CASE VocBlock
  <2> DEFINE c == At(pos)
  <2>1. \/ c = Nothing
        \/ \E k \in 1 .. Len(file.blocks) : c = file.blocks[k] /\ pos + c.head <= End(file)
    BY AtTyped, Here
  <2>2. c.head \in Nat /\ c.len \in Nat
    BY AtTyped, Here
  <2>3. ASSUME rd' = [rd EXCEPT !.pc = "vocGot", !.silent = FALSE], pos' \in 0 .. End(file)
        PROVE  ReaderTyped(file, rd', pos')
    <3>1. Ok(rd')
      BY <1>2, <2>3
    <3> HIDE DEF Ok
    <3> QED
      BY <1>4, <2>3, <3>1
  <2>4. CASE rd.rest > 0
    <3>1. rd' = [rd EXCEPT !.pc = "vocGot", !.silent = FALSE] /\ pos' = pos
      BY <1>6, <2>4 DEF VocBlock
    <3> QED
      BY <1>2, <2>3, <3>1
  <2>5. CASE ~(rd.rest > 0) /\ c.kind \in {"nothing", "term"}
    <3>1. rd' = [rd EXCEPT !.pc = "vocGot", !.silent = FALSE]
          /\ pos' = IF c = Nothing THEN FileEnd ELSE pos + c.head
      BY <1>6, <2>5 DEF VocBlock
    <3>2. pos' \in 0 .. End(file)
      <4> DEFINE h == c.head
                 z == End(file)
      <4>1. h \in Nat /\ z \in Nat /\ pos \in Nat /\ (c = Nothing \/ pos + h <= z)
            /\ pos' = IF c = Nothing THEN z ELSE pos + h
        BY <1>3, <2>1, <2>2, <3>1
      <4> HIDE DEF h, z, c
      <4>2. pos' \in 0 .. z
        BY <4>1
      <4> QED
        BY <4>2 DEF z
    <3> QED
      BY <2>3, <3>1, <3>2
  <2>6. CASE ~(rd.rest > 0) /\ c.kind \notin {"nothing", "term"}
    <3>1. PICK k \in 1 .. Len(file.blocks) : c = file.blocks[k]
      <4>1. Nothing.kind = "nothing"
        BY DEF Nothing, Block
      <4> QED
        BY <2>1, <2>6, <4>1
    <3>2. Told(c) \in Nat /\ Told(c) <= c.len /\ c.x.n \in Nat /\ c.x.rate \in Nat
          /\ (c.kind = "silence" => c.x.rate <= 255)
      <4> DEFINE b == file.blocks[k]
      <4>1. Told(b) \in Nat /\ Told(b) <= b.len /\ b.x.n \in Nat /\ b.x.rate \in Nat
        BY <1>2, VocNumbers, Zenon
      <4>2. b.kind = "silence" => b.x.rate <= 255
        BY <1>2, VocRates, Zenon
      <4> HIDE DEF b, c
      <4>3. c = b
        BY <3>1, Zenon DEF b
      <4> QED
        BY <4>1, <4>2, <4>3, Zenon
    <3>3. c.len - Told(c) \in Nat /\ pos + c.head + Told(c) \in Nat
      <4> DEFINE h == c.head
                 l == c.len
                 t == Told(c)
      <4>1. h \in Nat /\ l \in Nat /\ t \in Nat /\ t <= l /\ pos \in Nat
        BY <1>3, <2>2, <3>2
      <4>2. l - t \in Nat /\ pos + h + t \in Nat
        <5> HIDE DEF h, l, t
        <5> QED
          BY <4>1
      <4> QED
        BY <4>2
    <3>4. (rd' = Refusal \/ rd' = VocParsed(c)) /\ pos' = Reached(pos + c.head + Told(c))
      BY <1>6, <2>6 DEF VocBlock
    <3>5. pos' \in 0 .. End(file)
      BY <1>3, <3>3, <3>4, ReachedTyped
    <3>6. c.kind = "silence" => Period(c, rd.rate) \in Nat
      <4> DEFINE n == c.x.n
                 x == c.x.rate
                 y == rd.rate
                 q == (n * (256 - x)) \div (256 - y)
      <4>1. n \in Nat /\ x \in Nat /\ y \in Nat /\ (c.kind = "silence" => x <= 255)
        BY <1>2, <3>2
      <4>2. c.kind = "silence" /\ y < 256 => q \in Nat
        <5> HIDE DEF n, x, y
        <5>1. c.kind = "silence" => 256 - x \in Nat
          BY <4>1
        <5>2. y < 256 => 256 - y \in Nat /\ 256 - y > 0
          BY <4>1
        <5>3. c.kind = "silence" => n * (256 - x) \in Nat
          BY <4>1, <5>1, Quotient, Zenon
        <5> QED
          BY <5>2, <5>3, Quotient, ZenonT(60)
      <4> HIDE DEF q
      <4> QED
        BY <4>1, <4>2 DEF Period, q
    <3> DEFINE r == [rd EXCEPT !.silent = FALSE]
               left == c.len - Told(c)
               sound == [r EXCEPT !.pc = "vocGot", !.rest = left]
    <3>7. r.rate \in Nat /\ r.rest \in Nat /\ r.pc \in {"vocBlock", "vocGot"}
          /\ {"pc", "rest", "rate"} \subseteq DOMAIN r
      BY <1>2
    <3> HIDE DEF left, r, c
    <3>8. sound.rate \in Nat /\ sound.rest \in Nat /\ sound.pc \in {"vocBlock", "vocGot"}
          /\ {"pc", "rest", "rate"} \subseteq DOMAIN sound
      BY <3>3, <3>7 DEF left
    <3> HIDE DEF sound
    <3>9. \/ VocParsed(c) = Refusal
          \/ VocParsed(c) = sound
          \/ VocParsed(c) = r
          \/ VocParsed(c) = [sound EXCEPT !.size = 1, !.extended = FALSE, !.rate = @]
          \/ VocParsed(c) = [sound EXCEPT !.size = 1, !.extended = FALSE, !.rate = c.x.rate]
          \/ VocParsed(c) = [sound EXCEPT !.size = c.x.n, !.rate = c.x.rate]
          \/ /\ VocParsed(c) = [sound EXCEPT !.rest = Period(c, rd.rate), !.silent = TRUE,
                                             !.rate = IF @ = VOC_BAD_RATE THEN c.x.rate ELSE @]
             /\ c.kind = "silence"
          \/ VocParsed(c) = [r EXCEPT !.extended = TRUE, !.rate = c.x.rate, !.channels = c.x.n]
      BY DEF VocParsed, sound, left, r
    <3>10. VocParsed(c) = Refusal \/ Ok(VocParsed(c))
      BY <3>2, <3>6, <3>7, <3>8, <3>9
    <3>11. Refusal \in {VocFound(rd), Failed}
      BY DEF Refusal
    <3>12. rd' \in {VocFound(rd), Failed} \/ Ok(rd')
      BY <3>4, <3>10, <3>11
    <3> HIDE DEF Ok
    <3> QED
      BY <1>4, <1>5, <3>5, <3>12
  <2> QED
    BY <2>4, <2>5, <2>6
<1>7. CASE VocGot
  <2> DEFINE till == Reached(pos + rd.rest)
             Fill(r) == [r EXCEPT !.pc = "vocBlock", !.part = "next"]
             Longer == [rd EXCEPT !.bytes = @ + rd.rest]
  <2>1. till \in 0 .. End(file) /\ rd.rest - (till - pos) \in Nat
    <3> DEFINE z == End(file)
               n == rd.rest
    <3>1. z \in Nat /\ n \in Nat /\ pos \in Nat /\ pos <= z /\ till = IF pos + n > z THEN z ELSE pos + n
      BY <1>2, <1>3 DEF ReachedIn
    <3>2. till \in 0 .. z /\ n - (till - pos) \in Nat
      <4> HIDE DEF z, n, till
      <4> QED
        BY <3>1, Read
    <3> QED
      BY <3>2
  <2>2. ASSUME NEW r, VocFilled(r), r = rd \/ r = Longer
        PROVE  ReaderTyped(file, rd', pos')
    <3>1. Ok(r) /\ r.rest = rd.rest
      BY <1>2, <2>2
    <3> DEFINE next == [r EXCEPT !.pc = "vocBlock", !.part = "next"]
    <3>2. Ok(next) /\ next.rest = rd.rest /\ next.pc = "vocBlock"
      BY <3>1
    <3> DEFINE left == next.rest - (till - pos)
               read == [next EXCEPT !.rest = left, !.audio = Append(@, Stretch(pos, till))]
    <3>3. left \in Nat
      BY <2>1, <3>2
    <3>4. \/ rd' = VocFound(read) /\ pos' = till
          \/ rd' = read /\ pos' = till
          \/ rd' = [next EXCEPT !.rest = 0, !.audio = Append(@, Silence(r.rest))] /\ pos' = pos
      BY <2>2, <3>1 DEF VocFilled
    <3> HIDE DEF left, next, till
    <3>5. Ok(read)
      BY <3>2, <3>3
    <3>6. Ok([next EXCEPT !.rest = 0, !.audio = Append(@, Silence(r.rest))])
      BY <3>2
    <3>7. VocFound(read).pc = "found"
      BY DEF VocFound
    <3> HIDE DEF Ok, read
    <3> QED
      BY <1>2, <1>4, <2>1, <3>4, <3>5, <3>6, <3>7, EndedTyped
  <2>3. \/ rd' \in {Failed, VocFound(rd)} /\ pos' = pos
        \/ rd' = [rd EXCEPT !.pc = "vocBlock", !.part = "read"] /\ pos' = pos
        \/ VocFilled(rd)
        \/ VocFilled(Longer)
    BY <1>7 DEF VocGot
  <2>4. Ok([rd EXCEPT !.pc = "vocBlock", !.part = "read"])
    BY <1>2
  <2>5. pos' = pos => pos' \in 0 .. End(file)
    BY <1>2
  <2> HIDE DEF Ok
  <2> QED
    BY <1>4, <1>5, <2>2, <2>3, <2>4, <2>5
<1> QED
  BY <1>6, <1>7 DEF VocStep

\* The types of a load: the reader and the cursor, the decoder that is tried, and that
\* the source is closed no more than once.
TypedAt(f, r, p, l) ==
    /\ ReaderTyped(f, r, p)
    /\ l.start = f.origin
    /\ l.i <= Len(Decoders) + 1
    /\ l.pc = "read" => l.i <= Len(Decoders)
    /\ l.closed <= 1
    /\ l.pc \in {"LoadMUS", "LoadWAV", "open", "try", "sdl"} => r = NoReader
    /\ l.pc = "read" /\ l.i = 0 => f.form \in OwnForms

\* The invariant of the types.
Typing == TypedAt(file, rd, pos, ld)

\* There are so many decoders.
LEMMA DecodersCount == Len(Decoders) \in Nat
<1>1. \A S : \A s \in Seq(S) : Len(s) \in Nat
  OBVIOUS
<1> QED
  BY <1>1, DecodersAssumption, Zenon

\* The types are those of TypeOK.
LEMMA TypingOK ==
    ASSUME IInv, Typing PROVE TypeOK
<1>1. ld \in Call
  BY DEF IInv
<1>2. Len(Decoders) \in Nat
  BY DecodersCount
<1>3. pos \in 0 .. FileEnd
  BY Here DEF Typing, TypedAt, ReaderTyped
<1>4. rd.pc \in {"none", "failed", "found", "detect", "detected", "wav", "iff",
                 "tags", "probe", "head", "mm", "id3v1", "tails", "over", "vocBlock", "vocGot"}
  BY DEF Typing, TypedAt, ReaderTyped, Readers, TagSteps
<1>5. ld.pc \in {"LoadMUS", "LoadWAV", "detect", "open", "try", "sdl", "read", "null", "loaded"}
      /\ ld.i \in Nat /\ ld.closed \in Nat
  BY <1>1 DEF Call
<1>6. ld.i \in 0 .. Len(Decoders) + 1 /\ ld.closed \in 0 .. 1
  BY <1>2, <1>5 DEF Typing, TypedAt
<1> QED
  BY <1>3, <1>4, <1>5, <1>6 DEF TypeOK

\* What is known before a step.
LEMMA TypingNow ==
    ASSUME IInv, Typing, Made(file)
    PROVE  /\ ld \in Call /\ Len(Decoders) \in Nat
           /\ ~Returned => ld.closed = 0
           /\ ReaderTyped(file, rd, pos) /\ ld.start = file.origin
           /\ ld.i <= Len(Decoders) + 1
           /\ ld.pc \in {"LoadMUS", "LoadWAV", "open", "try", "sdl"} => rd = NoReader
           /\ ld.pc = "read" => /\ ld.i <= Len(Decoders)
                                /\ (ld.i = 0 => file.form \in OwnForms)
           /\ pos \in 0 .. End(file) /\ FileEnd = End(file) /\ End(file) \in Nat /\ pos \in Nat
           /\ file.origin \in 0 .. End(file)
           /\ \A p : Reached(p) = ReachedIn(file, p)
           /\ \A p \in Nat : Reached(p) \in 0 .. End(file)
<1>1. ld \in Call /\ (~Returned => ld.closed = 0)
  BY DEF IInv, Standing
<1>2. Len(Decoders) \in Nat
  BY DecodersCount
<1>3. TypedAt(file, rd, pos, ld)
  BY DEF Typing
<1>4. pos \in 0 .. End(file) /\ FileEnd = End(file) /\ End(file) \in Nat /\ pos \in Nat
      /\ file.origin \in 0 .. End(file)
      /\ \A p : Reached(p) = ReachedIn(file, p)
  BY <1>3, EndIn, Here, ReachedTyped DEF ReaderTyped, TypedAt
<1>5. \A p \in Nat : Reached(p) \in 0 .. End(file)
  BY <1>4, ReachedTyped
<1> QED
  BY <1>1, <1>2, <1>3, <1>4, <1>5 DEF TypedAt

\* A call that returns.
LEMMA TypedNull ==
    ASSUME NEW l \in Call, l.closed = 0, l.start = file.origin, l.i <= Len(Decoders) + 1,
           \/ ld' = [Close(l) EXCEPT !.pc = "null"]
           \/ ld' = [l EXCEPT !.pc = "null"],
           ReaderTyped(file, rd', pos')
    PROVE  TypedAt(file, rd', pos', ld')
<1>1. /\ Close(l) \in Call /\ Close(l).closed <= 1
      /\ Close(l).start = l.start /\ Close(l).i = l.i
  BY Returning
<1>2. ld'.pc = "null" /\ ld'.start = l.start /\ ld'.i = l.i /\ ld'.closed <= 1
  BY <1>1 DEF Call
<1> QED
  BY <1>2 DEF TypedAt

\* A call that does not return yet.
LEMMA TypedOn ==
    ASSUME ld \in Call, ld.closed = 0, ld.start = file.origin,
           NEW pc \in {"detect", "open", "try", "sdl", "read"}, NEW i \in Nat, NEW t, NEW h,
           ld' = [ld EXCEPT !.pc = pc, !.i = i, !.type = t, !.hitch = h],
           i <= Len(Decoders) + 1, pc = "read" => i <= Len(Decoders),
           ReaderTyped(file, rd', pos'),
           pc \in {"open", "try", "sdl"} => rd' = NoReader,
           pc = "read" /\ i = 0 => file.form \in OwnForms
    PROVE  TypedAt(file, rd', pos', ld')
<1>1. ld'.pc = pc /\ ld'.start = ld.start /\ ld'.i = i /\ ld'.closed = 0
  BY DEF Call
<1> QED
  BY <1>1 DEF TypedAt

\* The same without a new decoder, type or failure.
LEMMA TypedTo ==
    ASSUME ld \in Call, ld.closed = 0, ld.start = file.origin, Len(Decoders) \in Nat,
           NEW pc \in {"detect", "sdl", "read"}, To(pc),
           ld.i <= Len(Decoders),
           ReaderTyped(file, rd', pos'),
           pc = "sdl" => rd' = NoReader,
           pc = "read" /\ ld.i = 0 => file.form \in OwnForms
    PROVE  TypedAt(file, rd', pos', ld')
<1>1. ld' = [ld EXCEPT !.pc = pc, !.i = ld.i, !.type = ld.type, !.hitch = ld.hitch]
  BY DEF Call, To
<1>2. ld.i \in Nat /\ ld.i <= Len(Decoders) + 1
  BY DEF Call
<1> QED
  BY <1>1, <1>2, TypedOn

\* detect_music_type.
LEMMA TypedDetectType ==
    ASSUME IInv, Typing, Made(file), DetectType, ld.pc \in {"LoadMUS", "LoadWAV"}
    PROVE  TypedAt(file, rd', pos', ld')
<1>1. /\ ld \in Call /\ ld.closed = 0 /\ ld.start = file.origin /\ ld.i = 0
      /\ rd = NoReader /\ pos = file.origin
  BY TypingNow DEF IInv, Standing, Returned
<1>2. pos \in 0 .. End(file) /\ FileEnd = End(file) /\ End(file) \in Nat /\ pos \in Nat
      /\ \A p : Reached(p) = ReachedIn(file, p)
  BY TypingNow
<1>3. Len(Decoders) \in Nat
  BY DecodersCount
<1>4. ASSUME NEW p \in 0 .. End(file), Untyped(p) PROVE TypedAt(file, rd', pos', ld')
  <2>1. rd'.pc = "none" /\ pos' = p
    BY <1>1, <1>4 DEF Untyped, NoReader
  <2>2. ReaderTyped(file, rd', pos')
    BY <1>4, <2>1, EndedTyped
  <2>3. \/ ld' = [Close(ld) EXCEPT !.pc = "null"]
        \/ ld' = [ld EXCEPT !.pc = "null"]
    BY <1>4 DEF Untyped, Return
  <2>4. ld.i <= Len(Decoders) + 1
    BY <1>1, <1>3
  <2> QED
    BY <1>1, <2>2, <2>3, <2>4, TypedNull
<1>5. ASSUME NEW t, Typed(t) PROVE TypedAt(file, rd', pos', ld')
  <2>1. rd' = NoReader /\ pos' = pos /\ ld' = [ld EXCEPT !.pc = "open", !.type = t]
    BY <1>1, <1>5 DEF Typed
  <2>2. ReaderTyped(file, rd', pos')
    BY <1>2, <2>1, EndedTyped DEF NoReader
  <2>3. ld' = [ld EXCEPT !.pc = "open", !.i = 0, !.type = t, !.hitch = ld.hitch]
    BY <1>1, <2>1 DEF Call
  <2>4. 0 \in Nat /\ 0 <= Len(Decoders) + 1
    BY <1>3
  <2> QED
    BY <1>1, <2>1, <2>2, <2>3, <2>4, TypedOn, ZenonT(60)
<1>6. CASE FileEnd - pos >= 24 /\ rd' = Detect /\ pos' = pos + 12 /\ To("detect")
  <2>1. pos' \in 0 .. End(file)
    BY <1>2, <1>6
  <2>2. rd'.pc = "detect" /\ rd'.start = file.origin
    BY <1>1, <1>6 DEF Detect
  <2>3. ReaderTyped(file, rd', pos')
    BY <2>1, <2>2 DEF ReaderTyped, Readers, TagSteps
  <2>4. ld.i <= Len(Decoders)
    BY <1>1, <1>3
  <2> QED
    BY <1>1, <1>3, <1>6, <2>3, <2>4, TypedTo
<1>7. \/ Untyped(FileEnd) \/ Untyped(pos) \/ Typed("mp3") \/ Typed("wav")
      \/ FileEnd - pos >= 24 /\ rd' = Detect /\ pos' = pos + 12 /\ To("detect")
  BY DEF DetectType
<1>8. FileEnd \in 0 .. End(file)
  BY <1>2
<1> QED
  BY <1>2, <1>4, <1>5, <1>6, <1>7, <1>8

\* Mix_LoadWAV_RW.
LEMMA TypedLoadWAV ==
    ASSUME IInv, Typing, Made(file), LoadWAV
    PROVE  TypedAt(file, rd', pos', ld')
<1>0. ld.pc = "LoadWAV" /\ ld \in Call
  BY TypingNow DEF LoadWAV
<1>1. /\ ld.closed = 0 /\ ld.start = file.origin /\ ld.i = 0
      /\ rd = NoReader /\ pos = file.origin
  BY <1>0, TypingNow DEF IInv, Standing, Returned
<1>2. pos \in 0 .. End(file) /\ FileEnd = End(file) /\ End(file) \in Nat /\ pos \in Nat
      /\ \A p \in Nat : Reached(p) \in 0 .. End(file)
  BY TypingNow
<1>3. Len(Decoders) \in Nat
  BY DecodersCount
<1>4. ld.i <= Len(Decoders) /\ ld.i <= Len(Decoders) + 1
  BY <1>1, <1>3
<1>5. ASSUME Return(Close(ld)) \/ Return(Close(Hitched(ld))), rd' = NoReader, pos' \in 0 .. End(file)
      PROVE  TypedAt(file, rd', pos', ld')
  <2>1. ReaderTyped(file, rd', pos')
    BY <1>5, EndedTyped DEF NoReader
  <2>2. \/ ld' = [Close(ld) EXCEPT !.pc = "null"]
        \/ ld' = [Close(Hitched(ld)) EXCEPT !.pc = "null"]
    BY <1>5 DEF Return
  <2>3. Hitched(ld) \in Call /\ Hitched(ld).closed = 0 /\ Hitched(ld).start = file.origin
        /\ Hitched(ld).i <= Len(Decoders) + 1
    BY <1>0, <1>1, <1>4, HitchedFields
  <2> QED
    BY <1>0, <1>1, <1>4, <2>1, <2>2, <2>3, TypedNull
<1>6. ASSUME NEW pc \in {"sdl", "read"}, To(pc), pos' \in 0 .. End(file), pc = "sdl" => rd' = NoReader,
             pc = "read" => /\ file.form \in OwnForms
                            /\ ReaderTyped(file, rd', pos')
      PROVE  TypedAt(file, rd', pos', ld')
  <2>1. ReaderTyped(file, rd', pos')
    BY <1>6, EndedTyped DEF NoReader
  <2> QED
    BY <1>0, <1>1, <1>3, <1>4, <1>6, <2>1, TypedTo
<1>7. CASE Return(Close(Hitched(ld))) /\ UNCHANGED <<pos, rd>>
  BY <1>1, <1>2, <1>5, <1>7
<1>8. CASE Return(Close(ld)) /\ pos' = FileEnd /\ UNCHANGED rd
  BY <1>1, <1>2, <1>5, <1>8
<1>9. CASE To("sdl") /\ UNCHANGED <<pos, rd>>
  BY <1>1, <1>2, <1>6, <1>9
<1>10. CASE rd' = IffReader("chunk") /\ pos' = Reached(pos + 12) /\ To("read")
            /\ file.form \in DOMAIN IffNeeds
  <2>1. pos + 12 \in Nat
    BY <1>2
  <2>2. pos' \in 0 .. End(file)
    BY <1>2, <1>10, <2>1
  <2>3. ReaderTyped(file, rd', pos')
    BY <1>10, <2>2 DEF ReaderTyped, Readers, TagSteps, IffReader
  <2>4. rd'.pc = "iff" /\ file.form \in OwnForms
    BY <1>10 DEF IffReader, OwnForms
  <2> QED
    BY <1>6, <1>10, <2>2, <2>3, <2>4
<1>11. CASE VocHeader /\ file.form = "VOC"
  <2>1. file.lead \in Nat /\ 20 \in Nat
    BY MadeBlocks
  <2>2. pos' \in 0 .. End(file)
    BY <1>2, <1>11, <2>1 DEF VocHeader
  <2>3. CASE rd' = VocReader /\ To("read")
    <3>1. rd'.pc = "vocBlock" /\ rd'.rest = 0 /\ rd'.rate = 0 /\ {"pc", "rest", "rate"} \subseteq DOMAIN rd'
      BY <2>3 DEF VocReader, VOC_BAD_RATE
    <3>2. ReaderTyped(file, rd', pos')
      BY <1>11, <2>2, <3>1 DEF ReaderTyped, Readers, TagSteps
    <3> QED
      BY <1>6, <1>11, <2>2, <2>3, <3>1, <3>2 DEF OwnForms
  <2>4. CASE Return(Close(ld)) /\ UNCHANGED rd
    BY <1>1, <1>5, <2>2, <2>4
  <2> QED
    BY <1>11, <2>3, <2>4 DEF VocHeader
<1>12. CASE DetectType
  BY <1>0, <1>12, TypedDetectType
<1> QED
  BY <1>7, <1>8, <1>9, <1>10, <1>11, <1>12 DEF LoadWAV

\* A reader of tags begins.
LEMMA TagStart ==
    ASSUME NEW keep \in BOOLEAN, pos \in Nat, FileEnd - pos \in Int
    PROVE  /\ TagReader(keep) \in TagRecord /\ TagReader(keep).pc = "tags"
           /\ TagReader(keep).start = pos /\ TagReader(keep).keep = keep
<1>1. "tags" \in TagSteps
  BY DEF TagSteps
<1>2. FALSE \in BOOLEAN /\ "" \in {"", "id3v2", "ape", "id3v1"}
  OBVIOUS
<1>3. <<>> \in {<<>>} \cup (Nat \X Nat)
  OBVIOUS
<1>4. TagReader(keep) \in TagRecord
  BY <1>1, <1>2, <1>3, Zenon DEF TagRecord, TagReader
<1>5. /\ TagReader(keep).pc = "tags" /\ TagReader(keep).start = pos
      /\ TagReader(keep).keep = keep
  BY Zenon DEF TagReader
<1> QED
  BY <1>4, <1>5

\* The type is known.
LEMMA TypedDetectedType ==
    ASSUME IInv, Typing, Made(file), DetectedType
    PROVE  TypedAt(file, rd', pos', ld')
<1>1. ld.pc = "detect" /\ ld \in Call /\ rd' = NoReader /\ pos' = pos
      /\ ld' = [ld EXCEPT !.pc = "open", !.type = rd.type]
  BY TypingNow DEF DetectedType
<1>2. ld.closed = 0 /\ ld.start = file.origin /\ ld.i = 0 /\ pos \in 0 .. End(file)
  BY <1>1, TypingNow DEF IInv, Standing, Returned
<1>3. ld' = [ld EXCEPT !.pc = "open", !.i = 0, !.type = rd.type, !.hitch = ld.hitch]
  BY <1>1, <1>2 DEF Call
<1>4. ReaderTyped(file, rd', pos')
  BY <1>1, <1>2, EndedTyped DEF NoReader
<1>5. 0 \in Nat /\ 0 <= Len(Decoders) + 1
  BY DecodersCount
<1>6. PICK t : ld' = [ld EXCEPT !.pc = "open", !.i = 0, !.type = t, !.hitch = ld.hitch]
  BY <1>3
<1>7. ld \in Call /\ ld.closed = 0 /\ ld.start = file.origin /\ rd' = NoReader
  BY <1>1, <1>2
<1> QED
  BY <1>4, <1>5, <1>6, <1>7, TypedOn

\* SDL_LoadWAV_RW has read the file or failed.
LEMMA TypedLoadedBySDL ==
    ASSUME IInv, Typing, Made(file), LoadedBySDL
    PROVE  TypedAt(file, rd', pos', ld')
<1>1. ld.pc = "sdl" /\ ld \in Call /\ rd' = rd /\ pos' \in {ld.start, FileEnd}
  BY TypingNow DEF LoadedBySDL
<1>2. ld.closed = 0 /\ ld.start = file.origin /\ ld.i <= Len(Decoders) + 1 /\ rd = NoReader
      /\ file.origin \in 0 .. End(file) /\ FileEnd = End(file) /\ End(file) \in Nat
  BY <1>1, TypingNow DEF IInv, Standing, Returned
<1>3. ReaderTyped(file, rd', pos')
  BY <1>1, <1>2, EndedTyped DEF NoReader
<1>4. CASE ld' = [Close(ld) EXCEPT !.pc = "loaded"]
  <2>1. /\ Close(ld) \in Call /\ Close(ld).closed <= 1
        /\ Close(ld).start = ld.start /\ Close(ld).i = ld.i
    BY <1>1, <1>2, Returning
  <2>2. ld'.pc = "loaded" /\ ld'.start = ld.start /\ ld'.i = ld.i /\ ld'.closed <= 1
    BY <1>4, <2>1 DEF Call
  <2> QED
    BY <1>2, <1>3, <2>2 DEF TypedAt
<1>5. CASE Return(Close(Hitched(ld)))
  <2>1. Hitched(ld) \in Call /\ Hitched(ld).closed = 0 /\ Hitched(ld).start = file.origin
        /\ Hitched(ld).i <= Len(Decoders) + 1
    BY <1>1, <1>2, HitchedFields
  <2>2. ld' = [Close(Hitched(ld)) EXCEPT !.pc = "null"]
    BY <1>5 DEF Return
  <2> QED
    BY <1>3, <2>1, <2>2, TypedNull
<1> QED
  BY <1>4, <1>5 DEF LoadedBySDL

\* The interfaces of the type are opened, or one fails.
LEMMA TypedOpenType ==
    ASSUME IInv, Typing, Made(file), OpenType
    PROVE  TypedAt(file, rd', pos', ld')
<1>1. ld.pc = "open" /\ ld \in Call /\ rd' = rd /\ pos' = pos
  BY TypingNow DEF OpenType
<1>2. ld.closed = 0 /\ ld.start = file.origin /\ ld.i <= Len(Decoders) + 1 /\ rd = NoReader
      /\ ReaderTyped(file, rd, pos)
  BY <1>1, TypingNow DEF IInv, Standing, Returned
<1>3. ReaderTyped(file, rd', pos')
  BY <1>1, <1>2
<1>4. CASE ld' = [ld EXCEPT !.pc = "try", !.i = 1]
  <2>1. ld' = [ld EXCEPT !.pc = "try", !.i = 1, !.type = ld.type, !.hitch = ld.hitch]
    BY <1>1, <1>4 DEF Call
  <2>2. 1 \in Nat /\ 1 <= Len(Decoders) + 1
    BY DecodersCount
  <2> QED
    BY <1>1, <1>2, <1>3, <2>1, <2>2, TypedOn
<1>5. CASE ld' = [Close(Hitched(ld)) EXCEPT !.pc = "null"] \/ ld' = [Hitched(ld) EXCEPT !.pc = "null"]
  <2>1. Hitched(ld) \in Call /\ Hitched(ld).closed = 0 /\ Hitched(ld).start = file.origin
        /\ Hitched(ld).i <= Len(Decoders) + 1
    BY <1>1, <1>2, HitchedFields
  <2> QED
    BY <1>3, <1>5, <2>1, TypedNull
<1> QED
  BY <1>4, <1>5 DEF OpenType, Return

\* A decoder is tried or left out.
LEMMA TypedTryDecoder ==
    ASSUME IInv, Typing, Made(file), TryDecoder
    PROVE  TypedAt(file, rd', pos', ld')
<1>1. ld.pc = "try" /\ ld \in Call
  BY TypingNow DEF TryDecoder
<1>2. ld.closed = 0 /\ ld.start = file.origin /\ ld.i <= Len(Decoders) + 1 /\ rd = NoReader
      /\ ReaderTyped(file, rd, pos) /\ ld.i # 0 /\ ld.i \in Nat /\ pos = file.origin
  BY <1>1, TypingNow DEF IInv, Standing, Returned, Call
<1>3. pos \in 0 .. End(file) /\ FileEnd = End(file) /\ End(file) \in Nat /\ pos \in Nat
      /\ \A p \in Nat : Reached(p) \in 0 .. End(file)
  BY TypingNow
<1>4. Len(Decoders) \in Nat
  BY DecodersCount
<1>5. CASE ld.i > Len(Decoders)
  <2>1. ld' = [Close(ld) EXCEPT !.pc = "null"] /\ rd' = rd /\ pos' = pos
    BY <1>5 DEF TryDecoder, Return
  <2> QED
    BY <1>1, <1>2, <2>1, TypedNull
<1>6. CASE ~(ld.i > Len(Decoders)) /\ ld' = [ld EXCEPT !.i = @ + 1] /\ UNCHANGED <<pos, rd>>
  <2>1. ld' = [ld EXCEPT !.pc = "try", !.i = ld.i + 1, !.type = ld.type, !.hitch = ld.hitch]
    BY <1>1, <1>6 DEF Call
  <2>2. ld.i + 1 \in Nat /\ ld.i + 1 <= Len(Decoders) + 1
    BY <1>2, <1>4, <1>6
  <2> DEFINE n == ld.i + 1
  <2>3. ld' = [ld EXCEPT !.pc = "try", !.i = n, !.type = ld.type, !.hitch = ld.hitch]
        /\ n \in Nat /\ n <= Len(Decoders) + 1
    BY <2>1, <2>2
  <2>4. ReaderTyped(file, rd', pos') /\ rd' = NoReader
    BY <1>2, <1>6
  <2> HIDE DEF n
  <2> QED
    BY <1>1, <1>2, <2>3, <2>4, TypedOn
<1>7. ASSUME ~(ld.i > Len(Decoders)), To("read"), ReaderTyped(file, rd', pos')
      PROVE  TypedAt(file, rd', pos', ld')
  <2>1. ld.i <= Len(Decoders)
    BY <1>2, <1>4, <1>7
  <2> QED
    BY <1>1, <1>2, <1>4, <1>7, <2>1, TypedTo
<1>8. ASSUME NEW keep \in BOOLEAN, ~(ld.i > Len(Decoders)), To("read"), rd' = TagReader(keep), pos' = pos
      PROVE  TypedAt(file, rd', pos', ld')
  <2> DEFINE n == FileEnd - pos
  <2>1. n \in Int
    BY <1>3
  <2>2. pos \in Nat /\ FileEnd - pos \in Int
    BY <1>3
  <2>3. rd' \in TagRecord /\ rd'.start = pos /\ rd'.pc = "tags"
    <3>1. TagReader(keep) \in TagRecord /\ TagReader(keep).start = pos /\ TagReader(keep).pc = "tags"
      BY <2>2, TagStart, Zenon
    <3> QED
      BY <1>8, <3>1, Zenon
  <2>4. ReaderTyped(file, rd', pos')
    <3>1. rd'.start <= pos' /\ pos' \in 0 .. End(file)
      <4>1. pos' = pos
        BY <1>8, Zenon
      <4> QED
        BY <1>3, <2>3, <4>1
    <3> QED
      BY <2>3, <3>1, TagTyped
  <2>5. ~(ld.i > Len(Decoders)) /\ To("read")
    BY <1>8
  <2> QED
    BY <1>7, <2>4, <2>5
<1>9. ASSUME ~(ld.i > Len(Decoders)), To("read"), pos' = Reached(pos + 12),
             rd' \in {WavReader, IffReader("music")}
      PROVE  TypedAt(file, rd', pos', ld')
  <2>1. pos + 12 \in Nat
    BY <1>3
  <2>2. pos' \in 0 .. End(file)
    BY <1>3, <1>9, <2>1
  <2>3. rd'.pc \in {"wav", "iff"} /\ "pc" \in DOMAIN rd'
    BY <1>9 DEF WavReader, IffReader
  <2>4. ReaderTyped(file, rd', pos')
    BY <2>2, <2>3 DEF ReaderTyped, Readers, TagSteps
  <2> QED
    BY <1>7, <1>9, <2>3, <2>4
<1>10. \/ ld.i > Len(Decoders)
       \/ ~(ld.i > Len(Decoders)) /\ ld' = [ld EXCEPT !.i = @ + 1] /\ UNCHANGED <<pos, rd>>
       \/ /\ ~(ld.i > Len(Decoders)) /\ To("read")
          /\ \/ rd' = TagReader(Decoders[ld.i].front = "keep") /\ pos' = pos
             \/ rd' \in {WavReader, IffReader("music")} /\ pos' = Reached(pos + 12)
  BY DEF TryDecoder
<1>11. (Decoders[ld.i].front = "keep") \in BOOLEAN
  OBVIOUS
<1>12. CASE /\ ~(ld.i > Len(Decoders)) /\ To("read")
            /\ rd' = TagReader(Decoders[ld.i].front = "keep") /\ pos' = pos
  <2>1. PICK keep \in BOOLEAN : rd' = TagReader(keep)
    BY <1>11, <1>12, Zenon
  <2> QED
    BY <1>8, <1>12, <2>1
<1> QED
  BY <1>5, <1>6, <1>9, <1>10, <1>12

\* A reader reads on.
LEMMA TypedReadOn ==
    ASSUME IInv, Typing, Made(file), ReadOn
    PROVE  TypedAt(file, rd', pos', ld')
<1>1. ld' = ld /\ ld.pc \in {"detect", "read"} /\ TypedAt(file, rd, pos, ld)
  BY DEF ReadOn, Typing
<1>2. ReaderTyped(file, rd, pos) /\ (ChunkStep \/ TagStep \/ VocStep)
  BY <1>1 DEF ReadOn, TypedAt
<1>3. ReaderTyped(file, rd', pos')
  BY <1>2, ChunkTyped, TagsTyped, VocTyped
<1> QED
  BY <1>1, <1>3 DEF TypedAt

\* The decoder did not take the file.
LEMMA TypedNotOpened ==
    ASSUME IInv, Typing, Made(file), NotOpened
    PROVE  TypedAt(file, rd', pos', ld')
<1>1. ld.pc = "read" /\ ld \in Call /\ rd' = NoReader
  BY TypingNow DEF NotOpened
<1>2. ld.closed = 0 /\ ld.start = file.origin /\ ld.i <= Len(Decoders) /\ ld.i \in Nat
      /\ pos \in 0 .. End(file) /\ file.origin \in 0 .. End(file)
  BY <1>1, TypingNow DEF IInv, Standing, Returned, Call
<1>3. Len(Decoders) \in Nat /\ ld.i <= Len(Decoders) + 1 /\ ld.i + 1 <= Len(Decoders) + 1
      /\ ld.i + 1 \in Nat
  BY <1>2, DecodersCount
<1>4. PICK l \in {ld, Hitched(ld)} :
        IF OwnLoader THEN Return(Close(l)) /\ UNCHANGED pos
        ELSE ld' = [TryNext EXCEPT !.pc = "try", !.hitch = l.hitch] /\ pos' = ld.start
  BY DEF NotOpened
<1>5. l \in Call /\ l.closed = 0 /\ l.start = file.origin /\ l.i <= Len(Decoders) + 1
  BY <1>1, <1>2, <1>3, <1>4, HitchedFields
<1>6. pos' \in 0 .. End(file)
  BY <1>2, <1>4
<1>7. ReaderTyped(file, rd', pos')
  BY <1>1, <1>6, EndedTyped DEF NoReader
<1>8. CASE OwnLoader
  <2>1. ld' = [Close(l) EXCEPT !.pc = "null"]
    BY <1>4, <1>8 DEF Return
  <2> QED
    BY <1>5, <1>7, <2>1, TypedNull
<1>9. CASE ~OwnLoader
  <2>1. ld' = [TryNext EXCEPT !.pc = "try", !.hitch = l.hitch]
    BY <1>4, <1>9
  <2>2. ld' = [ld EXCEPT !.pc = "try", !.i = ld.i + 1, !.type = ld.type, !.hitch = l.hitch]
    BY <1>1, <2>1 DEF Call, TryNext
  <2> QED
    BY <1>1, <1>2, <1>3, <1>7, <2>2, TypedOn
<1> QED
  BY <1>8, <1>9

\* The decoder took the file.
LEMMA TypedOpened ==
    ASSUME IInv, Typing, Made(file), Opened
    PROVE  TypedAt(file, rd', pos', ld')
<1>1. /\ ld.pc = "read" /\ ld \in Call /\ pos' = pos /\ rd.pc = "found"
      /\ rd'.pc = "found" /\ (~CutShort => rd' = rd)
  BY TypingNow DEF Opened, CutShort, Found
<1>2. ld.closed = 0 /\ ld.start = file.origin /\ ld.i <= Len(Decoders) + 1
      /\ ReaderTyped(file, rd, pos)
  BY <1>1, TypingNow DEF IInv, Standing, Returned
<1>3. /\ Close(ld) \in Call /\ Close(ld).closed <= 1
      /\ Close(ld).start = ld.start /\ Close(ld).i = ld.i
  BY <1>1, <1>2, Returning
<1>4. CASE ld' = [Hitched(Deleted) EXCEPT !.pc = "null"] /\ rd' = rd
  <2>1. Hitched(Close(ld)) = Close(Hitched(ld))
    BY <1>1 DEF Hitched, Close, Call
  <2>2. Hitched(ld) \in Call /\ Hitched(ld).closed = 0 /\ Hitched(ld).start = file.origin
        /\ Hitched(ld).i <= Len(Decoders) + 1
    BY <1>1, <1>2, HitchedFields
  <2>3. ld' = [Close(Hitched(ld)) EXCEPT !.pc = "null"]
    BY <1>4, <2>1 DEF Deleted
  <2> QED
    BY <1>1, <1>2, <1>4, <2>2, <2>3, TypedNull
<1>5. ASSUME NEW l \in Call, ld' = [l EXCEPT !.pc = "loaded"],
             l.closed <= 1, l.start = ld.start, l.i = ld.i
      PROVE  TypedAt(file, rd', pos', ld')
  <2>1. l.start = file.origin /\ l.i <= Len(Decoders) + 1
    BY <1>1, <1>2, <1>3, <1>5
  <2>2. ld'.pc = "loaded" /\ ld'.start = l.start /\ ld'.i = l.i /\ ld'.closed <= 1
    BY <1>5, <2>1 DEF Call
  <2>3. ReaderTyped(file, rd', pos')
    <3>1. pos' \in 0 .. End(file)
      BY <1>1, <1>2 DEF ReaderTyped
    <3> QED
      BY <1>1, <3>1, EndedTyped
  <2> QED
    BY <1>1, <1>2, <2>1, <2>2, <2>3 DEF TypedAt
<1>6. \/ ld' = [Hitched(Deleted) EXCEPT !.pc = "null"] /\ rd' = rd
      \/ ld' = [ld EXCEPT !.pc = "loaded"]
      \/ ld' = [Close(ld) EXCEPT !.pc = "loaded"]
      \/ ld' = [[Close(ld) EXCEPT !.short = TRUE] EXCEPT !.pc = "loaded"]
  BY <1>3, ShortFields DEF Opened, CutShort, Return, Deleted
<1>7. CASE ld' = [[Close(ld) EXCEPT !.short = TRUE] EXCEPT !.pc = "loaded"]
  <2> DEFINE l == [Close(ld) EXCEPT !.short = TRUE]
  <2>1. l \in Call /\ l.closed <= 1 /\ l.start = ld.start /\ l.i = ld.i
    BY <1>3, ShortFields
  <2> HIDE DEF l
  <2>2. ld' = [l EXCEPT !.pc = "loaded"]
    BY <1>7 DEF l
  <2> QED
    BY <1>5, <2>1, <2>2
<1>8. CASE ld' = [ld EXCEPT !.pc = "loaded"] \/ ld' = [Close(ld) EXCEPT !.pc = "loaded"]
  <2>1. ld.closed <= 1
    BY <1>2
  <2> QED
    BY <1>1, <1>3, <1>5, <1>8, <2>1
<1> QED
  BY <1>1, <1>4, <1>6, <1>7, <1>8

\* A step keeps the types, and a call begins with them.
LEMMA NextTyping ==
    ASSUME IInv, Typing, Made(file), Next
    PROVE  Typing'
<1>1. TypedAt(file, rd', pos', ld')
  <2>1. CASE LoadMUS
    <3>1. DetectType /\ ld.pc \in {"LoadMUS", "LoadWAV"}
      BY <2>1 DEF LoadMUS
    <3> QED
      BY <3>1, TypedDetectType
  <2> QED
    BY <2>1, TypedDetectedType, TypedLoadWAV, TypedLoadedBySDL, TypedOpenType,
       TypedTryDecoder, TypedReadOn, TypedNotOpened, TypedOpened DEF Next
<1>2. file' = file
  BY FileKept
<1>3. TypedAt(file', rd', pos', ld')
  BY <1>1, <1>2, Zenon
<1> QED
  BY <1>3 DEF Typing

\* A call begins at the start of the file, with nothing closed.
LEMMA InitTyping ==
    ASSUME Init, Made(file)
    PROVE  Typing
<1>1. pos = file.origin /\ rd = NoReader
  BY DEF Init
<1>2. PICK call \in {"music", "chunk"}, freesrc \in BOOLEAN :
        ld = [pc |-> IF call = "music" THEN "LoadMUS" ELSE "LoadWAV", call |-> call,
              freesrc |-> freesrc, start |-> pos, type |-> "none", i |-> 0, closed |-> 0,
              hitch |-> FALSE, short |-> FALSE]
  BY DEF Init
<1>3. ld.pc \in {"LoadMUS", "LoadWAV"} /\ ld.start = pos /\ ld.i = 0 /\ ld.closed = 0
  BY <1>2
<1>4. ReaderTyped(file, rd, pos)
  BY <1>1, ReachedTyped, EndedTyped DEF NoReader
<1>5. 0 <= Len(Decoders) + 1
  BY DecodersCount
<1> QED
  BY <1>1, <1>3, <1>4, <1>5 DEF Typing, TypedAt

-----------------------------------------------------------------------------
(* The whole load of a well-formed file.                                    *)

Good(f) == GoodRiff(f) \/ GoodIff(f) \/ GoodMpeg(f) \/ GoodVoc(f)

\* What is found in a file, by a decoder that keeps the tag in front or cuts it.
AudioIn(f, keep) ==
    CASE f.form = "VOC" -> AudioTill(f, Len(f.blocks) + 1)
      [] f.form = "RIFF" -> <<Stretch(DataFrom(f), DataFrom(f) + DataLen(f))>>
      [] f.form = "MPEG" -> <<Stretch(MpegFrom(f, keep), Edge(f, The(f, "audio") + 1))>>
      [] OTHER -> <<Stretch(SoundFrom(f), SoundFrom(f) + SoundLen(f))>>

\* The title, and all that is found.
TitleIn(f) == IF f.form = "MPEG" THEN TitleBehind(f, The(f, "audio")) ELSE ""

FoundIn(f, r, keep) ==
    /\ r.audio = AudioIn(f, keep) /\ r.title = TitleIn(f)
    /\ f.form = "VOC" => r.bytes = BytesFound(f)

\* What is loaded where memory runs out.
BegunIn(f, r, keep) ==
    /\ Beginning(r.audio, AudioIn(f, keep)) /\ r.title = TitleIn(f)
    /\ f.form # "VOC"

\* Where a reader of a well-formed file is.
ReadAt(f, r, p, keep) ==
    \/ r.pc = "found" /\ FoundIn(f, r, keep)
    \/ r.pc = "wav" /\ GoodRiff(f) /\ RiffType(f) = "wav" /\ WavAt(f, r, p)
    \/ r.pc = "iff" /\ GoodIff(f) /\ IffAt(f, r, p)
    \/ /\ r.pc \in TagSteps /\ r \in TagRecord /\ r.keep = keep
       /\ \/ GoodRiff(f) /\ RiffType(f) = "mp3" /\ ProbeAt(f, r, p)
          \/ GoodMpeg(f) /\ MpegAt(f, r)
    \/ r.pc \in {"vocBlock", "vocGot"} /\ GoodVoc(f) /\ VocAt(f, r, p)

\* The type of files that a decoder must have.
TypeFor(f) == IF f.form = "RIFF" THEN RiffType(f) ELSE IF f.form = "MPEG" THEN "mp3" ELSE "wav"

\* Whether the decoder that is tried keeps the tag in front.
Keeps(i) == Decoders[i].front = "keep"

\* Where the load of a well-formed file is.
FitAt(f, r, p, l) ==
    /\ l.pc = "null" => l.hitch
    /\ l.pc \in {"open", "try"} => f.form # "VOC" /\ l.type = TypeFor(f)
    /\ l.pc = "read" /\ l.i # 0 => f.form # "VOC" /\ l.type = TypeFor(f)
    /\ l.pc = "try" => l.hitch \/ \E j \in 1 .. Len(Decoders) : j >= l.i /\ Decoders[j].type = l.type
    /\ l.pc = "detect" => /\ GoodRiff(f)
                          /\ r.pc = "detect" => DetectAt(f, r, p)
                          /\ r.pc = "detected" => r.type = RiffType(f)
    /\ l.pc = "read" => ReadAt(f, r, p, Keeps(l.i))
    /\ l.pc = "loaded" => \/ r.pc = "none"
                          \/ r.pc = "found" /\ FoundIn(f, r, Keeps(l.i))
                          \/ r.pc = "found" /\ l.short /\ BegunIn(f, r, Keeps(l.i))

\* The files the theorem is about; Mix_LoadMUSType_RW_ARG has no loader of VOC files.
Suited(f, l) == Good(f) /\ (f.form = "VOC" => l.call = "chunk")

\* The invariant of the readers.
Fit == Suited(file, ld) => FitAt(file, rd, pos, ld)

\* The forms, one of them at a time.
LEMMA GoodForms ==
    ASSUME NEW f, Good(f)
    PROVE  /\ f.form \in {"RIFF", "MPEG", "VOC"} \cup DOMAIN IffNeeds
           /\ f.form = "RIFF" => GoodRiff(f)
           /\ f.form = "MPEG" => GoodMpeg(f)
           /\ f.form = "VOC" => GoodVoc(f)
           /\ f.form \in DOMAIN IffNeeds => GoodIff(f)
<1>1. GoodRiff(f) => f.form = "RIFF"
  BY DEF GoodRiff
<1>2. GoodMpeg(f) => f.form = "MPEG"
  BY DEF GoodMpeg
<1>3. GoodVoc(f) => f.form = "VOC"
  BY DEF GoodVoc
<1>4. GoodIff(f) => f.form \in DOMAIN IffNeeds
  BY DEF GoodIff
<1>5. DOMAIN IffNeeds = {"AIFF", "AIFC", "8SVX"}
  BY DEF IffNeeds
<1> QED
  BY <1>1, <1>2, <1>3, <1>4, <1>5 DEF Good

\* Two chunks make 28 bytes.
LEMMA TwoChunks ==
    ASSUME NEW f, Made(f), f.form \in {"RIFF", "AIFF", "AIFC", "8SVX"}, f.cut = 0,
           NEW j \in 1 .. Len(f.blocks), NEW k \in 1 .. Len(f.blocks), j # k
    PROVE  f.origin + 24 <= End(f) /\ f.origin + 12 = Edge(f, 1)
<1>1. ASSUME NEW a \in 1 .. Len(f.blocks), NEW b \in 1 .. Len(f.blocks), a < b
      PROVE  f.origin + 24 <= End(f)
  <2>1. f.lead = 12 /\ f.origin \in Nat /\ Len(f.blocks) \in Nat
    BY ChunkFacts, MadeBlocks
  <2>2. Total(f.blocks[a]) \in Nat /\ Total(f.blocks[a]) >= 8
    <3>1. /\ f.blocks[a].head = 8 /\ Total(f.blocks[a]) \in Nat
          /\ f.blocks[a].len \in Nat /\ f.blocks[a].pad \in Nat
          /\ Total(f.blocks[a]) = f.blocks[a].head + f.blocks[a].len + f.blocks[a].pad
      BY ChunkFacts, MadeBlocks, ZenonT(60)
    <3>2. \A l, p \in Nat : 8 + l + p >= 8
      OBVIOUS
    <3> QED
      BY <3>1, <3>2
  <2>3. f.blocks[b].head = 8 /\ f.blocks[b].len \in Nat /\ Edge(f, b) + 8 + f.blocks[b].len <= End(f)
    BY ChunkFacts, ZenonT(60)
  <2>4. Edge(f, a) \in Nat /\ Edge(f, a) >= f.origin + f.lead
    <3>1. a \in 1 .. Len(f.blocks) + 1
      BY <2>1
    <3> QED
      BY <3>1, EdgeIn
  <2>5. Edge(f, b) \in Nat /\ End(f) \in Nat
    <3>1. b \in 1 .. Len(f.blocks) + 1
      BY <2>1
    <3> QED
      BY <3>1, EdgeIn, EndIn
  <2>6. Edge(f, a) + Total(f.blocks[a]) <= Edge(f, b)
    <3>1. b \in a + 1 .. Len(f.blocks) + 1
      BY <1>1, <2>1
    <3> QED
      BY <3>1, EdgeApart
  <2> DEFINE t == Total(f.blocks[a])
             m == f.blocks[b].len
             x == Edge(f, a)
             y == Edge(f, b)
             z == End(f)
             o == f.origin
  <2>7. t \in Nat /\ t >= 8 /\ m \in Nat /\ y + 8 + m <= z /\ x \in Nat /\ y \in Nat /\ z \in Nat
        /\ o \in Nat /\ x >= o + 12 /\ x + t <= y
    BY <2>1, <2>2, <2>3, <2>4, <2>5, <2>6
  <2> HIDE DEF t, m, x, y, z, o
  <2>8. o + 24 <= z
    BY <2>7
  <2> QED
    BY <2>8 DEF o, z
<1>2. j < k \/ k < j
  BY MadeBlocks
<1>3. f.origin + 12 = Edge(f, 1)
  BY ChunkFacts, EdgeNext, ZenonT(60)
<1> QED
  BY <1>1, <1>2, <1>3

\* A well-formed file is as long as what is looked at of it, and its first block is where
\* a reader begins.
LEMMA GoodLong ==
    ASSUME NEW f, Made(f), Good(f)
    PROVE  /\ f.origin + 24 <= End(f)
           /\ f.form \in {"RIFF"} \cup DOMAIN IffNeeds => f.origin + 12 = Edge(f, 1)
           /\ f.form = "MPEG" => f.origin = Edge(f, 1)
           /\ f.form = "VOC" => f.lead = Edge(f, 1) /\ f.origin = 0
           /\ Len(f.blocks) \in Nat /\ Len(f.blocks) >= 1
<1>0. Len(f.blocks) \in Nat /\ DOMAIN f.blocks = 1 .. Len(f.blocks)
  BY MadeBlocks
<1>1. CASE f.form = "RIFF"
  <2>1. GoodRiff(f)
    BY <1>1, GoodForms
  <2>2. The(f, "fmt") \in 1 .. Len(f.blocks) /\ The(f, "data") \in 1 .. Len(f.blocks) /\ f.cut = 0
    BY <2>1, RiffFacts
  <2>3. The(f, "fmt") # The(f, "data")
    <3>1. Sole(f, "fmt") /\ Sole(f, "data")
      BY <2>1 DEF GoodRiff
    <3>2. f.blocks[The(f, "fmt")].kind = "fmt" /\ f.blocks[The(f, "data")].kind = "data"
      BY <3>1, SoleOne
    <3> QED
      BY <3>2
  <2>4. f.origin + 24 <= End(f) /\ f.origin + 12 = Edge(f, 1)
    BY <1>1, <2>2, <2>3, TwoChunks
  <2> QED
    BY <1>0, <1>1, <2>2, <2>4
<1>2. CASE f.form \in DOMAIN IffNeeds
  <2>1. GoodIff(f)
    BY <1>2, GoodForms
  <2>2. f.form \in {"AIFF", "AIFC", "8SVX"} /\ f.cut = 0
    BY <2>1, IffFacts
  <2>3. PICK a \in {"SSND", "VHDR"}, b \in {"COMM", "BODY"} : Sole(f, a) /\ Sole(f, b)
    BY <2>1, <2>2 DEF GoodIff, IffNeeds
  <2>4. The(f, a) \in 1 .. Len(f.blocks) /\ The(f, b) \in 1 .. Len(f.blocks) /\ The(f, a) # The(f, b)
    <3>1. The(f, a) \in DOMAIN f.blocks /\ f.blocks[The(f, a)].kind = a
      BY <2>3, SoleOne
    <3>2. The(f, b) \in DOMAIN f.blocks /\ f.blocks[The(f, b)].kind = b
      BY <2>3, SoleOne
    <3> QED
      BY <1>0, <3>1, <3>2
  <2>5. f.origin + 24 <= End(f) /\ f.origin + 12 = Edge(f, 1)
    BY <2>2, <2>4, TwoChunks
  <2> QED
    BY <1>0, <2>2, <2>4, <2>5
<1>3. CASE f.form = "MPEG"
  <2>1. GoodMpeg(f)
    BY <1>3, GoodForms
  <2>2. f.origin + 24 <= End(f) /\ Edge(f, 1) = f.origin /\ The(f, "audio") \in 1 .. Len(f.blocks)
    BY <2>1, MpegLong, MpegFacts
  <2> QED
    BY <1>0, <1>3, <2>2 DEF IffNeeds
<1>4. CASE f.form = "VOC"
  <2>1. GoodVoc(f)
    BY <1>4, GoodForms
  <2>2. f.lead = 26 /\ f.origin = 0 /\ f.cut = 0
    BY <1>4, <2>1 DEF Made, VocMade, GoodVoc
  <2>3. Edge(f, 1) = f.lead
    BY <2>2, EdgeNext
  <2>4. End(f) \in Nat /\ End(f) = Edge(f, Len(f.blocks) + 1)
    BY <2>2, EndIn
  <2>5. Len(f.blocks) + 1 \in 1 .. Len(f.blocks) + 1
    BY <1>0
  <2>6. End(f) >= f.origin + f.lead
    BY <2>4, <2>5, EdgeIn
  <2>7. Len(f.blocks) >= 1
    <3>1. PICK k \in Sounds(f) : TRUE
      BY <2>1 DEF GoodVoc
    <3>2. k \in 1 .. Len(f.blocks)
      BY <1>0 DEF Sounds, KindsAt
    <3> QED
      BY <1>0, <3>2
  <2> QED
    BY <1>0, <1>4, <2>2, <2>3, <2>4, <2>6, <2>7 DEF IffNeeds
<1> QED
  BY <1>1, <1>2, <1>3, <1>4, GoodForms

\* The readers begin where what they know holds.
LEMMA WavStart ==
    ASSUME NEW f, Made(f), GoodRiff(f)
    PROVE  WavAt(f, WavReader, Edge(f, 1))
<1>1. Len(f.blocks) \in Nat /\ The(f, "fmt") \in 1 .. Len(f.blocks) /\ The(f, "data") \in 1 .. Len(f.blocks)
  BY RiffFacts
<1>2. 1 \in 1 .. Len(f.blocks) + 1 /\ ~(The(f, "fmt") < 1) /\ ~(The(f, "data") < 1)
  BY <1>1
<1>3. WavReader.pc = "wav" /\ ~WavReader.fmt /\ ~WavReader.data
  BY Zenon DEF WavReader
<1>4. WavReader \in WavRecord
  <2>1. FALSE \in BOOLEAN /\ 0 \in Nat /\ "wav" \in {"wav"}
    OBVIOUS
  <2> QED
    BY <2>1, Zenon DEF WavReader, WavRecord
<1> QED
  BY <1>2, <1>3, <1>4, Zenon DEF WavAt

\* The reader of IFF chunks starts at the first.
LEMMA IffStart ==
    ASSUME NEW f, Made(f), GoodIff(f), NEW by \in {"chunk", "music"}
    PROVE  IffAt(f, IffReader(by), Edge(f, 1)) /\ IffReader(by).pc = "iff"
<1>1. Len(f.blocks) \in Nat /\ FromChunk(f) \in 1 .. Len(f.blocks) /\ LenChunk(f) \in 1 .. Len(f.blocks)
  BY IffFacts
<1>2. 1 \in 1 .. Len(f.blocks) /\ ~(FromChunk(f) < 1) /\ ~(LenChunk(f) < 1) /\ 1 .. 1 - 1 = {}
  BY <1>1
<1>3. IffReader(by).pc = "iff" /\ IffReader(by).seen = {}
  BY DEF IffReader
<1>4. IffReader(by) \in IffRecord(f)
  BY DEF IffReader, IffRecord
<1>5. {f.blocks[j].kind : j \in 1 .. 1 - 1} = {}
  BY <1>2
<1> QED
  BY <1>2, <1>3, <1>4, <1>5 DEF IffAt

\* The fields of the reader of tags at its start.
LEMMA TagFields ==
    ASSUME NEW keep \in BOOLEAN
    PROVE  LET r == TagReader(keep)
           IN  /\ r.pc = "tags" /\ r.start = pos /\ r.length = FileEnd - pos /\ r.title = ""
               /\ ~r.handled /\ ~r.mm /\ ~r.lyr /\ ~r.ape /\ ~r.fmt /\ r.data = <<>>
  BY Zenon DEF TagReader

\* The reader of tags starts in a RIFF file.
LEMMA ProbeStart ==
    ASSUME pos = file.origin, NEW keep \in BOOLEAN
    PROVE  ProbeAt(file, TagReader(keep), pos)
<1> DEFINE r == TagReader(keep)
<1>1. /\ r.pc = "tags" /\ r.start = pos /\ r.length = FileEnd - pos /\ r.title = ""
      /\ ~r.fmt /\ r.data = <<>>
  BY TagFields
<1>2. FileEnd = End(file)
  BY Here
<1> HIDE DEF r
<1>3. ProbeAt(file, r, pos)
  BY <1>1, <1>2 DEF ProbeAt
<1> QED
  BY <1>3 DEF r

\* The reader of tags starts in MPEG audio.
LEMMA MpegStart ==
    ASSUME pos = file.origin, NEW keep \in BOOLEAN
    PROVE  MpegAt(file, TagReader(keep))
<1> DEFINE r == TagReader(keep)
<1>1. /\ r.pc = "tags" /\ r.start = pos /\ r.length = FileEnd - pos /\ r.title = ""
      /\ ~r.handled /\ ~r.mm /\ ~r.lyr /\ ~r.ape
  BY TagFields
<1>2. FileEnd = End(file)
  BY Here
<1> HIDE DEF r
<1>3. MpegAt(file, r)
  BY <1>1, <1>2 DEF MpegAt
<1> QED
  BY <1>3 DEF r

\* The reader of VOC files starts at the first block.
LEMMA VocStart ==
    ASSUME NEW f, Made(f), GoodVoc(f)
    PROVE  VocAt(f, VocReader, Edge(f, 1))
<1> DEFINE n == Len(f.blocks)
<1>1. n \in Nat /\ DOMAIN f.blocks = 1 .. n /\ Sounds(f) \subseteq 1 .. n
  BY VocFacts
<1>2. 1 \in 1 .. n + 1
  BY <1>1
<1>3. Rated(f) \subseteq 1 .. n /\ \A kinds : KindsAt(f, kinds) \subseteq 1 .. n
  BY <1>1 DEF Rated, Plain, KindsAt
<1>4. \A S : S \subseteq 1 .. n => (~\E j \in S : j < 1) /\ (~\E j \in S : j = 1 - 1) /\ (\A j \in S : j >= 1)
  BY <1>1
<1>5. /\ VocReader.pc = "vocBlock" /\ VocReader.part = "first" /\ VocReader.rest = 0
      /\ VocReader.rate = VOC_BAD_RATE /\ VocReader.size = 0 /\ VocReader.channels = 1
      /\ ~VocReader.extended /\ VocReader.bytes = 0 /\ VocReader.audio = <<>>
  BY Zenon DEF VocReader
<1>6. VocReader \in VocRecord
  <2>1. FALSE \in BOOLEAN /\ 0 \in Nat /\ 1 \in Nat /\ <<>> \in Stretches /\ VOC_BAD_RATE \in Nat
        /\ "vocBlock" \in {"vocBlock", "vocGot"} /\ "first" \in {"first", "next", "read"}
    BY DEF Stretches, VOC_BAD_RATE
  <2> QED
    BY <2>1, Zenon DEF VocReader, VocRecord
<1>7. VocSo(f, VocReader, 1)
  <2>1. /\ ~\E j \in Rated(f) : j < 1
        /\ ~\E j \in KindsAt(f, {"data", "data16"}) : j < 1
        /\ ~\E j \in KindsAt(f, {"extended"}) : j < 1
        /\ ~\E j \in KindsAt(f, {"extended"}) : j = 1 - 1
    BY <1>3, <1>4
  <2> QED
    BY <1>5, <2>1 DEF VocSo
<1>8. SumOf(<<>>) = 0
  <2>1. Len(<<>>) = 0
    OBVIOUS
  <2>2. Sums(<<>>) = [k \in 0 .. Len(<<>>) |-> IF k = 0 THEN 0 ELSE Sums(<<>>)[k - 1] + Size(<<>>[k])]
    BY <2>1, SumsEquation
  <2>3. Sums(<<>>)[0] = 0
    BY <2>1, <2>2
  <2> QED
    BY <2>1, <2>3 DEF SumOf
<1>9. VocHeard(f, VocReader, 1)
  <2>1. AudioTill(f, 1) = <<>>
    BY DEF AudioTill
  <2>2. \A j \in Sounds(f) : j >= 1
    BY <1>1
  <2> QED
    BY <1>5, <1>8, <2>1, <2>2 DEF VocHeard
<1> QED
  BY <1>2, <1>5, <1>6, <1>7, <1>9 DEF VocAt

\* What a reader finds is what is in the file.
LEMMA FoundWell ==
    ASSUME NEW f, Good(f), NEW keep, NEW r,
           \/ GoodRiff(f) /\ r = Found(DataFrom(f), DataFrom(f) + DataLen(f), "")
           \/ GoodIff(f) /\ r = Found(SoundFrom(f), SoundFrom(f) + SoundLen(f), "")
           \/ GoodMpeg(f) /\ r = Found(MpegFrom(f, keep), Edge(f, The(f, "audio") + 1),
                                       TitleBehind(f, The(f, "audio")))
           \/ GoodVoc(f) /\ r = VocEnds(f)
    PROVE  r.pc = "found" /\ FoundIn(f, r, keep)
<1>1. GoodIff(f) => f.form \in {"AIFF", "AIFC", "8SVX"}
  BY DEF GoodIff, IffNeeds
<1>2. CASE GoodRiff(f) /\ r = Found(DataFrom(f), DataFrom(f) + DataLen(f), "")
  BY <1>2 DEF Found, FoundIn, AudioIn, TitleIn, GoodRiff
<1>3. CASE GoodIff(f) /\ r = Found(SoundFrom(f), SoundFrom(f) + SoundLen(f), "")
  BY <1>1, <1>3 DEF Found, FoundIn, AudioIn, TitleIn
<1>4. CASE GoodMpeg(f) /\ r = Found(MpegFrom(f, keep), Edge(f, The(f, "audio") + 1),
                                    TitleBehind(f, The(f, "audio")))
  <2>1. f.form = "MPEG"
    BY <1>4 DEF GoodMpeg
  <2>2. r.pc = "found" /\ r.title = TitleBehind(f, The(f, "audio"))
        /\ r.audio = <<Stretch(MpegFrom(f, keep), Edge(f, The(f, "audio") + 1))>>
    BY <1>4, Zenon DEF Found
  <2>3. AudioIn(f, keep) = <<Stretch(MpegFrom(f, keep), Edge(f, The(f, "audio") + 1))>>
    BY <2>1, Zenon DEF AudioIn
  <2>4. TitleIn(f) = TitleBehind(f, The(f, "audio"))
    BY <2>1 DEF TitleIn
  <2>5. f.form # "VOC"
    BY <2>1
  <2> QED
    BY <2>2, <2>3, <2>4, <2>5, Zenon DEF FoundIn
<1>5. CASE GoodVoc(f) /\ r = VocEnds(f)
  BY <1>5 DEF VocEnds, FoundIn, AudioIn, TitleIn, GoodVoc
<1> QED
  BY <1>2, <1>3, <1>4, <1>5

\* A reader of a well-formed file reads on or has found what is in it.
LEMMA ReadGoes ==
    ASSUME Made(file), Good(file), NEW keep, pos \in Nat, ReadAt(file, rd, pos, keep),
           ChunkStep \/ TagStep \/ VocStep
    PROVE  ReadAt(file, rd', pos', keep)
<1>1. /\ DetectChunk => rd.pc = "detect"
      /\ WavChunk => rd.pc = "wav"
      /\ IffChunk => rd.pc = "iff"
      /\ TagStep => rd.pc \in TagSteps
      /\ VocBlock => rd.pc = "vocBlock"
      /\ VocGot => rd.pc = "vocGot"
  BY DEF DetectChunk, WavChunk, IffChunk, TagStep, ReadTags, ProbeChunk, HeadTag, FirstMm, Id3v1,
         Tails, TagsRead, TagSteps, VocBlock, VocGot
<1>2. DetectChunk \/ WavChunk \/ IffChunk \/ TagStep \/ VocBlock \/ VocGot
  BY DEF ChunkStep, VocStep
<1>3. CASE rd.pc = "found" /\ FoundIn(file, rd, keep)
  BY <1>1, <1>2, <1>3 DEF TagSteps
<1>4. CASE rd.pc = "wav" /\ GoodRiff(file) /\ RiffType(file) = "wav" /\ WavAt(file, rd, pos)
  <2>1. WavChunk
    BY <1>1, <1>2, <1>4 DEF TagSteps
  <2>2. \/ WavAt(file, rd', pos')
        \/ rd' = Found(DataFrom(file), DataFrom(file) + DataLen(file), "")
    BY <1>4, <2>1, StepWavChunk
  <2>3. CASE WavAt(file, rd', pos')
    <3>1. rd'.pc = "wav"
      BY <2>3 DEF WavAt, WavRecord
    <3> QED
      BY <1>4, <2>3, <3>1 DEF ReadAt
  <2>4. CASE rd' = Found(DataFrom(file), DataFrom(file) + DataLen(file), "")
    BY <1>4, <2>4, FoundWell DEF ReadAt
  <2> QED
    BY <2>2, <2>3, <2>4
<1>5. CASE rd.pc = "iff" /\ GoodIff(file) /\ IffAt(file, rd, pos)
  <2>1. IffChunk
    BY <1>1, <1>2, <1>5 DEF TagSteps
  <2>2. \/ IffAt(file, rd', pos') /\ rd'.pc = "iff"
        \/ rd' = Found(SoundFrom(file), SoundFrom(file) + SoundLen(file), "")
    BY <1>5, <2>1, StepIffChunk
  <2>3. CASE IffAt(file, rd', pos') /\ rd'.pc = "iff"
    BY <1>5, <2>3 DEF ReadAt
  <2>4. CASE rd' = Found(SoundFrom(file), SoundFrom(file) + SoundLen(file), "")
    BY <1>5, <2>4, FoundWell DEF ReadAt
  <2> QED
    BY <2>2, <2>3, <2>4
<1>6. CASE /\ rd.pc \in TagSteps /\ rd \in TagRecord /\ rd.keep = keep
           /\ GoodRiff(file) /\ RiffType(file) = "mp3" /\ ProbeAt(file, rd, pos)
  <2>1. TagStep
    BY <1>1, <1>2, <1>6 DEF TagSteps
  <2>2. \/ rd' \in TagRecord /\ rd'.keep = rd.keep /\ ProbeAt(file, rd', pos')
        \/ rd' = Found(DataFrom(file), DataFrom(file) + DataLen(file), "")
    BY <1>6, <2>1, StepProbe
  <2>3. CASE rd' \in TagRecord /\ rd'.keep = rd.keep /\ ProbeAt(file, rd', pos')
    <3>1. rd'.pc \in TagSteps
      BY <2>3 DEF TagRecord
    <3>2. rd'.keep = keep
      BY <1>6, <2>3, Zenon
    <3> QED
      BY <1>6, <2>3, <3>1, <3>2, Zenon DEF ReadAt
  <2>4. CASE rd' = Found(DataFrom(file), DataFrom(file) + DataLen(file), "")
    BY <1>6, <2>4, FoundWell DEF ReadAt
  <2> QED
    BY <2>2, <2>3, <2>4
<1>7. CASE /\ rd.pc \in TagSteps /\ rd \in TagRecord /\ rd.keep = keep
           /\ GoodMpeg(file) /\ MpegAt(file, rd)
  <2>1. TagStep
    BY <1>1, <1>2, <1>7 DEF TagSteps
  <2>2. \/ rd' \in TagRecord /\ rd'.keep = rd.keep /\ MpegAt(file, rd')
        \/ rd' = Found(MpegFrom(file, rd.keep), Edge(file, The(file, "audio") + 1),
                       TitleBehind(file, The(file, "audio")))
    BY <1>7, <2>1, StepMpeg
  <2>3. CASE rd' \in TagRecord /\ rd'.keep = rd.keep /\ MpegAt(file, rd')
    <3>1. rd'.pc \in TagSteps
      BY <2>3 DEF TagRecord
    <3>2. rd'.keep = keep
      BY <1>7, <2>3, Zenon
    <3> QED
      BY <1>7, <2>3, <3>1, <3>2, Zenon DEF ReadAt
  <2>4. CASE rd' = Found(MpegFrom(file, rd.keep), Edge(file, The(file, "audio") + 1),
                         TitleBehind(file, The(file, "audio")))
    <3>1. rd' = Found(MpegFrom(file, keep), Edge(file, The(file, "audio") + 1),
                      TitleBehind(file, The(file, "audio")))
      BY <1>7, <2>4, Zenon
    <3>2. rd'.pc = "found" /\ FoundIn(file, rd', keep)
      BY <1>7, <3>1, FoundWell, Zenon
    <3> QED
      BY <3>2, Zenon DEF ReadAt
  <2> QED
    BY <2>2, <2>3, <2>4
<1>8. CASE rd.pc \in {"vocBlock", "vocGot"} /\ GoodVoc(file) /\ VocAt(file, rd, pos)
  <2>1. VocBlock \/ VocGot
    BY <1>1, <1>2, <1>8 DEF TagSteps
  <2>2. VocAt(file, rd', pos') \/ rd' = VocEnds(file)
    BY <1>8, <2>1, StepVocBlock, StepVocGot
  <2>3. CASE VocAt(file, rd', pos')
    <3>1. rd'.pc \in {"vocBlock", "vocGot"}
      BY <2>3 DEF VocAt, VocRecord
    <3> QED
      BY <1>8, <2>3, <3>1 DEF ReadAt
  <2>4. CASE rd' = VocEnds(file)
    BY <1>8, <2>4, FoundWell DEF ReadAt
  <2> QED
    BY <2>2, <2>3, <2>4
<1> QED
  BY <1>3, <1>4, <1>5, <1>6, <1>7, <1>8 DEF ReadAt

\* A type is found.
LEMMA FitToOpen ==
    ASSUME file.form # "VOC", ld'.pc = "open", ld'.type = TypeFor(file)
    PROVE  FitAt(file, rd', pos', ld')
  BY DEF FitAt

\* The type of a well-formed file is found; a chunk of it is not refused.
LEMMA FitDetectType ==
    ASSUME IInv, Typing, Made(file), Suited(file, ld), DetectType, ld.pc \in {"LoadMUS", "LoadWAV"},
           ld.pc = "LoadWAV" => file.form = "MPEG"
    PROVE  FitAt(file, rd', pos', ld') /\ ld'.call = ld.call
<1>1. ld \in Call /\ pos = file.origin /\ (ld.pc = "LoadMUS" => ld.call = "music")
  BY TypingNow DEF IInv, Standing
<1>2. Good(file) /\ (file.form = "VOC" => ld.call = "chunk")
  BY DEF Suited
<1>3. pos + 24 <= End(file) /\ FileEnd = End(file) /\ pos \in Nat /\ End(file) \in Nat
  BY <1>1, <1>2, GoodLong, TypingNow
<1>4. ~(FileEnd - pos < 24)
  BY <1>3
<1>5. file.form # "VOC"
  BY <1>1, <1>2
<1>6. file.form \in {"RIFF", "MPEG"} \cup DOMAIN IffNeeds
  BY <1>2, <1>5, GoodForms
<1>7. ASSUME NEW t \in {"wav", "mp3"}, Typed(t), t = TypeFor(file)
      PROVE  FitAt(file, rd', pos', ld') /\ ld'.call = ld.call
  <2>1. ld'.pc = "open" /\ ld'.type = t /\ ld'.call = ld.call
    BY <1>1, <1>7 DEF Typed, Call
  <2>2. ld'.type = TypeFor(file)
    BY <1>7, <2>1
  <2>3. FitAt(file, rd', pos', ld')
    BY <1>5, <2>1, <2>2, FitToOpen
  <2> QED
    BY <2>1, <2>3
<1>8. CASE file.form = "RIFF"
  <2>1. rd' = Detect /\ pos' = pos + 12 /\ To("detect")
    BY <1>4, <1>8 DEF DetectType, IffNeeds
  <2>2. ld'.pc = "detect" /\ ld'.call = ld.call
    BY <1>1, <2>1 DEF To, Call
  <2>3. GoodRiff(file) /\ pos' = Edge(file, 1)
    BY <1>1, <1>2, <1>8, <2>1, GoodForms, GoodLong
  <2>4. The(file, "fmt") \in 1 .. Len(file.blocks) /\ Len(file.blocks) \in Nat
    BY <2>3, RiffFacts
  <2>5. 1 \in 1 .. Len(file.blocks) /\ 1 <= The(file, "fmt")
    BY <2>4
  <2>6. rd'.pc = "detect" /\ rd'.start = file.origin
    BY <1>1, <2>1 DEF Detect
  <2>7. DetectAt(file, rd', pos')
    BY <2>3, <2>5, <2>6 DEF DetectAt
  <2> QED
    BY <2>2, <2>3, <2>6, <2>7 DEF FitAt
<1>9. CASE file.form = "MPEG"
  <2>1. HasAudio
    <3>1. GoodMpeg(file)
      BY <1>2, <1>9, GoodForms
    <3>2. Sole(file, "audio")
      BY <3>1, Zenon DEF GoodMpeg
    <3>3. The(file, "audio") \in DOMAIN file.blocks /\ file.blocks[The(file, "audio")].kind = "audio"
      BY <3>2, SoleOne
    <3>4. file.blocks[The(file, "audio")].len > 0
      BY <3>1, MpegFacts
    <3> QED
      BY <3>3, <3>4 DEF HasAudio
  <2>2. Typed("mp3")
    BY <1>4, <1>9, <2>1 DEF DetectType, IffNeeds
  <2>3. TypeFor(file) = "mp3"
    BY <1>9 DEF TypeFor
  <2> QED
    BY <1>7, <2>2, <2>3
<1>10. CASE file.form \in DOMAIN IffNeeds
  <2>1. file.form \in {"AIFF", "AIFC", "8SVX"}
    BY <1>10 DEF IffNeeds
  <2>2. Typed("wav")
    BY <1>4, <1>10, <2>1 DEF DetectType
  <2>3. TypeFor(file) = "wav"
    BY <2>1 DEF TypeFor
  <2> QED
    BY <1>7, <2>2, <2>3
<1> QED
  BY <1>6, <1>8, <1>9, <1>10

\* detect_riff_mp3 gave the type.
LEMMA FitDetectedType ==
    ASSUME IInv, Typing, Made(file), FitAt(file, rd, pos, ld), DetectedType
    PROVE  FitAt(file, rd', pos', ld') /\ ld'.call = ld.call
<1>1. ld \in Call /\ ld.pc = "detect" /\ rd.pc = "detected" /\ ld' = [ld EXCEPT !.pc = "open", !.type = rd.type]
  BY TypingNow DEF DetectedType
<1>2. GoodRiff(file) /\ rd.type = RiffType(file)
  BY <1>1 DEF FitAt
<1>3. file.form = "RIFF"
  BY <1>2 DEF GoodRiff
<1>4. ld'.pc = "open" /\ ld'.type = RiffType(file) /\ ld'.call = ld.call
  BY <1>1, <1>2 DEF Call
<1>5. TypeFor(file) = RiffType(file) /\ file.form # "VOC"
  BY <1>3 DEF TypeFor
<1> QED
  BY <1>4, <1>5 DEF FitAt

\* A call that fails of something else than the file.
LEMMA FitHitched ==
    ASSUME NEW l \in Call, l.closed = 0, l.call = ld.call,
           \/ ld' = [Close(Hitched(l)) EXCEPT !.pc = "null"]
           \/ ld' = [Hitched(l) EXCEPT !.pc = "null"]
    PROVE  FitAt(file, rd', pos', ld') /\ ld'.call = ld.call
<1>1. Hitched(l) \in Call /\ Hitched(l).closed = 0 /\ Hitched(l).call = l.call /\ Hitched(l).hitch
  BY HitchedFields DEF Hitched, Call
<1>2. Close(Hitched(l)) \in Call /\ Close(Hitched(l)).call = l.call
  BY <1>1, Returning
<1>3. Close(Hitched(l)).hitch
  BY <1>1 DEF Close, Call
<1> DEFINE h == Hitched(l)
           c == Close(h)
<1>4. h \in Call /\ h.call = l.call /\ h.hitch /\ c \in Call /\ c.call = l.call /\ c.hitch
  BY <1>1, <1>2, <1>3
<1> HIDE DEF h, c
<1>5. ld' = [c EXCEPT !.pc = "null"] \/ ld' = [h EXCEPT !.pc = "null"]
  BY DEF h, c
<1>6. ld'.pc = "null" /\ ld'.hitch /\ ld'.call = ld.call
  BY <1>4, <1>5 DEF Call
<1> QED
  BY <1>6 DEF FitAt

\* A reader begins.
LEMMA FitToRead ==
    ASSUME ld \in Call, To("read"), NEW keep, keep = Keeps(ld.i),
           ld.i # 0 => file.form # "VOC" /\ ld.type = TypeFor(file),
           ReadAt(file, rd', pos', keep)
    PROVE  FitAt(file, rd', pos', ld') /\ ld'.call = ld.call
<1>1. ld'.pc = "read" /\ ld'.i = ld.i /\ ld'.type = ld.type /\ ld'.call = ld.call
  BY DEF To, Call
<1>2. ReadAt(file, rd', pos', Keeps(ld'.i))
  BY <1>1, Zenon
<1> QED
  BY <1>1, <1>2 DEF FitAt

\* Mix_LoadWAV_RW reads a well-formed file with a loader of its own, with that of SDL
\* or with a decoder.
LEMMA FitLoadWAV ==
    ASSUME IInv, Typing, Made(file), Suited(file, ld), LoadWAV
    PROVE  FitAt(file, rd', pos', ld') /\ ld'.call = ld.call
<1>1. ld.pc = "LoadWAV" /\ ld \in Call
  BY TypingNow DEF LoadWAV
<1>2. ld.closed = 0 /\ pos = file.origin /\ ld.i = 0
  BY <1>1, TypingNow DEF IInv, Standing, Returned
<1>3. Good(file)
  BY DEF Suited
<1>4. pos + 24 <= End(file) /\ FileEnd = End(file) /\ pos \in Nat /\ End(file) \in Nat
      /\ \A p : Reached(p) = ReachedIn(file, p)
  BY <1>2, <1>3, GoodLong, TypingNow
<1>5. ~(FileEnd - pos < 4) /\ pos + 12 \in 0 .. End(file)
  BY <1>4
<1>6. ReachedIn(file, pos + 12) = pos + 12
  BY <1>5, ReachedTyped
<1>7. CASE Return(Close(Hitched(ld)))
  <2>1. ld' = [Close(Hitched(ld)) EXCEPT !.pc = "null"]
    BY <1>7 DEF Return
  <2> QED
    BY <1>1, <1>2, <2>1, FitHitched
<1>8. CASE file.form = "RIFF" /\ To("sdl")
  <2>1. ld'.pc = "sdl" /\ ld'.call = ld.call
    BY <1>1, <1>8 DEF To, Call
  <2> QED
    BY <2>1 DEF FitAt
<1>9. ASSUME To("read"), ReadAt(file, rd', pos', Keeps(ld.i))
      PROVE  FitAt(file, rd', pos', ld') /\ ld'.call = ld.call
  BY <1>1, <1>2, <1>9, FitToRead
<1>10. CASE file.form \in DOMAIN IffNeeds /\ rd' = IffReader("chunk") /\ pos' = Reached(pos + 12)
            /\ To("read")
  <2>1. GoodIff(file) /\ pos' = Edge(file, 1)
    BY <1>2, <1>3, <1>4, <1>6, <1>10, GoodForms, GoodLong
  <2>2. IffAt(file, rd', pos') /\ rd'.pc = "iff"
    BY <1>10, <2>1, IffStart
  <2> QED
    BY <1>9, <1>10, <2>1, <2>2 DEF ReadAt
<1>11. CASE file.form = "VOC" /\ VocHeader
  <2>1. GoodVoc(file) /\ file.origin = 0 /\ file.lead = Edge(file, 1)
    BY <1>3, <1>11, GoodForms, GoodLong
  <2>2. rd' = VocReader /\ pos' = Reached(file.lead) /\ To("read")
    BY <1>11, <2>1 DEF VocHeader
  <2>3. file.lead \in 0 .. End(file)
    <3>1. file.cut = 0 /\ Len(file.blocks) \in Nat
      BY <2>1, MadeBlocks DEF GoodVoc
    <3>2. Len(file.blocks) + 1 \in 1 .. Len(file.blocks) + 1 /\ End(file) = Edge(file, Len(file.blocks) + 1)
      BY <3>1, EndIn
    <3>3. End(file) \in Nat /\ End(file) >= file.origin + file.lead /\ file.lead \in Nat
      BY <3>2, EdgeIn, MadeBlocks
    <3> QED
      BY <2>1, <3>3
  <2>4. pos' = Edge(file, 1)
    BY <1>4, <2>1, <2>2, <2>3, ReachedTyped
  <2>5. VocAt(file, rd', pos')
    BY <2>1, <2>2, <2>4, VocStart
  <2>6. rd'.pc = "vocBlock"
    BY <2>2, Zenon DEF VocReader
  <2> QED
    BY <1>9, <2>1, <2>2, <2>5, <2>6 DEF ReadAt
<1>12. CASE file.form = "MPEG" /\ DetectType
  BY <1>1, <1>12, FitDetectType
<1>13. file.form \in {"RIFF", "MPEG", "VOC"} \cup DOMAIN IffNeeds
       /\ DOMAIN IffNeeds = {"AIFF", "AIFC", "8SVX"}
  BY <1>3, GoodForms DEF IffNeeds
<1> QED
  BY <1>5, <1>7, <1>8, <1>10, <1>11, <1>12, <1>13 DEF LoadWAV

\* SDL has loaded a RIFF file, or has failed.
LEMMA FitLoadedBySDL ==
    ASSUME IInv, Typing, Made(file), LoadedBySDL
    PROVE  FitAt(file, rd', pos', ld') /\ ld'.call = ld.call
<1>1. ld.pc = "sdl" /\ ld \in Call /\ rd' = rd
  BY TypingNow DEF LoadedBySDL
<1>2. ld.closed = 0 /\ rd = NoReader
  BY <1>1, TypingNow DEF IInv, Standing, Returned
<1>3. rd'.pc = "none"
  BY <1>1, <1>2 DEF NoReader
<1>4. CASE ld' = [Close(ld) EXCEPT !.pc = "loaded"]
  <2>1. Close(ld) \in Call /\ Close(ld).call = ld.call
    BY <1>1, <1>2, Returning
  <2>2. ld'.pc = "loaded" /\ ld'.call = ld.call
    BY <1>4, <2>1 DEF Call
  <2> QED
    BY <1>3, <2>2 DEF FitAt
<1>5. CASE Return(Close(Hitched(ld)))
  <2>1. ld' = [Close(Hitched(ld)) EXCEPT !.pc = "null"]
    BY <1>5 DEF Return
  <2> QED
    BY <1>1, <1>2, <2>1, FitHitched
<1> QED
  BY <1>4, <1>5 DEF LoadedBySDL

\* There is a decoder for every type.
LEMMA FitOpenType ==
    ASSUME IInv, Typing, Made(file), Suited(file, ld), FitAt(file, rd, pos, ld), BothTypes, OpenType
    PROVE  FitAt(file, rd', pos', ld') /\ ld'.call = ld.call
<1>1. ld.pc = "open" /\ ld \in Call
  BY TypingNow DEF OpenType
<1>2. ld.closed = 0 /\ file.form # "VOC" /\ ld.type = TypeFor(file)
  BY <1>1, TypingNow DEF IInv, Standing, Returned, FitAt
<1>3. CASE ld' = [ld EXCEPT !.pc = "try", !.i = 1]
  <2>1. ld'.pc = "try" /\ ld'.i = 1 /\ ld'.type = ld.type /\ ld'.call = ld.call
    BY <1>1, <1>3 DEF Call
  <2>2. TypeFor(file) \in {"wav", "mp3"}
    BY DEF TypeFor, RiffType
  <2>3. PICK j \in 1 .. Len(Decoders) : Decoders[j].type = ld.type
    BY <1>2, <2>2 DEF BothTypes
  <2>4. j >= 1
    BY <2>3, DecodersCount
  <2>5. \E k \in 1 .. Len(Decoders) : k >= ld'.i /\ Decoders[k].type = ld'.type
    BY <2>1, <2>3, <2>4
  <2> QED
    BY <1>2, <2>1, <2>5 DEF FitAt
<1>4. CASE ld' = [Close(Hitched(ld)) EXCEPT !.pc = "null"] \/ ld' = [Hitched(ld) EXCEPT !.pc = "null"]
  BY <1>1, <1>2, <1>4, FitHitched
<1> QED
  BY <1>3, <1>4 DEF OpenType, Return

\* The decoders of the type are tried one after the other, and there is one left unless
\* another has failed of something else.
LEMMA FitTryDecoder ==
    ASSUME IInv, Typing, Made(file), Suited(file, ld), FitAt(file, rd, pos, ld), TryDecoder
    PROVE  FitAt(file, rd', pos', ld') /\ ld'.call = ld.call
<1>1. ld.pc = "try" /\ ld \in Call
  BY TypingNow DEF TryDecoder
<1>2. ld.closed = 0 /\ pos = file.origin /\ ld.i # 0 /\ ld.i \in Nat /\ ld.i <= Len(Decoders) + 1
  BY <1>1, TypingNow DEF IInv, Standing, Returned, Call
<1>3. /\ file.form # "VOC" /\ ld.type = TypeFor(file)
      /\ ld.hitch \/ \E j \in 1 .. Len(Decoders) : j >= ld.i /\ Decoders[j].type = ld.type
  BY <1>1 DEF FitAt
<1>4. Len(Decoders) \in Nat
  BY DecodersCount
<1>5. Good(file)
  BY DEF Suited
<1>6. pos + 24 <= End(file) /\ FileEnd = End(file) /\ pos \in Nat /\ End(file) \in Nat
      /\ \A p : Reached(p) = ReachedIn(file, p)
  BY <1>2, <1>5, GoodLong, TypingNow
<1>7. pos + 12 \in 0 .. End(file)
  BY <1>6
<1>8. ReachedIn(file, pos + 12) = pos + 12
  BY <1>7, ReachedTyped
<1>9. CASE ld.i > Len(Decoders)
  <2>1. ld' = [Close(ld) EXCEPT !.pc = "null"]
    BY <1>9 DEF TryDecoder, Return
  <2>2. ~\E j \in 1 .. Len(Decoders) : j >= ld.i /\ Decoders[j].type = ld.type
    <3>1. \A j \in 1 .. Len(Decoders) : ~(j >= ld.i)
      BY <1>2, <1>4, <1>9
    <3> QED
      BY <3>1
  <2>3. ld.hitch
    BY <1>3, <2>2
  <2>4. Close(ld) \in Call /\ Close(ld).call = ld.call
    BY <1>1, <1>2, Returning
  <2>5. Close(ld).hitch
    BY <1>1, <2>3 DEF Close, Call
  <2> DEFINE c == Close(ld)
  <2>6. c \in Call /\ c.call = ld.call /\ c.hitch
    BY <2>4, <2>5
  <2>7. ld' = [c EXCEPT !.pc = "null"]
    BY <2>1
  <2> HIDE DEF c
  <2>8. ld'.pc = "null" /\ ld'.hitch /\ ld'.call = ld.call
    BY <2>6, <2>7 DEF Call
  <2> QED
    BY <2>8 DEF FitAt
<1>10. CASE ~(ld.i > Len(Decoders)) /\ Decoders[ld.i].type # ld.type
  <2>1. ld' = [ld EXCEPT !.i = @ + 1]
    BY <1>10 DEF TryDecoder
  <2>2. ld'.pc = "try" /\ ld'.i = ld.i + 1 /\ ld'.type = ld.type /\ ld'.call = ld.call
        /\ (ld.hitch => ld'.hitch)
    BY <1>1, <2>1 DEF Call
  <2>3. ASSUME NEW j \in 1 .. Len(Decoders), j >= ld.i, Decoders[j].type = ld.type
        PROVE  j >= ld'.i
    <3>1. j # ld.i
      BY <1>10, <2>3
    <3> QED
      BY <1>2, <1>4, <2>2, <2>3, <3>1
  <2>4. ld'.hitch \/ \E j \in 1 .. Len(Decoders) : j >= ld'.i /\ Decoders[j].type = ld'.type
    BY <1>3, <2>2, <2>3
  <2> QED
    BY <1>3, <2>2, <2>4 DEF FitAt
<1>11. CASE ~(ld.i > Len(Decoders)) /\ Decoders[ld.i].type = ld.type
  <2>1. To("read") /\ (Decoders[ld.i].type = "mp3" => rd' = TagReader(Keeps(ld.i)) /\ pos' = pos)
        /\ (Decoders[ld.i].type # "mp3" =>
              /\ rd' = IF file.form = "RIFF" THEN WavReader ELSE IffReader("music")
              /\ pos' = Reached(pos + 12))
    BY <1>11 DEF TryDecoder, Keeps
  <2>2. ASSUME NEW keep, keep = Keeps(ld.i), ReadAt(file, rd', pos', keep)
        PROVE  FitAt(file, rd', pos', ld') /\ ld'.call = ld.call
    BY <1>1, <1>3, <2>1, <2>2, FitToRead
  <2>3. CASE Decoders[ld.i].type = "mp3"
    <3>1. PICK keep \in BOOLEAN : keep = Keeps(ld.i)
      BY DEF Keeps
    <3>2. rd' = TagReader(keep) /\ pos' = pos
      BY <2>1, <2>3, <3>1, Zenon
    <3>3. pos \in Nat /\ FileEnd - pos \in Int
      BY <1>6
    <3>4. TagReader(keep) \in TagRecord /\ TagReader(keep).pc = "tags" /\ TagReader(keep).keep = keep
      BY <3>3, TagStart, Zenon
    <3>5. "tags" \in TagSteps
      BY DEF TagSteps
    <3>6. \/ GoodRiff(file) /\ RiffType(file) = "mp3"
          \/ GoodMpeg(file)
      <4>1. TypeFor(file) = "mp3"
        BY <1>3, <1>11, <2>3
      <4>2. (file.form = "RIFF" /\ RiffType(file) = "mp3") \/ file.form = "MPEG"
        BY <4>1 DEF TypeFor
      <4> QED
        BY <1>5, <4>2, GoodForms
    <3>7. ProbeAt(file, TagReader(keep), pos) /\ MpegAt(file, TagReader(keep))
      BY <1>2, ProbeStart, MpegStart
    <3>8. ReadAt(file, TagReader(keep), pos, keep)
      BY <3>4, <3>5, <3>6, <3>7, Zenon DEF ReadAt
    <3>9. ReadAt(file, rd', pos', keep)
      BY <3>2, <3>8, Zenon
    <3> QED
      BY <2>2, <3>1, <3>9, Zenon
  <2>4. CASE Decoders[ld.i].type # "mp3"
    <3>1. pos' = pos + 12 /\ rd' = IF file.form = "RIFF" THEN WavReader ELSE IffReader("music")
      BY <1>6, <1>8, <2>1, <2>4
    <3>2. TypeFor(file) # "mp3"
      BY <1>3, <1>11, <2>4
    <3>3. CASE file.form = "RIFF"
      <4>1. GoodRiff(file) /\ RiffType(file) = "wav" /\ pos' = Edge(file, 1)
        <5>1. RiffType(file) # "mp3"
          BY <3>2, <3>3 DEF TypeFor
        <5> QED
          BY <1>2, <1>5, <3>1, <3>3, <5>1, GoodForms, GoodLong DEF RiffType
      <4>2. rd' = WavReader
        BY <3>1, <3>3, Zenon
      <4>3. WavAt(file, WavReader, Edge(file, 1))
        BY <4>1, WavStart
      <4>4. WavReader.pc = "wav"
        BY Zenon DEF WavReader
      <4>5. ReadAt(file, rd', pos', Keeps(ld.i))
        BY <4>1, <4>2, <4>3, <4>4, Zenon DEF ReadAt
      <4> QED
        BY <2>2, <4>5, Zenon
    <3>4. CASE file.form # "RIFF"
      <4>1. GoodIff(file) /\ pos' = Edge(file, 1)
        <5>1. file.form # "MPEG"
          BY <3>2, <3>4 DEF TypeFor
        <5>2. file.form \in DOMAIN IffNeeds
          BY <1>3, <1>5, <3>4, <5>1, GoodForms
        <5> QED
          BY <1>2, <1>5, <3>1, <5>2, GoodForms, GoodLong
      <4>2. rd' = IffReader("music")
        BY <3>1, <3>4
      <4>3. IffAt(file, IffReader("music"), Edge(file, 1)) /\ IffReader("music").pc = "iff"
        BY <4>1, IffStart
      <4>4. ReadAt(file, rd', pos', Keeps(ld.i))
        BY <4>1, <4>2, <4>3, Zenon DEF ReadAt
      <4> QED
        BY <2>2, <4>4, Zenon
    <3> QED
      BY <3>3, <3>4
  <2> QED
    BY <2>3, <2>4
<1> QED
  BY <1>9, <1>10, <1>11

\* A decoder gives a well-formed file up only when something else fails.
LEMMA FitNotOpened ==
    ASSUME IInv, Typing, Made(file), Suited(file, ld), FitAt(file, rd, pos, ld), NotOpened
    PROVE  FitAt(file, rd', pos', ld') /\ ld'.call = ld.call
<1>1. ld.pc = "read" /\ ld \in Call /\ rd.pc \in {"failed", "found"}
  BY TypingNow DEF NotOpened
<1>2. ld.closed = 0
  BY <1>1 DEF IInv, Standing, Returned
<1>3. ReadAt(file, rd, pos, Keeps(ld.i)) /\ (ld.i # 0 => file.form # "VOC" /\ ld.type = TypeFor(file))
  BY <1>1 DEF FitAt
<1>4. rd.pc = "found"
  BY <1>1, <1>3 DEF ReadAt, TagSteps
<1>5. Hitched(ld).hitch /\ Hitched(ld) \in Call
  BY <1>1, HitchedFields DEF Hitched, Call
<1>6. CASE OwnLoader
  <2>1. ld' = [Close(Hitched(ld)) EXCEPT !.pc = "null"]
    BY <1>4, <1>6 DEF NotOpened, Return
  <2> QED
    BY <1>1, <1>2, <2>1, FitHitched
<1>7. CASE ~OwnLoader
  <2>1. ld' = [TryNext EXCEPT !.pc = "try", !.hitch = Hitched(ld).hitch]
    BY <1>4, <1>7 DEF NotOpened
  <2>2. ld.i # 0
    BY <1>1, <1>7 DEF OwnLoader
  <2> DEFINE h == Hitched(ld).hitch
             x == TryNext
  <2>3. h /\ ld' = [x EXCEPT !.pc = "try", !.hitch = h]
    BY <1>5, <2>1
  <2>4. x \in Call /\ x.type = ld.type /\ x.call = ld.call
    <3>1. ld.i + 1 \in Nat
      BY <1>1 DEF Call
    <3>2. x \in Call
      BY <1>1, <3>1, Zenon DEF Call, TryNext
    <3>3. x.type = ld.type /\ x.call = ld.call
      BY <1>1 DEF Call, TryNext
    <3> QED
      BY <3>2, <3>3
  <2> HIDE DEF h, x
  <2>5. ld'.pc = "try" /\ ld'.hitch /\ ld'.type = ld.type /\ ld'.call = ld.call
    BY <2>3, <2>4 DEF Call
  <2> QED
    BY <1>3, <2>2, <2>5 DEF FitAt
<1> QED
  BY <1>6, <1>7

\* What was found is kept, or its conversion fails.
LEMMA FitOpened ==
    ASSUME IInv, Typing, Made(file), Suited(file, ld), FitAt(file, rd, pos, ld), Opened
    PROVE  FitAt(file, rd', pos', ld') /\ ld'.call = ld.call
<1>1. ld.pc = "read" /\ ld \in Call /\ pos' = pos /\ rd.pc = "found" /\ (~CutShort => rd' = rd)
  BY TypingNow DEF Opened
<1>2. ld.closed = 0
  BY <1>1 DEF IInv, Standing, Returned
<1>3. ReadAt(file, rd, pos, Keeps(ld.i))
  BY <1>1 DEF FitAt
<1>4. FoundIn(file, rd, Keeps(ld.i))
  BY <1>1, <1>3 DEF ReadAt, TagSteps
<1>5. /\ Close(ld) \in Call /\ Close(ld).call = ld.call /\ Close(ld).i = ld.i
  BY <1>1, <1>2, Returning
<1>6. CASE ld' = [Hitched(Deleted) EXCEPT !.pc = "null"]
  <2>1. Hitched(Close(ld)) = Close(Hitched(ld))
    BY <1>1 DEF Hitched, Close, Call
  <2>2. ld' = [Close(Hitched(ld)) EXCEPT !.pc = "null"]
    BY <1>6, <2>1 DEF Deleted
  <2> QED
    BY <1>1, <1>2, <2>2, FitHitched
<1>7. ASSUME NEW l \in {ld, Close(ld)}, ld' = [l EXCEPT !.pc = "loaded"], rd' = rd
      PROVE  FitAt(file, rd', pos', ld') /\ ld'.call = ld.call
  <2>1. l \in Call /\ l.call = ld.call /\ l.i = ld.i
    BY <1>1, <1>5, <1>7
  <2>2. ld'.pc = "loaded" /\ ld'.i = ld.i /\ ld'.call = ld.call
    BY <1>7, <2>1 DEF Call
  <2>3. rd'.pc = "found" /\ FoundIn(file, rd', Keeps(ld'.i))
    BY <1>1, <1>4, <1>7, <2>2, Zenon
  <2> QED
    BY <2>2, <2>3 DEF FitAt
<1>8. \/ ld' = [Hitched(Deleted) EXCEPT !.pc = "null"] /\ rd' = rd
      \/ ld' = [ld EXCEPT !.pc = "loaded"] /\ rd' = rd
      \/ ld' = [Close(ld) EXCEPT !.pc = "loaded"] /\ rd' = rd
      \/ CutShort
  BY DEF Opened, Return, Deleted
<1>9. CASE CutShort
  <2> DEFINE l == [Close(ld) EXCEPT !.short = TRUE]
  <2>1. /\ l \in Call /\ l.call = ld.call /\ l.i = ld.i
        /\ [Close(ld) EXCEPT !.pc = "loaded", !.short = TRUE] = [l EXCEPT !.pc = "loaded"]
        /\ [l EXCEPT !.pc = "loaded"].short
    BY <1>5, ShortFields
  <2>2. ld' = [l EXCEPT !.pc = "loaded"]
    BY <1>9, <2>1, Zenon DEF CutShort, Deleted
  <2> HIDE DEF l
  <2>3. ld'.pc = "loaded" /\ ld'.i = ld.i /\ ld'.call = ld.call /\ ld'.short
    <3>1. ld'.pc = "loaded" /\ ld'.i = l.i /\ ld'.call = l.call
      BY <2>1, <2>2 DEF Call
    <3> QED
      BY <2>1, <2>2, <3>1, Zenon
  <2>4. PICK till \in FragmentEnds : /\ rd.audio[1].from < till /\ till < rd.audio[1].to
                                   /\ rd' = Found(rd.audio[1].from, till, rd.title)
    BY <1>9 DEF CutShort
  <2>5. file.form # "VOC"
    <3>1. ld.i # 0
      BY <1>1, <1>9 DEF CutShort, OwnLoader
    <3> QED
      BY <1>1, <3>1 DEF FitAt
  <2>6. rd'.pc = "found" /\ BegunIn(file, rd', Keeps(ld'.i))
    <3>1. /\ rd'.pc = "found" /\ rd'.title = rd.title
          /\ rd'.audio = <<Stretch(rd.audio[1].from, till)>>
      BY <2>4, Zenon DEF Found
    <3>2. /\ Len(rd'.audio) = 1 /\ rd'.audio[1].from = rd.audio[1].from
          /\ rd'.audio[1].to = till
      BY <3>1 DEF Stretch
    <3>3. rd.audio = AudioIn(file, Keeps(ld'.i)) /\ rd.title = TitleIn(file)
      BY <1>4, <2>3, Zenon DEF FoundIn
    <3>4. Beginning(rd'.audio, rd.audio)
      BY <2>4, <3>2, Zenon DEF Beginning
    <3> QED
      BY <2>5, <3>1, <3>3, <3>4, Zenon DEF BegunIn
  <2> QED
    BY <2>3, <2>6 DEF FitAt
<1> QED
  BY <1>6, <1>7, <1>8, <1>9

\* A reader of a well-formed file reads on.
LEMMA FitReadOn ==
    ASSUME IInv, Typing, Made(file), Suited(file, ld), FitAt(file, rd, pos, ld), ReadOn
    PROVE  FitAt(file, rd', pos', ld') /\ ld'.call = ld.call
<1>1. ld' = ld /\ ld.pc \in {"detect", "read"} /\ (ChunkStep \/ TagStep \/ VocStep)
  BY DEF ReadOn
<1>2. pos \in Nat /\ Good(file) /\ Standing
  BY TypingNow DEF Suited, IInv
<1>3. CASE ld.pc = "read"
  <2>1. ReadAt(file, rd, pos, Keeps(ld.i)) /\ (ld.i # 0 => file.form # "VOC" /\ ld.type = TypeFor(file))
    BY <1>3 DEF FitAt
  <2>2. ReadAt(file, rd', pos', Keeps(ld.i))
    BY <1>1, <1>2, <2>1, ReadGoes
  <2> QED
    BY <1>1, <1>3, <2>1, <2>2 DEF FitAt
<1>4. CASE ld.pc = "detect"
  <2>1. /\ GoodRiff(file)
        /\ rd.pc = "detect" => DetectAt(file, rd, pos)
    BY <1>4 DEF FitAt
  <2>2. rd.pc \in {"detect", "detected"}
    BY <1>2, <1>4 DEF Standing
  <2>3. DetectChunk /\ rd.pc = "detect"
    BY <1>1, <2>2 DEF ChunkStep, TagStep, DetectChunk, WavChunk, IffChunk,
       ReadTags, ProbeChunk, HeadTag, FirstMm, Id3v1, Tails, TagsRead, VocStep, VocBlock, VocGot
  <2>4. \/ rd' = rd /\ DetectAt(file, rd', pos')
        \/ rd'.pc = "detected" /\ rd'.type = RiffType(file)
    BY <2>1, <2>3, StepDetectChunk
  <2> QED
    BY <1>1, <1>4, <2>1, <2>3, <2>4 DEF FitAt
<1> QED
  BY <1>1, <1>3, <1>4

\* No step turns music into a chunk.
LEMMA CallKept == ASSUME IInv, Next PROVE ld'.call = ld.call
<1>1. ld \in Call
  BY DEF IInv
<1>2. ld.closed = 0
  <2>1. ~Returned
    BY DEF Next, LoadMUS, DetectedType, LoadWAV, LoadedBySDL, OpenType, TryDecoder, ReadOn,
           NotOpened, Opened, Returned
  <2> QED
    BY <2>1 DEF IInv, Standing
<1> DEFINE C == {l \in Call : l.call = ld.call}
<1>3. ld \in C /\ Close(ld) \in C /\ Hitched(ld) \in C /\ Close(Hitched(ld)) \in C
      /\ Hitched(Close(ld)) \in C
  <2>1. Hitched(ld) \in Call /\ Hitched(ld).call = ld.call /\ Hitched(ld).closed = 0
    BY <1>1, <1>2, HitchedFields
  <2>2. Close(ld) \in Call /\ Close(ld).call = ld.call
    BY <1>1, <1>2, Returning
  <2>3. Close(Hitched(ld)) \in Call /\ Close(Hitched(ld)).call = ld.call
    BY <2>1, Returning
  <2>4. Hitched(Close(ld)) \in Call /\ Hitched(Close(ld)).call = ld.call
    BY <2>2, HitchedFields
  <2> QED
    BY <1>1, <2>1, <2>2, <2>3, <2>4
<1>4. ASSUME NEW l \in C, NEW pc, ld' = [l EXCEPT !.pc = pc] PROVE ld'.call = ld.call
  BY <1>4 DEF Call
<1>5. ASSUME NEW pc, To(pc) PROVE ld'.call = ld.call
  BY <1>3, <1>4, <1>5 DEF To
<1> HIDE DEF C
<1>6. CASE LoadMUS \/ LoadWAV
  <2>1. \/ \E l \in C : Return(l)
        \/ \E pc : To(pc)
        \/ \E t : Typed(t)
    <3>1. DetectType => \/ \E l \in C : Return(l)
                       \/ \E pc : To(pc)
                       \/ \E t : Typed(t)
      <4>1. \A p : Untyped(p) => \E l \in C : Return(l)
        BY <1>3 DEF Untyped
      <4>2. DetectType => \/ Untyped(FileEnd) \/ Untyped(pos) \/ Typed("mp3") \/ Typed("wav")
                         \/ To("detect")
        BY DEF DetectType
      <4> QED
        BY <4>1, <4>2
    <3>2. LoadWAV => \/ Return(Close(Hitched(ld))) \/ Return(Close(ld)) \/ To("sdl") \/ To("read")
                    \/ DetectType
      BY DEF LoadWAV, VocHeader
    <3> QED
      BY <1>3, <1>6, <3>1, <3>2 DEF LoadMUS
  <2>2. ASSUME NEW t, Typed(t) PROVE ld'.call = ld.call
    BY <1>1, <2>2 DEF Typed, Call
  <2> QED
    BY <1>4, <1>5, <2>1, <2>2 DEF Return
<1>7. CASE DetectedType
  BY <1>1, <1>7 DEF DetectedType, Call
<1>8. CASE LoadedBySDL
  BY <1>3, <1>4, <1>8 DEF LoadedBySDL, Return
<1>9. CASE OpenType
  <2>1. ld' = [ld EXCEPT !.pc = "try", !.i = 1] => ld'.call = ld.call
    BY <1>1 DEF Call
  <2> QED
    BY <1>3, <1>4, <1>9, <2>1 DEF OpenType, Return
<1>10. CASE TryDecoder
  <2>1. ld' = [ld EXCEPT !.i = @ + 1] => ld'.call = ld.call
    BY <1>1 DEF Call
  <2> QED
    BY <1>3, <1>4, <1>5, <1>10, <2>1 DEF TryDecoder, Return
<1>11. CASE ReadOn
  BY <1>11 DEF ReadOn
<1>12. CASE NotOpened
  <2>1. ASSUME NEW h, ld' = [TryNext EXCEPT !.pc = "try", !.hitch = h] PROVE ld'.call = ld.call
    BY <1>1, <2>1 DEF Call, TryNext
  <2>2. \/ \E h : ld' = [TryNext EXCEPT !.pc = "try", !.hitch = h]
        \/ \E l \in C : ld' = [l EXCEPT !.pc = "null"]
    BY <1>3, <1>12 DEF NotOpened, Return
  <2> QED
    BY <1>4, <2>1, <2>2
<1>13. CASE Opened
  <2>1. ASSUME NEW l \in C, ld' = [l EXCEPT !.pc = "loaded", !.short = TRUE]
        PROVE  ld'.call = ld.call
    BY <2>1 DEF Call, C
  <2>2. \/ ld' = [Close(ld) EXCEPT !.pc = "loaded", !.short = TRUE]
        \/ ld' = [ld EXCEPT !.pc = "loaded"]
        \/ ld' = [Close(ld) EXCEPT !.pc = "loaded"]
        \/ ld' = [Hitched(Close(ld)) EXCEPT !.pc = "null"]
    BY <1>13 DEF Opened, CutShort, Return, Deleted
  <2> QED
    BY <1>3, <1>4, <2>1, <2>2
<1> QED
  BY <1>6, <1>7, <1>8, <1>9, <1>10, <1>11, <1>12, <1>13 DEF Next

\* A step keeps what is known of a well-formed file, and a call begins with it.
LEMMA NextFit ==
    ASSUME IInv, Typing, Made(file), BothTypes, Fit, Next
    PROVE  Fit'
<1>1. file' = file
  BY FileKept
<1>2. ASSUME Suited(file, ld), FitAt(file, rd, pos, ld)
      PROVE  FitAt(file, rd', pos', ld') /\ ld'.call = ld.call
  <2>1. CASE LoadMUS
    <3>1. DetectType /\ ld.pc = "LoadMUS"
      BY <2>1 DEF LoadMUS
    <3> QED
      BY <1>2, <3>1, FitDetectType
  <2> QED
    BY <1>2, <2>1, FitDetectedType, FitLoadWAV, FitLoadedBySDL, FitOpenType,
       FitTryDecoder, FitReadOn, FitNotOpened, FitOpened DEF Next
<1>3. ld'.call = ld.call
  BY CallKept
<1>4. Suited(file', ld') => Suited(file, ld)
  BY <1>1, <1>3 DEF Suited
<1>5. Suited(file', ld') => FitAt(file', rd', pos', ld')
  <2>1. ASSUME Suited(file', ld') PROVE FitAt(file', rd', pos', ld')
    <3>1. Suited(file, ld) /\ FitAt(file, rd, pos, ld)
      BY <1>4, <2>1 DEF Fit
    <3>2. FitAt(file, rd', pos', ld')
      BY <1>2, <3>1
    <3> QED
      BY <1>1, <3>2, Zenon
  <2> QED
    BY <2>1
<1> QED
  BY <1>5 DEF Fit

\* Nothing is read when a load begins.
LEMMA InitFit ==
    ASSUME Init
    PROVE  Fit
<1>1. ld.pc \in {"LoadMUS", "LoadWAV"}
  BY DEF Init
<1> QED
  BY <1>1 DEF Fit, FitAt

-----------------------------------------------------------------------------
(* What a writer of a format makes of it is what the readers look for.      *)

\* A set of one element or of none.
LEMMA AtMostOne ==
    ASSUME NEW S, IsFiniteSet(S)
    PROVE  /\ Cardinality(S) = 1 => \E x : S = {x}
           /\ Cardinality(S) <= 1 => \A x, y \in S : x = y
<1>1. Cardinality(S) \in Nat
  BY FS_CardinalityType
<1>2. Cardinality(S) = 0 <=> S = {}
  BY FS_EmptySet
<1>3. Cardinality(S) = 1 <=> \E x : S = {x}
  BY FS_Singleton
<1>4. Cardinality(S) <= 1 => Cardinality(S) = 0 \/ Cardinality(S) = 1
  BY <1>1
<1> QED
  BY <1>2, <1>3, <1>4

\* The blocks of a file are finitely many.
LEMMA FinitelyMany ==
    ASSUME NEW f, Made(f)
    PROVE  \A S \in SUBSET DOMAIN f.blocks : IsFiniteSet(S)
<1>1. DOMAIN f.blocks = 1 .. Len(f.blocks) /\ Len(f.blocks) \in Int
  BY MadeBlocks
<1>2. IsFiniteSet(DOMAIN f.blocks)
  BY <1>1, FS_Interval
<1> QED
  BY <1>2, FS_Subset

\* Places and their number, as the lemmas have them.
LEMMA PlacesHere ==
    ASSUME Made(file)
    PROVE  /\ \A kinds : Places(kinds) = KindsAt(file, kinds) /\ IsFiniteSet(Places(kinds))
           /\ \A kind : Place(kind) = The(file, kind)
           /\ \A kind : Cardinality(Places({kind})) = 1 => Sole(file, kind)
           /\ \A kinds : Once(kinds) => \A j, k \in KindsAt(file, kinds) : j = k
<1>1. ASSUME NEW kinds PROVE Places(kinds) = KindsAt(file, kinds) /\ IsFiniteSet(Places(kinds))
  <2>1. Places(kinds) = KindsAt(file, kinds)
    BY DEF Places, KindsAt
  <2>2. Places(kinds) \in SUBSET DOMAIN file.blocks
    BY DEF Places
  <2> QED
    BY <2>1, <2>2, FinitelyMany
<1>2. ASSUME NEW kind PROVE Place(kind) = The(file, kind)
  BY <1>1 DEF Place, The
<1>3. ASSUME NEW kind, Cardinality(Places({kind})) = 1 PROVE Sole(file, kind)
  <2>1. \E k : Places({kind}) = {k}
    BY <1>1, <1>3, AtMostOne
  <2> QED
    BY <1>1, <2>1 DEF Sole, KindsAt
<1>4. ASSUME NEW kinds, Once(kinds) PROVE \A j, k \in KindsAt(file, kinds) : j = k
  <2>1. \A j, k \in Places(kinds) : j = k
    BY <1>1, <1>4, AtMostOne DEF Once
  <2> QED
    BY <1>1, <2>1
<1> QED
  BY <1>1, <1>2, <1>3, <1>4

\* A well-formed RIFF file.
LEMMA WrittenRiff ==
    ASSUME Made(file), WellFormed, file.form = "RIFF"
    PROVE  GoodRiff(file)
<1>1. /\ file.cut = 0
      /\ Cardinality(Places({"fmt"})) = 1 /\ Cardinality(Places({"data"})) = 1
      /\ \A k \in DOMAIN file.blocks : file.blocks[k].len > 0
      /\ file.blocks[Place("fmt")].len >= 16
      /\ file.blocks[Place("fmt")].x = "mp3" => file.origin = 0
  BY DEF WellFormed, IffNeeds
<1> QED
  BY <1>1, PlacesHere DEF GoodRiff

\* A well-formed IFF file.
LEMMA WrittenIff ==
    ASSUME Made(file), WellFormed, file.form \in DOMAIN IffNeeds
    PROVE  GoodIff(file)
<1>1. file.form \in {"AIFF", "AIFC", "8SVX"}
  BY DEF IffNeeds
<1>2. /\ file.cut = 0
      /\ \A kind \in IffNeeds[file.form] : Cardinality(Places({kind})) = 1
      /\ file.form # "8SVX" => /\ file.blocks[Place("COMM")].x > 0
                               /\ Places({"BODY"}) = {}
      /\ file.form = "8SVX" => Places({"COMM", "SSND"}) = {}
  BY <1>1 DEF WellFormed
<1> QED
  BY <1>2, PlacesHere, Zenon DEF GoodIff

\* Well-formed MPEG audio.
LEMMA WrittenMpeg ==
    ASSUME Made(file), WellFormed, file.form = "MPEG"
    PROVE  GoodMpeg(file)
<1> DEFINE kind(k) == file.blocks[k].kind
<1>0. DOMAIN file.blocks = 1 .. Len(file.blocks) /\ Len(file.blocks) \in Nat
  BY MadeBlocks
<1>1. file.cut = 0 /\ HasAudio /\ TagsWellFormed
  BY DEF WellFormed, IffNeeds
<1>2. MpegMade(file)
  BY DEF Made
<1>3. \A k \in DOMAIN file.blocks : kind(k) = "audio" =>
         k = 1 \/ (k = 2 /\ kind(1) \in {"id3v2", "ape"})
  BY <1>2 DEF MpegMade
<1>4. Sole(file, "audio")
  <2>1. PICK k \in DOMAIN file.blocks : kind(k) = "audio"
    BY <1>1 DEF HasAudio
  <2>2. \A j \in DOMAIN file.blocks : kind(j) = "audio" => j = k
    BY <1>0, <1>3, <2>1
  <2> QED
    BY <2>1, <2>2 DEF Sole, KindsAt
<1>5. /\ \A j, k \in DOMAIN file.blocks : kind(j) = "id3v1" /\ kind(k) = "id3v1" => j = k
      /\ \A j, k \in DOMAIN file.blocks : kind(j) = "mm" /\ kind(k) = "mm" => j = k
      /\ \A j, k \in DOMAIN file.blocks :
            kind(j) \in {"lyrics1", "lyrics2"} /\ kind(k) \in {"lyrics1", "lyrics2"} => j = k
  <2>1. Once({"id3v1"}) /\ Once({"lyrics1", "lyrics2"}) /\ Once({"mm"})
    BY <1>1 DEF TagsWellFormed
  <2>2. /\ \A j, k \in KindsAt(file, {"id3v1"}) : j = k
        /\ \A j, k \in KindsAt(file, {"lyrics1", "lyrics2"}) : j = k
        /\ \A j, k \in KindsAt(file, {"mm"}) : j = k
    BY <2>1, PlacesHere
  <2> QED
    BY <2>2 DEF KindsAt
<1>6. \A j, k \in DOMAIN file.blocks :
         kind(j) = "ape" /\ kind(k) = "ape" /\ j # 1 /\ k # 1 => j = k
  <2> DEFINE S == Places({"ape"}) \ {1}
  <2>1. S \in SUBSET DOMAIN file.blocks
    BY DEF Places
  <2>2. IsFiniteSet(S) /\ Cardinality(S) <= 1
    BY <1>1, <2>1, FinitelyMany DEF TagsWellFormed
  <2>3. \A j, k \in S : j = k
    <3> HIDE DEF S
    <3> QED
      BY <2>2, AtMostOne
  <2> QED
    BY <2>3 DEF Places
<1>7. ASSUME NEW k \in DOMAIN file.blocks
      PROVE  /\ file.blocks[k].x # "broken"
             /\ file.blocks[k].x = "headless" => kind(k - 1) = "audio"
             /\ kind(k) = "id3v1" => \A j \in DOMAIN file.blocks : j > k => kind(j) = "mm"
             /\ \A j \in DOMAIN file.blocks :
                  \/ kind(j) = kind(k) /\ kind(k) \in {"id3v1", "mm"}
                  \/ {kind(j), kind(k)} \subseteq {"lyrics1", "lyrics2"}
                  \/ kind(j) = "ape" /\ kind(k) = "ape" /\ j # 1 /\ k # 1
                  => j = k
  <2>1. /\ file.blocks[k].x # "broken"
        /\ file.blocks[k].x = "headless" => kind(k - 1) = "audio"
    BY <1>1 DEF TagsWellFormed
  <2>2. kind(k) = "id3v1" => \A j \in DOMAIN file.blocks : j > k => kind(j) = "mm"
    <3>1. kind(k) = "id3v1" => k \in Places({"id3v1"})
      BY DEF Places
    <3> QED
      BY <1>1, <3>1 DEF TagsWellFormed
  <2>3. ASSUME NEW j \in DOMAIN file.blocks,
               \/ kind(j) = kind(k) /\ kind(k) \in {"id3v1", "mm"}
               \/ {kind(j), kind(k)} \subseteq {"lyrics1", "lyrics2"}
               \/ kind(j) = "ape" /\ kind(k) = "ape" /\ j # 1 /\ k # 1
        PROVE  j = k
    BY <1>5, <1>6, <2>3
  <2> QED
    BY <2>1, <2>2, <2>3
<1> QED
  BY <1>1, <1>4, <1>7 DEF GoodMpeg

\* A well-formed VOC file; a single rate is that of all blocks that have one.
LEMMA WrittenVoc ==
    ASSUME Made(file), WellFormed, file.form = "VOC"
    PROVE  GoodVoc(file) /\ ld.call = "chunk"
<1> DEFINE kind(k) == file.blocks[k].kind
           R == Rated(file)
           C == {file.blocks[k].x.rate : k \in R}
<1>1. file.cut = 0 /\ VocWellFormed
  BY DEF WellFormed, IffNeeds
<1>2. \A kinds : Places(kinds) = KindsAt(file, kinds)
  BY PlacesHere
<1>3. /\ file.origin = 0 /\ ld.call = "chunk"
      /\ \A k \in KindsAt(file, {"term"}) : k = Len(file.blocks)
      /\ Sounds(file) # {}
      /\ \A k \in Sounds(file) : (\A j \in Sounds(file) : k <= j) => kind(k) \in {"data", "data16"}
      /\ KindsAt(file, {"data"}) = {} \/ KindsAt(file, {"data16"}) = {}
      /\ KindsAt(file, {"silence"}) # {} => KindsAt(file, {"data16", "extended"}) = {}
      /\ \A k \in KindsAt(file, {"data", "data16", "extended"}) : file.blocks[k].x.n # 0
      /\ \A k \in R \cup KindsAt(file, {"silence"}) : file.blocks[k].x.rate # 0
      /\ Cardinality(C) = 1
  <2> DEFINE plain == {k \in Places({"data"}) : k = 1 \/ kind(k - 1) # "extended"}
  <2>1. plain = Plain(file)
    BY <1>2 DEF Plain
  <2>2. R = plain \cup Places({"data16", "extended"})
    BY <1>2, <2>1 DEF Rated
  <2>3. Sounds(file) = Places({"data", "data16", "cont", "silence"})
    BY <1>2 DEF Sounds
  <2>4. /\ file.origin = 0 /\ ld.call = "chunk"
        /\ \A k \in Places({"term"}) : k = Len(file.blocks)
        /\ Sounds(file) # {}
        /\ \A k \in Sounds(file) : (\A j \in Sounds(file) : k <= j) => kind(k) \in {"data", "data16"}
        /\ Places({"data"}) = {} \/ Places({"data16"}) = {}
        /\ Places({"silence"}) # {} => Places({"data16", "extended"}) = {}
        /\ \A k \in Places({"data", "data16", "extended"}) : file.blocks[k].x.n # 0
    BY <1>1, <2>3, Zenon DEF VocWellFormed
  <2>5. \A k \in plain \cup Places({"data16", "extended", "silence"}) : file.blocks[k].x.rate # 0
    BY <1>1, Zenon DEF VocWellFormed
  <2>6. Cardinality({file.blocks[k].x.rate : k \in plain \cup Places({"data16", "extended"})}) = 1
    BY <1>1, Zenon DEF VocWellFormed
  <2>7. Cardinality(C) = 1
    BY <2>2, <2>6, Zenon
  <2>8. \A k \in R \cup KindsAt(file, {"silence"}) : file.blocks[k].x.rate # 0
    <3>1. \A k \in Places({"silence"}) \cup Places({"data16", "extended"}) :
             k \in Places({"data16", "extended", "silence"})
      BY DEF Places
    <3> HIDE DEF plain
    <3> QED
      BY <1>2, <2>2, <2>5, <3>1
  <2> HIDE DEF plain, R, C
  <2> QED
    BY <1>2, <2>4, <2>7, <2>8
<1>4. IsFiniteSet(C)
  <2> DEFINE g == [k \in R |-> file.blocks[k].x.rate]
  <2>1. IsFiniteSet(R)
    <3>1. R \in SUBSET DOMAIN file.blocks
      BY DEF Rated, Plain, KindsAt
    <3> QED
      BY <3>1, FinitelyMany
  <2>2. g \in Surjection(R, C)
    <3>1. g \in [R -> C]
      OBVIOUS
    <3>2. \A t \in C : \E s \in R : g[s] = t
      OBVIOUS
    <3> QED
      BY <3>1, <3>2 DEF Surjection
  <2> HIDE DEF R, C, g
  <2> QED
    BY <2>1, <2>2, FS_Surjection
<1>5. \A x, y \in C : x = y
  <2> HIDE DEF C
  <2>1. \E x : C = {x}
    BY <1>3, <1>4, AtMostOne
  <2> QED
    BY <2>1
<1>6. \A k \in R : file.blocks[k].x.rate = FileRate(file)
  <2>1. ASSUME NEW k \in R PROVE file.blocks[k].x.rate = FileRate(file)
    <3>1. (CHOOSE j \in R : TRUE) \in R
      BY <2>1
    <3> QED
      BY <1>5, <2>1, <3>1 DEF FileRate
  <2> QED
    BY <2>1
<1>7. file.form = "VOC"
  OBVIOUS
<1> HIDE DEF C
<1> QED
  BY <1>1, <1>3, <1>6, <1>7, Zenon DEF GoodVoc

\* A well-formed file is one that the readers read to its end.
LEMMA WrittenGood ==
    ASSUME Made(file), WellFormed
    PROVE  Suited(file, ld)
<1>1. file.form \in {"RIFF", "MPEG", "VOC"} \cup DOMAIN IffNeeds
  BY DEF WellFormed
<1> QED
  BY <1>1, WrittenRiff, WrittenIff, WrittenMpeg, WrittenVoc DEF Suited, Good, IffNeeds

\* A part of a VOC file is a stretch or nothing.
LEMMA PartTyped ==
    ASSUME NEW f, Made(f), GoodVoc(f), NEW k \in 1 .. Len(f.blocks)
    PROVE  \/ VocPartOf(f, k) = <<>>
           \/ \E e \in [from : Nat, to : Nat] : VocPartOf(f, k) = <<e>>
<1>1. CASE f.blocks[k].kind \in {"data", "data16", "cont"}
  <2>1. PICK from \in Nat, rest \in Nat : VocPartOf(f, k) = <<Stretch(from, from + rest)>>
    BY <1>1, VocSound
  <2>2. Stretch(from, from + rest) \in [from : Nat, to : Nat]
    <3>1. from + rest \in Nat
      OBVIOUS
    <3> QED
      BY <3>1 DEF Stretch
  <2> QED
    BY <2>1, <2>2
<1>2. CASE f.blocks[k].kind = "silence"
  <2>1. PICK n \in Nat : VocPartOf(f, k) = <<Silence(n)>>
    BY <1>2, VocSilence
  <2>2. Silence(n) \in [from : Nat, to : Nat]
    BY DEF Silence, Stretch
  <2> QED
    BY <2>1, <2>2
<1>3. CASE f.blocks[k].kind \notin {"data", "data16", "cont", "silence"}
  BY <1>3 DEF VocPartOf
<1> QED
  BY <1>1, <1>2, <1>3

\* What is heard of a VOC file is a sequence of stretches.
LEMMA TillTyped ==
    ASSUME NEW f, Made(f), GoodVoc(f)
    PROVE  AudioTill(f, Len(f.blocks) + 1) \in Stretches
<1> DEFINE n == Len(f.blocks)
           S == {k \in Nat : k <= n => AudioTill(f, k + 1) \in Stretches}
<1>0. n \in Nat
  BY MadeBlocks
<1>1. 0 \in S
  BY DEF AudioTill, Stretches
<1>2. ASSUME NEW k \in Nat, k \in S PROVE k + 1 \in S
  <2>1. CASE k + 1 <= n
    <3>1. k + 1 \in 1 .. n /\ AudioTill(f, k + 1) \in Stretches
      BY <1>0, <1>2, <2>1
    <3> DEFINE j == k + 1
    <3>2. j \in 1 .. n /\ AudioTill(f, j) \in Stretches
      BY <3>1
    <3> HIDE DEF j
    <3>3. AudioTill(f, j + 1) \in Stretches
      <4>1. CASE VocPartOf(f, j) = <<>>
        BY <3>2, <4>1, TillNext, Zenon
      <4>2. CASE \E e \in [from : Nat, to : Nat] : VocPartOf(f, j) = <<e>>
        <5>1. PICK e \in [from : Nat, to : Nat] : VocPartOf(f, j) = <<e>>
          BY <4>2
        <5>2. AudioTill(f, j + 1) = Append(AudioTill(f, j), e)
          BY <3>2, <5>1, TillNext, Zenon
        <5> QED
          BY <3>2, <5>2, SumGrows
      <4> QED
        BY <3>2, <4>1, <4>2, PartTyped, Zenon
    <3> QED
      BY <3>3 DEF j
  <2> QED
    BY <2>1
<1>3. \A k \in Nat : k \in S
  <2> HIDE DEF S
  <2> QED
    BY <1>1, <1>2, NumberInduction
<1>4. n \in S
  <2> HIDE DEF S
  <2> QED
    BY <1>0, <1>3
<1> QED
  BY <1>0, <1>4

\* A sum of sizes is an integer.
LEMMA SumTyped ==
    ASSUME NEW s \in Stretches
    PROVE  SumOf(s) \in Int
<1> DEFINE n == Len(s)
           S == {k \in Nat : k <= n => Sums(s)[k] \in Int}
<1>0. n \in Nat /\ \A k \in 1 .. n : s[k] \in [from : Nat, to : Nat]
  <2> DEFINE E == [from : Nat, to : Nat]
  <2>1. s \in Seq(E)
    BY DEF Stretches
  <2> HIDE DEF E, S
  <2>2. Len(s) \in Nat /\ \A k \in 1 .. Len(s) : s[k] \in E
    BY <2>1
  <2> QED
    BY <2>2 DEF E
<1>1. \A k \in 1 .. n : Size(s[k]) \in Int
  BY <1>0 DEF Size
<1>2. Sums(s) = [k \in 0 .. n |-> IF k = 0 THEN 0 ELSE Sums(s)[k - 1] + Size(s[k])]
  BY <1>0, SumsEquation
<1>3. 0 \in S
  BY <1>0, <1>2
<1>4. ASSUME NEW k \in Nat, k \in S PROVE k + 1 \in S
  <2>1. CASE k + 1 <= n
    <3>1. k + 1 \in 0 .. n /\ k + 1 # 0 /\ (k + 1) - 1 = k /\ k + 1 \in 1 .. n
      BY <1>0, <2>1
    <3>2. Sums(s)[k + 1] = Sums(s)[k] + Size(s[k + 1])
      BY <1>2, <3>1
    <3>3. Sums(s)[k] \in Int /\ Size(s[k + 1]) \in Int
      BY <1>0, <1>1, <1>4, <3>1
    <3> QED
      BY <3>2, <3>3
  <2> QED
    BY <2>1
<1>5. \A k \in Nat : k \in S
  <2> HIDE DEF S
  <2> QED
    BY <1>3, <1>4, NumberInduction
<1>6. n \in S
  <2> HIDE DEF S
  <2> QED
    BY <1>0, <1>5
<1> QED
  BY <1>0, <1>6 DEF SumOf

\* The stretches of a VOC file are what is heard of its blocks.
LEMMA StretchesHere ==
    ASSUME Made(file), WellFormed, file.form = "VOC"
    PROVE  VocWritten = AudioTill(file, Len(file.blocks) + 1)
<1> DEFINE n == Len(file.blocks)
           rate == file.blocks[CHOOSE k \in Places({"data", "data16"}) : TRUE].x.rate
           Part(k) ==
             LET b == file.blocks[k]
             IN  CASE b.kind \in {"data", "cont", "data16"} ->
                        <<Stretch(Begin(k) + 4 + Told(b), Begin(k + 1))>>
                   [] b.kind = "silence" -> <<Silence((b.x.n * (256 - b.x.rate)) \div (256 - rate))>>
                   [] OTHER -> <<>>
           s == [k \in DOMAIN file.blocks |-> Part(k)]
<1>1. Suited(file, ld)
  BY WrittenGood
<1>2. n \in Nat /\ n >= 1 /\ DOMAIN file.blocks = 1 .. n
  BY <1>1, GoodLong, MadeBlocks DEF Suited
<1>3. rate = file.blocks[CHOOSE j \in KindsAt(file, {"data", "data16"}) : TRUE].x.rate
  <2>1. Places({"data", "data16"}) = KindsAt(file, {"data", "data16"})
    BY PlacesHere
  <2> QED
    BY <2>1
<1> HIDE DEF rate
<1>4. ASSUME NEW k PROVE Part(k) = VocPartOf(file, k)
  BY <1>3, Here, Zenon DEF VocPartOf
<1>5. s = VocParts(file)
  BY <1>4 DEF VocParts
<1>6. VocWritten = FlattenSeq(s)
  BY DEF VocWritten, rate
<1>7. Len(VocParts(file)) = n
  BY <1>2 DEF VocParts
<1> HIDE DEF s, n
<1>8. FlattenSeq(VocParts(file)) = Flat(VocParts(file))[n]
  BY <1>2, <1>7 DEF FlattenSeq, Flat
<1>9. AudioTill(file, n + 1) = Flat(VocParts(file))[n]
  <2>1. n + 1 # 1 /\ (n + 1) - 1 = n
    BY <1>2
  <2> QED
    BY <2>1 DEF AudioTill
<1> QED
  BY <1>5, <1>6, <1>8, <1>9 DEF n

\* No part of a frame of one byte is left.
LEMMA Halves ==
    \A a \in Int : a - (a % 1) = a
  OBVIOUS

\* Frames of two bytes are those of 16-bit or of stereo data.
LEMMA CountedHere ==
    ASSUME Made(file), WellFormed, file.form = "VOC"
    PROVE  Counted = BytesFound(file)
<1> DEFINE n == Len(file.blocks)
           wide == \E k \in Places({"data16", "extended"}) : file.blocks[k].x.n = 2
           all == VocWritten
           sum == SumOf(all)
<1>1. GoodVoc(file)
  BY WrittenVoc
<1>2. n \in Nat /\ DOMAIN file.blocks = 1 .. n
  BY MadeBlocks
<1>3. \A kinds : Places(kinds) = KindsAt(file, kinds)
  BY PlacesHere
<1>4. Counted = IF wide THEN sum - (sum % 2) ELSE sum
  BY DEF Counted, SumOf, Sums
<1>5. sum = SumOf(AudioTill(file, n + 1)) /\ sum \in Int
  <2>1. AudioTill(file, n + 1) \in Stretches
    BY <1>1, TillTyped
  <2>2. VocWritten = AudioTill(file, n + 1)
    BY StretchesHere
  <2> QED
    BY <2>1, <2>2, SumTyped
<1>6. BytesFound(file) = sum - (sum % FrameSize(file))
  BY <1>5 DEF BytesFound
<1>7. ASSUME NEW k \in KindsAt(file, {"extended"})
      PROVE  /\ Channels(file) = file.blocks[k].x.n /\ file.blocks[k].x.n \in {1, 2}
             /\ KindsAt(file, {"data16"}) = {}
  <2>1. k \in 1 .. n /\ file.blocks[k].kind = "extended"
    BY <1>2, <1>7 DEF KindsAt
  <2>2. k + 1 \in 1 .. n /\ file.blocks[k + 1].kind = "data"
    BY <1>1, <2>1, VocExtended, VocFacts
  <2>3. k + 1 \in KindsAt(file, {"data"})
    BY <1>2, <2>2 DEF KindsAt
  <2>4. KindsAt(file, {"data16"}) = {}
    BY <1>1, <2>3 DEF GoodVoc
  <2> QED
    BY <1>1, <2>1, <2>4, VocSizes
<1>8. ASSUME NEW k \in KindsAt(file, {"data16"})
      PROVE  SampleSize(file) = file.blocks[k].x.n /\ file.blocks[k].x.n \in {1, 2}
  <2>1. k \in 1 .. n /\ file.blocks[k].kind = "data16"
    BY <1>2, <1>8 DEF KindsAt
  <2> QED
    BY <1>1, <2>1, VocSizes
<1>9. wide <=> \/ \E k \in KindsAt(file, {"data16"}) : file.blocks[k].x.n = 2
               \/ \E k \in KindsAt(file, {"extended"}) : file.blocks[k].x.n = 2
  BY <1>3 DEF KindsAt
<1>10. FrameSize(file) = IF wide THEN 2 ELSE 1
  <2>1. CASE KindsAt(file, {"extended"}) = {}
    <3>1. FrameSize(file) = SampleSize(file) * 1
      BY <2>1 DEF FrameSize
    <3>2. CASE KindsAt(file, {"data16"}) = {}
      <4>1. SampleSize(file) = 1 /\ ~wide
        BY <1>9, <2>1, <3>2 DEF SampleSize
      <4> QED
        BY <3>1, <4>1
    <3>3. CASE KindsAt(file, {"data16"}) # {}
      <4>1. SampleSize(file) = IF wide THEN 2 ELSE 1
        BY <1>8, <1>9, <2>1, <3>3
      <4> QED
        BY <3>1, <4>1
    <3> QED
      BY <3>2, <3>3
  <2>2. CASE KindsAt(file, {"extended"}) # {}
    <3>1. KindsAt(file, {"data16"}) = {}
      BY <1>7, <2>2
    <3>2. FrameSize(file) = 1 * Channels(file)
      BY <2>2, <3>1 DEF FrameSize, SampleSize
    <3>3. Channels(file) = IF wide THEN 2 ELSE 1
      BY <1>7, <1>9, <2>2, <3>1
    <3> QED
      BY <3>2, <3>3
  <2> QED
    BY <2>1, <2>2
<1> HIDE DEF wide, all, sum
<1>11. CASE wide
  BY <1>4, <1>6, <1>10, <1>11
<1>12. CASE ~wide
  <2>1. sum - (sum % 1) = sum
    BY <1>5, Halves
  <2> QED
    BY <1>4, <1>6, <1>10, <1>12, <2>1
<1> QED
  BY <1>11, <1>12

\* The audio of the file is what a reader finds in it.
LEMMA WrittenHere ==
    ASSUME Made(file), WellFormed
    PROVE  Written = AudioIn(file, Keeps(ld.i))
<1>1. Suited(file, ld)
  BY WrittenGood
<1>2. file.form \in {"RIFF", "MPEG", "VOC", "AIFF", "AIFC", "8SVX"}
  BY <1>1, GoodForms DEF Suited, IffNeeds
<1>3. CASE file.form = "VOC"
  BY <1>3, StretchesHere DEF Written, AudioIn
<1>4. CASE file.form = "RIFF"
  BY <1>4, PlacesHere, Here DEF Written, AudioIn, DataFrom, DataLen
<1>5. CASE file.form = "8SVX"
  <2> DEFINE k == The(file, "BODY")
  <2>1. GoodIff(file)
    BY <1>1, <1>5, GoodForms DEF Suited, IffNeeds
  <2>2. Sole(file, "BODY") /\ file.cut = 0
    BY <1>5, <2>1 DEF GoodIff, IffNeeds
  <2>3. k \in 1 .. Len(file.blocks)
    BY <2>2, SoleOne, MadeBlocks
  <2>4. /\ Edge(file, k) \in Nat /\ file.blocks[k].len \in Nat
        /\ file.blocks[k].pad = file.blocks[k].len % 2
        /\ Edge(file, k + 1) = Edge(file, k) + 8 + file.blocks[k].len + (file.blocks[k].len % 2)
    BY <1>5, <2>2, <2>3, ChunkFacts
  <2>5. Edge(file, k + 1) - file.blocks[k].pad = (Edge(file, k) + 8) + file.blocks[k].len
    <3> DEFINE e == Edge(file, k)
               l == file.blocks[k].len
    <3>1. (e + 8 + l + (l % 2)) - (l % 2) = (e + 8) + l
      <4>1. e \in Nat /\ l \in Nat
        BY <2>4
      <4> HIDE DEF e, l
      <4> QED
        BY <4>1
    <3> QED
      BY <2>4, <3>1, Zenon
  <2>6. Written = <<Stretch(Edge(file, k) + 8, Edge(file, k + 1) - file.blocks[k].pad)>>
    BY <1>5, PlacesHere, Here DEF Written
  <2>7. AudioIn(file, Keeps(ld.i))
           = <<Stretch(Edge(file, k) + 8, (Edge(file, k) + 8) + file.blocks[k].len)>>
    BY <1>5 DEF AudioIn, SoundFrom, SoundLen
  <2> QED
    BY <2>5, <2>6, <2>7, Zenon
<1>6. CASE file.form = "MPEG"
  BY <1>6, PlacesHere, Here DEF Written, AudioIn, MpegFrom, Keeps
<1>7. CASE file.form \in {"AIFF", "AIFC"}
  BY <1>7, PlacesHere, Here DEF Written, AudioIn, SoundFrom, SoundLen
<1> QED
  BY <1>2, <1>3, <1>4, <1>5, <1>6, <1>7

\* Every tag but the one in front stands behind the audio.
LEMMA TitleHere ==
    ASSUME Made(file), WellFormed
    PROVE  Title = TitleIn(file)
<1>1. CASE file.form # "MPEG"
  BY <1>1 DEF Title, TitleIn
<1>2. CASE file.form = "MPEG"
  <2> DEFINE a == The(file, "audio")
  <2>1. GoodMpeg(file)
    BY <1>2, WrittenMpeg
  <2>2. /\ DOMAIN file.blocks = 1 .. Len(file.blocks) /\ Len(file.blocks) \in Nat
        /\ a \in {1, 2} /\ file.blocks[a].kind = "audio"
        /\ a = 2 => file.blocks[1].kind \in {"id3v2", "ape"}
    BY <2>1, MpegFacts
  <2>3. (\E k \in Places({"ape"}) \ {1} : file.blocks[k].x = "ok") <=> ApeBehind(file, a)
    <3>1. ASSUME NEW k \in Places({"ape"}) \ {1} PROVE k > a
      <4>1. k \in 1 .. Len(file.blocks) /\ k # a /\ k # 1
        BY <2>2, <3>1 DEF Places
      <4> QED
        BY <2>2, <4>1
    <3> QED
      BY <3>1 DEF Places, ApeBehind
  <2>4. Places({"id3v1"}) # {} <=> Id3v1Behind(file, a)
    <3>1. ASSUME NEW k \in Places({"id3v1"}) PROVE k > a
      <4>1. k \in 1 .. Len(file.blocks) /\ file.blocks[k].kind = "id3v1"
        BY <2>2, <3>1 DEF Places
      <4>2. k # a /\ (a = 2 => k # 1)
        BY <2>2, <4>1
      <4> QED
        BY <2>2, <4>1, <4>2
    <3> QED
      BY <3>1 DEF Places, Id3v1Behind
  <2> QED
    BY <1>2, <2>3, <2>4, Zenon DEF Title, TitleIn, TitleBehind, HeadTitled
<1> QED
  BY <1>1, <1>2

-----------------------------------------------------------------------------
(* The theorem.                                                             *)

\* What is known of the load is LoadedAsWritten.
LEMMA LoadedSo ==
    ASSUME IInv, Typing, Made(file), Fit
    PROVE  LoadedAsWritten
<1>1. TypeOK
  BY TypingOK
<1>2. ASSUME WellFormed
      PROVE  /\ ld.pc = "loaded" /\ rd.pc = "found" =>
                  /\ rd.audio = Written \/ (ld.short /\ Beginning(rd.audio, Written))
                  /\ rd.title = Title
                  /\ file.form = "VOC" => rd.bytes = Counted
             /\ ld.pc = "null" => ld.hitch
  <2>1. FitAt(file, rd, pos, ld)
    BY <1>2, WrittenGood DEF Fit
  <2>2. ld.pc = "null" => ld.hitch
    BY <2>1 DEF FitAt
  <2>3. ASSUME ld.pc = "loaded", rd.pc = "found"
        PROVE  /\ rd.audio = Written \/ (ld.short /\ Beginning(rd.audio, Written))
               /\ rd.title = Title
               /\ file.form = "VOC" => rd.bytes = Counted
    <3>1. FoundIn(file, rd, Keeps(ld.i)) \/ (ld.short /\ BegunIn(file, rd, Keeps(ld.i)))
      <4>1. rd.pc # "none"
        BY <2>3
      <4> QED
        BY <2>1, <2>3, <4>1, Zenon DEF FitAt
    <3>2. CASE FoundIn(file, rd, Keeps(ld.i))
      BY <1>2, <3>2, WrittenHere, TitleHere, CountedHere, Zenon DEF FoundIn
    <3>3. CASE ld.short /\ BegunIn(file, rd, Keeps(ld.i))
      BY <1>2, <3>3, WrittenHere, TitleHere, Zenon DEF BegunIn
    <3> QED
      BY <3>1, <3>2, <3>3
  <2> QED
    BY <2>2, <2>3
<1> QED
  BY <1>1, <1>2 DEF LoadedAsWritten

\* Of every well-formed file, with all the forms and the tags and blocks it may have,
\* exactly the audio is loaded, in its order and whole, whatever the decoders are and in
\* whatever order as long as there are both (Mix_LoadMUSType_RW_ARG, Mix_LoadWAV_RW,
\* mp3_read_tags, Mix_LoadVOC_RW); a beginning of it where memory runs out while a
\* decoder plays a chunk (Mix_LoadMusic_RW): its title is the one of the best tag, and it is
\* refused only when memory, a decoder or a conversion fails.  Of every other file that
\* is made of blocks the cursor stays in it.
THEOREM LoadedAsWrittenAlways ==
    ASSUME \A f \in Files : Made(f), BothTypes
    PROVE  Spec => []LoadedAsWritten
<1> DEFINE I == IInv /\ Typing /\ Fit
<1>1. IInv => Made(file)
  BY DEF IInv
<1>2. Init => I
  <2>1. ASSUME Init PROVE I
    <3>1. IInv /\ Made(file)
      BY <1>1, <2>1, InitInv
    <3> QED
      BY <2>1, <3>1, InitTyping, InitFit
  <2> QED
    BY <2>1
<1>3. I /\ [Next]_vars => I'
  <2>1. ASSUME I, [Next]_vars PROVE IInv'
    BY <2>1, NextInv
  <2>2. ASSUME I, Next PROVE Typing' /\ Fit'
    BY <1>1, <2>2, NextTyping, NextFit
  <2>3. ASSUME I, UNCHANGED vars PROVE Typing' /\ Fit'
    BY <2>3 DEF vars, Typing, Fit
  <2> QED
    BY <2>1, <2>2, <2>3
<1>4. I => LoadedAsWritten
  BY <1>1, LoadedSo
<1> QED
  BY <1>2, <1>3, <1>4, PTL DEF Spec
=============================================================================
