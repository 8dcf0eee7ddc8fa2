------------------------------- MODULE MCLoading -------------------------------
(* Files and decoders for the loads of Loading.                             *)
EXTENDS Loading

File(form, lead, origin, blocks, cut) ==
    [form |-> form, lead |-> lead, origin |-> origin, blocks |-> blocks, cut |-> cut]

\* All lists of at most n members of S.
Lists(S, n) == UNION {[1 .. k -> S] : k \in 0 .. n}

RiffChunks ==
    {Chunk("fmt", 16, "pcm"), Chunk("fmt", 30, "mp3"), Chunk("fmt", 14, "pcm"), Chunk("fmt", 14, "mp3"), Chunk("data", 5, ""),
     Chunk("LIST", 7, ""), Chunk("ID3", 10, ""), Chunk("other", 3, ""), Chunk("other", 0, "")}

\* Where the file begins in its source, and the bytes that are cut off its end.
Placed == {<<0, 0>>, <<5, 0>>, <<0, 3>>}

RiffFiles == {File("RIFF", 12, p[1], b, p[2]) : p \in Placed, b \in Lists(RiffChunks, 3)}

\* x: bytes of sound, 0 where the frequency is bad (COMM), or bytes skipped before it (SSND).
IffChunks ==
    {Chunk("COMM", 18, 5), Chunk("COMM", 18, 0), Chunk("SSND", 15, 2), Chunk("FVER", 4, 0), Chunk("VHDR", 20, 0), Chunk("BODY", 5, 0), Chunk("NAME", 3, 0)}

IffFiles ==
    {File(f, 12, p[1], b, p[2]) : f \in DOMAIN IffNeeds, p \in Placed, b \in Lists(IffChunks, 3)}

HeadTags == {<<>>, <<Block("id3v2", 10, 30, "ok")>>, <<Block("id3v2", 10, 30, "bare")>>,
          <<Block("ape", 32, 20, "ok")>>}

HindTags ==
    {Block("id3v1", 0, 128, "ok"), Block("ape", 32, 60, "ok"), Block("ape", 0, 60, "headless"),
     Block("lyrics1", 11, 60, "ok"), Block("lyrics2", 11, 70, "ok"), Block("mm", 0, 8456, "ok"),
     Block("mm", 0, 8456, "broken")}

AudioOf(bytes) == IF bytes = 0 THEN <<>> ELSE <<Block("audio", 0, bytes, "")>>

MpegFiles ==
    {File("MPEG", 0, 5, h \o AudioOf(a) \o t, 0) :
       h \in HeadTags, a \in {0, 40}, t \in Lists(HindTags, 3)}

\* Each list of blocks with a terminator and without; an extended block comes with data.
VocPart(kind, len, rate, n) == Block(kind, 4, len, [rate |-> rate, n |-> n])

VocParts ==
    {<<VocPart("data", 6, 156, 1)>>, <<VocPart("data", 5, 206, 1)>>, <<VocPart("data", 6, 156, 0)>>,
     <<VocPart("extended", 4, 65000, 2), VocPart("data", 7, 156, 1)>>, <<VocPart("cont", 3, 0, 0)>>,
     <<VocPart("data16", 16, 22050, 2)>>, <<VocPart("silence", 3, 156, 6)>>,
     <<VocPart("silence", 3, 206, 6)>>, <<VocPart("silence", 3, 0, 6)>>, <<VocPart("data", 6, 0, 1)>>, <<VocPart("text", 5, 0, 0)>>, <<VocPart("loop", 2, 0, 0)>>}

VocEnds == {<<>>, <<Block("term", 1, 0, [rate |-> 0, n |-> 0])>>}

VocFiles == {File("VOC", 26, p[1], FlattenSeq(b) \o e, p[2]) :
               p \in Placed, b \in Lists(VocParts, 3), e \in VocEnds}

OtherFiles == {File("other", n, 0, <<>>, 0) : n \in {3, 20, 64}}

\* A fragment ends at every so many bytes.
SomeEnds == {20, 40, 60}

AllFiles == RiffFiles \cup IffFiles \cup MpegFiles \cup VocFiles \cup OtherFiles

\* In the order of the table of interfaces in music.c.
AllDecoders == <<[type |-> "wav", front |-> ""], [type |-> "mp3", front |-> "cut"],
                 [type |-> "mp3", front |-> "keep"]>>

\* The files and the decoders are what LoadingProofs takes for granted of them.
ASSUME MadeAssumption == (\A f \in Files : Made(f)) /\ BothTypes
=============================================================================
