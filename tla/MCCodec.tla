------------------------------ MODULE MCCodec -------------------------------
(* Small instances of Codec for TLC. *)
EXTENDS Codec

Piece(codec, length) ==
    [codec |-> codec, length |-> length, start |-> 0, end |-> 0, page |-> 0,
     points |-> <<>>, calls |-> {}, seeks |-> {}]
Looped(codec, length, start, end) ==
    [Piece(codec, length) EXCEPT !.start = start, !.end = end]
Point(start, stop, count) == [start |-> start, stop |-> stop, count |-> count]

\* Left alone, or halted and sought.
Handled(c, seeks) == {c, [c EXCEPT !.calls = {"stop", "seek"}, !.seeks = seeks]}
Sought(c, seeks) == {c, [c EXCEPT !.calls = {"seek"}, !.seeks = seeks]}

SomeCounts == {-1, 1, 2, 3}

AllCases ==
    UNION {Handled(Piece(codec, 6), {3, 5}) : codec \in Plain}
    \union Handled(Piece("xmp", 8), {4})
    \union {Piece("drmp3", 0), Piece("ogg", 0)}
    \union Handled(Looped("ogg_stb", 9, 2, 7), {3, 8})
    \union Handled([Looped("ogg", 9, 4, 7) EXCEPT !.page = 4], {3, 8})
    \union Handled(Looped("opus", 9, 1, 8), {3})
    \union Handled(Looped("qoa", 12, 2, 7), {3, 8})
    \union Handled(Looped("flac", 9, 1, 7), {2})
    \union {Looped("drflac", 9, 2, 7), Piece("timidity_stream", 8)}
    \union Handled(Piece("timidity", 7), {5})
    \union UNION {Sought(Piece(codec, 6), {3}) : codec \in Synths}
    \union Handled([Piece("wav", 12) EXCEPT
                       !.points = <<Point(1, 4, 2), Point(6, 10, 1)>>], {3, 6})
    \union Handled([Piece("wav", 9) EXCEPT !.points = <<Point(2, 6, 0)>>], {3})

ASSUME RightCases == \A c \in AllCases : PlaysRight(c)

\* A loop that does not start where a page does.
OggCase == {[Looped("ogg", 14, 6, 12) EXCEPT !.page = 4]}
\* Halted and started again while the end of a loop has been read.
DrflacCase == {[Looped("drflac", 9, 2, 7) EXCEPT !.calls = {"stop"}]}
\* Sought to just before the end of its loop.
FlacCase == {[Looped("flac", 9, 1, 7) EXCEPT !.calls = {"seek"}, !.seeks = {5}]}
OpusCase == {Looped("opus", 9, 1, 7)}
AdlCase == {[Piece("adlmidi", 6) EXCEPT !.calls = {"stop"}]}
TimidityCase == {Piece("timidity_stream", 7)}
QoaCase == {Looped("qoa", 9, 2, 9)}
=============================================================================
