---------------------------- MODULE MCSequencer -----------------------------
(* Files for the sequencer.  A track is written as a sequence of pairs: the  *)
(* ticks before an event, and the event.                                     *)
EXTENDS Sequencer

Items(pairs) == [i \in DOMAIN pairs |-> [delay |-> pairs[i][1], e |-> pairs[i][2]]]

\* First tracks: with the loop of the song, with stack loops, one after the other
\* or nested, with and without an end; notes end where a loop does, or go on.
FirstTracks == {Items(p) : p \in {
    <<<<0, On(1)>>, <<2, Off(1)>>, <<0, On(1)>>, <<0, Off(1)>>, <<1, EndTrack>>>>,
    <<<<0, On(1)>>, <<1, Off(1)>>, <<0, LoopStart>>, <<0, On(1)>>, <<2, LoopEnd>>, <<0, Off(1)>>,
      <<1, EndTrack>>>>,
    <<<<1, On(1)>>, <<0, LoopStart>>, <<1, Off(1)>>, <<1, EndTrack>>>>,
    <<<<0, On(1)>>, <<1, Off(1)>>, <<1, LoopEnd>>, <<1, On(1)>>, <<0, EndTrack>>>>,
    <<<<0, On(1)>>, <<1, Begin("song", 2)>>, <<0, Off(1)>>, <<1, On(1)>>, <<1, Off(1)>>, <<0, End("song")>>,
      <<1, On(1)>>, <<0, EndTrack>>>>,
    <<<<0, Begin("song", 2)>>, <<0, On(1)>>, <<1, Begin("song", 2)>>, <<0, Off(1)>>, <<1, End("song")>>,
      <<1, End("song")>>, <<0, On(1)>>, <<1, EndTrack>>>>,
    <<<<0, On(1)>>, <<1, Begin("song", 0)>>, <<1, Off(1)>>, <<1, End("song")>>, <<1, EndTrack>>>>,
    <<<<0, Begin("song", 2)>>, <<1, On(1)>>, <<1, End("song")>>, <<0, Begin("song", 3)>>, <<0, On(1)>>,
      <<1, End("song")>>, <<1, EndTrack>>>>
    }}

\* Second tracks without loops: one that has notes where the loops begin and end,
\* one that starts late and has no end of track.
SecondTracks == {Items(p) : p \in {
    <<<<0, On(1)>>, <<1, Off(1)>>, <<0, On(2)>>, <<1, Off(2)>>, <<0, On(1)>>, <<1, Off(1)>>, <<0, EndTrack>>>>,
    <<<<2, On(1)>>, <<0, Off(1)>>, <<1, On(2)>>>>
    }}

\* Tracks with loops of their own: from the first tick on, and nested.
LoopedTracks == {Items(p) : p \in {
    <<<<0, Begin("track", 2)>>, <<0, On(1)>>, <<1, Off(1)>>, <<0, End("track")>>, <<1, On(2)>>,
      <<0, EndTrack>>>>,
    <<<<0, On(1)>>, <<1, Begin("track", 2)>>, <<0, Begin("track", 2)>>, <<0, On(1)>>, <<1, Off(1)>>,
      <<0, End("track")>>, <<1, End("track")>>, <<0, On(2)>>, <<0, EndTrack>>>>
    }}

\* What they are played with: a loop of the song that has them inside or follows
\* them.
PartnerTracks == {Items(p) : p \in {
    <<<<0, Begin("song", 2)>>, <<0, On(1)>>, <<7, End("song")>>, <<0, Off(1)>>, <<1, EndTrack>>>>,
    <<<<8, LoopStart>>, <<0, On(1)>>, <<1, LoopEnd>>, <<0, EndTrack>>>>
    }}

EndlessTrack ==
    Items(<<<<1, Begin("track", 0)>>, <<0, On(1)>>, <<1, Off(1)>>, <<1, End("track")>>, <<0, EndTrack>>>>)
PlainTrack == Items(<<<<0, On(1)>>, <<2, Off(1)>>, <<1, EndTrack>>>>)

\* Loops that take no time.
StuckTracks == {Items(p) : p \in {
    <<<<0, LoopStart>>, <<0, LoopEnd>>, <<1, EndTrack>>>>,
    <<<<0, On(1)>>, <<1, Begin("song", 0)>>, <<0, Off(1)>>, <<0, End("song")>>, <<1, EndTrack>>>>,
    <<<<0, Begin("track", 0)>>, <<0, End("track")>>, <<1, On(1)>>, <<0, EndTrack>>>>
    }}

SomeSongs == {<<a>> : a \in FirstTracks \cup LoopedTracks \cup StuckTracks}
             \cup {<<a, b>> : a \in FirstTracks, b \in SecondTracks}
             \cup {<<a, b>> : a \in PartnerTracks \cup {PlainTrack}, b \in LoopedTracks}
             \cup {<<PlainTrack, EndlessTrack>>}

OnceTwiceForever == {1, 2, -1}
=============================================================================
