-------------------------------- MODULE Midi --------------------------------
(* What the MIDI sequencer makes of a file (impl/read_smf_impl.hpp,         *)
(* miditrack_impl.hpp, loop_impl.hpp and mididata_impl.hpp): the rows of    *)
(* events of each track, the loop points, and the positions where the song  *)
(* and its loop begin.                                                      *)
(*                                                                          *)
(* A file is a sequence of tracks, a track a sequence of items: an event    *)
(* and the ticks before it.  Notes stand for keys; tracks do not share      *)
(* channels, and a track of several keeps to one.  Other MIDI messages,     *)
(* tempo changes (a tick is a tick), devices, branches and loops named by a *)
(* number are left out; of the ways to write a loop point (markers,         *)
(* controllers) only what they become is kept.                              *)
EXTENDS Integers, FiniteSets, SequencesExt

CONSTANTS
    stackDepthMax,      \* 127 in the code
    m_postSongWaitDelay \* ticks

On(n) == [type |-> "on", scope |-> "", n |-> n]
Off(n) == [type |-> "off", scope |-> "", n |-> n]
\* A stack loop of n passes, 0 for ever: of the whole song, or of its track.
Begin(scope, n) == [type |-> "begin", scope |-> scope, n |-> n]
End(scope) == [type |-> "end", scope |-> scope, n |-> 0]
LoopStart == [type |-> "loopStart", scope |-> "song", n |-> 0]
LoopEnd == [type |-> "loopEnd", scope |-> "song", n |-> 0]
EndTrack == [type |-> "endTrack", scope |-> "", n |-> 0]
SongBeginHook == [type |-> "hook", scope |-> "", n |-> 0]

\* Loops are numbered: 0 is the song's (m_loop), k that of track k.
LoopOf(e, k) == IF e.scope = "track" THEN k ELSE 0

-----------------------------------------------------------------------------
(* Rows                                                                     *)

\* A file of one track has no channel of its own: jumps silence them all.  Of
\* several tracks, each but the first has that of its first note.
HasChannel(file, k) == Len(file) = 1 \/ k > 1

typePriority(e) ==
    CASE e.type = "hook" -> -1
      [] e.type = "off" -> 1
      [] e.type \in {"begin", "end", "loopStart", "loopEnd"} -> 2
      [] e.type = "on" -> 4
      [] e.type = "endTrack" -> 20

ByPriority(events) ==
    LET Of(p) == SelectSeq(events, LAMBDA e : typePriority(e) = p)
    IN  Of(-1) \o Of(1) \o Of(2) \o Of(4) \o Of(20)

\* The sorted row.  A release of a note that the row also strikes goes to the
\* end, unless it is the first one and the note (in noteStates) sounded before.
sortEvents(events, noteStates) ==
    LET s == ByPriority(events)
        Late(i) ==
            /\ s[i].type = "off"
            /\ Contains(s, On(s[i].n))
            /\ s[i].n \in noteStates => \E j \in 1 .. i - 1 : s[j] = s[i]
        Those(P(_)) == [j \in DOMAIN s |-> IF P(j) THEN <<s[j]>> ELSE <<>>]
    IN  FlattenSeq(Those(LAMBDA i : ~ Late(i))) \o FlattenSeq(Those(Late))

NoteStates(events, noteStates) ==
    FoldLeft(LAMBDA on, e : CASE e.type = "on" -> on \cup {e.n}
                              [] e.type = "off" -> on \ {e.n}
                              [] OTHER -> on, noteStates, events)

-----------------------------------------------------------------------------
(* Loop points, as they are met while the tracks are read                   *)

NoLoopPoints(tracks) ==
    [gotLoopStart |-> FALSE, gotLoopEnd |-> FALSE, gotStackLoopStart |-> FALSE,
     loopStartTicks |-> 0, loopEndTicks |-> 0, ticksSongLength |-> 0,
     gotLoopEventsInThisRow |-> 0,
     level |-> [l \in 0 .. tracks |-> -1], stack |-> [l \in 0 .. tracks |-> <<>>],
     invalid |-> {}]

GLOBAL_LOOP == 1
GLOBAL_LOOPSTACK == 2
LOCAL_LOOPSTACK == 3
HasGlobalLoop(bits) == bits % 2 = 1
BitsOf(l) == IF l = 0 THEN GLOBAL_LOOPSTACK ELSE LOCAL_LOOPSTACK

\* The code adds the bits of a loop event to those of its row; each loop event ends its
\* row (smf_buildOneTrack), so that there are none to add them to.
setLoopStackStart(s, l, n, at) ==
    LET deeper == s.level[l] + 1 >= Len(s.stack[l])
        full == Len(s.stack[l]) >= stackDepthMax
    IN  [s EXCEPT !.loopStartTicks = IF s.gotStackLoopStart \/ s.gotLoopStart THEN @ ELSE at,
                  !.gotStackLoopStart = TRUE,
                  !.level[l] = @ + 1,
                  !.stack[l] = IF deeper /\ ~ full THEN Append(@, n) ELSE @,
                  !.invalid = IF deeper /\ full THEN @ \cup {l} ELSE @,
                  !.gotLoopEventsInThisRow = BitsOf(l)]

setLoopStackEnd(s, l, at) ==
    IF s.level[l] <= -1
    THEN [s EXCEPT !.invalid = @ \cup {l}, !.gotLoopEventsInThisRow = BitsOf(l)]
    ELSE [s EXCEPT !.loopEndTicks = IF @ < at THEN at ELSE @,
                   !.level[l] = @ - 1,
                   !.gotLoopEventsInThisRow = BitsOf(l)]

analyseLoopEvent(s, e, at, k) ==
    LET inRow == HasGlobalLoop(s.gotLoopEventsInThisRow)
    IN  IF 0 \in s.invalid THEN s
        ELSE
        CASE e.type = "loopStart" ->
                IF s.gotLoopStart \/ inRow
                THEN [s EXCEPT !.invalid = @ \cup {0}, !.gotLoopEventsInThisRow = GLOBAL_LOOP]
                ELSE [s EXCEPT !.gotLoopStart = TRUE, !.loopStartTicks = at,
                               !.gotLoopEventsInThisRow = GLOBAL_LOOP]
          [] e.type = "loopEnd" ->
                IF s.gotLoopEnd \/ inRow
                THEN [s EXCEPT !.invalid = @ \cup {0}, !.gotLoopEventsInThisRow = GLOBAL_LOOP]
                ELSE [s EXCEPT !.gotLoopEnd = TRUE, !.loopEndTicks = at,
                               !.gotLoopEventsInThisRow = GLOBAL_LOOP]
          [] e.type = "begin" -> setLoopStackStart(s, LoopOf(e, k), e.n, at)
          [] e.type = "end" -> setLoopStackEnd(s, LoopOf(e, k), at)
          [] OTHER -> s

-----------------------------------------------------------------------------
(* Tracks                                                                   *)

Row(events, delay, absPos) == [events |-> events, delay |-> delay, absPos |-> absPos]

\* The row that is being collected is written out.
smf_flushRow(b, delay) ==
    [b EXCEPT !.rows = Append(@, Row(sortEvents(b.events, b.noteStates), delay, b.absPos)),
              !.noteStates = NoteStates(sortEvents(b.events, @), @),
              !.events = <<>>,
              !.absPos = @ + delay,
              !.points.gotLoopEventsInThisRow = 0]

\* Track k of the file, read item by item; a track that stops without an end of
\* track ends its last row.
smf_buildOneTrack(k, items, points) ==
    LET Next(b, i) ==
            LET e == items[i].e
                delay == IF i < Len(items) THEN items[i + 1].delay ELSE 0
                p == analyseLoopEvent(b.points, e, b.absPos, k)
                c == [b EXCEPT !.events = Append(@, e), !.points = p]
            IN  IF delay > 0 \/ p.gotLoopEventsInThisRow > 0 \/ i = Len(items)
                THEN smf_flushRow(c, delay)
                ELSE c
        hook == IF k = 1 THEN <<SongBeginHook>> ELSE <<>>
        first == [rows |-> <<Row(hook, items[1].delay, 0)>>, events |-> <<>>, noteStates |-> {},
                  absPos |-> items[1].delay, points |-> points]
        built == FoldLeft(Next, first, [i \in DOMAIN items |-> i])
    IN  [rows |-> built.rows,
         points |-> [built.points EXCEPT !.ticksSongLength =
                        IF @ < built.absPos THEN built.absPos ELSE @]]

-----------------------------------------------------------------------------
(* The song: where it and its loop begin, and how long they last            *)

\* A place in every track: the next row and the ticks before it; a track is
\* live until its end was handled (lastHandledEvent >= 0).
initTracksBegin(tracks) ==
    [track |-> [k \in 1 .. tracks |-> [row |-> 1, delay |-> 0, live |-> TRUE]],
     wait |-> 0, time |-> 0]

Ready(info) == info.live /\ info.delay <= 0

\* The ticks to the next row of a live track; none of them when no track lives.
ShortestDelay(track) ==
    LET delays == {track[k].delay : k \in {j \in DOMAIN track : track[j].live}}
    IN  IF delays = {} THEN 0 ELSE CHOOSE d \in delays : \A c \in delays : d <= c

\* The delay of a track that has ended is not read again.
Elapsed(track, ticks) ==
    [k \in DOMAIN track |->
        IF track[k].live THEN [track[k] EXCEPT !.delay = @ - ticks] ELSE track[k]]

\* The place before the rows that are handled together with row r of track j: of
\* the rows of one tick, the tracks handle their first ones together, then their
\* second ones, and so on.
PlaceBefore(rows, j, r) ==
    LET tick == rows[j][r].absPos
        Rows(k, P(_)) == Cardinality({i \in DOMAIN rows[k] : P(rows[k][i].absPos)})
        Earlier(k) == Rows(k, LAMBDA t : t < tick)
        Here(k) == Rows(k, LAMBDA t : t = tick)
        passes == r - 1 - Earlier(j)
        Next(k) == Earlier(k) + 1 + (IF passes < Here(k) THEN passes ELSE Here(k))
        Info(k) == IF Next(k) > Len(rows[k])
                   THEN [row |-> Next(k), delay |-> 0, live |-> Here(k) > 0 /\ passes <= Here(k)]
                   ELSE [row |-> Next(k), delay |-> rows[k][Next(k)].absPos - tick, live |-> TRUE]
    IN  [track |-> [k \in DOMAIN rows |-> Info(k)], wait |-> 0, time |-> tick]

\* The place where the loopStart is met; the begin of the song without one.
LoopBegin(rows) ==
    LET holds == {x \in UNION {{k} \X DOMAIN rows[k] : k \in DOMAIN rows} :
                    Contains(rows[x[1]][x[2]].events, LoopStart)}
    IN  IF holds = {} THEN initTracksBegin(Len(rows))
        ELSE LET x == CHOOSE x \in holds : TRUE IN PlaceBefore(rows, x[1], x[2])

Longest(S) == CHOOSE x \in S : \A y \in S : y <= x

\* installLoop and buildTimeLine, from the rows and the loop points read.
Timed(rows, points) ==
    LET ends == IF points.gotLoopStart /\ ~ points.gotLoopEnd
                THEN points.ticksSongLength ELSE points.loopEndTicks
        starts == points.loopStartTicks
        invalid == points.invalid \cup
                     (IF starts # 0 /\ ends # 0 /\ starts >= ends THEN {0} ELSE {})
        places == UNION {{r.absPos : r \in ToSet(rows[k])} : k \in DOMAIN rows}
        Time(at) == IF 0 \notin invalid /\ at \in places THEN at ELSE -1
        begin == initTracksBegin(Len(rows))
    IN  [rows |-> rows,
         invalid |-> invalid,
         stack |-> points.stack,
         begin |-> begin,
         loopBegin |-> IF 0 \in invalid THEN begin ELSE LoopBegin(rows),
         loopEndTime |-> IF ends = starts THEN -1 ELSE Time(ends),
         length |-> points.ticksSongLength + m_postSongWaitDelay]

smf_buildTracks(file) ==
    LET Next(b, k) ==
            LET t == smf_buildOneTrack(k, file[k], b.points)
            IN  [rows |-> Append(b.rows, t.rows), points |-> t.points]
        none == [rows |-> <<>>, points |-> NoLoopPoints(Len(file))]
        built == FoldLeft(Next, none, [k \in DOMAIN file |-> k])
    IN  Timed(built.rows, built.points)
=============================================================================
