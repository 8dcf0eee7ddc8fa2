------------------------------- MODULE Score -------------------------------
(* The music a file of Midi stands for, written from the file alone: each   *)
(* track with its loops written out, then the song cut into the stretches   *)
(* that its loops and repetitions play one after the other.                 *)
EXTENDS Midi

\* Controller 123, sent to a track that jumps.
AllNotesOff == [type |-> "allOff", scope |-> "", n |-> 0]
\* The track goes on behind the ticks that are looked at.
More == [type |-> "more", scope |-> "", n |-> 0]

\* The tick of item i, and the ticks from after item i to item j.
RECURSIVE TickOf(_, _)
TickOf(items, i) == IF i = 0 THEN 0 ELSE TickOf(items, i - 1) + items[i].delay
Between(items, i, j) == TickOf(items, j) - TickOf(items, i)

Opens(e) == e.type \in {"begin", "loopStart"}
Closes(e) == e.type \in {"end", "loopEnd"}

\* The song and every loop of it take time.
Advances(score) ==
    /\ \E k \in DOMAIN score : TickOf(score[k], Len(score[k])) > 0
    /\ \A k \in DOMAIN score : \A i, j \in DOMAIN score[k] :
        i < j /\ Opens(score[k][i].e) /\ Closes(score[k][j].e) => Between(score[k], i, j) > 0

\* A loop is open before the tick: begun, and not ended.
InLoop(items, tick) ==
    LET Before(type) == {i \in DOMAIN items : items[i].e.type = type /\ TickOf(items, i) < tick}
    IN  Cardinality(Before("begin")) > Cardinality(Before("end"))

HasTrackLoop(items) == \E i \in DOMAIN items : items[i].e.scope = "track"

At(t, e) == [t |-> t, s |-> e]

\* A track with its own loops written out, up to the tick end.  "open" holds the
\* loops entered: the item that begins each and the passes to come.
RECURSIVE Unrolled(_, _, _, _, _)
Unrolled(items, i, t, open, end) ==
    IF i > Len(items) THEN <<>>
    ELSE IF t + items[i].delay > end THEN <<At(end + 1, More)>>
    ELSE LET now == t + items[i].delay
             e == items[i].e
             inner == open[Len(open)]
         IN  CASE e.type = "begin" /\ e.scope = "track" ->
                    Unrolled(items, i + 1, now, Append(open, [i |-> i, n |-> e.n]), end)
               [] e.type = "end" /\ e.scope = "track" /\ inner.n # 1 ->
                    <<At(now, AllNotesOff)>> \o
                    Unrolled(items, inner.i + 1, now, 
                             [open EXCEPT ![Len(open)].n = IF @ = 0 THEN 0 ELSE @ - 1], end)
               [] e.type = "end" /\ e.scope = "track" /\ inner.n = 1 ->
                    Unrolled(items, i + 1, now, Front(open), end)
               [] OTHER -> <<At(now, e)>> \o Unrolled(items, i + 1, now, open, end)

\* The stretches [from, to) of the song that are played one after the other:
\* "marks" are its loop points, t the tick reached, "again" how often the song or
\* its loop is still repeated (-1: for ever), "last" its last tick, "end" the
\* ticks wanted.
RECURSIVE Stretches(_, _, _, _, _, _, _)
Stretches(marks, i, t, open, again, last, end) ==
    LET back == SelectInSeq(marks, LAMBDA x : x.s.type = "loopStart")
        loopTick == IF back = 0 THEN 0 ELSE marks[back].t
        Cut(to, length) == <<[from |-> t, to |-> to, length |-> length]>>
        \* Played to tick u, and on from item j at tick v.
        Jump(u, to, j, v, opened, left) ==
            Cut(to, u - t) \o Stretches(marks, j, v, opened, left, last, end - (u - t))
        fewer == IF again > 0 THEN again - 1 ELSE again
    IN  IF end < 0 THEN <<>>
        ELSE IF i > Len(marks)
        THEN IF again = 0 THEN Cut(last + 1, last - t)
             ELSE IF \E j \in DOMAIN marks : marks[j].s = LoopEnd
             THEN Jump(last, last + 1, 1, 0, <<>>, fewer) \* entered behind the end of the loop
             ELSE Jump(last, last + 1, back + 1, loopTick, <<>>, fewer)
        ELSE LET e == marks[i].s
                 u == marks[i].t
                 inner == open[Len(open)]
             IN  CASE e.type = "begin" ->
                        Stretches(marks, i + 1, t, Append(open, [i |-> i, n |-> e.n]), again, last, end)
                   [] e.type = "end" /\ inner.n # 1 ->
                        Jump(u, u, inner.i + 1, marks[inner.i].t,
                             [open EXCEPT ![Len(open)].n = IF @ = 0 THEN 0 ELSE @ - 1], again)
                   [] e.type = "end" /\ inner.n = 1 ->
                        Stretches(marks, i + 1, t, Front(open), again, last, end)
                   [] e.type = "loopEnd" /\ again # 0 -> Jump(u, u, back + 1, loopTick, open, fewer)
                   [] OTHER -> Stretches(marks, i + 1, t, open, again, last, end)

IsMark(x) == x.s.type \in {"begin", "end", "loopStart", "loopEnd"}
LastTick(timeline) == IF timeline = <<>> THEN 0 ELSE timeline[Len(timeline)].t

\* The timelines of all tracks: what lies before the tick "from" is not played,
\* and its track loops not written out.
Timelines(score, from, end) ==
    [k \in DOMAIN score |->
        LET items == score[k]
            first == SelectInSeq([i \in DOMAIN items |-> TickOf(items, i)], LAMBDA t : t >= from)
            passed == IF first = 0 THEN Len(items) ELSE first - 1
        IN  SelectSeq([i \in 1 .. passed |-> At(TickOf(items, i), items[i].e)],
                      LAMBDA x : x.s.scope # "track")
            \o Unrolled(items, passed + 1, TickOf(items, passed), <<>>, from + end)]

\* The stretches of the song from a tick on; the loops of the song are written in
\* its first track.
Planned(lines, from, again, end) ==
    LET marks == SelectSeq(lines[1], IsMark)
        passed == Len(SelectSeq(marks, LAMBDA x : x.t < from))
    IN  Stretches(marks, passed + 1, from, <<>>, again,
                  Longest({LastTick(lines[k]) : k \in DOMAIN lines}), end)

\* What the stretches let track k hear, all notes being silenced between them.
RECURSIVE Laid(_, _, _)
Laid(line, stretches, t) ==
    IF stretches = <<>> THEN <<>>
    ELSE LET s == Head(stretches)
             Inside(x) == s.from <= x.t /\ x.t < s.to /\ ~ IsMark(x)
             here == SelectSeq(line, Inside)
             cut == IF Len(stretches) = 1 THEN <<>> ELSE <<At(t + s.length, AllNotesOff)>>
         IN  [i \in DOMAIN here |-> At(t + here[i].t - s.from, here[i].s)] \o cut
             \o Laid(line, Tail(stretches), t + s.length)

Length(stretches) == FoldLeft(LAMBDA n, s : n + s.length, 0, stretches)

\* One note of what is heard: when it is struck, and released while it sounds.
Voice(line, n) ==
    LET its == SelectSeq(line, LAMBDA x : x.s \in {On(n), Off(n), AllNotesOff})
        Sounds(i) == i # 0 /\ its[i].s = On(n)
        Kept(i) == its[i].s = On(n) \/ Sounds(i - 1)
    IN  FlattenSeq([i \in DOMAIN its |->
            IF Kept(i) THEN <<[t |-> its[i].t, on |-> its[i].s = On(n)]>> ELSE <<>>])
=============================================================================
