------------------------------ MODULE Sequencer ------------------------------
(* The MIDI sequencer at work (codecs/midi_seq): it walks through the rows   *)
(* of all tracks of a song side by side and hands their notes to the synth,  *)
(* repeats the loops of the song and those of single tracks, starts again    *)
(* as often as it was told, seeks and rewinds.                               *)
(*                                                                           *)
(* One tick of the file is the unit of time.  playStream lets the time pass  *)
(* that Tick asked for and calls Tick again; one call of Tick or seek is a   *)
(* chain of steps, one per event, so that each line that decides something   *)
(* is met on its own.  Notes are what is heard; controllers and programs,    *)
(* the hooks and muted channels are left out, and so are notes that carry    *)
(* their length, branches and breaks, which no Standard MIDI File holds.     *)
EXTENDS Midi, Score, TLC

CONSTANTS
    Songs,        \* the files, see Midi
    PlayCounts,   \* arguments of setLoopsCount, -1 for ever
    SeekTimes,
    Second,       \* ticks in a second
    HalfGrain,    \* half of seek's granularity, in ticks
    FreezeLimit,  \* antiFreezeCounter, 10000 in the code
    Horizon,      \* bound: the ticks that are played after a call
    MaxCalls      \* bound: calls of the player

VARIABLES
    file,      \* the file that is open
    song,      \* what was read of it
    setup,     \* m_loopCount and m_loopEnabled
    pos,       \* m_currentPosition
    begin,     \* m_currentPositionBegin
    loopBegin, \* m_loopBeginPosition
    loops,     \* m_loop and the loop of each track
    atEnd,     \* m_atEnd
    delay,     \* m_time.delay
    rest,      \* m_time.timeRest: what of it is still to be played
    call,      \* the call under way: its line, and the locals of Tick, seek and processEvents
    clock,     \* history: ticks played since the last play or seek
    from,      \* history: where they began
    sought,    \* history: the time a seek asked for, -1 after play
    heard,     \* history: what each track let hear, and when
    calls      \* history: calls of the player

vars == <<file, song, setup, pos, begin, loopBegin, loops, atEnd, delay, rest, call, clock, from, sought, heard, calls>>
history == <<clock, from, sought, heard, calls>>

Tracks == 1 .. Len(file)

-----------------------------------------------------------------------------
(* The state of a loop                                                       *)

NewEntry(n, start) == [loops |-> n, infinity |-> n = 0, start |-> start]

\* A LoopState as the file leaves it: its stack has an entry for each depth met.
NewLoop(invalid, stack) ==
    [caughtStart |-> FALSE, caughtEnd |-> FALSE, caughtStackStart |-> FALSE,
     caughtStackEnd |-> FALSE, skipStackStart |-> FALSE, invalidLoop |-> invalid,
     temporaryBroken |-> FALSE, loopsCount |-> -1, loopsLeft |-> 0,
     stack |-> [i \in DOMAIN stack |-> NewEntry(stack[i], song.begin)], stackLevel |-> -1]

reset(l) ==
    [l EXCEPT !.caughtStart = FALSE, !.caughtEnd = FALSE, !.caughtStackStart = FALSE,
              !.caughtStackEnd = FALSE, !.skipStackStart = FALSE, !.loopsLeft = l.loopsCount]

\* The place of the current entry in the stack; level 0 is the first place.
Current(l) == IF l.stackLevel \in 0 .. Len(l.stack) - 1 THEN l.stackLevel + 1 ELSE 1

isStackEnd(l) ==
    /\ l.caughtStackEnd
    /\ l.stackLevel \in 0 .. Len(l.stack) - 1
    /\ LET e == l.stack[l.stackLevel + 1] IN e.infinity \/ e.loops > 0

\* handleEvent, a stack loop begins: its entry is the one above the current, and those
\* below it are made when they are missing, as long as there is room.
Announced(l, n) ==
    LET level == l.stackLevel + 1
        depth == IF level + 1 < stackDepthMax THEN level + 1 ELSE stackDepthMax - 1
        missing == IF depth > Len(l.stack) THEN 1 .. depth - Len(l.stack) ELSE {}
        stack == l.stack \o [i \in missing |-> NewEntry(n, song.begin)]
    IN  [l EXCEPT !.caughtStackStart = TRUE,
                  !.stack = [stack EXCEPT ![level + 1].loops = n, ![level + 1].infinity = n = 0]]

\* What an event means to the loop it belongs to.
Noticed(l, e) ==
    CASE e.type = "begin" -> IF l.skipStackStart THEN [l EXCEPT !.skipStackStart = FALSE]
                                                 ELSE Announced(l, e.n)
      [] e.type = "end" -> [l EXCEPT !.caughtStackEnd = TRUE]
      [] e.type = "loopStart" -> [l EXCEPT !.caughtStart = TRUE]
      [] e.type = "loopEnd" -> [l EXCEPT !.caughtEnd = TRUE]
      [] OTHER -> l

\* processLoopPoints: n loops are entered, from the position start.
RECURSIVE Entered(_, _, _)
Entered(l, n, start) ==
    IF n = 0 THEN l
    ELSE LET up == [l EXCEPT !.stackLevel = @ + 1]
         IN  Entered([up EXCEPT !.stack[Current(up)].start = start], n - 1, start)

\* processLoopPoints: an end is met; the loop goes on from its start, or is left.
Repeats(l) == LET s == l.stack[Current(l)] IN s.infinity \/ s.loops > 1
\* (Mutant: the begin of the loop counts again.)
AgainFromBegin(l) == [l EXCEPT !.stack[Current(l)].loops = @ - 1]
Again(l) == [l EXCEPT !.skipStackStart = TRUE,
                      !.stack[Current(l)].loops = IF l.stack[Current(l)].infinity THEN @ ELSE @ - 1]
Left(l) == [l EXCEPT !.stackLevel = @ - 1,
                     !.stack[Current(l)].loops = IF @ >= 0 THEN @ - 1 ELSE @]

-----------------------------------------------------------------------------
(* Calls of the player                                                       *)

NoCall == [line |-> "none", seek |-> FALSE, enabled |-> FALSE, freeze |-> 0, tk |-> 0, ev |-> 0,
           globStarts |-> 0, stackStarts |-> 0, stackEnds |-> 0, jump |-> FALSE,
           trackStarts |-> 0, trackEnds |-> 0]

Init ==
    /\ file \in Songs
    /\ song = smf_buildTracks(file)
    /\ setup = [loopCount |-> -1, loopEnabled |-> FALSE]
    /\ pos = song.begin
    /\ begin = song.begin
    /\ loopBegin = song.loopBegin
    /\ loops = [l \in 0 .. Len(file) |-> NewLoop(l \in song.invalid, song.stack[l])]
    /\ atEnd = FALSE
    /\ delay = 0 /\ rest = 0
    /\ call = NoCall
    /\ clock = 0 /\ from = 0 /\ sought = -1 /\ calls = 0
    /\ heard = [k \in Tracks |-> <<>>]

\* rewind.  The levels of the stacks stay what they were.
Rewound(count) ==
    [l \in DOMAIN loops |->
        IF l = 0 THEN [reset([loops[0] EXCEPT !.loopsCount = count]) EXCEPT
                         !.caughtStart = TRUE, !.temporaryBroken = FALSE]
                 ELSE [reset(loops[l]) EXCEPT !.temporaryBroken = FALSE]]

Called == call.line = "none" /\ calls < MaxCalls

\* A call of the player begins a stretch of music that is heard from "time" on.
Stretch(time) ==
    /\ calls' = calls + 1
    /\ clock' = 0
    /\ from' = time
    /\ heard' = [k \in Tracks |-> <<>>]

\* FLUIDSYNTH_Play: setLoopEnabled, setLoopsCount, rewind.
Play(n) ==
    LET count == IF n >= 1 THEN n - 1 ELSE n
    IN  /\ Called
        /\ setup' = [loopCount |-> count, loopEnabled |-> TRUE]
        /\ loops' = Rewound(count)
        /\ pos' = song.begin
        /\ atEnd' = FALSE
        /\ delay' = 0 /\ rest' = 0
        /\ sought' = -1
        /\ Stretch(0)
        /\ UNCHANGED <<file, song, begin, loopBegin, call>>

\* seek, up to the inner loop: the position is wound on from the start with the
\* loops turned off.
seek(time) ==
    /\ Called /\ setup.loopEnabled
    /\ loops' = [Rewound(setup.loopCount) EXCEPT
                   ![0].caughtStart = time > song.length,
                   ![0].temporaryBroken = time <= song.length /\ time >= song.loopEndTime]
    /\ atEnd' = FALSE
    /\ delay' = 0 /\ rest' = 0
    /\ IF time > song.length \/ time = 0
       THEN pos' = song.begin /\ UNCHANGED <<setup, call>> /\ Stretch(0)
       ELSE /\ pos' = [song.begin EXCEPT !.wait = @ - time, !.time = @ + time]
            /\ setup' = [setup EXCEPT !.loopEnabled = FALSE]
            /\ call' = [NoCall EXCEPT !.line = "while", !.seek = TRUE, !.enabled = setup.loopEnabled]
            /\ Stretch(time)
    /\ sought' = time
    /\ UNCHANGED <<file, song, begin, loopBegin>>

\* playStream: the delay has been played.
Tick ==
    /\ call.line = "none" /\ setup.loopEnabled
    /\ ~ (atEnd /\ delay <= 0)
    /\ clock + rest <= Horizon
    /\ pos' = [pos EXCEPT !.wait = @ - delay, !.time = @ + delay]
    /\ clock' = clock + rest
    /\ call' = [NoCall EXCEPT !.line = "while", !.freeze = FreezeLimit]
    /\ UNCHANGED <<file, song, setup, begin, loopBegin, loops, atEnd, delay, rest, from, sought, heard, calls>>

-----------------------------------------------------------------------------
(* The loop of Tick and seek around processEvents                            *)

\* The granularity of Tick is a sample, and half of it less than a tick of any song here.
\* (Mutant: nothing stops a loop that takes no time.)
WaitsUnlimited == IF call.seek THEN pos.wait > HalfGrain ELSE pos.wait > 0
Waits == IF call.seek THEN pos.wait > HalfGrain ELSE pos.wait > 0 \/ call.freeze <= 0

\* processEvents begins.
BeginPass ==
    /\ call.line = "while" /\ ~ Waits /\ ~ atEnd
    /\ loops' = [loops EXCEPT ![0].caughtEnd = FALSE]
    /\ begin' = pos
    /\ call' = [NoCall EXCEPT !.line = "track", !.tk = 1, !.seek = call.seek,
                              !.enabled = call.enabled, !.freeze = call.freeze]
    /\ UNCHANGED <<file, song, setup, pos, loopBegin, atEnd, delay, rest, history>>

NotBefore(x) == IF x < 0 THEN 0 ELSE x

\* Tick returns the time to wait, one second more where it gave up.
Return ==
    /\ call.line = "while" /\ (Waits \/ atEnd) /\ ~ call.seek
    /\ LET wait == pos.wait + (IF call.freeze <= 0 THEN Second ELSE 0)
       IN  /\ pos' = [pos EXCEPT !.wait = wait]
           /\ delay' = NotBefore(wait) /\ rest' = NotBefore(wait)
    /\ call' = NoCall
    /\ UNCHANGED <<file, song, setup, begin, loopBegin, loops, atEnd, history>>

\* seek returns; at the end of the song it rewinds instead.  The wait for the next
\* row is not played: the music goes on with that row.
ReturnSought ==
    /\ call.line = "while" /\ (Waits \/ atEnd) /\ call.seek
    /\ setup' = [setup EXCEPT !.loopEnabled = call.enabled]
    /\ call' = NoCall
    /\ IF atEnd
       THEN /\ pos' = song.begin
            /\ loops' = Rewound(setup.loopCount)
            /\ atEnd' = FALSE
            /\ delay' = 0 /\ rest' = 0
            /\ from' = 0
       ELSE /\ pos' = [pos EXCEPT !.wait = NotBefore(@)]
            /\ delay' = NotBefore(pos.wait) /\ rest' = 0
            /\ from' = from + NotBefore(pos.wait)
            /\ UNCHANGED <<loops, atEnd>>
    /\ UNCHANGED <<file, song, begin, loopBegin, clock, sought, heard, calls>>

-----------------------------------------------------------------------------
(* processEvents: the tracks in turn                                         *)

info == pos.track[call.tk]
row == song.rows[call.tk][info.row]

NextTrack == [call EXCEPT !.tk = @ + 1, !.line = "track"]
Scheduling == [call EXCEPT !.line = "schedule"]

\* A track that is not due is passed; one that is past its last row ends, and
\* the tracks behind it wait for the next pass.
PassTrack ==
    /\ call.line = "track"
    /\ IF call.tk > Len(file)
       THEN call' = Scheduling /\ pos' = pos
       ELSE IF ~ Ready(info)
       THEN call' = NextTrack /\ pos' = pos
       ELSE /\ info.row > Len(song.rows[call.tk])
            /\ pos' = [pos EXCEPT !.track[call.tk].live = FALSE]
            /\ call' = Scheduling
    /\ UNCHANGED <<file, song, setup, begin, loopBegin, loops, atEnd, delay, rest, history>>

BeginRow ==
    /\ call.line = "track" /\ call.tk <= Len(file)
    /\ Ready(info) /\ info.row <= Len(song.rows[call.tk])
    /\ call' = [call EXCEPT !.line = IF row.events = <<>> THEN "row" ELSE "event", !.ev = 1,
                            !.trackStarts = 0, !.trackEnds = 0]
    /\ UNCHANGED <<file, song, setup, pos, begin, loopBegin, loops, atEnd, delay, rest, history>>

Sound(k, s) == Append(heard[k], At(clock, s))

\* restoreTrackState: a track that jumps silences its notes, unless it has no
\* channel to do so; one that is silent is silenced no further.
Silenced(k) ==
    IF HasChannel(file, k) /\ heard[k] # <<>> /\ Last(heard[k]).s # AllNotesOff
    THEN Sound(k, AllNotesOff) ELSE heard[k]

\* handleEvent, then the loop points it left: the global ones, then the stack
\* loops of the song and of the track.  The end of a loop ends the row, that of
\* a song's loop the pass.
Event ==
    LET k == call.tk
        e == row.events[call.ev]
        l == LoopOf(e, k)
        h == IF setup.loopEnabled /\ ~ loops[l].invalidLoop
             THEN [loops EXCEPT ![l] = Noticed(@, e)] ELSE loops
        localEnd == isStackEnd(h[k])
        globEnd == ~ localEnd /\ (h[0].caughtEnd \/ isStackEnd(h[0]))
    IN  /\ call.line = "event"
        /\ ~ (call.seek /\ e.type = "on")
        /\ loops' = [h EXCEPT ![0].caughtStart = FALSE,
                              ![0].caughtStackStart = FALSE,
                              ![0].caughtStackEnd = @ /\ ~ globEnd,
                              ![k].caughtStackStart = FALSE,
                              ![k].caughtStackEnd = @ /\ ~ localEnd]
        /\ call' = [call EXCEPT
             !.globStarts = IF h[0].caughtStart THEN @ + 1 ELSE @,
             !.stackStarts = IF h[0].caughtStackStart THEN @ + 1 ELSE @,
             !.trackStarts = IF h[k].caughtStackStart THEN @ + 1 ELSE @,
             !.stackEnds = IF globEnd /\ h[0].caughtStackEnd THEN @ + 1 ELSE @,
             !.trackEnds = IF localEnd THEN @ + 1 ELSE @,
             !.jump = @ \/ globEnd,
             !.ev = @ + 1,
             !.line = IF localEnd \/ globEnd \/ call.ev = Len(row.events) THEN "row" ELSE "event"]
        /\ pos' = CASE e.type \in {"on", "off"} -> [pos EXCEPT !.track[k].live = TRUE]
                    [] e.type = "endTrack" -> [pos EXCEPT !.track[k].live = FALSE]
                    [] OTHER -> pos
        \* Nothing sounds during a seek: the player silences all notes after it.
        /\ heard' = IF e.type \in {"on", "off"} /\ ~ call.seek
                    THEN [heard EXCEPT ![k] = Sound(k, e)] ELSE heard
    /\ UNCHANGED <<file, song, setup, begin, loopBegin, atEnd, delay, rest, clock, from, sought, calls>>

\* seek ignores what strikes a note.
SkipNote ==
    /\ call.line = "event" /\ call.seek /\ row.events[call.ev].type = "on"
    /\ call' = [call EXCEPT !.ev = @ + 1, !.line = IF call.ev = Len(row.events) THEN "row" ELSE @]
    /\ UNCHANGED <<file, song, setup, pos, begin, loopBegin, loops, atEnd, delay, rest, history>>

\* The first time a loop start is met, and each time while it lies at 0.
RegisteredStart == IF call.globStarts > 0 /\ loopBegin.time <= 0 THEN begin ELSE loopBegin

\* The track moves on to its next row; then its own loops begin, repeat or end.
EndRow ==
    LET k == call.tk
        moved == IF info.live THEN [info EXCEPT !.delay = @ + row.delay, !.row = @ + 1] ELSE info
        l == loops[k]
        start == l.stack[Current(l)].start
        again == call.trackStarts = 0 /\ call.trackEnds > 0 /\ Repeats(l)
    IN  /\ call.line = "row"
        /\ loopBegin' = RegisteredStart
        /\ IF again
           THEN \* jumpToPosition, for one track
                /\ pos' = [pos EXCEPT !.track[k] = start.track[1], !.time = start.time]
                /\ loops' = [loops EXCEPT ![k] = Again(@)]
                /\ heard' = [heard EXCEPT ![k] = Silenced(k)]
           ELSE /\ pos' = [pos EXCEPT !.track[k] = moved]
                /\ loops' = [loops EXCEPT ![k] =
                     IF call.trackStarts > 0
                     THEN Entered(l, call.trackStarts, [begin EXCEPT !.track = <<begin.track[k]>>])
                     ELSE IF call.trackEnds > 0 THEN Left(l) ELSE l]
                /\ heard' = heard
        /\ call' = IF call.trackStarts = 0 /\ ~ again /\ call.jump THEN Scheduling ELSE NextTrack
        /\ UNCHANGED <<file, song, setup, begin, atEnd, delay, rest, clock, from, sought, calls>>

-----------------------------------------------------------------------------
(* processEvents: the time to the next rows, the loops of the song, its end  *)

\* jumpToPosition, for all tracks: all notes are silenced.
JumpedTo(p) ==
    /\ pos' = p
    /\ heard' = [k \in Tracks |-> Silenced(k)]

\* The end of the song, or of its loop, with the loops l.
SongOver(l, waited) ==
    LET g == l[0]
        over == [l EXCEPT ![0].caughtEnd = FALSE]
        none == \A k \in Tracks : ~ waited.track[k].live
    IN  IF ~ setup.loopEnabled \/ (none /\ g.loopsCount >= 0 /\ g.loopsLeft < 1)
        THEN /\ atEnd' = TRUE
             /\ pos' = [waited EXCEPT !.wait = @ + m_postSongWaitDelay]
             /\ loops' = over /\ heard' = heard
        ELSE /\ atEnd' = atEnd
             /\ IF g.temporaryBroken
                THEN /\ JumpedTo(song.begin)
                     /\ loops' = [over EXCEPT ![0].temporaryBroken = FALSE]
                ELSE IF g.loopsCount < 0 \/ g.loopsLeft >= 1
                THEN /\ JumpedTo(RegisteredStart)
                     /\ loops' = [over EXCEPT ![0].loopsLeft = IF g.loopsCount >= 1 THEN @ - 1 ELSE @]
                ELSE pos' = waited /\ loops' = over /\ heard' = heard

Schedule ==
    LET ticks == ShortestDelay(pos.track)
        waited == [pos EXCEPT !.track = Elapsed(@, ticks), !.wait = @ + ticks]
        g == loops[0]
        none == \A k \in Tracks : ~ pos.track[k].live
        left == IF call.stackEnds > 0 THEN [loops EXCEPT ![0] = Left(@)] ELSE loops
    IN  /\ call.line = "schedule"
        /\ loopBegin' = RegisteredStart
        /\ IF call.stackStarts > 0
           THEN /\ loops' = [loops EXCEPT ![0] = Entered(@, call.stackStarts, begin)]
                /\ pos' = waited
                /\ UNCHANGED <<heard, atEnd>>
           ELSE IF call.stackEnds > 0 /\ Repeats(g)
           THEN /\ loops' = [loops EXCEPT ![0] = Again(@)]
                /\ JumpedTo(g.stack[Current(g)].start)
                /\ UNCHANGED atEnd
           ELSE IF none \/ g.caughtEnd
           THEN SongOver(left, waited)
           ELSE /\ loops' = left
                /\ pos' = waited
                /\ UNCHANGED <<heard, atEnd>>
        \* back in Tick, which counts the passes that take no time
        /\ call' = [NoCall EXCEPT !.line = "while", !.seek = call.seek, !.enabled = call.enabled,
                                  !.freeze = IF ~ call.seek /\ pos'.wait <= 0
                                             THEN NotBefore(call.freeze - 1) ELSE call.freeze]
        /\ UNCHANGED <<file, song, setup, begin, delay, rest, clock, from, sought, calls>>

-----------------------------------------------------------------------------
Step ==
    \/ BeginPass
    \/ Return
    \/ ReturnSought
    \/ PassTrack
    \/ BeginRow
    \/ Event
    \/ SkipNote
    \/ EndRow
    \/ Schedule

Next ==
    \/ \E n \in PlayCounts : Play(n)
    \/ \E time \in SeekTimes : seek(time)
    \/ Tick
    \/ Step

\* A call runs to its end, and the player calls for more until the song is over.
Fairness == WF_vars(Step) /\ WF_vars(Tick)

Spec == Init /\ [][Next]_vars /\ Fairness

-----------------------------------------------------------------------------
(* Properties                                                                *)

\* The music that was asked for, as stretches of the song.
Lines == Timelines(file, from, Horizon)
Plan == Planned(Lines, from, setup.loopCount, Horizon)

\* The files and places at which the code is known to keep to the score: see the
\* README for what happens at the others.
Proper ==
    /\ Advances(file)
    /\ sought >= 0 =>
        /\ setup.loopCount < 1
        /\ \A k \in Tracks : ~ InLoop(file[k], from)
        /\ setup.loopCount = -1 =>
            /\ from > 0 => \A k \in Tracks : ~ HasTrackLoop(file[k])
            /\ \A x \in ToSet(Lines[1]) : x.s = LoopEnd => x.t \notin sought + 1 .. from - 1

\* Between two ticks, every track has let hear the notes of the score up to now,
\* each struck and released at its tick, with the loops of the song and of the
\* track repeated as often as they ask for; and the song is at its end, which
\* ends the music for the mixer, when all of them have been played and not before
\* (handleEvent to processEvents, process_impl.hpp; seek and rewind, io_impl.hpp).
HeardAsScored ==
    call.line = "none" /\ rest > 0 /\ Proper =>
        /\ \A k \in Tracks :
             LET written == SelectSeq(Laid(Lines[k], Plan, 0), LAMBDA x :
                                x.t <= clock /\ (x.s = AllNotesOff => HasChannel(file, k)))
                 keys == {x.s.n : x \in {y \in ToSet(Lines[k]) : y.s.type = "on"}}
             IN  \A n \in keys : Voice(heard[k], n) = Voice(written, n)
        /\ atEnd <=> clock >= Length(Plan)

\* Every call returns, also on a loop that takes no time (the 10000 passes after
\* which Tick gives up, io_impl.hpp:46).
TickReturns == call.line # "none" ~> call.line = "none"
=============================================================================
