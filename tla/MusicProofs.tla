----------------------------- MODULE MusicProofs -----------------------------
(***************************************************************************)
(* The music player keeps each piece of music on one player, whatever the  *)
(* application does and however its calls interleave with the mixers; and   *)
(* an application that takes care names no music that was freed, and is     *)
(* told of every end once.                                                  *)
(*                                                                         *)
(* What an operation does to one piece of music is proved once, by the      *)
(* fields that the invariants read; so is what a removal does to the queue. *)
(* Fade steps and volumes play no part: a fade is only known to be one.     *)
(***************************************************************************)
EXTENDS Music, TLAPS

\* A piece of music whose numbers are any integers.
Piece ==
    [loaded : BOOLEAN, playing : BOOLEAN,
     fading : Fading, fade_step : Int, fade_steps : Nat,
     is_multimusic : BOOLEAN, music_active : BOOLEAN, music_halted : BOOLEAN,
     free_on_stop : BOOLEAN, music_volume : Int, heard : Int,
     endless : BOOLEAN, owed : {-1, 0, 1}]

\* A fade is measured by a number of steps.
Measured(r) == r.fading # "no" => r.fade_steps > 0

Typing ==
    /\ mus \in [Music -> Piece]
    /\ \A m \in Music : Measured(mus[m])
    /\ music_playing \in Music \cup {NoMusic}
    /\ music_active \in BOOLEAN
    /\ music_volume \in Int
    /\ mix_streams \in Seq(Music)
    /\ mx \in MixerState
    /\ app \in Seq(StepType)

\* OnePlayerEach when the queue gets its memory: no music is refused.
PlayerOnly ==
    music_playing # NoMusic =>
        /\ mus[music_playing].loaded /\ mus[music_playing].playing
        /\ ~mus[music_playing].is_multimusic
        /\ ~InPlayQueue(music_playing)

StreamOnly ==
    \A m \in Music :
        /\ mus[m].is_multimusic =>
             InPlayQueue(m) /\ mus[m].playing /\ ~mus[m].music_halted
        /\ mus[m].music_active => mus[m].is_multimusic
        /\ mus[m].free_on_stop => \/ InPlayQueue(m)
                                  \/ ~Free /\ Head(app).op = "release" /\ Head(app).m = m

OnePlayerOnly == PlayerOnly /\ QueueSound /\ StreamOnly

-----------------------------------------------------------------------------
(* What happens to one piece of music.                                      *)

\* It stays where it is.
Stays(r, s) ==
    /\ s.loaded = r.loaded /\ s.playing = r.playing
    /\ s.is_multimusic = r.is_multimusic /\ s.music_halted = r.music_halted

\* It goes on as it was.
Same(r, s) ==
    /\ Stays(r, s)
    /\ s.music_active = r.music_active /\ s.free_on_stop = r.free_on_stop
    /\ s.endless = r.endless

\* It is halted; a stream is marked for the mixer to clean up.
Halts(r, s) ==
    /\ s.loaded = r.loaded /\ s.playing = FALSE /\ s.fading = "no"
    /\ s.is_multimusic = FALSE /\ s.free_on_stop = r.free_on_stop
    /\ s.music_active = (r.music_active /\ ~r.is_multimusic)
    /\ s.music_halted = (r.music_halted \/ r.is_multimusic)

LEMMA FreshPiece ==
    ASSUME NEW v \in Int
    PROVE  /\ Fresh(v) \in Piece /\ Measured(Fresh(v))
           /\ Gone \in Piece /\ Measured(Gone)
<1>1. /\ 0 \in Int /\ 0 \in Nat /\ MIX_MAX_VOLUME \in Int /\ 0 \in {-1, 0, 1}
      /\ "no" \in Fading
  BY FadeAssumption DEF Fading
<1>2. \A w \in Int : Fresh(w) \in Piece
  BY <1>1, Zenon DEF Fresh, Piece
<1>3. Gone \in Piece
  BY <1>1, <1>2, ZenonT(40) DEF Gone, Piece
<1> QED
  BY <1>2, <1>3, Zenon DEF Fresh, Gone, Measured

LEMMA GoneFields ==
    /\ Gone.loaded = FALSE /\ Gone.playing = FALSE /\ Gone.fading = "no"
    /\ Gone.is_multimusic = FALSE /\ Gone.music_active = FALSE
    /\ Gone.music_halted = FALSE /\ Gone.free_on_stop = FALSE /\ Gone.owed = 0
  BY DEF Gone, Fresh

LEMMA HaltedHalts ==
    ASSUME NEW r \in Piece
    PROVE  /\ Halted(r) \in Piece /\ Measured(Halted(r)) /\ Halts(r, Halted(r))
           /\ Halted(r).owed = r.owed
  BY DEF Halted, Piece, Halts, Measured, Fading

LEMMA EndedHalts ==
    ASSUME NEW r \in Piece
    PROVE  /\ Ended(r) \in Piece /\ Measured(Ended(r)) /\ Halts(r, Ended(r))
           /\ Ended(r).owed = (IF r.owed = 1 THEN 0 ELSE -1)
<1> DEFINE h == Halted(r)
<1>1. h \in Piece /\ Measured(h) /\ Halts(r, h) /\ h.owed = r.owed
  BY HaltedHalts
<1> HIDE DEF h
<1>2. [h EXCEPT !.owed = IF @ = 1 THEN 0 ELSE -1] \in Piece
  BY <1>1 DEF Piece
<1> QED
  BY <1>1, <1>2 DEF Ended, Reported, Piece, Halts, Measured, h

LEMMA QuotientType ==
    ASSUME NEW a \in Int, NEW b \in Nat, b > 0
    PROVE  Quotient(a, b) \in Int
  BY DEF Quotient

LEMMA FadeStepSame ==
    ASSUME NEW r \in Piece, Measured(r), r.fading # "no", NEW volume \in Int
    PROVE  /\ FadeStep(r, volume) \in Piece
           /\ FadeStep(r, volume).fading = r.fading
           /\ Measured(FadeStep(r, volume)) /\ Same(r, FadeStep(r, volume))
           /\ FadeStep(r, volume).owed = r.owed
<1> DEFINE step == r.fade_step + 1
           part == IF r.fading = "out" THEN r.fade_steps - step ELSE step
           q == Quotient(volume * part, r.fade_steps)
<1>1. step \in Int /\ part \in Int /\ volume * part \in Int
  BY DEF Piece
<1>2. q \in Int
  BY <1>1, QuotientType DEF Measured, Piece
<1>3. FadeStep(r, volume) = [r EXCEPT !.fade_step = step, !.heard = q]
  BY DEF FadeStep
<1> HIDE DEF step, part, q
<1> QED
  BY <1>1, <1>2, <1>3 DEF Piece, Measured, Same, Stays

\* The mixer lets it go on, or ends it.
LEMMA MixedGoesOn ==
    ASSUME NEW r \in Piece, Measured(r), NEW volume \in Int, NEW more \in BOOLEAN
    PROVE  LET s == Mixed(r, volume, more)
           IN  /\ s \in Piece /\ Measured(s)
               /\ \/ /\ Same(r, s) /\ s.owed = r.owed /\ s.fading \in {r.fading, "no"}
                     /\ r.fading = "out" => s.fading = "out"
                  \/ /\ Halts(r, s) /\ s.owed = (IF r.owed = 1 THEN 0 ELSE -1)
                     /\ r.fading = "out" \/ ~more
<1> DEFINE f == IF r.fading = "no" THEN r
                ELSE IF FadeOver(r) THEN [r EXCEPT !.fade_step = @ + 1, !.fading = "no"]
                ELSE FadeStep(r, volume)
           e == [r EXCEPT !.fade_step = @ + 1]
<1>1. /\ f \in Piece /\ Measured(f) /\ Same(r, f) /\ f.owed = r.owed
      /\ f.fading \in {r.fading, "no"}
      /\ r.fading = "out" /\ ~FadeOver(r) => f.fading = "out"
  <2>1. CASE r.fading = "no"
    BY <2>1 DEF Same, Stays
  <2>2. CASE r.fading # "no" /\ FadeOver(r)
    <3> DEFINE g == [r EXCEPT !.fade_step = @ + 1, !.fading = "no"]
    <3>1. f = g
      BY <2>2
    <3>2. r.fade_step + 1 \in Int /\ "no" \in Fading
      BY DEF Piece, Fading
    <3>3. g \in Piece
      BY <3>2, Zenon DEF Piece
    <3>4. Measured(g) /\ Same(r, g) /\ g.owed = r.owed /\ g.fading = "no"
      BY DEF Same, Stays, Piece, Measured
    <3> QED
      BY <2>2, <3>1, <3>3, <3>4
  <2>3. CASE r.fading # "no" /\ ~FadeOver(r)
    BY <2>3, FadeStepSame
  <2> QED
    BY <2>1, <2>2, <2>3
<1>2. e \in Piece /\ Same(r, e) /\ e.owed = r.owed
  BY DEF Same, Stays, Piece
<1>3. CASE r.fading = "out" /\ FadeOver(r)
  <2>1. Mixed(r, volume, more) = Ended(e)
    BY <1>3 DEF Mixed
  <2> HIDE DEF e
  <2>2. Halts(r, Ended(e))
    BY <1>2, EndedHalts, ZenonT(60) DEF Same, Stays, Halts
  <2> QED
    BY <1>2, <1>3, <2>1, <2>2, EndedHalts
<1>4. CASE ~(r.fading = "out" /\ FadeOver(r))
  <2>1. Mixed(r, volume, more) = IF more THEN f ELSE Ended(f)
    BY <1>4 DEF Mixed
  <2> HIDE DEF f
  <2>2. Halts(r, Ended(f))
    BY <1>1, EndedHalts, ZenonT(60) DEF Same, Stays, Halts
  <2> QED
    BY <1>1, <1>4, <2>1, <2>2, EndedHalts
<1> QED
  BY <1>3, <1>4

LEMMA FadedInSame ==
    ASSUME NEW r \in Piece, Measured(r), NEW n \in Nat
    PROVE  LET s == FadedIn(r, n)
           IN  /\ s \in Piece /\ Measured(s) /\ Same(r, s) /\ s.owed = r.owed
               /\ s.fading = (IF n = 0 THEN "no" ELSE "in")
<1>1. CASE n = 0
  <2> DEFINE s == [r EXCEPT !.fading = "no", !.fade_step = 0, !.fade_steps = 0]
  <2>1. "no" \in Fading /\ 0 \in Int /\ 0 \in Nat
    BY DEF Fading
  <2>2. s \in Piece
    BY <2>1, Zenon DEF Piece
  <2>3. Measured(s) /\ Same(r, s) /\ s.owed = r.owed /\ s.fading = "no"
    BY DEF Measured, Same, Stays, Piece
  <2> QED
    BY <1>1, <2>2, <2>3 DEF FadedIn
<1>2. CASE n # 0
  <2> DEFINE a == IF r.fading = "out" THEN n - r.fade_step + 1 ELSE 0
             s == [r EXCEPT !.fading = "in", !.fade_steps = n, !.fade_step = a]
  <2>1. "in" \in Fading /\ a \in Int /\ n > 0
    BY <1>2 DEF Fading, Piece
  <2>2. FadedIn(r, n) = s
    BY <1>2 DEF FadedIn
  <2> HIDE DEF a
  <2>3. s \in Piece
    BY <2>1, Zenon DEF Piece
  <2>4. Measured(s) /\ Same(r, s) /\ s.owed = r.owed /\ s.fading = "in"
    BY <2>1 DEF Measured, Same, Stays, Piece
  <2> QED
    BY <1>2, <2>2, <2>3, <2>4
<1> QED
  BY <1>1, <1>2

LEMMA FadedOutSame ==
    ASSUME NEW r \in Piece, NEW n \in Nat, n > 0, Bounded(FadedOut(r, n))
    PROVE  LET s == FadedOut(r, n)
           IN  /\ s \in Piece /\ Measured(s) /\ Same(r, s) /\ s.owed = r.owed
               /\ s.fading = "out"
<1> DEFINE a == CASE r.fading = "no"  -> 0
                  [] r.fading = "out" -> Quotient(r.fade_step * n, r.fade_steps)
                  [] r.fading = "in"  ->
                       Quotient((r.fade_steps - r.fade_step + 1) * n, r.fade_steps)
           s == [r EXCEPT !.fading = "out", !.fade_steps = n, !.fade_step = a]
<1>1. FadedOut(r, n) = s
  BY DEF FadedOut
<1> HIDE DEF a
<1>2. s.fade_step = a
  BY DEF Piece
<1>3. a \in Int /\ "out" \in Fading
  BY <1>1, <1>2, FadeAssumption DEF Bounded, Fading
<1>4. s \in Piece
  BY <1>3, Zenon DEF Piece
<1>5. Measured(s) /\ Same(r, s) /\ s.owed = r.owed /\ s.fading = "out"
  BY DEF Measured, Same, Stays, Piece
<1> QED
  BY <1>1, <1>4, <1>5

LEMMA StartedFields ==
    ASSUME NEW r \in Piece, Measured(r), NEW volume \in Int,
           NEW endless, endless \in BOOLEAN, NEW ok, ok \in BOOLEAN
    PROVE  LET s == Started(r, volume, endless, ok)
           IN  /\ s \in Piece /\ Measured(s)
               /\ s.loaded = r.loaded /\ s.playing = ok /\ s.fading = r.fading
               /\ s.is_multimusic = r.is_multimusic
               /\ s.music_active = r.music_active /\ s.music_halted = r.music_halted
               /\ s.free_on_stop = r.free_on_stop /\ s.endless = endless
               /\ ok => s.owed = 1
               /\ ~ok => s.owed = r.owed
<1> DEFINE h == IF r.fading = "in" THEN 0 ELSE volume
           o == IF ok THEN 1 ELSE r.owed
           s == [r EXCEPT !.playing = ok, !.heard = h, !.endless = endless, !.owed = o]
<1>1. Started(r, volume, endless, ok) = s
  BY DEF Started
<1>2. h \in Int /\ o \in {-1, 0, 1}
  BY DEF Piece
<1>3. o = IF ok THEN 1 ELSE r.owed
  OBVIOUS
<1> HIDE DEF h, o
<1>4. s \in Piece
  BY <1>2, Zenon DEF Piece
<1>5. /\ Measured(s)
      /\ s.loaded = r.loaded /\ s.playing = ok /\ s.fading = r.fading
      /\ s.is_multimusic = r.is_multimusic
      /\ s.music_active = r.music_active /\ s.music_halted = r.music_halted
      /\ s.free_on_stop = r.free_on_stop /\ s.endless = endless
      /\ s.owed = o
  BY DEF Measured, Piece
<1> QED
  BY <1>1, <1>3, <1>4, <1>5

-----------------------------------------------------------------------------
(* The queue.                                                               *)

Holds(s, m) == \E k \in DOMAIN s : s[k] = m
Once(s) == \A j, k \in DOMAIN s : s[j] = s[k] => j = k

LEMMA RemovedAt ==
    ASSUME NEW s \in Seq(Music), Once(s), NEW i \in DOMAIN s
    PROVE  LET q == Removed(s, s[i])
           IN  /\ q \in Seq(Music) /\ Len(q) = Len(s) - 1
               /\ \A j \in 1 .. Len(q) : q[j] = IF j < i THEN s[j] ELSE s[j + 1]
<1> DEFINE First(k) == s[k] = s[i] /\ \A j \in 1 .. k - 1 : s[j] # s[i]
           f == CHOOSE k \in DOMAIN s : First(k)
<1>1. Len(s) \in Nat /\ DOMAIN s = 1 .. Len(s) /\ i \in 1 .. Len(s)
  OBVIOUS
<1>2. First(i)
  BY <1>1 DEF Once
<1>3. f \in DOMAIN s /\ First(f)
  BY <1>2
<1>4. f = i
  BY <1>3 DEF Once
<1>5. Removed(s, s[i]) = [j \in 1 .. Len(s) - 1 |-> IF j < f THEN s[j] ELSE s[j + 1]]
  BY DEF Removed
<1> HIDE DEF f
<1> DEFINE q == [j \in 1 .. Len(s) - 1 |-> IF j < i THEN s[j] ELSE s[j + 1]]
<1>6. \A j \in 1 .. Len(s) - 1 : q[j] \in Music
  BY <1>1
<1>7. q \in [1 .. Len(s) - 1 -> Music]
  BY <1>6
<1>8. Len(s) - 1 \in Nat
  BY <1>1
<1>9. q \in Seq(Music) /\ Len(q) = Len(s) - 1
  BY <1>7, <1>8
<1> QED
  BY <1>4, <1>5, <1>9

LEMMA RemovedQueue ==
    ASSUME NEW s \in Seq(Music), Once(s), NEW m \in Music
    PROVE  LET q == Removed(s, m)
           IN  /\ q \in Seq(Music) /\ Once(q)
               /\ \A x : Holds(q, x) <=> x # m /\ Holds(s, x)
               /\ ~Holds(s, m) => q = s
<1>1. CASE ~Holds(s, m)
  <2>1. Removed(s, m) = s
    BY <1>1 DEF Removed, Holds
  <2> QED
    BY <1>1, <2>1 DEF Holds
<1>2. CASE Holds(s, m)
  <2>1. PICK i \in DOMAIN s : s[i] = m
    BY <1>2 DEF Holds
  <2> DEFINE q == Removed(s, m)
  <2>2. /\ q \in Seq(Music) /\ Len(q) = Len(s) - 1
        /\ \A j \in 1 .. Len(q) : q[j] = IF j < i THEN s[j] ELSE s[j + 1]
    BY <2>1, RemovedAt
  <2> HIDE DEF q
  <2>3. /\ Len(s) \in Nat /\ DOMAIN s = 1 .. Len(s) /\ DOMAIN q = 1 .. Len(s) - 1
        /\ i \in 1 .. Len(s)
    BY <2>2
  <2>4. Once(q)
    <3> SUFFICES ASSUME NEW j \in DOMAIN q, NEW k \in DOMAIN q, q[j] = q[k] PROVE j = k
      BY DEF Once
    <3>1. \A a, b \in 1 .. Len(s) : s[a] = s[b] => a = b
      BY <2>3 DEF Once
    <3> DEFINE At(a) == IF a < i THEN a ELSE a + 1
    <3>2. \A a \in DOMAIN q : q[a] = s[At(a)] /\ At(a) \in 1 .. Len(s)
      BY <2>2, <2>3
    <3>3. At(j) = At(k)
      BY <3>1, <3>2
    <3> QED
      BY <2>3, <3>3
  <2>5. ASSUME NEW x, Holds(q, x) PROVE x # m /\ Holds(s, x)
    <3>1. PICK j \in DOMAIN q : q[j] = x
      BY <2>5 DEF Holds
    <3>2. CASE j < i
      <4>1. x = s[j] /\ j \in DOMAIN s /\ j # i
        BY <2>2, <2>3, <3>1, <3>2
      <4> QED
        BY <2>1, <4>1 DEF Holds, Once
    <3>3. CASE ~(j < i)
      <4>1. x = s[j + 1] /\ j + 1 \in DOMAIN s /\ j + 1 # i
        BY <2>2, <2>3, <3>1, <3>3
      <4> QED
        BY <2>1, <4>1 DEF Holds, Once
    <3> QED
      BY <3>2, <3>3
  <2>6. ASSUME NEW x, x # m, Holds(s, x) PROVE Holds(q, x)
    <3>1. PICK j \in DOMAIN s : s[j] = x
      BY <2>6 DEF Holds
    <3>2. j # i
      BY <2>1, <2>6, <3>1
    <3>3. CASE j < i
      BY <2>2, <2>3, <3>1, <3>3 DEF Holds
    <3>4. CASE j > i
      <4>1. j - 1 \in DOMAIN q /\ q[j - 1] = x
        BY <2>2, <2>3, <3>1, <3>4
      <4> QED
        BY <4>1 DEF Holds
    <3> QED
      BY <2>3, <3>2, <3>3, <3>4
  <2> QED
    BY <1>2, <2>2, <2>4, <2>5, <2>6 DEF q
<1> QED
  BY <1>1, <1>2

-----------------------------------------------------------------------------
(* The inductive invariant.                                                 *)

Releases(m) == ~Free /\ Head(app).op = "release" /\ Head(app).m = m

EachOps == {"halteach", "pauseeach", "resumeeach"}

\* A free is alone in its call, and what it is about to release plays nowhere; a
\* pass over the queue begins at its first place.
Releasing ==
    \A k \in DOMAIN app :
        /\ app[k].op \in EachOps => app[k].n > 0
        /\ app[k].op \in {"release", "wait"} => Len(app) = 1
        /\ app[k].op \in {"release", "wait", "fadein"} => app[k].m \in Music
        /\ app[k].op = "release" => ~Plays(app[k].m)

Sound == Typing /\ OnePlayerOnly /\ Releasing /\ ~OutOfMemory

\* What OnePlayerOnly comes to between two runs of the mixers.
AtRest ==
    /\ Once(mix_streams)
    /\ music_playing # NoMusic =>
         /\ mus[music_playing].loaded /\ mus[music_playing].playing
         /\ ~mus[music_playing].is_multimusic
    /\ \A m \in Music :
         /\ Holds(mix_streams, m) <=> mus[m].is_multimusic
         /\ mus[m].is_multimusic =>
              mus[m].loaded /\ mus[m].playing /\ ~mus[m].music_halted
         /\ mus[m].music_active => mus[m].is_multimusic
         /\ mus[m].free_on_stop => mus[m].is_multimusic \/ Releases(m)

LEMMA QueueOfMusic ==
    ASSUME Typing
    PROVE  /\ \A k \in DOMAIN mix_streams : mix_streams[k] \in Music
           /\ \A x : Holds(mix_streams, x) => x \in Music
           /\ DOMAIN mix_streams = 1 .. Len(mix_streams) /\ Len(mix_streams) \in Nat
           /\ \A x : InPlayQueue(x) <=> Holds(mix_streams, x)
<1>1. \A k \in DOMAIN mix_streams : mix_streams[k] \in Music
  BY DEF Typing
<1>2. \A x : Holds(mix_streams, x) => x \in Music
  BY <1>1 DEF Holds
<1>3. DOMAIN mix_streams = 1 .. Len(mix_streams) /\ Len(mix_streams) \in Nat
  BY DEF Typing
<1>4. \A x : InPlayQueue(x) <=> Holds(mix_streams, x)
  BY DEF InPlayQueue, Holds
<1> QED
  BY <1>1, <1>2, <1>3, <1>4

LEMMA SoundAtRest ==
    ASSUME Typing, OnePlayerOnly, Locked
    PROVE  AtRest
<1>1. Once(mix_streams)
  BY DEF OnePlayerOnly, QueueSound, Once
<1>2. ASSUME NEW m \in Music PROVE Holds(mix_streams, m) <=> mus[m].is_multimusic
  <2>1. mus[m].is_multimusic => Holds(mix_streams, m)
    BY QueueOfMusic DEF OnePlayerOnly, StreamOnly
  <2>2. ASSUME NEW k \in DOMAIN mix_streams, mix_streams[k] = m PROVE mus[m].is_multimusic
    BY <2>2 DEF OnePlayerOnly, QueueSound, Locked
  <2> QED
    BY <2>1, <2>2 DEF Holds
<1>3. ASSUME NEW m \in Music
      PROVE /\ mus[m].is_multimusic =>
                 mus[m].loaded /\ mus[m].playing /\ ~mus[m].music_halted
            /\ mus[m].music_active => mus[m].is_multimusic
            /\ mus[m].free_on_stop => mus[m].is_multimusic \/ Releases(m)
  <2>1. Holds(mix_streams, m) => mus[m].loaded
    BY DEF OnePlayerOnly, QueueSound, Holds
  <2> QED
    BY <1>2, <2>1, QueueOfMusic DEF OnePlayerOnly, StreamOnly, Releases
<1> QED
  BY <1>1, <1>2, <1>3 DEF AtRest, OnePlayerOnly, PlayerOnly

LEMMA RestSound ==
    ASSUME Typing, AtRest,
           Locked \/ mx.pc = "streams" \/ mx.pc = "clean"
    PROVE  OnePlayerOnly
<1>1. PlayerOnly
  BY QueueOfMusic DEF AtRest, PlayerOnly, Typing
<1>2. QueueSound
  <2>1. ASSUME NEW k \in DOMAIN mix_streams
        PROVE  LET r == mus[mix_streams[k]]
               IN  r.loaded /\ r.is_multimusic /\ ~r.music_halted
    <3>1. mix_streams[k] \in Music /\ Holds(mix_streams, mix_streams[k])
      BY QueueOfMusic DEF Holds
    <3> QED
      BY <3>1 DEF AtRest
  <2> QED
    BY <2>1 DEF AtRest, Once, QueueSound
<1>3. StreamOnly
  BY QueueOfMusic DEF AtRest, StreamOnly, Releases
<1> QED
  BY <1>1, <1>2, <1>3 DEF OnePlayerOnly

LEMMA Updated ==
    ASSUME Typing, NEW t \in Music, NEW s \in Piece, Measured(s),
           mus' = [mus EXCEPT ![t] = s]
    PROVE  /\ mus' \in [Music -> Piece] /\ \A m \in Music : Measured(mus'[m])
           /\ mus'[t] = s /\ \A m \in Music \ {t} : mus'[m] = mus[m]
  BY DEF Typing

-----------------------------------------------------------------------------
(* What is left of a call.                                                  *)

AppSound == app \in Seq(StepType) /\ Releasing

LEMMA AppTail ==
    ASSUME app \in Seq(StepType), Releasing, ~Free, app' = Tail(app)
    PROVE  /\ AppSound' /\ \A m : ~Releases(m)'
           /\ \A k \in DOMAIN app' : app'[k].op # "wait"
<1>1. app # <<>> /\ Len(app) \in Nat
  BY DEF Free
<1>2. app' \in Seq(StepType) /\ Len(app') = Len(app) - 1
  BY <1>1
<1>3. \A k \in DOMAIN app' : k + 1 \in DOMAIN app /\ app'[k] = app[k + 1]
  BY <1>1, <1>2
<1>4. \A k \in DOMAIN app' : /\ app'[k].op \notin {"release", "wait"}
                             /\ app'[k].op = "fadein" => app'[k].m \in Music
                             /\ app'[k].op \in EachOps => app'[k].n > 0
  <2> SUFFICES ASSUME NEW k \in DOMAIN app'
               PROVE /\ app'[k].op \notin {"release", "wait"}
                     /\ app'[k].op = "fadein" => app'[k].m \in Music
                     /\ app'[k].op \in EachOps => app'[k].n > 0
    OBVIOUS
  <2>1. k + 1 \in DOMAIN app /\ app'[k] = app[k + 1] /\ k + 1 # 1 /\ k + 1 <= Len(app)
    BY <1>2, <1>3
  <2>2. Len(app) # 1
    BY <1>2, <2>1
  <2> QED
    BY <2>1, <2>2 DEF Releasing
<1>5. Releasing'
  BY <1>4 DEF Releasing
<1>6. ASSUME NEW m PROVE ~Releases(m)'
  <2>1. CASE app' = <<>>
    BY <2>1 DEF Releases, Free
  <2>2. CASE app' # <<>>
    <3>1. 1 \in DOMAIN app' /\ Head(app') = app'[1]
      BY <1>2, <2>2
    <3> QED
      BY <1>4, <3>1 DEF Releases
  <2> QED
    BY <2>1, <2>2
<1> QED
  BY <1>2, <1>4, <1>5, <1>6 DEF AppSound

LEMMA StepTyped ==
    ASSUME NEW op \in Ops, NEW m \in Music \cup {NoMusic}, NEW n \in Nat
    PROVE  Step(op, m, n) \in StepType
  BY DEF Step, StepType

\* A call begins, with one step or two, none of which is a release.
LEMMA AppBegins ==
    ASSUME NEW a \in StepType, NEW b \in StepType,
           a.op \notin {"release", "wait"}, b.op \notin {"release", "wait"},
           a.op = "fadein" => a.m \in Music, b.op = "fadein" => b.m \in Music,
           a.op \in EachOps => a.n > 0, b.op \in EachOps => b.n > 0,
           app' = <<a>> \/ app' = <<a, b>>
    PROVE  AppSound' /\ \A m : ~Releases(m)'
<1>1. app' \in Seq(StepType)
  <2>1. <<a>> \in Seq(StepType) /\ <<a, b>> \in Seq(StepType)
    OBVIOUS
  <2> QED
    BY <2>1
<1>2. \A k \in DOMAIN app' : app'[k] = a \/ app'[k] = b
  OBVIOUS
<1>3. Head(app') = a
  OBVIOUS
<1> QED
  BY <1>1, <1>2, <1>3 DEF AppSound, Releasing, Releases

LEMMA AppWaits ==
    ASSUME NEW a \in StepType, a.m \in Music, a.op \in {"wait", "release"},
           a.op = "release" => ~Plays(a.m)', app' = <<a>>
    PROVE  AppSound' /\ (a.op = "release" => Releases(a.m)')
<1>1. app' \in Seq(StepType) /\ Len(app') = 1 /\ Head(app') = a /\ app' # <<>>
  OBVIOUS
<1>2. \A k \in DOMAIN app' : app'[k] = a
  OBVIOUS
<1> QED
  BY <1>1, <1>2 DEF AppSound, Releasing, Releases, Free, EachOps

LEMMA AppFree ==
    ASSUME app \in Seq(StepType), Free, app' = app
    PROVE  AppSound' /\ \A m : ~Releases(m) /\ ~Releases(m)'
  BY DEF Free, AppSound, Releasing, Releases

-----------------------------------------------------------------------------
(* The kinds of step.                                                       *)

\* One piece is changed where it is; it may be paused, resumed or marked to be
\* freed only as a stream.
LEMMA Adjusted ==
    ASSUME Typing, OnePlayerOnly, NEW t \in Music, NEW s \in Piece,
           mus' = [mus EXCEPT ![t] = s], Stays(mus[t], s),
           s.music_active => mus[t].is_multimusic,
           s.free_on_stop => mus[t].free_on_stop \/ mus[t].is_multimusic,
           UNCHANGED <<music_playing, mix_streams, mx>>,
           \A m : Releases(m) => Releases(m)'
    PROVE  OnePlayerOnly'
<1>1. /\ \A m \in Music : Stays(mus[m], mus'[m])
      /\ \A m \in Music : mus'[m].music_active => mus[m].is_multimusic
      /\ \A m \in Music : mus'[m].free_on_stop =>
                             mus[m].free_on_stop \/ mus[m].is_multimusic
  BY DEF Typing, OnePlayerOnly, StreamOnly, Stays
<1>2. \A m : InPlayQueue(m)' <=> InPlayQueue(m)
  BY DEF InPlayQueue
<1>3. PlayerOnly'
  BY <1>1, <1>2 DEF OnePlayerOnly, PlayerOnly, Stays, Typing
<1>4. QueueSound'
  BY <1>1, QueueOfMusic DEF OnePlayerOnly, QueueSound, Stays
<1>5. StreamOnly'
  BY <1>1, <1>2 DEF OnePlayerOnly, StreamOnly, Stays, Releases
<1> QED
  BY <1>3, <1>4, <1>5 DEF OnePlayerOnly

\* Only the call goes on.
LEMMA Unmoved ==
    ASSUME OnePlayerOnly, UNCHANGED <<mus, music_playing, mix_streams, mx>>,
           \A m : Releases(m) => Releases(m)'
    PROVE  OnePlayerOnly'
<1>1. \A m : InPlayQueue(m)' <=> InPlayQueue(m)
  BY DEF InPlayQueue
<1>2. PlayerOnly' /\ QueueSound'
  BY <1>1 DEF OnePlayerOnly, PlayerOnly, QueueSound
<1>3. StreamOnly'
  BY <1>1 DEF OnePlayerOnly, StreamOnly, Releases
<1> QED
  BY <1>2, <1>3 DEF OnePlayerOnly

\* Music that plays nowhere is given back or comes anew.
LEMMA Cleared ==
    ASSUME Typing, OnePlayerOnly, NEW t \in Music, ~Plays(t), NEW s \in Piece,
           mus' = [mus EXCEPT ![t] = s],
           ~s.is_multimusic, ~s.music_active, ~s.free_on_stop,
           UNCHANGED <<music_playing, mix_streams, mx>>,
           \A m : Releases(m) => m = t \/ Releases(m)'
    PROVE  OnePlayerOnly'
<1>1. mus'[t] = s /\ \A m \in Music : m # t => mus'[m] = mus[m]
  BY DEF Typing
<1>2. /\ \A m : InPlayQueue(m)' <=> InPlayQueue(m)
      /\ ~InPlayQueue(t) /\ t # music_playing
      /\ \A k \in DOMAIN mix_streams : mix_streams[k] # t /\ mix_streams[k] \in Music
  BY QueueOfMusic DEF InPlayQueue, Plays
<1>3. PlayerOnly'
  BY <1>1, <1>2 DEF OnePlayerOnly, PlayerOnly, Typing
<1>4. QueueSound'
  BY <1>1, <1>2 DEF OnePlayerOnly, QueueSound
<1>5. StreamOnly'
  BY <1>1, <1>2 DEF OnePlayerOnly, StreamOnly, Releases
<1> QED
  BY <1>3, <1>4, <1>5 DEF OnePlayerOnly

\* Between the mixers, music is halted and leaves the queue and the single player.
LEMMA Leaves ==
    ASSUME Typing, OnePlayerOnly, Locked, NEW t \in Music, NEW s \in Piece, Measured(s),
           mus' = [mus EXCEPT ![t] = s],
           ~s.is_multimusic, ~s.music_active, s.free_on_stop => Releases(t)',
           mix_streams' = Removed(mix_streams, t),
           music_playing' = IF t = music_playing THEN NoMusic ELSE music_playing,
           UNCHANGED mx, \A m : Releases(m) => m = t \/ Releases(m)',
           UNCHANGED <<music_active, music_volume>>, app' \in Seq(StepType)
    PROVE  Typing' /\ OnePlayerOnly' /\ ~Plays(t)'
<1>1. AtRest
  BY SoundAtRest
<1>2. /\ mus' \in [Music -> Piece] /\ \A m \in Music : Measured(mus'[m])
      /\ mus'[t] = s /\ \A m \in Music \ {t} : mus'[m] = mus[m]
  BY Updated
<1>3. /\ mix_streams' \in Seq(Music) /\ Once(mix_streams')
      /\ \A x : Holds(mix_streams', x) <=> x # t /\ Holds(mix_streams, x)
  BY <1>1, RemovedQueue DEF AtRest, Typing
<1>4. Typing'
  BY <1>2, <1>3 DEF Typing
<1>5. \A m \in Music : m # t =>
         /\ mus'[m].is_multimusic <=> Holds(mix_streams', m)
         /\ mus'[m].is_multimusic =>
              mus'[m].loaded /\ mus'[m].playing /\ ~mus'[m].music_halted
         /\ mus'[m].music_active => mus'[m].is_multimusic
         /\ mus'[m].free_on_stop => mus'[m].is_multimusic \/ Releases(m)'
  BY <1>1, <1>2, <1>3 DEF AtRest
<1>6. /\ mus'[t].is_multimusic <=> Holds(mix_streams', t)
      /\ ~mus'[t].is_multimusic /\ ~mus'[t].music_active
      /\ mus'[t].free_on_stop => Releases(t)'
  BY <1>2, <1>3
<1>7. music_playing' # NoMusic => /\ mus'[music_playing'].loaded
                                  /\ mus'[music_playing'].playing
                                  /\ ~mus'[music_playing'].is_multimusic
  BY <1>1, <1>2 DEF AtRest, Typing
<1>8. AtRest'
  BY <1>3, <1>5, <1>6, <1>7 DEF AtRest
<1>9. Locked'
  BY DEF Locked
<1>10. OnePlayerOnly'
  BY <1>4, <1>8, <1>9, RestSound, PTL
<1>11. ~Plays(t)'
  BY <1>3, MusicAssumption DEF Plays, InPlayQueue, Holds
<1> QED
  BY <1>4, <1>10, <1>11

-----------------------------------------------------------------------------
(* What the calls do under the lock.                                        *)

NothingReleased == \A m : ~Releases(m)

LEMMA AdjustedTyped ==
    ASSUME Typing, OnePlayerOnly, NEW t \in Music, NEW s \in Piece, Measured(s),
           mus' = [mus EXCEPT ![t] = s], Stays(mus[t], s),
           s.music_active => mus[t].is_multimusic,
           s.free_on_stop => mus[t].free_on_stop \/ mus[t].is_multimusic,
           UNCHANGED <<music_playing, mix_streams, mx>>,
           music_active' \in BOOLEAN, music_volume' \in Int,
           \A m : Releases(m) => Releases(m)', app' \in Seq(StepType)
    PROVE  Typing' /\ OnePlayerOnly'
<1>1. OnePlayerOnly'
  BY Adjusted
<1>2. Typing'
  BY Updated DEF Typing
<1> QED
  BY <1>1, <1>2

LEMMA UnmovedTyped ==
    ASSUME Typing, OnePlayerOnly, UNCHANGED <<mus, music_playing, mix_streams, mx>>,
           music_active' \in BOOLEAN, music_volume' \in Int,
           \A m : Releases(m) => Releases(m)', app' \in Seq(StepType)
    PROVE  Typing' /\ OnePlayerOnly'
  BY Unmoved DEF Typing

LEMMA HaltSound ==
    ASSUME Typing, OnePlayerOnly, Locked, NothingReleased,
           NEW m \in Music \cup {NoMusic}, Halt(m),
           UNCHANGED <<music_active, music_volume, mx>>, app' \in Seq(StepType)
    PROVE  Typing' /\ OnePlayerOnly'
<1>1. PICK t \in Music \cup {NoMusic} : t = Target(m)
  BY DEF Target, Typing
<1>2. CASE t = NoMusic \/ ~mus[t].loaded
  <2>1. UNCHANGED <<mus, music_playing, mix_streams>>
    BY <1>1, <1>2 DEF Halt
  <2> QED
    BY <2>1, UnmovedTyped DEF NothingReleased, Typing
<1>3. CASE ~(t = NoMusic \/ ~mus[t].loaded)
  <2> DEFINE e == Ended(mus[t])
             s == [e EXCEPT !.free_on_stop = @ /\ ~mus[t].is_multimusic]
  <2>1. t \in Music
    BY <1>3
  <2>2. /\ mix_streams' = IF mus[t].is_multimusic THEN Removed(mix_streams, t)
                                                  ELSE mix_streams
        /\ music_playing' = IF t = music_playing THEN NoMusic ELSE music_playing
    BY <1>1, <1>3, Zenon DEF Halt
  <2>3. mus' = [mus EXCEPT ![t] =
                  [Ended(mus[t]) EXCEPT !.free_on_stop = @ /\ ~mus[t].is_multimusic]]
    BY <1>1, <1>3 DEF Halt
  <2>4. mus' = [mus EXCEPT ![t] = s]
    BY <2>3, Zenon
  <2>5. mus[t] \in Piece
    BY <2>1 DEF Typing
  <2>6. e \in Piece /\ Measured(e) /\ Halts(mus[t], e)
    BY <2>5, EndedHalts
  <2>7. AtRest
    BY SoundAtRest
  <2> HIDE DEF e
  <2>8. s \in Piece
    BY <2>5, <2>6 DEF Piece
  <2>9. /\ s.is_multimusic = e.is_multimusic /\ s.music_active = e.music_active
        /\ s.free_on_stop = (e.free_on_stop /\ ~mus[t].is_multimusic)
        /\ s.fading = e.fading /\ s.fade_steps = e.fade_steps
    BY <2>6 DEF Piece
  <2>10. /\ mus[t].music_active => mus[t].is_multimusic
         /\ mus[t].free_on_stop => mus[t].is_multimusic
         /\ Holds(mix_streams, t) <=> mus[t].is_multimusic
    BY <2>1, <2>7 DEF AtRest, NothingReleased
  <2>11. ~s.is_multimusic /\ ~s.music_active /\ ~s.free_on_stop /\ Measured(s)
    BY <2>6, <2>9, <2>10 DEF Halts, Measured
  <2>12. mix_streams' = Removed(mix_streams, t)
    BY <2>1, <2>2, <2>7, <2>10, RemovedQueue DEF AtRest, Typing
  <2> HIDE DEF s
  <2> QED
    BY <2>1, <2>2, <2>4, <2>8, <2>11, <2>12, Leaves, Zenon DEF NothingReleased
<1> QED
  BY <1>2, <1>3

LEMMA FadeOutSound ==
    ASSUME Typing, OnePlayerOnly, Locked, NothingReleased,
           NEW m \in Music \cup {NoMusic}, NEW n \in Nat, FadeOut(m, n),
           UNCHANGED <<music_active, music_volume, mx>>, app' \in Seq(StepType)
    PROVE  Typing' /\ OnePlayerOnly'
<1>1. CASE n = 0
  BY <1>1, HaltSound DEF FadeOut
<1>2. CASE n # 0 /\ (m = NoMusic \/ ~mus[m].loaded)
  <2>1. UNCHANGED <<mus, music_playing, mix_streams>>
    BY <1>2 DEF FadeOut
  <2> QED
    BY <2>1, UnmovedTyped DEF NothingReleased, Typing
<1>3. CASE n # 0 /\ ~(m = NoMusic \/ ~mus[m].loaded)
  <2> DEFINE s == FadedOut(mus[m], n)
  <2>1. /\ m \in Music /\ mus[m] \in Piece /\ n > 0
        /\ Bounded(s) /\ mus' = [mus EXCEPT ![m] = s]
        /\ UNCHANGED <<music_playing, mix_streams>>
    BY <1>3 DEF FadeOut, Typing
  <2>2. s \in Piece /\ Measured(s) /\ Same(mus[m], s)
    BY <2>1, FadedOutSame
  <2>3. mus[m].music_active => mus[m].is_multimusic
    BY <2>1 DEF OnePlayerOnly, StreamOnly
  <2> HIDE DEF s
  <2> QED
    BY <2>1, <2>2, <2>3, AdjustedTyped DEF NothingReleased, Same, Typing
<1> QED
  BY <1>1, <1>2, <1>3

LEMMA PauseSound ==
    ASSUME Typing, OnePlayerOnly, NothingReleased,
           NEW m \in Music \cup {NoMusic}, Pause(m) \/ Resume(m),
           UNCHANGED <<music_playing, music_volume, mix_streams, mx>>,
           app' \in Seq(StepType)
    PROVE  Typing' /\ OnePlayerOnly'
<1>1. music_active' \in BOOLEAN
  BY DEF Pause, Resume, Typing
<1>2. CASE mus' = mus
  BY <1>1, <1>2, UnmovedTyped DEF NothingReleased, Typing
<1>3. CASE mus' # mus
  <2>1. m \in Music /\ mus[m].is_multimusic
    BY <1>3 DEF Pause, Resume
  <2>2. PICK a \in BOOLEAN : mus' = [mus EXCEPT ![m].music_active = a]
    BY <1>3 DEF Pause, Resume
  <2> DEFINE s == [mus[m] EXCEPT !.music_active = a]
  <2>3. mus[m] \in Piece /\ Measured(mus[m])
    BY <2>1 DEF Typing
  <2>4. s \in Piece /\ Measured(s) /\ Stays(mus[m], s) /\ s.free_on_stop = mus[m].free_on_stop
    BY <2>3 DEF Piece, Measured, Stays
  <2>5. mus' = [mus EXCEPT ![m] = s]
    BY <2>2
  <2> HIDE DEF s
  <2> QED
    BY <1>1, <2>1, <2>4, <2>5, AdjustedTyped DEF NothingReleased, Typing
<1> QED
  BY <1>2, <1>3

LEMMA FadeInSound ==
    ASSUME Typing, OnePlayerOnly, Locked, NothingReleased,
           NEW m \in Music, NEW n \in Nat, NEW endless \in BOOLEAN, NEW ok \in BOOLEAN,
           FadeInStream(m, n, endless, ok),
           UNCHANGED <<music_playing, music_active, music_volume, mx>>,
           app' \in Seq(StepType)
    PROVE  Typing' /\ OnePlayerOnly'
<1> DEFINE f == FadedIn(mus[m], n)
           r == [f EXCEPT !.is_multimusic = TRUE, !.music_active = TRUE, !.music_halted = FALSE]
           s == Started(r, r.music_volume, endless, ok)
           u == [s EXCEPT !.is_multimusic = FALSE, !.music_active = FALSE, !.music_halted = TRUE]
<1>1. AtRest
  BY SoundAtRest
<1>2. mus[m] \in Piece /\ Measured(mus[m])
  BY DEF Typing
<1>3. f \in Piece /\ Measured(f) /\ Same(mus[m], f)
  BY <1>2, FadedInSame
<1>4. \/ UNCHANGED <<mus, mix_streams>>
      \/ /\ music_playing # m /\ mus[m].loaded
         /\ \/ InPlayQueue(m) /\ mus' = [mus EXCEPT ![m] = r] /\ UNCHANGED mix_streams
            \/ /\ ~InPlayQueue(m) /\ ok /\ mus' = [mus EXCEPT ![m] = s]
               /\ mix_streams' = Append(mix_streams, m)
            \/ /\ ~InPlayQueue(m) /\ mus' = [mus EXCEPT ![m] = u]
               /\ UNCHANGED mix_streams
  BY Zenon DEF FadeInStream
<1> HIDE DEF f
<1>5. /\ r \in Piece /\ Measured(r) /\ r.loaded = mus[m].loaded
      /\ r.playing = mus[m].playing /\ r.free_on_stop = mus[m].free_on_stop
      /\ r.is_multimusic /\ r.music_active /\ ~r.music_halted
  <2>1. r \in Piece
    BY <1>3, Zenon DEF Piece
  <2> QED
    BY <1>3, <2>1 DEF Piece, Measured, Same, Stays
<1> HIDE DEF r
<1>6. r.music_volume \in Int
  BY <1>5 DEF Piece
<1>7. /\ s \in Piece /\ Measured(s) /\ s.loaded = mus[m].loaded /\ s.playing = ok
      /\ s.free_on_stop = mus[m].free_on_stop
      /\ s.is_multimusic /\ s.music_active /\ ~s.music_halted
  <2> DEFINE v == r.music_volume
             q == Started(r, v, endless, ok)
  <2>1. /\ r \in Piece /\ Measured(r) /\ v \in Int
        /\ ok \in BOOLEAN /\ endless \in BOOLEAN
    BY <1>5, <1>6
  <2> HIDE DEF v
  <2>2. q \in Piece
    BY <2>1, StartedFields
  <2>3. Measured(q)
    BY <2>1, StartedFields
  <2>4. q.loaded = r.loaded
    BY <2>1, StartedFields
  <2>5. q.playing = ok
    BY <2>1, StartedFields
  <2>6. q.free_on_stop = r.free_on_stop
    BY <2>1, StartedFields
  <2>7. q.is_multimusic = r.is_multimusic
    BY <2>1, StartedFields
  <2>8. q.music_active = r.music_active
    BY <2>1, StartedFields
  <2>9. q.music_halted = r.music_halted
    BY <2>1, StartedFields
  <2> HIDE DEF q
  <2>10. /\ q \in Piece /\ Measured(q) /\ q.loaded = mus[m].loaded /\ q.playing = ok
        /\ q.free_on_stop = mus[m].free_on_stop
        /\ q.is_multimusic /\ q.music_active /\ ~q.music_halted
    BY <1>5, <2>2, <2>3, <2>4, <2>5, <2>6, <2>7, <2>8, <2>9
  <2> QED
    BY <2>10 DEF q, v
<1> HIDE DEF s
<1>8. /\ u \in Piece /\ Measured(u) /\ u.free_on_stop = mus[m].free_on_stop
      /\ ~u.is_multimusic /\ ~u.music_active
  BY <1>7 DEF Piece, Measured
<1> HIDE DEF u
<1>9. /\ InPlayQueue(m) <=> mus[m].is_multimusic
      /\ mus[m].is_multimusic => ~mus[m].music_halted
      /\ mus[m].free_on_stop => mus[m].is_multimusic
  BY <1>1, QueueOfMusic DEF AtRest, NothingReleased
<1>10. CASE UNCHANGED <<mus, mix_streams>>
  BY <1>10, UnmovedTyped DEF NothingReleased, Typing
<1>11. CASE InPlayQueue(m) /\ mus' = [mus EXCEPT ![m] = r] /\ UNCHANGED mix_streams
  <2>1. Stays(mus[m], r)
    BY <1>2, <1>5, <1>9, <1>11 DEF Stays, Piece
  <2> QED
    BY <1>5, <1>9, <1>11, <2>1, AdjustedTyped DEF NothingReleased, Typing
<1>12. CASE ~InPlayQueue(m) /\ music_playing # m /\ mus' = [mus EXCEPT ![m] = u]
            /\ UNCHANGED mix_streams
  <2>1. OnePlayerOnly'
    BY <1>8, <1>9, <1>12, Cleared DEF Plays, NothingReleased
  <2>2. Typing'
    BY <1>8, <1>12, Updated DEF Typing
  <2> QED
    BY <2>1, <2>2
<1>13. CASE /\ ~InPlayQueue(m) /\ music_playing # m /\ mus[m].loaded /\ ok
            /\ mus' = [mus EXCEPT ![m] = s] /\ mix_streams' = Append(mix_streams, m)
  <2>1. /\ mus' \in [Music -> Piece] /\ \A x \in Music : Measured(mus'[x])
        /\ mus'[m] = s /\ \A x \in Music \ {m} : mus'[x] = mus[x]
    BY <1>7, <1>13, Updated
  <2>2. /\ mix_streams' \in Seq(Music)
        /\ \A k \in DOMAIN mix_streams' :
             IF k = Len(mix_streams) + 1 THEN mix_streams'[k] = m
             ELSE k \in DOMAIN mix_streams /\ mix_streams'[k] = mix_streams[k]
        /\ \A k \in DOMAIN mix_streams : k \in DOMAIN mix_streams' /\ mix_streams'[k] = mix_streams[k]
        /\ Len(mix_streams) + 1 \in DOMAIN mix_streams'
    BY <1>13 DEF Typing
  <2>3. ~Holds(mix_streams, m)
    BY <1>13, QueueOfMusic
  <2>4. \A x : Holds(mix_streams', x) <=> x = m \/ Holds(mix_streams, x)
    BY <2>2 DEF Holds
  <2>5. Once(mix_streams')
    BY <1>1, <2>2, <2>3 DEF AtRest, Once, Holds
  <2>6. \A x \in Music : x # m =>
           /\ Holds(mix_streams', x) <=> mus'[x].is_multimusic
           /\ mus'[x].is_multimusic =>
                mus'[x].loaded /\ mus'[x].playing /\ ~mus'[x].music_halted
           /\ mus'[x].music_active => mus'[x].is_multimusic
           /\ mus'[x].free_on_stop => mus'[x].is_multimusic \/ Releases(x)'
    BY <1>1, <2>1, <2>4 DEF AtRest, NothingReleased
  <2>7. /\ Holds(mix_streams', m) <=> mus'[m].is_multimusic
        /\ mus'[m].is_multimusic =>
             mus'[m].loaded /\ mus'[m].playing /\ ~mus'[m].music_halted
        /\ mus'[m].music_active => mus'[m].is_multimusic
        /\ mus'[m].free_on_stop => mus'[m].is_multimusic \/ Releases(m)'
    BY <1>7, <1>13, <2>1, <2>4
  <2>8. music_playing' # NoMusic => /\ mus'[music_playing'].loaded
                                    /\ mus'[music_playing'].playing
                                    /\ ~mus'[music_playing'].is_multimusic
    BY <1>1, <1>13, <2>1 DEF AtRest, Typing
  <2>9. AtRest'
    BY <2>5, <2>6, <2>7, <2>8 DEF AtRest
  <2>10. Typing' /\ Locked'
    BY <2>1, <2>2 DEF Typing, Locked
  <2> QED
    BY <2>9, <2>10, RestSound, PTL
<1> QED
  BY <1>4, <1>10, <1>11, <1>12, <1>13

LEMMA StopSound ==
    ASSUME Typing, OnePlayerOnly, ~OutOfMemory, Locked, NothingReleased,
           NEW m \in Music, NEW waited \in BOOLEAN, Stop(m, waited),
           UNCHANGED <<music_active, music_volume, mx>>,
           app' = <<Step("release", m, 0)>>
    PROVE  Sound'
<1> DEFINE s == FreedHalted(mus[m], waited)
<1>1. AtRest
  BY SoundAtRest
<1>2. /\ mus' = [mus EXCEPT ![m] = s]
      /\ mix_streams' = Removed(mix_streams, m)
      /\ music_playing' = IF m = music_playing THEN NoMusic ELSE music_playing
  BY DEF Stop
<1>3. mus[m] \in Piece
  BY DEF Typing
<1>4. s \in Piece /\ Measured(s) /\ Halts(mus[m], s)
  BY <1>3, EndedHalts, HaltedHalts DEF FreedHalted
<1> HIDE DEF s
<1>5. ~s.is_multimusic /\ ~s.music_active
  BY <1>1, <1>4 DEF Halts, AtRest
<1>6. app' \in Seq(StepType) /\ Releases(m)'
  <2>1. Step("release", m, 0) \in StepType
    BY StepTyped DEF Ops
  <2> QED
    BY <2>1 DEF Releases, Free, Step
<1>7. \A x : Releases(x) => x = m \/ Releases(x)'
  BY DEF NothingReleased
<1>8. Typing' /\ OnePlayerOnly' /\ ~Plays(m)'
  BY <1>2, <1>4, <1>5, <1>6, <1>7, Leaves
<1>9. Releasing'
  BY <1>8 DEF Releasing, Step, EachOps
<1> QED
  BY <1>8, <1>9 DEF Sound

-----------------------------------------------------------------------------
(* The mixers.                                                              *)

\* They leave the call as it is, and start nothing.
LEMMA MixerApp ==
    ASSUME app \in Seq(StepType), Releasing, app' = app,
           \A m \in Music : Plays(m)' => Plays(m)
    PROVE  AppSound' /\ \A m : Releases(m)' <=> Releases(m)
<1>1. \A m : Releases(m)' <=> Releases(m)
  BY DEF Releases, Free
<1>2. Releasing'
  BY DEF Releasing
<1> QED
  BY <1>1, <1>2 DEF AppSound

LEMMA MixerSound ==
    ASSUME Sound, music_mixer
    PROVE  Sound'
<1>1. Typing /\ OnePlayerOnly /\ Releasing /\ Locked /\ AtRest
  BY SoundAtRest DEF Sound, music_mixer, Locked
<1>2. /\ mx' \in MixerState /\ (Locked \/ mx.pc = "streams" \/ mx.pc = "clean")'
      /\ UNCHANGED <<music_active, music_volume, mix_streams, app>>
  BY DEF music_mixer, MixerState
<1>3. CASE UNCHANGED <<mus, music_playing>>
  <2>1. Typing'
    BY <1>1, <1>2, <1>3 DEF Typing
  <2>2. AtRest'
    <3>1. \A m : Releases(m)' <=> Releases(m)
      BY <1>2 DEF Releases, Free
    <3> QED
      BY <1>1, <1>2, <1>3, <3>1 DEF AtRest
  <2>3. OnePlayerOnly'
    BY <1>2, <2>1, <2>2, RestSound, PTL
  <2>4. AppSound'
    BY <1>1, <1>2, <1>3, MixerApp DEF Typing, Plays, InPlayQueue
  <2> QED
    BY <2>1, <2>3, <2>4 DEF Sound, AppSound
<1>4. CASE ~UNCHANGED <<mus, music_playing>>
  <2>1. PICK p \in Music : p = music_playing /\ mus[p] \in Piece /\ Measured(mus[p])
    BY <1>1, <1>4 DEF music_mixer, Typing
  <2>2. PICK more \in BOOLEAN :
          LET r == Mixed(mus[p], music_volume, more)
          IN  /\ mus' = [mus EXCEPT ![p] = r]
              /\ music_playing' = IF r.playing THEN p ELSE NoMusic
    BY <1>4, <2>1 DEF music_mixer, Outcomes
  <2> DEFINE r == Mixed(mus[p], music_volume, more)
  <2>3. r \in Piece /\ Measured(r) /\ (Same(mus[p], r) \/ Halts(mus[p], r))
    BY <1>1, <2>1, MixedGoesOn DEF Typing
  <2>4. mus' = [mus EXCEPT ![p] = r] /\ music_playing' = IF r.playing THEN p ELSE NoMusic
    BY <2>2
  <2> HIDE DEF r
  <2>5. /\ mus[p].loaded /\ ~mus[p].is_multimusic /\ mus[p].playing
        /\ ~mus[p].music_active
        /\ mus[p].free_on_stop => Releases(p)
        /\ ~Holds(mix_streams, p)
    BY <1>1, <2>1, MusicAssumption DEF AtRest
  <2>6. r.loaded /\ ~r.is_multimusic /\ ~r.music_active
    BY <2>3, <2>5 DEF Same, Stays, Halts
  <2>7. r.free_on_stop => Releases(p)
    BY <2>3, <2>5 DEF Same, Halts
  <2>8. /\ mus' \in [Music -> Piece] /\ \A m \in Music : Measured(mus'[m])
        /\ mus'[p] = r /\ \A m \in Music \ {p} : mus'[m] = mus[m]
    BY <1>1, <2>1, <2>3, <2>4, Updated
  <2>9. Typing'
    BY <1>1, <1>2, <2>1, <2>4, <2>8 DEF Typing
  <2>10. music_playing' # NoMusic =>
           /\ mus'[music_playing'].loaded /\ mus'[music_playing'].playing
           /\ ~mus'[music_playing'].is_multimusic
    BY <2>1, <2>4, <2>6, <2>8
  <2>11. \A m : Releases(m)' <=> Releases(m)
    BY <1>2 DEF Releases, Free
  <2>12. \A m \in Music : m # p =>
           /\ Holds(mix_streams', m) <=> mus'[m].is_multimusic
           /\ mus'[m].is_multimusic =>
                mus'[m].loaded /\ mus'[m].playing /\ ~mus'[m].music_halted
           /\ mus'[m].music_active => mus'[m].is_multimusic
           /\ mus'[m].free_on_stop => mus'[m].is_multimusic \/ Releases(m)'
    BY <1>1, <1>2, <2>8, <2>11 DEF AtRest
  <2>13. /\ ~Holds(mix_streams', p) /\ ~mus'[p].is_multimusic /\ ~mus'[p].music_active
         /\ mus'[p].free_on_stop => Releases(p)'
    BY <1>2, <2>5, <2>6, <2>7, <2>8, <2>11
  <2>14. AtRest'
    BY <1>1, <1>2, <2>10, <2>12, <2>13 DEF AtRest
  <2>15. OnePlayerOnly'
    BY <1>2, <2>9, <2>14, RestSound, PTL
  <2>16. \A m \in Music : Plays(m)' => Plays(m)
    BY <1>2, <2>1, <2>4, MusicAssumption DEF Plays, InPlayQueue
  <2>17. AppSound'
    BY <1>1, <1>2, <2>16, MixerApp DEF Typing
  <2> QED
    BY <2>9, <2>15, <2>17 DEF Sound, AppSound
<1> QED
  BY <1>3, <1>4

LEMMA MixStreamSound ==
    ASSUME Sound, MixStream
    PROVE  Sound'
<1>1. Typing /\ OnePlayerOnly /\ Releasing
  BY DEF Sound
<1>2. PICK i \in Nat \ {0} : mx = [pc |-> "streams", i |-> i]
  BY <1>1 DEF MixStream, Typing, MixerState, MixIdle
<1>3. /\ i \in DOMAIN mix_streams /\ mx' = [pc |-> "streams", i |-> i + 1]
      /\ UNCHANGED <<music_playing, music_active, music_volume, mix_streams, app>>
  BY <1>1, <1>2 DEF MixStream, Typing
<1>4. mx' \in MixerState /\ AppSound' /\ \A m : Releases(m)' <=> Releases(m)
  <2>1. \A m \in Music : Plays(m)' => Plays(m)
    BY <1>3 DEF Plays, InPlayQueue
  <2> QED
    BY <1>1, <1>2, <1>3, <2>1, MixerApp DEF Typing, MixerState
<1>5. PICK m \in Music : m = mix_streams[i]
  BY <1>1, <1>3 DEF Typing
<1>6. \A x : InPlayQueue(x)' <=> InPlayQueue(x)
  BY <1>3 DEF InPlayQueue
<1>7. CASE UNCHANGED mus
  <2>1. PlayerOnly'
    BY <1>1, <1>3, <1>6, <1>7 DEF OnePlayerOnly, PlayerOnly
  <2>2. QueueSound'
    BY <1>1, <1>2, <1>3, <1>7 DEF OnePlayerOnly, QueueSound, Typing
  <2>3. StreamOnly'
    BY <1>1, <1>4, <1>6, <1>7 DEF OnePlayerOnly, StreamOnly, Releases
  <2> QED
    BY <1>1, <1>3, <1>4, <1>7, <2>1, <2>2, <2>3 DEF Sound, Typing, AppSound, OnePlayerOnly
<1>8. CASE ~UNCHANGED mus
  <2>1. PICK more \in BOOLEAN :
          mus' = [mus EXCEPT ![m] = Mixed(mus[m], mus[m].music_volume, more)]
    BY <1>2, <1>5, <1>8 DEF MixStream, Outcomes
  <2>2. mus[m].music_active /\ mus[m] \in Piece /\ Measured(mus[m])
    BY <1>1, <1>2, <1>5, <1>8 DEF MixStream, Typing
  <2> DEFINE r == Mixed(mus[m], mus[m].music_volume, more)
  <2>3. mus[m].music_volume \in Int
    BY <2>2 DEF Piece
  <2>4. r \in Piece /\ Measured(r) /\ (Same(mus[m], r) \/ Halts(mus[m], r))
    BY <2>2, <2>3, MixedGoesOn
  <2>5. mus' = [mus EXCEPT ![m] = r]
    BY <2>1
  <2> HIDE DEF r
  <2>6. /\ mus' \in [Music -> Piece] /\ \A x \in Music : Measured(mus'[x])
        /\ mus'[m] = r /\ \A x \in Music \ {m} : mus'[x] = mus[x]
    BY <1>1, <2>4, <2>5, Updated
  <2>7. InPlayQueue(m) /\ music_playing # m
    <3>1. InPlayQueue(m)
      BY <1>3, <1>5 DEF InPlayQueue
    <3> QED
      BY <1>1, <3>1, MusicAssumption DEF OnePlayerOnly, PlayerOnly
  <2>8. mus[m].is_multimusic /\ mus[m].loaded /\ mus[m].playing
    BY <1>1, <1>3, <1>5, <2>2 DEF OnePlayerOnly, StreamOnly, QueueSound
  <2>9. PlayerOnly'
    BY <1>1, <1>3, <1>6, <2>6, <2>7 DEF OnePlayerOnly, PlayerOnly, Typing
  <2>10. /\ r.loaded
         /\ Same(mus[m], r) \/ r.music_halted
         /\ r.is_multimusic => Same(mus[m], r)
         /\ r.music_active => r.is_multimusic
    BY <2>4, <2>8 DEF Same, Stays, Halts
  <2>11. QueueSound'
    <3>1. ASSUME NEW k \in DOMAIN mix_streams, k # i
          PROVE  mix_streams[k] \in Music \ {m} /\ mus'[mix_streams[k]] = mus[mix_streams[k]]
      BY <1>1, <1>3, <1>5, <2>6, <3>1 DEF OnePlayerOnly, QueueSound, Typing
    <3>2. ASSUME NEW k \in DOMAIN mix_streams
          PROVE  /\ mus'[mix_streams[k]].loaded
                 /\ mus'[mix_streams[k]].is_multimusic \/ mus'[mix_streams[k]].music_halted
                 /\ mus'[mix_streams[k]].music_halted => k < i + 1
      <4>1. k \in Int /\ i \in Int
        BY <1>1, <1>2 DEF Typing
      <4>2. CASE k = i
        <5>1. mus'[mix_streams[k]] = r /\ k < i + 1
          BY <1>5, <2>6, <4>1, <4>2
        <5> QED
          BY <2>8, <2>10, <5>1 DEF Same, Stays
      <4>3. CASE k # i
        <5>1. /\ mus[mix_streams[k]].loaded
              /\ mus[mix_streams[k]].is_multimusic \/ mus[mix_streams[k]].music_halted
              /\ mus[mix_streams[k]].music_halted => k < i
          BY <1>1, <1>2 DEF OnePlayerOnly, QueueSound
        <5>2. mus'[mix_streams[k]] = mus[mix_streams[k]]
          BY <3>1, <4>3
        <5>3. k < i => k < i + 1
          BY <4>1
        <5> QED
          BY <5>1, <5>2, <5>3, Zenon
      <4> QED
        BY <4>2, <4>3
    <3> QED
      BY <1>1, <1>3, <3>2 DEF OnePlayerOnly, QueueSound
  <2>12. StreamOnly'
    <3>1. ASSUME NEW x \in Music, x # m
          PROVE  /\ mus'[x].is_multimusic =>
                      InPlayQueue(x)' /\ mus'[x].playing /\ ~mus'[x].music_halted
                 /\ mus'[x].music_active => mus'[x].is_multimusic
                 /\ mus'[x].free_on_stop => InPlayQueue(x)' \/ Releases(x)'
      BY <1>1, <1>4, <1>6, <2>6, <3>1 DEF OnePlayerOnly, StreamOnly, Releases
    <3>2. /\ r.is_multimusic => r.playing /\ ~r.music_halted
          /\ InPlayQueue(m)'
      BY <1>1, <1>6, <2>7, <2>8, <2>10 DEF OnePlayerOnly, StreamOnly, Same, Stays
    <3> QED
      BY <2>6, <2>10, <3>1, <3>2 DEF StreamOnly, Releases
  <2> QED
    BY <1>1, <1>3, <1>4, <2>6, <2>9, <2>11, <2>12 DEF Sound, Typing, AppSound, OnePlayerOnly
<1> QED
  BY <1>7, <1>8

LEMMA StreamsDoneSound ==
    ASSUME Sound, StreamsMixed \/ StreamsCleaned
    PROVE  Sound'
<1>1. Typing /\ OnePlayerOnly /\ Releasing
  BY DEF Sound
<1>2. /\ UNCHANGED <<mus, music_playing, music_active, music_volume, mix_streams, app>>
      /\ mx' \in MixerState
  BY DEF StreamsMixed, StreamsCleaned, MixerState
<1>3. AppSound' /\ \A m : Releases(m)' <=> Releases(m)
  <2>1. \A m \in Music : Plays(m)' => Plays(m)
    BY <1>2 DEF Plays, InPlayQueue
  <2> QED
    BY <1>1, <1>2, <2>1, MixerApp DEF Typing
<1>4. \A x : InPlayQueue(x)' <=> InPlayQueue(x)
  BY <1>2 DEF InPlayQueue
<1>5. PlayerOnly'
  BY <1>1, <1>2, <1>4 DEF OnePlayerOnly, PlayerOnly
<1>6. StreamOnly'
  BY <1>1, <1>2, <1>3, <1>4 DEF OnePlayerOnly, StreamOnly, Releases
<1>7. QueueSound'
  <2>1. \A k \in DOMAIN mix_streams : k \in Nat /\ k >= 1 /\ k <= Len(mix_streams)
    BY <1>1 DEF Typing
  <2>2. CASE StreamsMixed
    <3>1. mx' = [pc |-> "clean", i |-> 1]
      BY <2>2 DEF StreamsMixed
    <3>2. mx'.pc = "clean" /\ mx'.i = 1
      BY <3>1
    <3> QED
      BY <1>1, <1>2, <2>1, <3>2 DEF OnePlayerOnly, QueueSound
  <2>3. CASE StreamsCleaned
    <3>1. PICK i \in Nat : mx.pc = "clean" /\ mx.i = i /\ i > Len(mix_streams)
      BY <1>1, <2>3 DEF StreamsCleaned, Typing, MixerState, MixIdle
    <3>2. \A k \in DOMAIN mix_streams : ~mus[mix_streams[k]].music_halted
      BY <1>1, <2>1, <3>1 DEF OnePlayerOnly, QueueSound, Typing
    <3> QED
      BY <1>1, <1>2, <3>2 DEF OnePlayerOnly, QueueSound
  <2> QED
    BY <2>2, <2>3
<1> QED
  BY <1>1, <1>2, <1>3, <1>5, <1>6, <1>7 DEF Sound, Typing, AppSound, OnePlayerOnly

LEMMA CleanStreamSound ==
    ASSUME Sound, CleanStream
    PROVE  Sound'
<1>1. Typing /\ OnePlayerOnly /\ Releasing
  BY DEF Sound
<1>2. PICK i \in Nat \ {0} : mx = [pc |-> "clean", i |-> i]
  BY <1>1 DEF CleanStream, Typing, MixerState, MixIdle
<1>3. /\ i \in DOMAIN mix_streams
      /\ UNCHANGED <<music_playing, music_active, music_volume, app>>
  BY <1>1, <1>2 DEF CleanStream, Typing
<1>4. PICK m \in Music : m = mix_streams[i]
  BY <1>1, <1>3 DEF Typing
<1>5. /\ DOMAIN mix_streams = 1 .. Len(mix_streams) /\ Len(mix_streams) \in Nat
      /\ \A k \in DOMAIN mix_streams : mix_streams[k] \in Music
  BY <1>1, QueueOfMusic
<1>6. \A k \in DOMAIN mix_streams :
         /\ mus[mix_streams[k]].loaded
         /\ mus[mix_streams[k]].is_multimusic \/ mus[mix_streams[k]].music_halted
         /\ mus[mix_streams[k]].music_halted => k >= i
  BY <1>1, <1>2 DEF OnePlayerOnly, QueueSound
<1>7. CASE ~mus[m].music_halted
  <2>1. /\ mx' = [pc |-> "clean", i |-> i + 1] /\ UNCHANGED <<mus, mix_streams>>
        /\ mx' \in MixerState
    BY <1>2, <1>4, <1>7 DEF CleanStream, MixerState
  <2>2. \A x : InPlayQueue(x)' <=> InPlayQueue(x)
    BY <2>1 DEF InPlayQueue
  <2>3. AppSound' /\ \A x : Releases(x)' <=> Releases(x)
    <3>1. \A x \in Music : Plays(x)' => Plays(x)
      BY <1>3, <2>2 DEF Plays
    <3> QED
      BY <1>1, <1>3, <3>1, MixerApp DEF Typing
  <2>4. PlayerOnly'
    BY <1>1, <1>3, <2>1, <2>2 DEF OnePlayerOnly, PlayerOnly
  <2>5. StreamOnly'
    BY <1>1, <1>3, <2>1, <2>2, <2>3 DEF OnePlayerOnly, StreamOnly, Releases
  <2>6. \A k \in DOMAIN mix_streams : mus[mix_streams[k]].music_halted => k >= i + 1
    <3> SUFFICES ASSUME NEW k \in DOMAIN mix_streams, mus[mix_streams[k]].music_halted
                 PROVE  k >= i + 1
      OBVIOUS
    <3>1. k # i
      BY <1>4, <1>7
    <3>2. k >= i /\ k \in Int /\ i \in Int
      BY <1>2, <1>5, <1>6
    <3> QED
      BY <3>1, <3>2
  <2>7. QueueSound'
    BY <1>1, <1>6, <2>1, <2>6 DEF OnePlayerOnly, QueueSound
  <2> QED
    BY <1>1, <1>3, <2>1, <2>3, <2>4, <2>5, <2>7 DEF Sound, Typing, AppSound, OnePlayerOnly
<1>8. CASE mus[m].music_halted
  <2> DEFINE q == Removed(mix_streams, m)
  <2>1. /\ mix_streams' = q /\ UNCHANGED mx
        /\ mus' = IF mus[m].free_on_stop THEN [mus EXCEPT ![m] = Gone] ELSE mus
    BY <1>2, <1>4, <1>8 DEF CleanStream, CleanedAt
  <2>2. Once(mix_streams)
    BY <1>1 DEF OnePlayerOnly, QueueSound, Once
  <2>3. /\ q \in Seq(Music) /\ Len(q) = Len(mix_streams) - 1
        /\ \A j \in 1 .. Len(q) :
             q[j] = IF j < i THEN mix_streams[j] ELSE mix_streams[j + 1]
    BY <1>1, <1>3, <1>4, <2>2, RemovedAt DEF Typing
  <2>4. Once(q) /\ \A x : Holds(q, x) <=> x # m /\ Holds(mix_streams, x)
    BY <1>1, <2>2, RemovedQueue DEF Typing
  <2> HIDE DEF q
  <2>5. /\ mus' \in [Music -> Piece] /\ \A x \in Music : Measured(mus'[x])
        /\ \A x \in Music \ {m} : mus'[x] = mus[x]
    BY <1>1, <2>1, FreshPiece, FadeAssumption DEF Typing
  <2>6. Typing'
    BY <1>1, <1>3, <2>1, <2>3, <2>5 DEF Typing
  <2>7. /\ \A x : InPlayQueue(x) <=> Holds(mix_streams, x)
        /\ \A x : InPlayQueue(x)' <=> Holds(q, x)
    BY <2>1 DEF InPlayQueue, Holds
  <2>8. Holds(mix_streams, m) /\ music_playing # m
    <3>1. Holds(mix_streams, m)
      BY <1>3, <1>4 DEF Holds
    <3> QED
      BY <1>1, <2>7, <3>1, MusicAssumption DEF OnePlayerOnly, PlayerOnly
  <2>9. AppSound' /\ \A x : Releases(x)' <=> Releases(x)
    <3>1. \A x \in Music : Plays(x)' => Plays(x)
      BY <1>3, <2>4, <2>7 DEF Plays
    <3> QED
      BY <1>1, <1>3, <3>1, MixerApp DEF Typing
  <2>10. PlayerOnly'
    BY <1>1, <1>3, <2>4, <2>5, <2>7, <2>8 DEF OnePlayerOnly, PlayerOnly, Typing
  <2>11. QueueSound'
    <3>1. ASSUME NEW k \in DOMAIN q
          PROVE  /\ mus'[q[k]].loaded
                 /\ mus'[q[k]].is_multimusic \/ mus'[q[k]].music_halted
                 /\ mus'[q[k]].music_halted => k >= i
      <4>1. k \in 1 .. Len(mix_streams) - 1 /\ k \in Int /\ i \in Int
        BY <1>5, <2>3
      <4>2. PICK j \in DOMAIN mix_streams : /\ q[k] = mix_streams[j]
                                            /\ j = IF k < i THEN k ELSE k + 1
        BY <1>5, <2>3, <4>1
      <4>3. j # i
        BY <4>1, <4>2
      <4>4. mix_streams[j] \in Music \ {m}
        BY <1>3, <1>4, <1>5, <2>2, <4>3 DEF Once
      <4>5. mus'[q[k]] = mus[mix_streams[j]]
        BY <2>5, <4>2, <4>4
      <4>6. mus[mix_streams[j]].music_halted => k >= i
        BY <1>6, <4>1, <4>2
      <4> QED
        BY <1>6, <4>5, <4>6
    <3>2. mx' = [pc |-> "clean", i |-> i]
      BY <1>2, <2>1
    <3>3. mx'.pc = "clean" /\ mx'.i = i
      BY <3>2
    <3> QED
      BY <2>1, <2>4, <3>1, <3>3 DEF QueueSound, Once
  <2>12. StreamOnly'
    <3>1. ASSUME NEW x \in Music, x # m
          PROVE  /\ mus'[x].is_multimusic =>
                      InPlayQueue(x)' /\ mus'[x].playing /\ ~mus'[x].music_halted
                 /\ mus'[x].music_active => mus'[x].is_multimusic
                 /\ mus'[x].free_on_stop => InPlayQueue(x)' \/ Releases(x)'
      BY <1>1, <2>4, <2>5, <2>7, <2>9, <3>1 DEF OnePlayerOnly, StreamOnly, Releases
    <3>2. ~mus[m].is_multimusic /\ ~mus[m].music_active
      BY <1>1, <1>8 DEF OnePlayerOnly, StreamOnly
    <3>3. ~mus'[m].is_multimusic /\ ~mus'[m].music_active /\ ~mus'[m].free_on_stop
      BY <1>1, <2>1, <3>2, GoneFields DEF Typing
    <3> QED
      BY <3>1, <3>3 DEF StreamOnly, Releases
  <2> QED
    BY <2>6, <2>9, <2>10, <2>11, <2>12 DEF Sound, AppSound, OnePlayerOnly
<1> QED
  BY <1>7, <1>8

-----------------------------------------------------------------------------
(* The calls of the application.                                            *)

LEMMA LoadSound ==
    ASSUME Sound, NEW m \in Music, Mix_LoadMUS(m)
    PROVE  Sound'
<1>1. Typing /\ OnePlayerOnly /\ Releasing
  BY DEF Sound
<1>2. AppSound' /\ \A x : ~Releases(x) /\ ~Releases(x)'
  BY <1>1, AppFree DEF Mix_LoadMUS, May, Typing
<1>3. ~Plays(m)
  BY <1>1, MusicAssumption
     DEF Mix_LoadMUS, OnePlayerOnly, PlayerOnly, QueueSound, Plays, InPlayQueue
<1>4. Fresh(music_volume) \in Piece /\ Measured(Fresh(music_volume))
  BY <1>1, FreshPiece DEF Typing
<1>5. /\ ~Fresh(music_volume).is_multimusic /\ ~Fresh(music_volume).music_active
      /\ ~Fresh(music_volume).free_on_stop
  BY DEF Fresh
<1>6. mus' = [mus EXCEPT ![m] = Fresh(music_volume)]
  BY DEF Mix_LoadMUS
<1> DEFINE s == Fresh(music_volume)
<1> HIDE DEF s
<1>7. s \in Piece /\ Measured(s) /\ ~s.is_multimusic /\ ~s.music_active /\ ~s.free_on_stop
      /\ mus' = [mus EXCEPT ![m] = s]
  BY <1>4, <1>5, <1>6 DEF s
<1>8. OnePlayerOnly'
  BY <1>1, <1>2, <1>3, <1>7, Cleared DEF Mix_LoadMUS
<1>9. Typing'
  BY <1>1, <1>2, <1>7, Updated DEF Typing, Mix_LoadMUS, AppSound
<1> QED
  BY <1>2, <1>8, <1>9 DEF Sound, AppSound

\* music_internal_play halts what plays, which may be the music to be played.
LEMMA PlaySound ==
    ASSUME Sound, NEW m \in Music, NEW n \in Nat, NEW endless \in BOOLEAN,
           NEW ok \in BOOLEAN, Mix_FadeInMusicPos(m, n, endless, ok)
    PROVE  Sound'
<1>1. Typing /\ OnePlayerOnly /\ Releasing /\ Locked /\ AtRest
  BY SoundAtRest DEF Sound, Mix_FadeInMusicPos
<1>2. AppSound' /\ \A x : ~Releases(x) /\ ~Releases(x)'
  BY <1>1, AppFree DEF Mix_FadeInMusicPos, May, Typing
<1>3. PICK old \in Music \cup {NoMusic} : old = music_playing
  BY <1>1 DEF Typing
<1> DEFINE f == FadedIn(mus[m], n)
           b == IF old = m THEN Halted(f) ELSE f
           s == Started(b, music_volume, endless, ok)
           h == Halted(mus[old])
<1>4. f \in Piece /\ Measured(f) /\ Same(mus[m], f)
  BY <1>1, FadedInSame DEF Typing
<1> DEFINE g == [mus EXCEPT ![m] = f]
           a == IF old = NoMusic THEN g ELSE [g EXCEPT ![old] = Halted(g[old])]
<1>5. mus' = [a EXCEPT ![m] = Started(a[m], music_volume, endless, ok)]
  BY <1>3 DEF Mix_FadeInMusicPos
<1> HIDE DEF f
<1>6. /\ mus'[m] = s
      /\ old \notin {NoMusic, m} => mus'[old] = h
      /\ \A x \in Music \ {m, old} : mus'[x] = mus[x]
      /\ DOMAIN mus' = Music
  BY <1>1, <1>5, MusicAssumption DEF Typing
<1>7. /\ ~mus[m].is_multimusic /\ mus[m].loaded /\ ~mus[m].music_active
      /\ ~mus[m].free_on_stop /\ ~Holds(mix_streams, m)
  BY <1>1, <1>2, QueueOfMusic DEF AtRest, Mix_FadeInMusicPos, Nameable, Accepted
<1>8. /\ b \in Piece /\ Measured(b) /\ b.loaded
      /\ ~b.is_multimusic /\ ~b.music_active /\ ~b.free_on_stop
  <2>1. f.loaded /\ ~f.is_multimusic /\ ~f.music_active /\ ~f.free_on_stop
    BY <1>4, <1>7 DEF Same, Stays
  <2>2. Halted(f) \in Piece /\ Measured(Halted(f)) /\ Halts(f, Halted(f))
    BY <1>4, HaltedHalts
  <2>3. /\ Halted(f).loaded /\ ~Halted(f).is_multimusic /\ ~Halted(f).music_active
        /\ ~Halted(f).free_on_stop
    BY <2>1, <2>2 DEF Halts
  <2> QED
    BY <1>4, <2>1, <2>2, <2>3
<1> HIDE DEF b
<1>9. s \in Piece /\ Measured(s) /\ s.loaded /\ s.playing = ok
      /\ ~s.is_multimusic /\ ~s.music_active /\ ~s.free_on_stop
  <2> DEFINE v == music_volume
             q == Started(b, v, endless, ok)
  <2>1. b \in Piece /\ Measured(b) /\ v \in Int /\ ok \in BOOLEAN /\ endless \in BOOLEAN
    BY <1>1, <1>8 DEF Typing
  <2> HIDE DEF v
  <2>2. q \in Piece /\ Measured(q)
    BY <2>1, StartedFields
  <2>3. q.loaded = b.loaded
    BY <2>1, StartedFields
  <2>4. q.playing = ok
    BY <2>1, StartedFields
  <2>5. q.is_multimusic = b.is_multimusic
    BY <2>1, StartedFields
  <2>6. q.music_active = b.music_active
    BY <2>1, StartedFields
  <2>7. q.free_on_stop = b.free_on_stop
    BY <2>1, StartedFields
  <2> HIDE DEF q
  <2>8. q \in Piece /\ Measured(q) /\ q.loaded /\ q.playing = ok
        /\ ~q.is_multimusic /\ ~q.music_active /\ ~q.free_on_stop
    BY <1>8, <2>2, <2>3, <2>4, <2>5, <2>6, <2>7
  <2> QED
    BY <2>8 DEF q, v
<1> HIDE DEF s
<1>10. old \notin {NoMusic, m} =>
         /\ old \in Music /\ h \in Piece /\ Measured(h) /\ ~h.is_multimusic
         /\ ~h.music_active /\ ~h.free_on_stop /\ ~Holds(mix_streams, old)
  <2> SUFFICES ASSUME old \notin {NoMusic, m}
               PROVE /\ old \in Music /\ h \in Piece /\ Measured(h) /\ ~h.is_multimusic
                     /\ ~h.music_active /\ ~h.free_on_stop /\ ~Holds(mix_streams, old)
    OBVIOUS
  <2>1. old \in Music /\ mus[old] \in Piece
    BY <1>1, <1>3 DEF Typing
  <2>2. h \in Piece /\ Measured(h) /\ Halts(mus[old], h)
    BY <2>1, HaltedHalts
  <2> HIDE DEF h
  <2>3. ~mus[old].is_multimusic
    BY <1>1, <1>3, <2>1 DEF AtRest
  <2>4. ~mus[old].music_active /\ ~mus[old].free_on_stop /\ ~Holds(mix_streams, old)
    BY <1>1, <1>2, <2>1, <2>3 DEF AtRest
  <2> QED
    BY <2>1, <2>2, <2>4 DEF Halts
<1> HIDE DEF h
<1>11. \A x \in Music : /\ mus'[x] \in Piece /\ Measured(mus'[x])
                        /\ ~Holds(mix_streams, x) => x \in {m, old} \/ mus'[x] = mus[x]
                        /\ Holds(mix_streams, x) => mus'[x] = mus[x]
                        /\ x \in {m, old} => /\ ~mus'[x].is_multimusic
                                             /\ ~mus'[x].music_active
                                             /\ ~mus'[x].free_on_stop
                                             /\ ~Holds(mix_streams, x)
  BY <1>1, <1>6, <1>7, <1>9, <1>10, MusicAssumption DEF Typing
<1>12. /\ music_playing' = (IF ok THEN m ELSE NoMusic) /\ music_active' = ok
       /\ UNCHANGED <<music_volume, mix_streams, mx, app>>
  BY DEF Mix_FadeInMusicPos
<1>13. Typing'
  <2>1. DOMAIN mus' = Music
    BY <1>6
  <2>2. mus' \in [Music -> Piece]
    BY <1>1, <1>5, <1>11, <2>1 DEF Typing
  <2> QED
    BY <1>1, <1>2, <1>11, <1>12, <2>2 DEF Typing, AppSound
<1>14. AtRest'
  <2>1. \A x \in Music :
           /\ Holds(mix_streams', x) <=> mus'[x].is_multimusic
           /\ mus'[x].is_multimusic =>
                mus'[x].loaded /\ mus'[x].playing /\ ~mus'[x].music_halted
           /\ mus'[x].music_active => mus'[x].is_multimusic
           /\ mus'[x].free_on_stop => mus'[x].is_multimusic
    BY <1>1, <1>2, <1>11, <1>12 DEF AtRest
  <2>2. music_playing' # NoMusic => /\ mus'[music_playing'].loaded
                                    /\ mus'[music_playing'].playing
                                    /\ ~mus'[music_playing'].is_multimusic
    BY <1>6, <1>9, <1>12
  <2>3. Once(mix_streams')
    BY <1>1, <1>12 DEF AtRest
  <2> QED
    BY <2>1, <2>2, <2>3 DEF AtRest
<1>15. (Locked \/ mx.pc = "streams" \/ mx.pc = "clean")'
  BY <1>1, <1>12 DEF Locked
<1>16. OnePlayerOnly'
  BY <1>13, <1>14, <1>15, RestSound, PTL
<1> QED
  BY <1>2, <1>13, <1>16 DEF Sound, AppSound

LEMMA FreeSound ==
    ASSUME Sound, NEW m \in Music, Mix_FreeMusic(m)
    PROVE  Sound'
<1>1. Typing /\ OnePlayerOnly /\ Locked /\ AtRest
  BY SoundAtRest DEF Sound, Mix_FreeMusic
<1>2. NothingReleased
  BY DEF Mix_FreeMusic, May, Free, NothingReleased, Releases
<1>3. UNCHANGED <<music_active, music_volume, mx>>
  BY DEF Mix_FreeMusic
<1> DEFINE multi == mus[m].is_multimusic
<1>4. CASE /\ app' = <<Step("release", m, 0)>> /\ UNCHANGED <<mus, music_playing, mix_streams>>
           /\ m # music_playing /\ ~multi
  <2>1. ~Plays(m)'
    BY <1>1, <1>4, QueueOfMusic DEF AtRest, Plays, InPlayQueue
  <2>2. Step("release", m, 0) \in StepType /\ Step("release", m, 0).m = m
        /\ Step("release", m, 0).op = "release"
    BY StepTyped DEF Ops, Step
  <2> DEFINE a == Step("release", m, 0)
  <2> HIDE DEF a
  <2>3. a \in StepType /\ a.m = m /\ a.op = "release" /\ app' = <<a>>
    BY <1>4, <2>2 DEF a
  <2>4. AppSound'
    BY <2>1, <2>3, AppWaits
  <2>5. Typing' /\ OnePlayerOnly'
    BY <1>1, <1>2, <1>3, <1>4, <2>4, UnmovedTyped DEF NothingReleased, AppSound, Typing
  <2> QED
    BY <2>4, <2>5 DEF Sound, AppSound
<1>5. CASE /\ app' = <<Step("wait", m, IF multi THEN 1 ELSE 0)>>
           /\ UNCHANGED <<mus, music_playing, mix_streams>>
  <2> DEFINE n == IF multi THEN 1 ELSE 0
             a == Step("wait", m, n)
  <2>1. n \in Nat
    OBVIOUS
  <2>2. a \in StepType /\ a.m = m /\ a.op = "wait" /\ app' = <<a>>
    <3> HIDE DEF n
    <3>1. a \in StepType
      BY <2>1, StepTyped DEF Ops
    <3>2. a.m = m /\ a.op = "wait"
      BY DEF Step
    <3> QED
      BY <1>5, <3>1, <3>2 DEF n
  <2> HIDE DEF a
  <2>3. AppSound'
    BY <2>2, AppWaits
  <2>4. Typing' /\ OnePlayerOnly'
    BY <1>1, <1>2, <1>3, <1>5, <2>3, UnmovedTyped DEF NothingReleased, AppSound, Typing
  <2> QED
    BY <2>3, <2>4 DEF Sound, AppSound
<1>6. CASE Stop(m, FALSE) /\ app' = <<Step("release", m, 0)>>
  BY <1>1, <1>2, <1>3, <1>6, StopSound DEF Sound
<1> QED
  BY <1>4, <1>5, <1>6, Zenon DEF Mix_FreeMusic

\* What a call does under the lock, when it is made and done at once.
LEMMA CallSound ==
    ASSUME Sound, Free, app' = app,
           Typing /\ OnePlayerOnly /\ NothingReleased /\ app' \in Seq(StepType)
             => Typing' /\ OnePlayerOnly'
    PROVE  Sound'
<1>1. AppSound' /\ NothingReleased
  BY AppFree DEF Sound, Typing, NothingReleased
<1> QED
  BY <1>1 DEF Sound, AppSound

LEMMA AdjustSound ==
    ASSUME Sound, NEW m \in Music \cup {NoMusic}, NEW n \in Nat, NEW free \in BOOLEAN,
           \/ Mix_HaltMusicStream(m) \/ Mix_PauseMusicStream(m) \/ Mix_ResumeMusicStream(m)
           \/ m \in Music /\ (Mix_FadeOutMusicStream(m, n) \/ Mix_SetFreeOnStop(m, free))
    PROVE  Sound'
<1> USE DEF May
<1>1. CASE Mix_HaltMusicStream(m)
  BY <1>1, CallSound, HaltSound DEF Mix_HaltMusicStream
<1>2. CASE Mix_PauseMusicStream(m)
  BY <1>2, CallSound, PauseSound DEF Mix_PauseMusicStream
<1>3. CASE Mix_ResumeMusicStream(m)
  BY <1>3, CallSound, PauseSound DEF Mix_ResumeMusicStream
<1>4. CASE m \in Music /\ Mix_FadeOutMusicStream(m, n)
  BY <1>4, CallSound, FadeOutSound DEF Mix_FadeOutMusicStream
<1>5. CASE m \in Music /\ Mix_SetFreeOnStop(m, free)
  <2> DEFINE s == [mus[m] EXCEPT !.free_on_stop = free]
  <2>1. /\ Free /\ app' = app /\ mus' = [mus EXCEPT ![m] = s] /\ mus[m].is_multimusic
        /\ UNCHANGED <<music_playing, music_active, music_volume, mix_streams, mx, app>>
    BY <1>5 DEF Mix_SetFreeOnStop
  <2>2. mus[m] \in Piece /\ Measured(mus[m])
    BY <1>5 DEF Sound, Typing
  <2>3. s \in Piece /\ Measured(s) /\ Stays(mus[m], s)
    BY <2>2 DEF Piece, Measured, Stays
  <2> HIDE DEF s
  <2> QED
    BY <1>5, <2>1, <2>3, CallSound, AdjustedTyped DEF NothingReleased, Typing
<1> QED
  BY <1>1, <1>2, <1>3, <1>4, <1>5

LEMMA PlayStreamSound ==
    ASSUME Sound, NEW m \in Music, NEW n \in Nat, NEW endless \in BOOLEAN,
           NEW ok \in BOOLEAN, Mix_FadeInMusicStreamPos(m, n, endless, ok)
    PROVE  Sound'
<1>1. FadeInStream(m, n, endless, ok)
  BY DEF Mix_FadeInMusicStreamPos, RefuseStream, Sound
<1> QED
  BY <1>1, CallSound, FadeInSound DEF Mix_FadeInMusicStreamPos, May

\* A call that is a list of steps is made: nothing has moved yet.
LEMMA BeginsSound ==
    ASSUME Sound, Free, UNCHANGED <<mus, music_playing, music_active, mix_streams, mx>>,
           music_volume' \in Int, AppSound'
    PROVE  Sound'
<1>1. \A m : ~Releases(m)
  BY DEF Releases
<1> QED
  BY <1>1, UnmovedTyped DEF Sound, AppSound, Typing

LEMMA StepsSound ==
    ASSUME Sound, NEW m \in Music \cup {NoMusic}, NEW n \in Nat, NEW v \in Nat,
           NEW op \in {"pauseeach", "resumeeach"},
           \/ Mix_FadeOutMusic(n) \/ Mix_VolumeMusicStream(m, v) \/ Mix_SetMusicCMD
           \/ Mix_PauseMusicStreamAll(op)
    PROVE  Sound'
<1>1. /\ music_playing \in Music \cup {NoMusic} /\ NoMusic \in Music \cup {NoMusic}
      /\ music_volume \in Int
  BY DEF Sound, Typing
<1>2. CASE Mix_FadeOutMusic(n)
  <2> DEFINE a == Step("fadeout", music_playing, n)
  <2>1. a \in StepType /\ a.op = "fadeout"
    BY <1>1, StepTyped DEF Ops, Step
  <2> HIDE DEF a
  <2>2. AppSound'
    BY <1>2, <2>1, AppBegins DEF Mix_FadeOutMusic, a, EachOps
  <2> QED
    BY <1>1, <1>2, <2>2, BeginsSound DEF Mix_FadeOutMusic, May
<1>3. CASE Mix_VolumeMusicStream(m, v)
  <2> DEFINE a == Step("volume", m, v)
  <2>1. a \in StepType /\ a.op = "volume"
    BY <1>1, StepTyped DEF Ops, Step
  <2> HIDE DEF a
  <2>2. AppSound'
    BY <1>3, <2>1, AppBegins DEF Mix_VolumeMusicStream, a, EachOps
  <2> QED
    BY <1>1, <1>3, <2>2, BeginsSound DEF Mix_VolumeMusicStream, May
<1>4. CASE Mix_SetMusicCMD
  <2> DEFINE a == Step("halt", music_playing, 0)
             b == Step("halteach", NoMusic, 1)
  <2>1. a \in StepType /\ a.op = "halt"
    BY <1>1, StepTyped DEF Ops, Step
  <2>2. b \in StepType /\ b.op = "halteach" /\ b.n = 1
    BY <1>1, StepTyped DEF Ops, Step
  <2> HIDE DEF a, b
  <2>3. app' = <<a, b>>
    BY <1>4 DEF Mix_SetMusicCMD, a, b
  <2>4. AppSound'
    BY <2>1, <2>2, <2>3, AppBegins DEF EachOps
  <2> QED
    BY <1>1, <1>4, <2>4, BeginsSound DEF Mix_SetMusicCMD, May
<1>5. CASE Mix_PauseMusicStreamAll(op)
  <2> DEFINE a == Step(op, NoMusic, 1)
  <2>1. a \in StepType /\ a.op = op /\ a.n = 1
    BY <1>1, StepTyped DEF Ops, Step
  <2> HIDE DEF a
  <2>2. AppSound'
    BY <1>5, <2>1, AppBegins DEF Mix_PauseMusicStreamAll, a, EachOps
  <2> QED
    BY <1>1, <1>5, <2>2, BeginsSound DEF Mix_PauseMusicStreamAll, May
<1> QED
  BY <1>2, <1>3, <1>4, <1>5

\* The cross-fade marks the old music outside the lock: it must be a stream.
LEMMA CrossFadeSound ==
    ASSUME Sound, "plays" \in Courtesies, NEW old \in Music, NEW new \in Music,
           NEW n \in Nat, NEW endless \in BOOLEAN, NEW free \in BOOLEAN,
           Mix_CrossFadeMusicStreamPos(old, new, n, endless, free)
    PROVE  Sound'
<1> DEFINE a == Step("fadeout", old, n)
           b == [Step("fadein", new, n) EXCEPT !.endless = endless]
           s == [mus[old] EXCEPT !.free_on_stop = free]
<1>1. Typing /\ OnePlayerOnly /\ Releasing
  BY DEF Sound
<1>2. /\ a \in StepType /\ a.op = "fadeout"
      /\ b \in StepType /\ b.op = "fadein" /\ b.m = new
  BY DEF Step, StepType, Ops
<1>3. mus[old] \in Piece /\ Measured(mus[old])
  BY <1>1 DEF Typing
<1>4. s \in Piece /\ Measured(s) /\ Stays(mus[old], s) /\ s.music_active = mus[old].music_active
  BY <1>3 DEF Piece, Measured, Stays
<1>5. mus[old].is_multimusic
  BY DEF Mix_CrossFadeMusicStreamPos, AptCrossFade
<1>6. /\ mus' = [mus EXCEPT ![old] = s] /\ app' = <<a, b>> /\ Free
      /\ UNCHANGED <<music_playing, music_active, music_volume, mix_streams, mx>>
  BY DEF Mix_CrossFadeMusicStreamPos, May
<1> HIDE DEF a, b, s
<1>7. AppSound' /\ \A m : ~Releases(m)
  BY <1>2, <1>6, AppBegins DEF EachOps, Releases
<1> QED
  BY <1>1, <1>4, <1>5, <1>6, <1>7, AdjustedTyped DEF Sound, AppSound, Typing

-----------------------------------------------------------------------------
(* What is left of a call.                                                  *)

\* The step is taken and the call goes on with the next.
LEMMA GoesOnSound ==
    ASSUME Sound, ~Free, Head(app).op # "release", app' = Tail(app),
           Typing /\ OnePlayerOnly /\ NothingReleased /\ app' \in Seq(StepType)
             => Typing' /\ OnePlayerOnly'
    PROVE  Sound'
<1>1. AppSound'
  BY AppTail DEF Sound, Typing
<1>2. NothingReleased
  BY DEF NothingReleased, Releases
<1> QED
  BY <1>1, <1>2 DEF Sound, AppSound

LEMMA FirstStep ==
    ASSUME Sound, ~Free
    PROVE  /\ Head(app) \in StepType
           /\ Head(app).op \in EachOps => Head(app).n > 0
           /\ Head(app).op \in {"release", "wait"} => Len(app) = 1
           /\ Head(app).op \in {"release", "wait", "fadein"} => Head(app).m \in Music
           /\ Head(app).op = "release" => ~Plays(Head(app).m)
<1>1. app \in Seq(StepType) /\ app # <<>>
  BY DEF Sound, Typing, Free
<1>2. 1 \in DOMAIN app /\ Head(app) = app[1] /\ Head(app) \in StepType
  BY <1>1
<1> QED
  BY <1>2 DEF Sound, Releasing

LEMMA StepHaltSound ==
    ASSUME Sound, StepHalt
    PROVE  Sound'
<1>1. PICK a \in StepType : a = Head(app)
  BY FirstStep DEF StepHalt
<1>2. a.m \in Music \cup {NoMusic} /\ a.n \in Nat
  BY DEF StepType
<1>3. /\ Locked /\ (Halt(a.m) \/ FadeOut(a.m, a.n))
      /\ ~Free /\ Head(app).op # "release" /\ app' = Tail(app)
      /\ UNCHANGED <<music_active, music_volume, mx>>
  BY <1>1 DEF StepHalt
<1> QED
  BY <1>2, <1>3, GoesOnSound, HaltSound, FadeOutSound

LEMMA StepFadeInSound ==
    ASSUME Sound, StepFadeIn
    PROVE  Sound'
<1>1. PICK a \in StepType : a = Head(app)
  BY FirstStep DEF StepFadeIn
<1>2. a.m \in Music /\ a.n \in Nat /\ a.endless \in BOOLEAN
  BY <1>1, FirstStep DEF StepType, StepFadeIn
<1>3. PICK ok \in BOOLEAN : FadeInStream(a.m, a.n, a.endless, ok)
  BY <1>1, ChoiceAssumption DEF StepFadeIn, RefuseStream, Sound
<1>4. /\ Locked /\ ~Free /\ Head(app).op # "release" /\ app' = Tail(app)
      /\ UNCHANGED <<music_playing, music_active, music_volume, mx>>
  BY <1>1 DEF StepFadeIn
<1> QED
  BY <1>2, <1>3, <1>4, GoesOnSound, FadeInSound

LEMMA StepVolumeSound ==
    ASSUME Sound, StepVolume
    PROVE  Sound'
<1>1. PICK a \in StepType : a = Head(app)
  BY FirstStep DEF StepVolume
<1>2. /\ ~Free /\ Head(app).op # "release" /\ app' = Tail(app)
      /\ UNCHANGED <<music_playing, music_active, music_volume, mix_streams, mx>>
  BY <1>1 DEF StepVolume
<1>3. PICK t \in Music \cup {NoMusic} : t = Target(a.m)
  BY <1>1 DEF Sound, Typing, Target, StepType
<1>4. CASE mus' = mus
  BY <1>2, <1>4, GoesOnSound, UnmovedTyped DEF NothingReleased, Typing
<1>5. CASE mus' # mus
  <2>1. t \in Music /\ mus' = [mus EXCEPT ![t].music_volume = a.n, ![t].heard = a.n]
    BY <1>1, <1>3, <1>5 DEF StepVolume
  <2> DEFINE v == a.n
             s == [mus[t] EXCEPT !.music_volume = v, !.heard = v]
  <2>2. mus[t] \in Piece /\ Measured(mus[t]) /\ v \in Int
    BY <2>1 DEF Sound, Typing, StepType
  <2>3. mus' = [mus EXCEPT ![t] = s]
    BY <2>1, <2>2 DEF Sound, Typing
  <2> HIDE DEF v
  <2>4. s \in Piece
    BY <2>2, Zenon DEF Piece
  <2>5. Measured(s) /\ Same(mus[t], s)
    BY <2>2 DEF Measured, Same, Stays, Piece
  <2> HIDE DEF s
  <2>6. mus[t].music_active => mus[t].is_multimusic
    BY <2>1 DEF Sound, OnePlayerOnly, StreamOnly
  <2> QED
    BY <1>2, <2>1, <2>3, <2>4, <2>5, <2>6, GoesOnSound, AdjustedTyped
       DEF NothingReleased, Typing, Same
<1> QED
  BY <1>4, <1>5

LEMMA StepPauseSound ==
    ASSUME Sound, StepPause
    PROVE  Sound'
<1>1. PICK a \in StepType : a = Head(app)
  BY FirstStep DEF StepPause
<1>2. a.m \in Music \cup {NoMusic}
  BY DEF StepType
<1>3. /\ Pause(a.m) \/ Resume(a.m)
      /\ ~Free /\ Head(app).op # "release" /\ app' = Tail(app)
      /\ UNCHANGED <<music_playing, music_volume, mix_streams, mx>>
  BY <1>1 DEF StepPause
<1> QED
  BY <1>2, <1>3, GoesOnSound, PauseSound

LEMMA StepEachSound ==
    ASSUME Sound, StepEach
    PROVE  Sound'
<1>1. PICK s \in StepType : s = Head(app)
  BY FirstStep DEF StepEach
<1>2. /\ ~Free /\ s.op \in EachOps /\ s.n \in Nat /\ s.n > 0
      /\ UNCHANGED <<mus, music_playing, music_active, music_volume, mix_streams, mx>>
  BY <1>1, FirstStep DEF StepEach, EachOp, EachOps, StepType
<1>3. CASE app' = Tail(app)
  <2>1. Head(app).op # "release"
    BY <1>1, <1>2 DEF EachOps
  <2> QED
    BY <1>2, <1>3, <2>1, GoesOnSound, UnmovedTyped DEF NothingReleased, Typing
<1>4. CASE /\ s.n <= Len(mix_streams)
           /\ app' = <<Step(EachOp[s.op], mix_streams[s.n], 0), [s EXCEPT !.n = @ + 1]>>
  <2> DEFINE op == EachOp[s.op]
             m == mix_streams[s.n]
             a == Step(op, m, 0)
             b == [s EXCEPT !.n = @ + 1]
  <2>1. op \in {"halt", "pause", "resume"}
    BY <1>2 DEF EachOp, EachOps
  <2>2. m \in Music
    BY <1>2, <1>4 DEF Sound, Typing
  <2> HIDE DEF op, m
  <2>3. a \in StepType /\ a.op = op
    BY <2>1, <2>2, StepTyped DEF Ops, Step
  <2>4. b \in StepType /\ b.op = s.op /\ b.n = s.n + 1
    BY DEF StepType
  <2>5. app' = <<a, b>>
    BY <1>4 DEF op, m
  <2> HIDE DEF a, b
  <2>6. AppSound'
    BY <1>2, <2>1, <2>3, <2>4, <2>5, AppBegins DEF EachOps
  <2>7. \A x : ~Releases(x)
    BY <1>1, <1>2 DEF Releases, EachOps
  <2> QED
    BY <1>2, <2>6, <2>7, UnmovedTyped DEF Sound, AppSound, Typing
<1>5. Len(mix_streams) \in Nat /\ (s.n > Len(mix_streams) \/ s.n <= Len(mix_streams))
  BY <1>2 DEF Sound, Typing
<1>6. app' = IF s.n > Len(mix_streams) THEN Tail(app)
             ELSE <<Step(EachOp[s.op], mix_streams[s.n], 0), [s EXCEPT !.n = @ + 1]>>
  BY <1>1, Zenon DEF StepEach
<1> QED
  BY <1>3, <1>4, <1>5, <1>6

LEMMA FreeAgainSound ==
    ASSUME Sound, FreeAgain
    PROVE  Sound'
<1>1. Head(app).m \in Music /\ Head(app).op = "wait" /\ ~Free /\ Locked
  BY FirstStep DEF FreeAgain
<1>2. PICK m \in Music : m = Head(app).m
  BY <1>1
<1>3. /\ Stop(m, TRUE) /\ app' = <<Step("release", m, 0)>>
      /\ UNCHANGED <<music_active, music_volume, mx>>
  BY <1>2 DEF FreeAgain
<1>4. NothingReleased
  BY <1>1 DEF NothingReleased, Releases
<1> QED
  BY <1>1, <1>3, <1>4, StopSound DEF Sound

LEMMA FreeReleaseSound ==
    ASSUME Sound, FreeRelease
    PROVE  Sound'
<1>1. Head(app).m \in Music /\ ~Plays(Head(app).m)
  BY FirstStep DEF FreeRelease
<1>2. PICK m \in Music : m = Head(app).m
  BY <1>1
<1>3. /\ mus' = [mus EXCEPT ![m] = Gone] /\ app' = Tail(app) /\ ~Free
      /\ UNCHANGED <<music_playing, music_active, music_volume, mix_streams, mx>>
  BY <1>2 DEF FreeRelease
<1>4. AppSound'
  BY <1>3, AppTail DEF Sound, Typing
<1>5. \A x : Releases(x) => x = m
  BY <1>2 DEF Releases
<1>6. Gone \in Piece /\ Measured(Gone)
  BY FreshPiece, FadeAssumption
<1>7. OnePlayerOnly'
  <2> DEFINE g == Gone
  <2>1. g \in Piece /\ ~g.is_multimusic /\ ~g.music_active /\ ~g.free_on_stop
        /\ mus' = [mus EXCEPT ![m] = g]
    BY <1>3, <1>6, GoneFields
  <2> HIDE DEF g
  <2>2. \A x : Releases(x) => x = m \/ Releases(x)'
    BY <1>5
  <2> QED
    BY <1>1, <1>2, <1>3, <2>1, <2>2, Cleared DEF Sound
<1>8. Typing'
  BY <1>3, <1>4, <1>6, Updated DEF Sound, Typing, AppSound
<1> QED
  BY <1>4, <1>7, <1>8 DEF Sound, AppSound

-----------------------------------------------------------------------------
(* The theorem.                                                             *)

LEMMA SoundInit ==
    ASSUME Init, ~OutOfMemory
    PROVE  Sound
<1>1. /\ mus = [m \in Music |-> Gone] /\ music_playing = NoMusic /\ music_active = TRUE
      /\ music_volume = MIX_MAX_VOLUME /\ mix_streams = <<>> /\ mx = MixIdle /\ app = <<>>
  BY DEF Init
<1>2. Typing
  BY <1>1, FreshPiece, FadeAssumption DEF Typing, MixerState
<1>3. Releasing
  BY <1>1 DEF Releasing
<1>4. OnePlayerOnly
  <2>1. \A m \in Music : /\ ~mus[m].is_multimusic /\ ~mus[m].music_active
                         /\ ~mus[m].free_on_stop
    BY <1>1, GoneFields
  <2> QED
    BY <1>1, <2>1 DEF OnePlayerOnly, PlayerOnly, QueueSound, StreamOnly
<1> QED
  BY <1>2, <1>3, <1>4 DEF Sound

LEMMA SoundStep ==
    ASSUME Sound, [Next]_vars, "plays" \in Courtesies \/ "CrossFade" \notin Calls
    PROVE  Sound'
<1>1. /\ Fades \subseteq Nat /\ Volumes \subseteq Nat
      /\ PlayCan \subseteq BOOLEAN /\ FreeOld \subseteq BOOLEAN
  BY FadeAssumption, ChoiceAssumption
<1>2. CASE AppStart
  <2>1. CASE \E m \in Music : Mix_LoadMUS(m)
    BY <2>1, LoadSound
  <2>2. CASE \E m \in Music : Mix_FreeMusic(m)
    BY <2>2, FreeSound
  <2>3. CASE \E m \in Music, n \in Fades, endless \in BOOLEAN, ok \in PlayCan :
               Mix_FadeInMusicPos(m, n, endless, ok)
    BY <1>1, <2>3, PlaySound
  <2>4. CASE \E m \in Music, n \in Fades, endless \in BOOLEAN, ok \in PlayCan :
               Mix_FadeInMusicStreamPos(m, n, endless, ok)
    BY <1>1, <2>4, PlayStreamSound
  <2>5. CASE \E old, new \in Music, n \in Fades, endless \in BOOLEAN, free \in FreeOld :
               Mix_CrossFadeMusicStreamPos(old, new, n, endless, free)
    <3>1. "plays" \in Courtesies
      BY <2>5 DEF Mix_CrossFadeMusicStreamPos, May
    <3> QED
      BY <1>1, <2>5, <3>1, CrossFadeSound
  <2> QED
    BY <1>2, <2>1, <2>2, <2>3, <2>4, <2>5 DEF AppStart
<1>3. CASE AppAdjust
  <2>1. CASE \E m \in Music \cup {NoMusic} :
               Mix_HaltMusicStream(m) \/ Mix_PauseMusicStream(m) \/ Mix_ResumeMusicStream(m)
    BY <2>1, AdjustSound
  <2>2. CASE \E m \in Music, n \in Fades : Mix_FadeOutMusicStream(m, n)
    BY <1>1, <2>2, AdjustSound
  <2>3. CASE \E m \in Music, free \in BOOLEAN : Mix_SetFreeOnStop(m, free)
    BY <2>3, AdjustSound
  <2>4. CASE \E n \in Fades : Mix_FadeOutMusic(n)
    BY <1>1, <2>4, StepsSound
  <2>5. CASE \E m \in Music \cup {NoMusic}, v \in Volumes : Mix_VolumeMusicStream(m, v)
    BY <1>1, <2>5, StepsSound
  <2>6. CASE Mix_SetMusicCMD
    BY <1>1, <2>6, StepsSound
  <2>7. CASE \E op \in {"pauseeach", "resumeeach"} : Mix_PauseMusicStreamAll(op)
    BY <1>1, <2>7, StepsSound
  <2> QED
    BY <1>3, <2>1, <2>2, <2>3, <2>4, <2>5, <2>6, <2>7 DEF AppAdjust
<1>4. CASE AppContinue
  BY <1>4, FreeAgainSound, FreeReleaseSound, StepHaltSound, StepFadeInSound,
     StepVolumeSound, StepPauseSound, StepEachSound DEF AppContinue
<1>5. CASE music_mixer
  BY <1>5, MixerSound
<1>6. CASE MixStep
  BY <1>6, MixStreamSound, StreamsDoneSound, CleanStreamSound DEF MixStep
<1>7. CASE UNCHANGED vars
  <2>1. Typing' /\ AppSound'
    BY <1>7, MixerApp DEF vars, Sound, Typing, AppSound, Plays, InPlayQueue
  <2>2. OnePlayerOnly'
    BY <1>7, Unmoved DEF vars, Sound, Releases, Free
  <2> QED
    BY <2>1, <2>2 DEF Sound, AppSound
<1> QED
  BY <1>2, <1>3, <1>4, <1>5, <1>6, <1>7 DEF Next

\* However the calls of the application interleave with the mixers, each piece of
\* music is on one player at most, in a queue that holds it once and only while its
\* memory is there (mix_streams[], music_playing and the flags of Mix_Music agree).
\* Only a cross-fade may not name old music that is no stream, and the queue gets the
\* memory for its first stream: without it, music that _Mix_MultiMusic_Add refused
\* says that it is a stream though it is in no queue (the run MusicAll has such states).
THEOREM OnePlayer ==
    ASSUME "plays" \in Courtesies \/ "CrossFade" \notin Calls, ~OutOfMemory
    PROVE  Spec => []OnePlayerEach
<1>1. Init => Sound
  BY SoundInit
<1>2. Sound /\ [Next]_vars => Sound'
  BY SoundStep
<1>3. Sound => OnePlayerEach
  BY DEF Sound, OnePlayerOnly, OnePlayerEach, PlayerOnly, PlayerSound, StreamOnly, StreamSound
<1> QED
  BY <1>1, <1>2, <1>3, PTL DEF Spec

-----------------------------------------------------------------------------
(***************************************************************************)
(* What the hooks and the volumes of the music player promise.             *)
(*                                                                         *)
(* Whatever the application does, every end of music is reported when it   *)
(* leaves its player.  Two facts carry this besides Sound: the mixer       *)
(* reports what it halts before it cleans up, and a free that waits comes  *)
(* back only to music whose end the mixer has reported.                    *)
(*                                                                         *)
(* An application that takes care can rely on more: Steady says what the   *)
(* players owe and at what volume they are heard, and what a call that is  *)
(* half done may still count on.                                           *)
(***************************************************************************)

\* What the mixer halted and has not cleaned up is reported.
HaltedReported ==
    \A k \in DOMAIN mix_streams :
        mus[mix_streams[k]].music_halted =>
            ~mus[mix_streams[k]].playing /\ mus[mix_streams[k]].owed # 1

\* A free waits for a fade-out that goes on.
WaitsForFade ==
    \A k \in DOMAIN app : app[k].op = "wait" =>
        /\ app[k].n = 1 \/ music_active
        /\ app[k].m = music_playing \/ mus[app[k].m].is_multimusic =>
             mus[app[k].m].fading = "out"

\* No music leaves its player unreported, unless other music takes its place.
Answered ==
    \A m \in Music : (Plays(m) /\ ~Plays(m)') =>
        mus'[m].owed # 1 \/ (m = music_playing /\ music_playing' # NoMusic)

Ends == HaltedReported /\ WaitsForFade

LEMMA RestReported ==
    ASSUME Typing, OnePlayerOnly, Locked
    PROVE  HaltedReported
<1>1. AtRest
  BY SoundAtRest
<1>2. \A k \in DOMAIN mix_streams : mix_streams[k] \in Music /\ Holds(mix_streams, mix_streams[k])
  BY QueueOfMusic DEF Holds
<1> QED
  BY <1>1, <1>2 DEF AtRest, HaltedReported

LEMMA SamePlaces ==
    ASSUME UNCHANGED <<music_playing, mix_streams>>
    PROVE  Answered
  BY DEF Answered, Plays, InPlayQueue

LEMMA NoneWaits ==
    ASSUME \A k \in DOMAIN app' : app'[k].op # "wait"
    PROVE  WaitsForFade'
  BY DEF WaitsForFade

\* The call a free waits in names music.
LEMMA WaitsForMusic ==
    ASSUME Sound, NEW k \in DOMAIN app, app[k].op = "wait"
    PROVE  app[k].m \in Music
  BY DEF Sound, Releasing

LEMMA MixerReports ==
    ASSUME Sound, Ends, music_mixer
    PROVE  Ends' /\ Answered
<1>1. Typing /\ OnePlayerOnly /\ Locked /\ AtRest
  BY SoundAtRest DEF Sound, music_mixer, Locked
<1>2. UNCHANGED <<music_active, mix_streams, app>>
  BY DEF music_mixer
<1>3. \A k \in DOMAIN mix_streams :
         mix_streams[k] \in Music /\ mus[mix_streams[k]].is_multimusic
  BY <1>1, QueueOfMusic DEF AtRest, Holds
<1>4. CASE UNCHANGED <<mus, music_playing>>
  BY <1>2, <1>4, SamePlaces DEF Ends, HaltedReported, WaitsForFade
<1>5. CASE ~UNCHANGED <<mus, music_playing>>
  <2>1. PICK p \in Music : p = music_playing /\ mus[p] \in Piece /\ Measured(mus[p])
    BY <1>1, <1>5 DEF music_mixer, Typing
  <2>2. PICK more \in BOOLEAN :
          LET r == Mixed(mus[p], music_volume, more)
          IN  /\ mus' = [mus EXCEPT ![p] = r]
              /\ music_playing' = IF r.playing THEN p ELSE NoMusic
    BY <1>5, <2>1 DEF music_mixer, Outcomes
  <2> DEFINE r == Mixed(mus[p], music_volume, more)
  <2>3. \/ Same(mus[p], r) /\ (mus[p].fading = "out" => r.fading = "out")
        \/ Halts(mus[p], r) /\ r.owed = (IF mus[p].owed = 1 THEN 0 ELSE -1)
    BY <1>1, <2>1, MixedGoesOn DEF Typing
  <2>4. mus' = [mus EXCEPT ![p] = r] /\ music_playing' = IF r.playing THEN p ELSE NoMusic
    BY <2>2
  <2> HIDE DEF r
  <2>5. mus[p].playing /\ ~mus[p].is_multimusic
    BY <1>1, <2>1, MusicAssumption DEF AtRest
  <2>6. mus'[p] = r /\ \A m \in Music \ {p} : mus'[m] = mus[m]
    BY <1>1, <2>4 DEF Typing
  <2>7. HaltedReported'
    BY <1>2, <1>3, <2>5, <2>6 DEF Ends, HaltedReported
  <2>8. WaitsForFade'
    <3> SUFFICES ASSUME NEW k \in DOMAIN app, app[k].op = "wait"
                 PROVE  /\ app[k].n = 1 \/ music_active
                        /\ app[k].m = music_playing' \/ mus'[app[k].m].is_multimusic =>
                             mus'[app[k].m].fading = "out"
      BY <1>2 DEF WaitsForFade
    <3>1. app[k].m \in Music
      BY WaitsForMusic
    <3>2. /\ app[k].n = 1 \/ music_active
          /\ app[k].m = music_playing \/ mus[app[k].m].is_multimusic =>
               mus[app[k].m].fading = "out"
      BY DEF Ends, WaitsForFade
    <3>3. CASE app[k].m = p
      BY <2>1, <2>3, <2>4, <2>5, <2>6, <3>2, <3>3, MusicAssumption DEF Same, Stays, Halts
    <3>4. CASE app[k].m # p
      BY <2>4, <2>6, <3>1, <3>2, <3>4, MusicAssumption
    <3> QED
      BY <3>3, <3>4
  <2>9. Answered
    <3> SUFFICES ASSUME NEW m \in Music, Plays(m), ~Plays(m)' PROVE mus'[m].owed # 1
      BY DEF Answered
    <3>1. m = p /\ music_playing' # p
      BY <1>2, <2>1 DEF Plays, InPlayQueue
    <3>2. ~r.playing
      BY <2>4, <3>1
    <3>3. ~Same(mus[p], r)
      BY <2>5, <3>2 DEF Same, Stays
    <3>4. r.owed # 1
      BY <2>3, <3>3
    <3> QED
      BY <2>6, <3>1, <3>4
  <2> QED
    BY <2>7, <2>8, <2>9 DEF Ends
<1> QED
  BY <1>4, <1>5

LEMMA StreamsReport ==
    ASSUME Sound, Ends, MixStream \/ StreamsMixed \/ StreamsCleaned
    PROVE  Ends' /\ Answered
<1>1. Typing /\ OnePlayerOnly
  BY DEF Sound
<1>2. UNCHANGED <<music_playing, music_active, mix_streams, app>>
  BY DEF MixStream, StreamsMixed, StreamsCleaned
<1>3. Answered
  BY <1>2, SamePlaces
<1>4. CASE UNCHANGED mus
  BY <1>2, <1>3, <1>4 DEF Ends, HaltedReported, WaitsForFade
<1>5. CASE ~UNCHANGED mus
  <2>1. PICK m \in Music : /\ \E k \in DOMAIN mix_streams : m = mix_streams[k]
                           /\ mus[m].music_active
                           /\ \E more \in BOOLEAN :
                                mus' = [mus EXCEPT ![m] = Mixed(mus[m], mus[m].music_volume, more)]
    <3>1. PICK i \in Nat \ {0} : mx = [pc |-> "streams", i |-> i]
      BY <1>1, <1>5 DEF MixStream, StreamsMixed, StreamsCleaned, Typing, MixerState, MixIdle
    <3>2. i \in DOMAIN mix_streams /\ mix_streams[i] \in Music
      BY <1>1, <1>5, <3>1 DEF MixStream, StreamsMixed, StreamsCleaned, Typing
    <3> QED
      BY <1>5, <3>1, <3>2 DEF MixStream, StreamsMixed, StreamsCleaned, Outcomes
  <2>2. PICK more \in BOOLEAN :
          mus' = [mus EXCEPT ![m] = Mixed(mus[m], mus[m].music_volume, more)]
    BY <2>1
  <2> DEFINE r == Mixed(mus[m], mus[m].music_volume, more)
  <2>3. mus[m] \in Piece /\ Measured(mus[m]) /\ mus[m].music_volume \in Int
    BY <1>1 DEF Typing, Piece
  <2>4. \/ Same(mus[m], r) /\ (mus[m].fading = "out" => r.fading = "out")
        \/ Halts(mus[m], r) /\ r.owed = (IF mus[m].owed = 1 THEN 0 ELSE -1)
    BY <2>3, MixedGoesOn
  <2>5. mus'[m] = r /\ \A x \in Music \ {m} : mus'[x] = mus[x]
    BY <1>1, <2>2 DEF Typing
  <2> HIDE DEF r
  <2>6. mus[m].is_multimusic /\ ~mus[m].music_halted
    BY <1>1, <2>1 DEF OnePlayerOnly, StreamOnly
  <2>7. m # music_playing
    <3>1. InPlayQueue(m)
      BY <2>1 DEF InPlayQueue
    <3> QED
      BY <1>1, <3>1, MusicAssumption DEF OnePlayerOnly, PlayerOnly
  <2>8. HaltedReported'
    <3>1. r.music_halted => ~r.playing /\ r.owed # 1
      <4>1. CASE Same(mus[m], r)
        BY <2>6, <4>1 DEF Same, Stays
      <4>2. CASE Halts(mus[m], r) /\ r.owed = (IF mus[m].owed = 1 THEN 0 ELSE -1)
        <5>1. r.playing = FALSE
          BY <4>2 DEF Halts
        <5>2. r.owed # 1
          BY <4>2
        <5> QED
          BY <5>1, <5>2
      <4> QED
        BY <2>4, <4>1, <4>2
    <3>2. \A k \in DOMAIN mix_streams : mix_streams[k] \in Music
      BY <1>1, QueueOfMusic
    <3> QED
      BY <1>2, <2>5, <3>1, <3>2 DEF Ends, HaltedReported
  <2>9. WaitsForFade'
    <3> SUFFICES ASSUME NEW k \in DOMAIN app, app[k].op = "wait"
                 PROVE  /\ app[k].n = 1 \/ music_active
                        /\ app[k].m = music_playing \/ mus'[app[k].m].is_multimusic =>
                             mus'[app[k].m].fading = "out"
      BY <1>2 DEF WaitsForFade
    <3>1. app[k].m \in Music
      BY WaitsForMusic
    <3>2. /\ app[k].n = 1 \/ music_active
          /\ app[k].m = music_playing \/ mus[app[k].m].is_multimusic =>
               mus[app[k].m].fading = "out"
      BY DEF Ends, WaitsForFade
    <3>3. CASE app[k].m = m
      BY <2>4, <2>5, <2>6, <2>7, <3>2, <3>3 DEF Same, Stays, Halts
    <3>4. CASE app[k].m # m
      BY <2>5, <3>1, <3>2, <3>4
    <3> QED
      BY <3>3, <3>4
  <2> QED
    BY <1>3, <2>8, <2>9 DEF Ends
<1> QED
  BY <1>4, <1>5

LEMMA CleanReports ==
    ASSUME Sound, Ends, CleanStream
    PROVE  Ends' /\ Answered
<1>1. Typing /\ OnePlayerOnly
  BY DEF Sound
<1>2. UNCHANGED <<music_playing, music_active, app>>
  BY DEF CleanStream
<1>3. CASE UNCHANGED <<mus, mix_streams>>
  BY <1>2, <1>3, SamePlaces DEF Ends, HaltedReported, WaitsForFade
<1>4. CASE ~UNCHANGED <<mus, mix_streams>>
  <2>1. PICK m \in Music : /\ \E k \in DOMAIN mix_streams : m = mix_streams[k]
                           /\ mus[m].music_halted
                           /\ mix_streams' = Removed(mix_streams, m)
                           /\ mus' = IF mus[m].free_on_stop THEN [mus EXCEPT ![m] = Gone]
                                                            ELSE mus
    <3>1. PICK i \in Nat \ {0} : mx = [pc |-> "clean", i |-> i]
      BY <1>1 DEF CleanStream, Typing, MixerState, MixIdle
    <3>2. i \in DOMAIN mix_streams /\ mix_streams[i] \in Music
      BY <1>1, <3>1 DEF CleanStream, Typing
    <3> QED
      BY <1>4, <3>1, <3>2 DEF CleanStream
  <2>2. Once(mix_streams)
    BY <1>1 DEF OnePlayerOnly, QueueSound, Once
  <2>3. /\ mix_streams' \in Seq(Music)
        /\ \A x : Holds(mix_streams', x) <=> x # m /\ Holds(mix_streams, x)
    BY <1>1, <2>1, <2>2, RemovedQueue DEF Typing
  <2>4. mus'[m] \in {mus[m], Gone} /\ \A x \in Music \ {m} : mus'[x] = mus[x]
    BY <1>1, <2>1 DEF Typing
  <2>5. ~mus'[m].is_multimusic /\ mus'[m].owed # 1
    <3>1. ~mus[m].is_multimusic
      BY <1>1, <2>1 DEF OnePlayerOnly, StreamOnly
    <3>2. mus[m].owed # 1
      BY <2>1 DEF Ends, HaltedReported
    <3>3. Gone.owed # 1
      BY GoneFields
    <3> QED
      BY <2>4, <3>1, <3>2, <3>3, GoneFields
  <2>6. m # music_playing
    <3>1. InPlayQueue(m)
      BY <2>1 DEF InPlayQueue
    <3> QED
      BY <1>1, <3>1, MusicAssumption DEF OnePlayerOnly, PlayerOnly
  <2>7. HaltedReported'
    <3> SUFFICES ASSUME NEW k \in DOMAIN mix_streams', mus'[mix_streams'[k]].music_halted
                 PROVE  /\ ~mus'[mix_streams'[k]].playing
                        /\ mus'[mix_streams'[k]].owed # 1
      BY DEF HaltedReported
    <3>1. Holds(mix_streams', mix_streams'[k])
      BY DEF Holds
    <3>2. mix_streams'[k] # m /\ Holds(mix_streams, mix_streams'[k])
      BY <2>3, <3>1
    <3>3. mix_streams'[k] \in Music /\ mus'[mix_streams'[k]] = mus[mix_streams'[k]]
      BY <1>1, <2>4, <3>2, QueueOfMusic
    <3> QED
      BY <3>2, <3>3 DEF Ends, HaltedReported, Holds
  <2>8. WaitsForFade'
    <3> SUFFICES ASSUME NEW k \in DOMAIN app, app[k].op = "wait"
                 PROVE  /\ app[k].n = 1 \/ music_active
                        /\ app[k].m = music_playing \/ mus'[app[k].m].is_multimusic =>
                             mus'[app[k].m].fading = "out"
      BY <1>2 DEF WaitsForFade
    <3>1. app[k].m \in Music
      BY WaitsForMusic
    <3> QED
      BY <2>4, <2>5, <2>6, <3>1 DEF Ends, WaitsForFade
  <2>9. Answered
    <3> SUFFICES ASSUME NEW x \in Music, Plays(x), ~Plays(x)' PROVE mus'[x].owed # 1
      BY DEF Answered
    <3>1. Holds(mix_streams, x) /\ ~Holds(mix_streams', x)
      BY <1>2 DEF Plays, InPlayQueue, Holds
    <3>2. x = m
      BY <2>3, <3>1
    <3> QED
      BY <2>5, <3>2
  <2> QED
    BY <2>7, <2>8, <2>9 DEF Ends
<1> QED
  BY <1>3, <1>4

-----------------------------------------------------------------------------
(* The application.                                                         *)

NoWait == \A k \in DOMAIN app : app[k].op # "wait"

\* Under the lock nothing halted is in the queue.
LEMMA RestEnds ==
    ASSUME Sound', Locked', NoWait'
    PROVE  Ends'
<1>1. Typing' /\ OnePlayerOnly'
  BY DEF Sound
<1>2. HaltedReported'
  BY <1>1, RestReported, PTL
<1> QED
  BY <1>2 DEF Ends, NoWait, WaitsForFade

\* Outside it, what is in the queue is left as it is.
LEMMA QuietEnds ==
    ASSUME Typing, Ends, UNCHANGED <<music_playing, mix_streams>>, NoWait',
           \A k \in DOMAIN mix_streams :
              /\ mus'[mix_streams[k]].music_halted = mus[mix_streams[k]].music_halted
              /\ mus'[mix_streams[k]].playing = mus[mix_streams[k]].playing
              /\ mus'[mix_streams[k]].owed = mus[mix_streams[k]].owed
    PROVE  Ends' /\ Answered
  BY SamePlaces DEF Ends, HaltedReported, WaitsForFade, NoWait

LEMMA FreeNoWait ==
    ASSUME Free, app' = app
    PROVE  NoWait'
  BY DEF Free, NoWait

LEMMA TailNoWait ==
    ASSUME Sound, ~Free, app' = Tail(app)
    PROVE  NoWait'
  BY AppTail DEF Sound, Typing, NoWait

\* Mix_HaltMusicStream reports what it halts.
LEMMA HaltAnswers ==
    ASSUME Sound, Locked, NEW m \in Music \cup {NoMusic}, Halt(m)
    PROVE  Answered
<1>1. Typing /\ OnePlayerOnly /\ AtRest
  BY SoundAtRest DEF Sound
<1>2. PICK t \in Music \cup {NoMusic} : t = Target(m)
  BY <1>1 DEF Target, Typing
<1>3. CASE t = NoMusic \/ ~mus[t].loaded
  BY <1>2, <1>3, SamePlaces DEF Halt
<1>4. CASE ~(t = NoMusic \/ ~mus[t].loaded)
  <2> DEFINE e == Ended(mus[t])
             s == [e EXCEPT !.free_on_stop = @ /\ ~mus[t].is_multimusic]
  <2>1. t \in Music /\ mus[t] \in Piece
    BY <1>1, <1>4 DEF Typing
  <2>2. /\ mix_streams' \in {mix_streams, Removed(mix_streams, t)}
        /\ music_playing' = IF t = music_playing THEN NoMusic ELSE music_playing
    BY <1>2, <1>4, Zenon DEF Halt
  <2>3. mus' = [mus EXCEPT ![t] =
                  [Ended(mus[t]) EXCEPT !.free_on_stop = @ /\ ~mus[t].is_multimusic]]
    BY <1>2, <1>4 DEF Halt
  <2>4. mus' = [mus EXCEPT ![t] = s]
    BY <2>3, Zenon
  <2>5. e \in Piece /\ e.owed = (IF mus[t].owed = 1 THEN 0 ELSE -1)
    BY <2>1, EndedHalts
  <2> HIDE DEF e
  <2>6. s.owed = e.owed
    BY <2>5 DEF Piece
  <2> HIDE DEF s
  <2>7. mus'[t].owed # 1
    BY <1>1, <2>1, <2>4, <2>5, <2>6 DEF Typing
  <2>8. \A x : x # t /\ Holds(mix_streams, x) => Holds(mix_streams', x)
    BY <1>1, <2>1, <2>2, RemovedQueue DEF AtRest, Typing
  <2>9. ASSUME NEW x \in Music, Plays(x), ~Plays(x)' PROVE x = t
    BY <2>2, <2>8, <2>9 DEF Plays, InPlayQueue, Holds
  <2> QED
    BY <2>7, <2>9 DEF Answered
<1> QED
  BY <1>3, <1>4

\* Mix_FreeMusic reports what it stops, unless the mixer did while it waited.
LEMMA StopAnswers ==
    ASSUME Sound, Locked, NEW m \in Music, NEW waited \in BOOLEAN, Stop(m, waited),
           waited => ~Plays(m)
    PROVE  Answered
<1>1. Typing /\ OnePlayerOnly /\ AtRest
  BY SoundAtRest DEF Sound
<1> DEFINE s == FreedHalted(mus[m], waited)
<1>2. /\ mus' = [mus EXCEPT ![m] = s]
      /\ mix_streams' = Removed(mix_streams, m)
      /\ music_playing' = IF m = music_playing THEN NoMusic ELSE music_playing
  BY DEF Stop
<1>3. ~waited => s.owed # 1
  <2>1. mus[m] \in Piece
    BY <1>1 DEF Typing
  <2> QED
    BY <2>1, EndedHalts DEF FreedHalted
<1> HIDE DEF s
<1>4. mus'[m] = s
  BY <1>1, <1>2 DEF Typing
<1>5. \A x : x # m /\ Holds(mix_streams, x) => Holds(mix_streams', x)
  BY <1>1, <1>2, RemovedQueue DEF AtRest, Typing
<1>6. ASSUME NEW x \in Music, Plays(x), ~Plays(x)' PROVE x = m
  BY <1>2, <1>5, <1>6 DEF Plays, InPlayQueue, Holds
<1> QED
  BY <1>3, <1>4, <1>6 DEF Answered

LEMMA QueueGrows ==
    ASSUME Sound, UNCHANGED music_playing, NEW m \in Music, NEW n, NEW endless, NEW ok,
           FadeInStream(m, n, endless, ok)
    PROVE  Answered
<1>1. mix_streams' = mix_streams \/ mix_streams' = Append(mix_streams, m)
  BY Zenon DEF FadeInStream
<1>2. \A k \in DOMAIN mix_streams : k \in DOMAIN mix_streams' /\ mix_streams'[k] = mix_streams[k]
  BY <1>1 DEF Sound, Typing
<1> QED
  BY <1>2 DEF Answered, Plays, InPlayQueue

LEMMA FreeAnswers ==
    ASSUME Sound, Ends, Sound', NEW m \in Music, Mix_FreeMusic(m)
    PROVE  Ends' /\ Answered
<1>1. Locked /\ Locked' /\ UNCHANGED music_active
  BY DEF Mix_FreeMusic, Locked
<1> DEFINE multi == mus[m].is_multimusic
<1>2. CASE app' = <<Step("release", m, 0)>>
  <2>1. NoWait'
    BY <1>2 DEF NoWait, Step
  <2>2. UNCHANGED <<mus, music_playing, mix_streams>> \/ Stop(m, FALSE)
    BY <1>2 DEF Mix_FreeMusic, Step
  <2>3. Answered
    BY <1>1, <2>2, SamePlaces, StopAnswers
  <2> QED
    BY <1>1, <2>1, <2>3, RestEnds
<1>3. CASE app' # <<Step("release", m, 0)>>
  <2>1. /\ app' = <<Step("wait", m, IF multi THEN 1 ELSE 0)>> /\ Waiting(m, multi)
        /\ UNCHANGED <<mus, music_playing, mix_streams>>
    BY <1>3, Zenon DEF Mix_FreeMusic
  <2>2. HaltedReported'
    BY <2>1 DEF Ends, HaltedReported
  <2>3. WaitsForFade'
    <3>1. \A k \in DOMAIN app' : app'[k] = Step("wait", m, IF multi THEN 1 ELSE 0)
      BY <2>1
    <3>2. multi \/ music_active
      BY <2>1 DEF Waiting
    <3>3. mus'[m].fading = "out" /\ UNCHANGED music_active
      BY <1>1, <2>1 DEF Waiting
    <3> QED
      BY <3>1, <3>2, <3>3 DEF WaitsForFade, Step
  <2>4. Answered
    BY <2>1, SamePlaces
  <2> QED
    BY <2>2, <2>3, <2>4 DEF Ends
<1> QED
  BY <1>2, <1>3

LEMMA AgainAnswers ==
    ASSUME Sound, Ends, Sound', FreeAgain
    PROVE  Ends' /\ Answered
<1>1. Locked /\ Locked' /\ ~Free /\ Head(app).op = "wait" /\ Head(app).m \in Music
  BY FirstStep DEF FreeAgain, Locked
<1>2. PICK m \in Music : m = Head(app).m
  BY <1>1
<1>3. Stop(m, TRUE) /\ app' = <<Step("release", m, 0)>> /\ ~Waiting(m, Head(app).n = 1)
  BY <1>2 DEF FreeAgain
<1>4. NoWait'
  BY <1>3 DEF NoWait, Step
<1>5. ~Plays(m)
  <2>1. 1 \in DOMAIN app /\ Head(app) = app[1]
    BY <1>1 DEF Sound, Typing, Free
  <2>2. /\ Head(app).n = 1 \/ music_active
        /\ m = music_playing \/ mus[m].is_multimusic => mus[m].fading = "out"
    BY <1>1, <1>2, <2>1 DEF Ends, WaitsForFade
  <2>3. ~(m = music_playing \/ mus[m].is_multimusic)
    BY <1>3, <2>2 DEF Waiting
  <2>4. AtRest
    BY <1>1, SoundAtRest DEF Sound
  <2>5. ~InPlayQueue(m)
    BY <2>3, <2>4, QueueOfMusic DEF AtRest, Sound
  <2> QED
    BY <2>3, <2>5 DEF Plays
<1> QED
  BY <1>1, <1>3, <1>4, <1>5, RestEnds, StopAnswers

LEMMA StartAnswers ==
    ASSUME Sound, Ends, Sound', NEW m \in Music, NEW n \in Nat, NEW endless \in BOOLEAN,
           NEW ok \in BOOLEAN,
           \/ ok /\ Mix_FadeInMusicPos(m, n, endless, ok)
           \/ Mix_FadeInMusicStreamPos(m, n, endless, ok)
    PROVE  Ends' /\ Answered
<1>1. Locked' /\ Free /\ app' = app
  BY DEF Mix_FadeInMusicPos, Mix_FadeInMusicStreamPos, May, Locked
<1>2. Ends'
  BY <1>1, RestEnds, FreeNoWait
<1>3. CASE ok /\ Mix_FadeInMusicPos(m, n, endless, ok)
  <2>1. music_playing' = m /\ UNCHANGED mix_streams /\ music_playing' # NoMusic
    BY <1>3, MusicAssumption DEF Mix_FadeInMusicPos
  <2> QED
    BY <1>2, <2>1 DEF Answered, Plays, InPlayQueue
<1>4. CASE Mix_FadeInMusicStreamPos(m, n, endless, ok)
  <2>1. UNCHANGED music_playing /\ FadeInStream(m, n, endless, ok)
    BY <1>4 DEF Mix_FadeInMusicStreamPos, RefuseStream, Sound
  <2> QED
    BY <1>2, <2>1, QueueGrows
<1> QED
  BY <1>3, <1>4

LEMMA AdjustAnswers ==
    ASSUME Sound, Ends, Sound', NEW m \in Music \cup {NoMusic}, NEW n \in Nat,
           NEW free \in BOOLEAN,
           \/ Mix_HaltMusicStream(m) \/ Mix_PauseMusicStream(m) \/ Mix_ResumeMusicStream(m)
           \/ m \in Music /\ (Mix_FadeOutMusicStream(m, n) \/ Mix_SetFreeOnStop(m, free))
    PROVE  Ends' /\ Answered
<1>1. Locked /\ Locked' /\ Free /\ app' = app
  BY DEF Mix_HaltMusicStream, Mix_PauseMusicStream, Mix_ResumeMusicStream,
         Mix_FadeOutMusicStream, Mix_SetFreeOnStop, May, Locked
<1>2. Ends'
  BY <1>1, RestEnds, FreeNoWait
<1>3. Halt(m) \/ UNCHANGED <<music_playing, mix_streams>>
  BY DEF Mix_HaltMusicStream, Mix_PauseMusicStream, Mix_ResumeMusicStream,
         Mix_FadeOutMusicStream, Mix_SetFreeOnStop, FadeOut
<1> QED
  BY <1>1, <1>2, <1>3, HaltAnswers, SamePlaces

\* Calls that are made, or go on, with nothing but an entry of the list of steps.
LEMMA UnlockedAnswers ==
    ASSUME Sound, Ends,
           UNCHANGED <<mus, music_playing, mix_streams>>, NoWait'
    PROVE  Ends' /\ Answered
  BY QuietEnds DEF Sound

LEMMA StepsAnswer ==
    ASSUME Sound, Ends, NEW m \in Music \cup {NoMusic}, NEW n, NEW v,
           NEW op \in {"pauseeach", "resumeeach"},
           \/ Mix_FadeOutMusic(n) \/ Mix_VolumeMusicStream(m, v) \/ Mix_SetMusicCMD
           \/ Mix_PauseMusicStreamAll(op)
    PROVE  Ends' /\ Answered
<1>1. UNCHANGED <<mus, music_playing, mix_streams>>
  BY DEF Mix_FadeOutMusic, Mix_VolumeMusicStream, Mix_SetMusicCMD, Mix_PauseMusicStreamAll
<1>2. NoWait'
  BY DEF Mix_FadeOutMusic, Mix_VolumeMusicStream, Mix_SetMusicCMD,
         Mix_PauseMusicStreamAll, NoWait, Step
<1> QED
  BY <1>1, <1>2, UnlockedAnswers

LEMMA CrossFadeAnswers ==
    ASSUME Sound, Ends, NEW old \in Music, NEW new \in Music, NEW n, NEW endless, NEW free,
           Mix_CrossFadeMusicStreamPos(old, new, n, endless, free)
    PROVE  Ends' /\ Answered
<1>1. Typing
  BY DEF Sound
<1>2. NoWait'
  BY DEF Mix_CrossFadeMusicStreamPos, NoWait, Step
<1>3. /\ mus' = [mus EXCEPT ![old] = [mus[old] EXCEPT !.free_on_stop = free]]
      /\ UNCHANGED <<music_playing, mix_streams>>
  BY DEF Mix_CrossFadeMusicStreamPos
<1> DEFINE s == [mus[old] EXCEPT !.free_on_stop = free]
<1>4. /\ s.music_halted = mus[old].music_halted /\ s.playing = mus[old].playing
      /\ s.owed = mus[old].owed
  <2>1. mus[old] \in Piece
    BY <1>1 DEF Typing
  <2> QED
    BY <2>1 DEF Piece
<1> HIDE DEF s
<1>5. \A x \in Music : mus'[x] = IF x = old THEN s ELSE mus[x]
  BY <1>1, <1>3 DEF Typing, s
<1>6. \A k \in DOMAIN mix_streams : mix_streams[k] \in Music
  BY <1>1, QueueOfMusic
<1>7. \A k \in DOMAIN mix_streams :
         /\ mus'[mix_streams[k]].music_halted = mus[mix_streams[k]].music_halted
         /\ mus'[mix_streams[k]].playing = mus[mix_streams[k]].playing
         /\ mus'[mix_streams[k]].owed = mus[mix_streams[k]].owed
  BY <1>4, <1>5, <1>6
<1> QED
  BY <1>1, <1>2, <1>3, <1>7, QuietEnds

\* Memory comes or goes where nothing plays.
LEMMA MemoryAnswers ==
    ASSUME Sound, Ends, NEW m \in Music, ~Plays(m), NEW s, mus' = [mus EXCEPT ![m] = s],
           UNCHANGED <<music_playing, mix_streams>>, NoWait'
    PROVE  Ends' /\ Answered
<1>1. \A k \in DOMAIN mix_streams : mix_streams[k] # m /\ mix_streams[k] \in Music
  BY QueueOfMusic DEF Sound, Plays, InPlayQueue
<1>2. \A k \in DOMAIN mix_streams : mus'[mix_streams[k]] = mus[mix_streams[k]]
  BY <1>1 DEF Sound, Typing
<1> QED
  BY <1>2, QuietEnds DEF Sound

LEMMA LoadAnswers ==
    ASSUME Sound, Ends, NEW m \in Music, Mix_LoadMUS(m)
    PROVE  Ends' /\ Answered
<1>1. ~Plays(m)
  BY MusicAssumption
     DEF Sound, Mix_LoadMUS, OnePlayerOnly, PlayerOnly, QueueSound, Plays, InPlayQueue
<1>2. NoWait'
  BY FreeNoWait DEF Mix_LoadMUS, May
<1> QED
  BY <1>1, <1>2, MemoryAnswers DEF Mix_LoadMUS

LEMMA ContinueAnswers ==
    ASSUME Sound, Ends, Sound', AppContinue
    PROVE  Ends' /\ Answered
<1>1. CASE FreeAgain
  BY <1>1, AgainAnswers
<1>2. CASE FreeRelease
  <2>1. PICK m \in Music : m = Head(app).m /\ ~Plays(m)
    BY <1>2, FirstStep DEF FreeRelease
  <2>2. NoWait'
    BY <1>2, TailNoWait DEF FreeRelease
  <2> QED
    BY <1>2, <2>1, <2>2, MemoryAnswers DEF FreeRelease
<1>3. CASE StepHalt
  <2>1. PICK a \in StepType : a = Head(app)
    BY <1>3, FirstStep DEF StepHalt
  <2>2. a.m \in Music \cup {NoMusic}
    BY DEF StepType
  <2>3. Locked /\ Locked' /\ (Halt(a.m) \/ UNCHANGED <<music_playing, mix_streams>>)
    BY <1>3, <2>1 DEF StepHalt, FadeOut, Locked
  <2>4. Answered
    BY <2>2, <2>3, HaltAnswers, SamePlaces
  <2>5. NoWait'
    BY <1>3, TailNoWait DEF StepHalt
  <2> QED
    BY <2>3, <2>4, <2>5, RestEnds
<1>4. CASE StepFadeIn
  <2>1. PICK a \in StepType : a = Head(app) /\ a.m \in Music
    BY <1>4, FirstStep DEF StepFadeIn
  <2>2. PICK ok \in BOOLEAN : FadeInStream(a.m, a.n, a.endless, ok)
    BY <1>4, <2>1, ChoiceAssumption DEF StepFadeIn, RefuseStream, Sound
  <2>3. Locked' /\ UNCHANGED music_playing
    BY <1>4 DEF StepFadeIn, Locked
  <2>4. Answered
    BY <2>1, <2>2, <2>3, QueueGrows
  <2>5. NoWait'
    BY <1>4, TailNoWait DEF StepFadeIn
  <2> QED
    BY <2>3, <2>4, <2>5, RestEnds
<1>5. CASE StepVolume \/ StepPause
  <2>1. Locked' /\ UNCHANGED <<music_playing, mix_streams>>
    BY <1>5 DEF StepVolume, StepPause, Locked
  <2>2. NoWait'
    BY <1>5, TailNoWait DEF StepVolume, StepPause
  <2> QED
    BY <2>1, <2>2, RestEnds, SamePlaces
<1>6. CASE StepEach
  <2>1. PICK s \in StepType : s = Head(app)
    BY <1>6, FirstStep DEF StepEach
  <2>2. NoWait'
    <3>1. CASE app' = Tail(app)
      BY <1>6, <3>1, TailNoWait DEF StepEach
    <3>2. CASE app' # Tail(app)
      <4> DEFINE op == EachOp[s.op]
             a == Step(op, mix_streams[s.n], 0)
             b == [s EXCEPT !.n = @ + 1]
      <4>1. s.op \in EachOps
        BY <1>6, <2>1 DEF StepEach, EachOps, EachOp
      <4>2. op # "wait"
        BY <4>1 DEF EachOp, EachOps
      <4> HIDE DEF op
      <4>3. a.op # "wait" /\ b.op # "wait"
        BY <4>1, <4>2 DEF Step, StepType, EachOps
      <4>4. app' = <<a, b>>
        BY <1>6, <2>1, <3>2 DEF StepEach, op
      <4> HIDE DEF a, b
      <4> QED
        BY <4>3, <4>4 DEF NoWait
    <3> QED
      BY <3>1, <3>2
  <2> QED
    BY <1>6, <2>2, UnlockedAnswers DEF StepEach
<1> QED
  BY <1>1, <1>2, <1>3, <1>4, <1>5, <1>6 DEF AppContinue

-----------------------------------------------------------------------------
(* The theorem.                                                             *)

LEMMA EndsStep ==
    ASSUME Sound, Ends, Sound', [Next]_vars, PlayCan \subseteq {TRUE}
    PROVE  Ends' /\ Answered
<1>1. /\ Fades \subseteq Nat /\ FreeOld \subseteq BOOLEAN
      /\ \A ok \in PlayCan : ok = TRUE /\ ok \in BOOLEAN
  BY FadeAssumption, ChoiceAssumption
<1>2. CASE AppStart
  <2>1. CASE \E m \in Music : Mix_LoadMUS(m)
    BY <2>1, LoadAnswers
  <2>2. CASE \E m \in Music : Mix_FreeMusic(m)
    BY <2>2, FreeAnswers
  <2>3. CASE \E m \in Music, n \in Fades, endless \in BOOLEAN, ok \in PlayCan :
               Mix_FadeInMusicPos(m, n, endless, ok) \/ Mix_FadeInMusicStreamPos(m, n, endless, ok)
    BY <1>1, <2>3, StartAnswers
  <2>4. CASE \E old, new \in Music, n \in Fades, endless \in BOOLEAN, free \in FreeOld :
               Mix_CrossFadeMusicStreamPos(old, new, n, endless, free)
    BY <2>4, CrossFadeAnswers
  <2> QED
    BY <1>2, <2>1, <2>2, <2>3, <2>4 DEF AppStart
<1>3. CASE AppAdjust
  <2>1. CASE \E m \in Music \cup {NoMusic} :
               Mix_HaltMusicStream(m) \/ Mix_PauseMusicStream(m) \/ Mix_ResumeMusicStream(m)
    BY <2>1, AdjustAnswers
  <2>2. CASE \E m \in Music, n \in Fades : Mix_FadeOutMusicStream(m, n)
    BY <1>1, <2>2, AdjustAnswers
  <2>3. CASE \E m \in Music, free \in BOOLEAN : Mix_SetFreeOnStop(m, free)
    BY <2>3, AdjustAnswers
  <2>4. CASE \E n \in Fades : Mix_FadeOutMusic(n)
    BY <2>4, StepsAnswer
  <2>5. CASE \E m \in Music \cup {NoMusic}, v \in Volumes : Mix_VolumeMusicStream(m, v)
    BY <2>5, StepsAnswer
  <2>6. CASE Mix_SetMusicCMD
    BY <2>6, StepsAnswer
  <2>7. CASE \E op \in {"pauseeach", "resumeeach"} : Mix_PauseMusicStreamAll(op)
    BY <2>7, StepsAnswer
  <2> QED
    BY <1>3, <2>1, <2>2, <2>3, <2>4, <2>5, <2>6, <2>7 DEF AppAdjust
<1>4. CASE AppContinue
  BY <1>4, ContinueAnswers
<1>5. CASE music_mixer
  BY <1>5, MixerReports
<1>6. CASE MixStep
  BY <1>6, StreamsReport, CleanReports DEF MixStep
<1>7. CASE UNCHANGED vars
  <2>1. UNCHANGED <<mus, music_playing, music_active, mix_streams, app>>
    BY <1>7 DEF vars
  <2> QED
    BY <2>1, SamePlaces DEF Ends, HaltedReported, WaitsForFade
<1> QED
  BY <1>2, <1>3, <1>4, <1>5, <1>6, <1>7 DEF Next

\* Music that leaves the single player or the queue is reported finished by then,
\* by the mixer, by the halt or by the free, however they interleave, unless other
\* music takes its place on the single player (music_finished_hook of music.c).  The
\* application must not cross-fade from what is no stream, its decoders start, and
\* the queue gets its memory.
THEOREM EndsReported ==
    ASSUME "plays" \in Courtesies \/ "CrossFade" \notin Calls, PlayCan \subseteq {TRUE},
           ~OutOfMemory
    PROVE  Spec => EndReported
<1>1. Init => Sound /\ Ends
  BY SoundInit DEF Init, Ends, HaltedReported, WaitsForFade
<1>2. Sound /\ [Next]_vars => Sound'
  BY SoundStep
<1>3. Sound /\ Ends /\ [Next]_vars => Sound' /\ Ends' /\ Answered
  BY <1>2, EndsStep
<1>4. Answered => [\A m \in Music :
         (Plays(m) /\ ~Plays(m)') =>
             mus'[m].owed # 1 \/ (m = music_playing /\ music_playing' # NoMusic)]_vars
  BY DEF Answered
<1> QED
  BY <1>1, <1>3, <1>4, PTL DEF Spec, EndReported

-----------------------------------------------------------------------------
(* An application that takes care.  It names what plays where a call is for *)
(* that, turns fades back only into longer ones, has decoders that start,   *)
(* and makes none of the calls that read the players before they take the   *)
(* lock; and the queue gets its memory.                                     *)

Courteous ==
    /\ {"plays", "fades"} \subseteq Courtesies /\ PlayCan \subseteq {TRUE}
    /\ Calls \cap {"FadeOutPlaying", "HaltAll", "PauseAll"} = {}
    /\ ~OutOfMemory

\* It is past the last step of a fade-in, if it fades in.
Full(r) == r.fading = "no" \/ (r.fading = "in" /\ FadeOver(r))

Numbers(r) ==
    /\ r.fading # "no" => r.fade_step \in Nat
    /\ r.fading = "in" => r.fade_step <= r.fade_steps
    /\ r.music_volume \in Volume /\ r.heard \in Volume

\* One piece of music: what is a stream is owed its end, and heard as its volume
\* says once its fade is over.
Kept(r) ==
    /\ Numbers(r) /\ r.owed # -1
    /\ r.is_multimusic => r.owed = 1 /\ (Full(r) => r.heard = r.music_volume)

LEMMA QuotientPart ==
    ASSUME NEW v \in Volume, NEW n \in Nat, n > 0, NEW part \in 0 .. n
    PROVE  /\ Quotient(v * part, n) \in Volume
           /\ part = n => Quotient(v * part, n) = v
<1>1. v \in Nat /\ v <= MIX_MAX_VOLUME /\ MIX_MAX_VOLUME \in Nat
  BY FadeAssumption DEF Volume
<1>2. v * part \in Nat /\ v * part <= v * n /\ v * n \in Nat
  BY <1>1
<1>3. (v * n) \div n = v
  BY <1>1
<1>4. \A x \in Nat, y \in Nat : x <= y => x \div n <= y \div n /\ x \div n \in Nat
  OBVIOUS
<1> DEFINE p == v * part
           q == v * n
<1>5. p \in Nat /\ q \in Nat /\ p <= q /\ q \div n = v
  BY <1>2, <1>3
<1>6. part = n => p = q
  OBVIOUS
<1> HIDE DEF p, q
<1>7. p \div n \in Nat /\ p \div n <= v
  BY <1>4, <1>5
<1>8. Quotient(p, n) = p \div n
  BY <1>5 DEF Quotient
<1>9. Quotient(p, n) \in Volume /\ (part = n => Quotient(p, n) = v)
  BY <1>1, <1>5, <1>6, <1>7, <1>8 DEF Volume
<1> QED
  BY <1>9 DEF p

LEMMA HaltedKept ==
    ASSUME NEW r \in Piece, Numbers(r)
    PROVE  /\ Numbers(Halted(r)) /\ Numbers(Ended(r))
           /\ Halted(r).heard = r.heard
<1>1. Halted(r).music_volume = r.music_volume /\ Halted(r).heard = r.heard /\ Halted(r).fading = "no"
  BY DEF Halted, Piece
<1>2. Ended(r).music_volume = r.music_volume /\ Ended(r).heard = r.heard /\ Ended(r).fading = "no"
  <2> DEFINE h == Halted(r)
             o == IF h.owed = 1 THEN 0 ELSE -1
  <2>1. Ended(r) = [h EXCEPT !.owed = o] /\ h \in Piece
    BY HaltedHalts DEF Ended, Reported
  <2> HIDE DEF h, o
  <2> QED
    BY <1>1, <2>1 DEF Piece, h
<1> QED
  BY <1>1, <1>2 DEF Numbers

LEMMA FadeStepKept ==
    ASSUME NEW r \in Piece, Measured(r), Numbers(r), r.fading # "no", ~FadeOver(r),
           NEW volume \in Volume
    PROVE  LET s == FadeStep(r, volume)
           IN  Numbers(s) /\ s.music_volume = r.music_volume /\ (Full(s) => s.heard = volume)
<1> DEFINE step == r.fade_step + 1
           part == IF r.fading = "out" THEN r.fade_steps - step ELSE step
           q == Quotient(volume * part, r.fade_steps)
           s == [r EXCEPT !.fade_step = step, !.heard = q]
<1>1. FadeStep(r, volume) = s
  BY DEF FadeStep
<1>2. /\ step \in Nat /\ part \in 0 .. r.fade_steps /\ r.fade_steps \in Nat /\ r.fade_steps > 0
      /\ step <= r.fade_steps
      /\ r.fading # "out" => part = step
  BY DEF Numbers, FadeOver, Piece, Measured
<1> HIDE DEF step, part
<1>3. q \in Volume /\ (part = r.fade_steps => q = volume)
  BY <1>2, QuotientPart
<1> HIDE DEF q
<1>4. /\ s.fade_step = step /\ s.heard = q /\ s.fading = r.fading
      /\ s.fade_steps = r.fade_steps /\ s.music_volume = r.music_volume
  BY DEF Piece
<1> HIDE DEF s
<1>5. Numbers(s)
  BY <1>2, <1>3, <1>4 DEF Numbers
<1>6. Full(s) => s.heard = volume
  <2> SUFFICES ASSUME Full(s) PROVE part = r.fade_steps
    BY <1>3, <1>4
  <2> QED
    BY <1>2, <1>4 DEF Full, FadeOver
<1> QED
  BY <1>1, <1>4, <1>5, <1>6

\* The mixer's turn of music whose end is owed.
LEMMA MixedKept ==
    ASSUME NEW r \in Piece, Measured(r), Numbers(r), r.owed = 1, NEW volume \in Volume,
           NEW more \in BOOLEAN, NEW s, s = Mixed(r, volume, more)
    PROVE  /\ Numbers(s)
           /\ \/ Halts(r, s) /\ s.owed = 0 /\ (r.fading = "out" \/ ~more)
              \/ /\ Same(r, s) /\ s.owed = 1 /\ s.fading \in {r.fading, "no"}
                 /\ s.music_volume = r.music_volume
                 /\ Full(s) => s.heard = volume \/ (Full(r) /\ s.heard = r.heard)
<1> DEFINE f == IF r.fading = "no" THEN r
                ELSE IF FadeOver(r) THEN [r EXCEPT !.fade_step = @ + 1, !.fading = "no"]
                ELSE FadeStep(r, volume)
           e == [r EXCEPT !.fade_step = @ + 1]
<1>1. volume \in Int
  BY FadeAssumption DEF Volume
<1>2. CASE r.fading = "out" /\ FadeOver(r)
  <2>1. s = Ended(e)
    BY <1>2 DEF Mixed
  <2>2. e \in Piece
    BY DEF Piece
  <2>3. /\ e.fading = "out" /\ e.fade_step = r.fade_step + 1 /\ r.fade_step \in Int
        /\ e.music_volume = r.music_volume /\ e.heard = r.heard /\ e.owed = 1
        /\ Same(r, e)
    BY <1>2 DEF Piece, Same, Stays
  <2> HIDE DEF e
  <2>4. Numbers(e)
    BY <1>2, <2>3 DEF Numbers
  <2>5. Halts(e, Ended(e)) /\ Ended(e).owed = 0
    BY <2>2, <2>3, EndedHalts
  <2>6. Halts(r, Ended(e))
    BY <2>3, <2>5 DEF Same, Stays, Halts
  <2> QED
    BY <1>2, <2>1, <2>2, <2>4, <2>5, <2>6, HaltedKept
<1>3. CASE ~(r.fading = "out" /\ FadeOver(r))
  <2>1. s = IF more THEN f ELSE Ended(f)
    BY <1>3 DEF Mixed
  <2>2. /\ f \in Piece /\ Same(r, f) /\ f.owed = 1 /\ f.fading \in {r.fading, "no"}
        /\ Numbers(f) /\ f.music_volume = r.music_volume
        /\ Full(f) => f.heard = volume \/ (Full(r) /\ f.heard = r.heard)
    <3>1. CASE r.fading = "no"
      BY <3>1 DEF Same, Stays
    <3>2. CASE r.fading # "no" /\ FadeOver(r)
      <4>1. r.fading = "in" /\ f = [r EXCEPT !.fade_step = @ + 1, !.fading = "no"]
        BY <1>3, <3>2 DEF Piece, Fading
      <4> HIDE DEF f
      <4>2. r.fade_step + 1 \in Int /\ "no" \in Fading
        BY DEF Piece, Fading
      <4>3. f \in Piece
        BY <4>1, <4>2, Zenon DEF Piece
      <4>4. /\ Same(r, f) /\ f.owed = 1 /\ f.fading = "no"
            /\ f.music_volume = r.music_volume /\ f.heard = r.heard
        BY <4>1 DEF Same, Stays, Piece
      <4> QED
        BY <3>2, <4>1, <4>3, <4>4 DEF Numbers, Full
    <3>3. CASE r.fading # "no" /\ ~FadeOver(r)
      <4>1. f = FadeStep(r, volume)
        BY <3>3
      <4> HIDE DEF f
      <4> QED
        BY <1>1, <3>3, <4>1, FadeStepSame, FadeStepKept
    <3> QED
      BY <3>1, <3>2, <3>3
  <2> HIDE DEF f
  <2>3. CASE more
    BY <2>1, <2>2, <2>3
  <2>4. CASE ~more
    <3>1. Halts(f, Ended(f)) /\ Ended(f).owed = 0
      BY <2>2, EndedHalts
    <3>2. Halts(r, Ended(f))
      BY <2>2, <3>1 DEF Same, Stays, Halts
    <3> QED
      BY <2>1, <2>2, <2>4, <3>1, <3>2, HaltedKept
  <2> QED
    BY <2>3, <2>4
<1> QED
  BY <1>2, <1>3

LEMMA FadedInKept ==
    ASSUME NEW r \in Piece, Numbers(r), NEW n \in Nat,
           r.fading = "out" => n > 0 /\ r.fade_step \in 2 .. n + 1
    PROVE  LET s == FadedIn(r, n)
           IN  /\ Numbers(s) /\ s.music_volume = r.music_volume /\ s.heard = r.heard
               /\ n > 0 => ~Full(s)
<1>1. CASE n = 0
  <2> DEFINE s == [r EXCEPT !.fading = "no", !.fade_step = 0, !.fade_steps = 0]
  <2>1. s.fading = "no" /\ s.music_volume = r.music_volume /\ s.heard = r.heard
    BY DEF Piece
  <2>2. FadedIn(r, n) = s
    BY <1>1 DEF FadedIn
  <2> HIDE DEF s
  <2> QED
    BY <1>1, <2>1, <2>2 DEF Numbers
<1>2. CASE n # 0
  <2> DEFINE a == IF r.fading = "out" THEN n - r.fade_step + 1 ELSE 0
             s == [r EXCEPT !.fading = "in", !.fade_steps = n, !.fade_step = a]
  <2>1. a \in Nat /\ a < n
    BY <1>2
  <2>2. FadedIn(r, n) = s
    BY <1>2 DEF FadedIn
  <2> HIDE DEF a
  <2>3. /\ s.fading = "in" /\ s.fade_steps = n /\ s.fade_step = a
        /\ s.music_volume = r.music_volume /\ s.heard = r.heard
    BY DEF Piece
  <2> HIDE DEF s
  <2> QED
    BY <2>1, <2>2, <2>3 DEF Numbers, Full, FadeOver
<1> QED
  BY <1>1, <1>2

LEMMA FadedOutKept ==
    ASSUME NEW r \in Piece, Measured(r), Numbers(r), NEW n \in Nat
    PROVE  LET s == FadedOut(r, n)
           IN  /\ Numbers(s) /\ s.music_volume = r.music_volume /\ s.heard = r.heard
               /\ s.fading = "out"
<1> DEFINE a == CASE r.fading = "no"  -> 0
                  [] r.fading = "out" -> Quotient(r.fade_step * n, r.fade_steps)
                  [] r.fading = "in"  ->
                       Quotient((r.fade_steps - r.fade_step + 1) * n, r.fade_steps)
           s == [r EXCEPT !.fading = "out", !.fade_steps = n, !.fade_step = a]
<1>1. FadedOut(r, n) = s
  BY DEF FadedOut
<1>2. a \in Nat
  <2>1. \A x \in Nat, k \in Nat : k > 0 => Quotient(x, k) \in Nat
    BY DEF Quotient
  <2>2. r.fading \in {"no", "in", "out"} /\ r.fade_steps \in Nat /\ r.fade_step \in Int
    BY DEF Piece, Fading
  <2>3. CASE r.fading = "no"
    BY <2>3
  <2>4. CASE r.fading = "out"
    <3> DEFINE x == r.fade_step * n
    <3>1. x \in Nat /\ r.fade_steps > 0
      BY <2>2, <2>4 DEF Numbers, Measured
    <3>2. a = Quotient(x, r.fade_steps)
      BY <2>4
    <3> HIDE DEF x, a
    <3> QED
      BY <2>1, <2>2, <3>1, <3>2
  <2>5. CASE r.fading = "in"
    <3> DEFINE y == r.fade_steps - r.fade_step + 1
               x == y * n
    <3>1. y \in Nat /\ r.fade_steps > 0
      BY <2>2, <2>5 DEF Numbers, Measured
    <3>2. a = Quotient(x, r.fade_steps)
      BY <2>5
    <3> HIDE DEF y
    <3>3. x \in Nat
      BY <3>1
    <3> HIDE DEF x, a
    <3> QED
      BY <2>1, <2>2, <3>1, <3>2, <3>3
  <2> QED
    BY <2>2, <2>3, <2>4, <2>5
<1> HIDE DEF a
<1>3. /\ s.fade_step = a /\ s.fading = "out" /\ s.music_volume = r.music_volume
      /\ s.heard = r.heard
  BY DEF Piece
<1> HIDE DEF s
<1> QED
  BY <1>1, <1>2, <1>3 DEF Numbers

LEMMA StartedKept ==
    ASSUME NEW r \in Piece, Numbers(r), NEW volume \in Volume, NEW endless \in BOOLEAN
    PROVE  LET s == Started(r, volume, endless, TRUE)
           IN  /\ Numbers(s) /\ s.music_volume = r.music_volume
               /\ s.fading = r.fading /\ (Full(s) <=> Full(r))
               /\ r.fading # "in" => s.heard = volume
<1> DEFINE h == IF r.fading = "in" THEN 0 ELSE volume
           s == [r EXCEPT !.playing = TRUE, !.heard = h, !.endless = endless, !.owed = 1]
<1>1. Started(r, volume, endless, TRUE) = s
  BY DEF Started
<1>2. h \in Volume /\ (r.fading # "in" => h = volume)
  BY FadeAssumption DEF Volume
<1> HIDE DEF h
<1>3. /\ s.heard = h /\ s.fading = r.fading /\ s.music_volume = r.music_volume
      /\ s.fade_step = r.fade_step /\ s.fade_steps = r.fade_steps
  BY DEF Piece
<1> HIDE DEF s
<1> QED
  BY <1>1, <1>2, <1>3 DEF Numbers, Full, FadeOver

\* The players: what plays is owed its end, and nothing else fades.
Players ==
    /\ music_volume \in Volume
    /\ \A m \in Music :
         /\ Kept(mus[m])
         /\ mus[m].fading # "no" => m = music_playing \/ mus[m].is_multimusic
    /\ music_playing # NoMusic => mus[music_playing].owed = 1

\* The single player is heard at its volume once its fade is over, but for a call
\* that is about to give it another.
InTune ==
    (music_playing # NoMusic /\ Full(mus[music_playing])) =>
        mus[music_playing].heard = music_volume
Retuned ==
    \E k \in DOMAIN app : app[k].op = "volume" /\ app[k].m \in {NoMusic, music_playing}

\* A stream that neither ends by itself nor fades out.
Lasts(r) == r.is_multimusic /\ r.endless /\ r.fading # "out"

\* What a call has still to name is there, and what is to be freed when it stops
\* does not stop meanwhile.
Pending(s) ==
    /\ s.op \in {"fadeout", "fadein", "volume", "wait", "release"}
    /\ s.m # NoMusic =>
         /\ mus[s.m].loaded
         /\ mus[s.m].free_on_stop => s.op = "release" \/ Lasts(mus[s.m])
    /\ s.op = "fadeout" => s.m # NoMusic /\ Lasts(mus[s.m])
    /\ s.op = "fadein" => s.m # music_playing /\ ~mus[s.m].is_multimusic
    /\ s.op = "volume" => /\ s.n \in Volume
                          /\ s.m \in {NoMusic, music_playing} => s.n = music_volume

\* Only what a cross-fade starts is named second.
Listed ==
    \A k \in DOMAIN app :
        /\ Pending(app[k])
        /\ app[k].op # "fadein" => k = 1
        /\ app[k].op \in {"fadein", "volume"} => k = Len(app)

Steady == Players /\ (Retuned \/ InTune) /\ Listed

LEMMA StepMusic ==
    ASSUME Typing, NEW k \in DOMAIN app
    PROVE  app[k].m \in Music \cup {NoMusic}
<1>1. app[k] \in StepType
  BY DEF Typing
<1> QED
  BY <1>1 DEF StepType

\* One piece of music changes.
LEMMA OnePlayers ==
    ASSUME Typing, Players, NEW t \in Music, NEW s, mus' = [mus EXCEPT ![t] = s],
           Kept(s), s.fading # "no" => t = music_playing' \/ s.is_multimusic,
           music_volume' = music_volume,
           music_playing' = music_playing \/ (music_playing = t /\ music_playing' = NoMusic),
           music_playing' = t => s.owed = 1
    PROVE  /\ Players'
           /\ mus'[t] = s /\ \A x \in Music \ {t} : mus'[x] = mus[x]
<1>1. mus'[t] = s /\ \A x \in Music \ {t} : mus'[x] = mus[x]
  BY DEF Typing
<1>2. \A x \in Music :
        /\ Kept(mus'[x])
        /\ mus'[x].fading # "no" => x = music_playing' \/ mus'[x].is_multimusic
  BY <1>1 DEF Players
<1>3. music_playing' # NoMusic => mus'[music_playing'].owed = 1
  BY <1>1 DEF Players, Typing
<1>4. Players'
  BY <1>2, <1>3 DEF Players, Kept, Numbers, Full, FadeOver
<1> QED
  BY <1>1, <1>4

LEMMA HaltPlayers ==
    ASSUME Typing, AtRest, Players, NEW m \in Music \cup {NoMusic},
           m # NoMusic => m = music_playing \/ mus[m].is_multimusic,
           Halt(m), UNCHANGED music_volume
    PROVE  /\ Players' /\ (InTune => InTune')
           /\ music_playing' \in {music_playing, NoMusic}
           /\ \A x \in Music : x # Target(m) => mus'[x] = mus[x]
<1> DEFINE t == Target(m)
<1>1. CASE t = NoMusic
  <2>1. UNCHANGED <<mus, music_playing, mix_streams>>
    BY <1>1 DEF Halt
  <2> QED
    BY <2>1 DEF Players, InTune, Full, FadeOver
<1>2. CASE t # NoMusic
  <2> DEFINE r == mus[t]
             f == Ended(r).free_on_stop /\ ~r.is_multimusic
             s == [Ended(r) EXCEPT !.free_on_stop = f]
  <2>1. t \in Music /\ r.loaded /\ r.owed = 1 /\ r \in Piece /\ Numbers(r)
    BY <1>2 DEF Target, Typing, AtRest, Players, Kept
  <2>2. /\ mus' = [mus EXCEPT ![t] = s]
        /\ music_playing' = IF t = music_playing THEN NoMusic ELSE music_playing
    BY <1>2, <2>1 DEF Halt
  <2> HIDE DEF t
  <2>3. /\ Ended(r) \in Piece /\ Numbers(Ended(r)) /\ Ended(r).fading = "no"
        /\ Ended(r).owed = 0 /\ Ended(r).is_multimusic = FALSE
    BY <2>1, EndedHalts, HaltedKept DEF Halts
  <2>4. /\ s.fading = "no" /\ s.owed = 0 /\ s.is_multimusic = FALSE
        /\ s.music_volume = Ended(r).music_volume /\ s.heard = Ended(r).heard
    BY <2>3 DEF Piece
  <2> HIDE DEF r, f, s
  <2>5. Kept(s)
    BY <2>3, <2>4 DEF Kept, Numbers
  <2>6. t # NoMusic
    BY <2>1, MusicAssumption
  <2>7. /\ Players' /\ mus'[t] = s /\ \A x \in Music \ {t} : mus'[x] = mus[x]
        /\ music_playing' # NoMusic => music_playing' # t /\ music_playing' = music_playing
    BY <2>1, <2>2, <2>4, <2>5, <2>6, OnePlayers
  <2>8. InTune => InTune'
    BY <2>7 DEF InTune, Full, FadeOver, Typing
  <2> QED
    BY <2>2, <2>7, <2>8 DEF t
<1> QED
  BY <1>1, <1>2

LEMMA FadeOutPlayers ==
    ASSUME Typing, AtRest, Players, NEW m \in Music, NEW n \in Nat,
           m = music_playing \/ mus[m].is_multimusic,
           FadeOut(m, n), UNCHANGED music_volume
    PROVE  /\ Players' /\ (InTune => InTune')
           /\ music_playing' \in {music_playing, NoMusic}
           /\ \A x \in Music : x # m => mus'[x] = mus[x]
<1>1. CASE n = 0
  <2>1. Halt(m) /\ m # NoMusic /\ Target(m) = m
    BY <1>1, MusicAssumption DEF FadeOut, Target
  <2> QED
    BY <2>1, HaltPlayers
<1>2. CASE n # 0
  <2> DEFINE r == mus[m]
             s == FadedOut(r, n)
  <2>1. m # NoMusic /\ r.loaded /\ r \in Piece /\ Measured(r) /\ Kept(r) /\ n > 0
    BY <1>2, MusicAssumption DEF Typing, AtRest, Players
  <2>2. /\ Bounded(s) /\ mus' = [mus EXCEPT ![m] = s]
        /\ UNCHANGED <<music_playing, mix_streams>>
    BY <1>2, <2>1 DEF FadeOut
  <2>3. /\ Same(r, s) /\ s.owed = r.owed /\ s.fading = "out"
    BY <2>1, <2>2, FadedOutSame
  <2>4. Numbers(s)
    BY <2>1, FadedOutKept DEF Kept
  <2> HIDE DEF s
  <2>5. Kept(s) /\ ~Full(s)
    BY <2>1, <2>3, <2>4 DEF Kept, Full, Same, Stays
  <2>6. /\ s.fading # "no" => m = music_playing' \/ s.is_multimusic
        /\ music_playing' = m => s.owed = 1
    BY <2>2, <2>3, MusicAssumption DEF Same, Stays, Players
  <2> HIDE DEF r
  <2>7. Players' /\ mus'[m] = s /\ \A x \in Music \ {m} : mus'[x] = mus[x]
    BY <2>2, <2>5, <2>6, OnePlayers
  <2>8. InTune => InTune'
    BY <2>2, <2>5, <2>7 DEF InTune, Full, FadeOver, Typing
  <2> QED
    BY <2>2, <2>7, <2>8
<1> QED
  BY <1>1, <1>2

LEMMA FadeInPlayers ==
    ASSUME Typing, AtRest, Players, NEW m \in Music, NEW n \in Nat, NEW endless \in BOOLEAN,
           (InPlayQueue(m) /\ mus[m].fading # "no") => n > 0 /\ mus[m].fade_step \in 2 .. n + 1,
           FadeInStream(m, n, endless, TRUE), UNCHANGED <<music_volume, music_playing>>
    PROVE  Players' /\ (InTune => InTune')
<1>1. CASE music_playing = m \/ (n > 0 /\ mus[m].fading = "in") \/ ~mus[m].loaded
  <2>1. UNCHANGED <<mus, music_playing, mix_streams>>
    BY <1>1 DEF FadeInStream
  <2> QED
    BY <2>1 DEF Players, InTune, Full, FadeOver
<1>2. CASE ~(music_playing = m \/ (n > 0 /\ mus[m].fading = "in") \/ ~mus[m].loaded)
  <2> DEFINE c == mus[m]
             f == FadedIn(c, n)
             r == [f EXCEPT !.is_multimusic = TRUE, !.music_active = TRUE,
                            !.music_halted = FALSE]
             s == Started(r, r.music_volume, endless, TRUE)
  <2>1. c \in Piece /\ Measured(c) /\ Kept(c) /\ c.fading \in {"no", "in", "out"}
    BY DEF Typing, Players, Piece, Fading
  <2>2. InPlayQueue(m) <=> c.is_multimusic
    BY QueueOfMusic DEF AtRest
  <2>3. c.fading # "no" => c.is_multimusic
    BY <1>2 DEF Players
  <2>4. /\ c.fading # "no" => n > 0 /\ c.fade_step \in 2 .. n + 1
        /\ n > 0 => c.fading # "in"
    BY <1>2, <2>2, <2>3
  <2>5. /\ InPlayQueue(m) => mus' = [mus EXCEPT ![m] = r]
        /\ ~InPlayQueue(m) => mus' = [mus EXCEPT ![m] = s]
    BY <1>2 DEF FadeInStream
  <2> HIDE DEF c
  <2>6. /\ f \in Piece /\ f.owed = c.owed /\ f.fading = (IF n = 0 THEN "no" ELSE "in")
        /\ Same(c, f)
    BY <2>1, FadedInSame
  <2>7. /\ Numbers(f) /\ f.music_volume = c.music_volume /\ f.heard = c.heard
        /\ n > 0 => ~Full(f)
    BY <2>1, <2>4, FadedInKept DEF Kept
  <2> HIDE DEF f
  <2>8. /\ r \in Piece /\ r.is_multimusic = TRUE /\ r.owed = c.owed /\ r.fading = f.fading
        /\ r.music_volume = f.music_volume /\ r.heard = f.heard
        /\ r.fade_step = f.fade_step /\ r.fade_steps = f.fade_steps
    BY <2>6 DEF Piece
  <2> HIDE DEF r
  <2>9. Numbers(r) /\ (n > 0 => ~Full(r)) /\ r.music_volume \in Volume /\ r.music_volume \in Int
    BY <2>7, <2>8, FadeAssumption DEF Numbers, Full, FadeOver, Volume
  <2>10. CASE InPlayQueue(m)
    <3>1. r.owed = 1 /\ (Full(r) => r.heard = r.music_volume)
      <4>1. CASE n > 0
        BY <2>1, <2>2, <2>8, <2>9, <2>10, <4>1 DEF Kept
      <4>2. CASE n = 0
        <5>1. c.fading = "no"
          BY <2>4, <4>2
        <5> QED
          BY <2>1, <2>2, <2>7, <2>8, <2>10, <5>1 DEF Kept, Full
      <4> QED
        BY <4>1, <4>2
    <3>2. Kept(r)
      BY <2>8, <2>9, <3>1 DEF Kept
    <3>3. Players' /\ \A x \in Music \ {m} : mus'[x] = mus[x]
      BY <1>2, <2>5, <2>8, <2>10, <3>1, <3>2, OnePlayers
    <3> QED
      BY <1>2, <3>3 DEF InTune, Full, FadeOver, Typing
  <2>11. CASE ~InPlayQueue(m)
    <3> DEFINE v == r.music_volume
    <3>0. s = Started(r, v, endless, TRUE) /\ v \in Volume /\ v \in Int /\ r \in Piece /\ Numbers(r)
      BY <2>8, <2>9
    <3> HIDE DEF s, v
    <3>1. /\ Numbers(s) /\ s.music_volume = r.music_volume
          /\ (Full(s) <=> Full(r)) /\ (r.fading # "in" => s.heard = v)
      BY <3>0, StartedKept
    <3>3. s.is_multimusic = TRUE /\ s.owed = 1
      BY <2>8, <3>0 DEF Started, Piece
    <3>4. Full(s) => s.heard = s.music_volume
      BY <2>6, <2>8, <2>9, <3>1 DEF v
    <3>5. Kept(s)
      BY <3>1, <3>3, <3>4 DEF Kept
    <3>6. Players' /\ \A x \in Music \ {m} : mus'[x] = mus[x]
      BY <1>2, <2>5, <2>11, <3>3, <3>5, OnePlayers
    <3> QED
      BY <1>2, <3>6 DEF InTune, Full, FadeOver, Typing
  <2> QED
    BY <2>10, <2>11
<1> QED
  BY <1>1, <1>2

LEMMA NotRetuned ==
    ASSUME Steady, Free \/ Head(app).op # "volume", Typing
    PROVE  InTune
<1>1. ASSUME NEW k \in DOMAIN app, app[k].op = "volume" PROVE FALSE
  <2>1. k = 1 /\ app # <<>>
    BY <1>1 DEF Steady, Listed, Typing
  <2> QED
    BY <1>1, <2>1 DEF Free, Typing
<1> QED
  BY <1>1 DEF Steady, Retuned

LEMMA NoneListed == ASSUME app' = <<>> PROVE Listed'
  BY DEF Listed

LEMMA OneListed ==
    ASSUME NEW s, app' = <<s>>, s.op # "fadein", Pending(s)'
    PROVE  Listed'
<1>1. DOMAIN app' = {1} /\ app'[1] = s /\ Len(app') = 1
  OBVIOUS
<1> QED
  BY <1>1 DEF Listed, Pending, Lasts

\* The mixers take nothing from the music that a call has still to name.
LEMMA ListedKept ==
    ASSUME Sound, Listed, app' = app, music_volume' = music_volume,
           music_playing' \in {music_playing, NoMusic},
           \A k \in DOMAIN app : app[k].m \in Music =>
             /\ mus'[app[k].m].loaded = mus[app[k].m].loaded
             /\ mus'[app[k].m].free_on_stop = mus[app[k].m].free_on_stop
             /\ mus'[app[k].m].is_multimusic => mus[app[k].m].is_multimusic
             /\ Lasts(mus[app[k].m]) => Lasts(mus'[app[k].m])
    PROVE  Listed'
<1> SUFFICES ASSUME NEW k \in DOMAIN app PROVE Pending(app[k])'
  BY DEF Listed
<1>1. app[k].m \in Music \cup {NoMusic} /\ (app[k].op = "fadein" => app[k].m \in Music)
  BY StepMusic DEF Sound, Releasing
<1>2. Pending(app[k])
  BY DEF Listed
<1>3. app[k].m # NoMusic => app[k].m \in Music
  BY <1>1
<1>4. /\ app[k].op = "fadein" => app[k].m # music_playing'
      /\ app[k].m \in {NoMusic, music_playing'} => app[k].m \in {NoMusic, music_playing}
  BY <1>1, <1>2, MusicAssumption DEF Pending
<1> DEFINE s == app[k]
           r == mus[s.m]
           q == mus'[s.m]
<1>5. s.m # NoMusic =>
        /\ q.loaded = r.loaded /\ q.free_on_stop = r.free_on_stop
        /\ q.is_multimusic => r.is_multimusic
        /\ Lasts(r) => Lasts(q)
  BY <1>3
<1>6. app'[k] = s
  OBVIOUS
<1> HIDE DEF s, q, r
<1>7. /\ s.op \in {"fadeout", "fadein", "volume", "wait", "release"}
      /\ s.m # NoMusic => q.loaded /\ (q.free_on_stop => s.op = "release" \/ Lasts(q))
      /\ s.op = "fadeout" => s.m # NoMusic /\ Lasts(q)
      /\ s.op = "fadein" => ~q.is_multimusic
  BY <1>1, <1>2, <1>3, <1>5, MusicAssumption DEF Pending, s, r
<1> QED
  BY <1>2, <1>4, <1>6, <1>7 DEF Pending, s, q, Lasts

LEMMA TuneKept ==
    ASSUME app' = app, music_playing' \in {music_playing, NoMusic},
           Retuned \/ InTune, InTune => InTune'
    PROVE  (Retuned \/ InTune)'
<1>1. CASE InTune'
  BY <1>1
<1>2. CASE Retuned /\ music_playing' = music_playing
  BY <1>2 DEF Retuned
<1>3. CASE music_playing' = NoMusic
  BY <1>3 DEF InTune
<1> QED
  BY <1>1, <1>2, <1>3

LEMMA SameSteady ==
    ASSUME Sound, Steady, UNCHANGED <<mus, music_playing, music_volume, app>>
    PROVE  Steady'
<1>1. Players' /\ (InTune => InTune')
  BY DEF Steady, Players, InTune, Kept, Numbers, Full, FadeOver
<1>2. Listed'
  BY ListedKept DEF Steady
<1> QED
  BY <1>1, <1>2, TuneKept DEF Steady

-----------------------------------------------------------------------------
(* The mixers.                                                              *)

\* What lasts goes on when it is mixed.
LEMMA MixedLasts ==
    ASSUME NEW r \in Piece, Measured(r), Kept(r), r.owed = 1, NEW volume \in Volume,
           NEW more \in Outcomes(r), NEW s, s = Mixed(r, volume, more)
    PROVE  /\ Kept(s) \/ r.is_multimusic
           /\ r.is_multimusic /\ volume = r.music_volume => Kept(s)
           /\ s.loaded = r.loaded /\ s.free_on_stop = r.free_on_stop
           /\ s.is_multimusic => r.is_multimusic
           /\ Lasts(r) => Lasts(s)
           /\ s.fading # "no" => s.is_multimusic = r.is_multimusic /\ r.fading # "no"
           /\ ~s.playing \/ (s.playing = r.playing /\ s.owed = 1)
           /\ r.playing /\ ~s.playing => s.fading = "no"
           /\ s.playing /\ Full(s) => s.heard = volume \/ (Full(r) /\ s.heard = r.heard)
<1>1. more \in BOOLEAN /\ (r.endless => more = TRUE)
  BY DEF Outcomes
<1>2. /\ Numbers(s)
      /\ \/ Halts(r, s) /\ s.owed = 0 /\ (r.fading = "out" \/ ~more)
         \/ /\ Same(r, s) /\ s.owed = 1 /\ s.fading \in {r.fading, "no"}
            /\ s.music_volume = r.music_volume
            /\ Full(s) => s.heard = volume \/ (Full(r) /\ s.heard = r.heard)
  BY <1>1, MixedKept DEF Kept
<1>3. CASE Halts(r, s) /\ s.owed = 0 /\ (r.fading = "out" \/ ~more)
  <2>1. ~Lasts(r)
    BY <1>1, <1>3 DEF Lasts
  <2> QED
    BY <1>2, <1>3, <2>1 DEF Halts, Kept
<1>4. CASE /\ Same(r, s) /\ s.owed = 1 /\ s.fading \in {r.fading, "no"}
           /\ s.music_volume = r.music_volume
           /\ Full(s) => s.heard = volume \/ (Full(r) /\ s.heard = r.heard)
  BY <1>2, <1>4 DEF Same, Stays, Kept, Lasts
<1> QED
  BY <1>2, <1>3, <1>4

LEMMA MixerSteady ==
    ASSUME Sound, Steady, music_mixer
    PROVE  Steady'
<1>1. CASE ~(music_playing # NoMusic /\ music_active)
  BY <1>1, SameSteady DEF music_mixer
<1>2. CASE music_playing # NoMusic /\ music_active
  <2> DEFINE m == music_playing
             r == mus[m]
  <2>1. /\ m \in Music /\ r \in Piece /\ Measured(r) /\ Kept(r) /\ r.owed = 1
        /\ r.playing = TRUE /\ r.is_multimusic = FALSE /\ music_volume \in Volume
    BY <1>2 DEF Sound, Typing, OnePlayerOnly, PlayerOnly, Steady, Players, Piece
  <2>2. PICK more \in Outcomes(r) :
          LET q == Mixed(r, music_volume, more)
          IN  /\ mus' = [mus EXCEPT ![m] = q]
              /\ music_playing' = IF q.playing THEN m ELSE NoMusic
    BY <1>2 DEF music_mixer
  <2>3. app' = app /\ music_volume' = music_volume
    BY DEF music_mixer
  <2> DEFINE s == Mixed(r, music_volume, more)
  <2>4. /\ Kept(s) /\ s.loaded = r.loaded /\ s.free_on_stop = r.free_on_stop
        /\ s.is_multimusic => r.is_multimusic
        /\ Lasts(r) => Lasts(s)
        /\ ~s.playing \/ s.owed = 1
        /\ ~s.playing => s.fading = "no"
        /\ s.playing /\ Full(s) => s.heard = music_volume \/ (Full(r) /\ s.heard = r.heard)
    BY <2>1, MixedLasts
  <2>5. /\ mus' = [mus EXCEPT ![m] = s]
        /\ music_playing' = IF s.playing THEN m ELSE NoMusic
    BY <2>2
  <2>6. m # NoMusic
    BY <1>2
  <2> HIDE DEF s, r, m
  <2>7. /\ music_playing' = music_playing \/ (music_playing = m /\ music_playing' = NoMusic)
        /\ s.fading # "no" => m = music_playing' \/ s.is_multimusic
        /\ music_playing' = m => s.owed = 1
        /\ Sound /\ Typing /\ Players /\ Listed
    BY <2>4, <2>5, <2>6 DEF m, Sound, Steady
  <2>8. Players' /\ mus'[m] = s /\ \A x \in Music \ {m} : mus'[x] = mus[x]
    BY <2>1, <2>3, <2>4, <2>5, <2>7, OnePlayers
  <2>9. InTune => InTune'
    BY <2>3, <2>4, <2>5, <2>6, <2>8 DEF InTune, Full, FadeOver, m, r
  <2>10. Listed'
    <3>1. \A x \in Music :
            /\ mus'[x].loaded = mus[x].loaded /\ mus'[x].free_on_stop = mus[x].free_on_stop
            /\ mus'[x].is_multimusic => mus[x].is_multimusic
            /\ Lasts(mus[x]) => Lasts(mus'[x])
      BY <2>4, <2>8 DEF r
    <3>2. music_playing' \in {music_playing, NoMusic}
      BY <2>7
    <3> QED
      BY <2>3, <2>7, <3>1, <3>2, ListedKept
  <2> QED
    BY <2>3, <2>7, <2>8, <2>9, <2>10, TuneKept DEF Steady
<1> QED
  BY <1>1, <1>2

LEMMA MixedPlace ==
    ASSUME Sound, mx.pc # "idle", mx.i <= Len(mix_streams)
    PROVE  mx.i \in DOMAIN mix_streams /\ mix_streams[mx.i] \in Music
<1>1. mx \in MixerState /\ Typing
  BY DEF Sound, Typing
<1>2. mx \in [pc : {"streams", "clean"}, i : Nat \ {0}]
  BY <1>1 DEF MixerState, MixIdle
<1>3. mx.i \in Nat /\ mx.i >= 1
  BY <1>2
<1>4. mx.i \in DOMAIN mix_streams
  BY <1>1, <1>3, QueueOfMusic
<1> QED
  BY <1>1, <1>4, QueueOfMusic

LEMMA StreamsSteady ==
    ASSUME Sound, Steady, MixStream
    PROVE  Steady'
<1> DEFINE m == mix_streams[mx.i]
           r == mus[m]
<1>1. mx.i \in DOMAIN mix_streams /\ m \in Music
  BY MixedPlace DEF MixStream
<1>2. UNCHANGED <<music_playing, music_volume, app>>
  BY DEF MixStream
<1>3. CASE ~r.music_active
  BY <1>2, <1>3, SameSteady DEF MixStream
<1>4. CASE r.music_active
  <2>1. r.is_multimusic /\ r \in Piece /\ Measured(r) /\ Kept(r)
    BY <1>1, <1>4 DEF Sound, OnePlayerOnly, StreamOnly, Typing, Steady, Players
  <2>2. m # music_playing
    <3>1. InPlayQueue(m)
      BY <1>1 DEF InPlayQueue
    <3> QED
      BY <1>1, <3>1, MusicAssumption DEF Sound, OnePlayerOnly, PlayerOnly
  <2> DEFINE v == r.music_volume
  <2>3. r.owed = 1 /\ v \in Volume
    BY <2>1 DEF Kept, Numbers
  <2>4. PICK more \in Outcomes(r) : mus' = [mus EXCEPT ![m] = Mixed(r, v, more)]
    <3>1. \E more \in Outcomes(mus[m]) :
            mus' = [mus EXCEPT ![m] = Mixed(@, @.music_volume, more)]
      BY <1>4 DEF MixStream
    <3> QED
      BY <3>1
  <2> DEFINE s == Mixed(r, v, more)
  <2>5. /\ Kept(s) /\ s.loaded = r.loaded /\ s.free_on_stop = r.free_on_stop
        /\ s.is_multimusic => r.is_multimusic
        /\ Lasts(r) => Lasts(s)
        /\ s.fading # "no" => s.is_multimusic = r.is_multimusic
    <3>1. /\ r \in Piece /\ Measured(r) /\ Kept(r) /\ r.owed = 1 /\ v \in Volume
          /\ r.is_multimusic /\ v = r.music_volume /\ more \in Outcomes(r)
          /\ s = Mixed(r, v, more)
      BY <2>1, <2>3, <2>4
    <3> HIDE DEF s, v, r, m
    <3>2. Kept(s)
      BY <3>1, MixedLasts
    <3>3. s.loaded = r.loaded /\ s.free_on_stop = r.free_on_stop
      BY <3>1, MixedLasts
    <3>4. (s.is_multimusic => r.is_multimusic) /\ (Lasts(r) => Lasts(s))
      BY <3>1, MixedLasts
    <3>5. s.fading # "no" => s.is_multimusic = r.is_multimusic
      BY <3>1, MixedLasts
    <3> QED
      BY <3>2, <3>3, <3>4, <3>5
  <2>6. mus' = [mus EXCEPT ![m] = s]
    BY <2>4
  <2> HIDE DEF s, v, m
  <2>7. Sound /\ Typing /\ Players /\ Listed /\ (Retuned \/ InTune)
    BY DEF Sound, Steady
  <2> HIDE DEF r
  <2>8. Players' /\ mus'[m] = s /\ \A x \in Music \ {m} : mus'[x] = mus[x]
    BY <1>1, <1>2, <2>1, <2>2, <2>5, <2>6, <2>7, OnePlayers
  <2>9. InTune => InTune'
    BY <1>2, <2>2, <2>7, <2>8 DEF InTune, Full, FadeOver, Typing
  <2>10. \A x \in Music :
            /\ mus'[x].loaded = mus[x].loaded /\ mus'[x].free_on_stop = mus[x].free_on_stop
            /\ mus'[x].is_multimusic => mus[x].is_multimusic
            /\ Lasts(mus[x]) => Lasts(mus'[x])
    BY <2>5, <2>8 DEF r
  <2>11. Listed'
    BY <1>2, <2>7, <2>10, ListedKept
  <2> QED
    BY <1>2, <2>7, <2>8, <2>9, <2>11, TuneKept DEF Steady
<1> QED
  BY <1>3, <1>4

LEMMA GoneKept == Kept(Gone)
<1>1. Gone.music_volume = MIX_MAX_VOLUME /\ Gone.heard = MIX_MAX_VOLUME
  BY DEF Gone, Fresh
<1> QED
  BY <1>1, GoneFields, FadeAssumption DEF Kept, Numbers, Volume

LEMMA CleanSteady ==
    ASSUME Sound, Steady, CleanStream
    PROVE  Steady'
<1> DEFINE m == mix_streams[mx.i]
<1>1. mx.i \in DOMAIN mix_streams /\ m \in Music /\ InPlayQueue(m)
  BY MixedPlace DEF CleanStream, InPlayQueue
<1>2. UNCHANGED <<music_playing, music_volume, app>>
  BY DEF CleanStream
<1>3. CASE mus' = mus
  BY <1>2, <1>3, SameSteady
<1>4. CASE mus[m].music_halted /\ mus[m].free_on_stop /\ mus' = [mus EXCEPT ![m] = Gone]
  <2>1. ~mus[m].is_multimusic
    BY <1>1, <1>4 DEF Sound, OnePlayerOnly, StreamOnly
  <2>2. m # music_playing
    BY <1>1, MusicAssumption DEF Sound, OnePlayerOnly, PlayerOnly
  <2>3. Sound /\ Typing /\ Players /\ Listed /\ (Retuned \/ InTune)
    BY DEF Sound, Steady
  <2> HIDE DEF m
  <2>4. Players' /\ mus'[m] = Gone /\ \A x \in Music \ {m} : mus'[x] = mus[x]
    BY <1>1, <1>2, <1>4, <2>2, <2>3, GoneKept, GoneFields, OnePlayers
  <2>5. InTune => InTune'
    BY <1>2, <2>2, <2>3, <2>4 DEF InTune, Full, FadeOver, Typing
  <2>6. ASSUME NEW k \in DOMAIN app PROVE app[k].m # m
    <3> SUFFICES ASSUME app[k].m = m PROVE FALSE
      OBVIOUS
    <3>1. Pending(app[k]) /\ m # NoMusic
      BY <1>1, <2>3, MusicAssumption DEF Listed
    <3>2. app[k].op = "release"
      BY <1>4, <2>1, <3>1 DEF Pending, Lasts
    <3> QED
      BY <1>1, <2>3, <3>2 DEF Sound, Releasing, Plays
  <2>7. Listed'
    BY <1>2, <2>3, <2>4, <2>6, ListedKept
  <2> QED
    BY <1>2, <2>3, <2>4, <2>5, <2>7, TuneKept DEF Steady
<1> QED
  BY <1>3, <1>4 DEF CleanStream

-----------------------------------------------------------------------------
(* The application.                                                         *)

\* What Players and InTune read of a piece of music is as it was.
Alike(r, s) ==
    /\ s.fading = r.fading /\ s.fade_step = r.fade_step /\ s.fade_steps = r.fade_steps
    /\ s.is_multimusic = r.is_multimusic /\ s.owed = r.owed
    /\ s.music_volume = r.music_volume /\ s.heard = r.heard

LEMMA AlikePlayers ==
    ASSUME Typing, Players, NEW t \in Music, NEW s, mus' = [mus EXCEPT ![t] = s],
           Alike(mus[t], s), UNCHANGED <<music_volume, music_playing>>
    PROVE  /\ Players' /\ (InTune => InTune')
           /\ mus'[t] = s /\ \A x \in Music \ {t} : mus'[x] = mus[x]
<1>1. /\ Kept(s) /\ (s.fading # "no" => t = music_playing \/ s.is_multimusic)
      /\ music_playing = t => s.owed = 1
  BY MusicAssumption DEF Players, Alike, Kept, Numbers, Full, FadeOver
<1>2. Players' /\ mus'[t] = s /\ \A x \in Music \ {t} : mus'[x] = mus[x]
  BY <1>1, OnePlayers
<1>3. InTune => InTune'
  BY <1>2 DEF InTune, Full, FadeOver, Typing, Alike
<1> QED
  BY <1>2, <1>3

LEMMA SamePlayers ==
    ASSUME Players, UNCHANGED <<mus, music_volume, music_playing>>
    PROVE  Players' /\ (InTune => InTune')
  BY DEF Players, InTune, Kept, Numbers, Full, FadeOver

\* A call that is done when it returns.
LEMMA CallSteady ==
    ASSUME Sound, Steady, Free, app' = app, Players', InTune => InTune'
    PROVE  Steady'
<1>1. InTune
  BY NotRetuned DEF Sound
<1>2. Listed'
  BY NoneListed DEF Free
<1> QED
  BY <1>1, <1>2 DEF Steady

LEMMA LoadSteady ==
    ASSUME Sound, Steady, NEW m \in Music, Mix_LoadMUS(m)
    PROVE  Steady'
<1> DEFINE s == Fresh(music_volume)
<1>1. Typing /\ Players /\ m # music_playing
  BY MusicAssumption DEF Sound, Steady, Mix_LoadMUS, OnePlayerOnly, PlayerOnly
<1>2. /\ mus' = [mus EXCEPT ![m] = s] /\ Free
      /\ UNCHANGED <<music_playing, music_volume, app>>
  BY DEF Mix_LoadMUS, May
<1>3. /\ s.fading = "no" /\ s.owed = 0 /\ s.is_multimusic = FALSE
      /\ s.music_volume = music_volume /\ s.heard = MIX_MAX_VOLUME
  BY DEF Fresh
<1> HIDE DEF s
<1>4. Kept(s)
  BY <1>1, <1>3, FadeAssumption DEF Kept, Numbers, Players, Volume
<1>5. Players' /\ \A x \in Music \ {m} : mus'[x] = mus[x]
  BY <1>1, <1>2, <1>3, <1>4, OnePlayers
<1>6. InTune => InTune'
  BY <1>1, <1>2, <1>5 DEF InTune, Full, FadeOver, Typing
<1> QED
  BY <1>2, <1>5, <1>6, CallSteady

\* What a free stops under the lock.
LEMMA StopPlayers ==
    ASSUME Sound, Steady, NEW m \in Music, NEW waited \in BOOLEAN,
           waited \/ mus[m].owed = 1, Stop(m, waited), UNCHANGED music_volume
    PROVE  /\ Players' /\ (InTune => InTune')
           /\ mus'[m].loaded = mus[m].loaded
<1> DEFINE r == mus[m]
           s == FreedHalted(r, waited)
<1>1. Typing /\ Players /\ r \in Piece /\ Kept(r)
  BY DEF Sound, Steady, Typing, Players
<1>2. /\ mus' = [mus EXCEPT ![m] = s]
      /\ music_playing' = IF m = music_playing THEN NoMusic ELSE music_playing
  BY DEF Stop
<1>3. Halts(r, s) /\ Numbers(s) /\ s.owed # -1
  BY <1>1, HaltedHalts, EndedHalts, HaltedKept DEF FreedHalted, Kept
<1> HIDE DEF s, r
<1>4. Kept(s) /\ s.fading = "no" /\ s.loaded = r.loaded
  BY <1>3 DEF Halts, Kept
<1>5. music_playing' # m
  BY <1>2, MusicAssumption
<1>6. Players' /\ mus'[m] = s /\ \A x \in Music \ {m} : mus'[x] = mus[x]
  BY <1>1, <1>2, <1>4, <1>5, OnePlayers
<1>7. InTune => InTune'
  BY <1>1, <1>2, <1>5, <1>6 DEF InTune, Full, FadeOver, Typing
<1> QED
  BY <1>4, <1>6, <1>7 DEF r

LEMMA FreeSteady ==
    ASSUME Sound, Steady, NEW m \in Music, Mix_FreeMusic(m)
    PROVE  Steady'
<1>1. /\ Typing /\ Players /\ InTune /\ Nameable(m) /\ mus[m].loaded /\ m # NoMusic
      /\ UNCHANGED music_volume
  BY NotRetuned, MusicAssumption DEF Sound, Steady, Mix_FreeMusic, May, Nameable
<1> DEFINE multi == mus[m].is_multimusic
           a == Step("release", m, 0)
<1>w. PICK w : w = Step("wait", m, IF multi THEN 1 ELSE 0)
  OBVIOUS
<1>2. a.op = "release" /\ a.m = m /\ w.op = "wait" /\ w.m = m
  BY <1>w DEF Step
<1>3. \/ m # music_playing /\ ~multi /\ app' = <<a>> /\ UNCHANGED <<mus, music_playing>>
      \/ Waiting(m, multi) /\ app' = <<w>> /\ UNCHANGED <<mus, music_playing>>
      \/ (m = music_playing \/ multi) /\ Stop(m, FALSE) /\ app' = <<a>>
  BY <1>w DEF Mix_FreeMusic
<1> HIDE DEF a
<1>4. CASE app' = <<a>> /\ Players' /\ InTune' /\ mus'[m].loaded
  <2>1. Pending(a)'
    BY <1>2, <1>4 DEF Pending
  <2> QED
    BY <1>2, <1>4, <2>1, OneListed DEF Steady
<1>5. CASE m # music_playing /\ ~multi /\ app' = <<a>> /\ UNCHANGED <<mus, music_playing>>
  BY <1>1, <1>4, <1>5, SamePlayers
<1>6. CASE Waiting(m, multi) /\ app' = <<w>> /\ UNCHANGED <<mus, music_playing>>
  <2>1. ~mus'[m].free_on_stop /\ mus'[m].loaded
    BY <1>1, <1>6 DEF Waiting, Nameable
  <2>2. Pending(w)'
    BY <1>2, <2>1 DEF Pending
  <2> QED
    BY <1>1, <1>2, <1>6, <2>2, OneListed, SamePlayers DEF Steady
<1>7. CASE (m = music_playing \/ multi) /\ Stop(m, FALSE) /\ app' = <<a>>
  <2>1. mus[m].owed = 1
    BY <1>1, <1>7 DEF Players, Kept
  <2>2. Players' /\ InTune' /\ mus'[m].loaded
    BY <1>1, <1>7, <2>1, StopPlayers
  <2> QED
    BY <1>4, <1>7, <2>2
<1> QED
  BY <1>3, <1>5, <1>6, <1>7

\* What comes first in what is left of a call.
LEMMA FirstPending ==
    ASSUME Sound, Steady, ~Free
    PROVE  /\ Head(app) = app[1] /\ Head(app) \in StepType /\ Pending(Head(app))
           /\ Head(app).m \in Music \cup {NoMusic} /\ Head(app).n \in Nat
           /\ Head(app).endless \in BOOLEAN
           /\ Head(app).op \in {"fadein", "volume"} =>
                DOMAIN app = {1} /\ (app' = Tail(app) => app' = <<>>)
<1>1. app \in Seq(StepType) /\ app # <<>> /\ Listed
  BY DEF Sound, Typing, Free, Steady
<1>2. 1 \in DOMAIN app /\ Head(app) = app[1] /\ Head(app) \in StepType
  BY <1>1
<1>3. /\ Head(app).m \in Music \cup {NoMusic} /\ Head(app).n \in Nat
      /\ Head(app).endless \in BOOLEAN
  BY <1>2 DEF StepType
<1>4. /\ Pending(Head(app))
      /\ Head(app).op \in {"fadein", "volume"} => Len(app) = 1
  BY <1>1, <1>2 DEF Listed
<1>5. ASSUME Len(app) = 1 PROVE DOMAIN app = {1} /\ (app' = Tail(app) => app' = <<>>)
  <2>1. DOMAIN app = 1 .. 1
    BY <1>1, <1>5
  <2>2. app' = Tail(app) => app' = <<>>
    BY <1>1, <1>5
  <2> QED
    BY <2>1, <2>2
<1> QED
  BY <1>2, <1>3, <1>4, <1>5

LEMMA AgainSteady ==
    ASSUME Sound, Steady, FreeAgain
    PROVE  Steady'
<1>1. PICK m \in Music : /\ ~Free /\ Head(app).op = "wait" /\ m = Head(app).m
                         /\ Pending(Head(app)) /\ m # NoMusic
  BY FirstStep, FirstPending, MusicAssumption DEF FreeAgain
<1> DEFINE a == Step("release", m, 0)
<1>2. Stop(m, TRUE) /\ app' = <<a>> /\ UNCHANGED music_volume
  BY <1>1 DEF FreeAgain
<1>3. InTune /\ mus[m].loaded
  BY <1>1, NotRetuned DEF Sound, Pending
<1>4. a.op = "release" /\ a.m = m
  BY DEF Step
<1> HIDE DEF a
<1>5. Players' /\ InTune' /\ mus'[m].loaded
  BY <1>1, <1>2, <1>3, StopPlayers
<1>6. Pending(a)'
  BY <1>4, <1>5 DEF Pending
<1> QED
  BY <1>2, <1>4, <1>5, <1>6, OneListed DEF Steady

LEMMA ReleaseSteady ==
    ASSUME Sound, Steady, FreeRelease
    PROVE  Steady'
<1>1. PICK m \in Music : /\ m = Head(app).m /\ ~Plays(m) /\ Head(app).op = "release"
                         /\ Len(app) = 1
  BY FirstStep DEF FreeRelease
<1>2. /\ mus' = [mus EXCEPT ![m] = Gone] /\ app' = Tail(app)
      /\ UNCHANGED <<music_playing, music_volume>>
  BY <1>1 DEF FreeRelease
<1>3. Typing /\ Players /\ InTune /\ m # music_playing
  BY <1>1, NotRetuned DEF Sound, Steady, Plays
<1>4. Players' /\ \A x \in Music \ {m} : mus'[x] = mus[x]
  BY <1>2, <1>3, GoneKept, GoneFields, OnePlayers
<1>5. InTune'
  BY <1>2, <1>3, <1>4 DEF InTune, Full, FadeOver, Typing
<1>6. app' = <<>>
  BY <1>1, <1>2, <1>3 DEF Typing
<1> QED
  BY <1>4, <1>5, <1>6, NoneListed DEF Steady

LEMMA AdjustSteady ==
    ASSUME Sound, Steady, NEW m \in Music \cup {NoMusic}, NEW free \in BOOLEAN,
           \/ Mix_PauseMusicStream(m) \/ Mix_ResumeMusicStream(m)
           \/ m \in Music /\ Mix_SetFreeOnStop(m, free)
    PROVE  Steady'
<1>1. Typing /\ Players
  BY DEF Sound, Steady
<1>2. Free /\ app' = app /\ UNCHANGED <<music_playing, music_volume>>
  BY DEF Mix_PauseMusicStream, Mix_ResumeMusicStream, Mix_SetFreeOnStop, May
<1>3. \/ UNCHANGED mus
      \/ /\ m \in Music
         /\ \/ mus' = [mus EXCEPT ![m] = [mus[m] EXCEPT !.music_active = FALSE]]
            \/ mus' = [mus EXCEPT ![m] = [mus[m] EXCEPT !.music_active = TRUE]]
            \/ mus' = [mus EXCEPT ![m] = [mus[m] EXCEPT !.free_on_stop = free]]
  BY DEF Mix_PauseMusicStream, Mix_ResumeMusicStream, Mix_SetFreeOnStop, Pause, Resume
<1>4. CASE UNCHANGED mus
  BY <1>1, <1>2, <1>4, SamePlayers, CallSteady
<1>5. ASSUME m \in Music, NEW s, Alike(mus[m], s), mus' = [mus EXCEPT ![m] = s]
      PROVE  Steady'
  BY <1>1, <1>2, <1>5, AlikePlayers, CallSteady
<1>6. ASSUME m \in Music
      PROVE  /\ Alike(mus[m], [mus[m] EXCEPT !.music_active = FALSE])
             /\ Alike(mus[m], [mus[m] EXCEPT !.music_active = TRUE])
             /\ Alike(mus[m], [mus[m] EXCEPT !.free_on_stop = free])
  BY <1>1, <1>6 DEF Alike, Typing, Piece
<1> QED
  BY <1>3, <1>4, <1>5, <1>6

LEMMA HaltSteady ==
    ASSUME Courteous, Sound, Steady, NEW m \in Music \cup {NoMusic}, NEW n \in Nat,
           Mix_HaltMusicStream(m) \/ (m \in Music /\ Mix_FadeOutMusicStream(m, n))
    PROVE  Steady'
<1>1. Typing /\ Players /\ AtRest
  BY SoundAtRest DEF Sound, Steady, Mix_HaltMusicStream, Mix_FadeOutMusicStream
<1>2. Free /\ app' = app /\ UNCHANGED music_volume
  BY DEF Mix_HaltMusicStream, Mix_FadeOutMusicStream, May
<1>3. m # NoMusic => m = music_playing \/ mus[m].is_multimusic
  <2>1. m # NoMusic => Plays(m) /\ m \in Music
    BY MusicAssumption DEF Mix_HaltMusicStream, Mix_FadeOutMusicStream, Apt, Courteous
  <2> QED
    BY <1>1, <2>1, QueueOfMusic DEF Plays, AtRest
<1>4. CASE Mix_HaltMusicStream(m)
  BY <1>1, <1>2, <1>3, <1>4, HaltPlayers, CallSteady DEF Mix_HaltMusicStream
<1>5. CASE m \in Music /\ Mix_FadeOutMusicStream(m, n)
  BY <1>1, <1>2, <1>3, <1>5, MusicAssumption, FadeOutPlayers, CallSteady
     DEF Mix_FadeOutMusicStream
<1> QED
  BY <1>4, <1>5

\* The single player starts, and what played on it is halted.
LEMMA PlaySteady ==
    ASSUME Sound, Sound', Steady, NEW m \in Music, NEW n \in Nat, NEW endless \in BOOLEAN,
           Mix_FadeInMusicPos(m, n, endless, TRUE)
    PROVE  Steady'
<1>1. Typing /\ OnePlayerOnly /\ Players /\ AtRest
  BY SoundAtRest DEF Sound, Steady, Mix_FadeInMusicPos
<1>2. PICK old \in Music \cup {NoMusic} : old = music_playing
  BY <1>1 DEF Typing
<1>v. PICK v \in Volume : v = music_volume
  BY <1>1 DEF Players
<1> DEFINE c == mus[m]
           f == FadedIn(c, n)
           b == IF old = m THEN Halted(f) ELSE f
           s == Started(b, v, endless, TRUE)
           h == Halted(mus[old])
           g == [mus EXCEPT ![m] = f]
           a == IF old = NoMusic THEN g ELSE [g EXCEPT ![old] = Halted(g[old])]
<1>3. mus' = [a EXCEPT ![m] = Started(a[m], v, endless, TRUE)]
  BY <1>2, <1>v DEF Mix_FadeInMusicPos
<1>4. /\ c \in Piece /\ Measured(c) /\ Kept(c) /\ ~c.is_multimusic
      /\ m # old => c.fading = "no"
  <2>1. ~InPlayQueue(m) /\ c \in Piece /\ Measured(c) /\ Kept(c)
    BY <1>1 DEF Mix_FadeInMusicPos, Accepted, Typing, Players
  <2>2. ~c.is_multimusic
    BY <1>1, <2>1, QueueOfMusic DEF AtRest
  <2>3. c.fading # "no" => m = old
    BY <1>1, <1>2, <2>2 DEF Players
  <2> QED
    BY <2>1, <2>2, <2>3
<1> HIDE DEF c
<1>5. /\ f \in Piece /\ Same(c, f) /\ f.fading = (IF n = 0 THEN "no" ELSE "in")
      /\ f.music_volume = c.music_volume /\ f.heard = c.heard
      /\ m # old => Numbers(f) /\ (n > 0 => ~Full(f))
  <2>1. f \in Piece /\ Same(c, f) /\ f.fading = (IF n = 0 THEN "no" ELSE "in")
    BY <1>4, FadedInSame
  <2>2. f.music_volume = c.music_volume /\ f.heard = c.heard
    BY <1>4 DEF FadedIn, Piece
  <2>3. m # old => Numbers(f) /\ (n > 0 => ~Full(f))
    BY <1>4, FadedInKept DEF Kept
  <2> QED
    BY <2>1, <2>2, <2>3
<1> HIDE DEF f
<1>6. /\ mus'[m] = s /\ (old \notin {NoMusic, m} => mus'[old] = h)
      /\ \A x \in Music \ {m, old} : mus'[x] = mus[x]
  BY <1>1, <1>3, MusicAssumption DEF Typing
<1>7. /\ b \in Piece /\ Numbers(b) /\ ~b.is_multimusic
      /\ (m = old \/ n = 0) => b.fading = "no"
      /\ ~(m = old \/ n = 0) => ~Full(b)
  <2>1. CASE m = old
    <3>1. /\ Halted(f) \in Piece /\ Halted(f).fading = "no" /\ ~Halted(f).is_multimusic
          /\ Halted(f).music_volume = f.music_volume /\ Halted(f).heard = f.heard
      BY <1>5 DEF Halted, Piece, Fading
    <3> QED
      BY <1>4, <1>5, <2>1, <3>1 DEF Kept, Numbers
  <2>2. CASE m # old
    BY <1>4, <1>5, <2>2 DEF Same, Stays
  <2> QED
    BY <2>1, <2>2
<1> HIDE DEF b
<1>8. /\ Numbers(s) /\ (Full(s) <=> Full(b)) /\ (b.fading # "in" => s.heard = v)
      /\ s.owed = 1
  BY <1>7, StartedKept DEF Started, Piece
<1> HIDE DEF s
<1>9. Full(s) => s.heard = v
  BY <1>7, <1>8
<1>10. music_playing' = m /\ UNCHANGED <<music_volume, app>> /\ Free /\ m # NoMusic
  BY MusicAssumption DEF Mix_FadeInMusicPos, May
<1>11. ~s.is_multimusic
  BY <1>6, <1>10 DEF Sound, OnePlayerOnly, PlayerOnly
<1>12. Kept(s)
  BY <1>8, <1>11 DEF Kept
<1>13. old \notin {NoMusic, m} => Kept(h) /\ h.fading = "no"
  <2> SUFFICES ASSUME old \notin {NoMusic, m} PROVE Kept(h) /\ h.fading = "no"
    OBVIOUS
  <2>1. old \in Music /\ mus[old] \in Piece /\ Kept(mus[old])
    BY <1>1 DEF Typing, Players
  <2>2. Numbers(h) /\ Halts(mus[old], h) /\ h.owed = mus[old].owed
    BY <2>1, HaltedKept, HaltedHalts DEF Kept
  <2> HIDE DEF h
  <2> QED
    BY <2>1, <2>2 DEF Kept, Halts
<1> HIDE DEF h
<1>14. \A x \in Music :
         /\ Kept(mus'[x])
         /\ mus'[x].fading # "no" => x = m \/ mus'[x].is_multimusic
  <2> SUFFICES ASSUME NEW x \in Music
               PROVE  /\ Kept(mus'[x])
                      /\ mus'[x].fading # "no" => x = m \/ mus'[x].is_multimusic
    OBVIOUS
  <2>1. CASE x = m
    BY <1>6, <1>12, <2>1
  <2>2. CASE x # m /\ x = old
    BY <1>6, <1>13, <2>2, MusicAssumption
  <2>3. CASE x # m /\ x # old
    BY <1>1, <1>2, <1>6, <2>3 DEF Players
  <2> QED
    BY <2>1, <2>2, <2>3
<1>15. Players'
  BY <1>1, <1>6, <1>8, <1>10, <1>14 DEF Players, Kept, Numbers, Full, FadeOver
<1>16. InTune'
  BY <1>v, <1>6, <1>9, <1>10 DEF InTune, Full, FadeOver
<1> QED
  BY <1>10, <1>15, <1>16, CallSteady

LEMMA PlayStreamSteady ==
    ASSUME Courteous, Sound, Steady, NEW m \in Music, NEW n \in Nat,
           NEW endless \in BOOLEAN, Mix_FadeInMusicStreamPos(m, n, endless, TRUE)
    PROVE  Steady'
<1>1. Typing /\ Players /\ AtRest
  BY SoundAtRest DEF Sound, Steady, Mix_FadeInMusicStreamPos
<1>2. /\ Free /\ app' = app /\ UNCHANGED <<music_volume, music_playing>>
      /\ FadeInStream(m, n, endless, TRUE)
      /\ (InPlayQueue(m) /\ mus[m].fading # "no") => n > 0 /\ mus[m].fade_step \in 2 .. n + 1
  BY DEF Mix_FadeInMusicStreamPos, May, AptFadeIn, Courteous, RefuseStream
<1>3. Players' /\ (InTune => InTune')
  BY <1>1, <1>2, FadeInPlayers
<1> QED
  BY <1>2, <1>3, CallSteady

\* A cross-fade has two steps to go; what it fades out does not end meanwhile.
LEMMA CrossFadeSteady ==
    ASSUME Courteous, Sound, Steady, NEW old \in Music, NEW new \in Music, NEW n \in Nat,
           NEW endless \in BOOLEAN, NEW free \in BOOLEAN,
           Mix_CrossFadeMusicStreamPos(old, new, n, endless, free)
    PROVE  Steady'
<1>1. Typing /\ Players /\ OnePlayerOnly /\ InTune /\ Free
  BY NotRetuned DEF Sound, Steady, Mix_CrossFadeMusicStreamPos, May
<1> DEFINE s == [mus[old] EXCEPT !.free_on_stop = free]
           a == Step("fadeout", old, n)
           b == [Step("fadein", new, n) EXCEPT !.endless = endless]
<1>2. /\ mus' = [mus EXCEPT ![old] = s] /\ app' = <<a, b>>
      /\ UNCHANGED <<music_volume, music_playing>>
  BY DEF Mix_CrossFadeMusicStreamPos
<1>3. a.op = "fadeout" /\ a.m = old /\ b.op = "fadein" /\ b.m = new
  BY DEF Step
<1>4. Lasts(mus[old]) /\ mus[old].loaded /\ mus[new].loaded /\ ~Plays(new)
  BY DEF Mix_CrossFadeMusicStreamPos, AptCrossFade, Courteous, Nameable, Lasts
<1>5. Alike(mus[old], s) /\ s.endless = mus[old].endless /\ s.loaded = mus[old].loaded
  BY <1>1 DEF Alike, Typing, Piece
<1> HIDE DEF s, a, b
<1>6. Players' /\ InTune' /\ mus'[old] = s /\ \A x \in Music \ {old} : mus'[x] = mus[x]
  BY <1>1, <1>2, <1>5, AlikePlayers
<1>7. /\ new # old /\ new # music_playing /\ ~mus[new].is_multimusic
      /\ ~mus[new].free_on_stop
  BY <1>1, <1>4 DEF OnePlayerOnly, StreamOnly, Plays, Lasts
<1>8. Lasts(mus'[old])
  BY <1>4, <1>5, <1>6 DEF Lasts, Alike
<1>9. Pending(a)'
  <2>1. /\ a.op = "fadeout" /\ a.m = old /\ old # NoMusic /\ mus'[old].loaded
        /\ Lasts(mus'[old])
    BY <1>3, <1>4, <1>5, <1>6, <1>8, MusicAssumption
  <2> QED
    BY <2>1 DEF Pending, a, Lasts, Step
<1>10. Pending(b)'
  <2>1. /\ b.op = "fadein" /\ b.m = new /\ mus'[new].loaded /\ ~mus'[new].free_on_stop
        /\ ~mus'[new].is_multimusic /\ new # music_playing'
    BY <1>2, <1>3, <1>4, <1>6, <1>7
  <2> QED
    BY <2>1 DEF Pending, b, Step
<1>11. Listed'
  <2>1. DOMAIN app' = {1, 2} /\ app'[1] = a /\ app'[2] = b /\ Len(app') = 2
    BY <1>2
  <2>2. ASSUME NEW k \in DOMAIN app'
        PROVE  Pending(app[k])' /\ (app'[k].op # "fadein" => k = 1)
               /\ (app'[k].op \in {"fadein", "volume"} => k = Len(app'))
    <3>1. CASE k = 1
      <4>1. app'[k] = a
        BY <2>1, <3>1
      <4> QED
        BY <1>3, <1>9, <3>1, <4>1 DEF Pending, a, Step
    <3>2. CASE k = 2
      <4>1. app'[k] = b
        BY <2>1, <3>2
      <4> QED
        BY <1>3, <1>10, <2>1, <3>2, <4>1 DEF Pending, b, Step
    <3> QED
      BY <2>1, <2>2, <3>1, <3>2
  <2> QED
    BY <2>2 DEF Listed
<1> QED
  BY <1>6, <1>11 DEF Steady

\* The player's volume is written at once; what plays on it hears of it later.
LEMMA VolumeSteady ==
    ASSUME Courteous, Sound, Steady, NEW m \in Music \cup {NoMusic}, NEW v \in Volume,
           Mix_VolumeMusicStream(m, v)
    PROVE  Steady'
<1>1. Typing /\ Players /\ OnePlayerOnly /\ InTune /\ Free
  BY NotRetuned DEF Sound, Steady, Mix_VolumeMusicStream, May
<1> DEFINE a == Step("volume", m, v)
<1>2. /\ music_volume' = (IF m # NoMusic /\ mus[m].is_multimusic THEN music_volume ELSE v)
      /\ app' = <<a>> /\ UNCHANGED <<mus, music_playing>>
  BY DEF Mix_VolumeMusicStream
<1>3. a.op = "volume" /\ a.m = m /\ a.n = v
  BY DEF Step
<1> HIDE DEF a
<1>4. m # NoMusic =>
        /\ m \in Music /\ Nameable(m)
        /\ m = music_playing \/ mus[m].is_multimusic
  BY DEF Mix_VolumeMusicStream, AptVolume, Courteous
<1>5. m \in {NoMusic, music_playing} => music_volume' = v
  BY <1>1, <1>2 DEF OnePlayerOnly, PlayerOnly
<1>6. Players'
  <2>1. music_volume' \in Volume
    BY <1>1, <1>2 DEF Players
  <2> QED
    BY <1>1, <1>2, <2>1 DEF Players, Kept, Numbers, Full, FadeOver
<1>7. Pending(a)'
  <2>1. m # NoMusic => mus[m].loaded /\ (mus[m].free_on_stop => Lasts(mus[m]))
    <3> SUFFICES ASSUME m # NoMusic
                 PROVE  mus[m].loaded /\ (mus[m].free_on_stop => Lasts(mus[m]))
      OBVIOUS
    <3>1. mus[m].free_on_stop => InPlayQueue(m) /\ mus[m].endless /\ mus[m].fading # "out"
      BY <1>1, <1>4 DEF OnePlayerOnly, StreamOnly, Nameable
    <3>2. InPlayQueue(m) => m # music_playing
      BY <1>1, <1>4, MusicAssumption DEF OnePlayerOnly, PlayerOnly
    <3> QED
      BY <1>4, <3>1, <3>2 DEF Nameable, Lasts
  <2> QED
    BY <1>2, <1>3, <1>5, <2>1 DEF Pending, Lasts
<1>8. (Retuned \/ InTune)'
  <2>1. CASE m \in {NoMusic, music_playing}
    <3>1. 1 \in DOMAIN app' /\ app'[1] = a
      BY <1>2
    <3> QED
      BY <1>2, <1>3, <2>1, <3>1 DEF Retuned
  <2>2. CASE m \notin {NoMusic, music_playing}
    BY <1>1, <1>2, <1>4, <2>2 DEF InTune, Full, FadeOver
  <2> QED
    BY <2>1, <2>2
<1> QED
  BY <1>2, <1>3, <1>6, <1>7, <1>8, OneListed DEF Steady

\* The first step of a cross-fade: the old music fades out.
LEMMA StepHaltSteady ==
    ASSUME Sound, Steady, StepHalt
    PROVE  Steady'
<1>1. PICK m \in Music, n \in Nat :
         m = Head(app).m /\ n = Head(app).n /\ Head(app).op = "fadeout" /\ Lasts(mus[m])
  BY FirstPending DEF StepHalt, Pending
<1>2. FadeOut(m, n) /\ app' = Tail(app) /\ ~Free /\ UNCHANGED music_volume
  BY <1>1 DEF StepHalt
<1>3. Typing /\ Players /\ AtRest /\ InTune /\ Listed
  BY <1>1, NotRetuned, SoundAtRest DEF Sound, Steady, StepHalt
<1>4. /\ Players' /\ InTune' /\ music_playing' \in {music_playing, NoMusic}
      /\ \A x \in Music : x # m => mus'[x] = mus[x]
  BY <1>1, <1>2, <1>3, FadeOutPlayers DEF Lasts
<1>5. Listed'
  <2>1. Len(app) \in Nat /\ app # <<>> /\ Len(app') = Len(app) - 1
    BY <1>2, <1>3 DEF Free, Typing
  <2>2. \A k \in DOMAIN app' : /\ k + 1 \in DOMAIN app /\ app'[k] = app[k + 1] /\ k + 1 # 1
                               /\ k + 1 = Len(app) => k = Len(app')
    BY <1>2, <1>3, <2>1 DEF Typing
  <2> SUFFICES ASSUME NEW k \in DOMAIN app'
               PROVE  /\ Pending(app[k])' /\ (app'[k].op # "fadein" => k = 1)
                      /\ app'[k].op \in {"fadein", "volume"} => k = Len(app')
    BY DEF Listed
  <2>3. PICK s : s = app[k + 1]
    OBVIOUS
  <2>4. s = app'[k] /\ Pending(s) /\ s.op = "fadein" /\ k = Len(app')
    BY <1>3, <2>2, <2>3 DEF Listed
  <2>5. s.m \in Music
    BY <2>2, <2>3, <2>4 DEF Sound, Releasing
  <2>6. s.m # NoMusic /\ mus[s.m].loaded /\ ~mus[s.m].is_multimusic /\ s.m # music_playing
        /\ ~mus[s.m].free_on_stop
    BY <2>4, <2>5, MusicAssumption DEF Pending, Lasts
  <2>7. mus'[s.m] = mus[s.m]
    BY <1>1, <1>4, <2>5, <2>6 DEF Lasts
  <2>8. Pending(s)'
    BY <1>4, <2>4, <2>5, <2>6, <2>7, MusicAssumption DEF Pending
  <2> QED
    BY <2>4, <2>8 DEF Pending, Lasts
<1> QED
  BY <1>4, <1>5 DEF Steady

\* Its second step: the new music starts, in a place that is free.
LEMMA StepFadeInSteady ==
    ASSUME Courteous, Sound, Steady, StepFadeIn
    PROVE  Steady'
<1>1. PICK m \in Music, n \in Nat, endless \in BOOLEAN :
         /\ m = Head(app).m /\ n = Head(app).n /\ endless = Head(app).endless
         /\ Head(app).op = "fadein" /\ ~mus[m].is_multimusic
  BY FirstStep, FirstPending DEF StepFadeIn, Pending
<1>2. /\ FadeInStream(m, n, endless, TRUE) /\ app' = <<>>
      /\ UNCHANGED <<music_playing, music_volume>>
  BY <1>1, FirstPending DEF StepFadeIn, Courteous, RefuseStream
<1>3. Typing /\ Players /\ AtRest /\ InTune
  BY <1>1, NotRetuned, SoundAtRest DEF Sound, Steady, StepFadeIn
<1>4. ~InPlayQueue(m)
  BY <1>1, <1>3, QueueOfMusic DEF AtRest
<1>5. Players' /\ InTune'
  BY <1>2, <1>3, <1>4, FadeInPlayers
<1> QED
  BY <1>2, <1>5, NoneListed DEF Steady

\* The volume reaches the decoder.
LEMMA StepVolumeSteady ==
    ASSUME Sound, Steady, StepVolume
    PROVE  Steady'
<1>1. PICK m \in Music \cup {NoMusic}, n \in Volume :
         /\ m = Head(app).m /\ n = Head(app).n /\ Head(app).op = "volume"
         /\ m # NoMusic => mus[m].loaded
         /\ m \in {NoMusic, music_playing} => n = music_volume
  BY FirstPending DEF StepVolume, Pending
<1>2. /\ Head(app) = app[1] /\ DOMAIN app = {1} /\ app' = <<>>
      /\ UNCHANGED <<music_playing, music_volume>>
  BY <1>1, FirstPending DEF StepVolume
<1>3. Typing /\ Players /\ OnePlayerOnly /\ (Retuned \/ InTune)
  BY DEF Sound, Steady
<1>4. PICK t \in Music \cup {NoMusic} : t = Target(m)
  BY <1>3 DEF Target, Typing
<1>5. mus' = IF t = NoMusic \/ ~mus[t].loaded THEN mus
             ELSE [mus EXCEPT ![t].music_volume = n, ![t].heard = n]
  BY <1>1, <1>4 DEF StepVolume
<1>6. CASE t = NoMusic
  <2>1. music_playing' = NoMusic /\ mus' = mus
    BY <1>2, <1>4, <1>5, <1>6 DEF Target
  <2> QED
    BY <1>2, <1>3, <2>1, NoneListed, SamePlayers DEF Steady, InTune
<1>7. CASE t # NoMusic
  <2> DEFINE r == mus[t]
             s == [r EXCEPT !.music_volume = n, !.heard = n]
  <2>1. t \in Music /\ r.loaded /\ r \in Piece /\ Kept(r)
    BY <1>1, <1>3, <1>4, <1>7 DEF Target, OnePlayerOnly, PlayerOnly, Typing, Players
  <2>2. mus' = [mus EXCEPT ![t] = s]
    BY <1>5, <1>7, <2>1
  <2>3. /\ s.fading = r.fading /\ s.fade_step = r.fade_step /\ s.fade_steps = r.fade_steps
        /\ s.is_multimusic = r.is_multimusic /\ s.owed = r.owed
        /\ s.music_volume = n /\ s.heard = n
    BY <2>1 DEF Piece
  <2> HIDE DEF s
  <2>4. /\ Kept(s) /\ (s.fading # "no" => t = music_playing \/ s.is_multimusic)
        /\ music_playing = t => s.owed = 1
    BY <1>3, <1>7, <2>1, <2>3 DEF Kept, Numbers, Players
  <2>5. Players' /\ mus'[t] = s /\ \A x \in Music \ {t} : mus'[x] = mus[x]
    BY <1>2, <1>3, <2>1, <2>2, <2>4, OnePlayers
  <2>6. InTune'
    <3>1. CASE t = music_playing
      <4>1. n = music_volume
        BY <1>1, <1>4, <3>1 DEF Target
      <4> QED
        BY <1>2, <2>3, <2>5, <3>1, <4>1 DEF InTune
    <3>2. CASE t # music_playing
      <4>1. m \notin {NoMusic, music_playing}
        BY <1>4, <1>7, <3>2 DEF Target
      <4>2. InTune
        BY <1>1, <1>2, <1>3, <4>1 DEF Retuned
      <4> QED
        BY <1>2, <1>3, <2>5, <3>2, <4>2 DEF InTune, Full, FadeOver, Typing
    <3> QED
      BY <3>1, <3>2
  <2> QED
    BY <1>2, <2>5, <2>6, NoneListed DEF Steady
<1> QED
  BY <1>6, <1>7

-----------------------------------------------------------------------------
(* What a careful application can rely on.                                  *)

LEMMA SteadyStep ==
    ASSUME Courteous, Sound, Sound', Steady, [Next]_vars
    PROVE  Steady'
<1>1. /\ Fades \subseteq Nat /\ FreeOld \subseteq BOOLEAN /\ Volumes \subseteq Volume
      /\ \A ok \in PlayCan : ok = TRUE
  BY FadeAssumption, ChoiceAssumption DEF Courteous, Volume
<1>2. CASE AppStart
  <2>1. CASE \E m \in Music : Mix_LoadMUS(m)
    BY <2>1, LoadSteady
  <2>2. CASE \E m \in Music : Mix_FreeMusic(m)
    BY <2>2, FreeSteady
  <2>3. CASE \E m \in Music, n \in Fades, endless \in BOOLEAN, ok \in PlayCan :
               Mix_FadeInMusicPos(m, n, endless, ok)
    BY <1>1, <2>3, PlaySteady
  <2>4. CASE \E m \in Music, n \in Fades, endless \in BOOLEAN, ok \in PlayCan :
               Mix_FadeInMusicStreamPos(m, n, endless, ok)
    BY <1>1, <2>4, PlayStreamSteady
  <2>5. CASE \E old, new \in Music, n \in Fades, endless \in BOOLEAN, free \in FreeOld :
               Mix_CrossFadeMusicStreamPos(old, new, n, endless, free)
    BY <1>1, <2>5, CrossFadeSteady
  <2> QED
    BY <1>2, <2>1, <2>2, <2>3, <2>4, <2>5 DEF AppStart
<1>3. CASE AppAdjust
  <2>1. CASE \E m \in Music \cup {NoMusic} : Mix_HaltMusicStream(m)
    BY <2>1, HaltSteady
  <2>2. CASE \E m \in Music \cup {NoMusic} :
               Mix_PauseMusicStream(m) \/ Mix_ResumeMusicStream(m)
    BY <2>2, AdjustSteady
  <2>3. CASE \E m \in Music, n \in Fades : Mix_FadeOutMusicStream(m, n)
    BY <1>1, <2>3, HaltSteady
  <2>4. CASE \E m \in Music, free \in BOOLEAN : Mix_SetFreeOnStop(m, free)
    BY <2>4, AdjustSteady
  <2>5. CASE \E m \in Music \cup {NoMusic}, v \in Volumes : Mix_VolumeMusicStream(m, v)
    BY <1>1, <2>5, VolumeSteady
  <2>6. ASSUME NEW n, NEW op
        PROVE  ~Mix_FadeOutMusic(n) /\ ~Mix_SetMusicCMD /\ ~Mix_PauseMusicStreamAll(op)
    BY DEF Courteous, Mix_FadeOutMusic, Mix_SetMusicCMD, Mix_PauseMusicStreamAll, May
  <2> QED
    BY <1>3, <2>1, <2>2, <2>3, <2>4, <2>5, <2>6 DEF AppAdjust
<1>4. CASE AppContinue
  <2>1. ~StepPause /\ ~StepEach
    <3>1. ~Free => Head(app).op \in {"fadeout", "fadein", "volume", "wait", "release"}
      BY FirstPending DEF Pending
    <3> QED
      BY <3>1 DEF StepPause, StepEach, EachOp
  <2> QED
    BY <1>4, <2>1, AgainSteady, ReleaseSteady, StepHaltSteady, StepFadeInSteady,
       StepVolumeSteady DEF AppContinue
<1>5. CASE music_mixer
  BY <1>5, MixerSteady
<1>6. CASE MixStep
  <2>1. CASE StreamsMixed \/ StreamsCleaned
    BY <2>1, SameSteady DEF StreamsMixed, StreamsCleaned
  <2> QED
    BY <1>6, <2>1, StreamsSteady, CleanSteady DEF MixStep
<1>7. CASE UNCHANGED vars
  BY <1>7, SameSteady DEF vars
<1> QED
  BY <1>2, <1>3, <1>4, <1>5, <1>6, <1>7 DEF Next

LEMMA SteadyInit ==
    ASSUME Init
    PROVE  Steady
<1>1. /\ \A m \in Music : mus[m] = Gone
      /\ music_playing = NoMusic /\ music_volume = MIX_MAX_VOLUME /\ app = <<>>
  BY DEF Init
<1>2. MIX_MAX_VOLUME \in Volume
  BY FadeAssumption DEF Volume
<1> QED
  BY <1>1, <1>2, GoneKept, GoneFields DEF Steady, Players, InTune, Listed

LEMMA AlwaysSteady ==
    ASSUME Courteous
    PROVE  Spec => [](Sound /\ Steady)
<1>1. Init => Sound /\ Steady
  BY SoundInit, SteadyInit DEF Courteous
<1>2. Sound /\ [Next]_vars => Sound'
  BY SoundStep DEF Courteous
<1>3. Sound /\ Steady /\ [Next]_vars => Sound' /\ Steady'
  BY <1>2, SteadyStep
<1> QED
  BY <1>1, <1>3, PTL DEF Spec

LEMMA SteadyTyped ==
    ASSUME Sound, Steady
    PROVE  TypeOK
<1>1. Typing /\ Players
  BY DEF Sound, Steady
<1>2. ASSUME NEW m \in Music PROVE mus[m] \in MusicObject
  <2>1. mus[m] \in Piece /\ mus[m].music_volume \in Volume /\ mus[m].heard \in Volume
    BY <1>1 DEF Typing, Players, Kept, Numbers
  <2> QED
    BY <2>1, Zenon DEF Piece, MusicObject
<1>3. mus \in [Music -> MusicObject]
  BY <1>1, <1>2 DEF Typing
<1> QED
  BY <1>1, <1>3 DEF TypeOK, Typing, Players

\* Every volume that music is given or heard at is in range, whatever point of a
\* fade it is turned back or faded out from (Mix_FadeInMusicStreamPos and
\* Mix_FadeOutMusicStream), and so is everything else.
THEOREM MusicTyped ==
    ASSUME Courteous
    PROVE  Spec => []TypeOK
<1>1. Sound /\ Steady => TypeOK
  BY SteadyTyped
<1> QED
  BY <1>1, AlwaysSteady, PTL

\* The music that a call has still to fade, start, set or free under the lock has
\* not been freed by the mixer since the call looked at it.
THEOREM NamesLoaded ==
    ASSUME Courteous
    PROVE  Spec => []AppNamesLoaded
<1>1. Sound /\ Steady => AppNamesLoaded
  BY DEF Steady, Listed, Pending, AppNamesLoaded
<1> QED
  BY <1>1, AlwaysSteady, PTL

\* The finished hooks of music are called no more than once for each time it was
\* started, by the mixer, the halt or the free, and never when it does not play.
THEOREM EndAnswersStart ==
    ASSUME Courteous
    PROVE  Spec => []NoSpuriousFinish
<1>1. Sound /\ Steady => NoSpuriousFinish
  <2> SUFFICES ASSUME Sound, Steady, NEW m \in Music PROVE mus[m].owed >= 0
    BY DEF NoSpuriousFinish
  <2>1. mus[m] \in Piece /\ mus[m].owed # -1
    BY DEF Sound, Typing, Steady, Players, Kept
  <2> QED
    BY <2>1 DEF Piece
<1> QED
  BY <1>1, AlwaysSteady, PTL

\* Music that does not fade is heard at its own volume as a stream and at the
\* player's on the single player, however fades, cross-fades and new volumes
\* followed on each other.
THEOREM HeardAtItsVolume ==
    ASSUME Courteous
    PROVE  Spec => []HeardAsGiven
<1>1. Sound /\ Steady => HeardAsGiven
  <2> SUFFICES ASSUME Sound, Steady, \A k \in DOMAIN app : app[k].op # "volume",
                      NEW m \in Music, mus[m].fading = "no"
               PROVE  /\ mus[m].is_multimusic => mus[m].heard = mus[m].music_volume
                      /\ m = music_playing => mus[m].heard = music_volume
    BY DEF HeardAsGiven
  <2>1. Kept(mus[m]) /\ Full(mus[m]) /\ m # NoMusic
    BY MusicAssumption DEF Steady, Players, Full
  <2>2. InTune
    BY DEF Steady, Retuned
  <2> QED
    BY <2>1, <2>2 DEF Kept, InTune
<1> QED
  BY <1>1, AlwaysSteady, PTL

\* Music that is on no player does not fade: no end, halt or free leaves a fade
\* behind that the next start would go on from.
THEOREM FadesWhatPlays ==
    ASSUME Courteous
    PROVE  Spec => []IdleNotFading
<1>1. Sound /\ Steady => IdleNotFading
  BY DEF Sound, OnePlayerOnly, StreamOnly, Steady, Players, IdleNotFading, Plays
<1> QED
  BY <1>1, AlwaysSteady, PTL
=============================================================================
