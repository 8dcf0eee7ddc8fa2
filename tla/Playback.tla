------------------------------ MODULE Playback ------------------------------
(***************************************************************************)
(* What SDL_mixer.h promises of the channels to an application that plays  *)
(* chunks on them, with nothing of how they are mixed.  A channel is a     *)
(* voice; in one step every voice may take a turn of its own, as when a    *)
(* call halts all channels at once.                                        *)
(*                                                                         *)
(*   - a play is for so many frames, which come one after the other and    *)
(*     never again, or for ever;                                           *)
(*   - "a callback that runs when a channel has finished playing": a play  *)
(*     that begins is owed one report, and gets it in the very step that   *)
(*     stops it or puts another in its place;                              *)
(*   - "the list of registered effects for a channel is reset when a chunk *)
(*     finishes playing";                                                  *)
(*   - a chunk that is given back is not playing.                          *)
(***************************************************************************)
EXTENDS Integers

CONSTANTS
    Channels,       \* the channels there may be
    Sounds,         \* the chunks
    Silence,        \* the sound of a channel that plays nothing
    Length,         \* Length[s]: the frames of one pass of sound s
    Loops           \* how often a pass may be asked to be repeated (< 0: ever)

VARIABLES
    voice,          \* voice[i]: what channel i plays
    released        \* the sounds whose memory is given back

\* left counts the frames still to come, -1 when there is no end to them.
Voice == [sound : Sounds \cup {Silence}, left : Int, owed : Int, effects : Nat]

Resting == [sound |-> Silence, left |-> 0, owed |-> 0, effects |-> 0]

Total(s, loops) == IF loops < 0 THEN -1 ELSE (loops + 1) * Length[s]

\* A play begins; the effects are those registered for it beforehand, unless it
\* takes the place of a play they were for.
Begins(v, w) ==
    /\ w.sound \in Sounds \ released
    /\ \E loops \in Loops : w.left = Total(w.sound, loops)
    /\ w.owed = 1
    /\ w.effects = IF v.sound = Silence THEN v.effects ELSE 0

\* Frames are heard, but not the last ones.
Advances(v, w) ==
    /\ v.sound # Silence
    /\ w.sound = v.sound /\ w.owed = v.owed /\ w.effects = v.effects
    /\ IF v.left < 0 THEN w.left = v.left ELSE w.left \in 1 .. v.left

\* It is heard to its end, or stopped.
Stops(v, w) == v.sound # Silence /\ w = Resting

\* Effects are registered or unregistered.
Equipped(v, w) ==
    w.sound = v.sound /\ w.left = v.left /\ w.owed = v.owed /\ w.effects \in Nat

Turn(v, w) == Begins(v, w) \/ Advances(v, w) \/ Stops(v, w) \/ Equipped(v, w)

Init ==
    /\ voice = [i \in Channels |-> Resting]
    /\ released = {}

Next ==
    /\ \A i \in Channels : Turn(voice[i], voice'[i])
    /\ released' \subseteq Sounds
    /\ \A i \in Channels : voice'[i].sound \notin released'

Spec == Init /\ [][Next]_<<voice, released>>
=============================================================================
