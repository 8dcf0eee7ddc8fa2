----------------------------- MODULE MCChannels -----------------------------
(* Small instances of Channels for TLC. *)
EXTENDS Channels, TLC

CONSTANTS c1, c2

\* One chunk longer than the callback's buffer and one exactly as long.
LongChunks == {c1, c2}
LongAlen == (c1 :> 5) @@ (c2 :> 2)

\* One chunk: longer than, or shorter than, the callback's buffer.
OneChunk == {c1}
OneLong == [c \in OneChunk |-> 3]
OneShort == [c \in OneChunk |-> 1]

OnceOrTwice == {0, 1}
AnyLoops == {-1, 0, 1}
OnceOrEndless == {-1, 0}

NoLimit == {-1}
SomeLimits == {-1, 2}
LiveLimits == {-1, 1}
NoVolume == {-1}
SomeVolume == {-1, 0, 2}

-----------------------------------------------------------------------------
\* An application whose fades run undisturbed, and give back the volume.
FadesSpec == Init /\ [][Next /\ PausedOnce /\ FadesEndless /\ VolumesHeld]_vars
FairFadesSpec == FadesSpec /\ Fairness
=============================================================================
