\* Starting, halting, freeing, re-allocating against the mixer; no clock.
SPECIFICATION Spec
CONSTANTS
    c1 = c1
    c2 = c2
    NoChunk = NoChunk
    Chunks <- LongChunks
    Alen <- LongAlen
    Len = 2
    MIX_CHANNELS = 1
    MaxChannels = 2
    MIX_MAX_VOLUME = 1
    Loops <- AnyLoops
    Timers <- NoLimit
    Fades = {}
    Volumes <- NoVolume
    MaxEffects = 1
    FirstTick = 1
    LastTick = 1
    UintSpan = 64
    Calls = {"Play", "Halt", "FreeChunk", "Allocate", "Effect", "Reserve"}
INVARIANTS SamplesInChunk FreedChunkSilent EveryPassMixed
PROPERTIES KeepsPromise
