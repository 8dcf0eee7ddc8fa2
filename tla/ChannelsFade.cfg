\* Fades that interrupt one another, limits and pauses, the audio thread running.
SPECIFICATION FairFadesSpec
CONSTANTS
    c1 = c1
    c2 = c2
    NoChunk = NoChunk
    Chunks <- OneChunk
    Alen <- OneShort
    Len = 2
    MIX_CHANNELS = 1
    MaxChannels = 1
    MIX_MAX_VOLUME = 3
    Loops <- OnceOrEndless
    Timers <- LiveLimits
    Fades = {0, 1, 3}
    Volumes <- NoVolume
    MaxEffects = 0
    FirstTick = 1
    LastTick = 5
    UintSpan = 64
    Calls = {"Play", "FadeIn", "FadeOut", "Halt", "Pause", "Resume", "FreeChunk"}
INVARIANTS FadeNotAhead VolumeRestored NoSpuriousFinish
PROPERTIES FadeOutNeverLouder CallbackReturns FadeOutEnds LimitEnds
