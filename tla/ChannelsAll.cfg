\* Limits, fades, pauses, volumes and halts at once, on one channel.
SPECIFICATION Spec
ACTION_CONSTRAINTS PausedOnce LimitsWhatPlays
CONSTANTS
    c1 = c1
    c2 = c2
    NoChunk = NoChunk
    Chunks <- OneChunk
    Alen <- OneLong
    Len = 2
    MIX_CHANNELS = 1
    MaxChannels = 1
    MIX_MAX_VOLUME = 1
    Loops <- OnceOrTwice
    Timers <- LiveLimits
    Fades = {1}
    Volumes <- SomeVolume
    MaxEffects = 0
    FirstTick = 1
    LastTick = 4
    UintSpan = 64
    Calls = {"Play", "FadeIn", "FadeOut", "Halt", "Expire", "Pause", "Resume", "Volume", "FreeChunk"}
INVARIANTS TypeOK OneFinishPerPlay PauseSuspendsTimer
