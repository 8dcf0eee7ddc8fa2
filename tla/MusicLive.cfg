\* Two pieces of music, the audio thread running, nothing paused.
SPECIFICATION FairSpec
CONSTANTS
    m1 = m1
    m2 = m2
    NoMusic = NoMusic
    Music <- TwoMusics
    MIX_MAX_VOLUME = 1
    Fades = {0, 1}
    Volumes = {}
    FreeOld = {TRUE}
    Courtesies = {"plays", "fades"}
    StepBound = 5
    PlayCan = {TRUE}
    OutOfMemory = FALSE
    Calls = {"Load", "Free", "PlayStream", "FadeOut", "CrossFade"}
PROPERTIES CallReturns FadeOutEnds FreedOnStop
