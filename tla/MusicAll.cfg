\* Two pieces of music and an application without courtesy: who plays where.
SPECIFICATION Spec
CONSTANTS
    m1 = m1
    m2 = m2
    NoMusic = NoMusic
    Music <- TwoMusics
    MIX_MAX_VOLUME = 1
    Fades = {1}
    Volumes = {}
    FreeOld = {}
    Courtesies = {}
    StepBound = 1
    PlayCan = {TRUE, FALSE}
    OutOfMemory = TRUE
    Calls = {"Load", "Free", "PlayStream", "Play", "FadeOut", "FadeOutPlaying", "HaltAll", "FreeOnStop", "Pause", "PauseAll"}
SYMMETRY Symmetry
INVARIANTS TypeOK OnePlayerEach
