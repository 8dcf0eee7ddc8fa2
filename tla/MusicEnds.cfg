\* Two pieces of music, cross-faded, freed while they fade, replaced.
SPECIFICATION Spec
CONSTANTS
    m1 = m1
    m2 = m2
    NoMusic = NoMusic
    Music <- TwoMusics
    MIX_MAX_VOLUME = 1
    Fades = {0, 2}
    Volumes = {0}
    FreeOld = {TRUE}
    Courtesies = {"plays", "fades"}
    StepBound = 5
    PlayCan = {TRUE}
    OutOfMemory = FALSE
    Calls = {"Load", "Free", "PlayStream", "Play", "FadeOut", "CrossFade", "Volume", "Halt", "FreeOnStop"}
SYMMETRY Symmetry
INVARIANTS AppNamesLoaded NoSpuriousFinish HeardAsGiven IdleNotFading
PROPERTIES EndReported
