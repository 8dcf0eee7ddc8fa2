\* Effects and positions of a channel, the output and a piece of music.
SPECIFICATION Spec
CONSTANTS
    m1 = m1
    f1 = f1
    MIX_CHANNELS = 1
    MaxChannels = 2
    Musics = {m1}
    Funcs = {f1}
    MaxEffects = 2
    Specs <- SomeSpecs
    Touched <- SomeTouched
    Existing = TRUE
    Pans <- SomePans
    Distances = {0, 100}
    Places <- SomePlaces
    FrameCounts = {2, 3, 4}
    MaxSpeed = TRUE
    NoArgs = NoArgs
    Closed = Closed
ACTION_CONSTRAINT FewEffects
INVARIANTS DoneOncePerEffect InUseWhileRegistered HeardAsAsked SamplesAsMeant
