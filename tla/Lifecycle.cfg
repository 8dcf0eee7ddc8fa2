\* Opening and closing with music that plays, by a careful application.
SPECIFICATION Spec
CONSTANTS
    m1 = m1
    m2 = m2
    m3 = m3
    wav = wav
    ogg = ogg
    NoMusic = NoMusic
    NoSpec = NoSpec
    Interfaces <- TwoInterfaces
    WithoutInit <- WavOnly
    Music = {m1, m2, m3}
    Interface <- ThreePieces
    Specs <- Formats
    Devices = {1}
    MaxOpens = 2
    Courtesies = {"closes", "inits", "sizes", "quits"}
INVARIANTS MixerWhileCalled OpenedForOutput OpenUntilClosed
