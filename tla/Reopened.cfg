\* An application that calls Mix_OpenAudio twice, with the same format.
SPECIFICATION Spec
CONSTANTS
    m1 = m1
    m2 = m2
    m3 = m3
    wav = wav
    ogg = ogg
    NoMusic = NoMusic
    NoSpec = NoSpec
    Interfaces <- TwoInterfaces
    WithoutInit <- WavOnly
    Music = {m1}
    Interface <- OnePiece
    Specs <- OneFormat
    Devices = {1}
    MaxOpens = 2
    Courtesies = {"inits", "sizes", "quits", "device"}
INVARIANTS OpenUntilClosed
