SPECIFICATION Spec
CONSTANTS
    MaxDefs = 3
    DefFile <- MCDefFile
    Synth = {s1, s2}
    Null = Null
    MaxGraphDefs = 2
    FifoSize = 1
    ReadFails = TRUE
SYMMETRY Synths
INVARIANTS LibSound Accounted SynthsSound
PROPERTY Overwritten
CHECK_DEADLOCK FALSE
