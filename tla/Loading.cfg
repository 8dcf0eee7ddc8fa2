\* Files of all forms, whole and cut short; loads end, so there is no next state.
SPECIFICATION Spec
CONSTANTS
    Files <- AllFiles
    FragmentEnds <- SomeEnds
    Decoders <- AllDecoders
INVARIANTS LoadedAsWritten SourceClosedIfOpened
PROPERTIES LoadReturns
CHECK_DEADLOCK FALSE
