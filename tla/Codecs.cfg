\* Every decoder, with its loops, seeks and halts.
SPECIFICATION FairSpec
CONSTANTS
    Cases <- AllCases
    Counts <- SomeCounts
    Block = 4
    Want = 3
    Second = 3
INVARIANTS HeardAsWritten
PROPERTIES EndedWhenOver GetAudioReturns FiniteEnds
