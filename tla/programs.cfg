SPECIFICATION Spec
CONSTANTS
    Counts <- TriedCounts
    MaxMutations = 5
INVARIANTS JumpsReachFooter NeverDrawsFromNothing MutantsReachFooter
PROPERTIES LosesAtMostOne
