SPECIFICATION FairSpec
CONSTANTS
    a1 = a1
    a2 = a2
    l1 = l1
    Unparsable = Unparsable
    Addrs <- TwoAddrs
    Lines <- OneLine
    LineOf <- Answers
    PipeCapacity = 2
    Readers <- OneHandler
    Verdicts <- OneVerdict
    SamplingThreshold = 2
    MaxPrograms = 3
INVARIANTS TypeOK VerdictsAddUp SamplesEveryThreshold LocksNest
PROPERTIES LogsInOrder FuzzerNotHeldUp ResultsProcessed
