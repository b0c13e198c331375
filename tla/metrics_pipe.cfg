SPECIFICATION FairSpec
CONSTANTS
    a1 = a1
    a2 = a2
    l1 = l1
    Unparsable = Unparsable
    Addrs <- TwoAddrs
    Lines <- OneLine
    LineOf <- Answers
    PipeCapacity = 1
    Readers <- OneHandler
    Verdicts <- OneVerdict
    SamplingThreshold = 1
    MaxPrograms = 2
PROPERTIES FuzzerNotHeldUp
CHECK_DEADLOCK FALSE
