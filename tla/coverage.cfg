SPECIFICATION CmSpec
CONSTANTS
    a1 = a1
    a2 = a2
    a3 = a3
    a4 = a4
    l1 = l1
    l2 = l2
    Unparsable = Unparsable
    Addrs <- FourAddrs
    Lines <- TwoLines
    LineOf <- Answers
    PipeCapacity = 4
    Readers <- OneReader
INVARIANTS CmTypeOK ReturnsResolved InfoMatchesCache HistoryRises
