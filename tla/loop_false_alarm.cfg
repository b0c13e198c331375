SPECIFICATION Spec
CONSTANTS
    MaxFd = 7
    Values = {0, 51966}
    MaxPeers = 0
    Chosen <- OnlyCoverage
INVARIANTS UnexpectedOnlyIfRan
