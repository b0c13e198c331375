SPECIFICATION Spec
CONSTANTS
    MaxFd = 7
    Values = {0, 51966}
    MaxPeers = 1
    Chosen <- CbpfStrategies
INVARIANTS DropSparesPeers
