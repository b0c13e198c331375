SPECIFICATION FairSpec
CONSTANTS
    MaxFd = 6
    Values = {0, 51966}
    MaxPeers = 1
    Chosen <- CbpfAndCustom
INVARIANTS TurnReturnsDescriptors
PROPERTIES FollowsProtocol ComesRound PlaygroundEnds
