SPECIFICATION FairSpec
CONSTANTS
    MaxFd = 7
    Values = {0, 51966}
    MaxPeers = 1
    Chosen <- EbpfStrategies
INVARIANTS TypeOK PeersKeepTheirs TurnReturnsDescriptors RunsVerifiedProgramOnLiveMap
           PanicsExplained OthersReportOnlyRuns
PROPERTIES FollowsProtocol ComesRound PlaygroundEnds
