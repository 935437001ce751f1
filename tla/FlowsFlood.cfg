SPECIFICATION Spec
CONSTANTS
    AddrBits = 4
    BUFFER_MAX = 3
    Hash <- MCHash
    Hosts <- FanHosts
    Routers <- Nothing
    Datapaths <- SwitchedDatapaths
    NodePorts <- SwitchedPorts
    Links <- SwitchedLinks
    Gateway <- SwitchedGateway
    Execs <- SwitchedExecs
    StartTimes <- SwitchedStarts
    DpOutputs <- FloodOutputs
    PacketOuts <- SwitchedAnswers
    FibMessages <- Nothing
    Ecmp = FALSE
CHECK_DEADLOCK FALSE
INVARIANT FlowsHaveOneOwner
