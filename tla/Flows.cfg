SPECIFICATION NetworkSpec
CONSTANTS
    AddrBits = 4
    BUFFER_MAX = 3
    Hash <- MCHash
    Hosts <- RoutedHosts
    Routers <- RoutedRouters
    Datapaths <- Nothing
    NodePorts <- RoutedPorts
    Links <- RoutedLinks
    Gateway <- RoutedGateway
    Execs <- RoutedExecs
    StartTimes <- RoutedStarts
    DpOutputs <- DropOnly
    PacketOuts <- DropOnly
    FibMessages <- Nothing
    Ecmp = FALSE
CHECK_DEADLOCK FALSE
INVARIANT OneOwner
 
INVARIANT LoadReturned
INVARIANT BytesArrive
INVARIANT ArpRight
PROPERTY FlowsArrive
