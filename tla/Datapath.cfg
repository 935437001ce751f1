SPECIFICATION UseSpec
CONSTANTS
    MaxStackSize = 2
    Ports <- TwoPorts
    Tables = {0, 1}
    Arrivals <- TwoArrivals
    FlowMods <- SwitchMods
    PacketOuts <- TwoPacketOuts
    Queries = {}
    MaxFlows = 2
    MaxCount = 1
 
PROPERTY SwitchImplemented
