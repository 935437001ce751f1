SPECIFICATION UseSpec
CONSTANTS
    MaxStackSize = 3
    PushTypes <- AllPushes
    PopTypes <- IpPop
    FieldValues <- TagFields
    Packets <- TaggedPackets
INVARIANTS
    ClearedAboveTop
    
    ControllerKeepsFields
    
