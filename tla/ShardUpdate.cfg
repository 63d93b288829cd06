SPECIFICATION Spec
CONSTANTS
    Loads = {0, 3, 7}
    PerShard = 1
    Capacity = 2
    BytesPerSample = 2
    LogSize = 50
    Excess = 20
    MaxShards = 5
    MaxBacklog = 8
    MaxChanges = 2
    Unit = 100
INVARIANT DivisionDefined
PROPERTY ShardsFit
