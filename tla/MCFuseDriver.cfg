CONSTANTS
    ClusterCount <- MCClusterCount
    ClusterSize <- MCClusterSize
    Names <- MCNames
    Chunks <- MCChunks
    WriteOffsets <- MCWriteOffsets
    SizeRange <- MCSizeRange
SPECIFICATION FuseSpec
INVARIANT ClustersAccounted
PROPERTY OneFileAtATime
