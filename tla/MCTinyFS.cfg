CONSTANTS
    ClusterCount <- MCClusterCount
    ClusterSize <- MCClusterSize
    Names <- MCNames
    Chunks <- MCChunks
SPECIFICATION Spec
INVARIANTS TypeOK ClustersAccounted SizeInChain
PROPERTY ImplementsFileTable
