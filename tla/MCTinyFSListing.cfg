CONSTANTS
    ClusterCount <- MCMoreClusters
    ClusterSize <- MCClusterSize
    Names <- MCNames
    Chunks <- MCChunks
SPECIFICATION Spec
INVARIANT OnlyCreatedListed
