CONSTANTS
    BlockCount <- MCBlockCount
    BlockSize <- MCBlockSize
    RedZoneSize <- MCRedZoneSize
    BufferStart <- MCBufferStart
    Sizes <- MCSizes
    Size <- MCSize
    Values <- MCValues
SPECIFICATION MemorySpec
INVARIANTS TypeOK BlocksAccounted
PROPERTIES ImplementsAllocator ImplementsLIFO
