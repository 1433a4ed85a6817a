CONSTANTS
    DefaultSize <- MCDefaultSize
    Ramdisk <- MCRamdisk
    Files <- MCFiles
    Garbage <- MCGarbage
    Values <- MCValues
    Changes <- MCChanges
    Outside = 256
    NoFile = NoFile
    MaxImages = 2
SPECIFICATION Spec
INVARIANTS DiskTypeOK StoresWhatIsUsed StoredWhole
PROPERTY ComesBackWhole
