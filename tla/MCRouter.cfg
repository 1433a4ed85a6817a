CONSTANTS
    PathSize <- MCPathSize
    DirNameSize <- MCDirNameSize
    TableSize <- MCTableSize
    NoFS = "none"
    BootMounts <- MCBootMounts
    Files <- MCFiles
    Slash = "/"
    Chars <- MCChars
    Args <- MCArgs
    MaxAsked <- MCMaxAsked
    RunSize <- MCRunSize
    Bytes <- MCBytes
    Contents <- MCContents
    Unbounded = {"tinyfs"}
    Zero = 0
    UserSlots <- MCUserSlots
    TestCount = 1
    ProgramArgs <- MCProgramArgs
    TestNumbers <- MCTestNumbers
SPECIFICATION ProgramsSpec
INVARIANTS TypeOK DirectoryAsAsked LeadsWhereNamed LatestProgramIntact
