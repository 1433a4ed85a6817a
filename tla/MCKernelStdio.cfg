CONSTANTS
    MaxX <- MCMaxX
    MaxY <- MCMaxY
    WindowPosition <- MCWindowPosition
    WindowSize <- MCWindowSize
    InputLength <- MCInputLength
    NewLine = "newline"
    Backspace = "backspace"
    Blank = "blank"
    Nul = "nul"
    Chars <- MCChars
    Strings <- MCStrings
    WordRange <- MCWordRange
    BufferSize <- MCBufferSize
    NumberSize <- MCNumberSize
    LongDigits <- MCLongDigits
    LogSize <- MCLogSize
    LongMessage <- MCLongMessage
    RowBytes <- MCRowBytes
    Glyphs <- MCGlyphs
    DumpRows <- MCDumpRows
    Memory <- MCMemory
    Addresses <- MCAddresses
    Formats <- MCFormats
    Stamps <- MCStamps
    Messages <- MCMessages
    Characters <- MCCharacters
SPECIFICATION StdioSpec
INVARIANTS TypeOK ScreenShows
PROPERTIES ImplementsTeletype FormatsAsAsked
