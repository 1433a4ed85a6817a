CONSTANTS
    LineSize <- MCLineSize
    LengthAt <- MCLengthAt
    MaxArgs <- MCMaxArgs
    LongRange <- MCLongRange
    Letters <- MCLetters
    Released <- MCReleased
    Space = "space"
    Nul = "nul"
    Enter = "enter"
    Delete = "delete"
SPECIFICATION Spec
INVARIANTS TypeOK LineIsText ArgsAreWords RanAsTyped NumberAsTyped
