SPECIFICATION OpeningSpec
CONSTANTS
    FileSize = 3
    EncodedSize = 2
    HEAD_CELLS = 2
    Servers <- Identity
    Requests <- NoRanges
    Layouts <- NoLayouts
INVARIANTS
    LengthTrue
