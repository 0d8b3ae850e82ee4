SPECIFICATION OpeningSpec
CONSTANTS
    FileSize = 4
    EncodedSize = 2
    HEAD_CELLS = 3
    Servers <- NamingTotal
    Requests <- AnyRange
    Layouts <- BoxLayouts
INVARIANTS
    RangeModeExact
    ReplyExact
    MoovPrefetched
