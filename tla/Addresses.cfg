SPECIFICATION MCSpec
CONSTANTS
    Word = 4
    Half = 4
    V4Bits = 3
    MAX_GENERATED_SUBNETS = 14
    MaxList = 3
    MaxCount = 2
    MaxOccupied = 2
    MaxResults = 9
    NULL = NULL
INVARIANTS FindsFirstFree ReportsWhatFits ReportIsMinimal
    ExactCover SplitsPartition PacksAll
PROPERTIES AllReturn
CHECK_DEADLOCK FALSE
