CONSTANTS
    Files <- MCFiles
    Args <- MCArgs
    Kind <- MCKind
    Values <- MCValues
    Items <- MCItems
    Atoi <- MCAtoi
    NULL = NULL
SPECIFICATION MixerSpec
INVARIANTS WidgetsWhereWritten HardwareAsWritten
CHECK_DEADLOCK FALSE
