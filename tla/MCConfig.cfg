CONSTANTS
    Pieces <- MCPieces
    OverlaySections <- MCOverlaySections
    ChipLists <- MCChipLists
    MaxPieces = 7
SPECIFICATION Spec
INVARIANTS OnlyCleanFiles OverlaysInFileOrder UnionReadAsWritten
    DeviceSettingsKept
CHECK_DEADLOCK FALSE
