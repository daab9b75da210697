CONSTANTS
    Names <- MCNames
    BOOTHDR = 12
    WORD = 65536
    MaxAlloc = 32768
    Machines <- MCMachines
    PageSize = 16
    TEXT_OFFSET = 40
    ZMIN = 4
    CmdlineLen <- MCCmdlineLen
    Junk = {0, 3, 7}
    OccursIn <- MCOccursIn
    Behind <- MCBehind
    PrefixOf <- MCPrefixOf
    NoValue = NoValue
    HEADERSIZE = 40
    NameLen <- MCNameLen
    NodeNameLen = 6
SPECIFICATION Spec
INVARIANTS ImageTakenWhole TreeHandedOver SegmentsSound InitrdFound
    TreeWhole StartsWhatWasLoaded GoodMachineBoots
PROPERTY Ends
CHECK_DEADLOCK FALSE
