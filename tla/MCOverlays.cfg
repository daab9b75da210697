CONSTANTS
    OccursIn <- MCOccursIn
    Behind <- MCBehind
    PrefixOf <- MCPrefixOf
    NoValue = NoValue
    Setups <- MCSetups
    HEADERSIZE = 40
SPECIFICATION OverlaysSpec
INVARIANTS SizesAgree ExactlyWanted OneTreeLeft SurvivesFailedReads
CHECK_DEADLOCK FALSE
