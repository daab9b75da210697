CONSTANTS
    OccursIn <- MCOccursIn
    Behind <- MCBehind
    PrefixOf <- MCPrefixOf
    NoValue = NoValue
    Setups <- MCSetups
    HEADERSIZE = 40
SPECIFICATION OverlaysSpec
INVARIANT GpioAppliedOnMatch
CHECK_DEADLOCK FALSE
