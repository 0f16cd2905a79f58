SPECIFICATION Spec
CONSTANTS
    Unreadable = Unreadable
    Infinite = Infinite
    NaN = NaN
    Fraction = Fraction
    Second = 100
    Empty = Empty
    LowerCase <- MCLowerCase
    Configurations <- MCConfigurations
    Outputs <- MCOutputs
INVARIANTS
    BoundAsAccepted
CHECK_DEADLOCK FALSE
