SPECIFICATION Spec
CONSTANTS
    Absent = Absent
    Infinite = Infinite
    NaN = NaN
    Fraction = Fraction
    Huge = Huge
    Families <- MCFamilies
INVARIANTS
    WindowIsTheSigned
    SizesAsConfigured
    EveryInputFed
    NormalizationInRange
CHECK_DEADLOCK FALSE
