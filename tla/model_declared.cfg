SPECIFICATION Spec
CONSTANTS
    Absent = Absent
    Infinite = Infinite
    NaN = NaN
    Fraction = Fraction
    Huge = Huge
    Families <- MCFamilies
INVARIANTS
    DeclaredLengthsAgree
CHECK_DEADLOCK FALSE
