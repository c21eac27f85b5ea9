\* Numbers around both ends of the plain notation and all short strings.
CONSTANTS
    Literals <- MCLiterals
    Strings <- MCStrings
    Limits = {0, 1, 2, 3}
    MaxHops = 3
    MaxUnits = 5
SPECIFICATION Spec
INVARIANTS
    NumberIsKept
    SdksWriteAlike
    ExcerptIsTrue
    SdksCutAlike
PROPERTY EmittedFormIsFinal
CHECK_DEADLOCK FALSE
