\* An integer written with a fraction.
CONSTANTS
    MaxEdits = 1
    Odd = {"integral_float"}
SPECIFICATION Spec
INVARIANT TsParsesOnlyWhatRustCan
CHECK_DEADLOCK FALSE
