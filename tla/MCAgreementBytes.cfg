\* Keys that look like array indices.
CONSTANTS
    MaxEdits = 1
    Odd = {"indices"}
SPECIFICATION Spec
INVARIANT SameCanonicalForm
CHECK_DEADLOCK FALSE
