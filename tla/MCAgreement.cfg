\* Up to two departures from every well-formed payload of every type.
CONSTANTS
    MaxEdits = 2
    Odd = {"integral_float", "inexact", "overflow", "lone", "__proto__"}
SPECIFICATION Spec
INVARIANTS
    SdksAgreeOnVerdict
    SdksAgreeOnOneDefect
    ValidIsForwardable
    OverBoundIsForwardable
    RelayKeepsBytes
    EnvelopesAgree
    FeatureChangesNothing
    AnswerWasOffered
CHECK_DEADLOCK FALSE
