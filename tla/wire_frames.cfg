SPECIFICATION Spec
CONSTANTS
    GROUP = 4
    WORD = 128
    CONFIG_ACCOUNT_FIELD = 6
    RequestMessages <- MCRequestMessages
    ResponseMessages <- MCResponseMessages
    UnknownFields = {7, 15}
    MaxUnknown = 2
INVARIANTS
    RoundTrip
    CutNeverInvents
CHECK_DEADLOCK FALSE
