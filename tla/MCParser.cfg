SPECIFICATION Spec
CONSTANTS
    SP = SP
    CR = CR
    LF = LF
    NUL = NUL
    Digits = {"1"}
    Digit <- MCDigit
    Headers <- MCHeaders
    MAX_KEY_SIZE = 3
    MAX_QUERY_HEADER_SIZE = 14
    MaxTail = 5
INVARIANTS TypeOK KeyIsSecondWord CommandsExact
PROPERTY ParseEnds
CHECK_DEADLOCK FALSE
