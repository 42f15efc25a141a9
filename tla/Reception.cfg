SPECIFICATION ReceptionSpec
CONSTANTS
    CR = CR
    LF = LF
    NUL = NUL
    NULL = NULL
    Chars <- MCAlphabet
    Lines <- MCLines
    BoostLines <- MCBoostLines
    RECV_BUFFER_SIZE = 3
    LINE_BUFFER_SIZE = 8
    MaxLines = 3
    MaxConnections = 2
    Fields <- MCFields
    NUMBER_PARSING_BUFFER_SIZE = 3
    INT_BITS = 4
    LONG_BITS = 5
    Alphabet <- MCAlphabet
    MaxLength = 7
INVARIANTS
    AcceptedExactly
    NoLineHeldBack
    WritesInside
PROPERTY
    ImplementsLineStream
CHECK_DEADLOCK FALSE
