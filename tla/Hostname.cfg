SPECIFICATION Spec
CONSTANTS
    a = a
    g = g
    Dot = Dot
    Colon = Colon
    Percent = Percent
    NUL = NUL
    None = None
    HexDigits <- MCHexDigits
    OtherLetters <- MCOtherLetters
    DEFAULT_HOSTNAME <- MCDefault
    DEFAULT_PORT = 1
    Ports = {1, 2}
    InvalidPorts = {0}
    MAX_CONNECTION_HOSTNAME_LENGTH = 4
    IPV6_ADDRESS_MIN_LENGTH = 2
    Names <- MCNames
    Texts <- MCTexts
INVARIANT
    ClientMatches
PROPERTY
    OnlyRequestedHosts
