SPECIFICATION Spec
CONSTANTS
    Broken = Broken
    NoCert = NoCert
    r1 = r1
    r2 = r2
    r3 = r3
    EmptyPayload <- NoBytes
    Text <- MCText
    FieldEnum <- MCFieldEnum
    Sessions <- MCSessions
    Peer <- MCPeer
    Dashed <- MCDashed
    Messages <- MCMessages
    MaxSends = 3
SYMMETRY Symmetry
CHECK_DEADLOCK FALSE
INVARIANTS
    TypeOK
    ForgottenIsDispatched
    GivenUpIsLast
    RecordsAreVerbatim
    LastSignalWins
