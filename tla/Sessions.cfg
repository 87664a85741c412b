SPECIFICATION Spec
CONSTANTS
    None = None
    r1 = r1
    r2 = r2
    r3 = r3
    r4 = r4
    v1 = v1
    s1 = s1
    speed = speed
    Sessions <- FourSessions
    Vins <- OneVin
    VinOf <- IntruderHasNone
    Payloads <- MCPayloads
    MaxFrames = 1
    FieldNames <- MCFieldNames
    Streams <- Nobody
    Shared <- Nobody
    Specs <- EitherSpec
    QueueMaxsize = 2
    Hanging <- Nobody
    MaxKeys = 1
SYMMETRY Symmetry
INVARIANTS
    TypeOK
    SessionsBracketed
    StoppedIsQuiet
    RegistryTracksLatest
    ConnectivityAgrees
PROPERTIES
    DispatchedWhileOpen
    DispatcherKept
