SPECIFICATION Spec
CONSTANTS
    None = None
    r1 = r1
    r2 = r2
    r3 = r3
    r4 = r4
    v1 = v1
    s1 = s1
    speed = speed
    Sessions <- TwoSessions
    Vins <- OneVin
    VinOf <- SameVin
    Payloads <- MCPayloads
    MaxFrames = 0
    FieldNames <- MCFieldNames
    Streams <- Nobody
    Shared <- Nobody
    Specs <- AnySpec
    QueueMaxsize = 2
    Hanging <- Nobody
    MaxKeys = 1
INVARIANTS
    StopDeregisters
