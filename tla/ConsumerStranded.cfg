SPECIFICATION FairSpec
CONSTANTS
    None = None
    t1 = t1
    t2 = t2
    s1 = s1
    v1 = v1
    v2 = v2
    data = data
    connectivity = connectivity
    speed = speed
    payload = payload
    Vins <- MCVins
    Topics <- MCTopics
    FieldNames <- MCFieldNames
    Messages <- MCMessages
    Tasks <- OneTask
    Streams <- OneStream
    Shared <- OneStream
    Specs <- AnySpec
    Records <- OneRecord
    QueueMaxsize = 2
    Hanging <- Nobody
    MaxKeys = 0
    MaxLog = 1
PROPERTIES
    IterationEnds
