SPECIFICATION Spec
CONSTANTS
    Fqdns <- MCFqdns
    Fqdn = "a.example"
    BadFqdn = ""
    MaxKeys = 4
    SyncTimeout = 3
    MaxRequest = 2
    MaxElapsed = 6
INVARIANTS
    TypeOK
    OverrunBounded
PROPERTIES
    ServedIsTrusted
    PollingEnds
