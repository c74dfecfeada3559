SPECIFICATION MCSpec
CONSTANTS
    Asker = {A1, A2}
    MaxAsked = 2
    MaxIds = 2
    MaxEdits = 1
    MaxTurns = 1
    MaxRequests = 3
    MaxSessions = 2
    MaxCloses = 1
    Controls = TRUE
INVARIANTS
    TypesOK
    SessionIsServed
    InteractionsMatch
PROPERTY
    RequestsSettle
CHECK_DEADLOCK FALSE
