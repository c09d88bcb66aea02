SPECIFICATION FairSpec
CONSTANTS
    Client = {a, b}
    Operation = {chat, confirm}
    None = None
    MaxMessages = 2
    Attempts = 2
    MaxRequests = 3
    MaxNodes = 3
    MaxEvents = 4
    Setting <- Settings
    a = a  b = b
INVARIANTS
    TypeOK
    ExchangesWhole
    HistoryWhole
    EffectsAudited
    AuditTruthful
    EventsOrdered
    TraceTruthful
    ExchangesAnswered
PROPERTIES
    ImplementsLog
    FinishedFrozen
    RequestsEnd
CHECK_DEADLOCK FALSE
