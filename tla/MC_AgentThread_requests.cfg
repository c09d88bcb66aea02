SPECIFICATION Spec
CONSTANTS
    Client = {r1, r2}
    ChatId = {m1}
    None = None
    Start <- FromBoth
    Setting <- Settings
    Content = {1}
    MaxVersion = 3
    MaxRound = 2
CHECK_DEADLOCK FALSE
SYMMETRY Symmetry
INVARIANTS
    TypeOK
    ResponsiveUnlessFaulty
PROPERTIES
    ImplementsConfirmation
