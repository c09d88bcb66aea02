SPECIFICATION Spec
CONSTANTS
    Client = {r1, r2}
    ChatId = {m1}
    None = None
    Start <- FromTodo
    Setting <- Raising
    Content = {1}
    MaxVersion = 3
    MaxRound = 2
CHECK_DEADLOCK FALSE
INVARIANTS
    ThreadResponsive
