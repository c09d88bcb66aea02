CONSTANTS
    p = p
    x = x
    y = y
    q = q
    None = None
    Gone = Gone
    TaskId <- Tasks
    Order <- Shown
    Parent <- Family
    Ref <- References
    Exact <- Titles
    Loose <- Parts
    Message <- Messages
    Request <- Requests
    Deletion <- Deletions
    Scene <- Scenes
    Start <- Stores
    Foreign <- Others
    MaxRounds = 2
    MaxBatch = 2
    MaxVersion = 3
SPECIFICATION Spec
PROPERTY DeletesShown
