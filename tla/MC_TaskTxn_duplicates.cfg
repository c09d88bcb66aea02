SPECIFICATION FairSpec
CONSTANTS
    TaskId = {p, q, x, y}
    None = None
    Client = {a, b}
    p = p  q = q  x = x  y = y  a = a  b = b
    c1 = c1  b1 = b1  b2 = b2  s1 = s1  u1 = u1  d1 = d1  e1 = e1
    KeysOf <- MCKeys
    MaxVersion = 9
    MaxItems = 2
    Calls <- Duplicates
    Retries = 3
PROPERTIES
    RecordsFinal
    CallsEnd
