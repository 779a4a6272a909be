SPECIFICATION Spec
CONSTANTS
    s1 = s1
    s2 = s2
    r1 = r1
    None = None
    Senders = {}
    Readers = {r1}
    Reconfigured = TRUE
    Sizes = {1, 2}
    Waits = {TRUE, FALSE}
    SendLength = 1
    RecvLength = 2
    Tags = 1
    MaxArrivals = 5
INVARIANTS
    RecvInOrder
PROPERTIES
    ReaderServed
