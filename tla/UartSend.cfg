SPECIFICATION Spec
CONSTANTS
    s1 = s1
    s2 = s2
    r1 = r1
    None = None
    Senders = {s1, s2}
    Readers = {}
    Reconfigured = FALSE
    Sizes = {2}
    Waits = {FALSE}
    SendLength = 1
    RecvLength = 1
    Tags = 4
    MaxArrivals = 0
INVARIANTS
    TypeOK
    Conserved

PROPERTIES
    Sent
