SPECIFICATION SafeSpec
CONSTANTS
    s1 = s1
    s2 = s2
    r1 = r1
    None = None
    Senders = {s1, s2}
    Readers = {}
    Reconfigured = TRUE
    Sizes = {1}
    Waits = {FALSE}
    SendLength = 1
    RecvLength = 1
    Tags = 1
    MaxArrivals = 0
SYMMETRY TaskSymmetry
INVARIANTS
    NoStall
