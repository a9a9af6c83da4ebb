SPECIFICATION Spec
CONSTANTS
    s1 = s1  s2 = s2  s3 = s3
    a1 = a1  a2 = a2
    None = None
    Slots = {s1, s2, s3}
    Addresses = {a1, a2}
    Interval = 2
    Burst = 2
    IdleTTL = 5
    Patience = 2
SYMMETRY Symmetry
INVARIANTS TypeOK
PROPERTIES MemoryBounded ImplementsThrottle
