SPECIFICATION Spec
CONSTANTS
    Session = {s1}
    Lease = {l1, l2, l3}
    MaxClock = 2
    MaxGen = 3
    MaxFence = 6
SYMMETRY LeaseSymmetry
INVARIANTS
    TypeOK
    StoreStaysUsable
    AdmissionIsTrue
    CommandAuthorityUnique
PROPERTIES
    FenceNeverReused
    ImplementsSessionWriter
CHECK_DEADLOCK FALSE
