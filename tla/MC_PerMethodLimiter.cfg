CONSTANTS
    m1 = m1
    m2 = m2
    Methods = {m1, m2}
    Registrations <- MCRegistrations
    MaxTime = 7

SYMMETRY MCSymmetry
SPECIFICATION Spec
INVARIANT TypeOK
INVARIANT PerMethodBurstBound
