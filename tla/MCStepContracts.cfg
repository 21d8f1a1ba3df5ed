SPECIFICATION Spec
CONSTANTS
    p = p
    q = q
    Paths = {p, q}
    Steps = 2
    RawReads <- MCReads
    Strict = FALSE
SYMMETRY MCSymmetry
INVARIANTS CallsCoherent PlanIsStable ProjectionExact
