CONSTANTS
    Width = 3
    H2s = {0, 1, 18, 19}
    Layout = "byte"
    Impls = {"portable", "sse2", "neon"}
SPECIFICATION Spec
INVARIANTS
    TypeOK
    MatchSound
    EmptyMaskExact
    EmptyOrDeletedMasksExact
    ConvertExact
    IterationExact
PROPERTIES
    LaneSetIterationRefined
