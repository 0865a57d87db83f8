\* The bit-field encoding of part_001's ctrl_t, a group of 3 lanes, with
\* every Group implementation part_001 ships.
CONSTANTS
    Width = 3
    H2s = {0, 1, 18, 19}
    Layout = "bitfield"
    Impls = {"portable", "sse2", "ssse3", "neon"}
SPECIFICATION Spec
INVARIANT EmptyMaskExact
