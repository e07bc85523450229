\* Pages are made read-only, shared by fork, and made writable again.
SPECIFICATION Spec
CONSTANTS
    None = None
    Link = Link
    Cores = {c1, c2}
    Slots = {s1, s2, s3}
    HeapTop = 1
    Top = 2
    Frames = {f1, f2, f3}
    Value = {zero, one}
    Zero = zero
    Settings <- Protecting
SYMMETRY Names
INVARIANTS WriteAlone
