\* Two cores, three slots and three frames; the programs of Sound.
SPECIFICATION Spec
CONSTANTS
    None = None
    Link = Link
    Cores = {c1, c2}
    Slots = {s1, s2, s3}
    HeapTop = 1
    Top = 2
    Frames = {f1, f2, f3}
    Value = {zero, one}
    Zero = zero
    Settings <- Sound
SYMMETRY Names
INVARIANTS VmSound
PROPERTIES ImplementsSpaces
