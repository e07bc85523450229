\* Four volumes: a full disk, a full index, pinned counts, a torn file delete.
SPECIFICATION Spec
CONSTANTS
    None = None
    Empty = Empty
    Tomb = Tomb
    Hash = {"h1", "h2", "h3"}
    NSeg = 2
    NBit = 2
    NSec = 2
    NOff = 2
    Pin = 3
    Settings <- Everything
INVARIANTS StoreSound
PROPERTIES ImplementsStore
