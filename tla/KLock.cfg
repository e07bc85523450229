\* Two contexts, the three locks of the file path, rank stacks of one slot: the second lock held on a stack overflows it.
SPECIFICATION FairSpec
CONSTANTS
    NoLock = NoLock
    Ctx = {"boot", "ap"}
    Lock = {"vfs", "cas", "vblk"}
    Rank <- FileRank
    Shared = {"vfs"}
    Depth = 1
    Store = {"core1", "core2", "leader1"}
    StoreOf <- TwoStores
INVARIANTS TypeOK Exclusion DrainExact ReportsSound
PROPERTIES DrainEnds
