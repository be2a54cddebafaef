SPECIFICATION FairSpec
CONSTANTS
    b1 = b1
    b2 = b2
    Threads = {t1, t2}
    Uniques = {u1, u2}
    Releaseds = {r1}
    Shareds = {s1, s2, s3}
    Ctrls = {p1, p2}
    FreeBlocks <- MCFreeBlocks
    None = None
INVARIANTS
    BlocksConserved
    CountsAreOwners
    BuffersAreLive
PROPERTIES
    ImplementsBlockOwnership
    AbandonedBlocksReturn
