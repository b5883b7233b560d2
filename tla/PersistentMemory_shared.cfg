CONSTANTS
    a1 = a1
    a2 = a2
    g1 = g1
    g2 = g2
    a3 = a3
    r1 = r1
    r2 = r2
    Allocators = {a1, a2, a3}
    Casts <- SmallCasts
    Getters = {g1, g2}
    Readers = {r1, r2}
    Mortal = {a1, g1}
    ReqSize <- Requests
    mem_size = 192
    mem_page = 64
    Null = Null
SPECIFICATION Spec
INVARIANTS TypeOK NeverCorrupt BlocksDisjoint QueueIsLog NothingMissed SameSpace
PROPERTIES IteratesInOrder WritersFinish
CHECK_DEADLOCK FALSE
