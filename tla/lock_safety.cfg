SPECIFICATION MCSpec
CONSTANTS
    PlainWriters = {w1}
    PlainCollectors = {c1, c2}
    PlainRepairers = {r1}
    Old = Old
    Foreign = Foreign
    None = None
    Writers = {u1, u2}
    Restorers = {u1, u2}
    Remote = {u2}
    Newer = {}
    Collectors = {d1}
    Repairers = {s1}
    Nobody = Nobody
INVARIANTS KeeperIsAlone IdleHoldsNothing AloneUnlessSnatched
PROPERTIES LiveFilesAreTheirOwners ImplementsStoreAccess ReclaimDestroysNothing
\* Every process may be idle or dead for good.
CHECK_DEADLOCK FALSE
SYMMETRY Symmetry
