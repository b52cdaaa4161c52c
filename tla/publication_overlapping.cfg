SPECIFICATION Spec
CONSTANTS
    Gens = {g1, g2}
    NoGen = NoGen
    Reviewed = {g1}
    Requests = {r1, r2}
    NoReq = NoReq
    Ops = {"ingest", "reingest", "publish", "rollback", "delete", "cleanup"}
CHECK_DEADLOCK FALSE
SYMMETRY Symmetry
INVARIANTS
    TypeOK
PROPERTIES
    ImplementsSlot
    WithdrawsOnlyItsOwn
