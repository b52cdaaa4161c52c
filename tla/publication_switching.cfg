SPECIFICATION Spec
CONSTANTS
    Gens = {g1, g2, g3}
    NoGen = NoGen
    Reviewed = {g1, g2}
    Requests = {r1, r2, r3}
    NoReq = NoReq
    Ops = {"ingest", "publish", "rollback"}
CHECK_DEADLOCK FALSE
SYMMETRY Symmetry
INVARIANTS
    HistoryAgreesWithPointer
