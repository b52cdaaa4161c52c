SPECIFICATION Spec
CONSTANTS
    Gens = {g1, g2, g3}
    NoGen = NoGen
    Reviewed = {g1, g2}
    Requests = {r1}
    NoReq = NoReq
    Ops = {"ingest", "publish", "rollback", "delete", "cleanup"}
CHECK_DEADLOCK FALSE
SYMMETRY Symmetry
INVARIANTS
    ServedIsComplete
    ServedIsActive
    DeletedIsNotServed
    RegistryShowsOnlyServed
