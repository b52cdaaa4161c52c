SPECIFICATION Spec
CONSTANTS
    Requests = {r1, r2}
    Processes = {p1, p2}
    Gens = {g1, g2}
    NoGen = NoGen
    Others = TRUE
    CacheSeconds = 2
    Looks = 2
    SemanticMax = 1
    MaxChanges = 1
    MaxTime = 4
SYMMETRY Symmetry
CHECK_DEADLOCK FALSE
INVARIANTS
    OnlyCheckedIsDelivered
    CachedEvidenceWasLive
    EvidenceAge
    CachedIsOfOneGeneration
    SwitcherSeesItsSwitch
