SPECIFICATION Spec
CONSTANTS
    N = 3
    PartSize = 2
    MinPart = 1
    Workers = 2
    Label = {"easy"}
    Line = {"easy", "missing"}
    MaxRevision <- MCMaxRevision
    Topics = 3
    Sample = {1, 2}
    Attempts = 3
    TypedWorkers = 2
    Reserve = 2
    Budget = 3
    PilotBudget = 1
    Assigned = 3
    Threads = 2
    Held = 2
    Charge = {1, 2}
    Guardrail = 4
    Unwritten = {"t1", "t2", "t3"}
    Written = {"t0"}
    Divided <- MCDivided
    Seeded = {2}
    Researcher = {"w1", "w2"}
    Page = {"p1", "p2"}
    Same <- MCSame
    Response <- MCResponse
    Patch <- MCPatch
    Fits = {"long"}
    FitsImport = {"long", "wide"}
    MaxPatches = 2
INVARIANT BatchedOnce SpentAsPlanned OneOwner ShippedIsClean
PROPERTY PublishedAsJudged PagesAreFinal
CHECK_DEADLOCK FALSE
