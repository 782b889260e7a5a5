SPECIFICATION Spec
SYMMETRY Symmetry
CONSTANTS
    qa = qa
    qb = qb
    n1 = n1
    t1 = t1
    t2 = t2
    c1 = c1
    c2 = c2
    pa = pa
    pa2 = pa2
    pa3 = pa3
    pb = pb
    x1 = x1
    x2 = x2
    y1 = y1
    y2 = y2
    k1 = k1
    k2 = k2
    g1 = g1
    Question = {qa, qb, n1}
    Topic = {t1, t2}
    Category = {c1, c2}
    Payload = {pa, pa2, pa3, pb}
    FormatOf <- MCFormatOf
    FactOf <- MCFactOf
    AnswersOf <- MCAnswersOf
    Content <- MCContent
    Seed <- MCSeed
    Analysis <- MCAnalysis
    Update <- MCUpdate
    Fixed <- MCFixed
    Tab = {x1, x2}
    Given <- MCGiven
    MaxVersion <- MCMaxVersion
    Listed = {qa, qb, n1}
    RevisionsOf <- MCRevisionsOf
    QuizKey = {k1, k2}
    GameKey = {g1}
    Page = {y1, y2}
    KindsOn <- MCKindsOn
    Previewed <- MCPreviewed
    Retires = {qb}
    MAX_QUESTIONS = 2
    MaxEdits = 1
    Pools <- MCPools
    Settings <- MCSettings
INVARIANTS
    RatingDescribesContent
    BanksAreCurrent
    ListsAreInOrder
    GeneratedAsAsked
PROPERTIES
    SavesReplaceWhatWasSeen
    HostedAsReviewed
    ReviewedWasShown
    GenerationEnds
CHECK_DEADLOCK FALSE
