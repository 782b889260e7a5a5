SPECIFICATION Spec
CONSTANTS
    k1 = k1
    k2 = k2
    k3 = k3
    c1 = c1
    c2 = c2
    s1 = s1
    s2 = s2
    t1 = t1
    t2 = t2
    t3 = t3
    a1 = a1
    a2 = a2
    a3 = a3
    b1 = b1
    b2 = b2
    b3 = b3
    x1 = x1
    x2 = x2
    x3 = x3
    x4 = x4
    x5 = x5
    Key = {k1}
    Category = {c1}
    Subcategory = {s1, s2}
    Topic = {t1, t2, t3}
    Question = {a1, a2, a3, b1, b2, b3, x1, x2, x3, x4, x5}
    CategoryOf <- DeepCategoryOf
    TopicsOf <- DeepTopicsOf
    TopicOf <- DeepTopicOf
    PromptOf <- DeepPromptOf
    AnswerOf <- DeepAnswerOf
    SESSION_TOPICS = 2
    Catalogs <- DeepCatalogs
    MaxAttempts = 3
    MaxBack = 1
INVARIANTS
    PageRenders
    NeverAskedAgain
    PassedByMastery
SYMMETRY DeepSymmetry
CHECK_DEADLOCK FALSE
