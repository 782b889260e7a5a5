SPECIFICATION PracticeSpec
CONSTANTS
    k1 = k1
    k2 = k2
    qa = qa
    qb = qb
    ra = ra
    ra2 = ra2
    rb = rb
    t1 = t1
    Key = {k1, k2}
    Revision = {ra, ra2, rb}
    QuestionOf <- MCQuestionOf
    TopicOf <- MCTopicOf
    CategoryOf <- MCCategoryOf
    FormatOf <- MCFormatOf
    AnswerOf <- MCAnswerOf
    Mode = {"typed", "recall"}
    Selection = {"random", "personalized", "review"}
    Offer <- MCOffer
    Scope <- MCScope
    Banks <- MCBanks
    SIZE = 2
    DUE_SHARE = 1
    WEAK_SHARE = 1
    NEW_SHARE = 0
    INTERVALS <- MCIntervals
    MaxDay = 3
INVARIANTS
    RewardedOncePerDay
    ScheduleIsEarned
    BestsAgree
PROPERTY
    PracticeIsFinal
SYMMETRY MCSymmetry
CHECK_DEADLOCK FALSE
