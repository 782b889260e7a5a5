SPECIFICATION StudentSpec
CONSTANTS
    ann = ann
    ben = ben
    a1 = a1
    a2 = a2
    b1 = b1
    k1 = k1
    k2 = k2
    k3 = k3
    me = ann
    Student = {ann}
    Connection = {a1, a2}
    Owner <- StudentOwner
    Key = {k1, k2, k3}
    QuestionCount = 2
    LEASE_SECONDS = 20
    REVEAL_SECONDS = 4
    Grace = 5
    Outcomes = {"correct", "incorrect"}
    Advances <- StudentAdvances
    MaxTime = 24
    MaxAnswers = 2
INVARIANTS
    FeedbackIsTrue
    AnswersAsMeant
    PromptNeedsClock
CHECK_DEADLOCK FALSE
