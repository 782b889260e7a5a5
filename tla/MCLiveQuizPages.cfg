SPECIFICATION Spec
CONSTANTS
    ann = ann
    p1 = p1
    p2 = p2
    k1 = k1
    k2 = k2
    k3 = k3
    Student = {ann}
    Connection = {p1, p2}
    Owner <- PagesOwner
    Key = {k1, k2, k3}
    QuestionCount = 2
    LEASE_SECONDS = 20
    REVEAL_SECONDS = 4
    Grace = 5
    Outcomes = {"correct", "incorrect", "skipped"}
    Advances <- PagesAdvances
    MaxTime = 24
INVARIANTS
    FairPoints
    AnsweredWhileOpen
PROPERTIES
    ClockStartsOnce
SYMMETRY PagesSymmetry
CHECK_DEADLOCK FALSE
