SPECIFICATION Spec
CONSTANTS
    ann = ann
    ben = ben
    a1 = a1
    b1 = b1
    k1 = k1
    k2 = k2
    k3 = k3
    Student = {ann, ben}
    Connection = {a1, b1}
    Owner <- MCOwner
    Key = {k1, k2, k3}
    QuestionCount = 2
    LEASE_SECONDS = 20
    REVEAL_SECONDS = 4
    Grace = 5
    Outcomes = {"correct"}
    Advances <- MCAdvances
    MaxTime = 24
INVARIANTS
    TypeOK
    ClosedComplete
    CohortAddsUp
    OneTransitionPerState
PROPERTIES
    EndIsFinal
    BoardSpec
SYMMETRY MCSymmetry
CHECK_DEADLOCK FALSE
