SPECIFICATION HostSpec
CONSTANTS
    ann = ann
    p1 = p1
    k1 = k1
    k2 = k2
    k3 = k3
    Student = {ann}
    Connection = {p1}
    Owner <- HostOwner
    Key = {k1, k2, k3}
    QuestionCount = 2
    LEASE_SECONDS = 20
    REVEAL_SECONDS = 4
    Grace = 5
    Outcomes = {"correct"}
    Advances <- HostAdvances
    MaxWire = 2
    MaxTime = 24
PROPERTIES
    CancelNeverStarts
CHECK_DEADLOCK FALSE
