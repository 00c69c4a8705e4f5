\* Instances that start one after another, all of which may die and whose pids
\* other programs may get.
SPECIFICATION Spec
CONSTANTS
    Instances = {i1, i2, i3, i4}
    Situations = {"reuse"}
    None = None
    Empty = Empty
INVARIANTS
    OneSniffer
    GivesWayToInstance
    SnifferOnRecord
    OneAtATime
CHECK_DEADLOCK FALSE
