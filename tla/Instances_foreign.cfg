\* An instance that only reports is interrupted.
SPECIFICATION Spec
CONSTANTS
    Instances = {i1, i2, i3}
    Situations = {"foreign"}
    None = None
    Empty = Empty
INVARIANT
    OneSniffer
CHECK_DEADLOCK FALSE
