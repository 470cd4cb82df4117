SPECIFICATION Spec
CONSTANTS
    Instances = {i1, i2}
    NULL = NULL
    Kinds = {"writer", "reader", "instance", "proxy", "domain", "ip", "list"}
    Patterns = {"none", "invalid", "refused", "instances", "cluster"}
    MaxEpoch = 2
INVARIANTS
    ReadyForFailover
    TopologyFaithful
    WrongWriterCorrected
    CrashesOnlyBlind
SYMMETRY MCSymmetry
CHECK_DEADLOCK FALSE
