CONSTANTS
    k1 = k1
    k2 = k2
    Keys = {k1, k2}
    ValidFrom <- From
    ValidUntil <- Until
    Skew = 2
    EventMaxAge = 4
    Producers = {a, b}
    Consumers = {c}
    DataKeys = {d1, d2}
    Messages = {m}
    Lives = {1, 4}
    Drift = 1
    MaxTime = 4
    Policy <- OnePolicy
    FirstKey = k1
    FirstDataKey = d1
SYMMETRY Alike
SPECIFICATION Spec
INVARIANTS
    LiveIsAccepted
    RowsReadable
PROPERTY NothingAppliedLate
CHECK_DEADLOCK FALSE
