SPECIFICATION Spec
CONSTANTS
    Builds = {b1, b2}
    Rollbacks = {r1}
    First = First
    None = None
PROPERTY ServedIsNotDeleted
CHECK_DEADLOCK FALSE
