SPECIFICATION Spec
CONSTANTS
    c1 = c1
    c2 = c2
    v1 = v1
    v2 = v2
    None = None
    Ids = {c1, c2}
    Values = {v1, v2}
    Legacy <- MCLegacy
    Online = FALSE
    MaxSaves = 2
    MaxBackups = 3
    MaxKeys = 3
INVARIANT SecretsRecoverable
INVARIANT MigratedStaysReadable
CHECK_DEADLOCK FALSE
