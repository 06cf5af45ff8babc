\* Every conditional branch, and the comparisons with a pattern.
SPECIFICATION Spec
CONSTANTS
    Half = 4
    SetCCs <- PatternCodes
INVARIANTS ConditionTypeOK OutcomeAsMeant
PROPERTY ComparisonDecided
CHECK_DEADLOCK FALSE
