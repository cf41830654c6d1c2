CONSTANTS
    ModInputs <- MCKnownMods
    DurInputs <- MCDurs
    LevelInputs <- MCSetLevels
    LogLevels <- MCLogLevels
    FieldInputs <- MCFields
    MaxLoggers = 4
SPECIFICATION Spec
INVARIANTS TypeOK InstalledComplete
CHECK_DEADLOCK FALSE
