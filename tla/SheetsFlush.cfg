SPECIFICATION SheetSpec
CONSTANTS
    Layouts <- MCAny
    MaxEdits = 1
INVARIANT QuantitiesExpand
CHECK_DEADLOCK FALSE
