SPECIFICATION ArchiveSpec
CONSTANTS
    Cells = 1
    MaxDirs = 1
    MaxEdits = 0
    MaxHands = 0
PROPERTIES
    SoftInterruptSparesRun
CHECK_DEADLOCK FALSE
