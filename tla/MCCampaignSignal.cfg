SPECIFICATION CampaignSpec
CONSTANTS
    Slots = 1
    Signals = {"TERM"}
    MaxSignals = 1
    MaxChanges = 0
PROPERTIES
    HandleKeptUntilCleanupEnds
CHECK_DEADLOCK FALSE
