SPECIFICATION HarnessSpec
CONSTANTS
    Slots = 2
    Signals = {"INT", "TERM"}
    MaxSignals = 2
    MaxChanges = 1
    MaxContainers = 4
    MaxTools = 2
    MaxReplaced = 1
    MaxRecreated = 2
    Containers = {"a", "b"}
    MaxRows = 3
    Cells = 2
    MaxDirs = 3
    MaxEdits = 1
    MaxHands = 1
    Gap = 2
    Onset = 2
    OfferedEnd = 5
    TailEnd = 9
    MaxReplicas = 2
    MaxMoves = 2
    MaxHoles = 1
    MaxSkew = 2
    observationSpacing = 3
    window = 7
    MaxTime = 10
    MaxLost = 2
    MaxCycles = 2
    Interval = 2
    MaxRead = 2
    LoadOnset = 2
    LoadEnd = 4
    ObservationEnd = 6
    MaxReadyChanges = 2
INVARIANTS
    HarnessTypeOK
    NothingOutlivesReport
    SlotsSawOneWorld
    NothingLeftSilently
    LeftAsFound
    LoadIsAccountedFor
    ReportIsSound
    FaithfulMeasurement
    ReportsAgree
    ReplayMatchesProvider
    BaselineIsFaithful
    WarmsUp
    MeasuresOneRoster
PROPERTIES
    NoOverlap
    EveryCampaignEnds
    ForeignClusterSafe
    CompleteMeansMeasured
CHECK_DEADLOCK FALSE
