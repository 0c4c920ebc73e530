CONSTANTS
    MaxJobs = 2
    Tasks = {t1, t2}
    ListLimit = 1
    Filters = {"all", "completed"}
    MaxClicks = 2
    MaxFails = 1
SPECIFICATION ConsoleSpec
INVARIANTS
    PanelShowsSelection
PROPERTY
    RowsNeverGoBack
    TableCatchesUp
CHECK_DEADLOCK FALSE
