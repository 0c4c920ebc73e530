CONSTANTS
    Jobs = {j1}
    MaxEvidence = 1
    Cyclers = {c1}
    RetentionDays = 1
    ArchiveDays = 2
    ScanLimit = 1
    MaxCrashes = 0
SPECIFICATION MaintSpec
PROPERTY AgedFilesArchived
