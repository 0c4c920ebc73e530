CONSTANTS
    Jobs = {j1}
    MaxEvidence = 2
    Cyclers = {c1, c2}
    RetentionDays = 2
    ArchiveDays = 1
    ScanLimit = 1
    MaxCrashes = 1
SPECIFICATION MaintSpec
INVARIANTS
    FilesReadable
PROPERTIES
    ArchivedBeforePruned
