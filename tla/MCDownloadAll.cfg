\* One record is enough.
CONSTANTS
    Jobs <- MCJobs
    Wanted <- MCWanted
    Uploads <- MCUploads
    Tables <- MCTables
    MaxRecords = 1
SPECIFICATION Spec
INVARIANTS DownloadAllNilIsWhole
CHECK_DEADLOCK FALSE
