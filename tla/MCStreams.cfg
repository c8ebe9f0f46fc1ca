\* Streams of up to two records.
CONSTANTS
    Jobs <- MCJobs
    Wanted <- MCWanted
    Uploads <- MCUploads
    Tables <- MCTables
    MaxRecords = 2
SPECIFICATION FairSpec
INVARIANTS ExportIsExact DownloadIsExact UploadIsWhole
PROPERTIES CallReturns
CHECK_DEADLOCK FALSE
