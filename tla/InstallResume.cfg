SPECIFICATION FairSpec
CONSTANTS
    d1 = d1
    d2 = d2
    NoDisk = NoDisk
    Disks = {d1, d2}
    Requests <- MixedRequests
    SameAnswers = TRUE
    Outside = {}
    MaxFaults = 2
    MaxBoots = 0
    MaxHeaders = 3
PROPERTIES
    ResumeCompletes
