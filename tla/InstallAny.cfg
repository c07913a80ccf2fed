SPECIFICATION Spec
CONSTANTS
    d1 = d1
    d2 = d2
    NoDisk = NoDisk
    Disks = {d1, d2}
    Requests <- AnyRequests
    SameAnswers = TRUE
    Outside = {}
    MaxFaults = 2
    MaxBoots = 1
    MaxHeaders = 4
INVARIANTS
    TypeOK
    ImageMatchesTarget
    TpmPromiseKept
    BootNamesDisks
    ServerUnlockable
    EspsIdentical
    JournalTruthful
