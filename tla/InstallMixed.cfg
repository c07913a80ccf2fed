SPECIFICATION Spec
CONSTANTS
    d1 = d1
    d2 = d2
    NoDisk = NoDisk
    Disks = {d1, d2}
    Requests <- MixedRequests
    SameAnswers = TRUE
    Outside = {"umount", "close"}
    MaxFaults = 1
    MaxBoots = 0
    MaxHeaders = 2
INVARIANTS
    ConsentBeforeWipe
    JournalInOrder
PROPERTIES
    KeepsContract
    ResumeKeepsData
