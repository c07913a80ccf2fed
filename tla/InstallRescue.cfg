SPECIFICATION Spec
CONSTANTS
    d1 = d1
    d2 = d2
    NoDisk = NoDisk
    Disks = {d1, d2}
    Requests <- ServerRequests
    SameAnswers = TRUE
    Outside = {"umount"}
    MaxFaults = 1
    MaxBoots = 0
    MaxHeaders = 1
INVARIANTS
    ResumeFindsTarget
