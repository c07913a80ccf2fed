SPECIFICATION Spec
CONSTANTS
    Anys = {"branding"}
    Kernel = "linux"
    MaxVer = 2
    Publishers = {"desk"}
    Faults = {}
    CanRevert = TRUE
    MaxPushes = 2
    MaxFaults = 0
    MaxBytes = 12
INVARIANTS
    NeverDropped
    LiveDownloadable
