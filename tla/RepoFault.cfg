SPECIFICATION Spec
CONSTANTS
    Anys = {"branding", "wallpapers"}
    Kernel = "linux"
    MaxVer = 2
    Publishers = {"ci"}
    Faults = {"kill", "stale", "absent"}
    CanRevert = TRUE
    MaxPushes = 2
    MaxFaults = 1
    MaxBytes = 12
INVARIANTS
    NeverDropped
    KernelNeverOlder
PROPERTIES
    DatabaseLast
