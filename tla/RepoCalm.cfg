SPECIFICATION FairSpec
CONSTANTS
    Anys = {"branding", "wallpapers"}
    Kernel = "linux"
    MaxVer = 2
    Publishers = {"ci"}
    Faults = {}
    CanRevert = FALSE
    MaxPushes = 2
    MaxFaults = 0
    MaxBytes = 12
INVARIANTS
    TypeOK
    LiveDownloadable
    RollbackDownloadable
    PublishedIsInstallable
    NothingToShip
    EveryPublishTagged
PROPERTIES
    Converges
