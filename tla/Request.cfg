SPECIFICATION Spec
CONSTANTS
    n0 = n0
    n1 = n1
    sd = sd
    vd = vd
    NoDisk = NoDisk
    Disk <- SmallDisk
    Nvme0 = n0
    Nvme1 = n1
    Sda = sd
    Vda = vd
    Path <- SmallPath
    Flags <- SmallFlags
    Envs <- SmallEnvs
    Worlds <- SmallWorlds
    Loose = {n1, sd}
    MaxPlugs = 1
CHECK_DEADLOCK FALSE
INVARIANTS
    TypeOK
    TypedDisksObeyed
    BatchNamed
    NukeCoversTargets
    SomebodyAgreed
    AcceptedIsRequest
