------------------------- MODULE InstallBoot_proofs -------------------------
(***************************************************************************)
(* What a finished install boots, for every set of disks and requests and  *)
(* every bound on failures, reboots and formats.                           *)
(*                                                                         *)
(* The properties speak of the end of a run; the invariants below say what *)
(* each phase leaves behind from the moment it returns, and that no later  *)
(* phase, stop, resume or second attempt takes it away.                    *)
(***************************************************************************)
EXTENDS InstallPipeline_proofs

\* Phase p has returned: its line is in the journal or about to be written.
Did(p) == p \in journal \/ (pc = "record" /\ at = p)

Home    == tgt[cfg.primary]
HomeEsp == esp[cfg.primary]

----------------------------------------------------------------------------
(* The inductive invariant, part by part.                                  *)

\* Who began has the answers a server needs; "complete" means all of it.
LaunchInv ==
    /\ pc # "idle" \/ journal # {} => Preflight(cfg)
    /\ pc = "complete" => StepsOf(cfg) \subseteq journal

\* The disks, the mappers and the mounts the later phases work through.
DiskInv ==
    /\ Did(Ph.luks) =>
           \A d \in Members(cfg) : hdr[d] > 0 /\ mapper[Name(cfg, d)] = d
    /\ Did(Ph.filesystems) => Home.fs
    /\ Did(Ph.subvolumes) =>
           Home.subvols /\ mnt.root = cfg.primary /\ mnt.boot = cfg.primary

\* The files on them, the crypttab and the boot entry with today's headers.
FileInv ==
    /\ \A p \in Plain : Did(p) => p \in Home.done
    /\ Did(Ph.fstabCrypttab) => Home.crypttab = Headers(cfg)
    /\ Did(Ph.bootloader) => HomeEsp.entry = Headers(cfg)

\* The image is the one mkinitcpio would build again now.
UpToDate == HomeEsp.image = Built(Home)

\* After which phase that is so depends on the phases that may still rebuild.
ImageInv ==
    /\ cfg.variant = "desktop" /\ cfg.tpm = "off" /\ Did(Ph.initramfs) => UpToDate
    /\ cfg.variant = "desktop" /\ cfg.tpm = "required" /\ Did(Ph.tpmEnroll) => UpToDate
    /\ cfg.variant = "server" /\ Did(Ph.initramfsVerify) =>
           UpToDate /\ RemoteUnlock(HomeEsp.image)
    /\ Did(Ph.espResync) => esp[cfg.secondary] = HomeEsp

\* No crypttab names a header that is still to be made.
PromiseInv ==
    /\ \A d \in Slots : \A h \in tgt[d].crypttab : h.n <= hdr[h.disk]
    /\ TpmPromiseKept

----------------------------------------------------------------------------
(* Where a running phase stands in the order.                              *)

\* What a due phase has behind it, and what it leaves done.
LEMMA Behind ==
    ASSUME TypeOK, OrderInv, NEW p \in Phases, Due(p)
    PROVE  /\ cfg \in Requests
           /\ \A q \in Phases : q < p /\ Applies(q, cfg) => q \in journal
           /\ \A q \in Phases : q >= p => ~Did(q)
  <1>1. cfg \in Requests
    BY DEF TypeOK
  <1>2. ASSUME NEW q \in Phases, q < p, Applies(q, cfg) PROVE q \in journal
    BY <1>2 DEF OrderInv, Due
  <1>3. ASSUME NEW q \in Phases, q >= p, q \in journal PROVE FALSE
    <2>1. CASE q = p
      BY <1>3, <2>1 DEF Due
    <2>2. CASE p < q
      BY <1>3, <2>2 DEF OrderInv, JournalInOrder, Due
    <2>3. QED
      BY <1>3, <2>1, <2>2, PhaseType
  <1>4. QED
    BY <1>1, <1>2, <1>3 DEF Due, Did

LEMMA Ahead ==
    ASSUME TypeOK, OrderInv, NEW p \in Phases, Due(p), InPhase,
           pc' \in {"idle", "record"}
    PROVE  /\ cfg' = cfg /\ machine' = machine
           /\ \A q \in Phases :
                Did(q)' => \/ q \in journal /\ q < p /\ Did(q)
                           \/ q = p /\ pc' = "record"
  <1>1. cfg' = cfg /\ machine' = machine /\ journal' = journal /\ at' = at /\ at = p
    BY DEF InPhase, Due
  <1>2. ASSUME NEW q \in Phases, Did(q)'
        PROVE  \/ q \in journal /\ q < p /\ Did(q)
               \/ q = p /\ pc' = "record"
    <2>1. CASE q \in journal
      <3>1. ~(q >= p)
        BY <2>1, Behind DEF Did
      <3>2. QED
        BY <2>1, <3>1, PhaseType DEF Did
    <2>2. CASE pc' = "record" /\ at' = q
      BY <1>1, <2>2
    <2>3. QED
      BY <1>1, <1>2, <2>1, <2>2 DEF Did
  <1>3. QED
    BY <1>1, <1>2

\* The numbers of the phases the invariants name.
LEMMA PhaseOrder ==
    /\ Ph.partition = 1 /\ Ph.luks = 2 /\ Ph.filesystems = 3 /\ Ph.subvolumes = 4
    /\ Ph.espMirror = 5 /\ Ph.pacstrap = 6 /\ Ph.localKernel = 7
    /\ Ph.fstabCrypttab = 11 /\ Ph.locale = 12 /\ Ph.mkinitcpioConfig = 15
    /\ Ph.bootloader = 18 /\ Ph.serverOverlay = 20 /\ Ph.initramfs = 21
    /\ Ph.tpmEnroll = 22 /\ Ph.initramfsVerify = 23 /\ Ph.espResync = 24
    /\ Ph.services = 25 /\ Ph.finalize = 26
    /\ Plain = {6, 8, 9, 10, 12, 13, 14, 16, 17, 19, 25, 26}
    /\ \A r : \A p \in Phases : p \notin {5, 24} => Applies(p, r)
  BY DEF Ph, Plain, Phases, Applies

\* From the fifth phase on the target and its boot directory are the primary's.
LEMMA AtHome ==
    ASSUME TypeOK, OrderInv, DiskInv, NEW p \in Phases, Due(p), p > 4
    PROVE  /\ mnt.root = cfg.primary /\ mnt.boot = cfg.primary
           /\ Root = Home /\ Boot = HomeEsp
           /\ cfg.primary \in Slots /\ Home \in Target /\ HomeEsp \in Esp
  <1>1. Ph.subvolumes \in journal
    BY Behind, PhaseOrder DEF Phases
  <1>2. mnt.root = cfg.primary /\ mnt.boot = cfg.primary
    BY <1>1 DEF DiskInv, Did
  <1>3. cfg.primary \in Slots
    BY RequestType DEF TypeOK, Slots
  <1>4. QED
    BY <1>2, <1>3, WriteType DEF Root, Boot, Home, HomeEsp

----------------------------------------------------------------------------
(* Steps between phases keep what is done, or forget all of it.            *)

LEMMA Between ==
    ASSUME SameAnswers, Outside = {}, TypeOK, [Next]_vars, ~RunPhase
    PROVE  \/ \A q \in Phases : ~Did(q)'
           \/ /\ \A q \in Phases : Did(q)' => Did(q)
              /\ UNCHANGED <<machine, mapper, mnt, hdr, enrolled, tgt, esp>>
              /\ cfg'.primary = cfg.primary /\ cfg'.secondary = cfg.secondary
              /\ cfg'.variant = cfg.variant /\ cfg'.key = cfg.key
              /\ cfg'.tpm = cfg.tpm
  <1> USE DEF machineVars, diskVars, Did
  <1>1. CASE SkipDone
    BY <1>1 DEF SkipDone
  <1>2. CASE Record
    BY <1>2 DEF Record
  <1>3. CASE Finish
    BY <1>3 DEF Finish
  <1>4. ASSUME NEW r \in Requests, Launch(r)
        PROVE  \/ \A q \in Phases : ~Did(q)'
               \/ /\ \A q \in Phases : Did(q)' => Did(q)
                  /\ UNCHANGED <<machine, mapper, mnt, hdr, enrolled, tgt, esp>>
                  /\ cfg'.primary = cfg.primary /\ cfg'.secondary = cfg.secondary
                  /\ cfg'.variant = cfg.variant /\ cfg'.key = cfg.key
                  /\ cfg'.tpm = cfg.tpm
    <2>1. CASE JournalSeen(r) = {}
      BY <1>4, <2>1 DEF Launch
    <2>2. CASE JournalSeen(r) # {}
      <3>1. cfg' = [cfg EXCEPT !.fresh = r.fresh] /\ journal' = journal
        BY <1>4, <2>2 DEF Launch, Consistent, JournalSeen
      <3>2. cfg \in Request
        BY RequestAssumption DEF TypeOK
      <3>3. /\ cfg'.primary = cfg.primary /\ cfg'.secondary = cfg.secondary
            /\ cfg'.variant = cfg.variant /\ cfg'.key = cfg.key
            /\ cfg'.tpm = cfg.tpm
        BY <3>1, <3>2 DEF Request
      <3>4. QED
        BY <1>4, <3>1, <3>3 DEF Launch
    <2>3. QED
      BY <2>1, <2>2
  <1>5. ASSUME NEW r \in Requests, LaunchRefused(r)
        PROVE  \/ \A q \in Phases : ~Did(q)'
               \/ /\ \A q \in Phases : Did(q)' => Did(q)
                  /\ UNCHANGED <<machine, mapper, mnt, hdr, enrolled, tgt, esp, cfg>>
    BY <1>5 DEF LaunchRefused, JournalSeen
  <1>6. CASE Kill
    BY <1>6 DEF Kill, Break, InPhase
  <1>7. CASE Unmount \/ CloseMappers
    BY <1>7 DEF Unmount, CloseMappers
  <1>8. CASE Reboot
    BY <1>8 DEF Reboot
  <1>9. CASE UNCHANGED vars
    BY <1>9 DEF vars
  <1>10. QED
    BY <1>1, <1>2, <1>3, <1>4, <1>5, <1>6, <1>7, <1>8, <1>9
    DEF Next, Installer, Operator

----------------------------------------------------------------------------
(* Disks and files.                                                        *)

\* Target u is target t with files added and another configuration.
Grows(t, u) == /\ u.fs = t.fs /\ u.subvols = t.subvols
               /\ t.done \subseteq u.done /\ u.crypttab = t.crypttab

LEMMA GrownBy ==
    ASSUME NEW t \in Target
    PROVE  /\ Grows(t, t)
           /\ \A p \in Phases : Grows(t, Mark(t, p)) /\ p \in Mark(t, p).done
           /\ Grows(t, [t EXCEPT !.tpm = TRUE])
           /\ Grows(t, [[t EXCEPT !.tpm = TRUE] EXCEPT !.marker = TRUE])
           /\ \A h \in Hooks, p \in Phases : Grows(t, Mark([t EXCEPT !.hooks = h], p))
  BY DEF Grows, Mark, Target

\* A phase behind the mounts that adds files, and keeps a boot entry there is.
LEMMA MountedPhase ==
    ASSUME TypeOK, OrderInv, DiskInv, FileInv, NEW p \in Phases, Due(p),
           p > 4, p # Ph.fstabCrypttab,
           InPhase, pc' \in {"idle", "record"}, UNCHANGED <<mapper, hdr>>,
           mnt'.root = mnt.root, mnt'.boot = mnt.boot,
           Grows(Home, tgt'[cfg.primary]),
           p # Ph.bootloader => esp'[cfg.primary].entry = HomeEsp.entry,
           pc' = "record" /\ p \in Plain => p \in tgt'[cfg.primary].done,
           pc' = "record" /\ p = Ph.bootloader =>
               esp'[cfg.primary].entry = Home.crypttab
    PROVE  DiskInv' /\ FileInv'
  <1>1. /\ cfg' = cfg
        /\ \A q \in Phases : Did(q)' => \/ q \in journal /\ q < p /\ Did(q)
                                        \/ q = p /\ pc' = "record"
    BY Ahead
  <1>2. Home' = tgt'[cfg.primary] /\ HomeEsp' = esp'[cfg.primary]
        /\ Headers(cfg)' = Headers(cfg)
    BY <1>1 DEF Home, HomeEsp, Headers
  <1>3. DiskInv'
    <2>1. \A q \in {Ph.luks, Ph.filesystems, Ph.subvolumes} : Did(q)' => Did(q)
      BY <1>1, PhaseOrder DEF Phases
    <2>2. QED
      BY <1>1, <1>2, <2>1 DEF DiskInv, Grows
  <1>4. ASSUME NEW q \in Plain, Did(q)' PROVE q \in Home'.done
    <2>1. CASE Did(q)
      BY <1>2, <1>4, <2>1 DEF FileInv, Grows
    <2>2. CASE q = p /\ pc' = "record"
      BY <1>2, <1>4, <2>2
    <2>3. QED
      BY <1>1, <1>4, <2>1, <2>2, PhaseType
  <1>5. ASSUME Did(Ph.fstabCrypttab)' PROVE Home'.crypttab = Headers(cfg)'
    <2>1. Did(Ph.fstabCrypttab)
      BY <1>1, <1>5, PhaseType
    <2>2. QED
      BY <1>2, <2>1 DEF FileInv, Grows
  <1>6. ASSUME Did(Ph.bootloader)' PROVE HomeEsp'.entry = Headers(cfg)'
    <2>1. CASE p # Ph.bootloader
      BY <1>1, <1>2, <1>6, <2>1, PhaseType DEF FileInv
    <2>2. CASE p = Ph.bootloader
      <3>1. pc' = "record"
        BY <1>1, <1>6, <2>2, PhaseType
      <3>2. Did(Ph.fstabCrypttab)
        BY <2>2, Behind, PhaseOrder DEF Did, Phases
      <3>3. QED
        BY <1>2, <2>2, <3>1, <3>2 DEF FileInv
    <2>3. QED
      BY <2>1, <2>2
  <1>7. QED
    BY <1>3, <1>4, <1>5, <1>6 DEF FileInv

\* What a new image, or a lost one, leaves of the ESPs.
LEMMA NewImage ==
    ASSUME TypeOK, mnt.boot = cfg.primary,
           \/ \E i \in Image : WriteBoot([Boot EXCEPT !.image = i])
           \/ \E t \in Target : LostImage(t)
           \/ UNCHANGED esp
    PROVE  esp'[cfg.primary].entry = HomeEsp.entry
  <1>1. HomeEsp \in Esp /\ Boot = HomeEsp /\ cfg.primary \in Slots
    BY WriteType DEF Boot, HomeEsp
  <1>2. ASSUME NEW i \in Image, WriteBoot([Boot EXCEPT !.image = i])
        PROVE  esp'[cfg.primary].entry = HomeEsp.entry
    BY <1>1, <1>2 DEF WriteBoot, TypeOK, Esp
  <1>3. ASSUME NEW t \in Target, LostImage(t)
        PROVE  esp'[cfg.primary].entry = HomeEsp.entry
    BY <1>1, <1>3 DEF LostImage, TypeOK, Esp, HomeEsp
  <1>4. QED
    BY <1>2, <1>3 DEF HomeEsp

\* Mirroring leaves the first ESP as it was prepared.
LEMMA Mirrored ==
    ASSUME TypeOK, Raid1(cfg), NEW e \in [Slots -> Esp], NEW c \in BOOLEAN,
           SyncEsp(e, c)
    PROVE  /\ esp'[cfg.primary] = e[cfg.primary]
           /\ mnt'.root = mnt.root /\ mnt'.boot = mnt.boot
           /\ pc' = "record" => c /\ esp'[cfg.secondary] = e[mnt.boot]
  <1>1. cfg.primary # cfg.secondary /\ cfg.primary \in Slots /\ cfg.secondary \in Slots
    BY RequestType, RequestAssumption DEF TypeOK, Request, Slots
  <1>2. CASE /\ esp' = [e EXCEPT ![cfg.secondary] = e[mnt.boot]]
             /\ IF c THEN Return ELSE Bail
             /\ UNCHANGED mnt
    BY <1>1, <1>2 DEF Bail
  <1>3. CASE /\ esp' = [e EXCEPT ![cfg.secondary].image.state = "broken"]
             /\ mnt' = [mnt EXCEPT !.esp2 = cfg.secondary]
             /\ Break
    BY <1>1, <1>3 DEF Break, TypeOK
  <1>4. CASE /\ Stop(mnt.esp2 = cfg.secondary)
             /\ esp' = e /\ UNCHANGED mnt
    BY <1>4 DEF Stop, Bail, Break
  <1>5. QED
    BY <1>2, <1>3, <1>4 DEF SyncEsp

\* A mapper name belongs to one member.
LEMMA NameInjective ==
    ASSUME NEW r \in Requests, NEW d \in Members(r), NEW e \in Members(r),
           Name(r, d) = Name(r, e)
    PROVE  d = e
  BY RequestAssumption DEF Members, Name, Raid1, Request

\* The phases that make the disks establish what the others rely on.
LEMMA DisksMade ==
    ASSUME TypeOK, OrderInv, DiskInv, FileInv,
           RunPartition \/ RunLuks \/ RunFilesystems \/ RunSubvolumes
    PROVE  DiskInv' /\ FileInv'
  <1>0. PhaseFrame
    BY DiskPhases
  <1>p. cfg \in Requests /\ cfg.primary \in Disks /\ cfg.primary \in Slots
        /\ cfg.primary \in Members(cfg) /\ Members(cfg) \subseteq Disks
    BY RequestType DEF TypeOK, Slots
  <1>f. ASSUME NEW p \in {1, 2, 3, 4}, Due(p) PROVE FileInv'
    <2>1. \A q \in Phases : Did(q)' => q <= 4
      BY <1>0, <1>f, Ahead DEF PhaseFrame, Phases
    <2>2. QED
      BY <2>1, PhaseOrder, PhaseType DEF FileInv
  <1>m. ASSUME NEW p \in {3, 4}, Due(p)
        PROVE  /\ \A d \in Members(cfg) : hdr[d] > 0 /\ mapper[Name(cfg, d)] = d
               /\ RootDev = cfg.primary
    <2>1. Ph.luks \in journal
      BY <1>m, Behind, PhaseOrder DEF Phases
    <2>2. \A d \in Members(cfg) : hdr[d] > 0 /\ mapper[Name(cfg, d)] = d
      BY <2>1 DEF DiskInv, Did
    <2>3. QED
      BY <2>2, <1>p DEF RootDev
  <1>1. CASE RunPartition
    <2>1. Due(1) /\ 1 \in Phases
      BY <1>1, PhaseOrder DEF RunPartition, Phases
    <2>2. \A q \in Phases : Did(q)' => q = 1
      BY <1>0, <2>1, Ahead DEF PhaseFrame, Phases
    <2>3. DiskInv'
      BY <2>2, PhaseOrder, PhaseType DEF DiskInv
    <2>4. QED
      BY <2>1, <2>3, <1>f
  <1>2. CASE RunLuks
    <2>1. Due(2) /\ 2 \in Phases
      BY <1>2, PhaseOrder DEF RunLuks, Phases
    <2>2. \A q \in Phases : Did(q)' => q = 1 \/ (q = 2 /\ pc' = "record")
      BY <1>0, <2>1, Ahead DEF PhaseFrame, Phases
    <2>3. cfg' = cfg
      BY <1>0 DEF PhaseFrame, InPhase
    <2>4. ASSUME pc' = "record", NEW d \in Members(cfg)
          PROVE  hdr'[d] > 0 /\ mapper'[Name(cfg, d)] = d
      <3>1. PICK opened \in Prefixes(cfg), formatted \in Prefixes(cfg) :
              /\ opened \subseteq formatted
              /\ hdr' = [x \in Disks |-> IF x \in formatted THEN hdr[x] + 1 ELSE hdr[x]]
              /\ mapper' = [n \in Names |->
                              IF \E x \in opened : Name(cfg, x) = n
                                THEN CHOOSE x \in opened : Name(cfg, x) = n
                                ELSE mapper[n]]
              /\ opened = Members(cfg)
        BY <1>2, <2>4 DEF RunLuks, Stop, Bail, Break
      <3>2. d \in formatted /\ d \in Disks /\ hdr[d] \in Nat
        BY <3>1, <1>p DEF TypeOK
      <3>3. hdr'[d] > 0
        BY <3>1, <3>2
      <3>4. Name(cfg, d) \in Names
        BY <1>p, RequestType
      <3>5. (CHOOSE x \in opened : Name(cfg, x) = Name(cfg, d)) = d
        BY <3>1, <1>p, NameInjective
      <3>6. mapper'[Name(cfg, d)] = d
        BY <3>1, <3>4, <3>5
      <3>7. QED
        BY <3>3, <3>6
    <2>5. DiskInv'
      BY <2>2, <2>3, <2>4, PhaseOrder, PhaseType DEF DiskInv
    <2>6. QED
      BY <2>1, <2>5, <1>f
  <1>3. CASE RunFilesystems
    <2>1. Due(3) /\ 3 \in Phases
      BY <1>3, PhaseOrder DEF RunFilesystems, Phases
    <2>2. \A q \in Phases : Did(q)' => q < 3 \/ (q = 3 /\ pc' = "record")
      BY <1>0, <2>1, Ahead DEF PhaseFrame, Phases
    <2>3. cfg' = cfg /\ UNCHANGED <<mapper, hdr>>
      BY <1>0, <1>3 DEF PhaseFrame, InPhase, RunFilesystems
    <2>4. ASSUME pc' = "record" PROVE tgt'[cfg.primary].fs
      <3>1. tgt' = [tgt EXCEPT ![RootDev] = [BlankTarget EXCEPT !.fs = TRUE]]
        BY <1>3, <2>4 DEF RunFilesystems, Stop, Bail, Break
      <3>2. RootDev = cfg.primary
        BY <1>m, <2>1
      <3>3. QED
        BY <3>1, <3>2, <1>p DEF TypeOK, BlankTarget
    <2>5. DiskInv'
      <3>1. \A d \in Members(cfg) : hdr'[d] > 0 /\ mapper'[Name(cfg, d)] = d
        BY <2>1, <2>3, <1>m
      <3>2. ~Did(Ph.subvolumes)'
        BY <2>2, PhaseOrder, PhaseType
      <3>3. QED
        BY <2>2, <2>3, <2>4, <3>1, <3>2, PhaseOrder, PhaseType DEF DiskInv, Home
    <2>6. QED
      BY <2>1, <2>5, <1>f
  <1>4. CASE RunSubvolumes
    <2>1. Due(4) /\ 4 \in Phases
      BY <1>4, PhaseOrder DEF RunSubvolumes, Phases
    <2>2. \A q \in Phases : Did(q)' => q < 4 \/ (q = 4 /\ pc' = "record")
      BY <1>0, <2>1, Ahead DEF PhaseFrame, Phases
    <2>3. cfg' = cfg /\ UNCHANGED <<mapper, hdr>>
      BY <1>0, <1>4 DEF PhaseFrame, InPhase, RunSubvolumes
    <2>4. RootDev = cfg.primary
      BY <1>m, <2>1
    <2>5. PICK reached \in 0 .. 5 :
            /\ mnt' = [scratch |-> IF reached \in {1, 2} THEN RootDev ELSE mnt.scratch,
                       root    |-> IF reached >= 4 THEN RootDev ELSE mnt.root,
                       boot    |-> IF reached >= 5 THEN cfg.primary ELSE mnt.boot,
                       esp2    |-> mnt.esp2]
            /\ tgt' = IF reached >= 2 THEN [tgt EXCEPT ![RootDev].subvols = TRUE] ELSE tgt
            /\ pc' = "record" => reached = 5
      BY <1>4 DEF RunSubvolumes, Stop, Bail, Break
    <2>6. tgt[cfg.primary] \in Target
      BY <1>p DEF TypeOK
    <2>7. tgt'[cfg.primary].fs = tgt[cfg.primary].fs
      BY <2>4, <2>5, <2>6, <1>p DEF TypeOK, Target
    <2>8. pc' = "record" => /\ tgt'[cfg.primary].subvols
                            /\ mnt'.root = cfg.primary /\ mnt'.boot = cfg.primary
      BY <2>4, <2>5, <2>6, <1>p DEF TypeOK, Target
    <2>9. DiskInv'
      <3>1. \A d \in Members(cfg) : hdr'[d] > 0 /\ mapper'[Name(cfg, d)] = d
        BY <2>1, <2>3, <1>m
      <3>2. tgt'[cfg.primary].fs
        <4>1. Ph.filesystems \in journal
          BY <2>1, Behind, PhaseOrder DEF Phases
        <4>2. QED
          BY <4>1, <2>7 DEF DiskInv, Did, Home
      <3>3. Did(Ph.subvolumes)' => pc' = "record"
        BY <2>2, PhaseOrder, PhaseType
      <3>4. QED
        BY <2>3, <2>8, <3>1, <3>2, <3>3 DEF DiskInv, Home
    <2>10. QED
      BY <2>1, <2>9, <1>f
  <1>5. QED
    BY <1>1, <1>2, <1>3, <1>4

\* The phases that only add files to the target keep the disks and the boot
\* entry, and leave their own mark.
LEMMA FilesAdded ==
    ASSUME TypeOK, OrderInv, DiskInv, FileInv,
           \/ RunEspMirror \/ RunLocalKernel \/ RunMkinitcpioConfig
           \/ RunServerOverlay \/ \E p \in Plain : RunPlain(p)
    PROVE  DiskInv' /\ FileInv'
  <1>0. PhaseFrame
    BY TargetPhases
  <1>g. ASSUME NEW p \in Phases, Due(p), p > 4,
               \/ UNCHANGED tgt
               \/ WriteRoot(Mark(Root, p))
               \/ \E h \in Hooks : WriteRoot(Mark([Root EXCEPT !.hooks = h], p))
        PROVE  /\ mnt.boot = cfg.primary
               /\ Grows(Home, tgt'[cfg.primary])
               /\ ~UNCHANGED tgt => p \in tgt'[cfg.primary].done
    <2>1. /\ mnt.root = cfg.primary /\ mnt.boot = cfg.primary /\ Root = Home
          /\ cfg.primary \in Slots /\ Home \in Target
      BY <1>g, AtHome
    <2>2. CASE UNCHANGED tgt
      BY <2>1, <2>2, GrownBy DEF Home
    <2>3. CASE WriteRoot(Mark(Root, p))
      <3>1. tgt'[cfg.primary] = Mark(Home, p)
        BY <2>1, <2>3 DEF WriteRoot, TypeOK
      <3>2. QED
        BY <2>1, <3>1, GrownBy
    <2>4. ASSUME NEW h \in Hooks, WriteRoot(Mark([Root EXCEPT !.hooks = h], p))
          PROVE  /\ Grows(Home, tgt'[cfg.primary])
                 /\ p \in tgt'[cfg.primary].done
      <3>1. tgt'[cfg.primary] = Mark([Home EXCEPT !.hooks = h], p)
        BY <2>1, <2>4 DEF WriteRoot, TypeOK
      <3>2. p \in tgt'[cfg.primary].done
        BY <2>1, <3>1 DEF Mark, Target
      <3>3. QED
        BY <2>1, <3>1, <3>2, GrownBy
    <2>5. QED
      BY <1>g, <2>1, <2>2, <2>3, <2>4
  <1>k. ASSUME NEW p \in Phases, Due(p), p > 4, p # 11, p # 18, KeepDisks,
               \/ UNCHANGED tgt
               \/ WriteRoot(Mark(Root, p))
               \/ \E h \in Hooks : WriteRoot(Mark([Root EXCEPT !.hooks = h], p)),
               pc' = "record" /\ p \in Plain => p \in tgt'[cfg.primary].done,
               esp'[cfg.primary].entry = HomeEsp.entry
        PROVE  DiskInv' /\ FileInv'
    <2>1. mnt.boot = cfg.primary /\ Grows(Home, tgt'[cfg.primary])
      BY <1>k, <1>g
    <2>2. UNCHANGED <<mapper, hdr, mnt>>
      BY <1>k DEF KeepDisks, machineVars
    <2>3. QED
      BY <1>0, <1>k, <2>1, <2>2, MountedPhase, PhaseOrder DEF PhaseFrame
  <1>1. CASE RunEspMirror
    BY <1>1, <1>k, PhaseOrder DEF RunEspMirror, Phases, HomeEsp
  <1>2. CASE RunLocalKernel
    <2>1. Due(7) /\ KeepDisks /\ 7 \in Phases /\ 7 \notin Plain
      BY <1>2, PhaseOrder DEF RunLocalKernel, Phases
    <2>2. mnt.boot = cfg.primary
      BY <2>1, AtHome
    <2>3. \/ WriteRoot(Mark(Root, 7)) /\ WriteBoot([Boot EXCEPT !.image = Built(Root)])
          \/ UNCHANGED <<tgt, esp>>
      BY <1>2, PhaseOrder DEF RunLocalKernel
    <2>4. esp'[cfg.primary].entry = HomeEsp.entry
      BY <2>2, <2>3, NewImage, WriteType, TargetType
    <2>5. QED
      BY <2>1, <2>3, <2>4, <1>k
  <1>3. CASE RunMkinitcpioConfig
    <2>1. Due(15) /\ KeepDisks /\ 15 \in Phases /\ 15 \notin Plain /\ UNCHANGED esp
      BY <1>3, PhaseOrder DEF RunMkinitcpioConfig, Phases
    <2>2. \/ UNCHANGED tgt
          \/ \E h \in Hooks : WriteRoot(Mark([Root EXCEPT !.hooks = h], 15))
      BY <1>3, PhaseOrder DEF RunMkinitcpioConfig, Hooks
    <2>3. QED
      BY <2>1, <2>2, <1>k DEF HomeEsp
  <1>4. CASE RunServerOverlay
    <2>1. Due(20) /\ KeepDisks /\ 20 \in Phases /\ 20 \notin Plain /\ UNCHANGED esp
      BY <1>4, PhaseOrder DEF RunServerOverlay, Phases
    <2>2. UNCHANGED tgt \/ WriteRoot(Mark(Root, 20))
      BY <1>4, PhaseOrder DEF RunServerOverlay
    <2>3. QED
      BY <2>1, <2>2, <1>k DEF HomeEsp
  <1>5. ASSUME NEW p \in Plain, RunPlain(p) PROVE DiskInv' /\ FileInv'
    <2>1. Due(p) /\ KeepDisks /\ p \in Phases /\ p > 4 /\ p # 11 /\ p # 18
          /\ UNCHANGED esp
      BY <1>5, PhaseOrder, PhaseType DEF RunPlain
    <2>2. UNCHANGED tgt \/ WriteRoot(Mark(Root, p))
      BY <1>5 DEF RunPlain
    <2>3. pc' = "record" => WriteRoot(Mark(Root, p))
      BY <1>5 DEF RunPlain, Stop, Bail, Break
    <2>4. pc' = "record" => p \in tgt'[cfg.primary].done
      <3>1. /\ mnt.root = cfg.primary /\ Root = Home
            /\ cfg.primary \in Slots /\ Home \in Target
        BY <2>1, AtHome
      <3>2. WriteRoot(Mark(Root, p)) => tgt'[cfg.primary] = Mark(Home, p)
        BY <3>1 DEF WriteRoot, TypeOK
      <3>3. QED
        BY <2>1, <2>3, <3>1, <3>2, GrownBy
    <2>5. QED
      BY <2>1, <2>2, <2>4, <1>k DEF HomeEsp
  <1>6. QED
    BY <1>1, <1>2, <1>3, <1>4, <1>5

\* fstab and crypttab: the one phase that rewrites the crypttab.
LEMMA CrypttabWritten ==
    ASSUME TypeOK, OrderInv, DiskInv, FileInv, RunFstabCrypttab
    PROVE  DiskInv' /\ FileInv'
  <1> DEFINE appended == [Root EXCEPT !.fstab = IF @ < 2 THEN @ + 1 ELSE 2]
             written == Mark([appended EXCEPT !.crypttab = Headers(cfg), !.tpm = FALSE], 11)
  <1>1. Due(11) /\ 11 \in Phases /\ PhaseFrame /\ UNCHANGED <<mapper, mnt, hdr, esp>>
    BY TargetPhases, PhaseOrder DEF RunFstabCrypttab, Phases, KeepDisks, machineVars
  <1>2. /\ mnt.root = cfg.primary /\ Root = Home
        /\ cfg.primary \in Slots /\ Home \in Target
    BY <1>1, AtHome
  <1>3. /\ \/ UNCHANGED tgt
           \/ WriteRoot(appended)
           \/ WriteRoot(written)
        /\ pc' = "record" => WriteRoot(written)
    BY PhaseOrder DEF RunFstabCrypttab, Stop, Bail, Break
  <1>4. /\ appended.fs = Home.fs /\ appended.subvols = Home.subvols
        /\ appended.done = Home.done
        /\ written.fs = Home.fs /\ written.subvols = Home.subvols
        /\ Home.done \subseteq written.done /\ written.crypttab = Headers(cfg)
    BY <1>2 DEF Target, Mark
  <1>5. /\ tgt'[cfg.primary] \in {Home, appended, written}
        /\ pc' = "record" => tgt'[cfg.primary] = written
    <2> HIDE DEF appended, written
    <2>1. QED
      BY <1>2, <1>3 DEF WriteRoot, TypeOK, Home
  <1> HIDE DEF appended, written
  <1>6. /\ tgt'[cfg.primary].fs = Home.fs /\ tgt'[cfg.primary].subvols = Home.subvols
        /\ Home.done \subseteq tgt'[cfg.primary].done
        /\ pc' = "record" => tgt'[cfg.primary].crypttab = Headers(cfg)
    BY <1>4, <1>5
  <1>7. /\ cfg' = cfg
        /\ \A q \in Phases : Did(q)' => \/ q \in journal /\ q < 11 /\ Did(q)
                                        \/ q = 11 /\ pc' = "record"
    BY <1>1, Ahead DEF PhaseFrame
  <1>8. Headers(cfg)' = Headers(cfg) /\ Home' = tgt'[cfg.primary]
    BY <1>1, <1>7 DEF Headers, Home
  <1>9. DiskInv'
    <2>1. \A q \in {Ph.luks, Ph.filesystems, Ph.subvolumes} : Did(q)' => Did(q)
      BY <1>7, PhaseOrder DEF Phases
    <2>2. QED
      BY <1>1, <1>6, <1>7, <1>8, <2>1 DEF DiskInv
  <1>10. FileInv'
    <2>1. \A q \in Plain : Did(q)' => Did(q)
      BY <1>7, PhaseOrder, PhaseType
    <2>2. Did(Ph.fstabCrypttab)' => pc' = "record"
      BY <1>7, PhaseOrder, PhaseType
    <2>3. ~Did(Ph.bootloader)'
      BY <1>7, PhaseOrder, PhaseType
    <2>4. QED
      BY <1>6, <1>8, <2>1, <2>2, <2>3 DEF FileInv
  <1>11. QED
    BY <1>9, <1>10

\* The boot entry is made from the crypttab; the mirror does not touch it.
LEMMA EntryWritten ==
    ASSUME TypeOK, OrderInv, DiskInv, FileInv, RunBootloader
    PROVE  DiskInv' /\ FileInv'
  <1> DEFINE entered == [esp EXCEPT ![mnt.boot].entry = Root.crypttab]
  <1>1. Due(18) /\ 18 \in Phases /\ 18 \notin Plain /\ PhaseFrame /\ UNCHANGED <<mapper, hdr>>
    <2>1. Due(18) /\ UNCHANGED <<mapper, hdr>>
      BY PhaseOrder DEF RunBootloader
    <2>2. PhaseFrame
      BY BootPhases
    <2>3. QED
      BY <2>1, <2>2, PhaseOrder DEF Phases
  <1>2. /\ mnt.root = cfg.primary /\ mnt.boot = cfg.primary /\ Root = Home
        /\ cfg.primary \in Slots /\ Home \in Target /\ HomeEsp \in Esp
    BY <1>1, AtHome
  <1>3. /\ entered \in [Slots -> Esp]
        /\ entered[cfg.primary].entry = Home.crypttab
    <2>1. [HomeEsp EXCEPT !.entry = Home.crypttab] \in Esp
      BY <1>2 DEF Esp, Target
    <2>2. QED
      BY <1>2, <2>1 DEF TypeOK, HomeEsp, Esp
  <1>4. Grows(Home, tgt'[cfg.primary])
    <2>1. UNCHANGED tgt \/ WriteRoot(Mark(Root, 18))
      BY PhaseOrder DEF RunBootloader
    <2>2. tgt'[cfg.primary] = Home \/ tgt'[cfg.primary] = Mark(Home, 18)
      BY <1>2, <2>1 DEF WriteRoot, TypeOK, Home
    <2>3. QED
      BY <1>1, <1>2, <2>2, GrownBy
  <1>5. /\ mnt'.root = mnt.root /\ mnt'.boot = mnt.boot
        /\ pc' = "record" => esp'[cfg.primary].entry = Home.crypttab
    <2>1. CASE UNCHANGED mnt /\ (Bail \/ Break)
      BY <2>1 DEF Bail, Break
    <2>2. CASE Raid1(cfg) /\ SyncEsp(entered, TRUE)
      <3> HIDE DEF entered
      <3>1. QED
        BY <1>3, <2>2, Mirrored
    <2>3. CASE esp' = entered /\ UNCHANGED mnt
      BY <1>3, <2>3
    <2>4. QED
      BY <2>1, <2>2, <2>3 DEF RunBootloader, Stop
  <1>6. QED
    BY <1>1, <1>2, <1>4, <1>5, MountedPhase, PhaseOrder DEF PhaseFrame

\* The rebuilds, the enrollment and the last mirror change no file but images,
\* and no entry of the primary ESP.
LEMMA ImagesWritten ==
    ASSUME TypeOK, OrderInv, DiskInv, FileInv,
           RunInitramfs \/ RunTpmEnroll \/ RunInitramfsVerify \/ RunEspResync
    PROVE  DiskInv' /\ FileInv'
  <1>0. PhaseFrame
    BY BootPhases
  <1>k. ASSUME NEW p \in {21, 22, 23, 24}, Due(p), UNCHANGED <<mapper, hdr>>,
               mnt'.root = mnt.root, mnt'.boot = mnt.boot,
               Grows(Home, tgt'[cfg.primary]),
               esp'[cfg.primary].entry = HomeEsp.entry
        PROVE  DiskInv' /\ FileInv'
    BY <1>0, <1>k, MountedPhase, PhaseOrder DEF PhaseFrame, Phases
  <1>h. ASSUME NEW p \in {21, 22, 23, 24}, Due(p)
        PROVE  /\ mnt.root = cfg.primary /\ mnt.boot = cfg.primary /\ Root = Home
               /\ cfg.primary \in Slots /\ Home \in Target /\ Grows(Home, Home)
    <2>1. p \in Phases /\ p > 4
      BY DEF Phases
    <2>2. QED
      BY <1>h, <2>1, AtHome, GrownBy
  <1>r. ASSUME NEW t \in Target, Rebuild(t)
        PROVE  \/ \E i \in Image : WriteBoot([Boot EXCEPT !.image = i])
               \/ \E u \in Target : LostImage(u)
    BY <1>r, TargetType DEF Rebuild
  <1>1. CASE RunInitramfs
    <2>1. Due(21) /\ UNCHANGED <<mapper, hdr, mnt, tgt>> /\ Rebuild(Root)
      BY <1>1, PhaseOrder DEF RunInitramfs, KeepDisks, machineVars
    <2>2. esp'[cfg.primary].entry = HomeEsp.entry
      BY <2>1, <1>h, <1>r, NewImage
    <2>3. QED
      BY <2>1, <2>2, <1>h, <1>k DEF Home
  <1>2. CASE RunTpmEnroll
    <2> DEFINE tabbed == [Root EXCEPT !.tpm = TRUE]
               marked == [tabbed EXCEPT !.marker = TRUE]
    <2>1. Due(22) /\ UNCHANGED <<mapper, hdr, mnt>>
      BY <1>2, PhaseOrder DEF RunTpmEnroll, machineVars
    <2>2. \/ UNCHANGED <<tgt, esp>>
          \/ WriteRoot(tabbed) /\ UNCHANGED esp
          \/ WriteRoot(marked) /\ Rebuild(marked)
      BY <1>2 DEF RunTpmEnroll
    <2>3. marked \in Target /\ Grows(Home, tabbed) /\ Grows(Home, marked)
      BY <2>1, <1>h, GrownBy DEF Target
    <2> HIDE DEF tabbed, marked
    <2>4. Grows(Home, tgt'[cfg.primary])
      BY <2>1, <2>2, <2>3, <1>h DEF WriteRoot, TypeOK, Home
    <2>5. esp'[cfg.primary].entry = HomeEsp.entry
      BY <2>1, <2>2, <2>3, <1>h, <1>r, NewImage
    <2>6. QED
      BY <2>1, <2>4, <2>5, <1>k
  <1>3. CASE RunInitramfsVerify
    <2>1. Due(23) /\ UNCHANGED <<mapper, hdr, mnt, tgt>>
      BY <1>3, PhaseOrder DEF RunInitramfsVerify, KeepDisks, machineVars
    <2>2. \/ WriteBoot([Boot EXCEPT !.image = Built(Root)])
          \/ LostImage(Root)
          \/ UNCHANGED esp
      BY <1>3 DEF RunInitramfsVerify
    <2>3. esp'[cfg.primary].entry = HomeEsp.entry
      BY <2>1, <2>2, <1>h, NewImage, TargetType
    <2>4. QED
      BY <2>1, <2>3, <1>h, <1>k DEF Home
  <1>4. CASE RunEspResync
    <2>1. Due(24) /\ Raid1(cfg) /\ UNCHANGED <<mapper, hdr, tgt>>
          /\ SyncEsp(esp, Boot.image.state # "none")
      BY <1>4, PhaseOrder DEF RunEspResync, Due, Applies
    <2>2. /\ esp'[cfg.primary] = esp[cfg.primary]
          /\ mnt'.root = mnt.root /\ mnt'.boot = mnt.boot
      BY <2>1, Mirrored DEF TypeOK
    <2>3. QED
      BY <2>1, <2>2, <1>h, <1>k DEF Home, HomeEsp
  <1>5. QED
    BY <1>1, <1>2, <1>3, <1>4

\* The two invariants are inductive.
LEMMA FilesNext ==
    ASSUME SameAnswers, Outside = {}, TypeOK, OrderInv, DiskInv, FileInv, [Next]_vars
    PROVE  DiskInv' /\ FileInv'
  <1>1. CASE RunPhase
    BY <1>1, DisksMade, FilesAdded, CrypttabWritten, EntryWritten, ImagesWritten
    DEF RunPhase
  <1>2. CASE ~RunPhase
    <2>1. CASE \A q \in Phases : ~Did(q)'
      BY <2>1, PhaseType DEF DiskInv, FileInv
    <2>2. CASE /\ \A q \in Phases : Did(q)' => Did(q)
               /\ UNCHANGED <<machine, mapper, mnt, hdr, enrolled, tgt, esp>>
               /\ cfg'.primary = cfg.primary /\ cfg'.secondary = cfg.secondary
      <3>1. /\ Members(cfg)' = Members(cfg) /\ Headers(cfg)' = Headers(cfg)
            /\ \A d : Name(cfg, d)' = Name(cfg, d)
            /\ Home' = Home /\ HomeEsp' = HomeEsp
        BY <2>2 DEF Members, Headers, Name, Raid1, Home, HomeEsp
      <3>2. DiskInv'
        BY <2>2, <3>1, PhaseType DEF DiskInv
      <3>3. FileInv'
        BY <2>2, <3>1, PhaseType DEF FileInv
      <3>4. QED
        BY <3>2, <3>3
    <2>3. QED
      BY <1>2, <2>1, <2>2, Between
  <1>3. QED
    BY <1>1, <1>2

----------------------------------------------------------------------------
(* Images.                                                                 *)

LEMMA LaunchNext ==
    ASSUME SameAnswers, TypeOK, OrderInv, LaunchInv, [Next]_vars
    PROVE  LaunchInv'
  <1> USE DEF LaunchInv
  <1>1. CASE SkipDone
    BY <1>1 DEF SkipDone, Preflight
  <1>2. CASE Record
    BY <1>2 DEF Record, Preflight
  <1>3. CASE Finish
    <2>1. StepsOf(cfg) \subseteq journal
      BY <1>3 DEF Finish, OrderInv, StepsOf, Phases
    <2>2. QED
      BY <1>3, <2>1 DEF Finish, Preflight, StepsOf, Applies, Raid1
  <1>4. CASE RunPhase
    BY <1>4, EveryPhase DEF PhaseFrame, InPhase, Preflight
  <1>5. ASSUME NEW r \in Requests, Launch(r) PROVE LaunchInv'
    BY <1>5 DEF Launch, Preflight
  <1>6. ASSUME NEW r \in Requests, LaunchRefused(r) PROVE LaunchInv'
    BY <1>6 DEF LaunchRefused, JournalSeen, Preflight
  <1>7. CASE Kill
    BY <1>7 DEF Kill, Break, InPhase, Preflight
  <1>8. CASE Unmount \/ CloseMappers
    BY <1>8 DEF Unmount, CloseMappers, Preflight, StepsOf, Applies, Raid1
  <1>9. CASE Reboot
    BY <1>9 DEF Reboot
  <1>10. CASE UNCHANGED vars
    BY <1>10 DEF vars, Preflight, StepsOf, Applies, Raid1
  <1>11. QED
    BY <1>1, <1>2, <1>3, <1>4, <1>5, <1>6, <1>7, <1>8, <1>9, <1>10
    DEF Next, Installer, Operator

\* The last phases add nothing an image is made from.
LEMMA SameInputs ==
    ASSUME NEW t \in Target, NEW p \in {25, 26}
    PROVE  Built(Mark(t, p)) = Built(t)
  BY PhaseOrder DEF Built, InputsOf, Mark, Target

LEMMA ImagePhases ==
    ASSUME TypeOK, OrderInv, LaunchInv, DiskInv, FileInv, ImageInv, RunPhase
    PROVE  ImageInv'
  <1>0. PhaseFrame
    BY EveryPhase
  <1>a. ASSUME NEW p \in Phases, Due(p)
        PROVE  /\ cfg' = cfg /\ pc = "phase" /\ machine' = machine
               /\ \A q \in Phases : q > p => ~Did(q)'
               /\ Did(p)' => pc' = "record"
               /\ \A q \in Phases : q # p /\ Did(q)' => Did(q)
    BY <1>0, <1>a, Ahead, PhaseType DEF PhaseFrame, Due
  <1>e. ASSUME NEW p \in Phases, Due(p), p < 21 PROVE ImageInv'
    <2>1. \A q \in Phases : q >= 21 => ~Did(q)'
      BY <1>a, <1>e, PhaseType
    <2>2. QED
      BY <2>1, PhaseOrder, PhaseType DEF ImageInv
  <1>h. ASSUME NEW p \in 21 .. 26, Due(p)
        PROVE  /\ p \in Phases
               /\ mnt.root = cfg.primary /\ mnt.boot = cfg.primary
               /\ Root = Home /\ Boot = HomeEsp /\ cfg.primary \in Slots
               /\ Home \in Target /\ HomeEsp \in Esp
    <2>1. p \in Phases /\ p > 4
      BY DEF Phases
    <2>2. QED
      BY <1>h, <2>1, AtHome
  <1>w. ASSUME NEW p \in 21 .. 26, Due(p), NEW t \in Target,
               WriteBoot([Boot EXCEPT !.image = Built(t)])
        PROVE  esp'[cfg.primary].image = Built(t)
    BY <1>h, <1>w DEF WriteBoot, TypeOK, Esp
  <1>1. CASE RunInitramfs
    <2>1. Due(21) /\ 21 \in 21 .. 26 /\ UNCHANGED tgt /\ Rebuild(Root)
      BY <1>1, PhaseOrder DEF RunInitramfs
    <2>2. pc' = "record" => WriteBoot([Boot EXCEPT !.image = Built(Root)])
      BY <2>1 DEF Rebuild, Stop, Bail, Break
    <2>3. pc' = "record" => esp'[cfg.primary].image = Built(Home)
      BY <2>1, <2>2, <1>h, <1>w
    <2>4. cfg' = cfg /\ \A q \in Phases : q > 21 => ~Did(q)'
      BY <2>1, <1>a, <1>h
    <2>5. Did(21)' => pc' = "record"
      BY <2>1, <1>a, <1>h
    <2>6. QED
      BY <2>1, <2>3, <2>4, <2>5, PhaseOrder, PhaseType
      DEF ImageInv, UpToDate, Home, HomeEsp, Built, InputsOf
  <1>2. CASE RunTpmEnroll
    <2> DEFINE marked == [[Root EXCEPT !.tpm = TRUE] EXCEPT !.marker = TRUE]
    <2>1. Due(22) /\ 22 \in 21 .. 26
      BY <1>2, PhaseOrder DEF RunTpmEnroll
    <2>2. /\ cfg' = cfg /\ \A q \in Phases : q > 22 => ~Did(q)'
          /\ Did(22)' => pc' = "record"
          /\ Did(21)' => Did(21)
      BY <2>1, <1>a, <1>h, PhaseOrder DEF Phases
    <2>3. cfg.tpm = "off" => UNCHANGED <<tgt, esp>>
      BY <1>2 DEF RunTpmEnroll
    <2>4. cfg.tpm = "required" /\ pc' = "record" =>
              WriteRoot(marked) /\ WriteBoot([Boot EXCEPT !.image = Built(marked)])
      BY <1>2 DEF RunTpmEnroll, Rebuild, Stop, Bail, Break
    <2>5. marked \in Target
      BY <2>1, <1>h DEF Target
    <2>6. cfg.tpm = "required" /\ pc' = "record" =>
              esp'[cfg.primary].image = Built(tgt'[cfg.primary])
      <3> HIDE DEF marked
      <3>1. WriteRoot(marked) => tgt'[cfg.primary] = marked
        BY <2>1, <1>h DEF WriteRoot, TypeOK
      <3>2. QED
        BY <2>1, <2>4, <2>5, <3>1, <1>w
    <2>7. UpToDate' <=> esp'[cfg.primary].image = Built(tgt'[cfg.primary])
      BY <2>2 DEF UpToDate, HomeEsp, Home, Built, InputsOf
    <2>8. UNCHANGED <<tgt, esp>> /\ UpToDate => UpToDate'
      BY <2>7 DEF UpToDate, HomeEsp, Home
    <2>9. QED
      BY <2>2, <2>3, <2>6, <2>7, <2>8, PhaseOrder, PhaseType DEF ImageInv
  <1>3. CASE RunInitramfsVerify
    <2>1. Due(23) /\ 23 \in 21 .. 26 /\ UNCHANGED tgt
      BY <1>3, PhaseOrder DEF RunInitramfsVerify
    <2>2. /\ cfg' = cfg /\ \A q \in Phases : q > 23 => ~Did(q)'
          /\ Did(23)' => pc' = "record"
          /\ (Did(21)' => Did(21)) /\ (Did(22)' => Did(22))
      BY <2>1, <1>a, <1>h, PhaseOrder DEF Phases
    <2>3. cfg.variant = "desktop" => UNCHANGED esp
      BY <1>3 DEF RunInitramfsVerify
    <2>4. cfg.variant = "server" => cfg.key
      BY <2>1, <1>a, <1>h DEF LaunchInv, Preflight
    <2>5. cfg.variant = "server" /\ pc' = "record" =>
              /\ WriteBoot([Boot EXCEPT !.image = Built(Root)])
              /\ RemoteUnlock(Built(Root))
      BY <1>3, <2>4 DEF RunInitramfsVerify, Stop, Bail, Break
    <2>6. cfg.variant = "server" /\ pc' = "record" =>
              /\ esp'[cfg.primary].image = Built(Home)
              /\ RemoteUnlock(esp'[cfg.primary].image)
      BY <2>1, <2>5, <1>h, <1>w
    <2>7. /\ UpToDate' <=> esp'[cfg.primary].image = Built(Home)
          /\ HomeEsp' = esp'[cfg.primary]
      BY <2>1, <2>2 DEF UpToDate, HomeEsp, Home, Built, InputsOf
    <2>8. UNCHANGED esp /\ UpToDate => UpToDate'
      BY <2>7 DEF UpToDate, HomeEsp
    <2>9. RemoteUnlock(HomeEsp)' = RemoteUnlock(HomeEsp')
      BY DEF RemoteUnlock
    <2>10. QED
      BY <2>2, <2>3, <2>6, <2>7, <2>8, PhaseOrder, PhaseType
      DEF ImageInv, RemoteUnlock
  <1>4. CASE RunEspResync
    <2>1. Due(24) /\ 24 \in 21 .. 26 /\ UNCHANGED tgt /\ Raid1(cfg)
          /\ SyncEsp(esp, Boot.image.state # "none")
      BY <1>4, PhaseOrder DEF RunEspResync, Due, Applies
    <2>2. /\ cfg' = cfg
          /\ Did(24)' => pc' = "record"
          /\ \A q \in {21, 22, 23} : Did(q)' => Did(q)
      BY <2>1, <1>a, <1>h, PhaseOrder DEF Phases
    <2>3. /\ esp'[cfg.primary] = HomeEsp
          /\ pc' = "record" => esp'[cfg.secondary] = HomeEsp
      BY <2>1, <1>h, Mirrored DEF TypeOK, HomeEsp, Boot
    <2>4. HomeEsp' = HomeEsp /\ Home' = Home
      BY <2>1, <2>2, <2>3 DEF HomeEsp, Home
    <2>5. UpToDate => UpToDate'
      BY <2>4 DEF UpToDate, Built, InputsOf
    <2>6. pc' = "record" => esp'[cfg'.secondary] = HomeEsp'
      BY <2>2, <2>3, <2>4
    <2>7. \A q \in {Ph.initramfs, Ph.tpmEnroll, Ph.initramfsVerify} : Did(q)' => Did(q)
      BY <2>2, PhaseOrder
    <2>8. Did(Ph.espResync)' => pc' = "record"
      BY <2>2, PhaseOrder
    <2>9. QED
      BY <2>2, <2>4, <2>5, <2>6, <2>7, <2>8 DEF ImageInv, RemoteUnlock
  <1>5. ASSUME NEW p \in {25, 26}, RunPlain(p) PROVE ImageInv'
    <2>1. Due(p) /\ p \in 21 .. 26 /\ UNCHANGED esp
      BY <1>5 DEF RunPlain
    <2>2. tgt' = tgt \/ WriteRoot(Mark(Root, p))
      BY <1>5 DEF RunPlain
    <2>3. tgt'[cfg.primary] = Home \/ tgt'[cfg.primary] = Mark(Home, p)
      BY <2>1, <2>2, <1>h DEF WriteRoot, TypeOK, Home
    <2>4. Built(tgt'[cfg.primary]) = Built(Home)
      BY <2>1, <2>3, <1>h, SameInputs
    <2>5. /\ cfg' = cfg /\ \A q \in {21, 22, 23, 24} : Did(q)' => Did(q)
      BY <2>1, <1>a, <1>h, PhaseOrder DEF Phases
    <2>6. HomeEsp' = HomeEsp /\ (UpToDate => UpToDate')
      BY <2>1, <2>4, <2>5 DEF UpToDate, HomeEsp, Home, Built, InputsOf
    <2>7. QED
      BY <2>1, <2>5, <2>6, PhaseOrder DEF ImageInv, RemoteUnlock
  <1>6. \/ \E p \in Phases : Due(p) /\ p < 21
        \/ RunInitramfs \/ RunTpmEnroll \/ RunInitramfsVerify \/ RunEspResync
        \/ \E p \in {25, 26} : RunPlain(p)
    <2>1. ASSUME NEW p \in Plain, RunPlain(p), p \notin {25, 26}
          PROVE  Due(p) /\ p \in Phases /\ p < 21
      BY <2>1, PhaseOrder DEF RunPlain, Phases
    <2>2. /\ RunPartition => Due(1)
          /\ RunLuks => Due(2)
          /\ RunFilesystems => Due(3)
          /\ RunSubvolumes => Due(4)
          /\ RunEspMirror => Due(5)
      BY PhaseOrder DEF RunPartition, RunLuks, RunFilesystems, RunSubvolumes, RunEspMirror
    <2>3. /\ RunLocalKernel => Due(7)
          /\ RunFstabCrypttab => Due(11)
          /\ RunMkinitcpioConfig => Due(15)
          /\ RunBootloader => Due(18)
          /\ RunServerOverlay => Due(20)
      BY PhaseOrder DEF RunLocalKernel, RunFstabCrypttab, RunMkinitcpioConfig,
         RunBootloader, RunServerOverlay
    <2>4. \A p \in {1, 2, 3, 4, 5, 7, 11, 15, 18, 20} : p \in Phases /\ p < 21
      BY DEF Phases
    <2>5. QED
      BY <2>1, <2>2, <2>3, <2>4 DEF RunPhase
  <1>7. QED
    BY <1>e, <1>1, <1>2, <1>3, <1>4, <1>5, <1>6

LEMMA ImageNext ==
    ASSUME SameAnswers, Outside = {}, TypeOK, OrderInv, LaunchInv, DiskInv, FileInv,
           ImageInv, [Next]_vars
    PROVE  ImageInv'
  <1>1. CASE RunPhase
    BY <1>1, ImagePhases
  <1>2. CASE \A q \in Phases : ~Did(q)'
    BY <1>2, PhaseType DEF ImageInv
  <1>3. CASE /\ \A q \in Phases : Did(q)' => Did(q)
             /\ UNCHANGED <<machine, mapper, mnt, hdr, enrolled, tgt, esp>>
             /\ cfg'.primary = cfg.primary /\ cfg'.secondary = cfg.secondary
             /\ cfg'.variant = cfg.variant /\ cfg'.key = cfg.key
             /\ cfg'.tpm = cfg.tpm
    <2>1. /\ HomeEsp' = HomeEsp /\ Home' = Home
          /\ esp'[cfg'.secondary] = esp[cfg.secondary]
      BY <1>3 DEF HomeEsp, Home
    <2>2. UpToDate => UpToDate'
      BY <2>1 DEF UpToDate, Built, InputsOf
    <2>3. QED
      BY <1>3, <2>1, <2>2, PhaseType DEF ImageInv, RemoteUnlock
  <1>4. QED
    BY <1>1, <1>2, <1>3, Between

----------------------------------------------------------------------------
(* Headers and tokens.                                                     *)

\* A step that formats nothing, takes no token and adds no crypttab line.
LEMMA QuietPromise ==
    ASSUME PromiseInv, hdr' = hdr, enrolled \subseteq enrolled',
           \A d \in Slots : \/ tgt'[d].crypttab = {}
                            \/ /\ tgt'[d].crypttab = tgt[d].crypttab
                               /\ tgt'[d].tpm => tgt[d].tpm
    PROVE  PromiseInv'
  BY DEF PromiseInv, TpmPromiseKept

\* A target written in place of the one behind the mount.
LEMMA QuietWrite ==
    ASSUME TypeOK, PromiseInv, hdr' = hdr, enrolled \subseteq enrolled',
           NEW t, WriteRoot(t),
           t.crypttab = Root.crypttab /\ (t.tpm => Root.tpm)
    PROVE  PromiseInv'
  <1>1. ASSUME NEW d \in Slots
        PROVE  /\ tgt'[d].crypttab = tgt[d].crypttab
               /\ tgt'[d].tpm => tgt[d].tpm
    BY DEF WriteRoot, Root, TypeOK
  <1>2. QED
    BY <1>1, QuietPromise

LEMMA LuksPromise ==
    ASSUME TypeOK, PromiseInv, RunLuks
    PROVE  PromiseInv'
  <1>1. PICK formatted \in Prefixes(cfg) :
          /\ hdr' = [x \in Disks |-> IF x \in formatted THEN hdr[x] + 1 ELSE hdr[x]]
          /\ tgt' = [x \in Slots |-> IF x \in formatted THEN BlankTarget ELSE tgt[x]]
          /\ enrolled' = enrolled \ formatted
    BY DEF RunLuks
  <1>2. ASSUME NEW d \in Slots, NEW h \in tgt'[d].crypttab
        PROVE  /\ h \in tgt[d].crypttab /\ tgt'[d].tpm = tgt[d].tpm
               /\ h.disk \in Disks /\ h.n \in Nat /\ h.n <= hdr[h.disk]
    <2>1. d \notin formatted /\ tgt'[d] = tgt[d]
      BY <1>1, <1>2 DEF BlankTarget
    <2>2. h \in Header
      BY <1>2, <2>1 DEF TypeOK, Target
    <2>3. QED
      BY <1>2, <2>1, <2>2 DEF PromiseInv, Header
  <1>3. ASSUME NEW d \in Slots, NEW h \in tgt'[d].crypttab
        PROVE  h.n <= hdr'[h.disk]
    BY <1>1, <1>2, <1>3 DEF TypeOK
  <1>4. ASSUME NEW d \in Slots, NEW h \in tgt'[d].crypttab,
               tgt'[d].tpm, h.n = hdr'[h.disk]
        PROVE  h.disk \in enrolled'
    <2>1. h.disk \notin formatted /\ h.n = hdr[h.disk]
      BY <1>1, <1>2, <1>4 DEF TypeOK
    <2>2. h.disk \in enrolled
      BY <1>2, <1>4, <2>1 DEF PromiseInv, TpmPromiseKept
    <2>3. QED
      BY <1>1, <2>1, <2>2
  <1>5. QED
    BY <1>3, <1>4 DEF PromiseInv, TpmPromiseKept

LEMMA CrypttabPromise ==
    ASSUME TypeOK, PromiseInv, RunFstabCrypttab
    PROVE  PromiseInv'
  <1> DEFINE appended == [Root EXCEPT !.fstab = IF @ < 2 THEN @ + 1 ELSE 2]
             written == Mark([appended EXCEPT !.crypttab = Headers(cfg), !.tpm = FALSE],
                             Ph.fstabCrypttab)
  <1>1. /\ UNCHANGED <<hdr, enrolled>>
        /\ UNCHANGED tgt \/ WriteRoot(appended) \/ WriteRoot(written)
    BY DEF RunFstabCrypttab, KeepDisks
  <1>2. Root \in Target /\ mnt.root \in Slots
    BY WriteType
  <1>3. CASE UNCHANGED tgt
    BY <1>1, <1>3, QuietPromise
  <1>4. CASE WriteRoot(appended)
    <2>1. appended.crypttab = Root.crypttab /\ appended.tpm = Root.tpm
      BY <1>2 DEF Target
    <2> HIDE DEF appended
    <2>2. QED
      BY <1>1, <1>4, <2>1, QuietWrite
  <1>5. CASE WriteRoot(written)
    <2>1. written.crypttab = Headers(cfg) /\ ~written.tpm
      BY <1>2 DEF Target, Mark
    <2> HIDE DEF written
    <2>2. ASSUME NEW h \in Headers(cfg) PROVE h.n <= hdr[h.disk]
      <3>1. PICK d \in Members(cfg) : h = [disk |-> d, n |-> hdr[d]]
        BY <2>2 DEF Headers
      <3>2. hdr[d] \in Nat
        BY RequestType DEF TypeOK
      <3>3. QED
        BY <3>1, <3>2
    <2>3. ASSUME NEW d \in Slots
          PROVE  /\ \A h \in tgt'[d].crypttab : h.n <= hdr[h.disk]
                 /\ tgt'[d].tpm => tgt'[d] = tgt[d]
      BY <1>2, <1>5, <2>1, <2>2 DEF WriteRoot, TypeOK, PromiseInv
    <2>4. QED
      BY <1>1, <2>3 DEF PromiseInv, TpmPromiseKept
  <1>6. QED
    BY <1>1, <1>3, <1>4, <1>5

\* The one phase that promises: every header of the crypttab got its token
\* before, because the crypttab names the members and no other disk.
LEMMA EnrollPromise ==
    ASSUME TypeOK, OrderInv, DiskInv, FileInv, PromiseInv, RunTpmEnroll
    PROVE  PromiseInv'
  <1> DEFINE tabbed == [Root EXCEPT !.tpm = TRUE]
             marked == [tabbed EXCEPT !.marker = TRUE]
  <1>1. Due(22) /\ 22 \in Phases
    BY PhaseOrder DEF RunTpmEnroll, Phases
  <1>2. /\ mnt.root = cfg.primary /\ Root = Home
        /\ cfg.primary \in Slots /\ Home \in Target
    BY <1>1, AtHome
  <1>3. Home.crypttab = Headers(cfg)
    BY <1>1, Behind, PhaseOrder DEF FileInv, Did, Phases
  <1>4. /\ hdr' = hdr /\ enrolled \subseteq enrolled'
        /\ \/ UNCHANGED tgt
           \/ /\ WriteRoot(tabbed) \/ WriteRoot(marked)
              /\ Members(cfg) \subseteq enrolled'
    BY DEF RunTpmEnroll, AllEnrolled
  <1>5. CASE UNCHANGED tgt
    BY <1>4, <1>5, QuietPromise
  <1>6. CASE /\ WriteRoot(tabbed) \/ WriteRoot(marked)
             /\ Members(cfg) \subseteq enrolled'
    <2>1. tabbed.crypttab = Headers(cfg) /\ marked.crypttab = Headers(cfg)
      BY <1>2, <1>3 DEF Target
    <2> HIDE DEF tabbed, marked
    <2>2. \A d \in Slots : tgt'[d].crypttab = tgt[d].crypttab
      BY <1>2, <1>3, <1>6, <2>1 DEF WriteRoot, TypeOK, Home
    <2>3. \A d \in Slots : d # cfg.primary => tgt'[d] = tgt[d]
      BY <1>2, <1>6 DEF WriteRoot, TypeOK
    <2>4. ASSUME NEW h \in tgt'[cfg.primary].crypttab PROVE h.disk \in enrolled'
      <3>1. h \in Headers(cfg)
        BY <1>2, <1>3, <2>2, <2>4 DEF Home
      <3>2. h.disk \in Members(cfg)
        BY <3>1 DEF Headers
      <3>3. QED
        BY <1>6, <3>2
    <2>5. ASSUME NEW d \in Slots, tgt'[d].tpm, NEW h \in tgt'[d].crypttab,
                 h.n = hdr'[h.disk]
          PROVE  h.disk \in enrolled'
      <3>1. CASE d = cfg.primary
        BY <2>4, <2>5, <3>1
      <3>2. CASE d # cfg.primary
        <4>1. tgt[d].tpm /\ h \in tgt[d].crypttab /\ h.n = hdr[h.disk]
          BY <1>4, <2>3, <2>5, <3>2
        <4>2. QED
          BY <1>4, <4>1 DEF PromiseInv, TpmPromiseKept
      <3>3. QED
        BY <3>1, <3>2
    <2>6. QED
      BY <1>4, <2>2, <2>5 DEF PromiseInv, TpmPromiseKept
  <1>7. QED
    BY <1>4, <1>5, <1>6

LEMMA PromiseNext ==
    ASSUME SameAnswers, Outside = {}, TypeOK, OrderInv, DiskInv, FileInv,
           PromiseInv, [Next]_vars
    PROVE  PromiseInv'
  <1>m. ASSUME NEW p \in Phases, hdr' = hdr, enrolled' = enrolled,
               \/ UNCHANGED tgt
               \/ WriteRoot(Mark(Root, p))
               \/ \E h \in Hooks : WriteRoot(Mark([Root EXCEPT !.hooks = h], p))
        PROVE  PromiseInv'
    <2>1. Root \in Target
      BY WriteType
    <2>2. /\ Mark(Root, p).crypttab = Root.crypttab /\ Mark(Root, p).tpm = Root.tpm
          /\ \A h \in Hooks : LET t == Mark([Root EXCEPT !.hooks = h], p)
                               IN  t.crypttab = Root.crypttab /\ t.tpm = Root.tpm
      BY <2>1 DEF Mark, Target
    <2>3. QED
      BY <1>m, <2>2, QuietWrite, QuietPromise
  <1>1. CASE \/ RunPartition \/ RunEspMirror \/ RunInitramfs
             \/ RunInitramfsVerify \/ RunEspResync
    <2>1. UNCHANGED <<hdr, enrolled, tgt>>
      BY <1>1 DEF RunPartition, RunEspMirror, RunInitramfs, RunInitramfsVerify,
         RunEspResync, KeepDisks, diskVars
    <2>2. QED
      BY <2>1, QuietPromise
  <1>2. CASE RunLuks
    BY <1>2, LuksPromise
  <1>3. CASE RunFilesystems
    <2>1. /\ UNCHANGED <<hdr, enrolled>>
          /\ \/ UNCHANGED tgt
             \/ tgt' = [tgt EXCEPT ![RootDev] = [BlankTarget EXCEPT !.fs = TRUE]]
      BY <1>3 DEF RunFilesystems
    <2>2. \A d \in Slots : tgt'[d].crypttab = {} \/ tgt'[d] = tgt[d]
      BY <2>1 DEF TypeOK, BlankTarget
    <2>3. QED
      BY <2>1, <2>2, QuietPromise
  <1>4. CASE RunSubvolumes
    <2>1. /\ UNCHANGED <<hdr, enrolled>>
          /\ UNCHANGED tgt \/ tgt' = [tgt EXCEPT ![RootDev].subvols = TRUE]
      BY <1>4 DEF RunSubvolumes
    <2>2. \A d \in Slots : /\ tgt'[d].crypttab = tgt[d].crypttab
                           /\ tgt'[d].tpm = tgt[d].tpm
      BY <2>1 DEF TypeOK, Target
    <2>3. QED
      BY <2>1, <2>2, QuietPromise
  <1>5. CASE RunLocalKernel \/ RunServerOverlay \/ RunBootloader
    <2>1. /\ UNCHANGED <<hdr, enrolled>>
          /\ \/ UNCHANGED tgt
             \/ \E p \in {Ph.localKernel, Ph.serverOverlay, Ph.bootloader} :
                  WriteRoot(Mark(Root, p))
      BY <1>5 DEF RunLocalKernel, RunServerOverlay, RunBootloader, KeepDisks
    <2>2. QED
      BY <2>1, <1>m, PhaseType
  <1>6. CASE RunMkinitcpioConfig
    <2>1. /\ UNCHANGED <<hdr, enrolled>>
          /\ \/ UNCHANGED tgt
             \/ \E h \in Hooks :
                  WriteRoot(Mark([Root EXCEPT !.hooks = h], Ph.mkinitcpioConfig))
      BY <1>6 DEF RunMkinitcpioConfig, KeepDisks, Hooks
    <2>2. QED
      BY <2>1, <1>m, PhaseType
  <1>7. CASE RunFstabCrypttab
    BY <1>7, CrypttabPromise
  <1>8. CASE RunTpmEnroll
    BY <1>8, EnrollPromise
  <1>9. ASSUME NEW p \in Plain, RunPlain(p) PROVE PromiseInv'
    <2>1. /\ UNCHANGED <<hdr, enrolled>>
          /\ UNCHANGED tgt \/ WriteRoot(Mark(Root, p))
      BY <1>9 DEF RunPlain, KeepDisks
    <2>2. QED
      BY <2>1, <1>m, PhaseType
  <1>10. CASE Reboot
    <2>1. /\ UNCHANGED <<hdr, enrolled>>
          /\ tgt' = [tgt EXCEPT ![NoDisk] = BlankTarget]
      BY <1>10 DEF Reboot
    <2>2. \A d \in Slots : tgt'[d].crypttab = {} \/ tgt'[d] = tgt[d]
      BY <2>1 DEF TypeOK, BlankTarget
    <2>3. QED
      BY <2>1, <2>2, QuietPromise
  <1>11. CASE ~RunPhase /\ ~Reboot
    <2>1. UNCHANGED <<hdr, enrolled, tgt>>
      BY <1>11 DEF Next, Installer, Operator, SkipDone, Record, Finish, Launch,
         LaunchRefused, Kill, Unmount, CloseMappers, diskVars, vars
    <2>2. QED
      BY <2>1, QuietPromise
  <1>12. QED
    BY <1>1, <1>2, <1>3, <1>4, <1>5, <1>6, <1>7, <1>8, <1>9, <1>10, <1>11 DEF RunPhase

----------------------------------------------------------------------------
(* The invariant as a whole, and what a finished install boots.  Outside   *)
(* is empty: who unmounts the target between two runs of one journal makes *)
(* the second write elsewhere (ResumeFindsTarget).                         *)

BootInv == /\ TypeOK /\ OrderInv /\ LaunchInv /\ DiskInv /\ FileInv
           /\ ImageInv /\ PromiseInv

LEMMA BootInit == Init => BootInv
  <1> SUFFICES ASSUME Init PROVE BootInv
    OBVIOUS
  <1>1. TypeOK /\ OrderInv
    BY TypeInit DEF Init, OrderInv, JournalInOrder
  <1>2. LaunchInv /\ DiskInv /\ FileInv /\ ImageInv
    BY DEF Init, LaunchInv, DiskInv, FileInv, ImageInv, Did
  <1>3. PromiseInv
    BY DEF Init, PromiseInv, TpmPromiseKept, BlankTarget
  <1>4. QED
    BY <1>1, <1>2, <1>3 DEF BootInv

LEMMA BootHolds == ASSUME SameAnswers, Outside = {} PROVE Spec => []BootInv
  <1>1. BootInv /\ [Next]_vars => BootInv'
    <2> SUFFICES ASSUME BootInv, [Next]_vars PROVE BootInv'
      OBVIOUS
    <2>1. TypeOK'
      BY TypeNext DEF BootInv
    <2>2. OrderInv' /\ LaunchInv'
      BY <2>1, OrderNext, LaunchNext DEF BootInv
    <2>3. DiskInv' /\ FileInv'
      BY FilesNext DEF BootInv
    <2>4. ImageInv' /\ PromiseInv'
      BY ImageNext, PromiseNext DEF BootInv
    <2>5. QED
      BY <2>1, <2>2, <2>3, <2>4 DEF BootInv
  <1>2. QED
    BY <1>1, BootInit, PTL DEF Spec

\* A finished install has every phase of its request behind it.
LEMMA Finished ==
    ASSUME BootInv, pc = "complete", NEW p \in Phases, Applies(p, cfg)
    PROVE  Did(p)
  BY DEF BootInv, LaunchInv, StepsOf, Did

\* What the journal makes a resumed run skip is really there: mappers, mounts,
\* filesystem, every file-writing phase and the crypttab (phase.rs:55).
THEOREM JournalIsTruthful ==
    ASSUME SameAnswers, Outside = {} PROVE Spec => []JournalTruthful
  <1>1. BootInv => JournalTruthful
    <2> SUFFICES ASSUME BootInv PROVE JournalTruthful
      OBVIOUS
    <2>1. cfg.primary \in Members(cfg)
      BY RequestType DEF BootInv, TypeOK
    <2>2. Headers(cfg) # {}
      BY <2>1 DEF Headers
    <2>3. QED
      BY <2>2 DEF BootInv, DiskInv, FileInv, JournalTruthful, Did, Home
  <1>2. QED
    BY <1>1, BootHolds, PTL

\* Crypttab and boot entry of a finished install name one header per disk, the
\* one it has now, after any number of formats and failed runs.
THEOREM BootFindsDisks ==
    ASSUME SameAnswers, Outside = {} PROVE Spec => []BootNamesDisks
  <1>1. BootInv => BootNamesDisks
    <2> SUFFICES ASSUME BootInv, pc = "complete"
                 PROVE  Home.crypttab = Headers(cfg) /\ HomeEsp.entry = Headers(cfg)
      BY DEF BootNamesDisks, Headers, Home, HomeEsp
    <2>1. Did(Ph.fstabCrypttab) /\ Did(Ph.bootloader)
      BY Finished, PhaseOrder, PhaseType
    <2>2. QED
      BY <2>1 DEF BootInv, FileInv
  <1>2. QED
    BY <1>1, BootHolds, PTL

\* What an answer of a finished request can be.
LEMMA AnswerType ==
    ASSUME BootInv
    PROVE  /\ cfg.variant \in {"desktop", "server"}
           /\ cfg.tpm \in {"off", "optional", "required"}
  BY RequestAssumption DEF BootInv, TypeOK, Request

\* No phase after the last rebuild changes what the image was made from: the
\* image of a finished install carries its final keymap, hooks, key and crypttab.
THEOREM ImageIsFinal ==
    ASSUME SameAnswers, Outside = {} PROVE Spec => []ImageMatchesTarget
  <1>1. BootInv => ImageMatchesTarget
    <2> SUFFICES ASSUME BootInv, pc = "complete",
                        cfg.variant = "server" \/ cfg.tpm # "optional"
                 PROVE  UpToDate
      BY DEF ImageMatchesTarget, UpToDate, Home, HomeEsp
    <2>1. Did(Ph.initramfs) /\ Did(Ph.tpmEnroll) /\ Did(Ph.initramfsVerify)
      BY Finished, PhaseOrder, PhaseType
    <2>2. QED
      BY <2>1, AnswerType DEF BootInv, ImageInv
  <1>2. QED
    BY <1>1, BootHolds, PTL

\* Both disks of a finished RAID1 install boot the same image and entry.
THEOREM EspsAreIdentical ==
    ASSUME SameAnswers, Outside = {} PROVE Spec => []EspsIdentical
  <1>1. BootInv => EspsIdentical
    <2> SUFFICES ASSUME BootInv, pc = "complete", Raid1(cfg)
                 PROVE  esp[cfg.secondary] = HomeEsp
      BY DEF EspsIdentical, HomeEsp
    <2>1. Did(Ph.espResync)
      BY Finished, PhaseType DEF Applies
    <2>2. QED
      BY <2>1 DEF BootInv, ImageInv
  <1>2. QED
    BY <1>1, BootHolds, PTL

\* A finished server can be unlocked over SSH from whichever disk it boots.
THEOREM ServerIsUnlockable ==
    ASSUME SameAnswers, Outside = {} PROVE Spec => []ServerUnlockable
  <1>1. BootInv => ServerUnlockable
    <2> SUFFICES ASSUME BootInv, pc = "complete", cfg.variant = "server",
                        NEW d \in Members(cfg)
                 PROVE  RemoteUnlock(esp[d].image)
      BY DEF ServerUnlockable
    <2>1. RemoteUnlock(HomeEsp.image)
      BY Finished, PhaseOrder, PhaseType DEF BootInv, ImageInv
    <2>2. CASE d = cfg.primary
      BY <2>1, <2>2 DEF HomeEsp
    <2>3. CASE d = cfg.secondary /\ Raid1(cfg)
      <3>1. Did(Ph.espResync)
        BY <2>3, Finished, PhaseType DEF Applies
      <3>2. QED
        BY <2>1, <2>3, <3>1 DEF BootInv, ImageInv
    <2>4. QED
      BY <2>2, <2>3 DEF Members, Raid1
  <1>2. QED
    BY <1>1, BootHolds, PTL

\* A crypttab that leaves the unlocking to the TPM names no disk whose header
\* has no token, in no state of any run.
THEOREM TpmPromiseHolds ==
    ASSUME SameAnswers, Outside = {} PROVE Spec => []TpmPromiseKept
  <1>1. BootInv => TpmPromiseKept
    BY DEF BootInv, PromiseInv
  <1>2. QED
    BY <1>1, BootHolds, PTL

----------------------------------------------------------------------------
(* A resume keeps what it resumes, whatever happened to the mounts.        *)

\* Writing a grown target through the mount takes no phase's mark from a disk.
LEMMA MarksStay ==
    ASSUME TypeOK, NEW t, WriteRoot(t), Root.done \subseteq t.done
    PROVE  tgt[cfg.primary].done \subseteq tgt'[cfg.primary].done
  BY RequestType DEF WriteRoot, Root, TypeOK, Slots

LEMMA DataStep ==
    ASSUME SameAnswers, TypeOK, OrderInv, [Next]_vars,
           Ph.pacstrap \in journal, journal' # {}
    PROVE  hdr' = hdr /\ tgt[cfg.primary].done \subseteq tgt'[cfg.primary].done
  <1>d. ASSUME NEW p \in {1, 2, 3, 4}, Due(p) PROVE FALSE
    <2>1. p \in Phases /\ ~Did(6)
      BY <1>d, Behind, PhaseType DEF Phases
    <2>2. QED
      BY <2>1, PhaseOrder DEF Did
  <1>m. Root \in Target /\ \A p \in Phases : Root.done \subseteq Mark(Root, p).done
    BY WriteType DEF Mark, Target
  <1>1. ~RunPartition /\ ~RunLuks /\ ~RunFilesystems /\ ~RunSubvolumes
    BY <1>d, PhaseOrder DEF RunPartition, RunLuks, RunFilesystems, RunSubvolumes
  <1>2. CASE UNCHANGED <<hdr, tgt>>
    BY <1>2
  <1>3. CASE \/ RunEspMirror \/ RunInitramfs \/ RunInitramfsVerify \/ RunEspResync
    BY <1>3 DEF RunEspMirror, RunInitramfs, RunInitramfsVerify, RunEspResync, KeepDisks
  <1>4. CASE RunLocalKernel \/ RunServerOverlay \/ RunBootloader
             \/ \E p \in Plain : RunPlain(p)
    <2>1. /\ UNCHANGED hdr
          /\ \/ UNCHANGED tgt
             \/ \E p \in {Ph.localKernel, Ph.serverOverlay, Ph.bootloader} \cup Plain :
                  WriteRoot(Mark(Root, p))
      BY <1>4 DEF RunLocalKernel, RunServerOverlay, RunBootloader, RunPlain, KeepDisks
    <2>2. QED
      BY <2>1, <1>m, MarksStay, PhaseType
  <1>5. CASE RunMkinitcpioConfig
    <2>1. /\ UNCHANGED hdr
          /\ \/ UNCHANGED tgt
             \/ \E h \in Hooks :
                  WriteRoot(Mark([Root EXCEPT !.hooks = h], Ph.mkinitcpioConfig))
      BY <1>5 DEF RunMkinitcpioConfig, KeepDisks, Hooks
    <2>2. \A h \in Hooks :
            Root.done \subseteq Mark([Root EXCEPT !.hooks = h], Ph.mkinitcpioConfig).done
      BY <1>m DEF Mark, Target
    <2>3. QED
      BY <2>1, <2>2, MarksStay
  <1>6. CASE RunFstabCrypttab
    <2> DEFINE appended == [Root EXCEPT !.fstab = IF @ < 2 THEN @ + 1 ELSE 2]
               written == Mark([appended EXCEPT !.crypttab = Headers(cfg), !.tpm = FALSE],
                               Ph.fstabCrypttab)
    <2>1. UNCHANGED hdr /\ (UNCHANGED tgt \/ WriteRoot(appended) \/ WriteRoot(written))
      BY <1>6 DEF RunFstabCrypttab, KeepDisks
    <2>2. Root.done \subseteq appended.done /\ Root.done \subseteq written.done
      BY <1>m DEF Mark, Target
    <2> HIDE DEF appended, written
    <2>3. QED
      BY <2>1, <2>2, MarksStay
  <1>7. CASE RunTpmEnroll
    <2> DEFINE tabbed == [Root EXCEPT !.tpm = TRUE]
               marked == [tabbed EXCEPT !.marker = TRUE]
    <2>1. UNCHANGED hdr /\ (UNCHANGED tgt \/ WriteRoot(tabbed) \/ WriteRoot(marked))
      BY <1>7 DEF RunTpmEnroll
    <2>2. Root.done \subseteq tabbed.done /\ Root.done \subseteq marked.done
      BY <1>m DEF Target
    <2> HIDE DEF tabbed, marked
    <2>3. QED
      BY <2>1, <2>2, MarksStay
  <1>8. CASE ~RunPhase
    <2>1. ~Reboot
      BY DEF Reboot
    <2>2. UNCHANGED <<hdr, tgt>>
      BY <1>8, <2>1 DEF Next, Installer, Operator, SkipDone, Record, Finish, Launch,
         LaunchRefused, Kill, Unmount, CloseMappers, diskVars, vars
    <2>3. QED
      BY <2>2
  <1>9. QED
    BY <1>1, <1>3, <1>4, <1>5, <1>6, <1>7, <1>8 DEF RunPhase

\* From the base system on, no step but a reset of the journal formats a disk
\* (main.rs:426, 466) or takes back what a phase has done to the target: also in
\* runs resumed after the target was unmounted or its mappers closed.
THEOREM ResumeIsSafe == ASSUME SameAnswers PROVE Spec => ResumeKeepsData
  <1>1. Init => OrderInv
    BY DEF Init, OrderInv, JournalInOrder
  <1>2. TypeOK /\ TypeOK' /\ OrderInv /\ [Next]_vars => OrderInv'
    BY OrderNext
  <1>3. TypeOK /\ OrderInv /\ [Next]_vars
          => [Ph.pacstrap \in journal /\ journal' # {} =>
                /\ hdr' = hdr
                /\ tgt[cfg.primary].done \subseteq tgt'[cfg.primary].done]_vars
    BY DataStep
  <1>4. QED
    BY <1>1, <1>2, <1>3, TypeCorrect, PTL DEF Spec, ResumeKeepsData
=============================================================================
