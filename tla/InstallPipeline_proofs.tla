----------------------- MODULE InstallPipeline_proofs -----------------------
(***************************************************************************)
(* Theorems about InstallPipeline, for every set of disks and requests and *)
(* every bound.                                                            *)
(***************************************************************************)
EXTENDS InstallPipeline, TLAPS

----------------------------------------------------------------------------
(* Types of the data a phase writes.                                       *)

\* What a request consists of.
LEMMA RequestType ==
    ASSUME NEW r \in Requests
    PROVE  /\ r.primary \in Disks /\ r.secondary \in Slots
           /\ r.variant \in {"desktop", "server"} /\ r.key \in BOOLEAN
           /\ r.fresh \in BOOLEAN
           /\ Members(r) \subseteq Disks /\ r.primary \in Members(r)
           /\ \A x \in Prefixes(r) : x \subseteq Disks /\ x \subseteq Members(r)
           /\ \A d : Name(r, d) \in Names
           /\ Raid1(r) => r.secondary \in Disks
  BY RequestAssumption, DiskAssumption
  DEF Request, Members, Prefixes, Name, Names, Slots, Raid1

\* The positions of the phases are positions.
LEMMA PhaseType ==
    /\ Plain \subseteq Phases
    /\ {Ph.partition, Ph.luks, Ph.filesystems, Ph.subvolumes, Ph.espMirror,
        Ph.localKernel, Ph.fstabCrypttab, Ph.mkinitcpioConfig, Ph.bootloader,
        Ph.serverOverlay, Ph.initramfs, Ph.tpmEnroll, Ph.initramfsVerify,
        Ph.espResync} \subseteq Phases
    /\ Phases \subseteq Nat
  BY DEF Plain, Phases, Ph

\* The blank target and ESP, and an image mkinitcpio makes, have their types.
LEMMA BlankType ==
    /\ BlankTarget \in Target
    /\ [BlankTarget EXCEPT !.fs = TRUE] \in Target
    /\ BlankEsp \in Esp
  <1>1. BlankTarget \in Target
    BY DEF BlankTarget, Target, Hooks
  <1>2. [BlankTarget EXCEPT !.fs = TRUE] \in Target
    BY <1>1 DEF BlankTarget, Target, Hooks
  <1>3. InputsOf(BlankTarget) \in Inputs
    BY DEF BlankTarget, InputsOf, Inputs, Hooks
  <1>4. QED
    BY <1>1, <1>2, <1>3 DEF BlankEsp, NoImage, Esp, Image

LEMMA TargetType ==
    ASSUME NEW t \in Target
    PROVE  /\ InputsOf(t) \in Inputs
           /\ Built(t) \in Image
           /\ [Built(t) EXCEPT !.state = "broken"] \in Image
           /\ \A p \in Phases : Mark(t, p) \in Target
           /\ [t EXCEPT !.tpm = TRUE] \in Target
           /\ [t EXCEPT !.subvols = TRUE] \in Target
           /\ \A h \in Hooks : [t EXCEPT !.hooks = h] \in Target
  <1>1. InputsOf(t) \in Inputs
    BY DEF InputsOf, Inputs, Target
  <1>2. Built(t) \in Image /\ [Built(t) EXCEPT !.state = "broken"] \in Image
    BY <1>1 DEF Built, Image
  <1>3. ASSUME NEW p \in Phases PROVE Mark(t, p) \in Target
    BY DEF Mark, Target
  <1>4. /\ [t EXCEPT !.tpm = TRUE] \in Target
        /\ [t EXCEPT !.subvols = TRUE] \in Target
        /\ \A h \in Hooks : [t EXCEPT !.hooks = h] \in Target
    BY DEF Target
  <1>5. QED
    BY <1>1, <1>2, <1>3, <1>4

\* Writing a typed target or ESP through the mounts keeps the types.
LEMMA WriteType ==
    ASSUME TypeOK
    PROVE  /\ Root \in Target /\ Boot \in Esp
           /\ mnt.root \in Slots /\ mnt.boot \in Slots /\ mnt.esp2 \in Slots
           /\ RootDev \in Slots
           /\ \A t \in Target : WriteRoot(t) => tgt' \in [Slots -> Target]
           /\ \A i \in Image : [Boot EXCEPT !.image = i] \in Esp
           /\ \A e \in Esp : WriteBoot(e) => esp' \in [Slots -> Esp]
  <1>1. mnt.root \in Slots /\ mnt.boot \in Slots /\ mnt.esp2 \in Slots
    BY DEF TypeOK
  <1>2. RootDev \in Slots
    BY RequestType DEF TypeOK, RootDev
  <1>3. Root \in Target /\ Boot \in Esp
    BY <1>1 DEF TypeOK, Root, Boot
  <1>4. ASSUME NEW t \in Target, WriteRoot(t) PROVE tgt' \in [Slots -> Target]
    BY <1>1, <1>4 DEF TypeOK, WriteRoot
  <1>5. ASSUME NEW i \in Image PROVE [Boot EXCEPT !.image = i] \in Esp
    BY <1>3, <1>5 DEF Esp
  <1>6. ASSUME NEW e \in Esp, WriteBoot(e) PROVE esp' \in [Slots -> Esp]
    BY <1>1, <1>6 DEF TypeOK, WriteBoot
  <1>7. QED
    BY <1>1, <1>2, <1>3, <1>4, <1>5, <1>6

\* A phase ends the way Journal::run lets it end.
LEMMA OutcomeType ==
    ASSUME TypeOK, Return \/ Bail \/ Break
    PROVE  pc' \in {"idle", "record"} /\ faults' \in Nat
  BY BoundAssumption DEF TypeOK, Return, Bail, Break

\* What a phase leaves alone, seen from its type.
LEMMA FrameType ==
    ASSUME TypeOK, InPhase, at \in Phases, pc' \in {"idle", "record"},
           faults' \in Nat
    PROVE  /\ machine' \in [v3: BOOLEAN, tpm: BOOLEAN]
           /\ pc' \in {"idle", "phase", "record", "complete"}
           /\ at' \in 1 .. 27 /\ (pc' = "record" => at' \in Phases)
           /\ cfg' \in Requests /\ journal' \subseteq Phases
           /\ consent' \subseteq Disks /\ strayed' \subseteq Disks /\ faults' \in Nat /\ boots' \in Nat
  BY DEF TypeOK, InPhase, Phases

\* Replacing an ESP's image, or only its state, keeps the types.
LEMMA EspType ==
    ASSUME NEW e \in [Slots -> Esp], NEW d \in Slots
    PROVE  /\ \A i \in Image : [e EXCEPT ![d].image = i] \in [Slots -> Esp]
           /\ [e EXCEPT ![d].image.state = "broken"] \in [Slots -> Esp]
  <1>1. e[d] \in Esp
    OBVIOUS
  <1>2. ASSUME NEW i \in Image
        PROVE  [e EXCEPT ![d].image = i] \in [Slots -> Esp]
    <2>1. [e[d] EXCEPT !.image = i] \in Esp
      BY <1>1 DEF Esp
    <2>2. QED
      BY <2>1
  <1>3. [e EXCEPT ![d].image.state = "broken"] \in [Slots -> Esp]
    <2>1. [e[d].image EXCEPT !.state = "broken"] \in Image
      BY <1>1 DEF Esp, Image
    <2>2. [e[d] EXCEPT !.image = [e[d].image EXCEPT !.state = "broken"]] \in Esp
      BY <1>1, <2>1 DEF Esp
    <2>3. QED
      BY <2>2
  <1>4. QED
    BY <1>2, <1>3

\* mkinitcpio -P over a typed target, whatever its outcome.
LEMMA RebuildType ==
    ASSUME TypeOK, NEW t \in Target, Rebuild(t)
    PROVE  esp' \in [Slots -> Esp] /\ (Return \/ Bail \/ Break)
  <1>1. CASE WriteBoot([Boot EXCEPT !.image = Built(t)]) /\ Return
    BY <1>1, WriteType, TargetType
  <1>2. CASE Stop(~Bootstrapped \/ ~Buildable(t)) /\ LostImage(t)
    <2>1. Bail \/ Break
      BY <1>2 DEF Stop
    <2>2. esp' \in [Slots -> Esp]
      <3>1. [esp EXCEPT ![mnt.boot].image = [Built(t) EXCEPT !.state = "broken"]]
              \in [Slots -> Esp]
        BY WriteType, TargetType, EspType DEF TypeOK
      <3>2. QED
        BY <1>2, <3>1 DEF LostImage, TypeOK
    <2>3. QED
      BY <2>1, <2>2
  <1>3. QED
    BY <1>1, <1>2 DEF Rebuild

\* Mirroring typed ESPs, whatever its outcome.
LEMMA SyncType ==
    ASSUME TypeOK, Raid1(cfg), NEW e \in [Slots -> Esp], NEW c \in BOOLEAN,
           SyncEsp(e, c)
    PROVE  /\ esp' \in [Slots -> Esp]
           /\ mnt' \in [scratch: Slots, root: Slots, boot: Slots, esp2: Slots]
           /\ Return \/ Bail \/ Break
  <1>1. cfg.secondary \in Slots /\ mnt.boot \in Slots
    BY RequestType, WriteType DEF TypeOK
  <1>2. CASE /\ esp' = [e EXCEPT ![cfg.secondary] = e[mnt.boot]]
             /\ IF c THEN Return ELSE Bail
             /\ UNCHANGED mnt
    BY <1>1, <1>2 DEF TypeOK
  <1>3. CASE /\ esp' = [e EXCEPT ![cfg.secondary].image.state = "broken"]
             /\ mnt' = [mnt EXCEPT !.esp2 = cfg.secondary]
             /\ Break
    <2>1. esp' \in [Slots -> Esp]
      BY <1>1, <1>3, EspType
    <2>2. QED
      BY <1>1, <1>3, <2>1 DEF TypeOK
  <1>4. CASE Stop(mnt.esp2 = cfg.secondary) /\ esp' = e /\ UNCHANGED mnt
    BY <1>4 DEF TypeOK, Stop
  <1>5. QED
    BY <1>2, <1>3, <1>4 DEF SyncEsp

----------------------------------------------------------------------------
(* Every phase keeps the types, and stops or returns as Journal::run says. *)

\* What every phase has in common: it leaves the journal and the position of
\* the run to Journal::run, and overwrites no disk but the run's own.
PhaseFrame ==
    /\ pc = "phase" /\ at \in Phases /\ at \notin journal /\ Applies(at, cfg)
    /\ pc' \in {"idle", "record"} /\ faults' \in Nat
    /\ InPhase
    /\ wiped' \subseteq wiped \cup Members(cfg)

DataType ==
    /\ mapper \in [Names -> Slots]
    /\ mnt \in [scratch: Slots, root: Slots, boot: Slots, esp2: Slots]
    /\ hdr \in [Disks -> Nat]
    /\ enrolled \subseteq Disks
    /\ tgt \in [Slots -> Target]
    /\ esp \in [Slots -> Esp]
    /\ wiped \subseteq Disks

\* The four phases that make the disks.
LEMMA DiskPhases ==
    ASSUME TypeOK, RunPartition \/ RunLuks \/ RunFilesystems \/ RunSubvolumes
    PROVE  PhaseFrame /\ DataType'
  <1> USE DEF PhaseFrame, DataType
  <1>r. /\ cfg \in Requests /\ Members(cfg) \subseteq Disks
        /\ \A x \in Prefixes(cfg) : x \subseteq Disks /\ x \subseteq Members(cfg)
        /\ cfg.primary \in Slots
    BY RequestType DEF TypeOK, Slots
  <1>1. CASE RunPartition
    <2>1. Return \/ Bail \/ Break
      BY <1>1 DEF RunPartition
    <2>2. QED
      BY <1>1, <1>r, <2>1, OutcomeType, PhaseType
      DEF RunPartition, Due, TypeOK, machineVars, diskVars
  <1>2. CASE RunLuks
    <2>1. PICK opened \in Prefixes(cfg), formatted \in Prefixes(cfg) :
            /\ hdr' = [d \in Disks |-> IF d \in formatted THEN hdr[d] + 1 ELSE hdr[d]]
            /\ tgt' = [d \in Slots |-> IF d \in formatted THEN BlankTarget ELSE tgt[d]]
            /\ enrolled' = enrolled \ formatted
            /\ wiped' = wiped \cup formatted
            /\ mapper' = [n \in Names |->
                            IF \E d \in opened : Name(cfg, d) = n
                              THEN CHOOSE d \in opened : Name(cfg, d) = n
                              ELSE mapper[n]]
            /\ Return \/ Bail \/ Break
      BY <1>2 DEF RunLuks, Stop
    <2>2. mapper' \in [Names -> Slots]
      <3>1. ASSUME NEW n \in Names, \E d \in opened : Name(cfg, d) = n
            PROVE  (CHOOSE d \in opened : Name(cfg, d) = n) \in Slots
        BY <3>1, <1>r DEF Slots
      <3>2. QED
        BY <2>1, <3>1 DEF TypeOK
    <2>3. hdr' \in [Disks -> Nat] /\ tgt' \in [Slots -> Target]
      BY <2>1, BlankType DEF TypeOK
    <2>4. QED
      BY <1>2, <1>r, <2>1, <2>2, <2>3, OutcomeType, PhaseType
      DEF RunLuks, Due, TypeOK
  <1>3. CASE RunFilesystems
    <2>1. Return \/ Bail \/ Break
      BY <1>3 DEF RunFilesystems, Stop
    <2>2. esp' \in [Slots -> Esp]
      BY <1>3, BlankType DEF RunFilesystems, TypeOK
    <2>3. tgt' \in [Slots -> Target]
      BY <1>3, BlankType, WriteType DEF RunFilesystems, TypeOK
    <2>4. PICK fat \in Prefixes(cfg) : wiped' = wiped \cup fat
      BY <1>3 DEF RunFilesystems
    <2>5. QED
      BY <1>3, <1>r, <2>1, <2>2, <2>3, <2>4, OutcomeType, PhaseType
      DEF RunFilesystems, Due, TypeOK
  <1>4. CASE RunSubvolumes
    <2>1. PICK reached \in 0 .. 5 :
            /\ reached >= 1 => RootDev # NoDisk
            /\ mnt' = [scratch |-> IF reached \in {1, 2} THEN RootDev ELSE mnt.scratch,
                       root    |-> IF reached >= 4 THEN RootDev ELSE mnt.root,
                       boot    |-> IF reached >= 5 THEN cfg.primary ELSE mnt.boot,
                       esp2    |-> mnt.esp2]
            /\ tgt' = IF reached >= 2 THEN [tgt EXCEPT ![RootDev].subvols = TRUE] ELSE tgt
            /\ Return \/ Bail \/ Break
      BY <1>4 DEF RunSubvolumes, Stop
    <2>2. tgt' \in [Slots -> Target]
      <3>1. [tgt[RootDev] EXCEPT !.subvols = TRUE] \in Target
        BY WriteType, TargetType DEF TypeOK
      <3>2. [tgt EXCEPT ![RootDev].subvols = TRUE] \in [Slots -> Target]
        BY <3>1 DEF TypeOK
      <3>3. QED
        BY <2>1, <3>2 DEF TypeOK
    <2>3. mnt' \in [scratch: Slots, root: Slots, boot: Slots, esp2: Slots]
      BY <2>1, <1>r, WriteType DEF TypeOK
    <2>4. QED
      BY <1>4, <2>1, <2>2, <2>3, OutcomeType, PhaseType
      DEF RunSubvolumes, Due, TypeOK
  <1>5. QED
    BY <1>1, <1>2, <1>3, <1>4

\* The phases that write the target system through the mounts.
LEMMA TargetPhases ==
    ASSUME TypeOK,
           \/ RunEspMirror \/ RunLocalKernel \/ RunFstabCrypttab
           \/ RunMkinitcpioConfig \/ RunServerOverlay
           \/ \E p \in Plain : RunPlain(p)
    PROVE  PhaseFrame /\ DataType'
  <1> USE DEF PhaseFrame, DataType
  <1>w. ASSUME NEW p \in Phases, NEW t \in Target, WriteRoot(Mark(t, p))
        PROVE  tgt' \in [Slots -> Target]
    BY <1>w, WriteType, TargetType
  <1>1. CASE RunEspMirror
    BY <1>1, OutcomeType, PhaseType
    DEF RunEspMirror, Due, TypeOK, KeepDisks, machineVars
  <1>2. CASE RunLocalKernel
    <2>1. Return \/ Bail \/ Break
      BY <1>2 DEF RunLocalKernel, Stop
    <2>2. tgt' \in [Slots -> Target] /\ esp' \in [Slots -> Esp]
      BY <1>2, <1>w, WriteType, TargetType, PhaseType DEF RunLocalKernel, TypeOK
    <2>3. QED
      BY <1>2, <2>1, <2>2, OutcomeType, PhaseType
      DEF RunLocalKernel, Due, TypeOK, KeepDisks, machineVars
  <1>3. CASE RunFstabCrypttab
    <2> DEFINE appended == [Root EXCEPT !.fstab = IF @ < 2 THEN @ + 1 ELSE 2]
               headers  == Headers(cfg)
    <2>1. Return \/ Bail \/ Break
      BY <1>3 DEF RunFstabCrypttab, Stop
    <2>2. appended \in Target
      BY WriteType DEF Target
    <2>3. headers \in SUBSET Header
      BY RequestType DEF TypeOK, Header, Headers
    <2>4. [appended EXCEPT !.crypttab = headers, !.tpm = FALSE] \in Target
      <3> HIDE DEF appended, headers
      <3>1. QED
        BY <2>2, <2>3 DEF Target
    <2>5. tgt' \in [Slots -> Target]
      <3>1. \/ UNCHANGED tgt
            \/ WriteRoot(appended)
            \/ WriteRoot(Mark([appended EXCEPT !.crypttab = headers, !.tpm = FALSE],
                               Ph.fstabCrypttab))
        BY <1>3 DEF RunFstabCrypttab
      <3> HIDE DEF appended, headers
      <3>2. QED
        BY <3>1, <1>w, <2>2, <2>4, WriteType, PhaseType DEF TypeOK
    <2>6. QED
      BY <1>3, <2>1, <2>5, OutcomeType, PhaseType
      DEF RunFstabCrypttab, Due, TypeOK, KeepDisks, machineVars
  <1>4. CASE RunMkinitcpioConfig
    <2>1. Return \/ Bail \/ Break
      BY <1>4 DEF RunMkinitcpioConfig, Stop
    <2>2. \A h \in Hooks : [Root EXCEPT !.hooks = h] \in Target
      BY WriteType, TargetType
    <2>3. tgt' \in [Slots -> Target]
      <3>1. \/ UNCHANGED tgt
            \/ \E h \in Hooks : WriteRoot(Mark([Root EXCEPT !.hooks = h],
                                               Ph.mkinitcpioConfig))
        BY <1>4 DEF RunMkinitcpioConfig, Hooks
      <3>2. QED
        BY <3>1, <1>w, <2>2, PhaseType DEF TypeOK
    <2>4. QED
      BY <1>4, <2>1, <2>3, OutcomeType, PhaseType
      DEF RunMkinitcpioConfig, Due, TypeOK, KeepDisks, machineVars
  <1>5. CASE RunServerOverlay
    <2>1. Return \/ Bail \/ Break
      BY <1>5 DEF RunServerOverlay, Stop
    <2>2. tgt' \in [Slots -> Target]
      BY <1>5, <1>w, WriteType, PhaseType DEF RunServerOverlay, TypeOK
    <2>3. QED
      BY <1>5, <2>1, <2>2, OutcomeType, PhaseType
      DEF RunServerOverlay, Due, TypeOK, KeepDisks, machineVars
  <1>6. ASSUME NEW p \in Plain, RunPlain(p) PROVE PhaseFrame /\ DataType'
    <2>1. Return \/ Bail \/ Break
      BY <1>6 DEF RunPlain, Stop
    <2>2. tgt' \in [Slots -> Target]
      BY <1>6, <1>w, WriteType, PhaseType DEF RunPlain, TypeOK
    <2>3. QED
      BY <1>6, <2>1, <2>2, OutcomeType, PhaseType
      DEF RunPlain, Due, TypeOK, KeepDisks, machineVars
  <1>7. QED
    BY <1>1, <1>2, <1>3, <1>4, <1>5, <1>6

\* The phases that write a boot image, a boot entry or the second ESP.
LEMMA BootPhases ==
    ASSUME TypeOK,
           \/ RunBootloader \/ RunInitramfs \/ RunTpmEnroll
           \/ RunInitramfsVerify \/ RunEspResync
    PROVE  PhaseFrame /\ DataType'
  <1> USE DEF PhaseFrame, DataType
  <1>1. CASE RunBootloader
    <2> DEFINE entered == [esp EXCEPT ![mnt.boot].entry = Root.crypttab]
    <2>1. entered \in [Slots -> Esp]
      <3>1. [esp[mnt.boot] EXCEPT !.entry = Root.crypttab] \in Esp
        BY WriteType DEF Boot, Esp, Target
      <3>2. QED
        BY <3>1 DEF TypeOK
    <2>2. /\ Return \/ Bail \/ Break
          /\ esp' \in [Slots -> Esp]
          /\ mnt' \in [scratch: Slots, root: Slots, boot: Slots, esp2: Slots]
      <3> HIDE DEF entered
      <3>1. CASE UNCHANGED <<tgt, esp, mnt>> /\ (Bail \/ Break)
        BY <3>1 DEF TypeOK
      <3>2. CASE Raid1(cfg) /\ SyncEsp(entered, TRUE)
        BY <3>2, <2>1, SyncType
      <3>3. CASE esp' = entered /\ Return /\ UNCHANGED mnt
        BY <3>3, <2>1 DEF TypeOK
      <3>4. QED
        BY <1>1, <3>1, <3>2, <3>3 DEF RunBootloader, Stop, entered
    <2>3. tgt' \in [Slots -> Target]
      BY <1>1, WriteType, TargetType, PhaseType DEF RunBootloader, TypeOK
    <2>4. QED
      BY <1>1, <2>2, <2>3, OutcomeType, PhaseType DEF RunBootloader, Due, TypeOK
  <1>2. CASE RunInitramfs
    <2>1. esp' \in [Slots -> Esp] /\ (Return \/ Bail \/ Break)
      BY <1>2, WriteType, RebuildType DEF RunInitramfs
    <2>2. QED
      BY <1>2, <2>1, OutcomeType, PhaseType
      DEF RunInitramfs, Due, TypeOK, KeepDisks, machineVars
  <1>3. CASE RunTpmEnroll
    <2> DEFINE tabbed == [Root EXCEPT !.tpm = TRUE]
               marked == [tabbed EXCEPT !.marker = TRUE]
    <2>1. tabbed \in Target
      BY WriteType, TargetType
    <2>2. marked \in Target
      <3> HIDE DEF tabbed
      <3>1. QED
        BY <2>1 DEF Target
    <2>3. \/ /\ UNCHANGED <<enrolled, tgt, esp>>
             /\ Return \/ Bail \/ Break
          \/ /\ \E done \in Prefixes(cfg) : enrolled' = enrolled \cup done
             /\ \/ /\ faults < MaxFaults /\ faults' = faults + 1
                   /\ pc' \in {"idle", "record"}
                   /\ UNCHANGED <<tgt, esp>>
                \/ UNCHANGED <<tgt, esp>> /\ (Bail \/ Break)
                \/ WriteRoot(tabbed) /\ UNCHANGED esp /\ Break
                \/ WriteRoot(marked) /\ Rebuild(marked)
      BY <1>3 DEF RunTpmEnroll, Stop
    <2>4. /\ enrolled' \subseteq Disks
          /\ tgt' \in [Slots -> Target] /\ esp' \in [Slots -> Esp]
          /\ pc' \in {"idle", "record"} /\ faults' \in Nat
      <3> HIDE DEF tabbed, marked
      <3>1. Members(cfg) \subseteq Disks /\ \A x \in Prefixes(cfg) : x \subseteq Disks
        BY RequestType DEF TypeOK
      <3>2. WriteRoot(marked) /\ Rebuild(marked) =>
              /\ tgt' \in [Slots -> Target] /\ esp' \in [Slots -> Esp]
              /\ Return \/ Bail \/ Break
        BY <2>2, WriteType, RebuildType
      <3>3. WriteRoot(tabbed) => tgt' \in [Slots -> Target]
        BY <2>1, WriteType
      <3>4. QED
        BY <2>3, <3>1, <3>2, <3>3, OutcomeType DEF TypeOK
    <2>5. QED
      BY <1>3, <2>4, PhaseType DEF RunTpmEnroll, Due, TypeOK, machineVars
  <1>4. CASE RunInitramfsVerify
    <2>1. Rebuild(Root) => esp' \in [Slots -> Esp]
      BY WriteType, RebuildType
    <2>2. /\ Return \/ Bail \/ Break
          /\ \/ WriteBoot([Boot EXCEPT !.image = Built(Root)])
             \/ LostImage(Root) /\ Stop(~Bootstrapped \/ ~Buildable(Root))
             \/ UNCHANGED esp
      BY <1>4 DEF RunInitramfsVerify, Stop
    <2>3. esp' \in [Slots -> Esp]
      BY <2>1, <2>2, WriteType, TargetType DEF TypeOK, Rebuild
    <2>4. QED
      BY <1>4, <2>2, <2>3, OutcomeType, PhaseType
      DEF RunInitramfsVerify, Due, TypeOK, KeepDisks, machineVars
  <1>5. CASE RunEspResync
    <2>1. Raid1(cfg)
      BY <1>5 DEF RunEspResync, Due, Applies
    <2>2. /\ esp' \in [Slots -> Esp]
          /\ mnt' \in [scratch: Slots, root: Slots, boot: Slots, esp2: Slots]
          /\ Return \/ Bail \/ Break
      BY <1>5, <2>1, SyncType DEF RunEspResync, TypeOK
    <2>3. QED
      BY <1>5, <2>2, OutcomeType, PhaseType DEF RunEspResync, Due, TypeOK
  <1>6. QED
    BY <1>1, <1>2, <1>3, <1>4, <1>5

LEMMA EveryPhase == TypeOK /\ RunPhase => PhaseFrame /\ DataType'
  BY DiskPhases, TargetPhases, BootPhases DEF RunPhase

----------------------------------------------------------------------------
(* Type correctness.                                                       *)

LEMMA TypeInit == Init => TypeOK
  <1> SUFFICES ASSUME Init PROVE TypeOK
    OBVIOUS
  <1>1. tgt \in [Slots -> Target] /\ esp \in [Slots -> Esp]
    BY BlankType DEF Init
  <1>2. QED
    BY <1>1 DEF Init, TypeOK, NothingMounted, Slots, Names, Phases

LEMMA TypeNext == TypeOK /\ [Next]_vars => TypeOK'
  <1> SUFFICES ASSUME TypeOK, [Next]_vars PROVE TypeOK'
    OBVIOUS
  <1> USE DEF machineVars, diskVars, ghostVars
  <1>1. CASE SkipDone
    BY <1>1 DEF SkipDone, TypeOK, Phases
  <1>2. CASE Record
    BY <1>2 DEF Record, TypeOK, Phases
  <1>3. CASE Finish
    BY <1>3 DEF Finish, TypeOK, Phases
  <1>4. CASE RunPhase
    <2>1. PhaseFrame /\ DataType'
      BY <1>4, EveryPhase
    <2>2. QED
      BY <2>1, FrameType DEF PhaseFrame, DataType, TypeOK
  <1>5. ASSUME NEW r \in Requests, Launch(r) PROVE TypeOK'
    <2>1. Members(r) \subseteq Disks
      BY RequestType
    <2>2. journal' \subseteq Phases /\ consent' \subseteq Disks /\ strayed' \subseteq Disks
      BY <1>5, <2>1 DEF Launch, JournalSeen, TypeOK
    <2>3. cfg' \in Requests /\ pc' = "phase" /\ at' \in 1 .. 27
      BY <1>5 DEF Launch
    <2>4. UNCHANGED <<machine, mapper, mnt, hdr, enrolled, tgt, esp, wiped,
                      faults, boots>>
      BY <1>5 DEF Launch
    <2>5. QED
      BY <2>2, <2>3, <2>4 DEF TypeOK
  <1>6. ASSUME NEW r \in Requests, LaunchRefused(r) PROVE TypeOK'
    BY <1>6 DEF LaunchRefused, JournalSeen, TypeOK, Phases
  <1>7. CASE Kill
    BY <1>7, BoundAssumption DEF Kill, Break, InPhase, TypeOK
  <1>8. CASE Unmount
    BY <1>8 DEF Unmount, TypeOK, NothingMounted, Slots
  <1>9. CASE CloseMappers
    BY <1>9 DEF CloseMappers, TypeOK, Slots
  <1>10. CASE Reboot
    <2>1. tgt' \in [Slots -> Target] /\ esp' \in [Slots -> Esp]
      BY <1>10, BlankType DEF Reboot, TypeOK
    <2>2. QED
      BY <1>10, <2>1 DEF Reboot, TypeOK, NothingMounted, Slots, Phases
  <1>11. CASE UNCHANGED vars
    BY <1>11 DEF vars, TypeOK
  <1>12. QED
    BY <1>1, <1>2, <1>3, <1>4, <1>5, <1>6, <1>7, <1>8, <1>9, <1>10, <1>11
    DEF Next, Installer, Operator

\* Every reachable state has the types the module declares.
THEOREM TypeCorrect == Spec => []TypeOK
  BY TypeInit, TypeNext, PTL DEF Spec

----------------------------------------------------------------------------
(* Order and consent.  Both need to know what the running invocation has   *)
(* behind it: the phases before "at", and the agreement its journal began  *)
(* with.  Order rests on SameAnswers; consent on no assumption.            *)

OrderInv ==
    /\ JournalInOrder
    /\ pc \in {"phase", "record"} =>
          \A q \in Phases : q < at /\ Applies(q, cfg) => q \in journal
    /\ pc = "record" => at \in Phases /\ Applies(at, cfg) /\ at \notin journal
    /\ journal \subseteq StepsOf(cfg)

ConsentInv ==
    /\ ConsentBeforeWipe
    /\ pc \in {"phase", "record"} \/ journal # {} =>
          Members(cfg) \subseteq consent \cup strayed

\* Resuming with the same answers resumes the same layout.
LEMMA SameLayout ==
    ASSUME SameAnswers, TypeOK, NEW r \in Requests, Launch(r), JournalSeen(r) # {}
    PROVE  /\ Members(cfg') = Members(cfg)
           /\ \A q : Applies(q, cfg') <=> Applies(q, cfg)
  <1>1. cfg' = [cfg EXCEPT !.fresh = r.fresh]
    BY DEF Launch, Consistent
  <1>2. cfg \in Request
    BY RequestAssumption DEF TypeOK
  <1>3. cfg'.primary = cfg.primary /\ cfg'.secondary = cfg.secondary
    BY <1>1, <1>2 DEF Request
  <1>4. QED
    BY <1>3 DEF Members, Applies, Raid1

LEMMA OrderNext ==
    ASSUME SameAnswers, TypeOK, TypeOK', OrderInv, [Next]_vars
    PROVE  OrderInv'
  <1> USE DEF OrderInv, JournalInOrder
  <1>p. Phases \subseteq Nat /\ at \in Nat
    BY PhaseType DEF TypeOK
  <1>1. CASE SkipDone
    BY <1>1, <1>p DEF SkipDone, TypeOK
  <1>2. CASE Record
    <2>1. /\ journal' = journal \cup {at} /\ at' = at + 1
          /\ pc' = "phase" /\ cfg' = cfg /\ pc = "record"
      BY <1>2 DEF Record
    <2>2. JournalInOrder'
      BY <2>1
    <2>3. \A q \in Phases : q < at' /\ Applies(q, cfg') => q \in journal'
      BY <2>1, <1>p
    <2>4. journal' \subseteq StepsOf(cfg')
      BY <2>1 DEF StepsOf
    <2>5. QED
      BY <2>1, <2>2, <2>3, <2>4
  <1>3. CASE Finish
    BY <1>3, <1>p DEF Finish, StepsOf, Phases
  <1>4. CASE RunPhase
    BY <1>4, EveryPhase DEF PhaseFrame, InPhase
  <1>5. ASSUME NEW r \in Requests, Launch(r) PROVE OrderInv'
    <2>1. pc' = "phase" /\ at' = 1 /\ journal' = JournalSeen(r)
      BY <1>5 DEF Launch
    <2>2. JournalInOrder'
      BY <2>1, <1>5, SameLayout DEF JournalSeen
    <2>3. journal' \subseteq StepsOf(cfg')
      <3>1. CASE JournalSeen(r) = {}
        BY <2>1, <3>1
      <3>2. CASE JournalSeen(r) # {}
        BY <2>1, <1>5, <3>2, SameLayout DEF JournalSeen, StepsOf
      <3>3. QED
        BY <3>1, <3>2
    <2>4. QED
      BY <2>1, <2>2, <2>3 DEF Phases
  <1>6. ASSUME NEW r \in Requests, LaunchRefused(r) PROVE OrderInv'
    BY <1>6 DEF LaunchRefused, JournalSeen
  <1>7. CASE Kill
    BY <1>7 DEF Kill, Break, InPhase
  <1>8. CASE Unmount
    BY <1>8 DEF Unmount
  <1>9. CASE CloseMappers
    BY <1>9 DEF CloseMappers
  <1>10. CASE Reboot
    BY <1>10 DEF Reboot
  <1>11. CASE UNCHANGED vars
    BY <1>11 DEF vars
  <1>12. QED
    BY <1>1, <1>2, <1>3, <1>4, <1>5, <1>6, <1>7, <1>8, <1>9, <1>10, <1>11
    DEF Next, Installer, Operator

\* With the same answers, the journal never has a gap (JournalInOrder): the
\* inductive invariant adds that everything before "at" is recorded.
THEOREM OrderCorrect == ASSUME SameAnswers PROVE Spec => []JournalInOrder
  <1>1. Init => OrderInv
    BY DEF Init, OrderInv, JournalInOrder
  <1>2. TypeOK /\ TypeOK' /\ OrderInv /\ [Next]_vars => OrderInv'
    BY OrderNext
  <1>3. OrderInv => JournalInOrder
    BY DEF OrderInv
  <1>4. QED
    BY <1>1, <1>2, <1>3, TypeCorrect, PTL DEF Spec

LEMMA ConsentNext ==
    ASSUME TypeOK, ConsentInv, [Next]_vars
    PROVE  ConsentInv'
  <1> USE DEF ConsentInv, ConsentBeforeWipe, machineVars, diskVars, ghostVars
  <1>1. CASE SkipDone
    BY <1>1 DEF SkipDone
  <1>2. CASE Record
    BY <1>2 DEF Record
  <1>3. CASE Finish
    BY <1>3 DEF Finish
  <1>4. CASE RunPhase
    BY <1>4, EveryPhase DEF PhaseFrame, InPhase
  <1>5. ASSUME NEW r \in Requests, Launch(r) PROVE ConsentInv'
    <2>1. CASE JournalSeen(r) = {}
      BY <1>5, <2>1 DEF Launch, AsksToConfirm
    <2>2. CASE JournalSeen(r) # {}
      <3>1. Members(cfg) \subseteq consent \cup strayed
        BY <2>2 DEF JournalSeen
      <3>2. /\ wiped' = wiped /\ consent' = consent /\ cfg' = r
            /\ strayed' = strayed \cup (Members(r) \ Members(cfg))
        BY <1>5, <2>2 DEF Launch, AsksToConfirm
      <3>3. Members(cfg') \subseteq consent' \cup strayed'
        BY <3>1, <3>2
      <3>4. QED
        BY <3>2, <3>3
    <2>3. QED
      BY <2>1, <2>2
  <1>6. ASSUME NEW r \in Requests, LaunchRefused(r) PROVE ConsentInv'
    BY <1>6 DEF LaunchRefused, JournalSeen
  <1>7. CASE Kill
    BY <1>7 DEF Kill, Break, InPhase
  <1>8. CASE Unmount
    BY <1>8 DEF Unmount
  <1>9. CASE CloseMappers
    BY <1>9 DEF CloseMappers
  <1>10. CASE Reboot
    BY <1>10 DEF Reboot
  <1>11. CASE UNCHANGED vars
    BY <1>11 DEF vars
  <1>12. QED
    BY <1>1, <1>2, <1>3, <1>4, <1>5, <1>6, <1>7, <1>8, <1>9, <1>10, <1>11
    DEF Next, Installer, Operator

\* Whatever is answered and whoever resumes, every disk a boot overwrites is one
\* its operator agreed to lose, or one that a resume named although its journal
\* began with others (ConsentBeforeWipe): no kill, refusal, --fresh or reboot
\* opens a second way round the question.
THEOREM ConsentCorrect == Spec => []ConsentBeforeWipe
  <1>1. Init => ConsentInv
    BY DEF Init, ConsentInv, ConsentBeforeWipe
  <1>2. TypeOK /\ ConsentInv /\ [Next]_vars => ConsentInv'
    BY ConsentNext
  <1>3. ConsentInv => ConsentBeforeWipe
    BY DEF ConsentInv
  <1>4. QED
    BY <1>1, <1>2, <1>3, TypeCorrect, PTL DEF Spec

----------------------------------------------------------------------------
(* The pipeline implements the contract.                                   *)

LEMMA ContractInit == Init => Contract!Start
  BY DEF Init, Contract!Start, Status

\* Each step of the pipeline is a step of the contract or leaves it unchanged:
\* a recorded phase commits, a launch begins, a stop halts, a reboot forgets.
LEMMA ContractStep ==
    ASSUME SameAnswers, TypeOK, TypeOK', OrderInv, [Next]_vars
    PROVE  [Contract!ContractNext]_(Contract!contractVars)
  <1> USE DEF Contract!contractVars
  <1>i. \A r \in Requests : StepsOf(r) \in {StepsOf(s) : s \in Requests}
    OBVIOUS
  <1>1. CASE SkipDone
    BY <1>1 DEF SkipDone, Status
  <1>2. CASE Record
    <2>1. /\ pc = "record" /\ journal' = journal \cup {at} /\ pc' = "phase"
          /\ cfg' = cfg
      BY <1>2 DEF Record
    <2>2. at \in StepsOf(cfg) \ journal
      BY <2>1 DEF OrderInv, StepsOf
    <2>3. \A q \in StepsOf(cfg) : q < at => q \in journal
      BY <2>1 DEF OrderInv, StepsOf
    <2>4. Contract!Commit(at)
      BY <2>1, <2>2, <2>3 DEF Contract!Commit, Status
    <2>5. QED
      BY <2>2, <2>4 DEF Contract!ContractNext
  <1>3. CASE Finish
    <2>1. StepsOf(cfg) \subseteq journal
      BY <1>3 DEF Finish, OrderInv, StepsOf, Phases
    <2>2. journal \subseteq StepsOf(cfg)
      BY DEF OrderInv
    <2>3. QED
      BY <1>3, <2>1, <2>2
      DEF Finish, Contract!ContractNext, Contract!Conclude, Status
  <1>4. CASE RunPhase
    <2>1. pc = "phase" /\ pc' \in {"idle", "record"} /\ UNCHANGED <<cfg, journal>>
      BY <1>4, EveryPhase DEF PhaseFrame, InPhase
    <2>2. QED
      BY <2>1 DEF Contract!ContractNext, Contract!Halt, Status
  <1>5. ASSUME NEW r \in Requests, Launch(r)
        PROVE  Contract!ContractNext
    <2>1. Status # "running" /\ Status' = "running" /\ cfg' = r
          /\ journal' = JournalSeen(r)
      BY <1>5 DEF Launch, Status
    <2>2. JournalSeen(r) # {} => StepsOf(r) = StepsOf(cfg) /\ journal' = journal
      BY <1>5, <2>1, SameLayout DEF StepsOf, JournalSeen
    <2>3. Contract!Begin(StepsOf(r))
      BY <2>1, <2>2 DEF Contract!Begin, JournalSeen
    <2>4. QED
      BY <1>i, <2>3 DEF Contract!ContractNext
  <1>6. ASSUME NEW r \in Requests, LaunchRefused(r)
        PROVE  [Contract!ContractNext]_(Contract!contractVars)
    BY <1>6 DEF LaunchRefused, JournalSeen, Status, Contract!ContractNext,
                Contract!Halt, Contract!Forget
  <1>7. CASE Kill
    BY <1>7 DEF Kill, Break, InPhase, Status, Contract!ContractNext, Contract!Halt
  <1>8. CASE Unmount
    BY <1>8 DEF Unmount, Status
  <1>9. CASE CloseMappers
    BY <1>9 DEF CloseMappers, Status
  <1>10. CASE Reboot
    BY <1>10 DEF Reboot, Status, Contract!ContractNext, Contract!Forget
  <1>11. CASE UNCHANGED vars
    BY <1>11 DEF vars, Status
  <1>12. QED
    BY <1>1, <1>2, <1>3, <1>4, <1>5, <1>6, <1>7, <1>8, <1>9, <1>10, <1>11
    DEF Next, Installer, Operator

\* With the same answers, every run of the installer is a run of InstallContract
\* (KeepsContract): phases commit in order, once each, none is lost by a stop,
\* and "complete" is reached only with all of them.
THEOREM ContractKept == ASSUME SameAnswers PROVE Spec => KeepsContract
  <1>1. Init => OrderInv
    BY DEF Init, OrderInv, JournalInOrder
  <1>2. TypeOK /\ TypeOK' /\ OrderInv /\ [Next]_vars => OrderInv'
    BY OrderNext
  <1>3. TypeOK /\ TypeOK' /\ OrderInv /\ [Next]_vars
          => [Contract!ContractNext]_(Contract!contractVars)
    BY ContractStep
  <1>4. QED
    BY <1>1, <1>2, <1>3, ContractInit, TypeCorrect, PTL
    DEF Spec, KeepsContract, Contract!ContractSpec
=============================================================================
