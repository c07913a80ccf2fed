-------------------------- MODULE InstallPipeline --------------------------
(***************************************************************************)
(* The disk installer (desktop/installer/src): one invocation walks a      *)
(* fixed list of phases, each recorded in a journal under /run when it     *)
(* returns, and a later invocation of the same boot skips what is          *)
(* recorded.  The module models the journal, every phase's effect on the   *)
(* disks, the mappers, the mounts, the target system and the EFI system    *)
(* partitions, and where each phase can stop half-way.                     *)
(*                                                                         *)
(* A phase is named by its position in try_main.  A phase that writes      *)
(* ordinary target files is abstracted to its name in the target's "done"; *)
(* the phases that feed the initramfs, the boot entries or the second ESP  *)
(* keep the data those are made from.                                      *)
(***************************************************************************)
EXTENDS Naturals

CONSTANTS
    Disks,        \* block devices an invocation can name
    NoDisk,       \* "nothing there": no secondary, not mapped, not mounted
    Requests,     \* what one invocation can ask for (flags or the guide)
    SameAnswers,  \* TRUE: whoever resumes a journal gives the answers it began with
    Outside,      \* what others do between runs: subset of {"umount", "close"}
    MaxFaults,    \* bound: injected failures and kills
    MaxBoots,     \* bound: reboots of the live system
    MaxHeaders    \* bound: luksFormats per disk

ASSUME DiskAssumption == NoDisk \notin Disks
ASSUME BoundAssumption ==
    /\ MaxFaults \in Nat /\ MaxBoots \in Nat /\ MaxHeaders \in Nat
    /\ SameAnswers \in BOOLEAN
    /\ Outside \subseteq {"umount", "close"}

\* plan_layout: one disk, or two different ones (RAID1); a desktop keeps one
\* (Config::load).  tpm: --no-tpm, the default, or the --tpm that must succeed.
Request ==
    {r \in [variant: {"desktop", "server"}, primary: Disks,
            secondary: Disks \cup {NoDisk}, key: BOOLEAN,
            tpm: {"off", "optional", "required"}, fresh: BOOLEAN] :
        /\ r.primary # r.secondary
        /\ r.variant = "desktop" => r.secondary = NoDisk}

ASSUME RequestAssumption == Requests \subseteq Request

Raid1(r)   == r.secondary # NoDisk
Members(r) == {r.primary, r.secondary} \ {NoDisk}
\* What a loop over the members has behind it when it stops.
Prefixes(r) == {{}, {r.primary}, Members(r)}

Names == {"cryptroot", "crypt0", "crypt1"}
Name(r, d) == IF ~Raid1(r) THEN "cryptroot"
              ELSE IF d = r.primary THEN "crypt0" ELSE "crypt1"

\* The phases of try_main, in its order.
Ph == [partition |-> 1, luks |-> 2, filesystems |-> 3, subvolumes |-> 4,
       espMirror |-> 5, pacstrap |-> 6, localKernel |-> 7,
       appsynergyRepo |-> 8, branding |-> 9, k3s |-> 10,
       fstabCrypttab |-> 11, locale |-> 12, osRelease |-> 13, network |-> 14,
       mkinitcpioConfig |-> 15, users |-> 16, sshKeys |-> 17,
       bootloader |-> 18, efibootmgr |-> 19, serverOverlay |-> 20,
       initramfs |-> 21, tpmEnroll |-> 22, initramfsVerify |-> 23,
       espResync |-> 24, services |-> 25, finalize |-> 26]
Phases == 1 .. 26
Applies(p, r) == p \in {Ph.espMirror, Ph.espResync} => Raid1(r)
\* The phases whose whole effect is files and units of the target.
Plain == {Ph.pacstrap, Ph.appsynergyRepo, Ph.branding, Ph.k3s, Ph.locale,
          Ph.osRelease, Ph.network, Ph.users, Ph.sshKeys, Ph.efibootmgr,
          Ph.services, Ph.finalize}

----------------------------------------------------------------------------
(* The target: a btrfs filesystem and an ESP per disk; index NoDisk is the *)
(* bare directory under the mount point, when nothing is mounted there.    *)

Header  == [disk: Disks, n: Nat]          \* a LUKS UUID: the n-th format of disk
Hooks   == {"stock", "crypt", "ssh"}      \* HOOKS= of mkinitcpio.conf
Inputs  == [vconsole: BOOLEAN, hooks: Hooks, rootkey: BOOLEAN,
            crypttab: SUBSET Header, tpm: BOOLEAN]
Image   == [state: {"none", "broken", "whole"}, inputs: Inputs]
Target  == [fs: BOOLEAN, subvols: BOOLEAN, done: SUBSET Phases,
            fstab: 0 .. 2, hooks: Hooks, crypttab: SUBSET Header,
            tpm: BOOLEAN, marker: BOOLEAN]
Esp     == [image: Image, entry: SUBSET Header]

BlankTarget == [fs |-> FALSE, subvols |-> FALSE, done |-> {}, fstab |-> 0,
                hooks |-> "stock", crypttab |-> {}, tpm |-> FALSE,
                marker |-> FALSE]
\* What mkinitcpio reads from target t.
InputsOf(t) == [vconsole |-> Ph.locale \in t.done, hooks |-> t.hooks,
                rootkey |-> Ph.serverOverlay \in t.done,
                crypttab |-> t.crypttab, tpm |-> t.tpm]
NoImage  == [state |-> "none", inputs |-> InputsOf(BlankTarget)]
BlankEsp == [image |-> NoImage, entry |-> {}]
\* The ssh-unlock hook is only found, and finds its root_key, after the overlay.
Buildable(t) == t.hooks = "ssh" => Ph.serverOverlay \in t.done
Built(t) == [state |-> "whole", inputs |-> InputsOf(t)]
RemoteUnlock(img) == /\ img.state = "whole"
                     /\ img.inputs.hooks = "ssh"
                     /\ img.inputs.rootkey

VARIABLES
    machine,   \* what the hardware is: x86-64-v3, a TPM
    pc,        \* "idle", "phase" (about to run at), "record" (at returned Ok), "complete"
    at,        \* the phase the running invocation has reached
    cfg,       \* the answers of the last invocation that went past confirm
    journal,   \* phases recorded in /run/appsynergy-install/journal
    mapper,    \* [Names -> disk behind /dev/mapper/<name>]
    mnt,       \* mounts: /mnt, the target root, its /boot, /mnt/appsynergy-esp2
    hdr,       \* [Disks -> how often the LUKS partition was formatted]
    enrolled,  \* disks whose current header holds a TPM token
    tgt,       \* [Disks \cup {NoDisk} -> Target], by the disk behind the primary mapper
    esp,       \* [Disks \cup {NoDisk} -> Esp]
    wiped,     \* history: disks this boot has overwritten
    consent,   \* history: disks this boot's operator agreed to destroy
    strayed,   \* history: disks a resume named that the run before it did not
    faults,    \* injected failures so far
    boots      \* reboots so far

machineVars == <<mapper, mnt>>
diskVars    == <<hdr, enrolled, tgt, esp>>
ghostVars   == <<wiped, consent, strayed>>
vars == <<machine, pc, at, cfg, journal, mapper, mnt, hdr, enrolled, tgt, esp,
          wiped, consent, strayed, faults, boots>>

Slots == Disks \cup {NoDisk}
NothingMounted == [scratch |-> NoDisk, root |-> NoDisk, boot |-> NoDisk,
                   esp2 |-> NoDisk]

TypeOK ==
    /\ machine \in [v3: BOOLEAN, tpm: BOOLEAN]
    /\ pc \in {"idle", "phase", "record", "complete"}
    /\ at \in 1 .. 27
    /\ pc = "record" => at \in Phases
    /\ cfg \in Requests
    /\ journal \subseteq Phases
    /\ mapper \in [Names -> Slots]
    /\ mnt \in [scratch: Slots, root: Slots, boot: Slots, esp2: Slots]
    /\ hdr \in [Disks -> Nat]
    /\ enrolled \subseteq Disks
    /\ tgt \in [Slots -> Target]
    /\ esp \in [Slots -> Esp]
    /\ wiped \subseteq Disks
    /\ consent \subseteq Disks /\ strayed \subseteq Disks
    /\ faults \in Nat
    /\ boots \in Nat

Init ==
    /\ machine \in [v3: BOOLEAN, tpm: BOOLEAN]
    /\ pc = "idle" /\ at = 1
    /\ cfg \in Requests
    /\ journal = {}
    /\ mapper = [n \in Names |-> NoDisk]
    /\ mnt = NothingMounted
    /\ hdr = [d \in Disks |-> 0]
    /\ enrolled = {}
    /\ tgt = [d \in Slots |-> BlankTarget]
    /\ esp = [d \in Slots |-> BlankEsp]
    /\ wiped = {} /\ consent = {} /\ strayed = {}
    /\ faults = 0 /\ boots = 0

----------------------------------------------------------------------------
(* try_main up to the first phase.                                         *)

\* What --fresh, read before anything else, leaves of the journal.
JournalSeen(r) == IF r.fresh THEN {} ELSE journal

\* The refusals that need no disk: a server without an unlock key.
Preflight(r) == r.variant = "server" => r.key

\* Not code: the operator this configuration assumes.
Consistent(r) ==
    SameAnswers /\ JournalSeen(r) # {} => r = [cfg EXCEPT !.fresh = r.fresh]

\* Bug: confirm is decided on the journal as it was before --fresh reset it.
BugAsksBeforeReset(r) == journal = {}
\* A non-empty journal is a resume and asks for no confirmation.
AsksToConfirm(r) == JournalSeen(r) = {}

\* Past preflight and confirm.
Launch(r) ==
    /\ pc \in {"idle", "complete"}
    /\ Consistent(r)
    /\ Preflight(r)
    /\ journal' = JournalSeen(r)
    /\ consent' = IF AsksToConfirm(r) THEN consent \cup Members(r) ELSE consent
    /\ strayed' = strayed \cup IF JournalSeen(r) = {} THEN {} ELSE Members(r) \ Members(cfg)
    /\ cfg' = r
    /\ pc' = "phase" /\ at' = 1
    /\ UNCHANGED <<machine, machineVars, diskVars, wiped, faults, boots>>

\* Preflight bails, or (with no journal) the operator does not type the disks;
\* a --fresh has reset the journal by then.
LaunchRefused(r) ==
    /\ pc \in {"idle", "complete"}
    /\ ~Preflight(r) \/ AsksToConfirm(r)
    /\ journal' = JournalSeen(r)
    /\ pc' = "idle"
    /\ UNCHANGED <<machine, at, cfg, machineVars, diskVars, ghostVars, faults,
                   boots>>

----------------------------------------------------------------------------
(* Journal::run.  A phase either returns Ok (Return), bails because of the *)
(* state it finds (Bail), or hits an injected failure (Break).             *)

\* Bug: is_done is not asked.
BugDueAlways(p) == pc = "phase" /\ at = p /\ Applies(p, cfg)
Due(p)  == /\ pc = "phase" /\ at = p
           /\ p \notin journal /\ Applies(p, cfg)
Return  == pc' = "record" /\ UNCHANGED faults
Bail    == pc' = "idle" /\ UNCHANGED faults
\* Bug: f() without the question mark, a failed phase is recorded.
BugErrorSwallowed == pc' = "record" /\ faults < MaxFaults /\ faults' = faults + 1
Break   == pc' = "idle" /\ faults < MaxFaults /\ faults' = faults + 1
\* Stopped short: the cause is there in the state, or it is an injected one.
Stop(cause) == IF cause THEN Bail ELSE Break

InPhase == UNCHANGED <<machine, at, cfg, journal, consent, strayed, boots>>

\* Bug: a skip steps over the next phase too.
BugSkipTwo ==
    /\ pc = "phase" /\ at \in Phases
    /\ at \in journal \/ ~Applies(at, cfg)
    /\ at' = at + 2
    /\ UNCHANGED <<machine, pc, cfg, journal, machineVars, diskVars, ghostVars,
                   faults, boots>>
SkipDone ==
    /\ pc = "phase" /\ at \in Phases
    /\ at \in journal \/ ~Applies(at, cfg)
    /\ at' = at + 1
    /\ UNCHANGED <<machine, pc, cfg, journal, machineVars, diskVars, ghostVars,
                   faults, boots>>

\* Bug: after a phase that ran, the position moves twice.
BugRecordTwo ==
    /\ pc = "record"
    /\ journal' = journal \cup {at}
    /\ at' = at + 2
    /\ pc' = "phase"
    /\ UNCHANGED <<machine, cfg, machineVars, diskVars, ghostVars, faults, boots>>
Record ==
    /\ pc = "record"
    /\ journal' = journal \cup {at}
    /\ at' = at + 1
    /\ pc' = "phase"
    /\ UNCHANGED <<machine, cfg, machineVars, diskVars, ghostVars, faults, boots>>

\* Bug: complete is announced before finalize.
BugFinishEarly ==
    /\ pc = "phase" /\ at >= Ph.finalize
    /\ pc' = "complete"
    /\ UNCHANGED <<machine, at, cfg, journal, machineVars, diskVars, ghostVars,
                   faults, boots>>
Finish ==
    /\ pc = "phase" /\ at = 27
    /\ pc' = "complete"
    /\ UNCHANGED <<machine, at, cfg, journal, machineVars, diskVars, ghostVars,
                   faults, boots>>

\* Killed between a phase's last write and its journal line, or between phases.
Kill ==
    /\ pc \in {"phase", "record"}
    /\ Break
    /\ InPhase /\ UNCHANGED <<machineVars, diskVars, wiped>>

----------------------------------------------------------------------------
(* Partition, LUKS, filesystems, subvolumes.                               *)

RunPartition ==
    /\ Due(Ph.partition)
    /\ \E done \in Prefixes(cfg) :
        /\ wiped' = wiped \cup done
        /\ Break \/ (done = Members(cfg) /\ Return)
    /\ InPhase /\ UNCHANGED <<machineVars, diskVars>>

Busy(d) == \E n \in Names : mapper[n] = d
\* luksFormat refuses a mapped disk, and one at the bound on headers.
Unformattable(d) == Busy(d) \/ hdr[d] = MaxHeaders
Taken(r, d) == mapper[Name(r, d)] # NoDisk     \* cryptsetup open refuses the name

\* The loop over the members: format, then open, then the next member.
RunLuks ==
    /\ Due(Ph.luks)
    /\ \E opened, formatted \in Prefixes(cfg) :
        /\ opened \subseteq formatted
        /\ opened # {} \/ formatted # Members(cfg) \/ ~Raid1(cfg)
        /\ \A d \in formatted : ~Unformattable(d)
        /\ \A d \in opened : ~Taken(cfg, d)
        /\ hdr' = [d \in Disks |-> IF d \in formatted THEN hdr[d] + 1 ELSE hdr[d]]
        /\ tgt' = [d \in Slots |-> IF d \in formatted THEN BlankTarget ELSE tgt[d]]
        /\ enrolled' = enrolled \ formatted
        /\ wiped' = wiped \cup formatted
        /\ mapper' = [n \in Names |->
                        IF \E d \in opened : Name(cfg, d) = n
                          THEN CHOOSE d \in opened : Name(cfg, d) = n
                          ELSE mapper[n]]
        /\ IF opened = Members(cfg) THEN Return
           ELSE IF formatted = opened
             THEN Stop(\E d \in Members(cfg) \ formatted : Unformattable(d))
             ELSE Stop(\E d \in formatted \ opened : Taken(cfg, d))
    /\ InPhase /\ UNCHANGED <<mnt, esp>>

\* Every later phase reaches the members through the mapper names.
RootDev == mapper[Name(cfg, cfg.primary)]
Mounted(d) == d \in {mnt.scratch, mnt.root}
EspMounted(d) == d \in {mnt.boot, mnt.esp2}

RunFilesystems ==
    LET mappers == {mapper[Name(cfg, d)] : d \in Members(cfg)}
        usable  == NoDisk \notin mappers /\ \A d \in mappers : ~Mounted(d)
    IN
    /\ Due(Ph.filesystems)
    /\ \E fat \in Prefixes(cfg) :
        /\ \A d \in fat : ~EspMounted(d)
        /\ esp' = [d \in Slots |-> IF d \in fat THEN BlankEsp ELSE esp[d]]
        /\ wiped' = wiped \cup fat
        /\ \/ /\ fat = Members(cfg) /\ usable
              /\ tgt' = [tgt EXCEPT ![RootDev] = [BlankTarget EXCEPT !.fs = TRUE]]
              /\ Return
           \/ /\ Stop(\/ fat = Members(cfg) /\ ~usable
                      \/ \E d \in Members(cfg) \ fat : EspMounted(d))
              /\ UNCHANGED tgt
    /\ InPhase /\ UNCHANGED <<mapper, mnt, hdr, enrolled>>

\* mount refuses the same filesystem twice on one mount point, btrfs refuses to
\* create a subvolume that exists.  "reached" is how far the phase got:
\* 0 nothing, 1 /mnt mounted, 2 subvolumes there, 3 /mnt unmounted,
\* 4 target root mounted, 5 /boot mounted too.
RunSubvolumes ==
    LET d == RootDev IN
    /\ Due(Ph.subvolumes)
    /\ \E reached \in 0 .. 5 :
        /\ reached >= 1 => d # NoDisk /\ tgt[d].fs /\ mnt.scratch # d
        /\ reached >= 2 => ~tgt[d].subvols
        /\ reached >= 4 => mnt.root # d
        /\ reached >= 5 => mnt.boot # cfg.primary
        /\ mnt' = [scratch |-> IF reached \in {1, 2} THEN d ELSE mnt.scratch,
                   root    |-> IF reached >= 4 THEN d ELSE mnt.root,
                   boot    |-> IF reached >= 5 THEN cfg.primary ELSE mnt.boot,
                   esp2    |-> mnt.esp2]
        /\ tgt' = IF reached >= 2 THEN [tgt EXCEPT ![d].subvols = TRUE] ELSE tgt
        /\ CASE reached = 0 -> Stop(d = NoDisk \/ ~tgt[d].fs \/ mnt.scratch = d)
             [] reached = 1 -> Stop(tgt[d].subvols)
             [] reached = 2 -> Break
             [] reached = 3 -> Stop(mnt.root = d)
             [] reached = 4 -> Stop(mnt.boot = cfg.primary)
             [] OTHER -> Return
    /\ InPhase /\ UNCHANGED <<mapper, hdr, enrolled, esp, wiped>>

----------------------------------------------------------------------------
(* Writing the target system through the mounts.                           *)

Root == tgt[mnt.root]
Boot == esp[mnt.boot]
Bootstrapped == Ph.pacstrap \in Root.done      \* arch-chroot has something to run
WriteRoot(t) == tgt' = [tgt EXCEPT ![mnt.root] = t]
WriteBoot(e) == esp' = [esp EXCEPT ![mnt.boot] = e]
Mark(t, p) == [t EXCEPT !.done = @ \cup {p}]
\* mkinitcpio -P failing: the old image stays or an incomplete one is left.
LostImage(t) == \E b \in BOOLEAN :
    esp' = IF b THEN [esp EXCEPT ![mnt.boot].image = [Built(t) EXCEPT !.state = "broken"]]
                ELSE esp

KeepDisks == UNCHANGED <<machineVars, hdr, enrolled, wiped>>

\* Bug: a plain phase that cannot run over what it wrote before.
BugPlainOnce(p) ==
    /\ Due(p)
    /\ \/ /\ p \notin Root.done /\ (p = Ph.pacstrap \/ Bootstrapped)
          /\ WriteRoot(Mark(Root, p))
          /\ Return
       \/ Stop(p \in Root.done \/ (p # Ph.pacstrap /\ ~Bootstrapped)) /\ UNCHANGED tgt
    /\ InPhase /\ KeepDisks /\ UNCHANGED esp
\* A retry overwrites what a half-finished plain phase left.
RunPlain(p) ==
    /\ Due(p)
    /\ \/ /\ p = Ph.pacstrap \/ Bootstrapped
          /\ WriteRoot(Mark(Root, p))
          /\ Return
       \/ Stop(p # Ph.pacstrap /\ ~Bootstrapped) /\ UNCHANGED tgt
    /\ InPhase /\ KeepDisks /\ UNCHANGED esp

RunEspMirror ==
    /\ Due(Ph.espMirror)
    /\ Return
    /\ InPhase /\ KeepDisks /\ UNCHANGED <<tgt, esp>>

\* find_kernel_pkg_pairs refuses the CPU here; the kernel packages' pacman hook
\* builds the first image.
RunLocalKernel ==
    /\ Due(Ph.localKernel)
    /\ \/ /\ machine.v3 /\ Bootstrapped
          /\ WriteRoot(Mark(Root, Ph.localKernel))
          /\ WriteBoot([Boot EXCEPT !.image = Built(Root)])
          /\ Return
       \/ Stop(~machine.v3 \/ ~Bootstrapped) /\ UNCHANGED <<tgt, esp>>
    /\ InPhase /\ KeepDisks

\* Bug: only the first member reaches crypttab and luks-uuids.
BugPrimaryHeader(r) == {[disk |-> r.primary, n |-> hdr[r.primary]]}
\* The members' LUKS UUIDs, as blkid reports them.
Headers(r) == {[disk |-> d, n |-> hdr[d]] : d \in Members(r)}

\* genfstab needs a mount point and its output is appended; the crypttab names
\* the members' current LUKS UUIDs, without the TPM.
RunFstabCrypttab ==
    LET appended == [Root EXCEPT !.fstab = IF @ < 2 THEN @ + 1 ELSE 2]
        uuids    == \A d \in Members(cfg) : hdr[d] > 0
    IN
    /\ Due(Ph.fstabCrypttab)
    /\ \/ Stop(mnt.root = NoDisk) /\ UNCHANGED tgt
       \/ /\ mnt.root # NoDisk
          /\ Stop(~uuids)
          /\ WriteRoot(appended)
       \/ /\ mnt.root # NoDisk /\ uuids
          /\ WriteRoot(Mark([appended EXCEPT !.crypttab = Headers(cfg), !.tpm = FALSE],
                            Ph.fstabCrypttab))
          /\ Return
    /\ InPhase /\ KeepDisks /\ UNCHANGED esp

RunMkinitcpioConfig ==
    /\ Due(Ph.mkinitcpioConfig)
    /\ \/ /\ Bootstrapped
          /\ WriteRoot(Mark([Root EXCEPT !.hooks =
                               IF cfg.variant = "server" /\ cfg.key THEN "ssh"
                                                                    ELSE "crypt"],
                            Ph.mkinitcpioConfig))
          /\ Return
       \/ Stop(~Bootstrapped) /\ UNCHANGED tgt
    /\ InPhase /\ KeepDisks /\ UNCHANGED esp

\* Bug: the mirror copies the images but not the loader entries.
BugSyncImages(e, checked) ==
    /\ mnt.esp2 # cfg.secondary
    /\ esp' = [e EXCEPT ![cfg.secondary].image = e[mnt.boot].image]
    /\ IF checked THEN Return ELSE Bail
    /\ UNCHANGED mnt
\* sync_esp_mirror from ESPs e: the copy, a copy that dies with the second ESP
\* still mounted, a mount that fails (always, while a dead copy's mount is there).
\* The phase returns if what it checks afterwards holds.
SyncEsp(e, checked) ==
    LET sec == cfg.secondary IN
    \/ /\ mnt.esp2 # sec
       /\ esp' = [e EXCEPT ![sec] = e[mnt.boot]]
       /\ IF checked THEN Return ELSE Bail
       /\ UNCHANGED mnt
    \/ /\ mnt.esp2 # sec
       /\ esp' = [e EXCEPT ![sec].image.state = "broken"]
       /\ mnt' = [mnt EXCEPT !.esp2 = sec]
       /\ Break
    \/ /\ Stop(mnt.esp2 = sec)
       /\ esp' = e /\ UNCHANGED mnt

\* bootctl, then an entry naming the LUKS UUIDs, only for a kernel whose image
\* is already there; on RAID1 the result goes to the second ESP.
RunBootloader ==
    LET entered == [esp EXCEPT ![mnt.boot].entry = Root.crypttab]
        ready   == Bootstrapped /\ Boot.image.state # "none" /\ Root.crypttab # {}
    IN
    /\ Due(Ph.bootloader)
    /\ \/ Stop(~ready) /\ UNCHANGED <<tgt, esp, mnt>>
       \/ /\ ready /\ Raid1(cfg)
          /\ SyncEsp(entered, TRUE)
          /\ IF pc' = "record" THEN WriteRoot(Mark(Root, Ph.bootloader))
                               ELSE UNCHANGED tgt
       \/ /\ ready /\ ~Raid1(cfg)
          /\ esp' = entered
          /\ WriteRoot(Mark(Root, Ph.bootloader))
          /\ Return /\ UNCHANGED mnt
    /\ InPhase /\ UNCHANGED <<mapper, hdr, enrolled, wiped>>

\* Server only: the unlock agent, its initcpio hook and dropbear's root_key.
RunServerOverlay ==
    /\ Due(Ph.serverOverlay)
    /\ \/ /\ cfg.variant = "server" /\ cfg.key /\ Bootstrapped
          /\ WriteRoot(Mark(Root, Ph.serverOverlay))
          /\ Return
       \/ /\ cfg.variant = "desktop"
          /\ Return /\ UNCHANGED tgt
       \/ /\ cfg.variant = "server"
          /\ Stop(~cfg.key \/ ~Bootstrapped) /\ UNCHANGED tgt
    /\ InPhase /\ KeepDisks /\ UNCHANGED esp

\* mkinitcpio -P over target t.
Rebuild(t) ==
    \/ Bootstrapped /\ Buildable(t) /\ WriteBoot([Boot EXCEPT !.image = Built(t)]) /\ Return
    \/ Stop(~Bootstrapped \/ ~Buildable(t)) /\ LostImage(t)

\* Bug: the rebuild after the last configuration change is forgotten.
BugNoRebuild ==
    /\ Due(Ph.initramfs)
    /\ Return
    /\ InPhase /\ KeepDisks /\ UNCHANGED <<tgt, esp>>
RunInitramfs ==
    /\ Due(Ph.initramfs)
    /\ Rebuild(Root)
    /\ InPhase /\ KeepDisks /\ UNCHANGED tgt

\* Bug: an enrollment error does not end the phase.
BugEnrollErrorLost(done) == TRUE
AllEnrolled(done) == done = Members(cfg)

\* Enroll every member; the first error ends the loop and, unless the TPM was
\* required, the phase with a warning (a kill ends it anyway).  Then crypttab,
\* the marker, the image.
RunTpmEnroll ==
    LET skipped == cfg.tpm = "off" \/ (~machine.tpm /\ cfg.tpm # "required")
        refused == ~machine.tpm /\ cfg.tpm = "required"
        tabbed  == [Root EXCEPT !.tpm = TRUE]
        marked  == [tabbed EXCEPT !.marker = TRUE]
    IN
    /\ Due(Ph.tpmEnroll)
    /\ \/ skipped /\ Return /\ UNCHANGED <<enrolled, tgt, esp>>
       \/ refused /\ Bail /\ UNCHANGED <<enrolled, tgt, esp>>
       \/ /\ ~skipped /\ ~refused
          /\ \E done \in Prefixes(cfg) :
                /\ enrolled' = enrolled \cup done
                /\ \/ /\ ~AllEnrolled(done)
                      /\ faults < MaxFaults /\ faults' = faults + 1
                      /\ pc' = "idle" \/ (pc' = "record" /\ cfg.tpm # "required")
                      /\ UNCHANGED <<tgt, esp>>
                   \/ /\ AllEnrolled(done)
                      /\ Stop(Root.crypttab = {})
                      /\ UNCHANGED <<tgt, esp>>
                   \/ /\ AllEnrolled(done) /\ Root.crypttab # {}
                      /\ WriteRoot(tabbed) /\ Break /\ UNCHANGED esp
                   \/ /\ AllEnrolled(done) /\ Root.crypttab # {}
                      /\ WriteRoot(marked) /\ Rebuild(marked)
    /\ InPhase /\ UNCHANGED <<machineVars, hdr, wiped>>

\* Server: rebuild last, then look inside every image.
RunInitramfsVerify ==
    /\ Due(Ph.initramfsVerify)
    /\ IF cfg.variant = "server" /\ cfg.key
         THEN \/ /\ Bootstrapped /\ Buildable(Root)
                 /\ WriteBoot([Boot EXCEPT !.image = Built(Root)])
                 /\ IF RemoteUnlock(Built(Root)) THEN Return ELSE Bail
              \/ /\ Stop(~Bootstrapped \/ ~Buildable(Root))
                 /\ LostImage(Root)
         ELSE Return /\ UNCHANGED esp
    /\ InPhase /\ KeepDisks /\ UNCHANGED tgt

\* Bug: the second ESP is not mirrored again after the last rebuild.
BugNoResync ==
    /\ Due(Ph.espResync)
    /\ Return
    /\ InPhase /\ KeepDisks /\ UNCHANGED <<tgt, esp>>
\* Copy again, then compare every boot image of the two ESPs; no image is a bail.
RunEspResync ==
    /\ Due(Ph.espResync)
    /\ SyncEsp(esp, Boot.image.state # "none")
    /\ InPhase /\ UNCHANGED <<mapper, hdr, enrolled, tgt, wiped>>

RunPhase ==
    \/ RunPartition \/ RunLuks \/ RunFilesystems \/ RunSubvolumes
    \/ RunEspMirror \/ RunLocalKernel \/ RunFstabCrypttab
    \/ RunMkinitcpioConfig \/ RunBootloader \/ RunServerOverlay
    \/ RunInitramfs \/ RunTpmEnroll \/ RunInitramfsVerify \/ RunEspResync
    \/ \E p \in Plain : RunPlain(p)

----------------------------------------------------------------------------
(* What happens to the live system between invocations.                    *)

\* rescue-install.sh's cleanup trap, or the umount -R of the closing banner.
Unmount ==
    /\ "umount" \in Outside
    /\ pc \in {"idle", "complete"}
    /\ mnt # NothingMounted
    /\ mnt' = NothingMounted
    /\ UNCHANGED <<machine, pc, at, cfg, journal, mapper, diskVars, ghostVars,
                   faults, boots>>

\* The cryptsetup close of the closing banner.
CloseMappers ==
    /\ "close" \in Outside
    /\ pc \in {"idle", "complete"}
    /\ mnt = NothingMounted
    /\ \E n \in Names : mapper[n] # NoDisk
    /\ mapper' = [n \in Names |-> NoDisk]
    /\ UNCHANGED <<machine, pc, at, cfg, journal, mnt, diskVars, ghostVars,
                   faults, boots>>

\* /run, the mounts, the mappers and the live directory tree are gone.
Reboot ==
    /\ boots < MaxBoots
    /\ boots' = boots + 1
    /\ pc' = "idle" /\ at' = 1
    /\ journal' = {}
    /\ mapper' = [n \in Names |-> NoDisk]
    /\ mnt' = NothingMounted
    /\ tgt' = [tgt EXCEPT ![NoDisk] = BlankTarget]
    /\ esp' = [esp EXCEPT ![NoDisk] = BlankEsp]
    /\ wiped' = {} /\ consent' = {} /\ strayed' = {}
    /\ UNCHANGED <<machine, cfg, hdr, enrolled, faults>>

Installer == SkipDone \/ Record \/ Finish \/ RunPhase
Operator  == \E r \in Requests : Launch(r)

Next ==
    \/ Installer \/ Operator
    \/ \E r \in Requests : LaunchRefused(r)
    \/ Kill \/ Unmount \/ CloseMappers \/ Reboot

Spec == Init /\ [][Next]_vars
\* A started installer runs on, and a failed one is invoked again.
FairSpec == Spec /\ WF_vars(Installer) /\ WF_vars(Operator)
----------------------------------------------------------------------------
(* Properties.                                                             *)

\* A disk that is overwritten is one this boot's operator agreed to lose,
\* although a resumed run asks for no confirmation (try_main's two branches),
\* unless a resume named it in place of the disks its journal began with: the
\* journal is not bound to them (main.rs:126), and that is the only way round
\* the question.
ConsentBeforeWipe == wiped \subseteq consent \cup strayed

\* Phases are recorded in try_main's order with no gap: a resume never runs a
\* phase before one it depends on, whatever was skipped, killed or reset.
JournalInOrder ==
    \A p \in journal : \A q \in Phases :
        q < p /\ Applies(q, cfg) => q \in journal

\* What the journal makes a resume skip is really there: open mappers behind
\* the right names, a filesystem, the mounts, and every file-writing phase on it.
JournalTruthful ==
    LET t == tgt[cfg.primary] IN
    /\ Ph.luks \in journal =>
           \A d \in Members(cfg) : hdr[d] > 0 /\ mapper[Name(cfg, d)] = d
    /\ Ph.filesystems \in journal => t.fs
    /\ Ph.subvolumes \in journal =>
           t.subvols /\ mnt.root = cfg.primary /\ mnt.boot = cfg.primary
    /\ \A p \in journal \cap Plain : p \in t.done
    /\ Ph.fstabCrypttab \in journal => t.crypttab # {}

\* An installed server can be unlocked over SSH from either disk.
ServerUnlockable ==
    pc = "complete" /\ cfg.variant = "server" =>
        \A d \in Members(cfg) : RemoteUnlock(esp[d].image)

\* The image on the ESP was made from the configuration the target ended with
\* (console keymap, hooks, unlock key, crypttab).  A desktop whose TPM is
\* optional is left out: see CompletedImageWhole.
ImageMatchesTarget ==
    pc = "complete" /\ (cfg.variant = "server" \/ cfg.tpm # "optional") =>
        esp[cfg.primary].image = Built(tgt[cfg.primary])

\* Both ESPs of a finished RAID1 install boot the same image with the same entry.
EspsIdentical ==
    pc = "complete" /\ Raid1(cfg) => esp[cfg.secondary] = esp[cfg.primary]

\* Crypttab and boot entry of a finished install name the LUKS headers its disks
\* have now, one per member, however often the disks were formatted before.
BootNamesDisks ==
    pc = "complete" =>
        LET now == {[disk |-> d, n |-> hdr[d]] : d \in Members(cfg)} IN
        tgt[cfg.primary].crypttab = now /\ esp[cfg.primary].entry = now

\* A crypttab that tells the boot to use the TPM never names a disk whose
\* current header has no TPM token.
TpmPromiseKept ==
    \A d \in Slots : tgt[d].tpm =>
        \A h \in tgt[d].crypttab : h.n = hdr[h.disk] => h.disk \in enrolled

\* Once the base system is recorded, only a reset of the journal lets a disk be
\* formatted again: a resume never destroys what it resumes.
ResumeKeepsData ==
    [][Ph.pacstrap \in journal /\ journal' # {} =>
          /\ hdr' = hdr
          /\ tgt[cfg.primary].done \subseteq tgt'[cfg.primary].done]_vars

\* Once the subvolumes are recorded, invoking the installer again and again
\* finishes the install: no later phase is left in a state its own retry cannot
\* handle.  Excepted: a journal reset, a kernel or TPM the machine cannot
\* satisfy, and a second ESP left mounted by a failed mirror.
ResumeCompletes ==
    (Ph.subvolumes \in journal) ~>
        \/ pc = "complete" \/ journal = {} \/ ~machine.v3
        \/ cfg.tpm = "required" /\ ~machine.tpm
        \/ mnt.esp2 # NoDisk
----------------------------------------------------------------------------
(* The promise InstallContract states, kept by journal and phases.         *)

StepsOf(r) == {p \in Phases : Applies(p, r)}
Status == CASE pc \in {"phase", "record"} -> "running"
            [] pc = "complete" -> "complete"
            [] OTHER -> "stopped"
Contract == INSTANCE InstallContract WITH
    Installs <- {StepsOf(r) : r \in Requests},
    steps <- StepsOf(cfg), committed <- journal, status <- Status

\* Resumed, killed, reset or rebooted, the run of journalled phases is a run of
\* the contract: in order, each once, complete only with all of them.
KeepsContract == Contract!ContractSpec

----------------------------------------------------------------------------
(* What documents and comments say, and the code does otherwise.           *)

\* RESCUE-INSTALL.md:68: "The installer then confirms interactively: you type
\* the exact disk paths to proceed."
EveryWipeAgreed == wiped \subseteq consent

\* installer README: a CPU below x86-64-v3 is refused before any disk is touched.
OldCpuTouchesNoDisk == ~machine.v3 => wiped = {}

\* main.rs, closing banner: the passphrase still works on a finished install.
CompletedImageWhole == pc = "complete" => esp[cfg.primary].image.state = "whole"

\* phase.rs: re-invoking a failed run resumes it, so what "subvolumes" mounted
\* is mounted when the phases after it run.
ResumeFindsTarget ==
    pc = "phase" /\ at > Ph.subvolumes => mnt.root = cfg.primary
=============================================================================
