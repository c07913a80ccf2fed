# TLA+ models of AppSynergy Linux

AppSynergy Linux is an Arch-based distribution made of a disk installer (Rust,
`desktop/installer`), an ISO and a rescue path that run it, and a signed pacman
repository published to a GitHub Release by shell scripts and one CI workflow.
None of it is a long-running concurrent server. What makes it hard is that each
part is a **long sequence of irreversible steps over state it does not own**
(disks, mounts, a Release that clients read), any of which can fail, be killed
or be repeated. That is what these modules model.

Contents: [inventory](#1-inventory) · [modules](#2-modules-and-how-they-correspond-to-the-code)
· [runs](#3-runs) · [bounds](#4-bounds-and-why-they-are-enough) ·
[fairness](#5-fairness) · [proofs](#6-what-is-proved) ·
[disagreements](#7-where-the-code-and-its-documents-disagree) ·
[limits](#8-assumptions-and-what-is-not-modelled) · [plan](#9-plan)

## 1. Inventory

### The installer: `desktop/installer/src`

| Part | State it keeps | Operations |
|---|---|---|
| Journal, `phase.rs` | `/run/appsynergy-install/journal`: names of finished phases, lost at reboot | open, reset (`--fresh`), is_done, run (skip, or do and then append) |
| Pipeline, `main.rs` `try_main` | position; the resolved `Config` | guide, `--fresh`, refusals, confirmation, 26 phases, closing banner |
| Disk phases | partitions, LUKS headers, open mappers, filesystems, mounts | partition, luks, filesystems, subvolumes |
| System phases | the target tree: packages, fstab, crypttab, hooks, overlay, users, units | pacstrap … services, finalize |
| Boot phases | images and entries on one or two ESPs, TPM tokens | local-kernel, bootloader, initramfs, tpm-enroll, initramfs-verify, esp-mirror, esp-resync |
| Request, `config.rs`, `disk.rs` | none; reads flags, process environment, `machine.env`, `machine-server.env`, detection | Config::load, plan_layout |
| Guide, `guide.rs` | edits the flags | prompts, occupied-disk probe, NUKE |
| Gates, `main.rs` | none | refusals, validate_target_disks, confirm |
| Checks, `validate.rs`, `detect.rs`, `cmd.rs` | none | pure functions, running commands |

Interaction: the phases communicate only through the disk, the mounts and the
files of the target (crypttab is written by one phase, read by mkinitcpio in
four, named by the bootloader). The journal is the only memory between two
invocations, and it lives shorter (a reboot) than the disks and longer than the
mounts (the rescue script unmounts, the journal stays).

Between the command line and the first write each part names a disk its own
way (a path, the last component of it in lsblk's output, or that component in
sysfs), and disks come and go.

Correct means: nothing is wiped that nobody agreed to lose, and what is wiped is
what was typed, probed and confirmed; a phase is skipped
only if its effect is there; a failed run can be continued; a finished install
boots, from either disk, and can be unlocked remotely if it is a server.

### Around the installer

| Part | State | Hard part |
|---|---|---|
| `desktop/scripts/rescue-install.sh` | a chroot with the host's `/run`, `/dev` bound in | cleans up mounts but not mappers nor journal |
| `initcpio-install-ssh-unlock` | what goes into an initramfs | fails before its key is installed |
| `initrd-unlock` | systemd's pending password requests | requests come and go while it answers, in several sessions at once |
| `appsynergy-tpm-enroll` | crypttab, its copy for the initramfs, tokens, the image | four steps that may be interrupted; rewrites a shared file for one disk |

Correct means: a remote host comes up again. A volume that has used up its
attempts stays locked until a reset, so no mistake may cost more than one.

### The repository: `packages/scripts`, `.github/workflows/ci.yml`

| Part | State | Operations |
|---|---|---|
| GitHub Release `repo-x86_64` | packages, signatures, six database files, dated copies | delete and upload of one asset at a time; plain GETs by clients at any moment |
| CDN in front of it | may serve the previous asset for minutes | read |
| `pull-kernel.sh` | staging directory | every kernel asset of the Release into staging |
| `build-repo.sh` | staging | read the published database, pull or build each any/ package, prune, sign, repo-add |
| `publish-repo.sh` | staging, Release | refusals, nothing-to-ship, uploads in order, stamp, dated copy |
| `verify-repo.sh` | none | compares staging, published database, HTTP status |
| publish job | tags `published/<stamp>` | the four scripts, then the tag; one run at a time among CI runs |
| kernel sandbox, workstation | a Release they share with CI | upload a kernel; publish by hand |
| `fetch-repo.sh`, ISO builds | a copy of the Release | read only |
| `appsynergy-mirrorlist.install` | `/etc/pacman.conf` | install, upgrade (migrates TrustAll), remove |

Correct means: what a client can see it can install, at every moment; no
package name and no newer kernel disappears; a published version keeps its
bytes; every publish can be traced and rolled back to; a push reaches clients.

The remaining parts (ISO build, USB writer, live-environment helpers, branding,
the `scripts/check.sh` gate) are sequential scripts over external tools, or
assets; they are listed in `PROJECT.json` with the reason they have no module.

## 2. Modules and how they correspond to the code

| Module | Models | Notes |
|---|---|---|
| `InstallPipeline` | `try_main`, `phase.rs`, every phase, the rescue cleanup, reboots | 16 variables, one action per phase |
| `InstallContract` | what a journalled pipeline promises | abstract specification; `InstallPipeline` implements it |
| `MCInstall` | small sets of requests | used by every installer run |
| `InstallPipeline_proofs` | theorems about `InstallPipeline`: types, order, consent, refinement | checked by TLAPS |
| `InstallBoot_proofs` | what a resume keeps, and that a finished install boots and unlocks | checked by TLAPS |
| `InstallRequest` | `guide.rs`, `Config::load`, `plan_layout`, the refusals and the confirmation | 12 variables, one action per question and per gate; what it accepts is a `Request` of `InstallPipeline` |
| `MCRequest` | flags, environments and machines | small sets that hold every case |
| `InstallRequest_proofs` | theorems about `InstallRequest` | checked by TLAPS |
| `RemoteUnlock` | the unlock agent, `appsynergy-tpm-enroll`, and systemd's side of both | 11 variables |
| `RemoteUnlock_proofs` | theorems about `RemoteUnlock` | checked by TLAPS |
| `Mirrorlist`, `MCMirrorlist` | the pacman scriptlets of appsynergy-mirrorlist | 8 variables |
| `Mirrorlist_proofs` | theorems about `Mirrorlist` | checked by TLAPS |
| `RepoPublish` | the four repository scripts and the publish job, the sandbox, clients' view | 11 variables, one action per read, decision or upload |
| `RepoPublish_proofs` | theorems about `RepoPublish`: types, names | checked by TLAPS |
| `RepoRelease_proofs` | what holds while one publisher works and nothing fails | checked by TLAPS |
| `RepoFault_proofs` | what survives killed runs, or misread databases | checked by TLAPS |

`PROJECT.json` "map" gives the source lines of every definition. A definition
named `Bug…` stands next to the definition of the code it varies: it is a
plausible mistake in that code, used to confirm that a property notices it. No
specification uses one.

**InstallPipeline.** `pc`/`at` are the position in `try_main`: at `"phase"` the
phase `at` is about to run, at `"record"` its function has returned Ok and the
journal line is not written yet. `journal` is the file. `cfg` is the request of
the invocation. `mapper` and `mnt` are the kernel's device-mapper names and
mounts, `hdr` counts the luksFormats of a disk so that (disk, count) is a LUKS
UUID, `tgt` is the filesystem behind each disk's mapper — the index `NoDisk` is
the bare directory below the mount point, where a phase writes if nothing is
mounted — and `esp` the two ESPs, an image being the inputs it was made from.
`enrolled` are the disks with a TPM token. `wiped`, `consent` and `strayed` are
history: which disks were overwritten since boot, which the operator agreed to lose,
and which a resume named although the run it resumes had not.
`Launch(r)` and `LaunchRefused(r)` are `try_main` up to line 137 with `--fresh`
first, exactly as the code orders it. Each `RunX` is a phase's function with all
its commands; where a phase makes several irreversible steps (the loop over the
disks, mount/create/unmount/mount, copy to the second ESP), the action chooses
how far it got. `Stop(cause)` says why it stopped: the state itself refuses
(`cryptsetup` on a busy device, a mount that is there), which costs nothing and
repeats on every retry, or an injected failure or kill, which is bounded by
`MaxFaults`. The twelve phases that only write files and units are one action.

**InstallContract.** Steps commit in order, each once, completion needs all of
them, stopping loses nothing, the record may be forgotten as a whole. The
refinement mapping takes the journal as the committed steps and the phases that
apply to the request as the steps.

**InstallRequest.** One invocation up to the first phase. `typed` is the command
line, `cli` the same after the guide filled it in, `env` the environments (chosen
where `Config::load` reads them), `world` and `present` the machine, `plan` what
`Config::load` returned. A path is of a kind (the kernel's name of a disk or of a
partition, a symlink to either, no path under /dev) and belongs to a disk, which
is what the three ways of naming tell apart: `Recognised` is the probe's
substring test on lsblk's output, `Valid` is validate_target_disks, `Exists` is
stat. `AskVariant`, `AskDisks`, `Probe`, `AskKey` are the guide's questions in
order; `Load` is `--fresh` and all of `Config::load`; `Check` the refusals; `Confirm`
the typed paths and YES. `Plug` is a disk coming or going. Fields that only
have to be well-formed (host name, user, locale, passwords) are one refusal that
`Load` may choose. `looked`, `hits`, `nuked` and `confirmed` are history.

`InstallRequest` ends where `InstallPipeline` begins: `AcceptedIsRequest` says that
what reaches the phases is what `InstallPipeline!Request` assumes (one whole disk or
two different ones, one for a desktop, a server with a key, never the live
medium).

**RemoteUnlock.** `vol[v]` is what systemd-cryptsetup does with a volume: not
started, asking, checking an answer, open, or given up after `Tries` wrong
passphrases. An ask is a file in `/run/systemd/ask-password`, known by its volume
and the attempt; every attempt has a new one. `agent[s]` is one login: waiting for
an ask (`Prompt`, or `GiveUp` after 60 seconds), reading a passphrase (`Read`, which
then lists the asks), answering the listed ones one by one (`Reply`: an ask that is
gone in between is passed over; `Miss`: no usable socket, or the helper is missing or
fails, as it always does on an empty passphrase, and the ask stays), and ending;
`missed` are the asks its own reply did not reach. `Console` is somebody at the screen,
`cache` systemd's keyring. `sealed`, `staged` and `image` are the tokens the TPM
still opens, crypttab.initramfs, and the crypttab inside the image that boots, both as
the `Line`s that let the TPM open a volume: a mapper name and the volume whose UUID
follows, which the tool looks up in two ways. `Attached` is systemd's generator: every
volume has a unit from the kernel command line (`rd.luks.name`), but for one whose name
a line of crypttab took for another volume;
`Enroll`, `WriteCrypttab` and `Mkinitcpio` are the tool's steps, `Reset` a reboot at
any moment with the firmware changed or not. `Init` is what `enroll_tpm` of the
installer can leave: every volume enrolled and listed, or a prefix of them enrolled
and none listed.

**Mirrorlist.** `conf` is /etc/pacman.conf as a sequence of the lines the scriptlets
tell apart. `Install` and `Uninstall` are pacman's part of a transaction, which only
a usable configuration allows; `PostInstall` and `PostRemove` are the scriptlets;
`CutOff` is a power loss before a scriptlet or between its two halves; `Edit` is the
operator, whose edits leave pacman usable. `Wire`, `Strip`, `Migrate` and `Unwire` are
the four shell functions' effect on the file: a line they take out becomes `"gone"`, so
that every other keeps its place and a property can follow it. `Resolves` is `pacman-conf --repo`, which
accepts a configuration that registers a repository twice although pacman does not.

**RepoPublish.** A package file is a name and a version; its bytes are a number,
a fresh one for each `makepkg` run, so a rebuilt package is never byte-equal to
the published one; a signature is the number it signs; a database is the map
from names to version and sum. `run[p].pc` walks the scripts' steps in order:
`pull`, `read` (build-repo's view of the published database), `build`, `check`
(publish-repo's second view: refusals, nothing to ship, skip list), `packages`
/ `package` / `signature`, `databases`, `snapshot`, `verify`, `tag`. An upload is
two steps, since `gh release upload --clobber` deletes first. Every read of the
database chooses what it gets: the current file, the CDN's previous one, or
nothing. `Publishers` are CI (an empty staging directory each time) and a
workstation (staging keeps what it held; `SIGN=0` and skipping pull-kernel.sh
are possible). CI caches kernel assets under a key made of the Release's own
asset list and so restores only what it would pull: the cache is not a variable.

## 3. Runs

| Run | Checks | What it shows |
|---|---|---|
| `install_any` | TypeOK, ImageMatchesTarget, TpmPromiseKept, BootNamesDisks, ServerUnlockable, EspsIdentical, JournalTruthful | one-disk desktops and two-disk servers with every TPM answer, one after the other, two failures or kills anywhere, a reboot: what is finished boots and unlocks, and the journal claims nothing that is not there |
| `install_mixed` | ConsentBeforeWipe, JournalInOrder, KeepsContract, ResumeKeepsData | different layouts after each other, with unmounts and closed mappers in between: a disk that is wiped was agreed to, or a resume named it in place of its journal's; order, refinement of the contract, and a resume that destroys nothing |
| `install_resume` | ResumeCompletes | liveness: re-invoking a run that got past the subvolumes completes it |
| `repo_calm` | TypeOK, LiveDownloadable, RollbackDownloadable, PublishedIsInstallable, NothingToShip, EveryPublishTagged, Converges | no faults: clients, rollbacks, tags and no-op runs are right at every moment, under any interleaving of pushes, sandbox uploads and a run, and clients reach the tip of main |
| `repo_fault` | NeverDropped, KernelNeverOlder, DatabaseLast | a kill, a stale or a failed read anywhere, and reverts: what still holds then |
| `repo_desk` | NeverDropped, LiveDownloadable | the workstation with an old staging directory |
| `request` | TypeOK, TypedDisksObeyed, BatchNamed, NukeCoversTargets, SomebodyAgreed, AcceptedIsRequest | every way to name disks, with every answer of the guide, on every machine, with a disk plugged in or pulled out: what is wiped is what was typed, named, probed and agreed to |
| `unlock` | TypeOK, OneMistakeOneTry, OnePassAnswersAll, EnrolledOpensItself, ComesUp | two volumes, two sessions, the console, a mistake, and one mishap (an empty passphrase, a reply that fails, a dropped line or a reset): no mistake costs more than one attempt, no ask is left but one whose own reply failed, the tool's promise holds for its volume, and the host comes up unless the tool's line left a volume without a unit |
| `mirrorlist` | TypeOK, StaysUsable, SignedOnce, OthersKept, Idempotent | installs, upgrades, removals, cuts and edits in any order: pacman stays usable but in three named cases, a host with the key is signed and registered once, others' lines stay but in one named case |
| `rescue_resume`, `request_nuke`, `unlock_tool` | one property each, violated | disagreements of section 7 |

The properties are stated in the modules, each with the code it is about.
Some hold only within the assumptions of their run, and the run says which:
`ConsentBeforeWipe` excepts the disks that a resume named in place of its journal's. In
`install_mixed` whoever resumes gives the same answers (`SameAnswers`), as the other three
properties need, so nothing is excepted there; with any answers it is proved
(`ConsentCorrect`), while `EveryWipeAgreed`, without the exception, is violated.
`NeverDropped` holds with one stale or failed read *in CI*, where the kernel was just
pulled, and is violated for a workstation that did not (both in section 7). `NukeCoversTargets` and
`AcceptedIsRequest` speak of disks called by their kernel names, and `request_nuke`
shows what an alias does. `OneMistakeOneTry` bounds attempts by mistakes of the whole
boot: several sessions and the console share them.

## 4. Bounds, and why they are enough

Installer: two disks are all `plan_layout` accepts. `MaxFaults = 2` lets a failure
hit a phase and its own retry, which is what the half-finished states need (one
fault leaves the state, a second leaves another on top of it). `MaxBoots = 1`
gives an install over an install with all volatile state gone. `MaxHeaders` (4 in
`install_any`) bounds luksFormats per disk: at the bound `luksFormat` refuses,
which the code treats as any other refusal. A formatted and opened disk cannot be
formatted again before a reboot, so two boots and two faults never need more than
four, and one boot and two faults (`install_resume`) no more than three; only in
`install_mixed`, where mappers can be closed in between, is the bound reached.
fstab entries are counted up to 2 ("more than once").

Repository: one any/ package and the kernel, two versions each, show every case
the scripts tell apart (pulled, built, skipped, pruned, dropped); `repo_calm` has
two any/ packages, so that one can change while the other does not. Two pushes
let a run finish over a head that has moved on and a second run find the first
one's remains; with `CanRevert` the second push takes the first one back. One
fault per history in `repo_fault`: two of them break `DatabaseLast`, see section 7.
`MaxBytes = 12` numbers are enough for the builds that anything still names, as
numbers nobody names are used again; no run is blocked by it.

Request: four disks are those the code knows by name (two NVMe, sda, vda); the
paths are each disk's kernel name, a partition, aliases of a disk and of a
partition, and one that is no path under /dev. The flags hold every way to name
disks (none, one disk, an alias, a partition, a list, a list with a repeated disk,
with a disk and its alias, with three disks, both flags) in guided, batch and
plain mode, and every other flag at least once; the environments hold nothing,
the files of the ISO, an exported disk over them, and a list under a single disk.
One disk is plugged in or pulled out per invocation: a second change adds nothing
that the first does not, since each gate reads the disks once.

Unlock: two volumes are what an install has. Two attempts instead of systemd's three
and one mistake reach every state of a volume but the last. Empty passphrases, failed
replies, dropped lines and resets share one bound, `MaxMishaps = 1`, so that each of them
meets every interleaving of two sessions and the console (700,000 states). Several in one
history, such as an interrupted run of the tool and another reset after the next, were
checked with one session and `MaxMishaps = 4`, where all five properties hold as
well; and the proofs of the four invariants have no bounds. `ComesUp` needs `MaxWrong < Tries`: who mistypes every
attempt has locked the volume until a reset, as systemd documents.

Mirrorlist: twelve files to begin with, four edits and five transactions; more
add no states of another kind, as each transaction reads nothing but the file.

Deadlock is checked for the installer and the repository: an invocation can always
be started again. A single invocation (`request`), a boot that came up (`unlock`) and
a bounded history of transactions (`mirrorlist`) do end.

## 5. Fairness

`InstallPipeline!FairSpec`: weak fairness of the running installer (a process that
is not killed goes on) and of the operator's launches as one action (a failed
install is started again by somebody who wants it). Nothing is assumed of
failures, kills, unmounts or reboots, which are bounded. The operator may answer
with `--fresh` or a different layout where the configuration allows; the property
excepts a journal that was reset.

`RepoPublish!FairSpec`: weak fairness of each publisher's start (a push or a re-run
of the job) and of its steps, and of the sandbox's second upload. GitHub schedules
a pending run of a concurrency group when the running one ends, and every push
makes one, which is what the first assumes. Kills and misreads are bounded.

`RemoteUnlock!FairSpec`: weak fairness of systemd (each volume is started and each
answer checked, the root is mounted when all are open), of the agent's own steps
(a shell script that is not hung up goes on), and of the operator, who logs in
while the host is down and types something when asked. An answer that is due is given or missed: which of the two is not assumed. Nothing is
assumed of the console, of what is typed (wrong and empty passphrases are bounded), of
dropped lines, of the tool or of resets. Failed replies are bounded too: the hook copies
the helper into the image (initcpio-install-ssh-unlock), and an image without it would
leave only the console, of which nothing is assumed.

## 6. What is proved

`InstallPipeline_proofs` (TLAPS), for every set of disks and requests and every
bound:

| Theorem | Statement |
|---|---|
| `TypeCorrect` | `Spec => []TypeOK` |
| `OrderCorrect` | `SameAnswers` implies `Spec => []JournalInOrder` |
| `ConsentCorrect` | `Spec => []ConsentBeforeWipe` |
| `ContractKept` | `SameAnswers` implies `Spec => KeepsContract`: the pipeline implements `InstallContract` |

Assumed are the modules' named assumptions (`NoDisk` is no disk, bounds are
naturals, requests are requests) and, for `OrderCorrect` and `ContractKept`, the constant
`SameAnswers`: without it both are false, as a journal of one layout has gaps for
another.

*Type correctness* splits by phase: `DiskPhases`, `TargetPhases` and `BootPhases`
show that a phase changes only what a phase may (`PhaseFrame`) and keeps the
data typed, and `TypeNext` adds the steps of the journal and the outside.

*Order* needs a strengthening, because `JournalInOrder` speaks of the journal
only: what makes a new journal line safe is that the position never runs ahead of
it. `OrderInv` adds that while an invocation is under way every phase before `at`
that applies is recorded, that a phase about to be recorded applies and is not
recorded yet, and that the journal holds only phases of the request. A launch restarts at 1 where that is vacuous; a skip
passes only recorded or inapplicable phases; `Record` moves both. `SameLayout` is
where the assumption enters: resumed phases must be the phases of the request
the journal belongs to, or an old journal would have gaps for the new request.

*Consent* is not inductive either: a wipe happens many steps after the question.
`ConsentInv` adds that during an invocation each disk of its request is agreed
to or strayed, and that a non-empty journal implies the same of `cfg`, which carries
consent across a stopped run to a resume that does not ask: of that resume's disks,
those `cfg` had are covered, and the others are `strayed` by definition. A `--fresh`
empties the journal and therefore asks again; a reboot clears the histories. Nothing is
assumed of the answers, so the theorem says how far the missing link between journal and
disks (main.rs:126) reaches: a wipe without consent needs a resume that names another disk.

*Refinement* maps `Launch` to `Begin`, `Record` to `Commit` (in order: by `OrderInv`),
`Finish` to `Conclude` (complete: by `OrderInv` at position 27), `Kill` and a stopped
phase to `Halt`, `Reboot` and a refused `--fresh` to `Forget`, everything else to a
stutter.

`RepoPublish_proofs` (TLAPS), for every set of packages, every bound and every kind
of fault:

| Theorem | Statement |
|---|---|
| `TypeCorrect` | `Spec => []TypeOK` |
| `NamesKept` | `Publishers \subseteq {"ci"}` implies `Spec => []NeverDropped` |

Assumed are `NameAssumption` (the kernel is none of the any/ packages), `PublishBound`
(bounds are naturals, publishers and faults are the ones named) and `EnoughBytes`
(the model's pool of package contents can name a first build of everything).

*Names* shows that CI does not depend on publish-repo.sh's check for dropped
names, which compares with nothing when its read fails. `NeverDropped` compares two
published databases; neither says where the next one comes from. `NamesInv` adds
that from `pull-kernel.sh` on some kernel is in staging, that every any/ package
already handled by `build_pkg` has a file there, that an indexed staging directory
has every name until its database is uploaded (by `RepoAddFull`: the newest of the
versions in staging survives the pruning, and its existence is `Newest`, from the
well-foundedness of `<`), and that each database file on the Release, current or
held by the CDN, is absent or has every name. The assumption is needed: a
workstation may skip `pull-kernel.sh` with no kernel in staging, and a failed read
then drops it (section 7).

`InstallRequest_proofs` (TLAPS), for every set of disks and paths and all flags,
environments, machines and numbers of plugged disks:

| Theorem | Statement |
|---|---|
| `TypeCorrect` | `Spec => []TypeOK` |
| `FlagsWin` | `Spec => []TypedDisksObeyed` |
| `BatchIsNamed` | `Spec => []BatchNamed` |
| `ProbeCoversWipe` | `Spec => []NukeCoversTargets` |
| `WipeIsAgreed` | `Spec => []SomebodyAgreed` |
| `RequestAccepted` | `Spec => []AcceptedIsRequest` |

Assumed are `DiskAssumption` (every disk has its kernel name among the paths, the
two NVMe names differ) and `InputAssumption` (inputs have their types). All six
properties speak of the moment of the wipe, five steps after the first question,
and say nothing about the way there; one invariant `Inv` does. Its parts follow the
program: `Asked` (the guide keeps a typed choice, and afterwards some disk is
named), `Looked` (from the probe on, `looked` is exactly the disks `cli` names, and
if nothing was plugged an occupied one among them needed NUKE), `Resolved` (the
targets come from `cli` if it names any, in batch mode from somewhere that was
named, and are one or two different paths), `Checked` (what the gates saw of the
targets), `Journalled` and `Agreed` (where a skipped question comes from). Detection
cannot undercut the probe because after the guide `cli` is never silent; that is
the conjunct of `Asked` that `ProbeCoversWipe` rests on.

`RemoteUnlock_proofs` (TLAPS), for every number of volumes, sessions and attempts and
every bound:

| Theorem | Statement |
|---|---|
| `TypeCorrect` | `Spec => []TypeOK` |
| `MistakesAreCounted` | `Spec => []OneMistakeOneTry` |
| `AgentLeavesNoAsk` | `Spec => []OnePassAnswersAll` |
| `EnrollmentHolds` | `Spec => []EnrolledOpensItself` |

*Mistakes* needs more than the count. `Paid` adds that an answer being checked and
every ask still on a session's list with a wrong passphrase is paid for before it is
used: the ask's attempt number is below the count of mistakes. What makes it
inductive is `Snapshot`, that a listed ask belongs to an attempt a volume has
reached: as attempts only grow, a refused volume's new ask is never on an old list,
so the loop cannot spend one mistake twice. `AgentLeavesNoAsk` rests on
`Snapshot` and `Listing`: a listed ask not reached any more is answered, gone, or in `missed`.
*Enrollment* needs `Enrolled`: while the tool is between its steps nothing is
promised, and a promise means the token, and the copy if it worked, are in the image.

`InstallBoot_proofs` (TLAPS), for every set of disks and requests, every number of
failures, kills, boots and launches:

| Theorem | Assumed of the constants | Statement |
|---|---|---|
| `ResumeIsSafe` | `SameAnswers` | `Spec => ResumeKeepsData` |
| `JournalIsTruthful` | `SameAnswers`, `Outside = {}` | `Spec => []JournalTruthful` |
| `BootFindsDisks` | the same | `Spec => []BootNamesDisks` |
| `ImageIsFinal` | the same | `Spec => []ImageMatchesTarget` |
| `EspsAreIdentical` | the same | `Spec => []EspsIdentical` |
| `ServerIsUnlockable` | the same | `Spec => []ServerUnlockable` |
| `TpmPromiseHolds` | the same | `Spec => []TpmPromiseKept` |

`Outside = {}` says that nobody unmounts the target or closes a mapper between two
runs; `rescue_resume` shows that a journal is not truthful without. Only `ResumeIsSafe`
needs none of it: a phase that would format a disk is in the journal, whatever is
mounted.

The invariant `BootInv` speaks of what a phase *did* (`Did(p)`: it is recorded, or
about to be), since a failure between a phase and its journal line leaves the phase's
work and no line, and the retry runs the phase over its own results. `LaunchInv` carries
the request's answers; `DiskInv` says that headers, mappers, filesystem and mounts are
there for the phases that work through them; `FileInv` that crypttab and boot entry name
*today's* headers, which holds as no disk is formatted after them (`OrderInv`); `ImageInv`
that the image is the one mkinitcpio would build again now (`UpToDate`). After which phase
that is so depends on the request, and the proof has a case for each: without TPM
after `initramfs`, with a required one after `tpm-enroll`, which changes crypttab and
rebuilds, on a server after `initramfs-verify`. `PromiseInv` bounds the headers a crypttab
may name by those ever made, so that a format makes an old promise void, not false.

`RepoRelease_proofs` (TLAPS), for every set of packages, any pushes, sandbox uploads
and runs, all with `Faults = {}`:

| Theorem | Publishers | Statement |
|---|---|---|
| `LiveStaysDownloadable` | one, CI or a workstation | `Spec => []LiveDownloadable` |
| `PublishedStaysInstallable` | one | `Spec => []PublishedIsInstallable` |
| `NothingIsLeftToShip` | one | `Spec => []NothingToShip` |
| `NamesKeptWhenCalm` | one | `Spec => []NeverDropped` |
| `PublishesAreTagged` | CI | `Spec => []EveryPublishTagged` |
| `RollbackStaysPossible` | CI, and `CanRevert = FALSE` | `Spec => []RollbackDownloadable` |

The hypotheses are needed. In CI one kill, one stale or one failed read violates
`LiveDownloadable` and `EveryPublishTagged`; one kill or two stale reads
`PublishedIsInstallable` and `NothingToShip`; for a workstation one failed read violates
`NeverDropped`; a revert violates `RollbackDownloadable` (section 7).

`CalmInv` follows a publish: the six database files are one database but while they are
uploaded, and what a run remembers of them is what they hold (`DatabaseInv`); a staged
file of a published version has the published bytes, and the index names signed files
(`BytesInv`, `IndexInv`); on the Release only the file under way may miss its signature
(`ReleaseInv`); every indexed package not waiting any more is on the Release
(`UploadInv`); staging has the published names once publish-repo.sh compared them
(`DropInv`). `NamesKeptWhenCalm` is about the case `NamesKept` cannot have: there the
check for dropped names is what protects clients. `CiInv` adds that clients see a tagged
database or the run that will tag it is under way, and that the published kernel is
among the staged ones. `HistoryInv` adds, for versions that only grow, that no dated
database names a newer version than the one about to be published, nor other bytes for
the same: so no upload meets a file that a dated database names with other bytes.

`RepoFault_proofs` (TLAPS), for every set of packages and any number of faults:

| Theorem | Assumed of the constants | Statement |
|---|---|---|
| `DatabaseLastDespiteKills` | one publisher, `Faults \subseteq {"kill"}` | `Spec => DatabaseLast` |
| `DatabaseLastDespiteMisreads` | `Publishers = {"ci"}`, `"kill" \notin Faults` | `Spec => DatabaseLast` |
| `KernelOnlyAdvances` | `Publishers = {"ci"}`, `"kill" \notin Faults` | `Spec => []KernelNeverOlder` |

A run skips the upload of a package whose sum the database it read names, and pulls
instead of building what that database names: so the order of the uploads alone does not
give `DatabaseLast`. `Trust` says what those two decisions must be right about,
`BaseInv` what a run then knows of its own staging and uploads whatever fails. `Trust`
holds for two reasons that do not mix. Under kills (`KillInv`) what is read is the
current `appsynergy.db.tar.gz`, and all it names stays on the Release with those bytes,
though perhaps unsigned for a while: no run overwrites a package that database names.
Under misreads (`MisreadInv`) the database read may be an old one, but no upload was
ever cut short, so every signature on the Release is of the bytes beside it. With both,
a misled run overwrites a published package and dies before its signature, and the next
one pulls the pair that does not match and publishes it: `DatabaseLast` is violated by
one kill and one misread, and `KernelNeverOlder` by two kills (section 7).

`Mirrorlist_proofs` (TLAPS), for every set of files pacman accepts, of any length, and
any number of edits and transactions:

| Theorem | Statement |
|---|---|
| `TypeCorrect` | `Spec => []TypeOK` |
| `PacmanStaysUsable` | `Spec => []StaysUsable` |
| `InstallLeavesOneSigned` | `Spec => []SignedOnce` |
| `OthersAreKept` | `Spec => OthersKept` |
| `ReinstallIsIdempotent` | `Spec => Idempotent` |

The lemmas `StripFacts`, `WireFacts`, `MigrateFacts` and `UnwireFacts` state line by line what
the four shell functions do to any file. From them: the migration's candidate always
resolves, so pacman-conf never rejects it; wiring a migrated file again changes
nothing, so the second call in `post_install` is harmless; and the Include is appended
only where nothing registers the repository. `HostInv` has a part for each place a
transaction can be at: `InstalledInv` (what pacman accepted before the drop-in came:
`Ready`), `RemovedInv` (what it accepted before the drop-in went), and `WiredInv` (what a
finished install established and only another install may follow). `ReadyIsSound` is
where the third exception of `StaysUsable` comes from.

Only model-checked: `ResumeCompletes`, `Converges` and `ComesUp`, which are liveness under
fairness and outside the prover's reach, and `KernelNeverOlder` with one kill. Every
other property of a passing run is stated by a theorem, under the hypotheses given;
`repo_fault` checks on its instance what happens when any one fault hits.

## 7. Where the code and its documents disagree

Each of these has a run that ends in a counterexample.

- `rescue_resume` — after a failed rescue install the cleanup unmounts the target,
  the journal survives in the host's `/run`, and the resumed run pacstraps into
  the bare directory of the chroot.
- `request_nuke` — `installer/README.md:27` asks for NUKE when a disk holds data; a disk
  named by an alias (`/dev/disk/by-id/...`) looks empty to the probe, since lsblk
  prints kernel names, and a plain Y goes on.
- `unlock_tool` — `appsynergy-tpm-enroll` says "Expect automatic unlock" after it
  enrolled one volume and cut crypttab down to it: on a two-disk server the other one
  asks for the passphrase. (The run's trace may begin with both volumes enrolled by
  the installer, whose second line the tool deletes; whether systemd then still tries
  a token is left open in `Start`. With no token on the second volume it must ask.)

Further ones that the modules show when their constants are changed as given:

| Property violated | Constants | What happens |
|---|---|---|
| OldCpuTouchesNoDisk | `InstallMixed.cfg` with a request of an old CPU | `installer/README.md:10` and `desktop/README.md:56` say an unsupported CPU is refused before any disk is touched; the test sits in `local-kernel`, the seventh phase |
| CompletedImageWhole | a desktop with an optional TPM, 2 faults | a TPM phase whose `mkinitcpio -P` failed is retried; the retry's enrollment fails, which is a warning, and the phase returns before rebuilding: the install completes over an incomplete image |
| EveryWipeAgreed | `InstallMixed.cfg` with `SameAnswers = FALSE` | the journal is not bound to its disks: a second invocation with another disk formats that disk with no confirmation of the pipeline (in guided mode NUKE is still asked; RESCUE-INSTALL.md:68 promises the typed paths) |
| NeverDropped | `Publishers = {"desk"}`, a failed read, staging without a kernel | a failed download of the published database counts as "none published" and disables the check for dropped packages |
| Converges | `Faults = {"kill"}`, 1 fault | a publish that dies between gh's delete and upload of the kernel (or of an unchanged package's signature) leaves a Release that every later run aborts on |
| PromptAlwaysAvailable | `UnlockTool.cfg` | appsynergy-tpm-enroll writes the name of the mapper lsblk lists first (line 43) with the UUID of the volume luks-device names (line 42). With disks typed in another order than lsblk's that is one volume's name with the other's UUID: the volume of that name loses its unit, is neither attached nor asked for, and the RAID1 root never appears, although UNLOCK.txt calls the prompt "always available" (main.rs:2189) and names this tool (:2192) |
| LiveMediumSpared | `Request.cfg` | an alias of the live medium, or of a partition, passes validate_target_disks (main.rs:328), which compares the last component of the path |
| DeclinedKeyNotUsed | `Request.cfg` | who declines the key that was found and leaves the path empty is told "no key" (guide.rs:356); Config::load then installs the found key all the same (config.rs:314) |
| LiveDownloadable | `Faults = {"kill"}`, 1 fault | a run dies between `appsynergy.db` and `appsynergy.db.tar.gz`; the next rebuilds and overwrites a version clients already see (`packages/README.md:54` calls it immutable) |
| NothingToShip | same | a run dies after `appsynergy.db.tar.gz`: its signature and the files databases stay old, later runs have nothing to ship |
| RollbackDownloadable | `CanRevert = TRUE`, 2 pushes | a revert rebuilds an old version under its old name; earlier dated databases name other bytes |
| EveryPublishTagged | `Faults = {"stale"}` | verify reads the CDN's previous database and fails; the re-run is a no-op and removes the stamp, so the tag never comes |
| DatabaseLast | `Publishers = {"ci", "desk"}` | the concurrency group does not order a workstation |
| DatabaseLast | `Faults = {"kill", "stale"}`, 2 faults | a package whose signature is of another build is pulled back and published; `verify-repo.sh` only looks at HTTP 200 |
| KernelNeverOlder | `Faults = {"kill"}`, 2 faults | a run dies after `appsynergy.db` names a newer kernel, the next while it uploads that kernel again, after gh's delete: the third finds older kernels only and takes the new one back from clients |
| ResumeCompletes | its last disjunct removed | a copy to the second ESP that dies leaves it mounted; no retry can mount it |

The three exceptions of `StaysUsable` are the ways pacman does end up refusing its
configuration: a removal cut off before post_remove, an operator's own spelling of
the Include that post_remove does not find, and a file that registers the repository
twice by itself once the drop-in is there (an Include of every drop-in beside an
inline section, or beside another such Include). `OthersKept` excepts an Include that stands
behind the inline section the migration deletes.

Read from the code, not stated as properties: the agent says "boot continues" for a
passphrase nobody has checked yet (initrd-unlock:69) and "reply helper missing?" when
its asks were answered elsewhere or the passphrase was empty (:74), and exits 0 with
asks it could not answer (:70-71); appsynergy-mirrorlist.install:76 repeats the
test of line 64 and so never prints its warning; `--tpm` loses to APPSYNERGY_TPM=0
of machine.env (config.rs:289); machine.env's APPSYNERGY_TPM_PCRS is never read, since
the flag has a default (config.rs:267); machine.env's list of disks outranks
machine-server.env's single disk (config.rs:418); signatures of unchanged packages are
deleted and uploaded again in each publish; fstab entries are appended again by
a retried `fstab-crypttab`; a failure between the first `btrfs subvolume create` and
the phase's end cannot be resumed; `--fresh` resets the journal even if the
invocation is then refused, and cannot format disks whose mappers are open;
`vconsole.conf` is written after the first image was built.

## 8. Assumptions, and what is not modelled

External tools are modelled by how the code uses them: `cryptsetup` refuses a
busy device and a taken name; `mount` refuses a filesystem twice on one mount
point; `mkfs` refuses a mounted device; `btrfs` refuses an existing subvolume;
a failing `mkinitcpio -P` leaves the old image or an incomplete one; the kernel
package's hook builds the first image or the phase fails; `genfstab` needs a
mount point; `gh` deletes before it uploads, and uploads atomically.

systemd-cryptsetup takes an ask's first answer, asks again under a new file after a
wrong one, gives up after a number of them, and may try a passphrase typed for
another volume first; a token alone may open a volume that crypttab does not give
to the TPM, or may not. Its generator makes crypttab's units first, and a volume of the
kernel command line whose name is already taken gets none. systemd-reply-password takes an
empty input for the end of file and fails. pacman refuses an Include of a named file that is missing
and a repository registered twice; `pacman-conf --repo` refuses only the first.

Left out of the request: well-formedness of names and locales (`validate.rs`), package
lists and tools (one refusal), PCRs, sizes and passwords. Left out of unlocking:
a `luks-device` whose kernel name means another disk after a renaming or is gone
(appsynergy-tpm-enroll:17-20 then searches), LUKS volumes that are not the root's, and
host keys. Left out of the mirrorlist: the backup of pacman.conf, and
a mktemp or sed that fails.
Left out of the installer: passwords, the contents of the twelve plain
phases (k3s, branding, users, network units), NVRAM entries and their clean-up,
two installers at once, a change of variant on a resume without `--fresh`.
`ImageMatchesTarget` leaves out desktops whose TPM is optional (CompletedImageWhole in
section 7).
Left out of the repository: the overrides (`ALLOW_UNSIGNED`, `ALLOW_DROP`,
`FORCE_PUBLISH`, `REBUILD_PUBLISHED`), retired package names, kernel and headers
as two packages, a kernel version built twice, re-running CI on an old commit
(a revert comes closest), `SIGN=0` in CI, and two uploads of one name that
collide (the loser waits to be killed). The bytes of a database are identified
with what it indexes, as the scripts compare it.

## 9. Plan

In order of what matters most.

1. **RepoCatalog**, an abstract specification of a repository (a set of immutable
   files and one current catalogue that only moves to installable ones) that
   `RepoPublish` implements without faults, as a further property of `repo_calm` and a
   theorem on top of `CalmInv`.
2. `RepoPublish` extended by a reader (`fetch-repo.sh`, which can mix two publishes in
   one staging directory), headers as a second package, and the overrides.
3. `InstallPipeline` extended by a second installer process and by NVRAM.
4. `RemoteUnlock` composed with `InstallPipeline` through the image's inputs, instead of
   the `Init` that states what the installer may leave.
