--------------------------- MODULE InstallRequest ---------------------------
(***************************************************************************)
(* From the command line to the first write: one invocation of             *)
(* appsynergy-install up to journal.run("partition") (guide.rs, config.rs, *)
(* disk.rs, and try_main's checks in main.rs).                             *)
(*                                                                         *)
(* Five things can name the disks (two flags, the guide's answers, the     *)
(* process environment, machine.env under machine-server.env, detection),  *)
(* three gates can stop the run (the guide's NUKE, the checks of the       *)
(* targets, the typed confirmation), and each gate looks at the disks its  *)
(* own way: the guide by the last component of the path in lsblk's output, *)
(* validate_target_disks by that component in sysfs, the wipe by the path. *)
(* Disks come and go in between.  What is accepted here is a Request of    *)
(* InstallPipeline.                                                        *)
(***************************************************************************)
EXTENDS Naturals, FiniteSets, Sequences

CONSTANTS
    Disk,                     \* whole disks that may be in the machine
    NoDisk,                   \* none of them
    Nvme0, Nvme1, Sda, Vda,   \* the four the code knows by name
    Path,                     \* the paths somebody may write
    Flags,                    \* command lines
    Envs,                     \* the process environment and the two env files
    Worlds,                   \* what the machine holds
    Loose,                    \* disks that may be plugged in or pulled out
    MaxPlugs                  \* bound: how often that happens

\* A path is the kernel's own name of a disk (/dev/sda) or of a partition,
\* a symlink to one of those (/dev/disk/by-id/...), or no single path under
\* /dev at all.
Paths == [kind: {"node", "part", "link", "partLink", "bad"}, of: Disk]
NoPath == [kind |-> "none", of |-> NoDisk]
Node(d) == [kind |-> "node", of |-> d]
Kernel(p) == p.kind \in {"node", "part"}

Variants == {"desktop", "server"}
Keys == {"none", "baked", "found", "file", "junk"}
Tpms == {"auto", "force", "skip"}
\* --disks or APPSYNERGY_DISKS, --disk or APPSYNERGY_DISK.
Disks == [disks: Seq(Path), disk: Path \cup {NoPath}]
Silent == [disks |-> <<>>, disk |-> NoPath]
\* yes: --yes.  ask: a terminal, and no APPSYNERGY_NO_GUIDE.  A variable that
\* clap binds to a flag (APPSYNERGY_VARIANT, APPSYNERGY_SSH_PUBKEY) counts as it.
CommandLine ==
    [variant: Variants \cup {"none"}, disks: Seq(Path), disk: Path \cup {NoPath},
     yes: BOOLEAN, ask: BOOLEAN, key: Keys, tpm: Tpms, dev: BOOLEAN, fresh: BOOLEAN]
Environment ==
    [proc: Disks, base: Disks, server: Disks, variant: Variants,
     key: {"none", "file", "junk"}, tpm: Tpms]
\* content: nothing, what the guide's probe recognises, or data it does not.
\* live: the disk this system booted from.  baked, found: readable SSH keys in
\* /etc/appsynergy and /root.  journal: phases already done this boot.
Machine ==
    [content: [Disk -> {"blank", "known", "foreign"}], live: Disk \cup {NoDisk},
     present: SUBSET Disk, baked: BOOLEAN, found: BOOLEAN, tpm: BOOLEAN,
     journal: BOOLEAN]

ASSUME DiskAssumption ==
    /\ NoDisk \notin Disk /\ {Nvme0, Nvme1, Sda, Vda} \subseteq Disk
    /\ Path \subseteq Paths /\ {Node(d) : d \in Disk} \subseteq Path
    /\ Nvme0 # Nvme1
ASSUME InputAssumption ==
    /\ Flags \subseteq CommandLine /\ Envs \subseteq Environment
    /\ Worlds \subseteq Machine
    /\ Loose \subseteq Disk /\ MaxPlugs \in Nat

VARIABLES
    world,      \* the machine: contents, live medium, keys, TPM, a journal of this boot
    present,    \* disks attached now
    plugs,      \* how often that changed
    typed,      \* the command line as typed
    cli,        \* the same after the guide filled it in
    env,        \* the environments, chosen where Config::load reads them
    step,       \* what try_main does next
    looked,     \* paths the guide probed
    hits,       \* those on which the probe recognised something
    nuked,      \* NUKE was typed
    plan,       \* the Config that was loaded
    journal,    \* phases are recorded for this boot
    confirmed   \* paths and YES were typed

vars == <<world, present, plugs, typed, cli, env, step, looked, hits, nuked,
          plan, journal, confirmed>>
machine == <<world, present, plugs, typed>>

NoPlan == [variant |-> "none", targets |-> <<>>, by |-> "none", key |-> "none",
           tpm |-> "off"]
NoEnv == [proc |-> Silent, base |-> Silent, server |-> Silent,
          variant |-> "desktop", key |-> "none", tpm |-> "auto"]
Over == {"wiping", "refused"}
\* should_guide: no --yes, no APPSYNERGY_NO_GUIDE, and a terminal.
Guided == ~typed.yes /\ typed.ask

Init ==
    /\ world \in Worlds /\ present = world.present /\ plugs = 0
    /\ typed \in Flags /\ cli = typed
    /\ env = NoEnv
    /\ step = IF Guided THEN "variant" ELSE "load"
    /\ looked = {} /\ hits = {} /\ nuked = FALSE
    /\ plan = NoPlan /\ journal = world.journal /\ confirmed = FALSE

----------------------------------------------------------------------------
(* Disk lists and what a path shows.                                       *)

\* Path::exists and fs::metadata follow symlinks; a disk has partitions only
\* if something partitioned it.
Exists(p) == /\ p.kind # "bad" /\ p.of \in present
             /\ p.kind \in {"part", "partLink"} => world.content[p.of] = "known"

\* parse_disks_list and single_disk refuse what is not one path under /dev.
Readable(l) == \A i \in DOMAIN l : l[i].kind # "bad"
Members(l) == {l[i] : i \in DOMAIN l}
One(p) == IF p = NoPath THEN <<>> ELSE <<p>>

FirstOf(l) == IF \E i \in DOMAIN l : l[i].of \in present
              THEN <<l[CHOOSE i \in DOMAIN l :
                        /\ l[i].of \in present
                        /\ \A j \in 1 .. i - 1 : l[j].of \notin present]>>
              ELSE <<>>
BothNvme == {Nvme0, Nvme1} \subseteq present

\* Bug: --disks is forgotten.
BugPlanned(c) ==
    IF c.disk # NoPath THEN {c.disk}
    ELSE LET nvme == {Node(d) : d \in {Nvme0, Nvme1} \cap present}
         IN  IF nvme # {} THEN nvme ELSE Members(FirstOf(<<Node(Sda), Node(Vda)>>))

\* planned_disks_from_cli: what the guide probes.
Planned(c) ==
    IF c.disks # <<>> THEN IF Readable(c.disks) THEN Members(c.disks) ELSE {}
    ELSE IF c.disk # NoPath THEN {c.disk}
    ELSE LET nvme == {Node(d) : d \in {Nvme0, Nvme1} \cap present}
         IN  IF nvme # {} THEN nvme ELSE Members(FirstOf(<<Node(Sda), Node(Vda)>>))

\* lsblk names a disk and its partitions as the kernel does; only lines that
\* hold the last component of a planned path count, and only file systems,
\* partitions and LUKS are recognised ("foreign": an LVM, ZFS or NTFS
\* signature on the bare disk, which lsblk shows and the parser ignores).
Recognised(p, all) ==
    /\ Exists(p) /\ world.content[p.of] = "known"
    /\ \E q \in all : Kernel(q) /\ q.of = p.of

----------------------------------------------------------------------------
(* The guide.                                                              *)

Refuse == /\ step' = "refused"
          /\ UNCHANGED <<machine, cli, env, looked, hits, nuked, plan, journal, confirmed>>

Answer(now, then) ==
    /\ step = now /\ step' = then
    /\ UNCHANGED <<machine, env, plan, journal, confirmed>>

\* "1" or "2"; anything else ends the run.
AskVariant ==
    \/ /\ Answer("variant", "disks") /\ UNCHANGED <<looked, hits, nuked>>
       /\ IF cli.variant = "none"
          THEN \E v \in Variants : cli' = [cli EXCEPT !.variant = v]
          ELSE UNCHANGED cli
    \/ step = "variant" /\ cli.variant = "none" /\ Refuse

\* apply_disk_choice: one source excludes the other.
Choose(l, p) == cli' = [cli EXCEPT !.disks = l, !.disk = p]

\* A server is asked when no flag named a disk, a desktop whenever --disk did
\* not, --disks or not.
AskDisks ==
    /\ Answer("disks", "probe") /\ UNCHANGED <<looked, hits, nuked>>
    /\ IF IF cli.variant = "server" THEN cli.disks = <<>> /\ cli.disk = NoPath
                                    ELSE cli.disk = NoPath
       THEN \/ /\ cli.variant = "server" /\ BothNvme
               /\ Choose(<<Node(Nvme0), Node(Nvme1)>>, NoPath)
            \/ \E p \in Path : Choose(<<>>, p)
       ELSE UNCHANGED cli

\* Bug: every line of lsblk counts, not only those of the planned disks.
BugProbe ==
    LET all == Planned(cli)
        seen == {p \in Path : Recognised(p, Path)}
    IN \/ /\ Answer("probe", "key") /\ UNCHANGED cli
          /\ looked' = all /\ hits' = seen /\ nuked' = (seen # {})
       \/ step = "probe" /\ all # {} /\ Refuse

\* Data recognised: NUKE or nothing.  Otherwise a Y/n that defaults to Y.
Probe ==
    LET all == Planned(cli)
        seen == {p \in all : Recognised(p, all)}
    IN \/ /\ Answer("probe", "key") /\ UNCHANGED cli
          /\ looked' = all /\ hits' = seen /\ nuked' = (seen # {})
       \/ step = "probe" /\ all # {} /\ Refuse

\* Passwords that differ and a key path that is no file end the run.
AskKey ==
    \/ /\ Answer("key", "load") /\ UNCHANGED <<looked, hits, nuked>>
       /\ \/ cli.key # "none" /\ UNCHANGED cli
          \/ cli.key = "none" /\ world.baked /\ cli' = [cli EXCEPT !.key = "baked"]
          \/ cli.key = "none" /\ ~world.baked /\ cli.variant = "desktop" /\ UNCHANGED cli
          \/ /\ cli.key = "none" /\ ~world.baked /\ cli.variant = "server"
             /\ \E k \in {"none", "file", "junk"} \cup (IF world.found THEN {"found"} ELSE {}) :
                   cli' = [cli EXCEPT !.key = k]
    \/ step = "key" /\ Refuse

----------------------------------------------------------------------------
(* Config::load.                                                           *)

\* machine.env, key by key under machine-server.env on a server.
FileEnv(v, e) ==
    IF v = "desktop" THEN e.base
    ELSE [disks |-> IF e.server.disks # <<>> THEN e.server.disks ELSE e.base.disks,
          disk |-> IF e.server.disk # NoPath THEN e.server.disk ELSE e.base.disk]

EnvDisks(d) == IF d.disks # <<>> THEN d.disks ELSE One(d.disk)

\* Not checked for a desktop: its one guess need not exist.
Detect(v) ==
    IF v = "desktop" THEN <<Node(Nvme0)>>
    ELSE IF BothNvme THEN <<Node(Nvme0), Node(Nvme1)>>
    ELSE IF Nvme0 \in present THEN <<Node(Nvme0)>>
    ELSE <<Node(Sda)>>

\* Bug: an exported variable outranks the flags.
BugResolve(v, e) ==
    IF EnvDisks(e.proc) # <<>> THEN [by |-> "process", list |-> EnvDisks(e.proc)]
    ELSE IF cli.disks # <<>> THEN [by |-> "--disks", list |-> cli.disks]
    ELSE IF cli.disk # NoPath THEN [by |-> "--disk", list |-> <<cli.disk>>]
    ELSE IF EnvDisks(FileEnv(v, e)) # <<>>
         THEN [by |-> "file", list |-> EnvDisks(FileEnv(v, e))]
    ELSE [by |-> "detected", list |-> Detect(v)]

\* resolve_disks_from: the first source that says anything.
Resolve(v, e) ==
    IF cli.disks # <<>> THEN [by |-> "--disks", list |-> cli.disks]
    ELSE IF cli.disk # NoPath THEN [by |-> "--disk", list |-> <<cli.disk>>]
    ELSE IF EnvDisks(e.proc) # <<>> THEN [by |-> "process", list |-> EnvDisks(e.proc)]
    ELSE IF EnvDisks(FileEnv(v, e)) # <<>>
         THEN [by |-> "file", list |-> EnvDisks(FileEnv(v, e))]
    ELSE [by |-> "detected", list |-> Detect(v)]

\* parse_disks_list drops repeated paths, a desktop keeps the first disk, and
\* plan_layout takes no third: what is left is the first and perhaps another.
Targets(v, l) ==
    LET rest == Members(l) \ {l[1]}
    IN  IF v = "desktop" \/ rest = {} THEN <<l[1]>> ELSE <<l[1], CHOOSE p \in rest : TRUE>>

\* --no-tpm or APPSYNERGY_TPM=0 outranks --tpm or APPSYNERGY_TPM=1.
Tpm(e) == IF "skip" \in {cli.tpm, e.tpm} THEN "off"
          ELSE IF "force" \in {cli.tpm, e.tpm} THEN "required"
          ELSE IF world.tpm THEN "optional" ELSE "off"

\* A key named on the command line (or accepted in the guide), then one the
\* environment names, then whatever this live system holds.
Key(e) == IF cli.key # "none" THEN cli.key
          ELSE IF e.key # "none" THEN e.key
          ELSE IF world.baked THEN "baked"
          ELSE IF world.found THEN "found" ELSE "none"

\* Bug: --yes does with a detected disk.
BugLoadable(v, r, e) ==
    /\ Readable(r.list)
    /\ v = "server" => Cardinality(Members(r.list)) <= 2
    /\ Key(e) # "junk"
    /\ ~(cli.dev /\ v = "server")

\* What ends the load with an error.
Loadable(v, r, e) ==
    /\ Readable(r.list)
    /\ cli.yes => r.by # "detected"
    /\ v = "server" => Cardinality(Members(r.list)) <= 2
    /\ Key(e) # "junk"
    /\ ~(cli.dev /\ v = "server")

\* --fresh empties the journal first.  The identity fields (validate.rs) and
\* the password file can end the load as well.
Load(e) ==
    LET v == IF cli.variant # "none" THEN cli.variant ELSE e.variant
        r == Resolve(v, e)
    IN /\ step = "load" /\ env' = e
       /\ journal' = (journal /\ ~cli.fresh)
       /\ \/ /\ Loadable(v, r, e) /\ step' = "check"
             /\ plan' = [variant |-> v, targets |-> Targets(v, r.list), by |-> r.by,
                         key |-> Key(e), tpm |-> Tpm(e)]
          \/ step' = "refused" /\ UNCHANGED plan
       /\ UNCHANGED <<machine, cli, looked, hits, nuked, confirmed>>

----------------------------------------------------------------------------
(* try_main's checks, the confirmation, and the disks' own life.           *)

\* Bug: a partition's parent is compared with the live medium, a disk is not.
BugValid(p) == Exists(p) /\ p.kind # "part"

\* validate_target_disks: there, a block device, and by its last component
\* neither a partition nor the live medium.
Valid(p) == Exists(p) /\ p.kind # "part" /\ p # Node(world.live)

Armed == plan.variant = "server" => plan.key # "none"

\* Missing tools, package lists or packages end the run as well.
Check ==
    \/ /\ step = "check" /\ step' = "confirm"
       /\ Armed /\ \A i \in DOMAIN plan.targets : Valid(plan.targets[i])
       /\ UNCHANGED <<machine, cli, env, looked, hits, nuked, plan, journal, confirmed>>
    \/ step = "check" /\ Refuse

\* Bug: the journal that counts is the one from before --fresh.
BugConfirm ==
    \/ /\ step = "confirm" /\ step' = "wiping"
       /\ confirmed' = ~(world.journal \/ cli.yes)
       /\ UNCHANGED <<machine, cli, env, looked, hits, nuked, plan, journal>>
    \/ step = "confirm" /\ ~(world.journal \/ cli.yes) /\ Refuse

\* A journal of this boot skips the question, --yes answers it.
Confirm ==
    \/ /\ step = "confirm" /\ step' = "wiping"
       /\ confirmed' = ~(journal \/ cli.yes)
       /\ UNCHANGED <<machine, cli, env, looked, hits, nuked, plan, journal>>
    \/ step = "confirm" /\ ~(journal \/ cli.yes) /\ Refuse

\* A disk appears or is pulled out while the program waits for an answer.
Plug(d) ==
    /\ step \notin Over /\ plugs < MaxPlugs /\ d # world.live
    /\ present' = IF d \in present THEN present \ {d} ELSE present \cup {d}
    /\ plugs' = plugs + 1
    /\ UNCHANGED <<world, typed, cli, env, step, looked, hits, nuked, plan, journal, confirmed>>

Next == \/ AskVariant \/ AskDisks \/ Probe \/ AskKey
        \/ Check \/ Confirm
        \/ \E e \in Envs : Load(e)
        \/ \E d \in Loose : Plug(d)

Spec == Init /\ [][Next]_vars

----------------------------------------------------------------------------
(* What must hold when the wipe begins.                                    *)

\* Every variable keeps its type.
TypeOK ==
    /\ world \in Worlds /\ present \subseteq Disk /\ plugs \in 0 .. MaxPlugs
    /\ typed \in Flags /\ cli \in CommandLine /\ env \in Envs \cup {NoEnv}
    /\ step \in {"variant", "disks", "probe", "key", "load", "check", "confirm"} \cup Over
    /\ looked \subseteq Path /\ hits \subseteq looked
    /\ nuked \in BOOLEAN /\ journal \in BOOLEAN /\ confirmed \in BOOLEAN
    /\ plan \in [variant: Variants \cup {"none"}, targets: Seq(Path),
                by: {"none", "--disks", "--disk", "process", "file", "detected"},
                key: Keys, tpm: {"off", "optional", "required"}]

Wiped == Members(plan.targets)

\* A typed --disks or --disk is what gets wiped, whatever the environments
\* hold ("a typed flag MUST outrank every environment source", config.rs:399);
\* only a guided desktop given --disks alone is asked again (guide.rs:251).
TypedDisksObeyed ==
    step = "wiping" =>
        /\ typed.disk # NoPath /\ typed.disks = <<>> => plan.targets = <<typed.disk>>
        /\ \/ typed.disks = <<>>
           \/ Guided /\ plan.variant = "desktop" /\ typed.disk = NoPath
           \/ Wiped # {} /\ Wiped \subseteq Members(typed.disks)

\* --yes wipes no disk that nobody named: each is in a flag or in one of the
\* environments (config.rs:450-466).
BatchNamed ==
    step = "wiping" /\ typed.yes =>
        \A t \in Wiped :
            \/ t \in Members(typed.disks) \cup {typed.disk}
            \/ \E e \in {env.proc, env.base, env.server} : t \in Members(e.disks) \cup {e.disk}

\* The guide probed every disk it lets go to the wipe, under the path the wipe
\* uses, and where a disk is called by its kernel name, stayed attached and
\* held partitions, LUKS or a known file system, NUKE was typed
\* (installer/README.md:27), through every way the guide, the flags and the
\* environments can pick the disks.
NukeCoversTargets ==
    step = "wiping" /\ Guided =>
        \A t \in Wiped :
            /\ t \in looked
            /\ plugs = 0 /\ Kernel(t) /\ world.content[t.of] = "known" => nuked

\* Nothing is wiped by an operator who agreed to nothing: there was --yes, or
\* the paths and YES were typed, or a journal of this boot is being resumed and
\* --fresh was not given (main.rs:123-136).
SomebodyAgreed ==
    step = "wiping" =>
        \/ typed.yes \/ confirmed
        \/ world.journal /\ ~typed.fresh

\* What reaches the phases is what InstallPipeline assumes of a request, as
\* long as disks are called by their kernel names: one disk or two different
\* ones, a desktop with one, whole, not the live medium, and a server with a
\* readable key (main.rs:70-137).
AcceptedIsRequest ==
    step = "wiping" /\ (\A t \in Wiped : Kernel(t)) =>
        /\ Cardinality({t.of : t \in Wiped}) = Len(plan.targets)
        /\ Len(plan.targets) \in {1, 2} /\ (plan.variant = "desktop" => Len(plan.targets) = 1)
        /\ \A t \in Wiped : t.kind = "node" /\ t.of # world.live
        /\ plan.variant = "server" => plan.key \in {"baked", "found", "file"}

\* README.md:27 without the reservations: whatever the disk is called.
OccupiedNeedsNuke ==
    step = "wiping" /\ Guided =>
        \A t \in Wiped : plugs = 0 /\ world.content[t.of] = "known" => nuked

\* main.rs:328: every target is a whole disk that is not the live medium.
LiveMediumSpared ==
    step = "wiping" =>
        \A t \in Wiped : t.kind \in {"node", "link"} /\ t.of # world.live

\* guide.rs:356: who leaves the key empty unlocks with the passphrase.
DeclinedKeyNotUsed ==
    step = "wiping" /\ Guided /\ cli.key = "none" => plan.key = "none"
=============================================================================
