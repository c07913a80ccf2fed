------------------------ MODULE InstallRequest_proofs ------------------------
(***************************************************************************)
(* Proofs about InstallRequest, for any disks, paths, command lines,       *)
(* environments and machines, and any number of disks plugged in and out.  *)
(*                                                                         *)
(* Each gate of the installer looks at the disks its own way and at its    *)
(* own moment, so what holds of the wipe holds only through what every     *)
(* step in between keeps.  Inv says what is known where: Asked relates the *)
(* command line to what was typed; Looked says that what the guide probed  *)
(* is all that the command line now names, and that data it recognised was *)
(* answered by NUKE; Resolved ties the plan to the command line and the    *)
(* environments; Checked and Agreed keep what the last two gates saw.      *)
(***************************************************************************)
EXTENDS InstallRequest, TLAPS, FiniteSetTheorems

Loaded == {"check", "confirm", "wiping"}
Probed == {"key", "load"} \cup Loaded

Asked ==
    /\ cli.yes = typed.yes /\ cli.fresh = typed.fresh
    /\ step \in {"variant", "disks", "probe", "key"} => Guided
    /\ step \in {"variant", "disks"} \/ ~Guided
          => cli.disks = typed.disks /\ cli.disk = typed.disk
    /\ (\/ typed.disk # NoPath
        \/ typed.disks # <<>> /\ ~(Guided /\ cli.variant = "desktop"))
          => cli.disks = typed.disks /\ cli.disk = typed.disk
    /\ Guided /\ step # "variant" /\ step # "refused" => cli.variant \in Variants
    /\ Guided /\ step \in {"probe"} \cup Probed => cli.disks # <<>> \/ cli.disk # NoPath

Looked ==
    Guided /\ step \in Probed =>
        /\ cli.disks # <<>> /\ Readable(cli.disks) => looked = Members(cli.disks)
        /\ cli.disks = <<>> => looked = {cli.disk}
        /\ plugs = 0 => \A p \in looked : Recognised(p, looked) => nuked

\* The paths a command line and the environments name.
Named(c, e) ==
    Members(c.disks) \cup {c.disk} \cup Members(e.proc.disks) \cup {e.proc.disk}
        \cup Members(e.base.disks) \cup {e.base.disk}
        \cup Members(e.server.disks) \cup {e.server.disk}

Resolved ==
    step \in Loaded =>
        /\ plan.variant \in Variants
        /\ cli.variant # "none" => plan.variant = cli.variant
        /\ cli.disks # <<>> => Readable(cli.disks) /\ Wiped \subseteq Members(cli.disks)
        /\ cli.disks = <<>> /\ cli.disk # NoPath => plan.targets = <<cli.disk>>
        /\ cli.yes => Wiped \subseteq Named(cli, env)
        /\ Wiped # {}
        /\ Len(plan.targets) \in {1, 2} /\ (plan.variant = "desktop" => Len(plan.targets) = 1)
        /\ Len(plan.targets) = 2 => plan.targets[1] # plan.targets[2]
        /\ plan.key # "junk"
        /\ journal => ~typed.fresh

Checked ==
    step \in {"confirm", "wiping"} =>
        /\ plan.variant = "server" => plan.key # "none"
        /\ \A t \in Wiped : t.kind # "part" /\ t # Node(world.live)
        /\ plugs = 0 => \A t \in Wiped : Exists(t)

Journalled == journal => world.journal

Agreed == step = "wiping" => confirmed \/ journal \/ cli.yes

Inv == TypeOK /\ Asked /\ Looked /\ Resolved /\ Journalled /\ Checked /\ Agreed

----------------------------------------------------------------------------
(* What the operators of Config::load return.                              *)

LEMMA NodePaths ==
    /\ \A d \in Disk : Node(d) \in Path /\ Node(d) # NoPath
    /\ NoPath \notin Path
    /\ \A p \in Path : p = [kind |-> p.kind, of |-> p.of] /\ p.of \in Disk
    /\ Nvme0 \in Disk /\ Nvme1 \in Disk /\ Sda \in Disk /\ Vda \in Disk
  BY DiskAssumption DEF Node, NoPath, Paths

LEMMA MembersType ==
    ASSUME NEW l \in Seq(Path), l # <<>>
    PROVE  l[1] \in Path /\ l[1] \in Members(l) /\ Members(l) \subseteq Path
  BY DEF Members

\* The targets are one or two different disks of the list, one for a desktop.
LEMMA TargetsOfList ==
    ASSUME NEW v \in Variants, NEW l \in Seq(Path), l # <<>>
    PROVE  /\ Targets(v, l) \in Seq(Path)
           /\ Len(Targets(v, l)) \in {1, 2} /\ (v = "desktop" => Len(Targets(v, l)) = 1)
           /\ Members(Targets(v, l)) # {}
           /\ Members(Targets(v, l)) \subseteq Members(l)
           /\ Len(Targets(v, l)) = 2 => Targets(v, l)[1] # Targets(v, l)[2]
<1> DEFINE rest == Members(l) \ {l[1]}
<1>0. l[1] \in Path /\ l[1] \in Members(l) /\ Members(l) \subseteq Path
  BY MembersType
<1>1. CASE v = "desktop" \/ rest = {}
  <2>1. Targets(v, l) = <<l[1]>>
    BY <1>1 DEF Targets
  <2> QED
    BY <1>0, <2>1 DEF Members, Variants
<1>2. CASE ~(v = "desktop" \/ rest = {})
  <2>1. PICK p \in rest : p = (CHOOSE q \in rest : TRUE)
    BY <1>2, Zenon
  <2>2. Targets(v, l) = <<l[1], p>>
    BY <1>2, <2>1 DEF Targets
  <2>3. v = "server"
    BY <1>2 DEF Variants
  <2>4. p \in Members(l) /\ p # l[1]
    OBVIOUS
  <2> HIDE DEF rest
  <2>5. Members(Targets(v, l)) = {l[1], p}
    BY <2>2 DEF Members
  <2>6. Len(<<l[1], p>>) = 2 /\ <<l[1], p>>[1] = l[1] /\ <<l[1], p>>[2] = p
    OBVIOUS
  <2>7. p \in Path /\ <<l[1], p>> \in Seq(Path)
    BY <1>0, <2>4
  <2>8. l[1] # p /\ {l[1], p} # {} /\ {l[1], p} \subseteq Members(l)
    BY <1>0, <2>4, Zenon
  <2>9. Targets(v, l) \in Seq(Path)
    BY <2>2, <2>7
  <2>10. Len(Targets(v, l)) \in {1, 2} /\ (v = "desktop" => Len(Targets(v, l)) = 1)
    BY <2>2, <2>3, <2>6
  <2>11. Members(Targets(v, l)) # {} /\ Members(Targets(v, l)) \subseteq Members(l)
    BY <2>5, <2>8, Zenon
  <2>12. Targets(v, l)[1] # Targets(v, l)[2]
    BY <2>2, <2>6, <2>8
  <2> QED
    BY <2>9, <2>10, <2>11, <2>12, Zenon
<1> QED BY <1>1, <1>2

\* What resolve_disks_from returns is a list some source gave, and unless the
\* command line is silent it is the command line's.
LEMMA ResolveFrom ==
    ASSUME cli \in CommandLine, NEW v \in Variants, NEW e \in Envs
    PROVE  /\ Resolve(v, e).list \in Seq(Path) /\ Resolve(v, e).list # <<>>
           /\ Resolve(v, e).by \in {"--disks", "--disk", "process", "file", "detected"}
           /\ cli.disks # <<>> => Resolve(v, e).list = cli.disks
           /\ cli.disks = <<>> /\ cli.disk # NoPath => Resolve(v, e).list = <<cli.disk>>
           /\ Resolve(v, e).by # "detected" =>
                Members(Resolve(v, e).list) \subseteq Named(cli, e)
<1> DEFINE F == FileEnv(v, e)
           S == {e.proc, e.base, e.server}
           U == Named(cli, e)
<1>1. /\ cli.disks \in Seq(Path) /\ cli.disk \in Path \cup {NoPath}
      /\ \A f \in S : f.disks \in Seq(Path) /\ f.disk \in Path \cup {NoPath}
  BY InputAssumption DEF CommandLine, Environment, Disks
<1>2. F.disks \in Seq(Path) /\ F.disk \in Path \cup {NoPath}
  BY <1>1 DEF FileEnv
<1>3. Members(F.disks) \subseteq U /\ (F.disk # NoPath => F.disk \in U)
  BY <1>1 DEF FileEnv, Named
<1>4. \A d : d.disks \in Seq(Path) /\ d.disk \in Path \cup {NoPath} =>
        /\ EnvDisks(d) \in Seq(Path)
        /\ EnvDisks(d) # <<>> =>
             Members(EnvDisks(d)) \subseteq
                Members(d.disks) \cup (IF d.disk = NoPath THEN {} ELSE {d.disk})
  BY DEF EnvDisks, One, Members
<1>5. Members(EnvDisks(F)) \subseteq U \/ EnvDisks(F) = <<>>
  BY <1>2, <1>3, <1>4
<1>6. Members(EnvDisks(e.proc)) \subseteq U \/ EnvDisks(e.proc) = <<>>
  BY <1>1, <1>4 DEF Named
<1>7. Detect(v) \in Seq(Path) /\ Detect(v) # <<>>
  BY NodePaths DEF Detect
<1>8. /\ Members(<<cli.disk>>) = {cli.disk}
      /\ Members(cli.disks) \subseteq U /\ cli.disk \in U
  BY DEF Members, Named
<1>9. EnvDisks(F) \in Seq(Path) /\ EnvDisks(e.proc) \in Seq(Path)
  BY <1>1, <1>2, <1>4
<1> HIDE DEF F, S, U
<1>10. Resolve(v, e) =
        IF cli.disks # <<>> THEN [by |-> "--disks", list |-> cli.disks]
        ELSE IF cli.disk # NoPath THEN [by |-> "--disk", list |-> <<cli.disk>>]
        ELSE IF EnvDisks(e.proc) # <<>> THEN [by |-> "process", list |-> EnvDisks(e.proc)]
        ELSE IF EnvDisks(F) # <<>> THEN [by |-> "file", list |-> EnvDisks(F)]
        ELSE [by |-> "detected", list |-> Detect(v)]
  BY DEF Resolve, F
<1>11. /\ Resolve(v, e).list \in Seq(Path) /\ Resolve(v, e).list # <<>>
       /\ Resolve(v, e).by \in {"--disks", "--disk", "process", "file", "detected"}
       /\ cli.disks # <<>> => Resolve(v, e).list = cli.disks
       /\ cli.disks = <<>> /\ cli.disk # NoPath => Resolve(v, e).list = <<cli.disk>>
  BY <1>1, <1>7, <1>9, <1>10
<1>12. Resolve(v, e).by # "detected" =>
          Members(Resolve(v, e).list) \subseteq U
  BY <1>5, <1>6, <1>8, <1>10
<1> QED
  BY <1>11, <1>12 DEF U

----------------------------------------------------------------------------
(* Every variable keeps its type.                                          *)

LEMMA InitType == Init => TypeOK
<1> SUFFICES ASSUME Init PROVE TypeOK
  OBVIOUS
<1>1. typed \in CommandLine /\ world \in Machine
  BY InputAssumption DEF Init
<1>2. present \subseteq Disk /\ plugs \in 0 .. MaxPlugs /\ journal \in BOOLEAN
  BY <1>1, InputAssumption DEF Init, Machine
<1>3. plan \in [variant: Variants \cup {"none"}, targets: Seq(Path),
                by: {"none", "--disks", "--disk", "process", "file", "detected"},
                key: Keys, tpm: {"off", "optional", "required"}]
  BY DEF Init, NoPlan, Keys
<1> QED
  BY <1>1, <1>2, <1>3 DEF Init, TypeOK, Over

\* Naming other disks leaves a command line a command line.
LEMMA ChooseType ==
    ASSUME TypeOK, NEW l \in Seq(Path), NEW p \in Path \cup {NoPath}, Choose(l, p)
    PROVE  cli' \in CommandLine
  BY DEF TypeOK, Choose, CommandLine

LEMMA RecognisedPlanned ==
    TypeOK => Planned(cli) \subseteq Path
<1> SUFFICES ASSUME TypeOK PROVE Planned(cli) \subseteq Path
  OBVIOUS
<1>1. cli.disks \in Seq(Path) /\ cli.disk \in Path \cup {NoPath}
  BY DEF TypeOK, CommandLine
<1>2. Members(cli.disks) \subseteq Path
  BY <1>1 DEF Members
<1>3. Members(FirstOf(<<Node(Sda), Node(Vda)>>)) \subseteq Path
  <2>1. ASSUME NEW i \in {1, 2}
        PROVE  Members(<< <<Node(Sda), Node(Vda)>>[i] >>) \subseteq Path
    BY NodePaths DEF Members
  <2> DEFINE l == <<Node(Sda), Node(Vda)>>
             Good(i) == /\ l[i].of \in present
                        /\ \A j \in 1 .. i - 1 : l[j].of \notin present
  <2>2. DOMAIN l = {1, 2}
    OBVIOUS
  <2>3. CASE \E i \in DOMAIN l : l[i].of \in present
    <3>1. \E i \in DOMAIN l : Good(i)
      BY <2>2, <2>3
    <3>2. PICK i \in DOMAIN l : i = (CHOOSE j \in DOMAIN l : Good(j))
      BY <3>1
    <3>3. FirstOf(l) = <<l[i]>>
      BY <2>3, <3>2 DEF FirstOf
    <3> QED BY <2>1, <2>2, <3>3
  <2>4. CASE ~ \E i \in DOMAIN l : l[i].of \in present
    <3>1. FirstOf(l) = <<>>
      BY <2>4 DEF FirstOf
    <3> QED BY <3>1 DEF Members
  <2> QED BY <2>3, <2>4
<1>4. \A d \in {Nvme0, Nvme1} : Node(d) \in Path
  BY NodePaths
<1> QED
  BY <1>1, <1>2, <1>3, <1>4 DEF Planned

LEMMA StepType == TypeOK /\ [Next]_vars => TypeOK'
<1> SUFFICES ASSUME TypeOK, [Next]_vars PROVE TypeOK'
  OBVIOUS
<1> USE DEF Over
<1>0. cli \in CommandLine /\ world \in Machine
  BY InputAssumption DEF TypeOK
<1>r. ASSUME Refuse PROVE TypeOK'
  BY <1>r DEF Refuse, machine, TypeOK
<1>1. CASE AskVariant
  <2>1. CASE Refuse
    BY <1>r, <2>1
  <2>2. CASE ~Refuse
    <3>1. cli' \in CommandLine
      BY <1>0, <1>1, <2>2 DEF AskVariant, CommandLine, Variants
    <3> QED
      BY <1>1, <2>2, <3>1 DEF AskVariant, Answer, machine, TypeOK
  <2> QED BY <2>1, <2>2
<1>2. CASE AskDisks
  <2>1. cli' \in CommandLine
    <3>1. <<Node(Nvme0), Node(Nvme1)>> \in Seq(Path) /\ <<>> \in Seq(Path)
      BY NodePaths
    <3>2. \/ cli' = cli
          \/ Choose(<<Node(Nvme0), Node(Nvme1)>>, NoPath)
          \/ \E p \in Path : Choose(<<>>, p)
      BY <1>2 DEF AskDisks
    <3> QED
      BY <1>0, <3>1, <3>2, ChooseType
  <2> QED
    BY <1>2, <2>1 DEF AskDisks, Answer, machine, TypeOK
<1>3. CASE Probe
  <2>1. CASE Refuse
    BY <1>r, <2>1
  <2>2. CASE ~Refuse
    BY <1>3, <2>2, RecognisedPlanned DEF Probe, Answer, machine, TypeOK
  <2> QED BY <2>1, <2>2
<1>4. CASE AskKey
  <2>1. CASE Refuse
    BY <1>r, <2>1
  <2>2. CASE ~Refuse
    <3>1. cli' \in CommandLine
      BY <1>0, <1>4, <2>2 DEF AskKey, CommandLine, Keys
    <3> QED
      BY <1>4, <2>2, <3>1 DEF AskKey, Answer, machine, TypeOK
  <2> QED BY <2>1, <2>2
<1>5. CASE Check
  BY <1>5, <1>r DEF Check, machine, TypeOK
<1>6. CASE Confirm
  BY <1>6, <1>r DEF Confirm, machine, TypeOK
<1>7. ASSUME NEW e \in Envs, Load(e) PROVE TypeOK'
  <2> DEFINE v == IF cli.variant # "none" THEN cli.variant ELSE e.variant
             r == Resolve(v, e)
             new == [variant |-> v, targets |-> Targets(v, r.list), by |-> r.by,
                     key |-> Key(e), tpm |-> Tpm(e)]
             Plans == [variant: Variants \cup {"none"}, targets: Seq(Path),
                       by: {"none", "--disks", "--disk", "process", "file", "detected"},
                       key: Keys, tpm: {"off", "optional", "required"}]
  <2>1. v \in Variants /\ e.key \in Keys
    BY <1>0, InputAssumption DEF CommandLine, Environment, Keys
  <2>2. r.list \in Seq(Path) /\ r.list # <<>>
        /\ r.by \in {"--disks", "--disk", "process", "file", "detected"}
    BY <1>0, <2>1, ResolveFrom
  <2>3. Targets(v, r.list) \in Seq(Path)
    BY <2>1, <2>2, TargetsOfList
  <2>4. Key(e) \in Keys /\ Tpm(e) \in {"off", "optional", "required"}
    BY <1>0, <2>1 DEF Key, Tpm, CommandLine, Keys
  <2>5. new \in Plans
    BY <2>1, <2>2, <2>3, <2>4
  <2>6. plan' = new \/ plan' = plan
    BY <1>7 DEF Load
  <2>7. plan' \in Plans
    BY <2>5, <2>6 DEF TypeOK
  <2>8. env' \in Envs /\ journal' \in BOOLEAN /\ step' \in {"check", "refused"}
    BY <1>0, <1>7 DEF Load, TypeOK, CommandLine
  <2>9. UNCHANGED <<world, present, plugs, typed, cli, looked, hits, nuked, confirmed>>
    BY <1>7 DEF Load, machine
  <2> HIDE DEF Plans
  <2> QED
    BY <2>7, <2>8, <2>9 DEF TypeOK, Plans
<1>8. ASSUME NEW d \in Loose, Plug(d) PROVE TypeOK'
  BY <1>8, InputAssumption DEF Plug, TypeOK
<1>9. CASE UNCHANGED vars
  BY <1>9 DEF vars, TypeOK
<1> QED
  BY <1>1, <1>2, <1>3, <1>4, <1>5, <1>6, <1>7, <1>8, <1>9 DEF Next

\* The program's variables keep their types, for every machine and input.
THEOREM TypeCorrect == Spec => []TypeOK
<1>1. Init => TypeOK
  BY InitType
<1>2. TypeOK /\ [Next]_vars => TypeOK'
  BY StepType
<1> QED
  BY <1>1, <1>2, PTL DEF Spec

----------------------------------------------------------------------------
(* The inductive invariant.                                                *)

\* Steps that leave the command line, the environments and the plan alone leave
\* alone what they say.
LEMMA SameNames ==
    /\ UNCHANGED cli => /\ Members(cli.disks)' = Members(cli.disks)
                        /\ Readable(cli.disks)' = Readable(cli.disks)
    /\ UNCHANGED <<cli, env>> => Named(cli, env)' = Named(cli, env)
    /\ UNCHANGED plan => Wiped' = Wiped
  BY DEF Members, Readable, Named, Wiped

LEMMA InitInv == Init => Inv
<1> SUFFICES ASSUME Init PROVE Inv
  OBVIOUS
<1>1. TypeOK
  BY InitType
<1>2. Asked
  BY DEF Init, Asked, Probed, Loaded
<1>3. Looked /\ Resolved /\ Journalled /\ Checked /\ Agreed
  BY DEF Init, Looked, Resolved, Journalled, Checked, Agreed, Probed, Loaded
<1> QED
  BY <1>1, <1>2, <1>3 DEF Inv

LEMMA AskedStep ==
    ASSUME Inv, [Next]_vars PROVE Asked'
<1> USE DEF Inv, Probed, Loaded, machine
<1>0. Guided' = Guided
  BY DEF Next, Guided, vars, AskVariant, AskDisks, Probe, AskKey, Check, Confirm,
         Load, Plug, Answer, Refuse
<1>r. ASSUME Refuse PROVE Asked'
  BY <1>r DEF Refuse, Asked, Guided
<1>1. CASE AskVariant
  <2>1. CASE Refuse
    BY <1>r, <2>1
  <2>2. CASE ~Refuse
    <3>1. cli' = [cli EXCEPT !.variant = cli'.variant] /\ cli'.variant \in Variants
      BY <1>1, <2>2 DEF AskVariant, TypeOK, CommandLine, Variants
    <3>2. /\ cli'.disks = cli.disks /\ cli'.disk = cli.disk
          /\ cli'.yes = cli.yes /\ cli'.fresh = cli.fresh
      BY <3>1 DEF TypeOK, CommandLine
    <3>3. step = "variant" /\ step' = "disks" /\ typed' = typed
      BY <1>1, <2>2 DEF AskVariant, Answer
    <3> QED
      BY <1>0, <3>1, <3>2, <3>3 DEF Asked
  <2> QED BY <2>1, <2>2
<1>2. CASE AskDisks
  <2>1. step = "disks" /\ step' = "probe" /\ typed' = typed
    BY <1>2 DEF AskDisks, Answer
  <2>2. CASE UNCHANGED cli /\ (cli.disks # <<>> \/ cli.disk # NoPath)
    BY <1>0, <2>1, <2>2 DEF Asked
  <2>3. CASE /\ IF cli.variant = "server" THEN cli.disks = <<>> /\ cli.disk = NoPath
                                          ELSE cli.disk = NoPath
             /\ \E l \in Seq(Path), p \in Path \cup {NoPath} :
                   Choose(l, p) /\ (l # <<>> \/ p # NoPath)
    <3>1. PICK l \in Seq(Path), p \in Path \cup {NoPath} :
              Choose(l, p) /\ (l # <<>> \/ p # NoPath)
      BY <2>3
    <3>2. /\ cli'.disks = l /\ cli'.disk = p /\ cli'.variant = cli.variant
          /\ cli'.yes = cli.yes /\ cli'.fresh = cli.fresh
      BY <3>1 DEF Choose, TypeOK, CommandLine
    <3> QED
      BY <1>0, <2>1, <2>3, <3>1, <3>2 DEF Asked, Variants
  <2>4. <<Node(Nvme0), Node(Nvme1)>> \in Seq(Path) /\ <<>> \in Seq(Path)
        /\ \A p \in Path : p # NoPath
    BY NodePaths
  <2> QED
    BY <1>2, <2>2, <2>3, <2>4 DEF AskDisks, Asked
<1>3. CASE Probe
  BY <1>0, <1>3, <1>r DEF Probe, Answer, Asked
<1>4. CASE AskKey
  <2>1. CASE Refuse
    BY <1>r, <2>1
  <2>2. CASE ~Refuse
    <3>1. /\ cli'.disks = cli.disks /\ cli'.disk = cli.disk /\ cli'.variant = cli.variant
          /\ cli'.yes = cli.yes /\ cli'.fresh = cli.fresh
      BY <1>4, <2>2 DEF AskKey, TypeOK, CommandLine
    <3>2. step = "key" /\ step' = "load" /\ typed' = typed
      BY <1>4, <2>2 DEF AskKey, Answer
    <3> QED
      BY <1>0, <3>1, <3>2 DEF Asked
  <2> QED BY <2>1, <2>2
<1>5. CASE Check
  BY <1>0, <1>5, <1>r DEF Check, Asked
<1>6. CASE Confirm
  BY <1>0, <1>6, <1>r DEF Confirm, Asked
<1>7. ASSUME NEW e \in Envs, Load(e) PROVE Asked'
  BY <1>0, <1>7 DEF Load, Asked
<1>8. ASSUME NEW d \in Loose, Plug(d) PROVE Asked'
  BY <1>0, <1>8 DEF Plug, Asked
<1>9. CASE UNCHANGED vars
  BY <1>0, <1>9 DEF vars, Asked
<1> QED
  BY <1>1, <1>2, <1>3, <1>4, <1>5, <1>6, <1>7, <1>8, <1>9 DEF Next

\* The probe sees what the command line names when the guide is through with
\* the disks, and nothing later in the guide changes that.
LEMMA LookedStep ==
    ASSUME Inv, [Next]_vars PROVE Looked'
<1> USE DEF Inv, Probed, Loaded, machine
<1>0. Guided' = Guided
  BY DEF Next, Guided, vars, AskVariant, AskDisks, Probe, AskKey, Check, Confirm,
         Load, Plug, Answer, Refuse
<1>r. ASSUME Refuse PROVE Looked'
  BY <1>r DEF Refuse, Looked
<1>s. ASSUME UNCHANGED <<world, present, plugs, looked, nuked>>,
             cli'.disks = cli.disks, cli'.disk = cli.disk, step \in Probed
      PROVE  Looked'
  BY <1>0, <1>s DEF Looked, Recognised, Exists
<1>1. CASE AskVariant
  BY <1>1, <1>r DEF AskVariant, Answer, Looked
<1>2. CASE AskDisks
  BY <1>2 DEF AskDisks, Answer, Looked
<1>3. CASE Probe
  <2>1. CASE Refuse
    BY <1>r, <2>1
  <2>2. CASE ~Refuse
    <3>1. /\ looked' = Planned(cli) /\ UNCHANGED <<world, present, cli>>
          /\ nuked' = ({p \in Planned(cli) : Recognised(p, Planned(cli))} # {})
          /\ step = "probe"
      BY <1>3, <2>2 DEF Probe, Answer
    <3>2. Guided => /\ cli.disks # <<>> /\ Readable(cli.disks) => Planned(cli) = Members(cli.disks)
                    /\ cli.disks = <<>> => Planned(cli) = {cli.disk}
      BY <3>1 DEF Planned, Asked
    <3>3. \A p \in looked' : Recognised(p, looked)' => nuked'
      BY <3>1 DEF Recognised, Exists
    <3> QED
      BY <1>0, <3>1, <3>2, <3>3 DEF Looked, Readable, Members
  <2> QED BY <2>1, <2>2
<1>4. CASE AskKey
  <2>1. CASE Refuse
    BY <1>r, <2>1
  <2>2. CASE ~Refuse
    <3>1. cli'.disks = cli.disks /\ cli'.disk = cli.disk
      BY <1>4, <2>2 DEF AskKey, TypeOK, CommandLine
    <3> QED
      BY <1>4, <1>s, <2>2, <3>1 DEF AskKey, Answer
  <2> QED BY <2>1, <2>2
<1>5. CASE Check
  BY <1>5, <1>r, <1>s DEF Check
<1>6. CASE Confirm
  BY <1>6, <1>r, <1>s DEF Confirm
<1>7. ASSUME NEW e \in Envs, Load(e) PROVE Looked'
  BY <1>7, <1>s DEF Load
<1>8. ASSUME NEW d \in Loose, Plug(d) PROVE Looked'
  <2>1. plugs' # 0
    BY <1>8, InputAssumption DEF Plug, TypeOK
  <2> QED
    BY <1>0, <1>8, <2>1 DEF Plug, Looked, Readable, Members
<1>9. CASE UNCHANGED vars
  BY <1>0, <1>9 DEF vars, Looked, Recognised, Exists, Readable, Members
<1> QED
  BY <1>1, <1>2, <1>3, <1>4, <1>5, <1>6, <1>7, <1>8, <1>9 DEF Next

\* The plan is what the command line, or else the environments, say.
LEMMA ResolvedStep ==
    ASSUME Inv, [Next]_vars PROVE Resolved'
<1> USE DEF Inv, Loaded, machine
<1>r. ASSUME Refuse PROVE Resolved'
  BY <1>r DEF Refuse, Resolved
<1>s. ASSUME UNCHANGED <<world, typed, cli, env, plan, journal>>, step \in Loaded
      PROVE  Resolved'
  BY <1>s, SameNames DEF Resolved
<1>1. CASE AskVariant
  BY <1>1, <1>r DEF AskVariant, Answer, Resolved
<1>2. CASE AskDisks
  BY <1>2 DEF AskDisks, Answer, Resolved
<1>3. CASE Probe
  BY <1>3, <1>r DEF Probe, Answer, Resolved
<1>4. CASE AskKey
  BY <1>4, <1>r DEF AskKey, Answer, Resolved
<1>5. CASE Check
  BY <1>5, <1>r, <1>s DEF Check
<1>6. CASE Confirm
  BY <1>6, <1>r, <1>s DEF Confirm
<1>7. ASSUME NEW e \in Envs, Load(e) PROVE Resolved'
  <2> DEFINE v == IF cli.variant # "none" THEN cli.variant ELSE e.variant
             r == Resolve(v, e)
  <2>1. CASE step' = "refused"
    BY <2>1 DEF Resolved
  <2>2. CASE step' # "refused"
    <3>1. /\ Loadable(v, r, e) /\ UNCHANGED <<world, typed, cli>> /\ env' = e
          /\ plan' = [variant |-> v, targets |-> Targets(v, r.list), by |-> r.by,
                      key |-> Key(e), tpm |-> Tpm(e)]
          /\ journal' = (journal /\ ~cli.fresh)
      BY <1>7, <2>2 DEF Load
    <3>2. v \in Variants /\ cli \in CommandLine
      BY InputAssumption DEF CommandLine, Environment, TypeOK
    <3>3. /\ r.list \in Seq(Path) /\ r.list # <<>>
          /\ cli.disks # <<>> => r.list = cli.disks
          /\ cli.disks = <<>> /\ cli.disk # NoPath => r.list = <<cli.disk>>
          /\ r.by # "detected" =>
                Members(r.list) \subseteq Named(cli, e)
      BY <3>2, ResolveFrom
    <3>4. /\ Len(Targets(v, r.list)) \in {1, 2}
          /\ v = "desktop" => Len(Targets(v, r.list)) = 1
          /\ Members(Targets(v, r.list)) # {}
          /\ Members(Targets(v, r.list)) \subseteq Members(r.list)
          /\ Len(Targets(v, r.list)) = 2 => Targets(v, r.list)[1] # Targets(v, r.list)[2]
      BY <3>2, <3>3, TargetsOfList
    <3>5. /\ plan'.variant = v /\ plan'.targets = Targets(v, r.list) /\ plan'.key = Key(e)
          /\ cli' = cli /\ typed' = typed /\ world' = world
      BY <3>1
    <3>6. /\ Wiped' = Members(Targets(v, r.list))
          /\ Members(cli.disks)' = Members(cli.disks) /\ Readable(cli.disks)' = Readable(cli.disks)
      BY <3>5 DEF Wiped, Members, Readable
    <3>7. /\ v \in Variants /\ (cli.variant # "none" => v = cli.variant)
          /\ cli.disks # <<>> => Readable(cli.disks) /\ Wiped' \subseteq Members(cli.disks)
      BY <3>1, <3>2, <3>3, <3>4, <3>6 DEF Loadable
    <3>8. ASSUME cli.disks = <<>>, cli.disk # NoPath PROVE plan'.targets = <<cli.disk>>
      <4>1. r.list = <<cli.disk>> /\ Members(r.list) = {cli.disk}
        BY <3>3, <3>8 DEF Members
      <4> QED
        BY <3>5, <4>1 DEF Targets
    <3>9. cli.yes => Wiped' \subseteq Named(cli, e)
      BY <3>1, <3>3, <3>4, <3>6 DEF Loadable
    <3>10. Named(cli, env)' = Named(cli, e)
      BY <3>1 DEF Named, Members
    <3>11. Key(e) # "junk" /\ (journal' => ~typed.fresh)
      BY <3>1 DEF Loadable, Asked
    <3> QED
      BY <3>4, <3>5, <3>6, <3>7, <3>8, <3>9, <3>10, <3>11 DEF Resolved
  <2> QED BY <2>1, <2>2
<1>8. ASSUME NEW d \in Loose, Plug(d) PROVE Resolved'
  BY <1>8, SameNames DEF Plug, Resolved
<1>9. CASE UNCHANGED vars
  BY <1>9, SameNames DEF vars, Resolved
<1> QED
  BY <1>1, <1>2, <1>3, <1>4, <1>5, <1>6, <1>7, <1>8, <1>9 DEF Next

\* The journal only ever loses entries; what the last two gates found stays
\* true of the machine they saw.
LEMMA GatesStep ==
    ASSUME Inv, [Next]_vars PROVE Journalled' /\ Checked' /\ Agreed'
<1> USE DEF Inv, machine
<1>r. ASSUME Refuse PROVE Journalled' /\ Checked' /\ Agreed'
  BY <1>r DEF Refuse, Journalled, Checked, Agreed
<1>1. CASE AskVariant
  BY <1>1, <1>r DEF AskVariant, Answer, Journalled, Checked, Agreed
<1>2. CASE AskDisks
  BY <1>2 DEF AskDisks, Answer, Journalled, Checked, Agreed
<1>3. CASE Probe
  BY <1>3, <1>r DEF Probe, Answer, Journalled, Checked, Agreed
<1>4. CASE AskKey
  BY <1>4, <1>r DEF AskKey, Answer, Journalled, Checked, Agreed
<1>5. CASE Check
  <2>1. CASE Refuse
    BY <1>r, <2>1
  <2>2. CASE ~Refuse
    <3>1. /\ Armed /\ \A i \in DOMAIN plan.targets : Valid(plan.targets[i])
          /\ UNCHANGED <<world, present, plugs, plan, journal, cli, confirmed>>
          /\ step' = "confirm"
      BY <1>5, <2>2 DEF Check
    <3>2. \A t \in Wiped : Exists(t) /\ t.kind # "part" /\ t # Node(world.live)
      BY <3>1 DEF Valid, Wiped, Members
    <3>3. Checked'
      BY <3>1, <3>2, SameNames DEF Armed, Checked, Exists
    <3> QED BY <3>1, <3>3 DEF Journalled, Agreed
  <2> QED BY <2>1, <2>2
<1>6. CASE Confirm
  <2>1. CASE Refuse
    BY <1>r, <2>1
  <2>2. CASE ~Refuse
    <3>1. /\ confirmed' <=> ~(journal \/ cli.yes)
          /\ step = "confirm" /\ step' = "wiping"
          /\ UNCHANGED <<world, present, plugs, cli, plan, journal>>
      BY <1>6, <2>2, Zenon DEF Confirm, Refuse
    <3>2. Agreed' /\ Journalled'
      BY <3>1, Zenon DEF Agreed, Journalled
    <3>3. Checked'
      BY <3>1, SameNames DEF Checked, Exists
    <3> QED BY <3>2, <3>3
  <2> QED BY <2>1, <2>2
<1>7. ASSUME NEW e \in Envs, Load(e) PROVE Journalled' /\ Checked' /\ Agreed'
  BY <1>7 DEF Load, Journalled, Checked, Agreed
<1>8. ASSUME NEW d \in Loose, Plug(d) PROVE Journalled' /\ Checked' /\ Agreed'
  <2>1. plugs' # 0
    BY <1>8, InputAssumption DEF Plug, TypeOK
  <2> QED
    BY <1>8, <2>1, SameNames DEF Plug, Journalled, Checked, Agreed, Over
<1>9. CASE UNCHANGED vars
  BY <1>9, SameNames DEF vars, Journalled, Checked, Agreed, Exists
<1> QED
  BY <1>1, <1>2, <1>3, <1>4, <1>5, <1>6, <1>7, <1>8, <1>9 DEF Next

\* Inv is inductive.
LEMMA StepInv == Inv /\ [Next]_vars => Inv'
  BY StepType, AskedStep, LookedStep, ResolvedStep, GatesStep DEF Inv

LEMMA InvHolds == Spec => []Inv
  BY InitInv, StepInv, PTL DEF Spec

----------------------------------------------------------------------------
(* What the checks and the wipe rely on.                                   *)

\* A typed flag decides what is wiped, whatever the environments say.
THEOREM FlagsWin == Spec => []TypedDisksObeyed
<1>1. Inv => TypedDisksObeyed
  <2> SUFFICES ASSUME Inv, step = "wiping" PROVE TypedDisksObeyed
    BY DEF TypedDisksObeyed
  <2>1. cli.variant # "none" => plan.variant = cli.variant
    BY DEF Inv, Resolved, Loaded
  <2>2. Guided => cli.variant = plan.variant
    BY <2>1 DEF Inv, Asked, Variants
  <2> QED
    BY <2>2 DEF Inv, Asked, Resolved, Loaded, TypedDisksObeyed
<1> QED
  BY <1>1, InvHolds, PTL

\* --yes never wipes a disk that was only detected.
THEOREM BatchIsNamed == Spec => []BatchNamed
<1>1. Inv => BatchNamed
  <2> SUFFICES ASSUME Inv, step = "wiping", typed.yes, NEW t \in Wiped
               PROVE  \/ t \in Members(typed.disks) \cup {typed.disk}
                      \/ \E e \in {env.proc, env.base, env.server} :
                            t \in Members(e.disks) \cup {e.disk}
    BY DEF BatchNamed
  <2>1. ~Guided /\ cli.yes
    BY DEF Guided, Inv, Asked
  <2>2. cli.disks = typed.disks /\ cli.disk = typed.disk
    BY <2>1 DEF Inv, Asked
  <2>3. t \in Named(cli, env)
    BY <2>1 DEF Inv, Resolved, Loaded
  <2> QED
    BY <2>2, <2>3 DEF Named
<1> QED
  BY <1>1, InvHolds, PTL

\* The guide's question about data was asked of every disk that is wiped.
THEOREM ProbeCoversWipe == Spec => []NukeCoversTargets
<1>1. Inv => NukeCoversTargets
  <2> SUFFICES ASSUME Inv, step = "wiping", Guided, NEW t \in Wiped
               PROVE  /\ t \in looked
                      /\ plugs = 0 /\ Kernel(t) /\ world.content[t.of] = "known" => nuked
    BY DEF NukeCoversTargets
  <2>1. t \in looked
    <3>1. CASE cli.disks # <<>>
      BY <3>1 DEF Inv, Resolved, Looked, Loaded, Probed
    <3>2. CASE cli.disks = <<>>
      <4>1. cli.disk # NoPath /\ looked = {cli.disk}
        BY <3>2 DEF Inv, Asked, Looked, Loaded, Probed
      <4>2. Wiped = {cli.disk}
        BY <3>2, <4>1 DEF Inv, Resolved, Loaded, Wiped, Members
      <4> QED BY <4>1, <4>2
    <3> QED BY <3>1, <3>2
  <2>2. ASSUME plugs = 0, Kernel(t), world.content[t.of] = "known" PROVE nuked
    <3>1. Exists(t)
      BY <2>2 DEF Inv, Checked
    <3>2. Recognised(t, looked)
      BY <2>1, <2>2, <3>1 DEF Recognised
    <3> QED
      BY <2>1, <2>2, <3>2 DEF Inv, Looked, Loaded, Probed
  <2> QED BY <2>1, <2>2
<1> QED
  BY <1>1, InvHolds, PTL

\* Somebody agreed to the wipe.
THEOREM WipeIsAgreed == Spec => []SomebodyAgreed
<1>1. Inv => SomebodyAgreed
  BY DEF Inv, Asked, Agreed, Journalled, Resolved, Loaded, SomebodyAgreed
<1> QED
  BY <1>1, InvHolds, PTL

LEMMA PairSize == \A x, y : x # y => Cardinality({x, y}) = 2
<1> SUFFICES ASSUME NEW x, NEW y, x # y PROVE Cardinality({x, y}) = 2
  OBVIOUS
<1>1. IsFiniteSet({x}) /\ Cardinality({x}) = 1
  BY FS_Singleton
<1>2. Cardinality({x} \cup {y}) = Cardinality({x}) + 1
  BY <1>1, FS_AddElement
<1>3. {x, y} = {x} \cup {y}
  OBVIOUS
<1> QED BY <1>1, <1>2, <1>3

\* The phases start from a request of the kind InstallPipeline assumes.
THEOREM RequestAccepted == Spec => []AcceptedIsRequest
<1>1. Inv => AcceptedIsRequest
  <2> SUFFICES ASSUME Inv, step = "wiping", \A t \in Wiped : Kernel(t)
               PROVE  /\ Cardinality({t.of : t \in Wiped}) = Len(plan.targets)
                      /\ Len(plan.targets) \in {1, 2} /\ (plan.variant = "desktop" => Len(plan.targets) = 1)
                      /\ \A t \in Wiped : t.kind = "node" /\ t.of # world.live
                      /\ plan.variant = "server" => plan.key \in {"baked", "found", "file"}
    BY DEF AcceptedIsRequest
  <2>0. plan.targets \in Seq(Path) /\ Wiped \subseteq Path
    BY DEF Inv, TypeOK, Wiped, Members
  <2>1. Len(plan.targets) \in {1, 2} /\ (plan.variant = "desktop" => Len(plan.targets) = 1)
    BY DEF Inv, Resolved, Loaded
  <2>2. \A t \in Wiped : t.kind = "node" /\ t = Node(t.of) /\ t.of # world.live
    <3>1. \A t \in Wiped : t.kind = "node" /\ t # Node(world.live)
      BY DEF Inv, Checked, Kernel
    <3>2. \A t \in Wiped : t = Node(t.of)
      BY <2>0, <3>1, NodePaths DEF Node
    <3> QED BY <3>1, <3>2
  <2>3. plan.variant = "server" => plan.key \in {"baked", "found", "file"}
    BY DEF Inv, TypeOK, Checked, Resolved, Loaded, Keys
  <2> DEFINE disks == {t.of : t \in Wiped}
  <2>4. Len(plan.targets) = 1 => \E a : disks = {a}
    <3> SUFFICES ASSUME Len(plan.targets) = 1 PROVE disks = {plan.targets[1].of}
      OBVIOUS
    <3> QED
      BY <2>0 DEF Wiped, Members
  <2>5. Len(plan.targets) = 2 => \E a, b : disks = {a, b} /\ a # b
    <3> SUFFICES ASSUME Len(plan.targets) = 2
                 PROVE  \E a, b : disks = {a, b} /\ a # b
      OBVIOUS
    <3> DEFINE p == plan.targets[1]
               q == plan.targets[2]
    <3>1. Wiped = {p, q}
      BY <2>0 DEF Wiped, Members
    <3>2. p # q
      BY DEF Inv, Resolved, Loaded
    <3>3. disks = {p.of, q.of} /\ p.of # q.of
      BY <2>2, <3>1, <3>2
    <3> QED BY <3>3, Zenon
  <2> HIDE DEF disks
  <2>6. Cardinality(disks) = Len(plan.targets)
    <3>1. Len(plan.targets) = 1 \/ Len(plan.targets) = 2
      BY <2>1
    <3>2. ASSUME Len(plan.targets) = 1 PROVE Cardinality(disks) = 1
      BY <2>4, <3>2, FS_Singleton
    <3>3. ASSUME Len(plan.targets) = 2 PROVE Cardinality(disks) = 2
      BY <2>5, <3>3, PairSize, Zenon
    <3> QED BY <3>1, <3>2, <3>3, Zenon
  <2> QED BY <2>1, <2>2, <2>3, <2>6 DEF disks
<1> QED
  BY <1>1, InvHolds, PTL

=============================================================================
