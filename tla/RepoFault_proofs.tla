-------------------------- MODULE RepoFault_proofs --------------------------
(***************************************************************************)
(* Theorems about RepoPublish when things do go wrong: a lone publisher's  *)
(* runs are killed at any moment, as often as it may be, or CI's reads of  *)
(* the published database bring an old one or none.  RepoRelease_proofs    *)
(* has what holds only while nothing fails.                                *)
(***************************************************************************)
EXTENDS RepoRelease_proofs

\* The database a run reads to learn what is published.
Tar == dbs[DbFile.tar]

----------------------------------------------------------------------------
(* What a lone publisher knows of its own run whatever fails, as long as   *)
(* what it concludes from the published database is right (Trust).         *)

\* A kernel version has one content; a signature in staging is of the file
\* beside it.
StageInv(p) ==
    /\ \A v \in Versions : /\ pkgs[<<Kernel, v>>] \in {0, v} /\ sigs[<<Kernel, v>>] \in {0, v}
                           /\ staging[p].pkg[<<Kernel, v>>] \in {0, v}
    /\ \A f \in Files : staging[p].sig[f] \in {0, staging[p].pkg[f]}

\* What the run has uploaded is there, until the first database file is.
QueueInv(p) ==
    LET s == staging[p] IN
    /\ Putting(p) => run[p].cur \in Indexed(s.db)
    /\ run[p].pc \in Uploading => run[p].left \subseteq Indexed(s.db)
    /\ run[p].pc = "package" => run[p].seen[run[p].cur] # s.db[run[p].cur]
    /\ run[p].pc = "signature" => pkgs[Current(p)] = s.db[run[p].cur].sum
    /\ run[p].pc \in Uploading =>
           \A n \in Indexed(s.db) \ run[p].left :
               Uploaded(p, n) \/ (Putting(p) /\ n = run[p].cur)
    /\ run[p].pc = "databases" => \A n \in Indexed(s.db) : Uploaded(p, n)

BaseInv(p) == StageInv(p) /\ IndexInv(p) /\ QueueInv(p)

\* A known version is on the Release with a signature of its own bytes, a
\* package skipped in the upload is there already.
Trust(p) ==
    /\ run[p].pc = "build" => \A f \in run[p].known : sigs[f] \in {0, pkgs[f]}
    /\ run[p].pc = "packages" => \A n \in run[p].left :
           run[p].seen[n] = staging[p].db[n]
              => pkgs[FileOf(staging[p].db, n)] = staging[p].db[n].sum

LoneState(p) == Publishers = {p} /\ TypeOK

LEMMA LoneTypes ==
    ASSUME NEW p, LoneState(p)
    PROVE  /\ p \in Publishers /\ staging[p] \in Staging /\ staging[p].db \in Db
           /\ run[p] \in Run /\ Tar \in Db /\ cdn[DbFile.tar] \in Db
           /\ Live \in Db /\ cdn[DbFile.db] \in Db
           /\ run \in [Publishers -> Run] /\ staging \in [Publishers -> Staging]
           /\ staging[p].pkg \in [Files -> Nat] /\ staging[p].sig \in [Files -> Nat]
           /\ pkgs \in [Files -> Nat] /\ sigs \in [Files -> Nat]
           /\ dbs \in [DbFiles -> Db] /\ cdn \in [DbFiles -> Db]
           /\ DbFile.db \in DbFiles /\ DbFile.tar \in DbFiles
  <1>1. p \in Publishers
    BY DEF LoneState
  <1>2. DbFile.db \in DbFiles /\ DbFile.tar \in DbFiles
    BY CalmDbFile
  <1>3. QED
    BY <1>1, <1>2 DEF LoneState, TypeOK, Staging, Tar, Live

\* The file under way, as the index has it.
LEMMA LoneCurrent ==
    ASSUME NEW p, LoneState(p), BaseInv(p), Putting(p)
    PROVE  /\ run[p].cur \in Indexed(staging[p].db) /\ run[p].cur \in Names
           /\ Current(p) \in Files /\ Current(p)[1] = run[p].cur
           /\ Current(p)[2] = staging[p].db[run[p].cur].ver
           /\ staging[p].pkg[Current(p)] = staging[p].db[run[p].cur].sum
           /\ staging[p].sig[Current(p)] = staging[p].db[run[p].cur].sum
           /\ staging[p].db[run[p].cur].sum # 0
           /\ \A n \in Indexed(staging[p].db) :
                 n # run[p].cur => FileOf(staging[p].db, n) # Current(p)
  <1>1. staging[p].db \in Db /\ run[p].cur \in Indexed(staging[p].db)
    BY LoneTypes DEF BaseInv, QueueInv
  <1>2. QED
    BY <1>1, DbFacts DEF BaseInv, IndexInv, Current, Putting, Uploading

LEMMA BaseInit == ASSUME NEW p, Publishers = {p}, Init PROVE BaseInv(p)
  <1>1. run[p].pc = "idle" /\ staging[p] = EmptyStaging
    BY DEF Init, Idle
  <1>2. PICK published \in BOOLEAN :
          LET Here(f) == f[2] = 1 /\ (published \/ f[1] = Kernel)
          IN  /\ pkgs = [f \in Files |-> IF Here(f) THEN FirstDb[f[1]].sum ELSE 0]
              /\ sigs = [f \in Files |->
                           IF Here(f) /\ published THEN FirstDb[f[1]].sum ELSE 0]
    BY DEF Init
  <1>3. FirstDb[Kernel].sum = 1
    BY NameType DEF FirstDb
  <1>4. StageInv(p)
    BY <1>1, <1>2, <1>3, NameType DEF StageInv, EmptyStaging, NoFiles
  <1>5. IndexInv(p) /\ QueueInv(p)
    BY <1>1 DEF IndexInv, QueueInv, Uploading, Shipped, Putting
  <1>6. QED
    BY <1>4, <1>5 DEF BaseInv

\* A step after which the run is at rest or still filling its staging.
LEMMA BaseAtRest ==
    ASSUME NEW p, run'[p].pc \in Early
    PROVE  IndexInv(p)' /\ QueueInv(p)'
  BY DEF Early, IndexInv, QueueInv, Uploading, Shipped, Putting

----------------------------------------------------------------------------
(* What the steps do, once for the invariants below.                       *)

\* How a step may change one staged file: not at all; the kernel pulled from
\* the Release, or staged by hand; an empty checkout; a known version pulled, an
\* unknown one built.
Fills(p, f) ==
    LET pkg == staging'[p].pkg[f]
        sig == staging'[p].sig[f]
    IN  \/ pkg = staging[p].pkg[f] /\ sig = staging[p].sig[f]
        \/ /\ f[1] = Kernel /\ pkgs[f] # 0 /\ pkg = pkgs[f]
           /\ sig = IF sigs[f] # 0 THEN sigs[f] ELSE staging[p].sig[f]
        \/ p = "desk" /\ f[1] = Kernel /\ pkgs[f] = 0 /\ pkg = f[2] /\ sig = 0
        \/ pkg = 0 /\ sig = 0
        \/ /\ run[p].pc = "build" /\ f[1] # Kernel /\ f \in run[p].known
           /\ pkgs[f] # 0 /\ pkg = pkgs[f] /\ sig = sigs[f]
        \/ /\ run[p].pc = "build" /\ f[1] # Kernel /\ f \notin run[p].known
           /\ pkg \in BuildBytes \ InUse /\ sig = 0

EarlyStep(p) ==
    \/ Start(p) \/ PullKernel(p) \/ NoPull(p) \/ (\E v \in Versions : StageKernel(p, v))
    \/ ReadPublished(p) \/ (\E n \in Anys : BuildPackage(p, n)) \/ Abort(p)

LEMMA FillStart ==
    ASSUME NEW p, LoneState(p), Start(p) \/ Abort(p) \/ Kill(p), NEW f \in Files
    PROVE  Fills(p, f)
  <1>1. staging'[p] = staging[p] \/ staging'[p] = EmptyStaging
    BY LoneTypes DEF Start, Abort, Kill
  <1>2. EmptyStaging.pkg[f] = 0 /\ EmptyStaging.sig[f] = 0
    BY DEF EmptyStaging, NoFiles
  <1>3. QED
    BY <1>1, <1>2 DEF Fills

LEMMA FillPull ==
    ASSUME NEW p, LoneState(p), NEW f \in Files,
           PullKernel(p) \/ NoPull(p) \/ (\E v \in Versions : StageKernel(p, v))
    PROVE  /\ Fills(p, f)
           /\ p = "ci" /\ f[1] = Kernel /\ pkgs[f] # 0 => staging'[p].pkg[f] = pkgs[f]
           /\ p = "ci" => staging'[p].pkg[f] \in {staging[p].pkg[f], pkgs[f]}
  <1>1. CASE NoPull(p)
    BY <1>1 DEF NoPull, Fills
  <1>2. CASE PullKernel(p)
    <2>1. /\ staging'[p].pkg[f] = IF f[1] = Kernel /\ pkgs[f] # 0
                                  THEN pkgs[f] ELSE staging[p].pkg[f]
          /\ staging'[p].sig[f] = IF f[1] = Kernel /\ pkgs[f] # 0 /\ sigs[f] # 0
                                  THEN sigs[f] ELSE staging[p].sig[f]
      BY <1>2, LoneTypes DEF PullKernel, Staging
    <2>2. QED
      BY <2>1 DEF Fills
  <1>3. ASSUME NEW v \in Versions, StageKernel(p, v) PROVE Fills(p, f) /\ p = "desk"
    <2> DEFINE g == <<Kernel, v>>
    <2>1. /\ staging'[p].pkg = [staging[p].pkg EXCEPT ![g] = v]
          /\ staging'[p].sig = [staging[p].sig EXCEPT ![g] = 0]
      <3>1. staging' = [staging EXCEPT ![p].pkg[g] = v, ![p].sig[g] = 0]
        BY <1>3 DEF StageKernel
      <3> HIDE DEF g
      <3>2. QED
        BY <3>1, LoneTypes DEF Staging
    <2>2. p = "desk" /\ pkgs[g] = 0 /\ g[1] = Kernel /\ g[2] = v
      BY <1>3 DEF StageKernel
    <2> HIDE DEF g
    <2>3. CASE f = g
      BY <2>1, <2>2, <2>3, LoneTypes DEF Fills
    <2>4. CASE f # g
      BY <2>1, <2>2, <2>4, LoneTypes DEF Fills
    <2>5. QED
      BY <2>2, <2>3, <2>4
  <1>4. QED
    BY <1>1, <1>2, <1>3 DEF NoPull

LEMMA FillBuild ==
    ASSUME NEW p, LoneState(p), NEW n \in Anys, BuildPackage(p, n), NEW f \in Files
    PROVE  /\ Fills(p, f)
           /\ f[1] = Kernel => staging'[p].pkg[f] = staging[p].pkg[f]
  <1> DEFINE g == Wanted(p, n)
  <1>1. g \in Files /\ g[1] # Kernel /\ run[p].pc = "build"
    BY LoneTypes, CurrentType, NameAssumption DEF Wanted, BuildPackage, LoneState
  <1>2. PICK b, c : /\ staging' = [staging EXCEPT ![p].pkg[g] = b, ![p].sig[g] = c]
                    /\ \/ g \in run[p].known /\ pkgs[g] # 0 /\ b = pkgs[g] /\ c = sigs[g]
                       \/ g \notin run[p].known /\ b \in BuildBytes \ InUse /\ c = 0
    <2>1. BuildBytes \ InUse # {} => FreshBytes \in BuildBytes \ InUse
      BY DEF FreshBytes
    <2>2. QED
      BY <2>1 DEF BuildPackage, Pulls, OnRelease
  <1> HIDE DEF g
  <1>3. /\ staging'[p].pkg = [staging[p].pkg EXCEPT ![g] = b]
        /\ staging'[p].sig = [staging[p].sig EXCEPT ![g] = c]
    BY <1>2, LoneTypes DEF Staging
  <1>4. CASE f = g
    BY <1>1, <1>2, <1>3, <1>4, LoneTypes DEF Fills
  <1>5. CASE f # g
    BY <1>3, <1>5, LoneTypes DEF Fills
  <1>6. QED
    BY <1>1, <1>4, <1>5

\* Every step before Index.
LEMMA EarlyFacts ==
    ASSUME NEW p, LoneState(p), EarlyStep(p)
    PROVE  /\ UNCHANGED releaseVars
           /\ run[p].pc \in Early /\ run'[p].pc \in Early
           /\ run'[p].pos = 1 \/ run'[p].pos = run[p].pos
           /\ \A f \in Files : Fills(p, f)
           /\ run'[p].pc = "build" =>
                 \/ run[p].pc = "build" /\ run'[p].known = run[p].known
                 \/ \E r \in Reads(DbFile.tar) :
                       run'[p].known = {FileOf(r[1], n) : n \in Indexed(r[1])}
  <1> DEFINE Known == \E r \in Reads(DbFile.tar) :
                         run'[p].known = {FileOf(r[1], n) : n \in Indexed(r[1])}
  <1>1. UNCHANGED releaseVars /\ run[p].pc \in Early
    BY DEF EarlyStep, Start, PullKernel, NoPull, StageKernel, ReadPublished,
           BuildPackage, Abort, Early
  <1>2. \A f \in Files : Fills(p, f)
    <2>1. CASE ReadPublished(p)
      BY <2>1 DEF ReadPublished, Fills
    <2>2. QED
      BY <2>1, FillStart, FillPull, FillBuild DEF EarlyStep
  <1>3. CASE Start(p) \/ Abort(p)
    <2>1. /\ [Idle EXCEPT !.pc = "pull", !.want = head].pc = "pull"
          /\ [Idle EXCEPT !.pc = "pull", !.want = head].pos = 1
          /\ Idle.pc = "idle" /\ Idle.pos = 1
      BY DEF Idle
    <2>2. run' = [run EXCEPT ![p] = Idle]
          \/ run' = [run EXCEPT ![p] = [Idle EXCEPT !.pc = "pull", !.want = head]]
      BY <1>3 DEF Start, Abort
    <2>3. run'[p] = Idle \/ run'[p] = [Idle EXCEPT !.pc = "pull", !.want = head]
      BY <2>2, LoneTypes
    <2>4. QED
      BY <1>1, <1>2, <2>1, <2>3 DEF Early
  <1>4. CASE PullKernel(p) \/ NoPull(p) \/ \E v \in Versions : StageKernel(p, v)
    <2>1. run' = [run EXCEPT ![p].pc = "read"]
      BY <1>4 DEF PullKernel, NoPull, StageKernel
    <2>2. run'[p].pc = "read" /\ run'[p].pos = run[p].pos
      BY <2>1, LoneTypes DEF Run
    <2>3. QED
      BY <1>1, <1>2, <2>2 DEF Early
  <1>5. CASE ReadPublished(p)
    <2>1. PICK r \in Reads(DbFile.tar) :
            run' = [run EXCEPT ![p].pc = "build", ![p].left = Anys,
                       ![p].known = {FileOf(r[1], n) : n \in Indexed(r[1])}]
      BY <1>5 DEF ReadPublished
    <2>2. /\ run'[p].pc = "build" /\ run'[p].pos = run[p].pos
          /\ run'[p].known = {FileOf(r[1], n) : n \in Indexed(r[1])}
      BY <2>1, LoneTypes DEF Run
    <2>3. QED
      BY <1>1, <1>2, <2>2 DEF Early
  <1>6. ASSUME NEW n \in Anys, BuildPackage(p, n)
        PROVE  /\ run[p].pc = "build" /\ run'[p].pc = "build"
               /\ run'[p].known = run[p].known /\ run'[p].pos = run[p].pos
    BY <1>6, LoneTypes DEF BuildPackage, Run
  <1>7. QED
    BY <1>1, <1>2, <1>3, <1>4, <1>5, <1>6 DEF EarlyStep, Early

LEMMA IndexStep ==
    ASSUME NEW p, LoneState(p), Index(p)
    PROVE  /\ UNCHANGED releaseVars
           /\ run[p].pc = "build" /\ run'[p].pc = "check" /\ run'[p].pos = run[p].pos
           /\ staging'[p].db = RepoAdd(staging[p])
           /\ \A f \in Files :
                 /\ staging'[p].pkg[f] = IF Kept(staging[p], f) THEN staging[p].pkg[f] ELSE 0
                 /\ staging'[p].sig[f] \in {0, staging[p].sig[f], staging'[p].pkg[f]}
                 /\ staging'[p].pkg[f] = 0 => staging'[p].sig[f] = 0
  <1> DEFINE s == staging[p]
  <1>1. PICK sign \in BOOLEAN :
          staging' = [staging EXCEPT ![p] = [s EXCEPT
              !.pkg = [f \in Files |-> IF Kept(s, f) THEN s.pkg[f] ELSE 0],
              !.sig = [f \in Files |->
                         IF ~Kept(s, f) THEN 0
                         ELSE IF s.sig[f] = 0 /\ sign THEN s.pkg[f] ELSE s.sig[f]],
              !.db = RepoAdd(s),
              !.signed = sign]]
    BY DEF Index
  <1>2. \A f \in Files :
           /\ staging'[p].pkg[f] = IF Kept(s, f) THEN s.pkg[f] ELSE 0
           /\ staging'[p].sig[f] = IF ~Kept(s, f) THEN 0
                                   ELSE IF s.sig[f] = 0 /\ sign THEN s.pkg[f] ELSE s.sig[f]
    BY <1>1, LoneTypes DEF Staging
  <1>3. staging'[p].db = RepoAdd(s)
    BY <1>1, LoneTypes DEF Staging
  <1>4. \A f \in Files : Kept(s, f) => s.pkg[f] # 0
    BY DEF Kept
  <1>5. run'[p].pc = "check" /\ run'[p].pos = run[p].pos
    BY LoneTypes DEF Index, Run
  <1>6. QED
    BY <1>2, <1>3, <1>4, <1>5 DEF Index

LEMMA CheckStep ==
    ASSUME NEW p, LoneState(p), Check(p)
    PROVE  /\ UNCHANGED releaseVars /\ run[p].pc = "check"
           /\ staging'[p].pkg = staging[p].pkg /\ staging'[p].sig = staging[p].sig
           /\ staging'[p].db = staging[p].db
           /\ \E r \in Reads(DbFile.tar) :
                 \/ run'[p].pc = "idle" /\ run'[p].pos = 1
                 \/ /\ ~Refuses(staging[p], r[1]) /\ run'[p].pos = run[p].pos
                    /\ \/ run'[p].pc = "verify"
                       \/ /\ run'[p].pc = "packages" /\ run'[p].seen = r[1]
                          /\ run'[p].left = Indexed(staging[p].db)
  <1> DEFINE s == staging[p]
  <1>1. PICK r \in Reads(DbFile.tar) :
          run' = [run EXCEPT ![p] =
                  IF Refuses(s, r[1]) THEN Idle
                  ELSE IF Same(s, r[1]) THEN [run[p] EXCEPT !.pc = "verify"]
                  ELSE [run[p] EXCEPT !.pc = "packages", !.seen = r[1],
                                      !.left = Indexed(s.db)]]
    BY DEF Check
  <1>2. run'[p] = IF Refuses(s, r[1]) THEN Idle
                  ELSE IF Same(s, r[1]) THEN [run[p] EXCEPT !.pc = "verify"]
                  ELSE [run[p] EXCEPT !.pc = "packages", !.seen = r[1],
                                      !.left = Indexed(s.db)]
    BY <1>1, LoneTypes
  <1>3. CASE Refuses(s, r[1])
    <2>1. run'[p].pc = "idle" /\ run'[p].pos = 1
      BY <1>2, <1>3 DEF Idle
    <2>2. QED
      BY <2>1, LoneTypes DEF Check, Staging
  <1>4. CASE ~Refuses(s, r[1])
    <2>1. /\ run'[p].pos = run[p].pos
          /\ \/ run'[p].pc = "verify"
             \/ /\ run'[p].pc = "packages" /\ run'[p].seen = r[1]
                /\ run'[p].left = Indexed(s.db)
      BY <1>2, <1>4, LoneTypes DEF Run
    <2>2. QED
      BY <1>4, <2>1, LoneTypes DEF Check, Staging
  <1>5. QED
    BY <1>3, <1>4

\* The steps that upload packages and signatures, and what they touch.
QueueStep(p) ==
    \/ (\E n \in Names : NextPackage(p, n)) \/ PutPackage(p) \/ PutSignature(p)
    \/ LastPackage(p)

LEMMA NextPackageStep ==
    ASSUME NEW p, LoneState(p), NEW n \in Names, NextPackage(p, n)
    PROVE  /\ UNCHANGED <<releaseVars, staging>>
           /\ run[p].pc = "packages" /\ n \in run[p].left
           /\ run'[p].pc = IF run[p].seen[n] = staging[p].db[n] THEN "signature" ELSE "package"
           /\ run'[p].cur = n /\ run'[p].left = run[p].left \ {n}
           /\ run'[p].seen = run[p].seen /\ run'[p].pos = run[p].pos
           /\ Current(p)' = FileOf(staging[p].db, n)
  <1>1. /\ run'[p].pc = IF run[p].seen[n] = staging[p].db[n] THEN "signature" ELSE "package"
        /\ run'[p].cur = n /\ run'[p].left = run[p].left \ {n}
        /\ run'[p].seen = run[p].seen /\ run'[p].pos = run[p].pos
    BY LoneTypes DEF NextPackage, Run
  <1>2. QED
    BY <1>1 DEF NextPackage, Current

LEMMA PutPackageStep ==
    ASSUME NEW p, LoneState(p), BaseInv(p), PutPackage(p)
    PROVE  /\ UNCHANGED <<sigs, dbs, cdn, staging>> /\ run[p].pc = "package"
           /\ \/ run'[p].pc = "package" /\ pkgs'[Current(p)] = 0
              \/ run'[p].pc = "signature" /\ pkgs'[Current(p)] = staging[p].pkg[Current(p)]
           /\ run'[p].cur = run[p].cur /\ run'[p].left = run[p].left
           /\ run'[p].seen = run[p].seen /\ run'[p].pos = run[p].pos
           /\ Putting(p) /\ Putting(p)' /\ Current(p)' = Current(p)
           /\ \A g \in Files : g # Current(p) => pkgs'[g] = pkgs[g]
  <1>1. run[p].pc = "package" /\ Putting(p) /\ UNCHANGED <<sigs, dbs, cdn, staging>>
    BY DEF PutPackage, Putting
  <1>2. Current(p) \in Files
    BY <1>1, LoneCurrent
  <1>3. /\ \/ run'[p].pc = "package" /\ pkgs'[Current(p)] = 0
           \/ run'[p].pc = "signature" /\ pkgs'[Current(p)] = staging[p].pkg[Current(p)]
        /\ run'[p].cur = run[p].cur /\ run'[p].left = run[p].left
        /\ run'[p].seen = run[p].seen /\ run'[p].pos = run[p].pos
        /\ \A g \in Files : g # Current(p) => pkgs'[g] = pkgs[g]
    BY <1>1, <1>2, LoneTypes DEF PutPackage, Clear, Run
  <1>4. QED
    BY <1>1, <1>3 DEF Putting, Current

LEMMA PutSignatureStep ==
    ASSUME NEW p, LoneState(p), BaseInv(p), PutSignature(p)
    PROVE  /\ UNCHANGED <<pkgs, dbs, cdn, staging>> /\ run[p].pc = "signature" /\ Putting(p)
           /\ \/ /\ run'[p].pc = "signature" /\ sigs'[Current(p)] = 0
                 /\ run'[p].cur = run[p].cur /\ Current(p)' = Current(p)
              \/ run'[p].pc = "packages" /\ sigs'[Current(p)] = staging[p].sig[Current(p)]
           /\ run'[p].left = run[p].left
           /\ run'[p].seen = run[p].seen /\ run'[p].pos = run[p].pos
           /\ \A g \in Files : g # Current(p) => sigs'[g] = sigs[g]
  <1>1. run[p].pc = "signature" /\ Putting(p) /\ UNCHANGED <<pkgs, dbs, cdn, staging>>
    BY DEF PutSignature, Putting
  <1>2. Current(p) \in Files
    BY <1>1, LoneCurrent
  <1>3. /\ \/ /\ run'[p].pc = "signature" /\ sigs'[Current(p)] = 0
              /\ run'[p].cur = run[p].cur
           \/ run'[p].pc = "packages" /\ sigs'[Current(p)] = staging[p].sig[Current(p)]
        /\ run'[p].left = run[p].left
        /\ run'[p].seen = run[p].seen /\ run'[p].pos = run[p].pos
        /\ \A g \in Files : g # Current(p) => sigs'[g] = sigs[g]
    BY <1>1, <1>2, LoneTypes DEF PutSignature, Clear, Run
  <1>4. QED
    BY <1>1, <1>3 DEF Current

LEMMA LastPackageStep ==
    ASSUME NEW p, LoneState(p), LastPackage(p)
    PROVE  /\ UNCHANGED <<releaseVars, staging>> /\ run[p].pc = "packages"
           /\ run[p].left = {} /\ run'[p].pc = "databases" /\ run'[p].pos = run[p].pos
  BY LoneTypes DEF LastPackage, Run

LEMMA PutDatabaseStep ==
    ASSUME NEW p, LoneState(p), PutDatabase(p)
    PROVE  LET i == run[p].pos IN
           /\ UNCHANGED <<pkgs, sigs, staging>> /\ run[p].pc = "databases" /\ i \in 1 .. 6
           /\ \/ /\ run'[p].pc = "databases" /\ run'[p].pos = i
                 /\ dbs'[i] = NoDb /\ cdn'[i] = dbs[i]
              \/ /\ run'[p].pc = (IF i = 6 THEN "snapshot" ELSE "databases")
                 /\ run'[p].pos = (IF i = 6 THEN 1 ELSE i + 1)
                 /\ dbs'[i] = staging[p].db /\ cdn'[i] = cdn[i]
           /\ \A j \in DbFiles : j # i => dbs'[j] = dbs[j] /\ cdn'[j] = cdn[j]
  <1> DEFINE i == run[p].pos
  <1>1. i \in DbFiles /\ i \in 1 .. 6
    BY LoneTypes, CalmDbFile DEF Run
  <1>2. \/ /\ run'[p].pc = "databases" /\ run'[p].pos = i
           /\ dbs'[i] = NoDb /\ cdn'[i] = dbs[i]
        \/ /\ run'[p].pc = (IF i = 6 THEN "snapshot" ELSE "databases")
           /\ run'[p].pos = (IF i = 6 THEN 1 ELSE i + 1)
           /\ dbs'[i] = staging[p].db /\ cdn'[i] = cdn[i]
    BY <1>1, LoneTypes DEF PutDatabase, Clear, Run
  <1>3. \A j \in DbFiles : j # i => dbs'[j] = dbs[j] /\ cdn'[j] = cdn[j]
    BY <1>1, LoneTypes DEF PutDatabase
  <1>4. QED
    BY <1>1, <1>2, <1>3 DEF PutDatabase

LEMMA RecordStep ==
    ASSUME NEW p, LoneState(p), Stamp(p) \/ Snapshot(p) \/ Verify(p) \/ Tag(p)
    PROVE  /\ UNCHANGED releaseVars /\ run[p].pc \in {"snapshot", "verify", "tag"}
           /\ staging'[p].pkg = staging[p].pkg /\ staging'[p].sig = staging[p].sig
           /\ staging'[p].db = staging[p].db
           /\ \/ run'[p].pc \in {"snapshot", "verify", "tag"} /\ run'[p].pos = run[p].pos
              \/ run'[p].pc = "idle" /\ run'[p].pos = 1
  <1>1. Idle.pc = "idle" /\ Idle.pos = 1
    BY DEF Idle
  <1>2. /\ UNCHANGED releaseVars /\ run[p].pc \in {"snapshot", "verify", "tag"}
        /\ staging'[p].pkg = staging[p].pkg /\ staging'[p].sig = staging[p].sig
        /\ staging'[p].db = staging[p].db
    BY LoneTypes DEF Stamp, Snapshot, Verify, Tag, Staging
  <1>3. \/ run'[p].pc \in {"snapshot", "verify", "tag"} /\ run'[p].pos = run[p].pos
        \/ run'[p].pc = "idle" /\ run'[p].pos = 1
    <2>1. CASE Stamp(p)
      BY <2>1 DEF Stamp
    <2>2. CASE Snapshot(p)
      BY <2>2, LoneTypes DEF Snapshot, Run
    <2>3. CASE Tag(p)
      BY <1>1, <2>3, LoneTypes DEF Tag
    <2>4. CASE Verify(p)
      <3>1. run'[p] = Idle \/ run'[p] = [run[p] EXCEPT !.pc = "tag"]
        BY <2>4, LoneTypes DEF Verify
      <3>2. [run[p] EXCEPT !.pc = "tag"].pc = "tag"
            /\ [run[p] EXCEPT !.pc = "tag"].pos = run[p].pos
        BY LoneTypes DEF Run
      <3>3. QED
        BY <1>1, <3>1, <3>2
    <2>5. QED
      BY <2>1, <2>2, <2>3, <2>4
  <1>4. QED
    BY <1>2, <1>3

LEMMA KillStep ==
    ASSUME NEW p, LoneState(p), Kill(p)
    PROVE  UNCHANGED <<releaseVars, staging>> /\ run'[p].pc = "idle" /\ "kill" \in Faults
  <1>1. run'[p] = Idle /\ Idle.pc = "idle"
    <2>1. Idle.pc = "idle"
      BY DEF Idle
    <2>2. QED
      BY <2>1, LoneTypes DEF Kill
  <1>2. QED
    BY <1>1 DEF Kill

LEMMA SandboxStep ==
    ASSUME NEW p, LoneState(p), NEW v \in Versions, SandboxPackage(v) \/ SandboxSignature(v)
    PROVE  LET g == <<Kernel, v>> IN
           /\ UNCHANGED <<dbs, cdn, staging, run>> /\ g \in Files /\ run[p].cur # Kernel
           /\ \A f \in Files : f # g => pkgs'[f] = pkgs[f] /\ sigs'[f] = sigs[f]
           /\ \/ pkgs[g] = 0 /\ pkgs'[g] = v /\ sigs'[g] = sigs[g]
              \/ pkgs[g] # 0 /\ pkgs'[g] = pkgs[g] /\ sigs'[g] = pkgs[g]
  BY LoneTypes, NameType DEF SandboxPackage, SandboxSignature, localVars

\* Every step is one of these, or touches neither Release nor publisher.
LEMMA NextCases ==
    ASSUME NEW p, LoneState(p), [Next]_vars
    PROVE  \/ UNCHANGED <<pkgs, sigs, dbs, cdn, staging, run>>
           \/ \E v \in Versions : SandboxPackage(v) \/ SandboxSignature(v)
           \/ EarlyStep(p) \/ Index(p) \/ Check(p) \/ QueueStep(p) \/ PutDatabase(p)
           \/ Stamp(p) \/ Snapshot(p) \/ Verify(p) \/ Tag(p) \/ Kill(p)
  <1>1. CASE UNCHANGED vars
    BY <1>1 DEF vars
  <1>2. ASSUME NEW n \in Anys, NEW v \in Versions, Push(n, v)
        PROVE  UNCHANGED <<pkgs, sigs, dbs, cdn, staging, run>>
    BY <1>2 DEF Push, releaseVars, localVars
  <1>3. \A q \in Publishers : q = p
    BY DEF LoneState
  <1>4. QED
    BY <1>1, <1>2, <1>3 DEF Next, Step, EarlyStep, QueueStep

----------------------------------------------------------------------------
(* Trust keeps the invariant of the run.                                   *)

LEMMA BaseStutter ==
    ASSUME NEW p, BaseInv(p), UNCHANGED <<pkgs, sigs, staging, run>>
    PROVE  BaseInv(p)'
  BY DEF BaseInv, StageInv, IndexInv, QueueInv, Putting, Current, Uploaded

LEMMA BaseSandbox ==
    ASSUME NEW p, LoneState(p), BaseInv(p), NEW v \in Versions,
           SandboxPackage(v) \/ SandboxSignature(v)
    PROVE  BaseInv(p)'
  <1> DEFINE g == <<Kernel, v>>
             D == staging[p].db
  <1>1. /\ UNCHANGED <<staging, run>> /\ g \in Files
        /\ \A f \in Files : f # g => pkgs'[f] = pkgs[f] /\ sigs'[f] = sigs[f]
        /\ \/ pkgs[g] = 0 /\ pkgs'[g] = v /\ sigs'[g] = sigs[g]
           \/ pkgs[g] # 0 /\ pkgs'[g] = pkgs[g] /\ sigs'[g] = pkgs[g]
    BY SandboxStep
  <1>2. run[p].cur # Kernel
    BY SandboxStep
  <1>3. /\ pkgs[g] \in {0, v} /\ sigs[g] \in {0, v}
        /\ \A w \in Versions : <<Kernel, w>> \in Files /\ (<<Kernel, w>> = g <=> w = v)
    BY NameType DEF BaseInv, StageInv
  <1>4. StageInv(p)'
    BY <1>1, <1>3 DEF BaseInv, StageInv
  <1>5. IndexInv(p)'
    BY <1>1 DEF BaseInv, IndexInv
  <1>6. ASSUME NEW n \in Indexed(D), Uploaded(p, n), run[p].pc \in Uploading \cup Shipped
        PROVE  Uploaded(p, n)'
    <2>1. FileOf(D, n) \in Files /\ D[n].sum # 0
      BY <1>6, LoneTypes, DbFacts DEF BaseInv, IndexInv
    <2>2. QED
      BY <1>1, <1>3, <1>6, <2>1 DEF Uploaded
  <1>7. Putting(p) => Current(p) \in Files /\ Current(p) # g
    BY <1>2, LoneCurrent
  <1>8. QueueInv(p)'
    BY <1>1, <1>6, <1>7 DEF BaseInv, QueueInv, Putting, Current, Uploading, Shipped
  <1>9. QED
    BY <1>4, <1>5, <1>8 DEF BaseInv

\* Bytes from the Release and signatures from the Release go together.
LEMMA BaseEarly ==
    ASSUME NEW p, LoneState(p), BaseInv(p), Trust(p), EarlyStep(p)
    PROVE  BaseInv(p)'
  <1>1. /\ UNCHANGED <<pkgs, sigs>> /\ run'[p].pc \in Early
        /\ \A f \in Files : Fills(p, f)
    BY EarlyFacts DEF releaseVars
  <1>2. ASSUME NEW v \in Versions PROVE staging'[p].pkg[<<Kernel, v>>] \in {0, v}
    <2> DEFINE g == <<Kernel, v>>
    <2>1. g \in Files /\ g[1] = Kernel /\ g[2] = v
      BY NameType
    <2>2. pkgs[g] \in {0, v} /\ staging[p].pkg[g] \in {0, v}
      BY DEF BaseInv, StageInv
    <2> HIDE DEF g
    <2>3. staging'[p].pkg[g] \in {0, v}
      BY <1>1, <2>1, <2>2 DEF Fills
    <2>4. QED
      BY <2>3 DEF g
  <1>3. ASSUME NEW f \in Files PROVE staging'[p].sig[f] \in {0, staging'[p].pkg[f]}
    <2>1. staging[p].sig[f] \in {0, staging[p].pkg[f]}
      BY DEF BaseInv, StageInv
    <2>2. f[1] = Kernel => /\ pkgs[f] \in {0, f[2]} /\ sigs[f] \in {0, f[2]}
                           /\ staging[p].pkg[f] \in {0, f[2]}
      <3>1. f[1] = Kernel => f = <<Kernel, f[2]>> /\ f[2] \in Versions
        BY DEF Files
      <3>2. QED
        BY <3>1 DEF BaseInv, StageInv
    <2>3. run[p].pc = "build" /\ f \in run[p].known => sigs[f] \in {0, pkgs[f]}
      BY DEF Trust
    <2>4. QED
      BY <1>1, <2>1, <2>2, <2>3 DEF Fills
  <1>4. StageInv(p)'
    BY <1>1, <1>2, <1>3 DEF BaseInv, StageInv
  <1>5. QED
    BY <1>1, <1>4, BaseAtRest DEF BaseInv

\* An index names staged files, with their bytes.
LEMMA BaseIndex ==
    ASSUME NEW p, LoneState(p), BaseInv(p), Index(p) PROVE BaseInv(p)'
  <1> DEFINE s == staging[p]
  <1>1. StageInv(p)'
    <2>1. UNCHANGED <<pkgs, sigs>>
      BY IndexStep DEF releaseVars
    <2>2. ASSUME NEW f \in Files
          PROVE  /\ staging'[p].pkg[f] \in {0, s.pkg[f]}
                 /\ staging'[p].sig[f] \in {0, staging'[p].pkg[f]}
      BY IndexStep DEF BaseInv, StageInv
    <2>3. QED
      BY <2>1, <2>2, NameType DEF BaseInv, StageInv
  <1>2. IndexInv(p)'
    <2>1. ASSUME NEW n \in Indexed(RepoAdd(s))
          PROVE  /\ RepoAdd(s)[n].sum # 0
                 /\ staging'[p].pkg[FileOf(RepoAdd(s), n)] = RepoAdd(s)[n].sum
      <3>1. n \in Names /\ RepoAdd(s)[n].ver # 0
        BY <2>1 DEF Indexed
      <3>2. /\ FileOf(RepoAdd(s), n) \in Files /\ Kept(s, FileOf(RepoAdd(s), n))
            /\ RepoAdd(s)[n].sum = s.pkg[FileOf(RepoAdd(s), n)]
        BY <2>1, <3>1, LoneTypes, RepoAddEntry, DbType, DbFacts
      <3>3. QED
        BY <3>2, IndexStep DEF Kept
    <2>2. QED
      BY <2>1, IndexStep DEF IndexInv, Uploading, Shipped
  <1>3. QueueInv(p)'
    BY IndexStep DEF QueueInv, Putting, Uploading
  <1>4. QED
    BY <1>1, <1>2, <1>3 DEF BaseInv

\* publish-repo.sh lets only a signed index through.
LEMMA BaseCheck ==
    ASSUME NEW p, LoneState(p), BaseInv(p), Check(p) PROVE BaseInv(p)'
  <1> DEFINE s == staging[p]
  <1>1. /\ UNCHANGED <<pkgs, sigs>> /\ run[p].pc = "check"
        /\ staging'[p].pkg = s.pkg /\ staging'[p].sig = s.sig /\ staging'[p].db = s.db
    BY CheckStep DEF releaseVars
  <1>2. StageInv(p)'
    BY <1>1 DEF BaseInv, StageInv
  <1>3. CASE run'[p].pc = "idle"
    BY <1>2, <1>3, BaseAtRest DEF BaseInv, Early
  <1>4. CASE run'[p].pc # "idle"
    <2>1. /\ \A n \in Indexed(s.db) : s.sig[FileOf(s.db, n)] # 0
          /\ \/ run'[p].pc = "verify"
             \/ run'[p].pc = "packages" /\ run'[p].left = Indexed(s.db)
      BY <1>4, CheckStep DEF Refuses, Unsigned
    <2>2. \A n \in Indexed(s.db) : /\ s.db[n].sum # 0 /\ s.pkg[FileOf(s.db, n)] = s.db[n].sum
                                   /\ FileOf(s.db, n) \in Files
      BY <1>1, LoneTypes, DbFacts DEF BaseInv, IndexInv
    <2>3. \A n \in Indexed(s.db) : s.sig[FileOf(s.db, n)] = s.db[n].sum
      BY <2>1, <2>2 DEF BaseInv, StageInv
    <2>4. IndexInv(p)'
      BY <1>1, <2>2, <2>3 DEF IndexInv
    <2>5. QueueInv(p)'
      BY <1>1, <2>1 DEF QueueInv, Putting, Uploading
    <2>6. QED
      BY <1>2, <2>4, <2>5 DEF BaseInv
  <1>5. QED
    BY <1>3, <1>4

LEMMA BaseQueue ==
    ASSUME NEW p, LoneState(p), BaseInv(p), Trust(p), QueueStep(p) PROVE BaseInv(p)'
  <1> DEFINE s == staging[p]
             f == Current(p)
  <1>1. ASSUME NEW n \in Names, NextPackage(p, n) PROVE BaseInv(p)'
    <2>1. /\ run[p].pc = "packages" /\ n \in run[p].left
          /\ UNCHANGED <<pkgs, sigs, staging>> /\ n \in Indexed(s.db)
      BY <1>1, NextPackageStep DEF releaseVars, BaseInv, QueueInv, Uploading
    <2>2. StageInv(p)' /\ IndexInv(p)'
      BY <1>1, <2>1, NextPackageStep DEF BaseInv, StageInv, IndexInv, Uploading, Shipped
    <2>3. run'[p].pc = "signature" => pkgs[FileOf(s.db, n)] = s.db[n].sum
      BY <1>1, <2>1, NextPackageStep DEF Trust
    <2>4. \A m \in Indexed(s.db) \ run'[p].left : m = n \/ Uploaded(p, m)'
      BY <1>1, <2>1, NextPackageStep DEF BaseInv, QueueInv, Uploading, Putting, Uploaded
    <2>5. QueueInv(p)'
      BY <1>1, <2>1, <2>3, <2>4, NextPackageStep
         DEF BaseInv, QueueInv, Putting, Uploading
    <2>6. QED
      BY <2>2, <2>5 DEF BaseInv
  <1>2. CASE PutPackage(p)
    <2>1. run[p].pc = "package" /\ UNCHANGED <<sigs, staging>> /\ Putting(p) /\ f \in Files
      BY <1>2, PutPackageStep, LoneCurrent
    <2>2. ASSUME NEW v \in Versions PROVE pkgs'[<<Kernel, v>>] \in {0, v}
      <3>1. <<Kernel, v>> \in Files /\ pkgs[<<Kernel, v>>] \in {0, v}
            /\ s.pkg[<<Kernel, v>>] \in {0, v}
        BY NameType DEF BaseInv, StageInv
      <3>2. CASE <<Kernel, v>> = f
        BY <1>2, <3>1, <3>2, PutPackageStep
      <3>3. CASE <<Kernel, v>> # f
        BY <1>2, <3>1, <3>3, PutPackageStep
      <3>4. QED
        BY <3>2, <3>3
    <2>3. StageInv(p)' /\ IndexInv(p)'
      BY <1>2, <2>1, <2>2, PutPackageStep DEF BaseInv, StageInv, IndexInv, Uploading, Shipped
    <2>4. \A n \in Indexed(s.db) : n # run[p].cur /\ Uploaded(p, n) => Uploaded(p, n)'
      BY <1>2, <2>1, PutPackageStep, LoneCurrent, LoneTypes, DbFacts DEF Uploaded
    <2>5. s.pkg[f] = s.db[run[p].cur].sum
      BY <2>1, LoneCurrent
    <2>6. QueueInv(p)'
      BY <1>2, <2>1, <2>4, <2>5, PutPackageStep DEF BaseInv, QueueInv, Uploading
    <2>7. QED
      BY <2>3, <2>6 DEF BaseInv
  <1>3. CASE PutSignature(p)
    <2>1. run[p].pc = "signature" /\ UNCHANGED <<pkgs, staging>> /\ Putting(p) /\ f \in Files
      BY <1>3, PutSignatureStep, LoneCurrent
    <2>2. /\ s.sig[f] = s.db[run[p].cur].sum /\ s.pkg[f] = s.db[run[p].cur].sum
          /\ pkgs[f] = s.db[run[p].cur].sum
      BY <2>1, LoneCurrent DEF BaseInv, QueueInv
    <2>3. ASSUME NEW v \in Versions PROVE sigs'[<<Kernel, v>>] \in {0, v}
      <3>1. <<Kernel, v>> \in Files /\ sigs[<<Kernel, v>>] \in {0, v}
            /\ s.pkg[<<Kernel, v>>] \in {0, v}
        BY NameType DEF BaseInv, StageInv
      <3>2. CASE <<Kernel, v>> = f
        BY <1>3, <2>2, <3>1, <3>2, PutSignatureStep
      <3>3. CASE <<Kernel, v>> # f
        BY <1>3, <3>1, <3>3, PutSignatureStep
      <3>4. QED
        BY <3>2, <3>3
    <2>4. StageInv(p)' /\ IndexInv(p)'
      BY <1>3, <2>1, <2>3, PutSignatureStep DEF BaseInv, StageInv, IndexInv, Uploading, Shipped
    <2>5. \A n \in Indexed(s.db) : n # run[p].cur /\ Uploaded(p, n) => Uploaded(p, n)'
      BY <1>3, <2>1, PutSignatureStep, LoneCurrent, LoneTypes, DbFacts DEF Uploaded
    <2>6. ASSUME NEW n \in Indexed(s.db) \ run[p].left
          PROVE  \/ Uploaded(p, n)'
                 \/ run'[p].pc = "signature" /\ n = run[p].cur
      <3>1. n = run[p].cur /\ run'[p].pc = "packages" => Uploaded(p, n)'
        BY <1>3, <2>1, <2>2, PutSignatureStep DEF Uploaded, Current
      <3>2. QED
        BY <1>3, <2>1, <2>5, <2>6, <3>1, PutSignatureStep DEF BaseInv, QueueInv, Uploading
    <2>7. QueueInv(p)'
      BY <1>3, <2>1, <2>6, PutSignatureStep DEF BaseInv, QueueInv, Uploading, Putting
    <2>8. QED
      BY <2>4, <2>7 DEF BaseInv
  <1>4. CASE LastPackage(p)
    <2>1. /\ UNCHANGED <<pkgs, sigs, staging>> /\ run[p].pc = "packages" /\ run[p].left = {}
          /\ run'[p].pc = "databases"
      BY <1>4, LastPackageStep DEF releaseVars
    <2>2. StageInv(p)' /\ IndexInv(p)'
      BY <2>1 DEF BaseInv, StageInv, IndexInv, Uploading, Shipped
    <2>3. QueueInv(p)'
      BY <2>1 DEF BaseInv, QueueInv, Putting, Uploading, Uploaded
    <2>4. QED
      BY <2>2, <2>3 DEF BaseInv
  <1>5. QED
    BY <1>1, <1>2, <1>3, <1>4 DEF QueueStep

\* After the packages the run touches neither them nor its index.
LEMMA BaseLate ==
    ASSUME NEW p, LoneState(p), BaseInv(p),
           \/ PutDatabase(p) \/ Stamp(p) \/ Snapshot(p) \/ Verify(p) \/ Tag(p) \/ Kill(p)
    PROVE  BaseInv(p)'
  <1>1. CASE PutDatabase(p)
    <2>1. /\ UNCHANGED <<pkgs, sigs, staging>> /\ run[p].pc = "databases"
          /\ run'[p].pc \in {"databases", "snapshot"}
      BY <1>1, PutDatabaseStep
    <2>2. QED
      BY <2>1 DEF BaseInv, StageInv, IndexInv, QueueInv, Putting, Uploading, Shipped, Uploaded
  <1>2. CASE Stamp(p) \/ Snapshot(p) \/ Verify(p) \/ Tag(p)
    <2>1. /\ UNCHANGED <<pkgs, sigs>> /\ run[p].pc \in {"snapshot", "verify", "tag"}
          /\ staging'[p].pkg = staging[p].pkg /\ staging'[p].sig = staging[p].sig
          /\ staging'[p].db = staging[p].db
          /\ run'[p].pc \in {"snapshot", "verify", "tag", "idle"}
      BY <1>2, RecordStep DEF releaseVars
    <2>2. QED
      BY <2>1 DEF BaseInv, StageInv, IndexInv, QueueInv, Putting, Uploading, Shipped
  <1>3. CASE Kill(p)
    <2>1. UNCHANGED <<pkgs, sigs, staging>> /\ run'[p].pc \in Early
      BY <1>3, KillStep DEF releaseVars, Early
    <2>2. QED
      BY <2>1, BaseAtRest DEF BaseInv, StageInv
  <1>4. QED
    BY <1>1, <1>2, <1>3

LEMMA BaseNext ==
    ASSUME NEW p, LoneState(p), BaseInv(p), Trust(p), [Next]_vars PROVE BaseInv(p)'
  BY NextCases, BaseStutter, BaseSandbox, BaseEarly, BaseIndex, BaseCheck, BaseQueue, BaseLate

\* The invariant of the run is all that DatabaseLast needs.
LEMMA BaseLast ==
    ASSUME NEW p, LoneState(p), BaseInv(p), [Next]_vars,
           dbs'[DbFile.db] \notin {NoDb, dbs[DbFile.db]}
    PROVE  Installable(dbs[DbFile.db])'
  <1>1. CASE PutDatabase(p)
    <2>1. UNCHANGED <<pkgs, sigs, staging>> /\ run[p].pc = "databases"
          /\ dbs'[DbFile.db] = staging[p].db
      BY <1>1, PutDatabaseStep, CalmDbFile
    <2>2. QED
      BY <2>1 DEF BaseInv, QueueInv, Uploaded, Installable, Indexed
  <1>2. CASE ~PutDatabase(p)
    <2>1. dbs' = dbs
      <3>1. EarlyStep(p) \/ Index(p) \/ Check(p) => dbs' = dbs
        BY EarlyFacts, IndexStep, CheckStep DEF releaseVars
      <3>2. QueueStep(p) => dbs' = dbs
        BY DEF QueueStep, NextPackage, PutPackage, PutSignature, LastPackage, releaseVars
      <3>3. Stamp(p) \/ Snapshot(p) \/ Verify(p) \/ Tag(p) \/ Kill(p) => dbs' = dbs
        BY RecordStep, KillStep DEF releaseVars
      <3>4. \A v \in Versions : SandboxPackage(v) \/ SandboxSignature(v) => dbs' = dbs
        BY SandboxStep
      <3>5. QED
        BY <1>2, <3>1, <3>2, <3>3, <3>4, NextCases
    <2>2. QED
      BY <2>1
  <1>3. QED
    BY <1>1, <1>2

----------------------------------------------------------------------------
(* Runs are killed.  What a dead run leaves is either complete or unnamed: *)
(* the database the next run reads names only files that have its bytes.   *)

KillInv(p) ==
    /\ \A n \in Indexed(Tar) : /\ Tar[n].sum # 0
                               /\ pkgs[FileOf(Tar, n)] = Tar[n].sum
                               /\ sigs[FileOf(Tar, n)] \in {0, Tar[n].sum}
    /\ \A f \in Files : staging[p].pkg[f] # 0 /\ Tar[f[1]].ver = f[2]
                           => staging[p].pkg[f] = Tar[f[1]].sum
    /\ run[p].pc = "build" => run[p].known = {FileOf(Tar, n) : n \in Indexed(Tar)}
    /\ run[p].pc \in Uploading => run[p].seen = Tar

KillState(p) == LoneState(p) /\ BaseInv(p) /\ KillInv(p) /\ Faults \subseteq {"kill"}

LEMMA KillRead ==
    ASSUME NEW p, KillState(p), NEW r \in Reads(DbFile.tar) PROVE r[1] = Tar
  BY DEF KillState, Reads, Tar

\* A file the database names, and no other, has its version there.
LEMMA NamedByTar ==
    ASSUME NEW p, KillState(p), NEW f \in Files
    PROVE  Tar[f[1]].ver = f[2] <=> f[1] \in Indexed(Tar) /\ f = FileOf(Tar, f[1])
  BY LoneTypes, NameType, ByteType, DbFacts DEF KillState, Indexed, FileOf, Files

LEMMA KillTrust == ASSUME NEW p, KillState(p) PROVE Trust(p)
  <1>1. ASSUME run[p].pc = "build", NEW f \in run[p].known PROVE sigs[f] \in {0, pkgs[f]}
    BY <1>1 DEF KillState, KillInv
  <1>2. ASSUME run[p].pc = "packages", NEW n \in run[p].left,
               run[p].seen[n] = staging[p].db[n]
        PROVE  pkgs[FileOf(staging[p].db, n)] = staging[p].db[n].sum
    <2>1. Tar[n] = staging[p].db[n] /\ n \in Indexed(staging[p].db)
      BY <1>2 DEF KillState, KillInv, BaseInv, QueueInv, Uploading
    <2>2. n \in Indexed(Tar) /\ FileOf(Tar, n) = FileOf(staging[p].db, n)
      BY <2>1 DEF Indexed, FileOf
    <2>3. QED
      BY <2>1, <2>2 DEF KillState, KillInv
  <1>3. QED
    BY <1>1, <1>2 DEF Trust

LEMMA KillInit == ASSUME NEW p, Publishers = {p}, Init PROVE KillInv(p)
  <1>1. run[p].pc = "idle" /\ staging[p].pkg = NoFiles
    BY DEF Init, Idle, EmptyStaging
  <1>2. PICK published \in BOOLEAN :
          LET Here(f) == f[2] = 1 /\ (published \/ f[1] = Kernel)
          IN  /\ pkgs = [f \in Files |-> IF Here(f) THEN FirstDb[f[1]].sum ELSE 0]
              /\ sigs = [f \in Files |->
                           IF Here(f) /\ published THEN FirstDb[f[1]].sum ELSE 0]
              /\ dbs = [i \in DbFiles |-> IF published THEN FirstDb ELSE NoDb]
    BY DEF Init
  <1>3. Tar = IF published THEN FirstDb ELSE NoDb
    BY <1>2, CalmDbFile DEF Tar
  <1>4. ASSUME NEW n \in Indexed(Tar)
        PROVE  /\ Tar[n].sum # 0 /\ pkgs[FileOf(Tar, n)] = Tar[n].sum
               /\ sigs[FileOf(Tar, n)] = Tar[n].sum
    <2>1. published /\ Tar = FirstDb /\ n \in Names
      BY <1>3, <1>4 DEF Indexed, NoDb
    <2>2. /\ FileOf(Tar, n) = <<n, 1>> /\ <<n, 1>> \in Files
      BY <2>1, ByteType DEF FileOf, FirstDb, Files
    <2>3. FirstDb[n].sum # 0
      <3>1. \A m \in Anys : FirstBytes[m] # 0
        BY ByteType, PublishBound DEF BuildBytes
      <3>2. FirstDb[n].sum = IF n = Kernel THEN 1 ELSE FirstBytes[n]
        BY <2>1 DEF FirstDb
      <3>3. n = Kernel \/ n \in Anys
        BY <2>1 DEF Names
      <3>4. QED
        BY <3>1, <3>2, <3>3
    <2>4. QED
      BY <1>2, <2>1, <2>2, <2>3
  <1>5. QED
    BY <1>1, <1>4 DEF KillInv, NoFiles, Uploading

LEMMA KillStutter ==
    ASSUME NEW p, KillInv(p), UNCHANGED <<pkgs, sigs, dbs, staging, run>>
    PROVE  KillInv(p)'
  BY DEF KillInv, Tar

LEMMA KillSandbox ==
    ASSUME NEW p, KillState(p), NEW v \in Versions, SandboxPackage(v) \/ SandboxSignature(v)
    PROVE  KillInv(p)'
  <1> DEFINE g == <<Kernel, v>>
  <1>1. /\ UNCHANGED <<dbs, staging, run>>
        /\ \A f \in Files : f # g => pkgs'[f] = pkgs[f] /\ sigs'[f] = sigs[f]
        /\ \/ pkgs[g] = 0
           \/ pkgs'[g] = pkgs[g] /\ sigs'[g] = pkgs[g]
    BY SandboxStep DEF KillState
  <1>2. Tar' = Tar
    BY <1>1 DEF Tar
  <1>3. ASSUME NEW n \in Indexed(Tar)
        PROVE  /\ pkgs'[FileOf(Tar, n)] = Tar[n].sum
               /\ sigs'[FileOf(Tar, n)] \in {0, Tar[n].sum}
    <2>1. /\ FileOf(Tar, n) \in Files /\ Tar[n].sum # 0
          /\ pkgs[FileOf(Tar, n)] = Tar[n].sum /\ sigs[FileOf(Tar, n)] \in {0, Tar[n].sum}
      BY LoneTypes, DbFacts DEF KillState, KillInv
    <2>2. QED
      BY <1>1, <2>1
  <1>4. QED
    BY <1>1, <1>2, <1>3 DEF KillState, KillInv

\* What fills staging comes from the Release, where the database's files have
\* its bytes, or is a file it does not name.
LEMMA KillEarly == ASSUME NEW p, KillState(p), EarlyStep(p) PROVE KillInv(p)'
  <1>1. /\ UNCHANGED <<pkgs, sigs, dbs>> /\ Tar' = Tar /\ run'[p].pc \in Early
    BY EarlyFacts DEF KillState, releaseVars, Tar
  <1>2. ASSUME NEW f \in Files, staging'[p].pkg[f] # 0, Tar[f[1]].ver = f[2]
        PROVE  staging'[p].pkg[f] = Tar[f[1]].sum
    <2>1. /\ f[1] \in Indexed(Tar) /\ f = FileOf(Tar, f[1])
          /\ Tar[f[1]].sum # 0 /\ pkgs[f] = Tar[f[1]].sum
      BY <1>2, NamedByTar DEF KillState, KillInv
    <2>2. run[p].pc = "build" => f \in run[p].known
      BY <2>1 DEF KillState, KillInv
    <2>3. staging[p].pkg[f] # 0 => staging[p].pkg[f] = Tar[f[1]].sum
      BY <1>2 DEF KillState, KillInv
    <2>4. Fills(p, f)
      BY EarlyFacts DEF KillState
    <2>5. QED
      BY <1>2, <2>1, <2>2, <2>3, <2>4 DEF Fills
  <1>3. run'[p].pc = "build" => run'[p].known = {FileOf(Tar, n) : n \in Indexed(Tar)}
    <2>1. ASSUME NEW r \in Reads(DbFile.tar), run'[p].known = {FileOf(r[1], n) : n \in Indexed(r[1])}
          PROVE  run'[p].known = {FileOf(Tar, n) : n \in Indexed(Tar)}
      BY <2>1, KillRead
    <2>2. QED
      BY <2>1, EarlyFacts DEF KillState, KillInv
  <1>4. QED
    BY <1>1, <1>2, <1>3 DEF KillState, KillInv, Early, Uploading

\* A file that is overwritten is not what the database names.
LEMMA KillQueue == ASSUME NEW p, KillState(p), QueueStep(p) PROVE KillInv(p)'
  <1> DEFINE f == Current(p)
             m == run[p].cur
  <1>1. UNCHANGED <<dbs, cdn, staging>> /\ Tar' = Tar
    BY DEF QueueStep, NextPackage, PutPackage, PutSignature, LastPackage, releaseVars, Tar
  <1>2. run[p].pc \in Uploading /\ run[p].seen = Tar
    BY DEF QueueStep, NextPackage, PutPackage, PutSignature, LastPackage, Uploading,
           KillState, KillInv
  <1>3. CASE (\E n \in Names : NextPackage(p, n)) \/ LastPackage(p)
    <2>1. /\ UNCHANGED <<pkgs, sigs>>
          /\ \/ run'[p].pc = "databases"
             \/ run'[p].pc \in Uploading /\ run'[p].seen = run[p].seen
      BY <1>3, NextPackageStep, LastPackageStep DEF KillState, releaseVars, Uploading
    <2>2. QED
      BY <1>1, <1>2, <2>1 DEF KillState, KillInv, Uploading
  <1>4. CASE PutPackage(p)
    <2>1. /\ UNCHANGED sigs /\ run[p].pc = "package" /\ Putting(p)
          /\ run'[p].pc \in {"package", "signature"} /\ run'[p].seen = run[p].seen
          /\ \A g \in Files : g # f => pkgs'[g] = pkgs[g]
      BY <1>4, PutPackageStep DEF KillState
    <2>2. ASSUME NEW n \in Indexed(Tar) PROVE FileOf(Tar, n) \in Files /\ FileOf(Tar, n) # f
      <3>1. /\ FileOf(Tar, n) \in Files /\ FileOf(Tar, n)[1] = n
            /\ FileOf(Tar, n)[2] = Tar[n].ver /\ n \in Names
        BY LoneTypes, DbFacts DEF KillState
      <3>2. SUFFICES ASSUME FileOf(Tar, n) = f PROVE FALSE
        BY <3>1
      <3>3. /\ m = n /\ staging[p].db[m].ver = Tar[n].ver /\ f \in Files
            /\ staging[p].pkg[f] = staging[p].db[m].sum /\ staging[p].db[m].sum # 0
        BY <2>1, <3>1, <3>2, LoneCurrent DEF KillState
      <3>4. staging[p].pkg[f] = Tar[n].sum
        BY <3>1, <3>2, <3>3 DEF KillState, KillInv
      <3>5. Tar[n] = staging[p].db[n]
        <4>1. Tar[n].ver = staging[p].db[n].ver /\ Tar[n].sum = staging[p].db[n].sum
          BY <3>3, <3>4
        <4>2. Tar \in Db /\ staging[p].db \in Db
          BY LoneTypes DEF KillState
        <4>3. QED
          BY <3>1, <4>1, <4>2, DbFacts
      <3>6. QED
        BY <1>2, <2>1, <3>3, <3>5 DEF KillState, BaseInv, QueueInv
    <2>3. QED
      BY <1>1, <1>2, <2>1, <2>2 DEF KillState, KillInv
  <1>5. CASE PutSignature(p)
    <2>1. /\ UNCHANGED pkgs /\ run[p].pc = "signature" /\ Putting(p)
          /\ run'[p].pc \in {"packages", "signature"} /\ run'[p].seen = run[p].seen
          /\ sigs'[f] \in {0, staging[p].sig[f]}
          /\ \A g \in Files : g # f => sigs'[g] = sigs[g]
      BY <1>5, PutSignatureStep DEF KillState
    <2>2. staging[p].sig[f] = pkgs[f]
      BY <2>1, LoneCurrent DEF KillState, BaseInv, QueueInv
    <2>3. ASSUME NEW n \in Indexed(Tar)
          PROVE  sigs'[FileOf(Tar, n)] \in {0, Tar[n].sum}
      <3>1. FileOf(Tar, n) \in Files
        BY LoneTypes, DbFacts DEF KillState
      <3>2. QED
        BY <2>1, <2>2, <3>1 DEF KillState, KillInv
    <2>4. QED
      BY <1>1, <1>2, <2>1, <2>3 DEF KillState, KillInv
  <1>6. QED
    BY <1>3, <1>4, <1>5 DEF QueueStep

LEMMA KillPutDatabase == ASSUME NEW p, KillState(p), PutDatabase(p) PROVE KillInv(p)'
  <1> DEFINE D == staging[p].db
  <1>1. /\ UNCHANGED <<pkgs, sigs, staging>> /\ run[p].pc = "databases"
        /\ run'[p].pc \in {"databases", "snapshot"}
        /\ Tar' \in {Tar, NoDb, D}
    BY PutDatabaseStep, CalmDbFile DEF KillState, Tar
  <1>2. CASE Tar' = Tar
    BY <1>1, <1>2 DEF KillState, KillInv, Uploading
  <1>3. CASE Tar' = NoDb
    <2>1. Indexed(NoDb) = {} /\ \A f \in Files : NoDb[f[1]].ver # f[2]
      BY NameType, ByteType DEF Indexed, NoDb
    <2>2. QED
      BY <1>1, <1>3, <2>1 DEF KillInv, Indexed, Uploading
  <1>4. CASE Tar' = D
    <2>1. ASSUME NEW n \in Indexed(D)
          PROVE  /\ D[n].sum # 0 /\ pkgs[FileOf(D, n)] = D[n].sum
                 /\ sigs[FileOf(D, n)] = D[n].sum /\ staging[p].pkg[FileOf(D, n)] = D[n].sum
      BY <1>1 DEF KillState, BaseInv, IndexInv, QueueInv, Uploaded, Shipped
    <2>2. ASSUME NEW f \in Files, D[f[1]].ver = f[2] PROVE staging[p].pkg[f] = D[f[1]].sum
      <3>1. f[1] \in Indexed(D) /\ f = FileOf(D, f[1])
        BY <2>2, NameType, ByteType DEF Indexed, FileOf, Files
      <3>2. QED
        BY <2>1, <3>1
    <2>3. QED
      BY <1>1, <1>4, <2>1, <2>2 DEF KillInv, Indexed, FileOf, Uploading
  <1>5. QED
    BY <1>1, <1>2, <1>3, <1>4

LEMMA KillRest ==
    ASSUME NEW p, KillState(p), \/ Index(p) \/ Check(p) \/ Stamp(p) \/ Snapshot(p)
                                \/ Verify(p) \/ Tag(p) \/ Kill(p)
    PROVE  KillInv(p)'
  <1>1. UNCHANGED <<pkgs, sigs, dbs>> /\ Tar' = Tar
    BY IndexStep, CheckStep, RecordStep, KillStep DEF KillState, releaseVars, Tar
  <1>2. \A f \in Files : staging'[p].pkg[f] \in {0, staging[p].pkg[f]}
    <2>1. CASE Index(p)
      BY <2>1, IndexStep DEF KillState
    <2>2. CASE ~Index(p)
      BY <2>2, CheckStep, RecordStep, KillStep DEF KillState
    <2>3. QED
      BY <2>1, <2>2
  <1>3. run'[p].pc # "build" /\ (run'[p].pc \in Uploading => run'[p].seen = Tar)
    <2>1. CASE Check(p)
      BY <2>1, CheckStep, KillRead DEF KillState, Uploading
    <2>2. CASE ~Check(p)
      BY <2>2, IndexStep, RecordStep, KillStep DEF KillState, Uploading
    <2>3. QED
      BY <2>1, <2>2
  <1>4. QED
    BY <1>1, <1>2, <1>3 DEF KillState, KillInv

LEMMA KillNext == ASSUME NEW p, KillState(p), [Next]_vars PROVE KillInv(p)'
  BY NextCases, KillStutter, KillSandbox, KillEarly, KillQueue, KillPutDatabase, KillRest
     DEF KillState

\* However often a lone publisher's runs are killed, and wherever, no step shows
\* clients a database before everything it names is on the Release with its
\* bytes and signatures (publish-repo.sh:34-36).
THEOREM DatabaseLastDespiteKills ==
    ASSUME NEW p, Publishers = {p}, Faults \subseteq {"kill"} PROVE Spec => DatabaseLast
  <1> DEFINE I == BaseInv(p) /\ KillInv(p)
  <1>1. Init => I
    BY BaseInit, KillInit
  <1>2. TypeOK /\ I /\ [Next]_vars => I'
    BY BaseNext, KillTrust, KillNext DEF LoneState, KillState
  <1>3. ASSUME TypeOK, I, [Next]_vars, dbs'[DbFile.db] \notin {NoDb, dbs[DbFile.db]}
        PROVE  Installable(dbs[DbFile.db])'
    BY <1>3, BaseLast DEF LoneState
  <1> HIDE DEF I
  <1>4. QED
    BY <1>1, <1>2, <1>3, TypeCorrect, PTL DEF Spec, DatabaseLast

----------------------------------------------------------------------------
(* CI's reads bring an old database or none.  Then it rebuilds what is     *)
(* published and uploads what is there; but its builds are bytes no        *)
(* database names, and a run that is not killed leaves no package without  *)
(* its own signature.                                                      *)

Unnamed(p, f) == /\ Tar[f[1]].sum # staging[p].pkg[f]
                 /\ cdn[DbFile.tar][f[1]].sum # staging[p].pkg[f]
MisreadInv(p) ==
    /\ \A f \in Files : sigs[f] \in {0, pkgs[f]} \/ (Putting(p) /\ f = Current(p))
    /\ run[p].pc = "pull" => \A f \in Files : staging[p].pkg[f] = 0
    /\ run[p].pc \in {"read", "build", "check"} \cup Uploading =>
          \A f \in Files : staging[p].pkg[f] # 0 =>
              \/ staging[p].pkg[f] = pkgs[f] \/ Unnamed(p, f)
              \/ run[p].pc = "package" /\ f = Current(p)
    /\ run[p].pc \in Uploading => run[p].seen \in {Tar, cdn[DbFile.tar], NoDb}

MisreadState(p) == /\ LoneState(p) /\ p = "ci" /\ "kill" \notin Faults
                   /\ BaseInv(p) /\ MisreadInv(p)

LEMMA MisreadRead ==
    ASSUME NEW r \in Reads(DbFile.tar) PROVE r[1] \in {Tar, cdn[DbFile.tar], NoDb}
  BY DEF Reads, Tar

\* What a database on the Release or in the CDN names is no fresh build.
LEMMA NamedInUse ==
    ASSUME NEW i \in DbFiles, NEW b \in SumsOf(dbs[i]) \cup SumsOf(cdn[i])
    PROVE  b \in InUse
  <1> DEFINE S == {SumsOf(dbs[j]) \cup SumsOf(cdn[j]) : j \in DbFiles}
             A == {SumsOf(D) : D \in snaps}
             B == {SumsOf(staging[p].db) \cup SumsOf(run[p].seen) : p \in Publishers}
             C == {{pkgs[f], sigs[f]} : f \in Files}
             E == {{staging[p].pkg[f], staging[p].sig[f]} : p \in Publishers, f \in Files}
  <1>1. \E X \in S : b \in X
    OBVIOUS
  <1>2. InUse = UNION (A \cup S \cup B \cup C \cup E)
    BY DEF InUse
  <1> HIDE DEF S, A, B, C, E
  <1>3. QED
    BY <1>1, <1>2

\* A package the database read by Check names is skipped rightly: if its bytes were
\* built in this run, no database names them.
LEMMA MisreadTrust == ASSUME NEW p, MisreadState(p) PROVE Trust(p)
  <1>1. run[p].pc = "build" => \A f \in Files : sigs[f] \in {0, pkgs[f]}
    BY DEF MisreadState, MisreadInv, Putting
  <1>2. ASSUME run[p].pc = "packages", NEW n \in run[p].left,
               run[p].seen[n] = staging[p].db[n]
        PROVE  pkgs[FileOf(staging[p].db, n)] = staging[p].db[n].sum
    <2> DEFINE f == FileOf(staging[p].db, n)
    <2>1. n \in Indexed(staging[p].db)
      BY <1>2 DEF MisreadState, BaseInv, QueueInv, Uploading
    <2>2. /\ f \in Files /\ f[1] = n /\ n \in Names /\ staging[p].db[n].sum # 0
          /\ staging[p].pkg[f] = staging[p].db[n].sum
      BY <1>2, <2>1, LoneTypes, DbFacts DEF MisreadState, BaseInv, IndexInv, Uploading
    <2>3. run[p].seen[n].sum = staging[p].pkg[f]
      BY <1>2, <2>2
    <2>4. run[p].seen \in {Tar, cdn[DbFile.tar], NoDb} /\ NoDb[n].sum = 0
      BY <1>2, <2>2 DEF MisreadState, MisreadInv, Uploading, NoDb
    <2> HIDE DEF f
    <2>5. ~Unnamed(p, f)
      BY <2>2, <2>3, <2>4 DEF Unnamed
    <2>6. QED
      BY <1>2, <2>2, <2>5 DEF MisreadState, MisreadInv, Uploading, f
  <1>3. run[p].known \subseteq Files
    BY LoneTypes DEF MisreadState, Run
  <1>4. QED
    BY <1>1, <1>2, <1>3 DEF Trust

LEMMA MisreadInit == ASSUME NEW p, Publishers = {p}, Init PROVE MisreadInv(p)
  <1>1. run[p].pc = "idle"
    BY DEF Init, Idle
  <1>2. \A f \in Files : sigs[f] \in {0, pkgs[f]}
    BY DEF Init
  <1>3. QED
    BY <1>1, <1>2 DEF MisreadInv, Uploading

LEMMA MisreadStutter ==
    ASSUME NEW p, MisreadInv(p), UNCHANGED <<pkgs, sigs, dbs, cdn, staging, run>>
    PROVE  MisreadInv(p)'
  BY DEF MisreadInv, Tar, Unnamed, Putting, Current

LEMMA MisreadSandbox ==
    ASSUME NEW p, MisreadState(p), NEW v \in Versions, SandboxPackage(v) \/ SandboxSignature(v)
    PROVE  MisreadInv(p)'
  <1> DEFINE g == <<Kernel, v>>
  <1>1. /\ UNCHANGED <<dbs, cdn, staging, run>> /\ run[p].cur # Kernel /\ g \in Files
        /\ \A f \in Files : f # g => pkgs'[f] = pkgs[f] /\ sigs'[f] = sigs[f]
        /\ \/ pkgs[g] = 0 /\ pkgs'[g] = v /\ sigs'[g] = sigs[g]
           \/ pkgs[g] # 0 /\ pkgs'[g] = pkgs[g] /\ sigs'[g] = pkgs[g]
    BY SandboxStep DEF MisreadState
  <1>2. Putting(p) => Current(p) # g
    BY <1>1, LoneCurrent DEF MisreadState
  <1>3. sigs[g] \in {0, pkgs[g]} /\ staging[p].pkg[g] \in {0, v} /\ pkgs[g] \in {0, v}
    BY <1>1, <1>2 DEF MisreadState, MisreadInv, BaseInv, StageInv
  <1>4. \A f \in Files : sigs'[f] \in {0, pkgs'[f]} \/ (Putting(p) /\ f = Current(p))
    BY <1>1, <1>3 DEF MisreadState, MisreadInv
  <1>5. \A f \in Files : staging[p].pkg[f] # 0 /\ staging[p].pkg[f] = pkgs[f]
                            => staging[p].pkg[f] = pkgs'[f]
    BY <1>1
  <1>6. UNCHANGED <<Tar, Putting(p), Current(p)>> /\ \A f \in Files : Unnamed(p, f)' = Unnamed(p, f)
    BY <1>1 DEF Tar, Putting, Current, Unnamed
  <1>7. QED
    BY <1>1, <1>4, <1>5, <1>6 DEF MisreadState, MisreadInv

LEMMA MisreadEarly == ASSUME NEW p, MisreadState(p), EarlyStep(p) PROVE MisreadInv(p)'
  <1>1. /\ UNCHANGED <<pkgs, sigs, dbs, cdn>> /\ Tar' = Tar
        /\ run[p].pc \in Early /\ run'[p].pc \in Early
        /\ \A f \in Files : Fills(p, f)
    BY EarlyFacts DEF MisreadState, releaseVars, Tar
  <1>2. \A f \in Files : sigs[f] \in {0, pkgs[f]}
    BY <1>1 DEF MisreadState, MisreadInv, Putting, Early
  <1>3. CASE Start(p) \/ Abort(p)
    <2>1. [Idle EXCEPT !.pc = "pull", !.want = head].pc = "pull" /\ Idle.pc = "idle"
      BY DEF Idle
    <2>2. run'[p].pc \in {"idle", "pull"} /\ (run'[p].pc = "pull" => Start(p))
      BY <1>3, <2>1, LoneTypes DEF MisreadState, Start, Abort
    <2>3. Start(p) => \A f \in Files : staging'[p].pkg[f] = 0
      BY LoneTypes DEF MisreadState, Start, EmptyStaging, NoFiles
    <2>4. QED
      BY <1>1, <1>2, <2>2, <2>3 DEF MisreadInv, Uploading
  <1>4. CASE PullKernel(p) \/ NoPull(p) \/ \E v \in Versions : StageKernel(p, v)
    <2>1. run[p].pc = "pull" /\ run'[p].pc = "read"
      <3>1. run[p].pc = "pull" /\ run' = [run EXCEPT ![p].pc = "read"]
        BY <1>4 DEF PullKernel, NoPull, StageKernel
      <3>2. QED
        BY <3>1, LoneTypes DEF MisreadState, Run
    <2>2. \A f \in Files : staging'[p].pkg[f] \in {0, pkgs[f]}
      BY <1>4, <2>1, FillPull DEF MisreadState, MisreadInv
    <2>3. QED
      BY <1>1, <1>2, <2>1, <2>2 DEF MisreadInv, Uploading
  <1>5. CASE ReadPublished(p) \/ \E n \in Anys : BuildPackage(p, n)
    <2>1. run[p].pc \in {"read", "build"} /\ run'[p].pc = "build"
      <3>1. CASE ReadPublished(p)
        <4>1. PICK known : run' = [run EXCEPT ![p].pc = "build", ![p].left = Anys,
                                              ![p].known = known]
          BY <3>1 DEF ReadPublished
        <4>2. QED
          BY <3>1, <4>1, LoneTypes DEF MisreadState, ReadPublished, Run
      <3>2. CASE \E n \in Anys : BuildPackage(p, n)
        BY <3>2, LoneTypes DEF MisreadState, BuildPackage, Run
      <3>3. QED
        BY <1>5, <3>1, <3>2
    <2>2. ASSUME NEW f \in Files, staging'[p].pkg[f] # 0
          PROVE  staging'[p].pkg[f] = pkgs[f] \/ Unnamed(p, f)'
      <3>1. CASE staging'[p].pkg[f] = staging[p].pkg[f]
        BY <1>1, <2>1, <2>2, <3>1 DEF MisreadState, MisreadInv, Unnamed
      <3>2. CASE staging'[p].pkg[f] \in BuildBytes \ InUse
        <4>1. f[1] \in Names /\ DbFile.tar \in DbFiles
          BY CalmDbFile DEF Files
        <4>2. /\ Tar[f[1]].sum \in SumsOf(dbs[DbFile.tar])
              /\ cdn[DbFile.tar][f[1]].sum \in SumsOf(cdn[DbFile.tar])
          BY <4>1 DEF SumsOf, Tar
        <4>3. Tar[f[1]].sum \in InUse /\ cdn[DbFile.tar][f[1]].sum \in InUse
          BY <4>1, <4>2, NamedInUse
        <4>4. QED
          BY <1>1, <3>2, <4>3 DEF Unnamed
      <3>3. QED
        <4>1. p # "desk"
          BY DEF MisreadState
        <4>2. QED
          BY <1>1, <2>2, <3>1, <3>2, <4>1 DEF Fills
    <2>3. QED
      BY <1>1, <1>2, <2>1, <2>2 DEF MisreadInv, Uploading
  <1>6. QED
    BY <1>3, <1>4, <1>5 DEF EarlyStep

LEMMA MisreadQueue == ASSUME NEW p, MisreadState(p), QueueStep(p) PROVE MisreadInv(p)'
  <1> DEFINE f == Current(p)
  <1>1. UNCHANGED <<dbs, cdn, staging>> /\ Tar' = Tar /\ \A g \in Files : Unnamed(p, g)' = Unnamed(p, g)
    BY DEF QueueStep, NextPackage, PutPackage, PutSignature, LastPackage, releaseVars, Tar, Unnamed
  <1>2. run[p].pc \in Uploading
    BY DEF QueueStep, NextPackage, PutPackage, PutSignature, LastPackage, Uploading
  <1>3. CASE (\E n \in Names : NextPackage(p, n)) \/ LastPackage(p)
    <2>1. /\ UNCHANGED <<pkgs, sigs>> /\ run[p].pc = "packages"
          /\ \/ run'[p].pc = "databases"
             \/ run'[p].pc \in Uploading /\ run'[p].seen = run[p].seen
      BY <1>3, NextPackageStep, LastPackageStep DEF MisreadState, releaseVars, Uploading
    <2>2. QED
      BY <1>1, <2>1 DEF MisreadState, MisreadInv, Uploading, Putting
  <1>4. CASE PutPackage(p)
    <2>1. /\ UNCHANGED sigs /\ run[p].pc = "package" /\ Putting(p)' /\ Current(p)' = f
          /\ \/ run'[p].pc = "package"
             \/ run'[p].pc = "signature" /\ pkgs'[f] = staging[p].pkg[f]
          /\ run'[p].seen = run[p].seen
          /\ \A g \in Files : g # f => pkgs'[g] = pkgs[g]
      BY <1>4, PutPackageStep DEF MisreadState
    <2>2. \A g \in Files : sigs'[g] \in {0, pkgs'[g]} \/ (Putting(p)' /\ g = Current(p)')
      BY <2>1 DEF MisreadState, MisreadInv
    <2>3. ASSUME NEW g \in Files, staging[p].pkg[g] # 0
          PROVE  \/ staging[p].pkg[g] = pkgs'[g] \/ Unnamed(p, g)'
                 \/ run'[p].pc = "package" /\ g = Current(p)'
      BY <1>1, <1>2, <2>1, <2>3 DEF MisreadState, MisreadInv
    <2>4. run'[p].seen \in {Tar, cdn[DbFile.tar], NoDb}
      BY <1>2, <2>1 DEF MisreadState, MisreadInv
    <2>5. QED
      BY <1>1, <2>1, <2>2, <2>3, <2>4 DEF MisreadInv
  <1>5. CASE PutSignature(p)
    <2>1. /\ UNCHANGED pkgs /\ run[p].pc = "signature" /\ Putting(p)
          /\ \/ run'[p].pc = "signature" /\ Current(p)' = f
             \/ run'[p].pc = "packages" /\ sigs'[f] = staging[p].sig[f]
          /\ run'[p].seen = run[p].seen
          /\ \A g \in Files : g # f => sigs'[g] = sigs[g]
      BY <1>5, PutSignatureStep DEF MisreadState
    <2>2. staging[p].sig[f] = pkgs[f]
      BY <2>1, LoneCurrent DEF MisreadState, BaseInv, QueueInv
    <2>3. \A g \in Files : sigs'[g] \in {0, pkgs[g]} \/ (Putting(p)' /\ g = Current(p)')
      BY <2>1, <2>2 DEF MisreadState, MisreadInv, Putting
    <2>4. QED
      BY <1>1, <1>2, <2>1, <2>3 DEF MisreadState, MisreadInv, Uploading
  <1>6. QED
    BY <1>3, <1>4, <1>5 DEF QueueStep

LEMMA MisreadRest ==
    ASSUME NEW p, MisreadState(p),
           \/ Index(p) \/ Check(p) \/ PutDatabase(p)
           \/ Stamp(p) \/ Snapshot(p) \/ Verify(p) \/ Tag(p)
    PROVE  MisreadInv(p)'
  <1>1. UNCHANGED <<pkgs, sigs>> /\ ~Putting(p)
    BY IndexStep, CheckStep, RecordStep, PutDatabaseStep DEF MisreadState, releaseVars, Putting
  <1>2. \A f \in Files : sigs[f] \in {0, pkgs[f]}
    BY <1>1 DEF MisreadState, MisreadInv
  <1>3. CASE Index(p) \/ Check(p)
    <2>1. UNCHANGED <<dbs, cdn>> /\ Tar' = Tar /\ run[p].pc \in {"build", "check"}
      BY <1>3, IndexStep, CheckStep DEF MisreadState, releaseVars, Tar
    <2>2. \A f \in Files : staging'[p].pkg[f] \in {0, staging[p].pkg[f]}
      <3>1. CASE Index(p)
        BY <3>1, IndexStep DEF MisreadState
      <3>2. CASE Check(p)
        BY <3>2, CheckStep DEF MisreadState
      <3>3. QED
        BY <1>3, <3>1, <3>2
    <2>3. \A f \in Files : staging'[p].pkg[f] # 0 =>
              staging'[p].pkg[f] = pkgs[f] \/ Unnamed(p, f)'
      BY <2>1, <2>2 DEF MisreadState, MisreadInv, Unnamed
    <2>4. /\ run'[p].pc \in {"idle", "check", "verify", "packages"}
          /\ run'[p].pc = "packages" => run'[p].seen \in {Tar, cdn[DbFile.tar], NoDb}
      <3>1. CASE Index(p)
        BY <3>1, IndexStep DEF MisreadState
      <3>2. CASE Check(p)
        BY <3>2, CheckStep, MisreadRead DEF MisreadState
      <3>3. QED
        BY <1>3, <3>1, <3>2
    <2>5. QED
      BY <1>1, <1>2, <2>1, <2>3, <2>4 DEF MisreadInv, Uploading
  <1>4. CASE PutDatabase(p) \/ Stamp(p) \/ Snapshot(p) \/ Verify(p) \/ Tag(p)
    <2>1. run'[p].pc \in {"databases", "snapshot", "verify", "tag", "idle"}
      BY <1>4, PutDatabaseStep, RecordStep DEF MisreadState
    <2>2. QED
      BY <1>1, <1>2, <2>1 DEF MisreadInv, Uploading
  <1>5. QED
    BY <1>3, <1>4

LEMMA MisreadNext == ASSUME NEW p, MisreadState(p), [Next]_vars PROVE MisreadInv(p)'
  <1>1. ~Kill(p)
    BY DEF MisreadState, Kill
  <1>2. QED
    BY <1>1, NextCases, MisreadStutter, MisreadSandbox, MisreadEarly, MisreadQueue, MisreadRest
       DEF MisreadState

\* However often CI is shown an old database, or none, when it asks what is
\* published: no step shows clients a database before everything it names is on
\* the Release with its bytes and signatures (publish-repo.sh:34-36).
THEOREM DatabaseLastDespiteMisreads ==
    ASSUME Publishers = {"ci"}, "kill" \notin Faults PROVE Spec => DatabaseLast
  <1> DEFINE I == BaseInv("ci") /\ MisreadInv("ci")
  <1>1. Init => I
    BY BaseInit, MisreadInit
  <1>2. TypeOK /\ I /\ [Next]_vars => I'
    BY BaseNext, MisreadTrust, MisreadNext DEF LoneState, MisreadState
  <1>3. ASSUME TypeOK, I, [Next]_vars, dbs'[DbFile.db] \notin {NoDb, dbs[DbFile.db]}
        PROVE  Installable(dbs[DbFile.db])'
    BY <1>3, BaseLast DEF LoneState
  <1> HIDE DEF I
  <1>4. QED
    BY <1>1, <1>2, <1>3, TypeCorrect, PTL DEF Spec, DatabaseLast

----------------------------------------------------------------------------
(* CI's kernel: pull-kernel.sh lists the Release, it does not ask the      *)
(* database, so a wrong answer cannot make CI forget the published one.    *)

\* The six database files are one database, but while they are uploaded.
OneDatabase(p) ==
    /\ run[p].pc # "databases" => run[p].pos = 1 /\ \A i \in DbFiles : dbs[i] = Live
    /\ run[p].pc = "databases" =>
           \A i \in DbFiles : i < run[p].pos => dbs[i] = staging[p].db

\* The published kernel is on the Release (or being put back), is in staging once
\* pulled, and so is not newer than what is indexed.
KernelKept(p) ==
    /\ Live[Kernel].ver # 0 => \/ pkgs[<<Kernel, Live[Kernel].ver>>] # 0
                               \/ run[p].pc = "package" /\ Current(p) = <<Kernel, Live[Kernel].ver>>
    /\ run[p].pc # "databases" => cdn[DbFile.db][Kernel].ver <= Live[Kernel].ver
    /\ run[p].pc \in {"read", "build"} /\ Live[Kernel].ver # 0
          => staging[p].pkg[<<Kernel, Live[Kernel].ver>>] # 0
    /\ run[p].pc \in {"check"} \cup Uploading => Live[Kernel].ver <= staging[p].db[Kernel].ver
    /\ run[p].pc = "databases" =>
          /\ Live[Kernel].ver <= staging[p].db[Kernel].ver
          /\ cdn[DbFile.db][Kernel].ver <= staging[p].db[Kernel].ver

KernelMisreadInv(p) == OneDatabase(p) /\ KernelKept(p) /\ KernelNeverOlder

LiveKernel == <<Kernel, Live[Kernel].ver>>

LEMMA LiveKernelType ==
    ASSUME NEW p, LoneState(p)
    PROVE  /\ Live[Kernel].ver \in Nat /\ staging[p].db[Kernel].ver \in Nat
           /\ cdn[DbFile.db][Kernel].ver \in Nat
           /\ Live[Kernel].ver # 0 => /\ LiveKernel \in Files /\ LiveKernel[1] = Kernel
                                      /\ Live[Kernel].ver \in Versions
  BY LoneTypes, NameType, DbFacts DEF LiveKernel, Indexed, Files

LEMMA KernelMisreadInit == ASSUME NEW p, Publishers = {p}, Init PROVE KernelMisreadInv(p)
  <1>1. run[p].pc = "idle" /\ run[p].pos = 1 /\ cdn[DbFile.db] = NoDb
    BY CalmDbFile DEF Init, Idle
  <1>2. PICK published \in BOOLEAN :
          LET Here(f) == f[2] = 1 /\ (published \/ f[1] = Kernel)
          IN  /\ pkgs = [f \in Files |-> IF Here(f) THEN FirstDb[f[1]].sum ELSE 0]
              /\ dbs = [i \in DbFiles |-> IF published THEN FirstDb ELSE NoDb]
    BY DEF Init
  <1>3. /\ \A i \in DbFiles : dbs[i] = IF published THEN FirstDb ELSE NoDb
        /\ Live = IF published THEN FirstDb ELSE NoDb
    BY <1>2, CalmDbFile DEF Live
  <1>4. NoDb[Kernel].ver = 0 /\ FirstDb[Kernel].ver = 1 /\ FirstDb[Kernel].sum = 1
    BY NameType DEF NoDb, FirstDb
  <1>5. pkgs[<<Kernel, 1>>] = 1
    BY <1>2, <1>4, NameType, ByteType
  <1>6. OneDatabase(p)
    BY <1>1, <1>3 DEF OneDatabase
  <1>7. KernelKept(p)
    BY <1>1, <1>3, <1>4, <1>5 DEF KernelKept, Uploading
  <1>8. KernelNeverOlder
    BY <1>1, <1>3, <1>4 DEF KernelNeverOlder, Live
  <1>9. QED
    BY <1>6, <1>7, <1>8 DEF KernelMisreadInv

LEMMA KernelMisreadStutter ==
    ASSUME NEW p, KernelMisreadInv(p), UNCHANGED <<pkgs, dbs, cdn, staging, run>>
    PROVE  KernelMisreadInv(p)'
  BY DEF KernelMisreadInv, OneDatabase, KernelKept, KernelNeverOlder, Live, Current

LEMMA KernelMisreadSandbox ==
    ASSUME NEW p, LoneState(p), KernelMisreadInv(p), NEW v \in Versions,
           SandboxPackage(v) \/ SandboxSignature(v)
    PROVE  KernelMisreadInv(p)'
  <1>1. /\ UNCHANGED <<dbs, cdn, staging, run>>
        /\ \A f \in Files : pkgs[f] # 0 => pkgs'[f] # 0
    BY SandboxStep
  <1>2. Live' = Live /\ UNCHANGED Current(p)
    BY <1>1 DEF Live, Current
  <1>3. Live[Kernel].ver # 0 /\ pkgs[LiveKernel] # 0 => pkgs'[LiveKernel] # 0
    BY <1>1, LiveKernelType
  <1>4. QED
    BY <1>1, <1>2, <1>3
       DEF KernelMisreadInv, OneDatabase, KernelKept, KernelNeverOlder, LiveKernel

\* What a step that leaves the Release alone keeps of it.
LEMMA KernelAtRest ==
    ASSUME NEW p, LoneState(p), KernelMisreadInv(p), UNCHANGED <<pkgs, dbs, cdn>>,
           run[p].pc \notin {"package", "databases"}, run'[p].pc # "databases",
           run'[p].pos = 1,
           run'[p].pc \in {"read", "build"} /\ Live[Kernel].ver # 0
              => staging'[p].pkg[LiveKernel] # 0,
           run'[p].pc \in {"check"} \cup Uploading
              => Live[Kernel].ver <= staging'[p].db[Kernel].ver
    PROVE  KernelMisreadInv(p)'
  <1>1. Live' = Live
    BY DEF Live
  <1>2. QED
    BY <1>1 DEF KernelMisreadInv, OneDatabase, KernelKept, KernelNeverOlder, LiveKernel

LEMMA KernelMisreadEarly ==
    ASSUME NEW p, LoneState(p), p = "ci", KernelMisreadInv(p), EarlyStep(p)
    PROVE  KernelMisreadInv(p)'
  <1>1. /\ UNCHANGED <<pkgs, dbs, cdn>> /\ run[p].pc \in Early /\ run'[p].pc \in Early
        /\ run'[p].pos = 1
    BY EarlyFacts DEF releaseVars, Early, KernelMisreadInv, OneDatabase
  <1>2. Live[Kernel].ver # 0 => pkgs[LiveKernel] # 0
    BY <1>1 DEF KernelMisreadInv, KernelKept, LiveKernel, Early
  <1>3. ASSUME run'[p].pc \in {"read", "build"}, Live[Kernel].ver # 0
        PROVE  staging'[p].pkg[LiveKernel] # 0
    <2>1. LiveKernel \in Files /\ LiveKernel[1] = Kernel
      BY <1>3, LiveKernelType
    <2>2. CASE Start(p) \/ Abort(p)
      <3>1. [Idle EXCEPT !.pc = "pull", !.want = head].pc = "pull" /\ Idle.pc = "idle"
        BY DEF Idle
      <3>2. run'[p].pc \in {"idle", "pull"}
        BY <2>2, <3>1, LoneTypes DEF Start, Abort
      <3>3. QED
        BY <1>3, <3>2
    <2>3. CASE PullKernel(p) \/ NoPull(p) \/ \E v \in Versions : StageKernel(p, v)
      BY <1>2, <1>3, <2>1, <2>3, FillPull
    <2>4. CASE ReadPublished(p)
      BY <1>3, <2>4 DEF ReadPublished, KernelMisreadInv, KernelKept, LiveKernel
    <2>5. ASSUME NEW n \in Anys, BuildPackage(p, n) PROVE staging'[p].pkg[LiveKernel] # 0
      <3>1. staging'[p].pkg[LiveKernel] = staging[p].pkg[LiveKernel]
        BY <2>1, <2>5, FillBuild
      <3>2. QED
        BY <1>3, <2>5, <3>1 DEF BuildPackage, KernelMisreadInv, KernelKept, LiveKernel
    <2>6. QED
      BY <2>2, <2>3, <2>4, <2>5 DEF EarlyStep
  <1>4. QED
    BY <1>1, <1>3, KernelAtRest DEF Early, Uploading

\* Pulled, hence indexed: the newest kernel wins.
LEMMA KernelMisreadIndex ==
    ASSUME NEW p, LoneState(p), KernelMisreadInv(p), Index(p) PROVE KernelMisreadInv(p)'
  <1>1. /\ UNCHANGED <<pkgs, dbs, cdn>> /\ run[p].pc = "build" /\ run'[p].pc = "check"
        /\ run'[p].pos = 1 /\ staging'[p].db = RepoAdd(staging[p])
    BY IndexStep DEF releaseVars, KernelMisreadInv, OneDatabase
  <1>2. Live[Kernel].ver <= RepoAdd(staging[p])[Kernel].ver
    <2>1. RepoAdd(staging[p])[Kernel].ver \in Nat
      BY LoneTypes, NameType, DbType, DbFacts
    <2>2. CASE Live[Kernel].ver = 0
      BY <2>1, <2>2
    <2>3. CASE Live[Kernel].ver # 0
      <3>1. Live[Kernel].ver \in Versions
        BY <2>3, LiveKernelType
      <3>2. staging[p].pkg[<<Kernel, Live[Kernel].ver>>] # 0
        BY <1>1, <2>3 DEF KernelMisreadInv, KernelKept
      <3>3. QED
        BY <3>1, <3>2, LoneTypes, NameType, RepoAddEntry
    <2>4. QED
      BY <2>2, <2>3
  <1>3. QED
    BY <1>1, <1>2, KernelAtRest

LEMMA KernelMisreadQueue ==
    ASSUME NEW p, LoneState(p), BaseInv(p), KernelMisreadInv(p), QueueStep(p)
    PROVE  KernelMisreadInv(p)'
  <1> DEFINE f == Current(p)
  <1>1. /\ UNCHANGED <<dbs, cdn, staging>> /\ run[p].pc \in Uploading
    BY DEF QueueStep, NextPackage, PutPackage, PutSignature, LastPackage, releaseVars, Uploading
  <1>2. /\ Live' = Live /\ run[p].pos = 1
        /\ Live[Kernel].ver <= staging[p].db[Kernel].ver
        /\ cdn[DbFile.db][Kernel].ver <= Live[Kernel].ver
    BY <1>1 DEF Live, KernelMisreadInv, OneDatabase, KernelKept, Uploading
  <1>3. cdn[DbFile.db][Kernel].ver <= staging[p].db[Kernel].ver
    BY <1>2, LiveKernelType
  <1>4. run'[p].pos = 1 /\ run'[p].pc \in Uploading \cup {"databases"}
    BY <1>2, NextPackageStep, PutPackageStep, PutSignatureStep, LastPackageStep
       DEF QueueStep, Uploading
  <1>5. Live[Kernel].ver # 0 => \/ pkgs'[LiveKernel] # 0
                                \/ run'[p].pc = "package" /\ Current(p)' = LiveKernel
    <2>1. SUFFICES ASSUME Live[Kernel].ver # 0
                   PROVE  \/ pkgs'[LiveKernel] # 0
                          \/ run'[p].pc = "package" /\ Current(p)' = LiveKernel
      OBVIOUS
    <2>2. LiveKernel \in Files
      BY <2>1, LiveKernelType
    <2>3. pkgs[LiveKernel] # 0 \/ (run[p].pc = "package" /\ f = LiveKernel)
      BY <2>1 DEF KernelMisreadInv, KernelKept, LiveKernel
    <2>4. CASE (\E n \in Names : NextPackage(p, n)) \/ PutSignature(p) \/ LastPackage(p)
      BY <2>3, <2>4 DEF NextPackage, PutSignature, LastPackage, releaseVars
    <2>5. CASE PutPackage(p)
      <3>1. /\ \/ run'[p].pc = "package"
               \/ pkgs'[f] = staging[p].pkg[f]
            /\ Current(p)' = f /\ Putting(p)
            /\ \A g \in Files : g # f => pkgs'[g] = pkgs[g]
        BY <2>5, PutPackageStep
      <3>2. staging[p].pkg[f] # 0
        BY <3>1, LoneCurrent
      <3>3. QED
        BY <2>2, <2>3, <3>1, <3>2
    <2>6. QED
      BY <2>4, <2>5 DEF QueueStep
  <1>6. OneDatabase(p)'
    BY <1>1, <1>2, <1>4, CalmDbFile DEF KernelMisreadInv, OneDatabase, Uploading
  <1>7. KernelKept(p)'
    BY <1>1, <1>2, <1>3, <1>4, <1>5 DEF KernelKept, LiveKernel, Uploading
  <1>8. KernelNeverOlder'
    BY <1>1 DEF KernelMisreadInv, KernelNeverOlder
  <1>9. QED
    BY <1>6, <1>7, <1>8 DEF KernelMisreadInv

LEMMA KernelMisreadPutDatabase ==
    ASSUME NEW p, LoneState(p), BaseInv(p), KernelMisreadInv(p), PutDatabase(p)
    PROVE  KernelMisreadInv(p)'
  <1> DEFINE i == run[p].pos
             D == staging[p].db
  <1>1. /\ UNCHANGED <<pkgs, sigs, staging>> /\ run[p].pc = "databases" /\ i \in 1 .. 6
        /\ \/ /\ run'[p].pc = "databases" /\ run'[p].pos = i
              /\ dbs'[i] = NoDb /\ cdn'[i] = dbs[i]
           \/ /\ run'[p].pc = (IF i = 6 THEN "snapshot" ELSE "databases")
              /\ run'[p].pos = (IF i = 6 THEN 1 ELSE i + 1)
              /\ dbs'[i] = D /\ cdn'[i] = cdn[i]
        /\ \A j \in DbFiles : j # i => dbs'[j] = dbs[j] /\ cdn'[j] = cdn[j]
    BY PutDatabaseStep
  <1>2. \/ Live' = Live /\ cdn'[DbFile.db] = cdn[DbFile.db]
        \/ Live' = NoDb /\ cdn'[DbFile.db] = Live
        \/ Live' = D /\ cdn'[DbFile.db] = cdn[DbFile.db]
    BY <1>1, CalmDbFile DEF Live
  <1>3. /\ Live[Kernel].ver <= D[Kernel].ver /\ cdn[DbFile.db][Kernel].ver <= D[Kernel].ver
        /\ NoDb[Kernel].ver = 0
    BY <1>1, NameType DEF KernelMisreadInv, KernelKept, NoDb
  <1>4. OneDatabase(p)'
    <2>1. \A j \in DbFiles : j < i => dbs[j] = D
      BY <1>1 DEF KernelMisreadInv, OneDatabase
    <2>2. CASE run'[p].pc = "databases"
      <3>1. \A j \in DbFiles : j < run'[p].pos => dbs'[j] = D
        BY <1>1, <2>1, <2>2, CalmDbFile
      <3>2. QED
        BY <1>1, <2>2, <3>1 DEF OneDatabase
    <2>3. CASE run'[p].pc = "snapshot"
      <3>1. run'[p].pos = 1 /\ \A j \in DbFiles : dbs'[j] = D
        BY <1>1, <2>1, <2>3, CalmDbFile
      <3>2. QED
        BY <2>3, <3>1, CalmDbFile DEF OneDatabase, Live
    <2>4. QED
      BY <1>1, <2>2, <2>3
  <1>5. Live'[Kernel].ver # 0 => pkgs'[<<Kernel, Live'[Kernel].ver>>] # 0
    <2>1. CASE Live' = Live
      BY <1>1, <2>1 DEF KernelMisreadInv, KernelKept
    <2>2. CASE Live' = NoDb
      BY <1>3, <2>2
    <2>3. CASE Live' = D
      <3>1. D[Kernel].ver # 0 => Kernel \in Indexed(D) /\ FileOf(D, Kernel) = <<Kernel, D[Kernel].ver>>
        BY NameType DEF Indexed, FileOf
      <3>2. \A n \in Indexed(D) : pkgs[FileOf(D, n)] # 0
        BY <1>1 DEF BaseInv, IndexInv, QueueInv, Uploaded, Shipped
      <3>3. QED
        BY <1>1, <2>3, <3>1, <3>2
    <2>4. QED
      BY <1>2, <2>1, <2>2, <2>3
  <1>6. /\ Live'[Kernel].ver <= D[Kernel].ver
        /\ cdn'[DbFile.db][Kernel].ver <= D[Kernel].ver
    BY <1>2, <1>3, LiveKernelType
  <1>7. run'[p].pc # "databases" => Live' = D
    <2>1. CASE run'[p].pc # "databases"
      <3>1. i = 6 /\ dbs[DbFile.db] = D /\ DbFile.db # i
        BY <1>1, <2>1, CalmDbFile DEF KernelMisreadInv, OneDatabase
      <3>2. QED
        BY <1>1, <3>1, CalmDbFile DEF Live
    <2>2. QED
      BY <2>1
  <1>8. KernelKept(p)'
    BY <1>1, <1>5, <1>6, <1>7 DEF KernelKept, Uploading
  <1>9. KernelNeverOlder'
    BY <1>2, <1>3 DEF KernelMisreadInv, KernelNeverOlder, Live
  <1>10. QED
    BY <1>4, <1>8, <1>9 DEF KernelMisreadInv

LEMMA KernelMisreadRest ==
    ASSUME NEW p, LoneState(p), KernelMisreadInv(p),
           Check(p) \/ Stamp(p) \/ Snapshot(p) \/ Verify(p) \/ Tag(p)
    PROVE  KernelMisreadInv(p)'
  <1>1. /\ UNCHANGED <<pkgs, dbs, cdn>> /\ staging'[p].db = staging[p].db
        /\ run[p].pc \in {"check", "snapshot", "verify", "tag"} /\ run'[p].pos = 1
    BY CheckStep, RecordStep DEF releaseVars, KernelMisreadInv, OneDatabase
  <1>2. /\ run'[p].pc \in {"idle", "packages", "snapshot", "verify", "tag"}
        /\ run'[p].pc = "packages" => run[p].pc = "check"
    BY CheckStep, RecordStep
  <1>3. run'[p].pc \in {"check"} \cup Uploading
           => Live[Kernel].ver <= staging'[p].db[Kernel].ver
    BY <1>1, <1>2 DEF Uploading, KernelMisreadInv, KernelKept
  <1>4. QED
    BY <1>1, <1>2, <1>3, KernelAtRest

LEMMA KernelMisreadNext ==
    ASSUME NEW p, MisreadState(p), KernelMisreadInv(p), [Next]_vars PROVE KernelMisreadInv(p)'
  <1>1. ~Kill(p)
    BY DEF MisreadState, Kill
  <1>2. QED
    BY <1>1, NextCases, KernelMisreadStutter, KernelMisreadSandbox, KernelMisreadEarly,
       KernelMisreadIndex, KernelMisreadQueue, KernelMisreadPutDatabase, KernelMisreadRest
       DEF MisreadState

\* Whatever CI is shown when it asks what is published, and whatever a push reverts,
\* a kernel once visible to clients is never replaced by an older one.
THEOREM KernelOnlyAdvances ==
    ASSUME Publishers = {"ci"}, "kill" \notin Faults PROVE Spec => []KernelNeverOlder
  <1> DEFINE I == BaseInv("ci") /\ MisreadInv("ci") /\ KernelMisreadInv("ci")
  <1>1. Init => I
    BY BaseInit, MisreadInit, KernelMisreadInit
  <1>2. TypeOK /\ I /\ [Next]_vars => I'
    BY BaseNext, MisreadTrust, MisreadNext, KernelMisreadNext DEF LoneState, MisreadState
  <1>3. I => KernelNeverOlder
    BY DEF KernelMisreadInv
  <1> HIDE DEF I
  <1>4. QED
    BY <1>1, <1>2, <1>3, TypeCorrect, PTL DEF Spec

=============================================================================
