-------------------------- MODULE RepoPublish_proofs --------------------------
(***************************************************************************)
(* Theorems about RepoPublish, for every set of packages and publishers    *)
(* and every bound.                                                        *)
(***************************************************************************)
EXTENDS RepoPublish, TLAPS, WellFoundedInduction

----------------------------------------------------------------------------
(* Types of what the scripts read and build.                               *)

\* Bytes that may be signed, indexed or uploaded are numbers.
LEMMA ByteType ==
    /\ MaxVer \in Nat /\ MaxVer >= 1
    /\ Versions \subseteq Nat /\ 1 \in Versions
    /\ \A v \in Versions : v \in 0 .. MaxVer /\ v # 0
    /\ BuildBytes \subseteq Nat
    /\ FirstBytes \in [Anys -> BuildBytes]
    /\ BuildBytes \ InUse # {} => FreshBytes \in Nat
  <1>1. MaxVer \in Nat /\ MaxVer >= 1 /\ MaxBytes \in Nat
    BY PublishBound
  <1>2. BuildBytes \subseteq Nat
    BY <1>1 DEF BuildBytes
  <1>3. FirstBytes \in [Anys -> BuildBytes]
    BY EnoughBytes DEF FirstBytes
  <1>4. ASSUME BuildBytes \ InUse # {} PROVE FreshBytes \in Nat
    <2>1. \E b \in BuildBytes : b \notin InUse
      BY <1>4
    <2>2. FreshBytes \in BuildBytes
      BY <2>1 DEF FreshBytes
    <2>3. QED
      BY <2>2, <1>2
  <1>5. QED
    BY <1>1, <1>2, <1>3, <1>4 DEF Versions

\* The names and database files that occur in the scripts.
LEMMA NameType ==
    /\ Kernel \in Names /\ Anys \subseteq Names
    /\ \A n \in Names, v \in Versions : <<n, v>> \in Files
    /\ \A f \in Files : f[1] \in Names /\ f[2] \in Versions /\ f = <<f[1], f[2]>>
    /\ {DbFile.db, DbFile.dbSig, DbFile.tar, DbFile.tarSig} \subseteq DbFiles
    /\ 1 \in DbFiles
  BY DEF Names, Files, DbFile, DbFiles

\* The empty and the first database, and an index of a typed staging directory.
LEMMA DbType ==
    /\ NoDb \in Db /\ FirstDb \in Db
    /\ EmptyStaging \in Staging /\ Idle \in Run
    /\ \A s \in Staging : RepoAdd(s) \in Db
  <1>1. NoDb \in Db
    BY ByteType DEF NoDb, Db, Entry
  <1>2. FirstDb \in Db
    <2>1. ASSUME NEW n \in Names
          PROVE  [ver |-> 1, sum |-> IF n = Kernel THEN 1 ELSE FirstBytes[n]] \in Entry
      <3>1. n # Kernel => FirstBytes[n] \in Nat
        BY ByteType DEF Names
      <3>2. QED
        BY <3>1, ByteType DEF Entry
    <2>2. QED
      BY <2>1 DEF FirstDb, Db
  <1>3. EmptyStaging \in Staging
    BY <1>1 DEF EmptyStaging, Staging, NoFiles
  <1>4. Idle \in Run
    BY <1>1, ByteType, NameType DEF Idle, Run, Stages
  <1>5. ASSUME NEW s \in Staging PROVE RepoAdd(s) \in Db
    <2>1. ASSUME NEW n \in Names, \E v \in Versions : Kept(s, <<n, v>>)
          PROVE  LET v == CHOOSE v \in Versions : Kept(s, <<n, v>>)
                 IN  [ver |-> v, sum |-> s.pkg[<<n, v>>]] \in Entry
      <3> DEFINE v == CHOOSE v \in Versions : Kept(s, <<n, v>>)
      <3>1. v \in Versions
        BY <2>1
      <3>2. s.pkg[<<n, v>>] \in Nat
        BY <3>1, NameType DEF Staging
      <3>3. QED
        BY <3>1, <3>2, ByteType DEF Entry
    <2>2. \A n \in Names : NoDb[n] \in Entry
      BY <1>1 DEF Db
    <2>3. QED
      BY <2>1, <2>2 DEF RepoAdd, Db
  <1>6. QED
    BY <1>1, <1>2, <1>3, <1>4, <1>5

\* A read brings a database and costs at most one fault.
LEMMA ReadType ==
    ASSUME TypeOK, NEW i \in DbFiles, NEW r \in Reads(i)
    PROVE  r[1] \in Db /\ r[2] \in {0, 1}
  BY DbType DEF Reads, TypeOK

LEMMA CostType ==
    ASSUME TypeOK, NEW n \in {0, 1}, Costs(n)
    PROVE  faults' \in Nat
  BY DEF Costs, TypeOK

\* A publisher that takes up a typed run, or a typed staging directory, leaves
\* the types of the others alone.
LEMMA LocalType ==
    ASSUME TypeOK, NEW p \in Publishers
    PROVE  /\ run[p] \in Run /\ staging[p] \in Staging
           /\ \A r \in Run : [run EXCEPT ![p] = r] \in [Publishers -> Run]
           /\ \A s \in Staging :
                  [staging EXCEPT ![p] = s] \in [Publishers -> Staging]
  BY DEF TypeOK

\* What a run looks at is typed.
LEMMA CurrentType ==
    ASSUME TypeOK, NEW p \in Publishers
    PROVE  /\ \A n \in Anys : Wanted(p, n) \in Files
           /\ \A n \in Indexed(staging[p].db) : FileOf(staging[p].db, n) \in Files
           /\ \A D \in Db : \A n \in Indexed(D) : FileOf(D, n) \in Files
  <1>1. ASSUME NEW n \in Anys PROVE Wanted(p, n) \in Files
    <2>1. run[p].want[n] \in Versions
      BY LocalType DEF Run
    <2>2. QED
      BY <2>1, NameType DEF Wanted
  <1>2. ASSUME NEW D \in Db, NEW n \in Indexed(D) PROVE FileOf(D, n) \in Files
    <2>1. n \in Names /\ D[n].ver \in Versions
      BY ByteType DEF Indexed, Db, Entry, Versions
    <2>2. QED
      BY <2>1, NameType DEF FileOf
  <1>3. staging[p].db \in Db
    BY LocalType DEF Staging
  <1>4. QED
    BY <1>1, <1>2, <1>3

----------------------------------------------------------------------------
(* Type correctness, one part per script.                                  *)

LocalOK   == staging \in [Publishers -> Staging] /\ run \in [Publishers -> Run]
ReleaseOK == /\ pkgs \in [Files -> Nat] /\ sigs \in [Files -> Nat]
             /\ dbs \in [DbFiles -> Db] /\ cdn \in [DbFiles -> Db]
RecordOK  == snaps \subseteq Db /\ tagged \subseteq Db

LEMMA WorldSteps ==
    ASSUME TypeOK,
           \/ \E n \in Anys, v \in Versions : Push(n, v)
           \/ \E v \in Versions : SandboxPackage(v) \/ SandboxSignature(v)
    PROVE  TypeOK'
  <1>1. ASSUME NEW n \in Anys, NEW v \in Versions, Push(n, v) PROVE TypeOK'
    BY <1>1 DEF Push, TypeOK, releaseVars, localVars, recordVars
  <1>2. ASSUME NEW v \in Versions, SandboxPackage(v) PROVE TypeOK'
    <2>1. pkgs' \in [Files -> Nat]
      BY <1>2, ByteType, NameType DEF SandboxPackage, TypeOK
    <2>2. QED
      BY <1>2, <2>1 DEF SandboxPackage, TypeOK, localVars, recordVars
  <1>3. ASSUME NEW v \in Versions, SandboxSignature(v) PROVE TypeOK'
    <2>1. sigs' \in [Files -> Nat]
      BY <1>3, ByteType, NameType DEF SandboxSignature, TypeOK
    <2>2. QED
      BY <1>3, <2>1 DEF SandboxSignature, TypeOK, localVars, recordVars
  <1>4. QED
    BY <1>1, <1>2, <1>3

LEMMA StagingSteps ==
    ASSUME TypeOK, NEW p \in Publishers,
           \/ Start(p) \/ PullKernel(p) \/ NoPull(p)
           \/ (\E v \in Versions : StageKernel(p, v))
           \/ ReadPublished(p) \/ (\E n \in Anys : BuildPackage(p, n)) \/ Index(p)
    PROVE  LocalOK' /\ faults' \in Nat
           /\ UNCHANGED <<head, releaseVars, recordVars, pushes>>
  <1> USE DEF LocalOK
  <1>1. run[p] \in Run /\ staging[p] \in Staging
    BY LocalType
  <1>2. CASE Start(p)
    <2>1. [Idle EXCEPT !.pc = "pull", !.want = head] \in Run
      BY DbType DEF Run, Stages, TypeOK
    <2>2. QED
      BY <1>2, <2>1, LocalType, DbType DEF Start, TypeOK
  <1>3. CASE PullKernel(p)
    <2> DEFINE s == [staging[p] EXCEPT
          !.pkg = [f \in Files |-> IF f[1] = Kernel /\ pkgs[f] # 0
                                   THEN pkgs[f] ELSE staging[p].pkg[f]],
          !.sig = [f \in Files |-> IF f[1] = Kernel /\ pkgs[f] # 0 /\ sigs[f] # 0
                                   THEN sigs[f] ELSE staging[p].sig[f]]]
    <2>1. s \in Staging
      BY <1>1 DEF Staging, TypeOK
    <2>2. staging' = [staging EXCEPT ![p] = s]
      BY <1>3 DEF PullKernel, TypeOK
    <2>3. [run[p] EXCEPT !.pc = "read"] \in Run
      BY <1>1 DEF Run, Stages
    <2>4. staging' \in [Publishers -> Staging]
      BY <2>1, <2>2, LocalType
    <2>5. run' \in [Publishers -> Run]
      BY <1>3, <2>3, LocalType DEF PullKernel
    <2>6. QED
      BY <1>3, <2>4, <2>5 DEF PullKernel, TypeOK
  <1>4. CASE NoPull(p)
    <2>1. [run[p] EXCEPT !.pc = "read"] \in Run
      BY <1>1 DEF Run, Stages
    <2>2. QED
      BY <1>4, <2>1, LocalType DEF NoPull, TypeOK
  <1>5. ASSUME NEW v \in Versions, StageKernel(p, v)
        PROVE  LocalOK' /\ faults' \in Nat
               /\ UNCHANGED <<head, releaseVars, recordVars, pushes>>
    <2>1. [staging[p] EXCEPT !.pkg[<<Kernel, v>>] = v, !.sig[<<Kernel, v>>] = 0]
            \in Staging
      BY <1>1, ByteType DEF Staging
    <2>2. [run[p] EXCEPT !.pc = "read"] \in Run
      BY <1>1 DEF Run, Stages
    <2>3. QED
      BY <1>5, <2>1, <2>2, LocalType DEF StageKernel, TypeOK
  <1>6. CASE ReadPublished(p)
    <2>1. PICK r \in Reads(DbFile.tar) :
            /\ Costs(r[2])
            /\ run' = [run EXCEPT ![p].pc = "build", ![p].left = Anys,
                         ![p].known = {FileOf(r[1], n) : n \in Indexed(r[1])}]
      BY <1>6 DEF ReadPublished
    <2>2. r[1] \in Db /\ r[2] \in {0, 1}
      BY ReadType, NameType
    <2>3. {FileOf(r[1], n) : n \in Indexed(r[1])} \subseteq Files
      BY <2>2, CurrentType
    <2>4. [run[p] EXCEPT !.pc = "build", !.left = Anys,
                         !.known = {FileOf(r[1], n) : n \in Indexed(r[1])}] \in Run
      BY <1>1, <2>3, NameType DEF Run, Stages
    <2>5. QED
      BY <1>6, <2>1, <2>2, <2>4, LocalType, CostType DEF ReadPublished, TypeOK
  <1>7. ASSUME NEW n \in Anys, BuildPackage(p, n)
        PROVE  LocalOK' /\ faults' \in Nat
               /\ UNCHANGED <<head, releaseVars, recordVars, pushes>>
    <2> DEFINE f == Wanted(p, n)
    <2>1. f \in Files
      BY CurrentType
    <2>2. PICK b \in Nat, c \in Nat :
            staging' = [staging EXCEPT ![p].pkg[f] = b, ![p].sig[f] = c]
      BY <1>7, <2>1, ByteType DEF BuildPackage, TypeOK
    <2>3. [staging[p] EXCEPT !.pkg[f] = b, !.sig[f] = c] \in Staging
      BY <1>1 DEF Staging
    <2>4. [run[p] EXCEPT !.left = @ \ {n}] \in Run
      BY <1>1 DEF Run
    <2>5. QED
      <3>1. staging' \in [Publishers -> Staging]
        BY <2>2, <2>3, LocalType
      <3>2. run' \in [Publishers -> Run]
        BY <1>7, <2>4, LocalType DEF BuildPackage
      <3>3. QED
        BY <1>7, <3>1, <3>2 DEF BuildPackage, TypeOK
  <1>8. CASE Index(p)
    <2>1. PICK sign \in BOOLEAN :
            staging' = [staging EXCEPT ![p] = [staging[p] EXCEPT
                !.pkg = [f \in Files |-> IF Kept(staging[p], f)
                                         THEN staging[p].pkg[f] ELSE 0],
                !.sig = [f \in Files |->
                           IF ~Kept(staging[p], f) THEN 0
                           ELSE IF staging[p].sig[f] = 0 /\ sign
                                THEN staging[p].pkg[f] ELSE staging[p].sig[f]],
                !.db = RepoAdd(staging[p]),
                !.signed = sign]]
      BY <1>8 DEF Index
    <2>2. RepoAdd(staging[p]) \in Db
      BY <1>1, DbType
    <2>3. staging' \in [Publishers -> Staging]
      BY <1>1, <2>1, <2>2, LocalType DEF Staging
    <2>4. [run[p] EXCEPT !.pc = "check", !.known = {}] \in Run
      BY <1>1 DEF Run, Stages
    <2>5. QED
      BY <1>8, <2>3, <2>4, LocalType DEF Index, TypeOK
  <1>9. QED
    BY <1>2, <1>3, <1>4, <1>5, <1>6, <1>7, <1>8

LEMMA UploadSteps ==
    ASSUME TypeOK, NEW p \in Publishers,
           \/ Check(p) \/ (\E n \in Names : NextPackage(p, n))
           \/ PutPackage(p) \/ PutSignature(p) \/ LastPackage(p) \/ PutDatabase(p)
    PROVE  LocalOK' /\ ReleaseOK' /\ faults' \in Nat
           /\ UNCHANGED <<head, recordVars, pushes>>
  <1> USE DEF LocalOK, ReleaseOK
  <1>1. run[p] \in Run /\ staging[p] \in Staging
    BY LocalType
  <1>2. CASE Check(p)
    <2>1. PICK r \in Reads(DbFile.tar) :
            /\ Costs(r[2])
            /\ run' = [run EXCEPT ![p] =
                  IF Refuses(staging[p], r[1]) THEN Idle
                  ELSE IF Same(staging[p], r[1]) THEN [run[p] EXCEPT !.pc = "verify"]
                  ELSE [run[p] EXCEPT !.pc = "packages", !.seen = r[1],
                                      !.left = Indexed(staging[p].db)]]
      BY <1>2 DEF Check, TypeOK
    <2>2. r[1] \in Db /\ r[2] \in {0, 1}
      BY ReadType, NameType
    <2>3. [run[p] EXCEPT !.pc = "packages", !.seen = r[1],
                         !.left = Indexed(staging[p].db)] \in Run
      BY <1>1, <2>2 DEF Run, Stages, Indexed
    <2>4. [run[p] EXCEPT !.pc = "verify"] \in Run
      BY <1>1 DEF Run, Stages
    <2>5. run' \in [Publishers -> Run]
      BY <2>1, <2>3, <2>4, LocalType, DbType
    <2>6. [staging[p] EXCEPT !.stamp = FALSE] \in Staging
      BY <1>1 DEF Staging
    <2>7. staging' \in [Publishers -> Staging]
      BY <1>2, <2>6, LocalType DEF Check
    <2>8. faults' \in Nat
      BY <2>1, <2>2, CostType
    <2>9. QED
      BY <1>2, <2>5, <2>7, <2>8 DEF Check, TypeOK, releaseVars
  <1>3. ASSUME NEW n \in Names, NextPackage(p, n)
        PROVE  LocalOK' /\ ReleaseOK' /\ faults' \in Nat
               /\ UNCHANGED <<head, recordVars, pushes>>
    <2> DEFINE pc == IF run[p].seen[n] = staging[p].db[n]
                     THEN "signature" ELSE "package"
    <2>1. [run[p] EXCEPT !.cur = n, !.left = @ \ {n}, !.pc = pc] \in Run
      BY <1>1 DEF Run, Stages
    <2>2. run' \in [Publishers -> Run]
      BY <1>3, <2>1, LocalType DEF NextPackage
    <2>3. QED
      BY <1>3, <2>2 DEF NextPackage, TypeOK, releaseVars
  <1>4. [run[p] EXCEPT !.cleared = TRUE] \in Run
    BY <1>1 DEF Run
  <1>5. \A f \in Files : staging[p].pkg[f] \in Nat /\ staging[p].sig[f] \in Nat
    BY <1>1 DEF Staging
  <1>6. CASE PutPackage(p)
    <2>1. [run[p] EXCEPT !.pc = "signature", !.cleared = FALSE] \in Run
      BY <1>1 DEF Run, Stages
    <2>2. run' \in [Publishers -> Run]
      BY <1>4, <1>6, <2>1, LocalType DEF PutPackage, Clear
    <2>3. pkgs' \in [Files -> Nat]
      BY <1>5, <1>6 DEF PutPackage, TypeOK
    <2>4. QED
      BY <1>6, <2>2, <2>3 DEF PutPackage, TypeOK
  <1>7. CASE PutSignature(p)
    <2>1. [run[p] EXCEPT !.pc = "packages", !.cur = "none", !.cleared = FALSE] \in Run
      BY <1>1 DEF Run, Stages
    <2>2. run' \in [Publishers -> Run]
      BY <1>4, <1>7, <2>1, LocalType DEF PutSignature, Clear
    <2>3. sigs' \in [Files -> Nat]
      BY <1>5, <1>7 DEF PutSignature, TypeOK
    <2>4. QED
      BY <1>7, <2>2, <2>3 DEF PutSignature, TypeOK
  <1>8. CASE LastPackage(p)
    <2>1. [run[p] EXCEPT !.pc = "databases", !.seen = NoDb] \in Run
      BY <1>1, DbType DEF Run, Stages
    <2>2. run' \in [Publishers -> Run]
      BY <1>8, <2>1, LocalType DEF LastPackage
    <2>3. QED
      BY <1>8, <2>2 DEF LastPackage, TypeOK, releaseVars
  <1>9. CASE PutDatabase(p)
    <2> DEFINE i == run[p].pos
               pc == IF i = 6 THEN "snapshot" ELSE run[p].pc
               next == IF i = 6 THEN 1 ELSE i + 1
    <2>1. i \in DbFiles /\ next \in DbFiles
      BY <1>1 DEF Run, DbFiles
    <2>2. [run[p] EXCEPT !.cleared = FALSE, !.pos = next, !.pc = pc] \in Run
      BY <1>1, <2>1 DEF Run, Stages
    <2>3. run' \in [Publishers -> Run]
      BY <1>4, <1>9, <2>2, LocalType DEF PutDatabase, Clear
    <2>4. staging[p].db \in Db
      BY <1>1 DEF Staging
    <2>5. dbs' \in [DbFiles -> Db] /\ cdn' \in [DbFiles -> Db]
      BY <1>9, <2>1, <2>4, DbType DEF PutDatabase, TypeOK
    <2>6. QED
      BY <1>9, <2>3, <2>5 DEF PutDatabase, TypeOK
  <1>10. QED
    BY <1>2, <1>3, <1>6, <1>7, <1>8, <1>9

LEMMA RecordSteps ==
    ASSUME TypeOK, NEW p \in Publishers,
           \/ Stamp(p) \/ Snapshot(p) \/ Verify(p) \/ Tag(p) \/ Abort(p) \/ Kill(p)
    PROVE  LocalOK' /\ RecordOK' /\ faults' \in Nat
           /\ UNCHANGED <<head, releaseVars, pushes>>
  <1> USE DEF LocalOK, RecordOK
  <1>1. run[p] \in Run /\ staging[p] \in Staging /\ staging[p].db \in Db
    BY LocalType DEF Staging
  <1>2. CASE Stamp(p)
    <2>1. [staging[p] EXCEPT !.stamp = TRUE] \in Staging
      BY <1>1 DEF Staging
    <2>2. staging' \in [Publishers -> Staging]
      BY <1>2, <2>1, LocalType DEF Stamp
    <2>3. QED
      BY <1>2, <2>2 DEF Stamp, TypeOK, recordVars
  <1>3. CASE Snapshot(p)
    <2>1. [run[p] EXCEPT !.pc = "verify"] \in Run
      BY <1>1 DEF Run, Stages
    <2>2. run' \in [Publishers -> Run]
      BY <1>3, <2>1, LocalType DEF Snapshot
    <2>3. QED
      BY <1>1, <1>3, <2>2 DEF Snapshot, TypeOK
  <1>4. CASE Verify(p)
    <2>1. PICK r \in Reads(DbFile.db) :
            /\ Costs(r[2])
            /\ run' = [run EXCEPT ![p] =
                  IF p = "ci" /\ staging[p].stamp /\ Verified(staging[p], r[1])
                  THEN [run[p] EXCEPT !.pc = "tag"] ELSE Idle]
      BY <1>4 DEF Verify, TypeOK
    <2>2. faults' \in Nat
      BY <2>1, ReadType, NameType, CostType
    <2>3. [run[p] EXCEPT !.pc = "tag"] \in Run
      BY <1>1 DEF Run, Stages
    <2>4. run' \in [Publishers -> Run]
      BY <2>1, <2>3, LocalType, DbType
    <2>5. QED
      BY <1>4, <2>2, <2>4 DEF Verify, TypeOK, recordVars
  <1>5. CASE Tag(p)
    <2>1. run' \in [Publishers -> Run]
      BY <1>5, LocalType, DbType DEF Tag
    <2>2. QED
      BY <1>1, <1>5, <2>1 DEF Tag, TypeOK
  <1>6. CASE Abort(p)
    <2>1. run' \in [Publishers -> Run]
      BY <1>6, LocalType, DbType DEF Abort
    <2>2. QED
      BY <1>6, <2>1 DEF Abort, TypeOK, recordVars
  <1>7. CASE Kill(p)
    <2>1. run' \in [Publishers -> Run]
      BY <1>7, LocalType, DbType DEF Kill
    <2>2. faults' \in Nat
      BY <1>7, CostType DEF Kill
    <2>3. QED
      BY <1>7, <2>1, <2>2 DEF Kill, TypeOK, recordVars
  <1>8. QED
    BY <1>2, <1>3, <1>4, <1>5, <1>6, <1>7

LEMMA TypeInit == Init => TypeOK
  <1> SUFFICES ASSUME Init PROVE TypeOK
    OBVIOUS
  <1>1. \A f \in Files : FirstDb[f[1]].sum \in Nat
    BY DbType, NameType DEF Db, Entry
  <1>2. PICK published \in BOOLEAN :
          LET Here(f) == f[2] = 1 /\ (published \/ f[1] = Kernel)
          IN  /\ pkgs = [f \in Files |-> IF Here(f) THEN FirstDb[f[1]].sum ELSE 0]
              /\ sigs = [f \in Files |->
                           IF Here(f) /\ published THEN FirstDb[f[1]].sum ELSE 0]
              /\ dbs = [i \in DbFiles |-> IF published THEN FirstDb ELSE NoDb]
              /\ snaps = IF published THEN {FirstDb} ELSE {}
    BY DEF Init
  <1>3. ReleaseOK
    <2>1. pkgs \in [Files -> Nat] /\ sigs \in [Files -> Nat]
      BY <1>1, <1>2
    <2>2. dbs \in [DbFiles -> Db] /\ cdn \in [DbFiles -> Db]
      BY <1>2, DbType DEF Init
    <2>3. QED
      BY <2>1, <2>2 DEF ReleaseOK
  <1>4. RecordOK
    BY <1>2, DbType DEF Init, RecordOK
  <1>5. LocalOK
    BY DbType DEF Init, LocalOK
  <1>6. head \in [Anys -> Versions] /\ pushes \in Nat /\ faults \in Nat
    BY ByteType DEF Init
  <1>7. QED
    BY <1>3, <1>4, <1>5, <1>6 DEF TypeOK, ReleaseOK, RecordOK, LocalOK

LEMMA TypeNext == TypeOK /\ [Next]_vars => TypeOK'
  <1> SUFFICES ASSUME TypeOK, [Next]_vars PROVE TypeOK'
    OBVIOUS
  <1>1. CASE UNCHANGED vars
    BY <1>1 DEF vars, TypeOK
  <1>2. ASSUME \/ \E n \in Anys, v \in Versions : Push(n, v)
               \/ \E v \in Versions : SandboxPackage(v) \/ SandboxSignature(v)
        PROVE  TypeOK'
    BY <1>2, WorldSteps
  <1>3. ASSUME NEW p \in Publishers, Start(p) \/ Step(p) \/ Kill(p) PROVE TypeOK'
    <2>1. CASE \/ Start(p) \/ PullKernel(p) \/ NoPull(p)
               \/ (\E v \in Versions : StageKernel(p, v))
               \/ ReadPublished(p) \/ (\E n \in Anys : BuildPackage(p, n)) \/ Index(p)
      <3>1. LocalOK' /\ faults' \in Nat /\ UNCHANGED <<head, releaseVars, recordVars, pushes>>
        BY <2>1, StagingSteps
      <3>2. QED
        BY <3>1 DEF TypeOK, LocalOK, releaseVars, recordVars
    <2>2. CASE \/ Check(p) \/ (\E n \in Names : NextPackage(p, n))
               \/ PutPackage(p) \/ PutSignature(p) \/ LastPackage(p) \/ PutDatabase(p)
      <3>1. LocalOK' /\ ReleaseOK' /\ faults' \in Nat /\ UNCHANGED <<head, recordVars, pushes>>
        BY <2>2, UploadSteps
      <3>2. QED
        BY <3>1 DEF TypeOK, LocalOK, ReleaseOK, recordVars
    <2>3. CASE \/ Stamp(p) \/ Snapshot(p) \/ Verify(p) \/ Tag(p) \/ Abort(p) \/ Kill(p)
      <3>1. LocalOK' /\ RecordOK' /\ faults' \in Nat /\ UNCHANGED <<head, releaseVars, pushes>>
        BY <2>3, RecordSteps
      <3>2. QED
        BY <3>1 DEF TypeOK, LocalOK, RecordOK, releaseVars
    <2>4. QED
      BY <1>3, <2>1, <2>2, <2>3 DEF Step
  <1>4. QED
    BY <1>1, <1>2, <1>3 DEF Next

\* The files on the Release, the staging directories and the runs keep their
\* shapes in every behaviour of the publishing scripts.
THEOREM TypeCorrect == Spec => []TypeOK
  BY TypeInit, TypeNext, PTL DEF Spec

----------------------------------------------------------------------------
(* CI never drops a package, whatever the published database looks like to *)
(* it: its staging directory has one version at least of every name when   *)
(* it is indexed, so that no upload depends on the check for dropped names.*)

\* One of finitely many versions is the newest.
LEMMA Newest ==
    ASSUME NEW m \in Nat, NEW S \in SUBSET (1 .. m), S # {}
    PROVE  \E v \in S : \A w \in S : w <= v
  <1> DEFINE T == {n \in Nat : n <= m /\ m - n \in S}
  <1>1. PICK v \in S : TRUE
    OBVIOUS
  <1>2. m - v \in T
    BY <1>1
  <1>3. PICK k \in T : \A n \in T : k <= n
    <2> DEFINE R == {ss \in Nat \X Nat : ss[1] < ss[2]}
    <2>1. IsWellFoundedOn(R, Nat)
      BY NatLessThanWellFounded DEF OpToRel
    <2>2. T \subseteq Nat /\ T # {}
      BY <1>2
    <2>3. PICK k \in T : \A n \in T : ~ (<<n, k>> \in R)
      <3> HIDE DEF T, R
      <3>1. QED
        BY <2>1, <2>2, WFMin
    <2>4. ASSUME NEW n \in T PROVE k <= n
      <3>1. n \in Nat /\ k \in Nat
        OBVIOUS
      <3>2. <<n, k>> \notin R
        BY <2>3
      <3>3. ~ (n < k)
        <4> HIDE DEF T
        <4>1. QED
          BY <3>1, <3>2
      <3>4. QED
        <4> HIDE DEF T
        <4>1. QED
          BY <3>1, <3>3
    <2>5. QED
      BY <2>4
  <1>4. m - k \in S
    OBVIOUS
  <1>5. ASSUME NEW w \in S PROVE w <= m - k
    <2>1. m - w \in T
      OBVIOUS
    <2>2. QED
      BY <1>3, <2>1
  <1>6. QED
    BY <1>4, <1>5

\* A database with every name.
Full(D) == Indexed(D) = Names

ReleaseFull == \A i \in DbFiles : /\ dbs[i] = NoDb \/ Full(dbs[i])
                                  /\ cdn[i] = NoDb \/ Full(cdn[i])
KernelStaged(p) ==
    run[p].pc \in {"read", "build"} =>
        \E v \in Versions : staging[p].pkg[<<Kernel, v>>] # 0
Gathered(p) ==
    run[p].pc = "build" =>
        \A n \in Anys \ run[p].left : staging[p].pkg[Wanted(p, n)] # 0
StagedFull(p) ==
    run[p].pc \in {"check", "packages", "package", "signature", "databases"} =>
        Full(staging[p].db)
RunFull(p) == KernelStaged(p) /\ Gathered(p) /\ StagedFull(p)
NamesInv   == ReleaseFull /\ \A p \in Publishers : RunFull(p)

\* repo-add indexes every name that has a file in staging.
LEMMA RepoAddFull ==
    ASSUME NEW s \in Staging,
           \A n \in Names : \E v \in Versions : s.pkg[<<n, v>>] # 0
    PROVE  Full(RepoAdd(s))
  <1>1. ASSUME NEW n \in Names PROVE RepoAdd(s)[n].ver # 0
    <2> DEFINE S == {v \in Versions : s.pkg[<<n, v>>] # 0}
    <2>1. S \subseteq 1 .. MaxVer /\ S # {}
      BY DEF Versions
    <2>2. PICK v \in S : \A w \in S : w <= v
      <3> HIDE DEF S
      <3>1. QED
        BY <2>1, Newest, ByteType
    <2>3. Kept(s, <<n, v>>)
      BY <2>2 DEF Kept
    <2>4. RepoAdd(s)[n].ver = CHOOSE w \in Versions : Kept(s, <<n, w>>)
      BY <2>2, <2>3 DEF RepoAdd
    <2>5. RepoAdd(s)[n].ver \in Versions
      BY <2>3, <2>4
    <2>6. QED
      BY <2>5, ByteType
  <1>2. QED
    BY <1>1 DEF Full, Indexed

LEMMA NamesInit == Init => NamesInv
  <1> SUFFICES ASSUME Init PROVE NamesInv
    OBVIOUS
  <1>1. Full(FirstDb)
    BY DEF Full, Indexed, FirstDb
  <1>2. ReleaseFull
    BY <1>1 DEF Init, ReleaseFull
  <1>3. ASSUME NEW p \in Publishers PROVE RunFull(p)
    <2>1. run[p].pc = "idle"
      BY DEF Init, Idle
    <2>2. QED
      BY <2>1 DEF RunFull, KernelStaged, Gathered, StagedFull
  <1>4. QED
    BY <1>2, <1>3 DEF NamesInv

\* Up to Index nothing is uploaded, and CI's staging directory fills.
LEMMA NamesStaging ==
    ASSUME TypeOK, NamesInv, NEW p \in Publishers, p = "ci",
           \/ Start(p) \/ PullKernel(p) \/ NoPull(p)
           \/ (\E v \in Versions : StageKernel(p, v))
           \/ ReadPublished(p) \/ (\E n \in Anys : BuildPackage(p, n)) \/ Index(p)
    PROVE  RunFull(p)'
  <1> USE DEF RunFull, KernelStaged, Gathered, StagedFull
  <1>1. run[p] \in Run /\ staging[p] \in Staging
    BY LocalType
  <1>2. RunFull(p)
    BY DEF NamesInv
  <1>3. CASE Start(p)
    <2>1. run'[p].pc = "pull"
      BY <1>3, DbType DEF Start, TypeOK, Run
    <2>2. QED
      BY <2>1
  <1>4. CASE PullKernel(p)
    <2>1. run'[p].pc = "read"
      BY <1>1, <1>4 DEF PullKernel, TypeOK, Run
    <2>2. PICK v \in Versions : pkgs[<<Kernel, v>>] # 0
      BY <1>4 DEF PullKernel
    <2>3. staging'[p].pkg[<<Kernel, v>>] = pkgs[<<Kernel, v>>]
      BY <1>1, <1>4, <2>2, NameType DEF PullKernel, TypeOK, Staging
    <2>4. QED
      BY <2>1, <2>2, <2>3
  <1>5. CASE NoPull(p) \/ (\E v \in Versions : StageKernel(p, v))
    BY <1>5 DEF NoPull, StageKernel
  <1>6. CASE ReadPublished(p)
    <2>1. PICK known :
            run' = [run EXCEPT ![p].pc = "build", ![p].left = Anys, ![p].known = known]
      BY <1>6 DEF ReadPublished
    <2>2. run'[p].pc = "build" /\ run'[p].left = Anys
      BY <1>1, <2>1 DEF TypeOK, Run
    <2>3. staging' = staging /\ run[p].pc = "read"
      BY <1>6 DEF ReadPublished
    <2>4. QED
      BY <1>2, <2>2, <2>3
  <1>7. ASSUME NEW n \in Anys, BuildPackage(p, n) PROVE RunFull(p)'
    <2> DEFINE f == Wanted(p, n)
    <2>1. run'[p].pc = "build" /\ run'[p].want = run[p].want
          /\ run'[p].left = run[p].left \ {n}
      BY <1>1, <1>7 DEF BuildPackage, TypeOK, Run
    <2>2. f \in Files /\ \A m \in Anys : Wanted(p, m)' = Wanted(p, m)
      BY <2>1, CurrentType DEF Wanted
    <2>3. BuildBytes \ InUse # {} => FreshBytes # 0
      <3>1. BuildBytes \ InUse # {} => FreshBytes \in BuildBytes
        BY DEF FreshBytes
      <3>2. 0 \notin BuildBytes
        BY PublishBound DEF BuildBytes
      <3>3. QED
        BY <3>1, <3>2
    <2>4. PICK b \in Nat, c \in Nat :
            b # 0 /\ staging' = [staging EXCEPT ![p].pkg[f] = b, ![p].sig[f] = c]
      <3>1. CASE OnRelease(f) /\ staging' = [staging EXCEPT ![p].pkg[f] = pkgs[f],
                                                          ![p].sig[f] = sigs[f]]
        BY <2>2, <3>1 DEF TypeOK, OnRelease
      <3>2. CASE /\ BuildBytes \ InUse # {}
                 /\ staging' = [staging EXCEPT ![p].pkg[f] = FreshBytes,
                                              ![p].sig[f] = 0]
        BY <2>3, <3>2, ByteType
      <3>3. QED
        BY <1>7, <3>1, <3>2 DEF BuildPackage
    <2>5. staging'[p].pkg = [staging[p].pkg EXCEPT ![f] = b]
      BY <1>1, <2>4 DEF TypeOK, Staging
    <2>6. \A g \in Files : staging[p].pkg[g] # 0 \/ g = f => staging'[p].pkg[g] # 0
      BY <1>1, <2>2, <2>4, <2>5 DEF Staging
    <2>7. KernelStaged(p)'
      BY <1>2, <1>7, <2>6, NameType DEF BuildPackage
    <2>8. Gathered(p)'
      BY <1>2, <1>7, <2>1, <2>2, <2>6, CurrentType DEF BuildPackage
    <2>9. QED
      BY <2>1, <2>7, <2>8
  <1>8. CASE Index(p)
    <2>1. ASSUME NEW n \in Names
          PROVE  \E v \in Versions : staging[p].pkg[<<n, v>>] # 0
      <3>1. CASE n = Kernel
        BY <1>2, <1>8, <3>1 DEF Index
      <3>2. CASE n \in Anys
        <4>1. staging[p].pkg[Wanted(p, n)] # 0
          BY <1>2, <1>8, <3>2 DEF Index
        <4>2. run[p].want[n] \in Versions
          BY <1>1, <3>2 DEF Run
        <4>3. QED
          BY <4>1, <4>2 DEF Wanted
      <3>3. QED
        BY <3>1, <3>2 DEF Names
    <2>2. Full(RepoAdd(staging[p]))
      BY <1>1, <2>1, RepoAddFull
    <2>3. staging'[p].db = RepoAdd(staging[p])
      BY <1>1, <1>8 DEF Index, TypeOK, Staging
    <2>4. run'[p].pc = "check"
      BY <1>1, <1>8 DEF Index, TypeOK, Run
    <2>5. QED
      BY <2>2, <2>3, <2>4 DEF Full
  <1>9. QED
    BY <1>3, <1>4, <1>5, <1>6, <1>7, <1>8

\* From Check on only the stamp of the staging directory changes, and what is
\* uploaded as a database is the indexed staging directory.
LEMMA NamesUpload ==
    ASSUME TypeOK, NamesInv, NEW p \in Publishers,
           \/ Check(p) \/ (\E n \in Names : NextPackage(p, n))
           \/ PutPackage(p) \/ PutSignature(p) \/ LastPackage(p) \/ PutDatabase(p)
    PROVE  RunFull(p)' /\ ReleaseFull'
  <1> USE DEF RunFull, KernelStaged, Gathered, StagedFull
  <1>1. run[p] \in Run /\ staging[p] \in Staging
    BY LocalType
  <1>2. RunFull(p) /\ ReleaseFull
    BY DEF NamesInv
  <1>3. run[p].pc \in {"check", "packages", "package", "signature", "databases"}
    BY DEF Check, NextPackage, PutPackage, PutSignature, LastPackage, PutDatabase
  <1>4. Full(staging[p].db)
    BY <1>2, <1>3
  <1>5. staging'[p].db = staging[p].db
    <2>1. CASE Check(p)
      BY <1>1, <2>1 DEF Check, TypeOK, Staging
    <2>2. CASE \/ (\E n \in Names : NextPackage(p, n)) \/ PutPackage(p)
               \/ PutSignature(p) \/ LastPackage(p) \/ PutDatabase(p)
      BY <2>2 DEF NextPackage, PutPackage, PutSignature, LastPackage, PutDatabase
    <2>3. QED
      BY <2>1, <2>2
  <1>6. run'[p].pc \notin {"read", "build"}
    <2>1. CASE Check(p)
      <3>1. PICK r \in Reads(DbFile.tar) :
              run' = [run EXCEPT ![p] =
                  IF Refuses(staging[p], r[1]) THEN Idle
                  ELSE IF Same(staging[p], r[1]) THEN [run[p] EXCEPT !.pc = "verify"]
                  ELSE [run[p] EXCEPT !.pc = "packages", !.seen = r[1],
                                      !.left = Indexed(staging[p].db)]]
        BY <2>1 DEF Check, TypeOK
      <3>2. run'[p].pc \in {"idle", "verify", "packages"}
        BY <1>1, <3>1 DEF TypeOK, Run, Idle
      <3>3. QED
        BY <3>2
    <2>2. ASSUME NEW n \in Names, NextPackage(p, n)
          PROVE  run'[p].pc \notin {"read", "build"}
      <3>1. run'[p].pc \in {"signature", "package"}
        BY <1>1, <2>2 DEF NextPackage, TypeOK, Run
      <3>2. QED
        BY <3>1
    <2>3. CASE PutPackage(p)
      BY <1>1, <2>3 DEF PutPackage, Clear, TypeOK, Run
    <2>4. CASE PutSignature(p)
      BY <1>1, <2>4 DEF PutSignature, Clear, TypeOK, Run
    <2>5. CASE LastPackage(p)
      BY <1>1, <2>5 DEF LastPackage, TypeOK, Run
    <2>6. CASE PutDatabase(p)
      BY <1>1, <2>6 DEF PutDatabase, Clear, TypeOK, Run
    <2>7. QED
      BY <2>1, <2>2, <2>3, <2>4, <2>5, <2>6
  <1>7. RunFull(p)'
    BY <1>4, <1>5, <1>6 DEF Full
  <1>8. ReleaseFull'
    <2>1. CASE PutDatabase(p)
      <3>1. run[p].pos \in DbFiles
        BY <1>1 DEF Run
      <3>2. ASSUME NEW i \in DbFiles
            PROVE  /\ dbs'[i] \in {NoDb, dbs[i], staging[p].db}
                   /\ cdn'[i] \in {cdn[i], dbs[i]}
        BY <2>1, <3>1 DEF PutDatabase, TypeOK
      <3>3. QED
        BY <1>2, <1>4, <3>2 DEF ReleaseFull, Full
    <2>2. CASE \/ Check(p) \/ (\E n \in Names : NextPackage(p, n))
               \/ PutPackage(p) \/ PutSignature(p) \/ LastPackage(p)
      BY <1>2, <2>2 DEF Check, NextPackage, PutPackage, PutSignature, LastPackage,
                        releaseVars, ReleaseFull
    <2>3. QED
      BY <2>1, <2>2
  <1>9. QED
    BY <1>7, <1>8

LEMMA NamesRecord ==
    ASSUME TypeOK, NEW p \in Publishers,
           \/ Stamp(p) \/ Snapshot(p) \/ Verify(p) \/ Tag(p) \/ Abort(p) \/ Kill(p)
    PROVE  RunFull(p)'
  <1>1. run[p] \in Run
    BY LocalType
  <1>2. run'[p].pc \in {"snapshot", "verify", "tag", "idle"}
    BY <1>1 DEF Stamp, Snapshot, Verify, Tag, Abort, Kill, TypeOK, Run, Idle
  <1>3. QED
    BY <1>2 DEF RunFull, KernelStaged, Gathered, StagedFull

LEMMA NamesNext ==
    ASSUME Publishers \subseteq {"ci"}, TypeOK, NamesInv, [Next]_vars
    PROVE  NamesInv'
  <1> USE DEF NamesInv
  <1>1. CASE UNCHANGED <<staging, run, dbs, cdn>>
    BY <1>1 DEF ReleaseFull, RunFull, KernelStaged, Gathered, StagedFull, Full, Wanted
  <1>2. CASE \/ UNCHANGED vars
             \/ \E n \in Anys, v \in Versions : Push(n, v)
             \/ \E v \in Versions : SandboxPackage(v) \/ SandboxSignature(v)
    BY <1>1, <1>2 DEF vars, Push, SandboxPackage, SandboxSignature, releaseVars, localVars
  <1>3. ASSUME NEW p \in Publishers, Start(p) \/ Step(p) \/ Kill(p) PROVE NamesInv'
    <2>1. p = "ci" /\ \A q \in Publishers : q = p
      OBVIOUS
    <2>2. CASE \/ Start(p) \/ PullKernel(p) \/ NoPull(p)
               \/ (\E v \in Versions : StageKernel(p, v))
               \/ ReadPublished(p) \/ (\E n \in Anys : BuildPackage(p, n)) \/ Index(p)
      <3>1. RunFull(p)'
        BY <2>1, <2>2, NamesStaging
      <3>2. UNCHANGED releaseVars
        BY <2>2, StagingSteps
      <3>3. QED
        BY <2>1, <3>1, <3>2 DEF ReleaseFull, releaseVars, Full
    <2>3. CASE \/ Check(p) \/ (\E n \in Names : NextPackage(p, n))
               \/ PutPackage(p) \/ PutSignature(p) \/ LastPackage(p) \/ PutDatabase(p)
      BY <2>1, <2>3, NamesUpload
    <2>4. CASE \/ Stamp(p) \/ Snapshot(p) \/ Verify(p) \/ Tag(p) \/ Abort(p) \/ Kill(p)
      <3>1. RunFull(p)' /\ UNCHANGED releaseVars
        BY <2>4, NamesRecord, RecordSteps
      <3>2. QED
        BY <2>1, <3>1 DEF ReleaseFull, releaseVars, Full
    <2>5. QED
      BY <1>3, <2>2, <2>3, <2>4 DEF Step
  <1>4. QED
    BY <1>2, <1>3 DEF Next

\* When CI alone publishes, no package name ever disappears from the database
\* clients see: not when a run is killed, not when a read of the published
\* database is stale or fails and publish-repo.sh's check for dropped names has
\* nothing to compare with (publish-repo.sh:89-92).
THEOREM NamesKept ==
    ASSUME Publishers \subseteq {"ci"}
    PROVE  Spec => []NeverDropped
  <1>1. NamesInv => NeverDropped
    <2>1. Indexed(NoDb) = {} /\ DbFile.db \in DbFiles
      BY NameType DEF Indexed, NoDb
    <2>2. QED
      BY <2>1 DEF NamesInv, ReleaseFull, Full, NeverDropped, Indexed
  <1>2. TypeOK /\ NamesInv /\ [Next]_vars => NamesInv'
    BY NamesNext
  <1>3. QED
    BY <1>1, <1>2, NamesInit, TypeCorrect, PTL DEF Spec
=============================================================================
