-------------------------- MODULE RepoRelease_proofs --------------------------
(***************************************************************************)
(* Theorems about RepoPublish when one publisher works alone and nothing   *)
(* fails: what clients read is always complete, whatever the packages, the *)
(* pushes and the number of runs.  RepoFault_proofs has what survives a    *)
(* killed run or a misled one.                                             *)
(***************************************************************************)
EXTENDS RepoPublish_proofs

\* One publisher, no run killed, no read of the published database misled.
Calm(p) == Publishers = {p} /\ Faults = {}

----------------------------------------------------------------------------
(* The inductive invariant: what a run knows of the Release, what staging  *)
(* holds, what the Release holds, what is uploaded, which names are kept.  *)

Live       == dbs[DbFile.db]
Uploading  == {"packages", "package", "signature"}
Shipped    == {"databases", "snapshot", "verify", "tag"}
Putting(p) == run[p].pc \in {"package", "signature"}

\* The six database files are one database, but while they are uploaded; a run
\* remembers what they hold.
DatabaseInv(p) ==
    /\ run[p].pc # "databases" => run[p].pos = 1 /\ \A i \in DbFiles : dbs[i] = Live
    /\ run[p].pc = "databases" =>
           \A i \in DbFiles : i < run[p].pos => dbs[i] = staging[p].db
    /\ run[p].pc = "build" => run[p].known = {FileOf(Live, n) : n \in Indexed(Live)}
    /\ run[p].pc \in Uploading => run[p].seen = Live
    /\ run[p].pc \in {"snapshot", "verify", "tag"} => staging[p].db = Live

\* A staged file of a published version has the published bytes, a signature
\* is of the bytes beside it; an index names staged files, signed ones once
\* publish-repo.sh has looked.
BytesInv(p) ==
    /\ \A v \in Versions : staging[p].pkg[<<Kernel, v>>] \in {0, v}
    /\ \A f \in Files : staging[p].sig[f] \in {0, staging[p].pkg[f]}
    /\ \A f \in Files : staging[p].pkg[f] # 0 /\ Live[f[1]].ver = f[2]
                           => staging[p].pkg[f] = Live[f[1]].sum
IndexInv(p) ==
    LET s == staging[p] IN
    /\ run[p].pc \in {"check"} \cup Uploading \cup Shipped =>
           \A n \in Indexed(s.db) : s.db[n].sum # 0 /\ s.pkg[FileOf(s.db, n)] = s.db[n].sum
    /\ run[p].pc \in Uploading \cup Shipped =>
           \A n \in Indexed(s.db) : s.sig[FileOf(s.db, n)] = s.db[n].sum

\* On the Release only the file under way may miss its signature.
ReleaseInv(p) ==
    /\ \A v \in Versions : pkgs[<<Kernel, v>>] \in {0, v}
    /\ \A f \in Files : sigs[f] \in {0, pkgs[f]} \/ (Putting(p) /\ f = Current(p))
    /\ \A n \in Indexed(Live) :
          /\ Live[n].sum # 0
          /\ pkgs[FileOf(Live, n)] = Live[n].sum
          /\ \/ sigs[FileOf(Live, n)] = Live[n].sum
             \/ /\ run[p].pc = "signature" /\ FileOf(Live, n) = Current(p)
                /\ sigs[FileOf(Live, n)] = 0

\* What of the staged database is on the Release already.
Uploaded(p, n) == LET f == FileOf(staging[p].db, n)
                  IN  pkgs[f] = staging[p].db[n].sum /\ sigs[f] = staging[p].db[n].sum
UploadInv(p) ==
    LET s == staging[p] IN
    /\ Putting(p) => run[p].cur \in Indexed(s.db)
    /\ run[p].pc \in Uploading => run[p].left \subseteq Indexed(s.db)
    /\ run[p].pc = "package" => Live[run[p].cur] # s.db[run[p].cur]
    /\ run[p].pc = "signature" => pkgs[Current(p)] = s.db[run[p].cur].sum
    /\ run[p].pc \in Uploading =>
           \A n \in Indexed(s.db) \ run[p].left :
               Uploaded(p, n) \/ (Putting(p) /\ n = run[p].cur)
    /\ run[p].pc \in Shipped => \A n \in Indexed(s.db) : Uploaded(p, n)

\* The names of the published databases are names of the staged one once
\* publish-repo.sh has compared them.
DropInv(p) ==
    /\ NeverDropped
    /\ run[p].pc # "databases" => Indexed(cdn[DbFile.db]) \subseteq Indexed(Live)
    /\ run[p].pc \in Uploading => Indexed(Live) \subseteq Indexed(staging[p].db)
    /\ run[p].pc = "databases" =>
           Indexed(Live) \cup Indexed(cdn[DbFile.db]) \subseteq Indexed(staging[p].db)

CalmInv(p) == /\ DatabaseInv(p) /\ BytesInv(p) /\ IndexInv(p)
              /\ ReleaseInv(p) /\ UploadInv(p) /\ DropInv(p)

----------------------------------------------------------------------------
(* The operators of the scripts.                                           *)

\* repo-add indexes the newest staged file of a name, with its bytes.
LEMMA RepoAddEntry ==
    ASSUME NEW s \in Staging, NEW n \in Names
    PROVE  /\ RepoAdd(s)[n].ver # 0 =>
                 /\ RepoAdd(s)[n].ver \in Versions
                 /\ Kept(s, FileOf(RepoAdd(s), n))
                 /\ RepoAdd(s)[n].sum = s.pkg[FileOf(RepoAdd(s), n)]
           /\ \A v \in Versions : s.pkg[<<n, v>>] # 0 => v <= RepoAdd(s)[n].ver
  <1>1. CASE \E v \in Versions : Kept(s, <<n, v>>)
    <2> DEFINE v == CHOOSE v \in Versions : Kept(s, <<n, v>>)
    <2>1. v \in Versions /\ Kept(s, <<n, v>>)
      BY <1>1
    <2>2. RepoAdd(s)[n] = [ver |-> v, sum |-> s.pkg[<<n, v>>]]
      BY <1>1 DEF RepoAdd
    <2> HIDE DEF v
    <2>3. FileOf(RepoAdd(s), n) = <<n, v>>
      BY <2>2 DEF FileOf
    <2>4. \A w \in Versions : s.pkg[<<n, w>>] # 0 => w <= v
      BY <2>1 DEF Kept
    <2>5. QED
      BY <2>1, <2>2, <2>3, <2>4
  <1>2. CASE ~ \E v \in Versions : Kept(s, <<n, v>>)
    <2>1. RepoAdd(s)[n].ver = 0
      BY <1>2 DEF RepoAdd, NoDb
    <2>2. ASSUME NEW w \in Versions, s.pkg[<<n, w>>] # 0 PROVE FALSE
      <3> DEFINE S == {v \in Versions : s.pkg[<<n, v>>] # 0}
      <3>1. S \subseteq 1 .. MaxVer /\ S # {}
        BY <2>2 DEF Versions
      <3>2. PICK v \in S : \A u \in S : u <= v
        <4> HIDE DEF S
        <4>1. QED
          BY <3>1, Newest, ByteType
      <3>3. Kept(s, <<n, v>>)
        BY <3>2 DEF Kept
      <3>4. QED
        BY <1>2, <3>2, <3>3
    <2>3. QED
      BY <2>1, <2>2
  <1>3. QED
    BY <1>1, <1>2

\* Two files of a database are different, and a database is its entries.
LEMMA DbFacts ==
    ASSUME NEW D \in Db
    PROVE  /\ Indexed(D) \subseteq Names
           /\ \A n \in Names : D[n].ver \in Nat /\ D[n].sum \in Nat /\ D[n].ver <= MaxVer
           /\ \A n \in Indexed(D) : /\ FileOf(D, n) \in Files
                                    /\ FileOf(D, n)[1] = n /\ FileOf(D, n)[2] = D[n].ver
           /\ \A n \in Names : n \in Indexed(D) <=> D[n].ver \in Versions
           /\ \A E \in Db, n \in Names :
                 D[n].ver = E[n].ver /\ D[n].sum = E[n].sum => D[n] = E[n]
  BY ByteType DEF Db, Entry, Indexed, FileOf, Files, Versions

\* Without faults a read of a database file is that file.
LEMMA CalmRead ==
    ASSUME NEW p, Calm(p), NEW i \in DbFiles, NEW r \in Reads(i)
    PROVE  r[1] = dbs[i]
  BY DEF Calm, Reads

LEMMA CalmDbFile == DbFile.db = 1 /\ DbFile.tar = 3 /\ DbFile.dbSig = 2 /\ DbFile.tarSig = 4
                    /\ DbFiles = 1 .. 6
  BY DEF DbFile, DbFiles

----------------------------------------------------------------------------
(* It holds initially, and the world outside the scripts keeps it.         *)

LEMMA CalmInit == ASSUME NEW p, Calm(p), Init PROVE CalmInv(p)
  <1>1. p \in Publishers /\ run[p] = Idle /\ staging[p] = EmptyStaging
    BY DEF Calm, Init
  <1>2. PICK published \in BOOLEAN :
          LET Here(f) == f[2] = 1 /\ (published \/ f[1] = Kernel)
          IN  /\ pkgs = [f \in Files |-> IF Here(f) THEN FirstDb[f[1]].sum ELSE 0]
              /\ sigs = [f \in Files |->
                           IF Here(f) /\ published THEN FirstDb[f[1]].sum ELSE 0]
              /\ dbs = [i \in DbFiles |-> IF published THEN FirstDb ELSE NoDb]
    BY DEF Init
  <1>3. Live = IF published THEN FirstDb ELSE NoDb
    BY <1>2, NameType DEF Live
  <1>4. /\ cdn[DbFile.db] = NoDb /\ Indexed(NoDb) = {} /\ Indexed(FirstDb) = Names
        /\ \A n \in Names : FirstDb[n].ver = 1 /\ NoDb[n].ver = 0
                            /\ FileOf(FirstDb, n) = <<n, 1>> /\ <<n, 1>> \in Files
        /\ FirstDb[Kernel].sum = 1
    BY NameType, ByteType DEF Init, NoDb, Indexed, FirstDb, FileOf
  <1>5. \A n \in Names : FirstDb[n].sum # 0
    <2>1. \A n \in Anys : FirstBytes[n] # 0
      BY ByteType, PublishBound DEF BuildBytes
    <2>2. ASSUME NEW n \in Names PROVE FirstDb[n].sum # 0
      <3>1. FirstDb[n].sum = IF n = Kernel THEN 1 ELSE FirstBytes[n]
        BY DEF FirstDb
      <3>2. n = Kernel \/ n \in Anys
        BY DEF Names
      <3>3. QED
        BY <2>1, <3>1, <3>2
    <2>3. QED
      BY <2>2
  <1>6. DatabaseInv(p)
    BY <1>1, <1>2, <1>3 DEF DatabaseInv, Idle, Uploading
  <1>7. BytesInv(p) /\ IndexInv(p) /\ UploadInv(p)
    BY <1>1, NameType DEF BytesInv, IndexInv, UploadInv, Idle, EmptyStaging, NoFiles,
                          Uploading, Shipped, Putting
  <1>8. ReleaseInv(p)
    <2>1. \A v \in Versions : pkgs[<<Kernel, v>>] \in {0, v}
      BY <1>2, <1>4, NameType
    <2>2. \A f \in Files : sigs[f] \in {0, pkgs[f]}
      BY <1>2
    <2>3. ASSUME NEW n \in Indexed(Live)
          PROVE  /\ Live[n].sum # 0 /\ pkgs[FileOf(Live, n)] = Live[n].sum
                 /\ sigs[FileOf(Live, n)] = Live[n].sum
      <3>1. published /\ Live = FirstDb /\ n \in Names
        BY <1>3, <1>4, <2>3
      <3>2. pkgs[<<n, 1>>] = FirstDb[n].sum /\ sigs[<<n, 1>>] = FirstDb[n].sum
        BY <1>2, <1>4, <3>1
      <3>3. QED
        BY <1>4, <1>5, <3>1, <3>2
    <2>4. QED
      BY <2>1, <2>2, <2>3 DEF ReleaseInv
  <1>9. DropInv(p)
    BY <1>1, <1>4 DEF DropInv, NeverDropped, Idle, Uploading
  <1>10. QED
    BY <1>6, <1>7, <1>8, <1>9 DEF CalmInv

\* A kernel the sandbox uploads is not on the Release yet: no database names it.
LEMMA CalmSandbox ==
    ASSUME NEW p, Calm(p), TypeOK, CalmInv(p), NEW v \in Versions,
           SandboxPackage(v) \/ SandboxSignature(v)
    PROVE  CalmInv(p)'
  <1> DEFINE g == <<Kernel, v>>
  <1>1. /\ p \in Publishers /\ run' = run /\ staging' = staging /\ dbs' = dbs /\ cdn' = cdn
        /\ g \in Files /\ run[p].cur # Kernel
        /\ \A f \in Files : f # g => pkgs'[f] = pkgs[f] /\ sigs'[f] = sigs[f]
        /\ sigs[g] = 0 \/ sigs'[g] = sigs[g]
    BY NameType DEF Calm, TypeOK, SandboxPackage, SandboxSignature, localVars
  <1>2. /\ pkgs[g] \in {0, v} /\ pkgs'[g] \in {0, v}
        /\ pkgs[g] # 0 => pkgs'[g] = pkgs[g]
        /\ sigs'[g] = sigs[g] \/ sigs'[g] = pkgs'[g]
    BY <1>1 DEF TypeOK, CalmInv, ReleaseInv, SandboxPackage, SandboxSignature
  <1>3. Putting(p) => Current(p) # g
    BY <1>1 DEF Current, FileOf
  <1>4. sigs[g] \in {0, pkgs[g]}
    BY <1>1, <1>3 DEF CalmInv, ReleaseInv
  <1>5. pkgs[g] = 0 => sigs[g] = 0
    BY <1>4
  <1>6. Live' = Live /\ Live \in Db /\ staging[p].db \in Db
    BY <1>1, NameType DEF Live, TypeOK, Staging
  <1>7. DatabaseInv(p)' /\ BytesInv(p)' /\ IndexInv(p)' /\ DropInv(p)'
    BY <1>1, <1>6 DEF CalmInv, DatabaseInv, BytesInv, IndexInv, DropInv, NeverDropped
  <1>8. ReleaseInv(p)'
    <2>1. \A w \in Versions : pkgs'[<<Kernel, w>>] \in {0, w}
      BY <1>1, <1>2, NameType DEF CalmInv, ReleaseInv
    <2>2. \A f \in Files : sigs'[f] \in {0, pkgs'[f]} \/ (Putting(p)' /\ f = Current(p)')
      BY <1>1, <1>2, <1>4, <1>5 DEF CalmInv, ReleaseInv, Putting, Current
    <2>3. ASSUME NEW n \in Indexed(Live)
          PROVE  /\ Live[n].sum # 0 /\ pkgs'[FileOf(Live, n)] = Live[n].sum
                 /\ \/ sigs'[FileOf(Live, n)] = Live[n].sum
                    \/ /\ run[p].pc = "signature" /\ FileOf(Live, n) = Current(p)
                       /\ sigs'[FileOf(Live, n)] = 0
      <3>1. FileOf(Live, n) \in Files
        BY <1>6, DbFacts
      <3>2. CASE FileOf(Live, n) # g
        BY <1>1, <3>1, <3>2 DEF CalmInv, ReleaseInv
      <3>3. CASE FileOf(Live, n) = g
        BY <1>1, <1>2, <1>3, <3>3 DEF CalmInv, ReleaseInv, Putting
      <3>4. QED
        BY <3>2, <3>3
    <2>4. QED
      BY <1>1, <1>6, <2>1, <2>2, <2>3 DEF ReleaseInv, Current
  <1>9. UploadInv(p)'
    <2>1. ASSUME NEW n \in Indexed(staging[p].db), Uploaded(p, n),
                 run[p].pc \in Uploading \cup Shipped
          PROVE  Uploaded(p, n)'
      <3>1. FileOf(staging[p].db, n) \in Files /\ staging[p].db[n].sum # 0
        BY <1>6, <2>1, DbFacts DEF CalmInv, IndexInv
      <3>2. QED
        BY <1>1, <1>2, <2>1, <3>1 DEF Uploaded
    <2>2. run[p].pc = "signature" => pkgs'[Current(p)] = staging[p].db[run[p].cur].sum
      <3>1. run[p].pc = "signature" => Current(p) \in Files
        BY <1>6, DbFacts DEF CalmInv, UploadInv, Putting, Current
      <3>2. QED
        BY <1>1, <1>3, <3>1 DEF CalmInv, UploadInv, Putting
    <2>3. QED
      BY <1>1, <1>6, <2>1, <2>2 DEF CalmInv, UploadInv, Putting, Current, Uploading, Shipped
  <1>10. QED
    BY <1>7, <1>8, <1>9 DEF CalmInv

\* A step that changes nothing the scripts look at.
LEMMA CalmStutter ==
    ASSUME NEW p, CalmInv(p), UNCHANGED <<pkgs, sigs, dbs, cdn, staging, run>>
    PROVE  CalmInv(p)'
  BY DEF CalmInv, DatabaseInv, BytesInv, IndexInv, ReleaseInv, UploadInv, DropInv,
         NeverDropped, Live, Putting, Current, Uploaded

----------------------------------------------------------------------------
(* Up to Index nothing is uploaded: staging fills with published bytes and *)
(* with files nobody has published.                                        *)

\* What a step that uploads nothing leaves of the invariant.
LEMMA CalmAtRest ==
    ASSUME NEW p, CalmInv(p), UNCHANGED releaseVars,
           run[p].pc \notin Uploading \cup {"databases"},
           run'[p].pc \in {"idle", "pull", "read", "build", "check"}, run'[p].pos = 1,
           run'[p].pc = "build" =>
               run'[p].known = {FileOf(Live, n) : n \in Indexed(Live)}
    PROVE  DatabaseInv(p)' /\ ReleaseInv(p)' /\ UploadInv(p)' /\ DropInv(p)'
  <1>1. Live' = Live /\ UNCHANGED <<pkgs, sigs, dbs, cdn>>
    BY DEF Live, releaseVars
  <1>2. DatabaseInv(p)'
    BY <1>1 DEF CalmInv, DatabaseInv, Uploading
  <1>3. ReleaseInv(p)'
    BY <1>1 DEF CalmInv, ReleaseInv, Putting, Uploading
  <1>4. UploadInv(p)'
    BY <1>1 DEF UploadInv, Putting, Uploading, Shipped
  <1>5. DropInv(p)'
    BY <1>1 DEF CalmInv, DropInv, NeverDropped, Live, Uploading
  <1>6. QED
    BY <1>2, <1>3, <1>4, <1>5

LEMMA CalmStart ==
    ASSUME NEW p, Calm(p), TypeOK, CalmInv(p), Start(p) PROVE CalmInv(p)'
  <1>1. p \in Publishers /\ run[p].pc = "idle"
    BY DEF Calm, Start
  <1>2. run'[p].pc = "pull" /\ run'[p].pos = 1
    BY <1>1, DbType DEF Start, TypeOK, Idle
  <1>3. UNCHANGED releaseVars
    BY DEF Start
  <1>4. staging'[p] \in {staging[p], EmptyStaging}
    BY <1>1 DEF Start, TypeOK
  <1>5. BytesInv(p)' /\ IndexInv(p)'
    <2>1. Live' = Live
      BY <1>3 DEF Live, releaseVars
    <2>2. \A f \in Files : EmptyStaging.pkg[f] = 0 /\ EmptyStaging.sig[f] = 0
      BY DEF EmptyStaging, NoFiles
    <2>3. \A v \in Versions : <<Kernel, v>> \in Files
      BY NameType
    <2>4. BytesInv(p)'
      BY <1>4, <2>1, <2>2, <2>3 DEF CalmInv, BytesInv
    <2>5. QED
      BY <1>2, <2>4 DEF IndexInv, Uploading, Shipped
  <1>6. QED
    BY <1>1, <1>2, <1>3, <1>5, CalmAtRest DEF CalmInv, Uploading

LEMMA CalmPull ==
    ASSUME NEW p, Calm(p), TypeOK, CalmInv(p),
           PullKernel(p) \/ NoPull(p) \/ \E v \in Versions : StageKernel(p, v)
    PROVE  CalmInv(p)'
  <1>1. /\ p \in Publishers /\ run[p].pc = "pull" /\ UNCHANGED releaseVars
        /\ run' = [run EXCEPT ![p].pc = "read"]
    BY DEF Calm, PullKernel, NoPull, StageKernel
  <1>2. run'[p].pc = "read" /\ run'[p].pos = run[p].pos
    BY <1>1 DEF TypeOK, Run
  <1>3. run[p].pos = 1 /\ ~Putting(p)
    BY <1>1 DEF CalmInv, DatabaseInv, Putting
  <1>4. Live' = Live /\ Live \in Db
    BY <1>1, NameType DEF Live, releaseVars, TypeOK
  <1>5. BytesInv(p)'
    <2> USE DEF CalmInv, BytesInv
    <2>1. CASE NoPull(p)
      BY <1>4, <2>1 DEF NoPull
    <2>2. CASE PullKernel(p)
      <3>1. ASSUME NEW f \in Files
            PROVE  /\ staging'[p].pkg[f] = IF f[1] = Kernel /\ pkgs[f] # 0
                                           THEN pkgs[f] ELSE staging[p].pkg[f]
                   /\ staging'[p].sig[f] = IF f[1] = Kernel /\ pkgs[f] # 0 /\ sigs[f] # 0
                                           THEN sigs[f] ELSE staging[p].sig[f]
        BY <1>1, <2>2 DEF PullKernel, TypeOK, Staging
      <3>2. ASSUME NEW f \in Files, f[1] = Kernel
            PROVE  /\ pkgs[f] \in {0, f[2]} /\ staging[p].pkg[f] \in {0, f[2]}
                   /\ sigs[f] \in {0, pkgs[f]}
        BY <1>3, <3>2, NameType DEF ReleaseInv
      <3>3. ASSUME NEW f \in Files, f[1] = Kernel, Live[f[1]].ver = f[2]
            PROVE  pkgs[f] = Live[f[1]].sum
        <4>1. f = FileOf(Live, Kernel) /\ Kernel \in Indexed(Live)
          BY <1>4, <3>3, NameType, ByteType DEF FileOf, Indexed
        <4>2. QED
          BY <3>3, <4>1 DEF ReleaseInv
      <3>4. \A v \in Versions : staging'[p].pkg[<<Kernel, v>>] \in {0, v}
        BY <3>1, <3>2, NameType
      <3>5. \A f \in Files : staging'[p].sig[f] \in {0, staging'[p].pkg[f]}
        BY <3>1, <3>2
      <3>6. \A f \in Files : staging'[p].pkg[f] # 0 /\ Live[f[1]].ver = f[2]
                                => staging'[p].pkg[f] = Live[f[1]].sum
        BY <3>1, <3>3
      <3>7. QED
        BY <1>4, <3>4, <3>5, <3>6
    <2>3. ASSUME NEW v \in Versions, StageKernel(p, v) PROVE BytesInv(p)'
      <3> DEFINE g == <<Kernel, v>>
      <3>1. /\ pkgs[g] = 0 /\ g \in Files /\ staging'[p].pkg[g] = v /\ staging'[p].sig[g] = 0
            /\ \A f \in Files : f # g => staging'[p].pkg[f] = staging[p].pkg[f]
                                         /\ staging'[p].sig[f] = staging[p].sig[f]
        <4>1. /\ staging'[p].pkg = [staging[p].pkg EXCEPT ![g] = v]
              /\ staging'[p].sig = [staging[p].sig EXCEPT ![g] = 0]
          <5>1. staging' = [staging EXCEPT ![p].pkg[g] = v, ![p].sig[g] = 0]
            BY <2>3 DEF StageKernel
          <5> HIDE DEF g
          <5>2. QED
            BY <1>1, <5>1 DEF TypeOK, Staging
        <4>2. staging[p].pkg \in [Files -> Nat] /\ staging[p].sig \in [Files -> Nat]
          BY <1>1 DEF TypeOK, Staging
        <4>3. pkgs[g] = 0 /\ g \in Files
          BY <2>3, NameType DEF StageKernel
        <4> HIDE DEF g
        <4>4. QED
          BY <4>1, <4>2, <4>3
      <3>2. Live[Kernel].ver # v
        <4>1. Live[Kernel].ver = v => Kernel \in Indexed(Live) /\ FileOf(Live, Kernel) = g
          BY NameType, ByteType DEF Indexed, FileOf
        <4>2. QED
          BY <3>1, <4>1 DEF ReleaseInv
      <3>3. \A w \in Versions : staging'[p].pkg[<<Kernel, w>>] \in {0, w}
        BY <3>1, NameType
      <3>4. \A f \in Files : staging'[p].sig[f] \in {0, staging'[p].pkg[f]}
        BY <3>1
      <3>5. g[1] = Kernel /\ g[2] = v
        OBVIOUS
      <3>6. \A f \in Files : staging'[p].pkg[f] # 0 /\ Live[f[1]].ver = f[2]
                                => staging'[p].pkg[f] = Live[f[1]].sum
        <4> HIDE DEF g
        <4>1. QED
          BY <3>1, <3>2, <3>5
      <3>7. QED
        BY <1>4, <3>3, <3>4, <3>6
    <2>4. QED
      BY <2>1, <2>2, <2>3
  <1>6. IndexInv(p)'
    BY <1>2 DEF IndexInv, Uploading, Shipped
  <1>7. QED
    BY <1>1, <1>2, <1>3, <1>5, <1>6, CalmAtRest DEF CalmInv, Uploading

LEMMA CalmReadPublished ==
    ASSUME NEW p, Calm(p), TypeOK, CalmInv(p), ReadPublished(p) PROVE CalmInv(p)'
  <1>1. p \in Publishers /\ run[p].pc = "read" /\ UNCHANGED <<releaseVars, staging>>
    BY DEF Calm, ReadPublished
  <1>2. PICK r \in Reads(DbFile.tar) :
          run' = [run EXCEPT ![p].pc = "build", ![p].left = Anys,
                     ![p].known = {FileOf(r[1], n) : n \in Indexed(r[1])}]
    BY DEF ReadPublished
  <1>3. r[1] = Live /\ run[p].pos = 1
    BY <1>1, CalmRead, NameType DEF CalmInv, DatabaseInv
  <1>4. /\ run'[p].pc = "build" /\ run'[p].pos = 1
        /\ run'[p].known = {FileOf(Live, n) : n \in Indexed(Live)}
    BY <1>1, <1>2, <1>3 DEF TypeOK, Run
  <1>5. BytesInv(p)' /\ IndexInv(p)'
    BY <1>1, <1>4 DEF CalmInv, BytesInv, IndexInv, Live, releaseVars, Uploading, Shipped
  <1>6. QED
    BY <1>1, <1>4, <1>5, CalmAtRest DEF CalmInv, Uploading

\* A version the published database names is pulled with its bytes; what is
\* built is one it does not name.
LEMMA CalmBuild ==
    ASSUME NEW p, Calm(p), TypeOK, CalmInv(p), NEW n \in Anys, BuildPackage(p, n)
    PROVE  CalmInv(p)'
  <1> DEFINE f == Wanted(p, n)
  <1>1. p \in Publishers /\ run[p].pc = "build" /\ UNCHANGED releaseVars
    BY DEF Calm, BuildPackage
  <1>2. /\ run'[p].pc = "build" /\ run'[p].pos = 1
        /\ run'[p].known = {FileOf(Live, m) : m \in Indexed(Live)}
    BY <1>1 DEF BuildPackage, TypeOK, Run, CalmInv, DatabaseInv
  <1>3. /\ Live' = Live /\ Live \in Db /\ ~Putting(p)
        /\ f \in Files /\ f[1] = n /\ f[1] # Kernel
    BY <1>1, NameType, NameAssumption, CurrentType
       DEF Live, releaseVars, TypeOK, Putting, Wanted
  <1>4. f \in run[p].known <=> Live[f[1]].ver = f[2]
    <2>1. ASSUME Live[f[1]].ver = f[2] PROVE f = FileOf(Live, f[1]) /\ f[1] \in Indexed(Live)
      BY <1>3, <2>1, NameType, DbFacts DEF FileOf
    <2>2. \A m \in Indexed(Live) : FileOf(Live, m)[1] = m /\ FileOf(Live, m)[2] = Live[m].ver
      BY <1>3, DbFacts
    <2>3. run[p].known = {FileOf(Live, m) : m \in Indexed(Live)}
      BY <1>1 DEF CalmInv, DatabaseInv
    <2> HIDE DEF f
    <2>4. QED
      BY <2>1, <2>2, <2>3
  <1>5. PICK b \in Nat, c \in Nat :
          /\ staging' = [staging EXCEPT ![p].pkg[f] = b, ![p].sig[f] = c]
          /\ c \in {0, b}
          /\ Live[f[1]].ver = f[2] => b = Live[f[1]].sum
    <2>1. CASE /\ Pulls(p, n)
               /\ staging' = [staging EXCEPT ![p].pkg[f] = pkgs[f], ![p].sig[f] = sigs[f]]
      <3>1. sigs[f] \in {0, pkgs[f]} /\ pkgs[f] \in Nat /\ sigs[f] \in Nat
        BY <1>3 DEF CalmInv, ReleaseInv, TypeOK
      <3>2. ASSUME Live[f[1]].ver = f[2] PROVE pkgs[f] = Live[f[1]].sum
        <4>1. f = FileOf(Live, f[1]) /\ f[1] \in Indexed(Live)
          BY <1>3, <3>2, NameType, DbFacts DEF FileOf
        <4>2. QED
          BY <4>1 DEF CalmInv, ReleaseInv
      <3>3. QED
        BY <2>1, <3>1, <3>2
    <2>2. CASE /\ ~Pulls(p, n) /\ BuildBytes \ InUse # {}
               /\ staging' = [staging EXCEPT ![p].pkg[f] = FreshBytes, ![p].sig[f] = 0]
      <3>1. FreshBytes \in Nat /\ Live[f[1]].ver # f[2]
        BY <1>4, <2>2, ByteType DEF Pulls
      <3>2. QED
        BY <2>2, <3>1
    <2>3. QED
      BY <2>1, <2>2 DEF BuildPackage
  <1>6. /\ staging'[p].pkg = [staging[p].pkg EXCEPT ![f] = b]
        /\ staging'[p].sig = [staging[p].sig EXCEPT ![f] = c]
        /\ staging[p].pkg \in [Files -> Nat] /\ staging[p].sig \in [Files -> Nat]
    <2> HIDE DEF f
    <2>1. QED
      BY <1>1, <1>5 DEF TypeOK, Staging
  <1>7. BytesInv(p)'
    <2>1. \A v \in Versions : <<Kernel, v>> \in Files /\ <<Kernel, v>> # f
      BY <1>3, NameType
    <2> HIDE DEF f
    <2>2. \A g \in Files : /\ staging'[p].pkg[g] = IF g = f THEN b ELSE staging[p].pkg[g]
                          /\ staging'[p].sig[g] = IF g = f THEN c ELSE staging[p].sig[g]
      BY <1>3, <1>6
    <2>3. \A v \in Versions : staging'[p].pkg[<<Kernel, v>>] \in {0, v}
      BY <2>1, <2>2 DEF CalmInv, BytesInv
    <2>4. \A g \in Files : staging'[p].sig[g] \in {0, staging'[p].pkg[g]}
      <3>1. \A g \in Files : staging[p].sig[g] \in {0, staging[p].pkg[g]}
        BY DEF CalmInv, BytesInv
      <3>2. c \in {0, b}
        BY <1>5
      <3>3. QED
        BY <2>2, <3>1, <3>2
    <2>5. \A g \in Files : staging'[p].pkg[g] # 0 /\ Live[g[1]].ver = g[2]
                              => staging'[p].pkg[g] = Live[g[1]].sum
      <3>1. \A g \in Files : staging[p].pkg[g] # 0 /\ Live[g[1]].ver = g[2]
                                => staging[p].pkg[g] = Live[g[1]].sum
        BY DEF CalmInv, BytesInv
      <3>2. Live[f[1]].ver = f[2] => b = Live[f[1]].sum
        BY <1>5
      <3>3. QED
        BY <2>2, <3>1, <3>2
    <2>6. QED
      BY <1>3, <2>3, <2>4, <2>5 DEF BytesInv
  <1>8. IndexInv(p)'
    BY <1>2 DEF IndexInv, Uploading, Shipped
  <1>9. QED
    BY <1>1, <1>2, <1>7, <1>8, CalmAtRest DEF CalmInv, Uploading

LEMMA CalmIndex ==
    ASSUME NEW p, Calm(p), TypeOK, CalmInv(p), Index(p) PROVE CalmInv(p)'
  <1> DEFINE s == staging[p]
  <1>1. p \in Publishers /\ run[p].pc = "build" /\ UNCHANGED releaseVars /\ s \in Staging
    BY LocalType DEF Calm, Index
  <1>2. run'[p].pc = "check" /\ run'[p].pos = 1
    BY <1>1 DEF Index, TypeOK, Run, CalmInv, DatabaseInv
  <1>3. PICK sign \in BOOLEAN :
          staging' = [staging EXCEPT ![p] = [s EXCEPT
              !.pkg = [f \in Files |-> IF Kept(s, f) THEN s.pkg[f] ELSE 0],
              !.sig = [f \in Files |->
                         IF ~Kept(s, f) THEN 0
                         ELSE IF s.sig[f] = 0 /\ sign THEN s.pkg[f] ELSE s.sig[f]],
              !.db = RepoAdd(s),
              !.signed = sign]]
    BY DEF Index
  <1>4. /\ \A f \in Files :
              /\ staging'[p].pkg[f] = IF Kept(s, f) THEN s.pkg[f] ELSE 0
              /\ staging'[p].sig[f] = IF ~Kept(s, f) THEN 0
                                      ELSE IF s.sig[f] = 0 /\ sign THEN s.pkg[f] ELSE s.sig[f]
        /\ staging'[p].db = RepoAdd(s)
    BY <1>1, <1>3 DEF Staging, TypeOK
  <1>5. BytesInv(p)'
    <2>1. Live' = Live
      BY <1>1 DEF Live, releaseVars
    <2>2. QED
      BY <1>4, <2>1, NameType DEF CalmInv, BytesInv
  <1>6. IndexInv(p)'
    <2>1. ASSUME NEW n \in Indexed(RepoAdd(s))
          PROVE  /\ RepoAdd(s)[n].sum # 0
                 /\ staging'[p].pkg[FileOf(RepoAdd(s), n)] = RepoAdd(s)[n].sum
      <3>1. n \in Names /\ RepoAdd(s)[n].ver # 0
        BY <2>1 DEF Indexed
      <3>2. /\ FileOf(RepoAdd(s), n) \in Files /\ Kept(s, FileOf(RepoAdd(s), n))
            /\ RepoAdd(s)[n].sum = s.pkg[FileOf(RepoAdd(s), n)]
        BY <1>1, <2>1, <3>1, RepoAddEntry, DbType, DbFacts
      <3>3. QED
        BY <1>4, <3>2 DEF Kept
    <2>2. QED
      BY <1>2, <1>4, <2>1 DEF IndexInv, Uploading, Shipped
  <1>7. QED
    BY <1>1, <1>2, <1>5, <1>6, CalmAtRest DEF CalmInv, Uploading

----------------------------------------------------------------------------
(* publish-repo.sh: what is uploaded stays complete.                       *)

\* The part of the invariant that speaks of staging alone: from Check on only
\* the stamp changes there.
LEMMA CalmStaged ==
    ASSUME NEW p, CalmInv(p), Live' = Live,
           staging'[p].pkg = staging[p].pkg, staging'[p].sig = staging[p].sig
    PROVE  BytesInv(p)'
  BY DEF CalmInv, BytesInv

LEMMA CalmCheck ==
    ASSUME NEW p, Calm(p), TypeOK, CalmInv(p), Check(p) PROVE CalmInv(p)'
  <1> DEFINE s == staging[p]
  <1>1. p \in Publishers /\ run[p].pc = "check" /\ UNCHANGED releaseVars
        /\ s \in Staging /\ run[p].pos = 1
    BY LocalType DEF Calm, Check, CalmInv, DatabaseInv
  <1>2. /\ staging'[p].pkg = s.pkg /\ staging'[p].sig = s.sig /\ staging'[p].db = s.db
    BY <1>1 DEF Check, TypeOK, Staging
  <1>3. Live' = Live /\ Live \in Db /\ s.db \in Db /\ \A i \in DbFiles : dbs[i] = Live
    BY <1>1, NameType DEF Live, releaseVars, TypeOK, Staging, CalmInv, DatabaseInv
  <1>4. PICK r \in Reads(DbFile.tar) :
          run' = [run EXCEPT ![p] =
                  IF Refuses(s, r[1]) THEN Idle
                  ELSE IF Same(s, r[1]) THEN [run[p] EXCEPT !.pc = "verify"]
                  ELSE [run[p] EXCEPT !.pc = "packages", !.seen = r[1],
                                      !.left = Indexed(s.db)]]
    BY DEF Check
  <1>5. r[1] = Live
    BY <1>3, CalmRead, NameType
  <1>6. run'[p] = IF Refuses(s, Live) THEN Idle
                  ELSE IF Same(s, Live) THEN [run[p] EXCEPT !.pc = "verify"]
                  ELSE [run[p] EXCEPT !.pc = "packages", !.seen = Live,
                                      !.left = Indexed(s.db)]
    BY <1>1, <1>4, <1>5 DEF TypeOK
  <1>7. run'[p].pos = 1
    BY <1>1, <1>6, LocalType DEF Run, Idle
  <1>8. BytesInv(p)'
    BY <1>2, <1>3, CalmStaged
  <1>9. \A n \in Indexed(s.db) : s.db[n].sum # 0 /\ s.pkg[FileOf(s.db, n)] = s.db[n].sum
    BY <1>1 DEF CalmInv, IndexInv
  <1>10. CASE Refuses(s, Live)
    <2>1. run'[p].pc = "idle"
      BY <1>6, <1>10 DEF Idle
    <2>2. IndexInv(p)'
      BY <2>1 DEF IndexInv, Uploading, Shipped
    <2>3. QED
      BY <1>1, <1>7, <1>8, <2>1, <2>2, CalmAtRest DEF CalmInv, Uploading
  <1>11. CASE ~Refuses(s, Live)
    <2>1. run'[p].pc \in {"verify", "packages"} /\ ~Putting(p) /\ ~Putting(p)'
      BY <1>1, <1>6, <1>11, LocalType DEF Run, Putting
    <2>2. \A n \in Indexed(s.db) : s.sig[FileOf(s.db, n)] = s.db[n].sum
      <3>1. ASSUME NEW n \in Indexed(s.db)
            PROVE  /\ s.sig[FileOf(s.db, n)] # 0
                   /\ s.sig[FileOf(s.db, n)] \in {0, s.pkg[FileOf(s.db, n)]}
        BY <1>3, <1>11, DbFacts DEF Refuses, Unsigned, CalmInv, BytesInv
      <3>2. QED
        BY <1>9, <3>1
    <2>3. IndexInv(p)'
      BY <1>2, <1>9, <2>2 DEF IndexInv
    <2>4. ReleaseInv(p)'
      BY <1>1, <1>3, <2>1 DEF CalmInv, ReleaseInv, Putting, releaseVars
    <2>5. Indexed(Live) \subseteq Indexed(s.db)
      BY <1>11 DEF Refuses, Drops
    <2>6. DropInv(p)'
      BY <1>1, <1>2, <1>3, <2>1, <2>5
         DEF CalmInv, DropInv, NeverDropped, Live, releaseVars, Uploading
    <2>7. CASE Same(s, Live)
      <3>1. run'[p].pc = "verify" /\ s.db = Live
        BY <1>1, <1>6, <1>11, <2>7, LocalType DEF Run, Same
      <3>2. DatabaseInv(p)'
        BY <1>1, <1>2, <1>3, <1>7, <3>1 DEF DatabaseInv, Uploading, releaseVars
      <3>3. \A n \in Indexed(s.db) : Uploaded(p, n)'
        BY <1>1, <1>2, <2>1, <3>1
           DEF CalmInv, ReleaseInv, Putting, Uploaded, releaseVars
      <3>4. UploadInv(p)'
        BY <1>2, <3>1, <3>3 DEF UploadInv, Putting, Uploading
      <3>5. QED
        BY <1>8, <2>3, <2>4, <2>6, <3>2, <3>4 DEF CalmInv
    <2>8. CASE ~Same(s, Live)
      <3>1. run'[p].pc = "packages" /\ run'[p].seen = Live /\ run'[p].left = Indexed(s.db)
        BY <1>1, <1>6, <1>11, <2>8, LocalType DEF Run
      <3>2. DatabaseInv(p)'
        BY <1>1, <1>3, <1>7, <3>1 DEF DatabaseInv, Uploading, releaseVars
      <3>3. UploadInv(p)'
        BY <1>2, <3>1 DEF UploadInv, Putting, Uploading, Shipped
      <3>4. QED
        BY <1>8, <2>3, <2>4, <2>6, <3>2, <3>3 DEF CalmInv
    <2>9. QED
      BY <2>7, <2>8
  <1>12. QED
    BY <1>10, <1>11

\* The next package is skipped when the database names its bytes already.
LEMMA CalmNextPackage ==
    ASSUME NEW p, Calm(p), TypeOK, CalmInv(p), NEW n \in Names, NextPackage(p, n)
    PROVE  CalmInv(p)'
  <1> DEFINE D == staging[p].db
  <1>1. /\ p \in Publishers /\ run[p].pc = "packages" /\ n \in run[p].left
        /\ UNCHANGED <<releaseVars, staging>>
    BY DEF Calm, NextPackage
  <1>2. Live' = Live /\ D \in Db /\ Live \in Db /\ run[p].seen = Live
        /\ run[p].pos = 1 /\ n \in Indexed(D) /\ run[p].left \subseteq Indexed(D)
    BY <1>1, NameType
       DEF Live, releaseVars, TypeOK, Staging, CalmInv, DatabaseInv, UploadInv, Uploading
  <1>3. /\ run'[p].pc = IF Live[n] = D[n] THEN "signature" ELSE "package"
        /\ run'[p].cur = n /\ run'[p].left = run[p].left \ {n}
        /\ run'[p].seen = Live /\ run'[p].pos = 1
    BY <1>1, <1>2 DEF NextPackage, TypeOK, Run
  <1>4. ~Putting(p) /\ Putting(p)' /\ Current(p)' = FileOf(D, n)
    BY <1>1, <1>3 DEF Putting, Current
  <1>5. DatabaseInv(p)'
    BY <1>1, <1>2, <1>3 DEF CalmInv, DatabaseInv, Uploading, releaseVars
  <1>6. BytesInv(p)' /\ IndexInv(p)'
    BY <1>1, <1>2, <1>3 DEF CalmInv, BytesInv, IndexInv, Uploading, Shipped
  <1>7. ReleaseInv(p)'
    BY <1>1, <1>2, <1>4 DEF CalmInv, ReleaseInv, Putting, releaseVars
  <1>8. UploadInv(p)'
    <2>1. run'[p].pc = "signature" => pkgs[FileOf(D, n)] = D[n].sum
      <3>1. Live[n] = D[n] => n \in Indexed(Live) /\ FileOf(Live, n) = FileOf(D, n)
        BY <1>2 DEF Indexed, FileOf
      <3>2. QED
        BY <1>3, <3>1 DEF CalmInv, ReleaseInv
    <2>2. \A m \in Indexed(D) \ run'[p].left : m = n \/ Uploaded(p, m)'
      BY <1>1, <1>3, <1>4 DEF CalmInv, UploadInv, Uploading, Uploaded, releaseVars
    <2>3. QED
      BY <1>1, <1>2, <1>3, <1>4, <2>1, <2>2
         DEF UploadInv, Uploading, Shipped, releaseVars
  <1>9. DropInv(p)'
    BY <1>1, <1>2, <1>3 DEF CalmInv, DropInv, NeverDropped, Live, Uploading, releaseVars
  <1>10. QED
    BY <1>5, <1>6, <1>7, <1>8, <1>9 DEF CalmInv

\* What a run knows of the file it uploads.
LEMMA CurrentFile ==
    ASSUME NEW p \in Publishers, TypeOK, CalmInv(p), Putting(p)
    PROVE  /\ staging[p].db \in Db /\ run[p].cur \in Indexed(staging[p].db)
           /\ Current(p) \in Files /\ Current(p)[1] = run[p].cur
           /\ staging[p].pkg[Current(p)] = staging[p].db[run[p].cur].sum
           /\ staging[p].sig[Current(p)] = staging[p].db[run[p].cur].sum
           /\ staging[p].db[run[p].cur].sum # 0
           /\ \A n \in Indexed(staging[p].db) :
                 n # run[p].cur => FileOf(staging[p].db, n) # Current(p)
  <1>1. staging[p].db \in Db
    BY DEF TypeOK, Staging
  <1>2. run[p].cur \in Indexed(staging[p].db)
    BY DEF CalmInv, UploadInv
  <1>3. QED
    BY <1>1, <1>2, DbFacts DEF CalmInv, IndexInv, Current, Putting, Uploading

\* Bytes that are replaced are bytes no database names.
LEMMA CalmPutPackage ==
    ASSUME NEW p, Calm(p), TypeOK, CalmInv(p), PutPackage(p) PROVE CalmInv(p)'
  <1> DEFINE D == staging[p].db
             f == Current(p)
             b == pkgs'[f]
  <1>1. /\ p \in Publishers /\ run[p].pc = "package" /\ Putting(p)
        /\ UNCHANGED <<sigs, dbs, cdn, staging>>
    BY DEF Calm, PutPackage, Putting
  <1>2. Live' = Live /\ Live \in Db /\ run[p].pos = 1
    BY <1>1, NameType DEF Live, TypeOK, CalmInv, DatabaseInv
  <1>3. /\ f \in Files /\ f[1] = run[p].cur /\ D \in Db /\ run[p].cur \in Indexed(D)
        /\ D[run[p].cur].sum # 0
    BY <1>1, CurrentFile
  <1>4. /\ run'[p].pos = 1 /\ run'[p].seen = run[p].seen /\ run'[p].cur = run[p].cur
        /\ run'[p].left = run[p].left
        /\ \/ run'[p].pc = "package" /\ b = 0
           \/ run'[p].pc = "signature" /\ b = staging[p].pkg[f]
        /\ \A g \in Files : g # f => pkgs'[g] = pkgs[g]
    BY <1>1, <1>2, <1>3 DEF PutPackage, Clear, TypeOK, Run
  <1>5. Putting(p)' /\ Current(p)' = f
    BY <1>1, <1>4 DEF Putting, Current
  <1>6. \A n \in Indexed(Live) : FileOf(Live, n) # f
    <2> DEFINE m == run[p].cur
    <2>1. SUFFICES ASSUME NEW n \in Indexed(Live), FileOf(Live, n) = f PROVE FALSE
      OBVIOUS
    <2>2. n = m /\ Live[m].ver = f[2] /\ D[m].ver = f[2] /\ m \in Names
      BY <1>2, <1>3, <2>1, DbFacts DEF Current
    <2>3. staging[p].pkg[f] = D[m].sum
      BY <1>1, CurrentFile
    <2>4. staging[p].pkg[f] = Live[m].sum
      BY <1>3, <2>2, <2>3 DEF CalmInv, BytesInv
    <2>5. Live[m] = D[m]
      <3>1. Live[m].ver = D[m].ver /\ Live[m].sum = D[m].sum
        BY <2>2, <2>3, <2>4
      <3> HIDE DEF D, m
      <3>2. QED
        BY <1>2, <1>3, <2>2, <3>1, DbFacts
    <2>6. QED
      BY <1>1, <2>5 DEF CalmInv, UploadInv
  <1>7. DatabaseInv(p)'
    BY <1>1, <1>2, <1>4 DEF CalmInv, DatabaseInv, Uploading
  <1>8. BytesInv(p)' /\ IndexInv(p)'
    BY <1>1, <1>2, <1>4 DEF CalmInv, BytesInv, IndexInv, Uploading, Shipped
  <1>9. ReleaseInv(p)'
    <2>1. \A v \in Versions : pkgs'[<<Kernel, v>>] \in {0, v}
      <3>1. ASSUME NEW v \in Versions PROVE pkgs'[<<Kernel, v>>] \in {0, v}
        <4>1. CASE <<Kernel, v>> = f
          BY <1>1, <1>4, <4>1 DEF CalmInv, BytesInv
        <4>2. CASE <<Kernel, v>> # f
          BY <1>4, <4>2, NameType DEF CalmInv, ReleaseInv
        <4>3. QED
          BY <4>1, <4>2
      <3>2. QED
        BY <3>1
    <2>2. \A g \in Files : sigs'[g] \in {0, pkgs'[g]} \/ (Putting(p)' /\ g = Current(p)')
      BY <1>1, <1>4, <1>5 DEF CalmInv, ReleaseInv
    <2>3. \A n \in Indexed(Live) : /\ Live[n].sum # 0
                                   /\ pkgs'[FileOf(Live, n)] = Live[n].sum
                                   /\ sigs'[FileOf(Live, n)] = Live[n].sum
      BY <1>1, <1>2, <1>4, <1>6, DbFacts DEF CalmInv, ReleaseInv
    <2>4. QED
      BY <1>2, <2>1, <2>2, <2>3 DEF ReleaseInv
  <1>10. UploadInv(p)'
    <2>1. \A n \in Indexed(D) : n # run[p].cur /\ Uploaded(p, n) => Uploaded(p, n)'
      BY <1>1, <1>3, <1>4, CurrentFile, DbFacts DEF Uploaded
    <2>2. staging[p].pkg[f] = D[run[p].cur].sum
      BY <1>1, CurrentFile
    <2>3. QED
      BY <1>1, <1>2, <1>4, <1>5, <2>1, <2>2 DEF CalmInv, UploadInv, Uploading, Shipped
  <1>11. DropInv(p)'
    BY <1>1, <1>2, <1>4 DEF CalmInv, DropInv, NeverDropped, Live, Uploading
  <1>12. QED
    BY <1>7, <1>8, <1>9, <1>10, <1>11 DEF CalmInv

LEMMA CalmPutSignature ==
    ASSUME NEW p, Calm(p), TypeOK, CalmInv(p), PutSignature(p) PROVE CalmInv(p)'
  <1> DEFINE D == staging[p].db
             f == Current(p)
  <1>1. /\ p \in Publishers /\ run[p].pc = "signature" /\ Putting(p)
        /\ UNCHANGED <<pkgs, dbs, cdn, staging>>
    BY DEF Calm, PutSignature, Putting
  <1>2. Live' = Live /\ Live \in Db /\ run[p].pos = 1
    BY <1>1, NameType DEF Live, TypeOK, CalmInv, DatabaseInv
  <1>3. /\ f \in Files /\ f[1] = run[p].cur /\ D \in Db /\ run[p].cur \in Indexed(D)
        /\ D[run[p].cur].sum # 0 /\ staging[p].sig[f] = D[run[p].cur].sum
        /\ pkgs[f] = D[run[p].cur].sum
    BY <1>1, CurrentFile DEF CalmInv, UploadInv
  <1>4. /\ run'[p].pos = 1 /\ run'[p].seen = run[p].seen /\ run'[p].left = run[p].left
        /\ \/ run'[p].pc = "signature" /\ run'[p].cur = run[p].cur /\ sigs'[f] = 0
           \/ run'[p].pc = "packages" /\ sigs'[f] = staging[p].sig[f]
        /\ \A g \in Files : g # f => sigs'[g] = sigs[g]
    BY <1>1, <1>2, <1>3 DEF PutSignature, Clear, TypeOK, Run
  <1>5. DatabaseInv(p)'
    BY <1>1, <1>2, <1>4 DEF CalmInv, DatabaseInv, Uploading
  <1>6. BytesInv(p)' /\ IndexInv(p)'
    BY <1>1, <1>2, <1>4 DEF CalmInv, BytesInv, IndexInv, Uploading, Shipped
  <1>7. run'[p].pc = "signature" => Current(p)' = f
    BY <1>1, <1>4 DEF Current
  <1>8. sigs'[f] \in {0, pkgs[f]}
    BY <1>3, <1>4
  <1>9. ReleaseInv(p)'
    <2>1. \A g \in Files : sigs'[g] \in {0, pkgs'[g]}
      BY <1>1, <1>4, <1>8 DEF CalmInv, ReleaseInv
    <2>2. ASSUME NEW n \in Indexed(Live)
          PROVE  /\ Live[n].sum # 0 /\ pkgs'[FileOf(Live, n)] = Live[n].sum
                 /\ \/ sigs'[FileOf(Live, n)] = Live[n].sum
                    \/ /\ run'[p].pc = "signature" /\ FileOf(Live, n) = f
                       /\ sigs'[FileOf(Live, n)] = 0
      <3>1. FileOf(Live, n) \in Files
        BY <1>2, DbFacts
      <3>2. CASE FileOf(Live, n) # f
        BY <1>1, <1>4, <3>1, <3>2 DEF CalmInv, ReleaseInv
      <3>3. CASE FileOf(Live, n) = f
        BY <1>1, <1>3, <1>4, <3>3 DEF CalmInv, ReleaseInv
      <3>4. QED
        BY <3>2, <3>3
    <2>3. QED
      BY <1>1, <1>2, <1>7, <2>1, <2>2 DEF CalmInv, ReleaseInv
  <1>10. UploadInv(p)'
    <2>1. \A n \in Indexed(D) : n # run[p].cur /\ Uploaded(p, n) => Uploaded(p, n)'
      BY <1>1, <1>3, <1>4, CurrentFile, DbFacts DEF Uploaded
    <2>2. \A n \in Indexed(D) :
              n = run[p].cur /\ run'[p].pc = "packages" => Uploaded(p, n)'
      BY <1>1, <1>3, <1>4 DEF Uploaded, Current
    <2>3. ASSUME NEW n \in Indexed(D) \ run[p].left
          PROVE  \/ Uploaded(p, n)'
                 \/ run'[p].pc = "signature" /\ n = run[p].cur
      BY <1>1, <1>4, <2>1, <2>2 DEF CalmInv, UploadInv, Uploading
    <2>4. run[p].left \subseteq Indexed(D)
      BY <1>1 DEF CalmInv, UploadInv, Uploading
    <2>5. QED
      BY <1>1, <1>2, <1>3, <1>4, <1>7, <2>3, <2>4
         DEF UploadInv, Uploading, Shipped, Putting
  <1>11. DropInv(p)'
    BY <1>1, <1>2, <1>4 DEF CalmInv, DropInv, NeverDropped, Live, Uploading
  <1>12. QED
    BY <1>5, <1>6, <1>9, <1>10, <1>11 DEF CalmInv

LEMMA CalmLastPackage ==
    ASSUME NEW p, Calm(p), TypeOK, CalmInv(p), LastPackage(p) PROVE CalmInv(p)'
  <1>1. /\ p \in Publishers /\ run[p].pc = "packages" /\ run[p].left = {}
        /\ UNCHANGED <<releaseVars, staging>>
    BY DEF Calm, LastPackage
  <1>2. run'[p].pc = "databases" /\ run'[p].pos = 1 /\ run[p].pos = 1
    BY <1>1 DEF LastPackage, TypeOK, Run, CalmInv, DatabaseInv
  <1>3. Live' = Live
    BY <1>1 DEF Live, releaseVars
  <1>4. DatabaseInv(p)'
    BY <1>1, <1>2, CalmDbFile DEF DatabaseInv, Uploading
  <1>5. BytesInv(p)' /\ IndexInv(p)'
    BY <1>1, <1>2, <1>3 DEF CalmInv, BytesInv, IndexInv, Uploading, Shipped
  <1>6. ReleaseInv(p)'
    BY <1>1, <1>2, <1>3 DEF CalmInv, ReleaseInv, Putting, releaseVars
  <1>7. UploadInv(p)'
    <2>1. \A n \in Indexed(staging[p].db) : Uploaded(p, n)'
      BY <1>1 DEF CalmInv, UploadInv, Uploading, Putting, Uploaded, releaseVars
    <2>2. QED
      BY <1>1, <1>2, <2>1 DEF UploadInv, Putting, Uploading, Shipped
  <1>8. DropInv(p)'
    BY <1>1, <1>2, <1>3 DEF CalmInv, DropInv, NeverDropped, Live, Uploading, releaseVars
  <1>9. QED
    BY <1>4, <1>5, <1>6, <1>7, <1>8 DEF CalmInv

\* The database files follow when everything they name is there; the last one
\* makes them one database again.
LEMMA CalmPutDatabase ==
    ASSUME NEW p, Calm(p), TypeOK, CalmInv(p), PutDatabase(p) PROVE CalmInv(p)'
  <1> DEFINE D == staging[p].db
             i == run[p].pos
  <1>1. /\ p \in Publishers /\ run[p].pc = "databases"
        /\ UNCHANGED <<pkgs, sigs, staging>> /\ i \in 1 .. 6
    BY LocalType DEF Calm, PutDatabase, Run, DbFiles
  <1>2. \/ /\ run'[p].pc = "databases" /\ run'[p].pos = i
           /\ dbs'[i] = NoDb /\ cdn'[i] = dbs[i]
           /\ \A j \in DbFiles : j # i => cdn'[j] = cdn[j]
        \/ /\ run'[p].pc = (IF i = 6 THEN "snapshot" ELSE "databases")
           /\ run'[p].pos = (IF i = 6 THEN 1 ELSE i + 1)
           /\ dbs'[i] = D /\ cdn' = cdn
    BY <1>1, CalmDbFile DEF PutDatabase, Clear, TypeOK, Run
  <1>3. \A j \in DbFiles : j # i => dbs'[j] = dbs[j]
    BY <1>1 DEF PutDatabase, TypeOK
  <1>4. /\ D \in Db /\ Live \in Db /\ Indexed(NoDb) = {}
        /\ \A n \in Names : NoDb[n].ver = 0
    BY <1>1, NameType DEF TypeOK, Staging, Live, Indexed, NoDb
  <1>5. Live' \in {Live, NoDb, D} /\ (Live' = Live \/ i = 1)
    BY <1>1, <1>2, <1>3, CalmDbFile DEF Live
  <1>6. /\ \A n \in Indexed(D) : D[n].sum # 0 /\ staging[p].pkg[FileOf(D, n)] = D[n].sum
        /\ \A n \in Indexed(D) : pkgs[FileOf(D, n)] = D[n].sum /\ sigs[FileOf(D, n)] = D[n].sum
    BY <1>1 DEF CalmInv, IndexInv, UploadInv, Shipped, Uploaded
  <1>7. DatabaseInv(p)'
    <2>1. \A j \in DbFiles : j < i => dbs[j] = D
      BY <1>1 DEF CalmInv, DatabaseInv
    <2>2. CASE run'[p].pc = "databases"
      <3>1. \A j \in DbFiles : j < run'[p].pos => dbs'[j] = D
        BY <1>1, <1>2, <1>3, <2>1, <2>2, CalmDbFile
      <3>2. QED
        BY <1>1, <2>2, <3>1 DEF DatabaseInv, Uploading
    <2>3. CASE run'[p].pc = "snapshot"
      <3>1. i = 6 /\ run'[p].pos = 1 /\ dbs'[i] = D
        BY <1>2, <2>3
      <3>2. \A j \in DbFiles : dbs'[j] = D
        BY <1>3, <2>1, <3>1, CalmDbFile
      <3>3. Live' = D
        BY <3>2, NameType DEF Live
      <3>4. QED
        BY <1>1, <2>3, <3>1, <3>2, <3>3 DEF DatabaseInv, Uploading
    <2>4. QED
      BY <1>2, <2>2, <2>3
  <1>8. BytesInv(p)'
    <2>1. ASSUME NEW f \in Files, staging[p].pkg[f] # 0, Live'[f[1]].ver = f[2]
          PROVE  staging[p].pkg[f] = Live'[f[1]].sum
      <3>1. CASE Live' = Live
        BY <2>1, <3>1 DEF CalmInv, BytesInv
      <3>2. CASE Live' = NoDb
        BY <1>4, <2>1, <3>2, NameType, ByteType
      <3>3. CASE Live' = D
        <4>1. f[1] \in Indexed(D) /\ FileOf(D, f[1]) = f
          BY <2>1, <3>3, NameType, ByteType DEF Indexed, FileOf
        <4>2. QED
          BY <1>6, <3>3, <4>1
      <3>4. QED
        BY <1>5, <3>1, <3>2, <3>3
    <2>2. QED
      BY <1>1, <2>1 DEF CalmInv, BytesInv
  <1>9. IndexInv(p)'
    BY <1>1 DEF CalmInv, IndexInv, Shipped
  <1>10. ~Putting(p) /\ ~Putting(p)' /\ run'[p].pc \in Shipped \ {"verify", "tag"}
    BY <1>1, <1>2 DEF Putting, Shipped
  <1>11. ReleaseInv(p)'
    <2>1. ASSUME NEW n \in Indexed(Live)'
          PROVE  /\ Live'[n].sum # 0 /\ pkgs[FileOf(Live', n)] = Live'[n].sum
                 /\ sigs[FileOf(Live', n)] = Live'[n].sum
      <3>1. CASE Live' = Live
        BY <1>10, <2>1, <3>1 DEF CalmInv, ReleaseInv, Putting, Indexed
      <3>2. CASE Live' = D
        BY <1>6, <2>1, <3>2 DEF Indexed
      <3>3. QED
        BY <1>4, <1>5, <2>1, <3>1, <3>2 DEF Indexed
    <2>2. QED
      BY <1>1, <1>10, <2>1 DEF CalmInv, ReleaseInv, FileOf
  <1>12. UploadInv(p)'
    BY <1>1, <1>6, <1>10 DEF UploadInv, Putting, Uploading, Shipped, Uploaded
  <1>13. DropInv(p)'
    <2>1. /\ NeverDropped
          /\ Indexed(Live) \cup Indexed(cdn[DbFile.db]) \subseteq Indexed(D)
      BY <1>1 DEF CalmInv, DropInv
    <2>2. /\ cdn'[DbFile.db] \in {cdn[DbFile.db], Live}
          /\ Live' = Live => cdn'[DbFile.db] = cdn[DbFile.db] \/ Live = NoDb
      BY <1>2, <1>3, CalmDbFile DEF Live
    <2>3. NeverDropped'
      <3>1. CASE Live' = D
        BY <2>1, <2>2, <3>1 DEF NeverDropped, Live, Indexed
      <3>2. CASE Live' = Live
        BY <2>1, <2>2, <3>2 DEF NeverDropped, Live
      <3>3. QED
        BY <1>5, <3>1, <3>2 DEF NeverDropped, Live
    <2>4. /\ Indexed(Live)' \subseteq Indexed(D)
          /\ Indexed(cdn[DbFile.db])' \subseteq Indexed(D)
      BY <1>4, <1>5, <2>1, <2>2 DEF Indexed
    <2>5. run'[p].pc = "snapshot" => Live' = D
      BY <1>1, <1>7, <1>10 DEF DatabaseInv
    <2>6. QED
      BY <1>1, <1>10, <2>3, <2>4, <2>5 DEF DropInv, Uploading, Shipped, Indexed
  <1>14. QED
    BY <1>7, <1>8, <1>9, <1>11, <1>12, <1>13 DEF CalmInv

----------------------------------------------------------------------------
(* Dating, verifying and tagging only look; so the invariant is inductive. *)

LEMMA CalmRecord ==
    ASSUME NEW p, Calm(p), TypeOK, CalmInv(p), Stamp(p) \/ Snapshot(p) \/ Verify(p) \/ Tag(p)
    PROVE  CalmInv(p)'
  <1>1. /\ p \in Publishers /\ UNCHANGED releaseVars
        /\ run[p].pc \in {"snapshot", "verify", "tag"} /\ run[p].pos = 1
    BY DEF Calm, Stamp, Snapshot, Verify, Tag, CalmInv, DatabaseInv
  <1>2. \/ /\ run'[p].pc \in {"snapshot", "verify", "tag"}
           /\ run'[p].pos = run[p].pos
        \/ run'[p].pc = "idle" /\ run'[p].pos = 1
    BY <1>1 DEF Stamp, Snapshot, Verify, Tag, TypeOK, Run, Idle
  <1>3. /\ staging'[p].pkg = staging[p].pkg /\ staging'[p].sig = staging[p].sig
        /\ staging'[p].db = staging[p].db
    BY <1>1 DEF Stamp, Snapshot, Verify, Tag, TypeOK, Staging
  <1>4. Live' = Live /\ UNCHANGED <<pkgs, sigs, dbs, cdn>>
    BY <1>1 DEF Live, releaseVars
  <1>5. BytesInv(p)'
    BY <1>3, <1>4, CalmStaged
  <1>6. CASE run'[p].pc = "idle"
    <2>1. IndexInv(p)'
      BY <1>6 DEF IndexInv, Uploading, Shipped
    <2>2. run'[p].pos = 1
      BY <1>1, <1>2
    <2>3. QED
      BY <1>1, <1>5, <1>6, <2>1, <2>2, CalmAtRest DEF CalmInv, Uploading
  <1>7. CASE run'[p].pc \in {"snapshot", "verify", "tag"}
    <2>1. run'[p].pos = 1
      BY <1>1, <1>2
    <2>2. DatabaseInv(p)' /\ IndexInv(p)'
      BY <1>1, <1>3, <1>4, <1>7, <2>1
         DEF CalmInv, DatabaseInv, IndexInv, Uploading, Shipped
    <2>3. ReleaseInv(p)'
      BY <1>1, <1>4, <1>7 DEF CalmInv, ReleaseInv, Putting
    <2>4. UploadInv(p)'
      BY <1>1, <1>3, <1>4, <1>7 DEF CalmInv, UploadInv, Putting, Uploading, Shipped, Uploaded
    <2>5. DropInv(p)'
      BY <1>1, <1>4, <1>7 DEF CalmInv, DropInv, NeverDropped, Live, Uploading
    <2>6. QED
      BY <1>5, <2>2, <2>3, <2>4, <2>5 DEF CalmInv
  <1>8. QED
    BY <1>2, <1>6, <1>7

LEMMA CalmAbort ==
    ASSUME NEW p, Calm(p), TypeOK, CalmInv(p), Abort(p) PROVE CalmInv(p)'
  <1>1. /\ p \in Publishers /\ UNCHANGED <<releaseVars, staging>>
        /\ run[p].pc \in {"pull", "build"}
    BY DEF Calm, Abort
  <1>2. run'[p].pc = "idle" /\ run'[p].pos = 1
    BY <1>1 DEF Abort, TypeOK, Idle
  <1>3. BytesInv(p)' /\ IndexInv(p)'
    BY <1>1, <1>2 DEF CalmInv, BytesInv, IndexInv, Live, releaseVars, Uploading, Shipped
  <1>4. QED
    BY <1>1, <1>2, <1>3, CalmAtRest DEF CalmInv, Uploading

LEMMA CalmNext ==
    ASSUME NEW p, Calm(p), TypeOK, CalmInv(p), [Next]_vars PROVE CalmInv(p)'
  <1>1. CASE UNCHANGED vars
    BY <1>1, CalmStutter DEF vars
  <1>2. ASSUME NEW n \in Anys, NEW v \in Versions, Push(n, v) PROVE CalmInv(p)'
    BY <1>2, CalmStutter DEF Push, releaseVars, localVars
  <1>3. ASSUME NEW v \in Versions, SandboxPackage(v) \/ SandboxSignature(v)
        PROVE  CalmInv(p)'
    BY <1>3, CalmSandbox
  <1>4. ASSUME NEW q \in Publishers, Start(q) \/ Step(q) \/ Kill(q) PROVE CalmInv(p)'
    <2>1. q = p /\ ~Kill(q)
      BY DEF Calm, Kill
    <2>2. CASE \/ Start(p) \/ PullKernel(p) \/ NoPull(p)
               \/ (\E v \in Versions : StageKernel(p, v)) \/ ReadPublished(p)
               \/ (\E n \in Anys : BuildPackage(p, n)) \/ Index(p)
      BY <2>2, CalmStart, CalmPull, CalmReadPublished, CalmBuild, CalmIndex
    <2>3. CASE \/ Check(p) \/ (\E n \in Names : NextPackage(p, n))
               \/ PutPackage(p) \/ PutSignature(p) \/ LastPackage(p) \/ PutDatabase(p)
      BY <2>3, CalmCheck, CalmNextPackage, CalmPutPackage, CalmPutSignature,
         CalmLastPackage, CalmPutDatabase
    <2>4. CASE Stamp(p) \/ Snapshot(p) \/ Verify(p) \/ Tag(p) \/ Abort(p)
      BY <2>4, CalmRecord, CalmAbort
    <2>5. QED
      BY <1>4, <2>1, <2>2, <2>3, <2>4 DEF Step
  <1>5. QED
    BY <1>1, <1>2, <1>3, <1>4 DEF Next

LEMMA CalmAlways == ASSUME NEW p, Calm(p) PROVE Spec => []CalmInv(p)
  <1>1. Init => CalmInv(p)
    BY CalmInit
  <1>2. TypeOK /\ CalmInv(p) /\ [Next]_vars => CalmInv(p)'
    BY CalmNext
  <1>3. QED
    BY <1>1, <1>2, TypeCorrect, PTL DEF Spec

----------------------------------------------------------------------------
(* What one publisher promises, CI or a workstation, whether or not pushes *)
(* revert versions.                                                        *)

\* At every moment of a publish, what clients see keeps the bytes it names,
\* with signatures of those bytes or none while one is replaced: a published
\* version is immutable (packages/README.md:54).
THEOREM LiveStaysDownloadable ==
    ASSUME NEW p, Publishers = {p}, Faults = {} PROVE Spec => []LiveDownloadable
  <1>1. CalmInv(p) => LiveDownloadable
    BY DEF CalmInv, ReleaseInv, LiveDownloadable, Downloadable, Live
  <1>2. QED
    BY <1>1, CalmAlways, PTL DEF Calm

\* Nothing is dated, verified or tagged before clients see exactly the staged
\* database, signed, and can install all of it.
THEOREM PublishedStaysInstallable ==
    ASSUME NEW p, Publishers = {p}, Faults = {} PROVE Spec => []PublishedIsInstallable
  <1>1. CalmInv(p) => PublishedIsInstallable
    BY NameType DEF CalmInv, DatabaseInv, UploadInv, Uploaded, PublishedIsInstallable,
                    Installable, Shipped, Live
  <1>2. QED
    BY <1>1, CalmAlways, PTL DEF Calm

\* A run that finds nothing to ship (publish-repo.sh:105-107) finds all six
\* database files on the Release as it staged them.
THEOREM NothingIsLeftToShip ==
    ASSUME NEW p, Publishers = {p}, Faults = {} PROVE Spec => []NothingToShip
  <1>1. CalmInv(p) => NothingToShip
    BY DEF CalmInv, DatabaseInv, NothingToShip
  <1>2. QED
    BY <1>1, CalmAlways, PTL DEF Calm

\* The check for dropped names (publish-repo.sh:89-92) does what it is for: the
\* database clients see never loses a name, from a workstation either, whose
\* staging directory need not have every package.
THEOREM NamesKeptWhenCalm ==
    ASSUME NEW p, Publishers = {p}, Faults = {} PROVE Spec => []NeverDropped
  <1>1. CalmInv(p) => NeverDropped
    BY DEF CalmInv, DropInv
  <1>2. QED
    BY <1>1, CalmAlways, PTL DEF Calm

----------------------------------------------------------------------------
(* What CI promises: every publish gets its tag, the kernel never goes     *)
(* back.                                                                   *)

Early == {"idle", "pull", "read", "build"}

\* Clients see a tagged database, or the run that publishes it has yet to tag
\* it; a run with nothing to ship is one whose database is tagged.
TagInv(p) ==
    /\ run[p].pc \in {"snapshot", "verify", "tag"} => staging[p].db # NoDb
    /\ \/ run[p].pc \in {"databases", "snapshot", "tag"}
       \/ run[p].pc = "verify" /\ staging[p].stamp
       \/ Live \in tagged \cup {NoDb}
    /\ run[p].pc = "verify" => staging[p].stamp \/ staging[p].db \in tagged

\* The published kernel is in staging when it is indexed, so that what is
\* indexed is not older.
KernelInv(p) ==
    /\ KernelNeverOlder
    /\ run[p].pc # "databases" => cdn[DbFile.db][Kernel].ver <= Live[Kernel].ver
    /\ run[p].pc \in {"read", "build"} /\ Live[Kernel].ver # 0
          => staging[p].pkg[<<Kernel, Live[Kernel].ver>>] # 0
    /\ run[p].pc \in {"check"} \cup Uploading => Live[Kernel].ver <= staging[p].db[Kernel].ver
    /\ run[p].pc = "databases" =>
          /\ Live[Kernel].ver <= staging[p].db[Kernel].ver
          /\ cdn[DbFile.db][Kernel].ver <= staging[p].db[Kernel].ver
CiInv(p) == TagInv(p) /\ KernelInv(p)

\* What holds with CI alone before any of its steps.
CiState == /\ Publishers = {"ci"} /\ Faults = {}
           /\ TypeOK /\ CalmInv("ci") /\ NamesInv

LEMMA CiTypes ==
    ASSUME CiState
    PROVE  /\ "ci" \in Publishers /\ Calm("ci") /\ TypeOK /\ CalmInv("ci") /\ NamesInv
           /\ staging["ci"] \in Staging /\ staging["ci"].db \in Db /\ Live \in Db
           /\ cdn[DbFile.db] \in Db /\ run["ci"] \in Run
           /\ \A n \in Names : /\ Live[n].ver \in Nat /\ staging["ci"].db[n].ver \in Nat
                               /\ cdn[DbFile.db][n].ver \in Nat /\ NoDb[n].ver = 0
           /\ run["ci"].pc \in {"check", "databases"} \cup Uploading =>
                 \A n \in Names : staging["ci"].db[n].ver # 0
  <1>1. "ci" \in Publishers /\ Calm("ci")
    BY DEF CiState, Calm
  <1>2. /\ staging["ci"] \in Staging /\ staging["ci"].db \in Db /\ Live \in Db
        /\ cdn[DbFile.db] \in Db /\ run["ci"] \in Run
    BY <1>1, NameType DEF CiState, TypeOK, Staging, Live
  <1>3. \A n \in Names : /\ Live[n].ver \in Nat /\ staging["ci"].db[n].ver \in Nat
                         /\ cdn[DbFile.db][n].ver \in Nat /\ NoDb[n].ver = 0
    BY <1>2, DbFacts DEF NoDb
  <1>4. run["ci"].pc \in {"check", "databases"} \cup Uploading =>
           \A n \in Names : staging["ci"].db[n].ver # 0
    BY <1>1 DEF CiState, NamesInv, RunFull, StagedFull, Full, Indexed, Uploading
  <1>5. QED
    BY <1>1, <1>2, <1>3, <1>4 DEF CiState

LEMMA CiInit == ASSUME Publishers = {"ci"}, Faults = {}, Init PROVE CiInv("ci")
  <1>1. run["ci"].pc = "idle" /\ cdn[DbFile.db] = NoDb
    BY NameType DEF Init, Idle
  <1>2. (Live = FirstDb /\ tagged = {FirstDb}) \/ Live = NoDb
    BY NameType DEF Init, Live
  <1>3. TagInv("ci")
    BY <1>1, <1>2 DEF TagInv
  <1>4. NoDb[Kernel].ver = 0 /\ Live[Kernel].ver \in Nat
    BY <1>2, NameType DEF NoDb, FirstDb
  <1>5. QED
    BY <1>1, <1>3, <1>4 DEF CiInv, KernelInv, KernelNeverOlder, Live, Uploading

\* Pushes and the sandbox touch nothing of it.
LEMMA CiStutter ==
    ASSUME CiInv("ci"), UNCHANGED <<dbs, cdn, staging, run, tagged>> PROVE CiInv("ci")'
  BY DEF CiInv, TagInv, KernelInv, KernelNeverOlder, Live

LEMMA CiEarly ==
    ASSUME CiState, CiInv("ci"),
           \/ Start("ci") \/ PullKernel("ci") \/ NoPull("ci")
           \/ (\E v \in Versions : StageKernel("ci", v)) \/ ReadPublished("ci")
           \/ (\E n \in Anys : BuildPackage("ci", n)) \/ Abort("ci")
    PROVE  CiInv("ci")'
  <1> DEFINE p == "ci"
             g == <<Kernel, Live[Kernel].ver>>
  <1>1. /\ UNCHANGED <<releaseVars, recordVars>> /\ run[p].pc \in Early
        /\ run'[p].pc \in Early
    <2>1. /\ UNCHANGED <<releaseVars, recordVars>> /\ run[p].pc \in Early
      BY DEF Start, PullKernel, NoPull, StageKernel, ReadPublished, BuildPackage, Abort, Early
    <2>2. CASE Start(p) \/ Abort(p)
      <3>1. run' = [run EXCEPT ![p] = Idle]
            \/ run' = [run EXCEPT ![p] = [Idle EXCEPT !.pc = "pull", !.want = head]]
        BY <2>2 DEF Start, Abort
      <3>2. p \in Publishers /\ run \in [Publishers -> Run]
        BY CiTypes DEF TypeOK
      <3>3. Idle.pc = "idle" /\ [Idle EXCEPT !.pc = "pull", !.want = head].pc = "pull"
        BY DEF Idle
      <3>4. QED
        BY <2>1, <3>1, <3>2, <3>3 DEF Early
    <2>3. CASE PullKernel(p) \/ NoPull(p) \/ \E v \in Versions : StageKernel(p, v)
      <3>1. run' = [run EXCEPT ![p].pc = "read"]
        BY <2>3 DEF PullKernel, NoPull, StageKernel
      <3>2. QED
        BY <2>1, <3>1, CiTypes DEF Early, TypeOK, Run
    <2>4. CASE ReadPublished(p)
      <3>1. PICK known :
              run' = [run EXCEPT ![p].pc = "build", ![p].left = Anys, ![p].known = known]
        BY <2>4 DEF ReadPublished
      <3>2. QED
        BY <2>1, <3>1, CiTypes DEF Early, TypeOK, Run
    <2>5. ASSUME NEW n \in Anys, BuildPackage(p, n) PROVE run'[p].pc \in Early
      BY <2>5, CiTypes DEF BuildPackage, Early, TypeOK, Run
    <2>6. QED
      BY <2>1, <2>2, <2>3, <2>4, <2>5
  <1>2. /\ Live' = Live /\ UNCHANGED <<dbs, cdn, tagged>>
    BY <1>1 DEF Live, releaseVars, recordVars
  <1>3. TagInv(p)'
    BY <1>1, <1>2 DEF CiInv, TagInv, Early
  <1>4. ASSUME run'[p].pc \in {"read", "build"}, Live[Kernel].ver # 0
        PROVE  staging'[p].pkg[g] # 0
    <2>1. /\ Kernel \in Indexed(Live) /\ g = FileOf(Live, Kernel) /\ g \in Files
          /\ g[1] = Kernel
      BY <1>4, CiTypes, NameType, DbFacts DEF Indexed, FileOf
    <2>2. pkgs[g] # 0
      BY <2>1 DEF CiState, CalmInv, ReleaseInv
    <2> HIDE DEF g
    <2>3. CASE Start(p)
      BY <1>4, <2>3, CiTypes, DbType DEF Start, TypeOK, Idle
    <2>4. CASE PullKernel(p)
      <3>1. staging'[p].pkg = [f \in Files |-> IF f[1] = Kernel /\ pkgs[f] # 0
                                               THEN pkgs[f] ELSE staging[p].pkg[f]]
        BY <2>4, CiTypes DEF PullKernel, TypeOK, Staging
      <3>2. QED
        BY <2>1, <2>2, <3>1
    <2>5. CASE NoPull(p) \/ \E v \in Versions : StageKernel(p, v)
      <3>1. p = "ci" /\ "ci" # "desk"
        OBVIOUS
      <3>2. QED
        BY <2>5, <3>1 DEF NoPull, StageKernel
    <2>6. CASE ReadPublished(p)
      BY <1>4, <2>6 DEF ReadPublished, CiInv, KernelInv, g
    <2>7. ASSUME NEW n \in Anys, BuildPackage(p, n) PROVE staging'[p].pkg[g] # 0
      <3> DEFINE f == Wanted(p, n)
      <3>1. f \in Files /\ f # g
        BY <2>1, CiTypes, CurrentType, NameAssumption DEF Wanted
      <3>2. PICK b, c : staging' = [staging EXCEPT ![p].pkg[f] = b, ![p].sig[f] = c]
        BY <2>7 DEF BuildPackage
      <3>3. staging'[p].pkg[g] = staging[p].pkg[g]
        <4> HIDE DEF f
        <4>1. QED
          BY <2>1, <3>1, <3>2, CiTypes DEF TypeOK, Staging
      <3>4. QED
        BY <1>4, <2>7, <3>3 DEF BuildPackage, CiInv, KernelInv, g
    <2>8. CASE Abort(p)
      BY <1>4, <2>8, CiTypes DEF Abort, TypeOK, Idle
    <2>9. QED
      BY <2>3, <2>4, <2>5, <2>6, <2>7, <2>8
  <1>5. KernelInv(p)'
    <2>1. KernelNeverOlder' /\ cdn'[DbFile.db][Kernel].ver <= Live'[Kernel].ver
      BY <1>1, <1>2 DEF CiInv, KernelInv, KernelNeverOlder, Early
    <2>2. run'[p].pc \in {"read", "build"} /\ Live'[Kernel].ver # 0
             => staging'[p].pkg[<<Kernel, Live'[Kernel].ver>>] # 0
      BY <1>2, <1>4
    <2>3. QED
      BY <1>1, <2>1, <2>2 DEF KernelInv, Early, Uploading
  <1>6. QED
    BY <1>3, <1>5 DEF CiInv

\* What the later steps of a CI run do, for the invariants of this section and
\* the next.
LEMMA IndexFacts ==
    ASSUME CiState, Index("ci")
    PROVE  /\ run["ci"].pc = "build" /\ run["ci"].left = {}
           /\ run'["ci"].pc = "check" /\ run'["ci"].want = run["ci"].want
           /\ staging'["ci"].db = RepoAdd(staging["ci"])
           /\ Live' = Live /\ UNCHANGED <<releaseVars, recordVars, head>>
  <1> DEFINE s == staging["ci"]
  <1>1. PICK sign \in BOOLEAN :
          staging' = [staging EXCEPT !["ci"] = [s EXCEPT
              !.pkg = [f \in Files |-> IF Kept(s, f) THEN s.pkg[f] ELSE 0],
              !.sig = [f \in Files |->
                         IF ~Kept(s, f) THEN 0
                         ELSE IF s.sig[f] = 0 /\ sign THEN s.pkg[f] ELSE s.sig[f]],
              !.db = RepoAdd(s),
              !.signed = sign]]
    BY DEF Index
  <1>2. staging'["ci"].db = RepoAdd(staging["ci"])
    BY <1>1, CiTypes DEF TypeOK, Staging
  <1>3. run'["ci"].pc = "check" /\ run'["ci"].want = run["ci"].want
    BY CiTypes DEF Index, TypeOK, Run
  <1>4. QED
    BY <1>2, <1>3 DEF Index, Live, releaseVars

LEMMA CheckFacts ==
    ASSUME CiState, Check("ci")
    PROVE  /\ run["ci"].pc = "check"
           /\ \/ run'["ci"].pc = "idle"
              \/ run'["ci"].pc = "packages" /\ run'["ci"].want = run["ci"].want
              \/ /\ run'["ci"].pc = "verify" /\ run'["ci"].want = run["ci"].want
                 /\ staging["ci"].db = Live /\ Live # NoDb
           /\ staging'["ci"].db = staging["ci"].db
           /\ Live' = Live /\ UNCHANGED <<releaseVars, recordVars, head>>
  <1> DEFINE s == staging["ci"]
  <1>1. PICK r \in Reads(DbFile.tar) :
          run' = [run EXCEPT !["ci"] =
                  IF Refuses(s, r[1]) THEN Idle
                  ELSE IF Same(s, r[1]) THEN [run["ci"] EXCEPT !.pc = "verify"]
                  ELSE [run["ci"] EXCEPT !.pc = "packages", !.seen = r[1],
                                         !.left = Indexed(s.db)]]
    BY DEF Check
  <1>2. run["ci"].pc = "check" /\ Idle.pc = "idle"
    BY DEF Check, Idle
  <1>3. r[1] = Live
    BY <1>2, CiTypes, CalmRead, NameType DEF CalmInv, DatabaseInv
  <1>4. CASE Refuses(s, r[1])
    <2>1. run'["ci"].pc = "idle"
      BY <1>1, <1>2, <1>4, CiTypes DEF TypeOK
    <2>2. s.db = staging'["ci"].db
      BY CiTypes DEF Check, TypeOK, Staging
    <2>3. QED
      BY <1>2, <2>1, <2>2 DEF Check, Live, releaseVars
  <1>5. CASE ~Refuses(s, r[1])
    <2>1. run'["ci"].want = run["ci"].want
          /\ run'["ci"].pc = IF Same(s, Live) THEN "verify" ELSE "packages"
      BY <1>1, <1>3, <1>5, CiTypes DEF TypeOK, Run
    <2>2. s.db = staging'["ci"].db
      BY CiTypes DEF Check, TypeOK, Staging
    <2>3. QED
      BY <1>2, <2>1, <2>2 DEF Check, Live, releaseVars, Same
  <1>6. QED
    BY <1>4, <1>5

LEMMA UploadingFacts ==
    ASSUME CiState,
           \/ (\E n \in Names : NextPackage("ci", n)) \/ PutPackage("ci")
           \/ PutSignature("ci") \/ LastPackage("ci")
    PROVE  /\ run["ci"].pc \in Uploading /\ run'["ci"].pc \in Uploading \cup {"databases"}
           /\ run'["ci"].want = run["ci"].want
           /\ Live' = Live /\ UNCHANGED <<dbs, cdn, staging, recordVars, head>>
  <1>1. UNCHANGED <<dbs, cdn, staging, recordVars, head>> /\ run["ci"].pc \in Uploading
    BY DEF NextPackage, PutPackage, PutSignature, LastPackage, releaseVars, Uploading
  <1>2. run'["ci"].pc \in Uploading \cup {"databases"} /\ run'["ci"].want = run["ci"].want
    <2> USE DEF TypeOK, Run, Uploading
    <2>1. ASSUME NEW n \in Names, NextPackage("ci", n)
          PROVE  run'["ci"].pc \in Uploading /\ run'["ci"].want = run["ci"].want
      BY <2>1, CiTypes DEF NextPackage
    <2>2. CASE PutPackage("ci")
      BY <1>1, <2>2, CiTypes DEF PutPackage, Clear
    <2>3. CASE PutSignature("ci")
      BY <1>1, <2>3, CiTypes DEF PutSignature, Clear
    <2>4. CASE LastPackage("ci")
      BY <2>4, CiTypes DEF LastPackage
    <2>5. QED
      BY <2>1, <2>2, <2>3, <2>4
  <1>3. QED
    BY <1>1, <1>2 DEF Live

LEMMA PutDatabaseFacts ==
    ASSUME CiState, PutDatabase("ci")
    PROVE  /\ run["ci"].pc = "databases"
           /\ run'["ci"].pc = "databases" \/ (run'["ci"].pc = "snapshot" /\ Live' = staging["ci"].db)
           /\ run'["ci"].want = run["ci"].want
           /\ \/ Live' = Live /\ cdn'[DbFile.db] = cdn[DbFile.db]
              \/ Live' = NoDb /\ cdn'[DbFile.db] = Live
              \/ Live' = staging["ci"].db /\ cdn'[DbFile.db] = cdn[DbFile.db]
           /\ UNCHANGED <<pkgs, sigs, staging, recordVars, head>>
  <1> DEFINE i == run["ci"].pos
  <1>1. /\ run["ci"].pc = "databases" /\ i \in DbFiles
        /\ UNCHANGED <<pkgs, sigs, staging, recordVars, head>>
    BY CiTypes DEF PutDatabase, Run
  <1>2. /\ run'["ci"].want = run["ci"].want
        /\ run'["ci"].pc = "databases" \/ run'["ci"].pc = "snapshot"
    BY <1>1, CiTypes DEF PutDatabase, Clear, TypeOK, Run
  <1>3. run'["ci"].pc = "snapshot" => Live' = staging["ci"].db
    <2>1. DatabaseInv("ci")'
      BY CiTypes, CalmPutDatabase DEF CalmInv
    <2>2. QED
      BY <1>1, <2>1 DEF DatabaseInv
  <1>4. \/ dbs'[DbFile.db] = dbs[DbFile.db] /\ cdn'[DbFile.db] = cdn[DbFile.db]
        \/ dbs'[DbFile.db] = NoDb /\ cdn'[DbFile.db] = dbs[DbFile.db]
        \/ dbs'[DbFile.db] = staging["ci"].db /\ cdn'[DbFile.db] = cdn[DbFile.db]
    BY <1>1, CiTypes, NameType DEF PutDatabase, TypeOK
  <1>5. QED
    BY <1>1, <1>2, <1>3, <1>4 DEF Live

LEMMA RecordFacts ==
    ASSUME CiState, Stamp("ci") \/ Snapshot("ci") \/ Verify("ci") \/ Tag("ci")
    PROVE  /\ run["ci"].pc \in {"snapshot", "verify", "tag"} /\ staging["ci"].db = Live
           /\ \/ run'["ci"].pc = "idle"
              \/ /\ run'["ci"].pc \in {"snapshot", "verify", "tag"}
                 /\ run'["ci"].want = run["ci"].want
           /\ staging'["ci"].db = staging["ci"].db
           /\ Live' = Live /\ UNCHANGED <<releaseVars, head>>
           /\ snaps' \in {snaps, snaps \cup {Live}}
  <1>1. /\ run["ci"].pc \in {"snapshot", "verify", "tag"} /\ staging["ci"].db = Live
    BY CiTypes DEF Stamp, Snapshot, Verify, Tag, CalmInv, DatabaseInv
  <1>2. \/ run'["ci"].pc = "idle"
        \/ /\ run'["ci"].pc \in {"snapshot", "verify", "tag"}
           /\ run'["ci"].want = run["ci"].want
    <2>1. Idle.pc = "idle"
      BY DEF Idle
    <2>2. QED
      BY <1>1, <2>1, CiTypes DEF Stamp, Snapshot, Verify, Tag, TypeOK, Run
  <1>3. staging'["ci"].db = staging["ci"].db
    BY CiTypes DEF Stamp, Snapshot, Verify, Tag, TypeOK, Staging
  <1>4. UNCHANGED <<releaseVars, head>> /\ snaps' \in {snaps, snaps \cup {Live}}
    BY <1>1 DEF Stamp, Snapshot, Verify, Tag, recordVars
  <1>5. QED
    BY <1>1, <1>2, <1>3, <1>4 DEF Live, releaseVars

\* The kernel indexed is the newest staged, hence not older than the published.
LEMMA CiIndex == ASSUME CiState, CiInv("ci"), Index("ci") PROVE CiInv("ci")'
  <1> DEFINE s == staging["ci"]
  <1>1. Live[Kernel].ver <= RepoAdd(s)[Kernel].ver
    <2>1. s \in Staging /\ Live[Kernel].ver \in Nat /\ RepoAdd(s)[Kernel].ver \in Nat
      BY CiTypes, NameType, DbType, DbFacts
    <2>2. CASE Live[Kernel].ver = 0
      BY <2>1, <2>2
    <2>3. CASE Live[Kernel].ver # 0
      <3>1. Live[Kernel].ver \in Versions
        BY <2>3, CiTypes, NameType, DbFacts DEF Indexed
      <3>2. s.pkg[<<Kernel, Live[Kernel].ver>>] # 0
        BY <2>3, IndexFacts DEF CiInv, KernelInv
      <3>3. QED
        BY <2>1, <3>1, <3>2, NameType, RepoAddEntry
    <2>4. QED
      BY <2>2, <2>3
  <1>2. TagInv("ci")'
    BY IndexFacts DEF CiInv, TagInv, recordVars
  <1>3. KernelInv("ci")'
    BY <1>1, IndexFacts DEF CiInv, KernelInv, KernelNeverOlder, Live, releaseVars, Uploading
  <1>4. QED
    BY <1>2, <1>3 DEF CiInv

LEMMA CiCheck == ASSUME CiState, CiInv("ci"), Check("ci") PROVE CiInv("ci")'
  <1>1. TagInv("ci")'
    BY CheckFacts DEF CiInv, TagInv, recordVars
  <1>2. KernelInv("ci")'
    BY CheckFacts DEF CiInv, KernelInv, KernelNeverOlder, Live, releaseVars, Uploading
  <1>3. QED
    BY <1>1, <1>2 DEF CiInv

LEMMA CiUploading ==
    ASSUME CiState, CiInv("ci"),
           \/ (\E n \in Names : NextPackage("ci", n)) \/ PutPackage("ci")
           \/ PutSignature("ci") \/ LastPackage("ci")
    PROVE  CiInv("ci")'
  <1>1. TagInv("ci")'
    BY UploadingFacts DEF CiInv, TagInv, recordVars, Uploading
  <1>2. KernelInv("ci")'
    <2>1. /\ Live[Kernel].ver \in Nat /\ staging["ci"].db[Kernel].ver \in Nat
          /\ cdn[DbFile.db][Kernel].ver \in Nat
      BY CiTypes, NameType
    <2>2. /\ cdn[DbFile.db][Kernel].ver <= Live[Kernel].ver
          /\ Live[Kernel].ver <= staging["ci"].db[Kernel].ver
      BY UploadingFacts DEF CiInv, KernelInv, Uploading
    <2>3. KernelNeverOlder'
      BY UploadingFacts DEF CiInv, KernelInv, KernelNeverOlder
    <2>4. QED
      BY <2>1, <2>2, <2>3, UploadingFacts DEF KernelInv, Uploading
  <1>3. QED
    BY <1>1, <1>2 DEF CiInv

LEMMA CiPutDatabase ==
    ASSUME CiState, CiInv("ci"), PutDatabase("ci") PROVE CiInv("ci")'
  <1> DEFINE D == staging["ci"].db
  <1>1. D # NoDb
    <2>1. D[Kernel].ver # 0 /\ NoDb[Kernel].ver = 0
      BY PutDatabaseFacts, CiTypes, NameType
    <2>2. QED
      BY <2>1
  <1>2. TagInv("ci")'
    BY <1>1, PutDatabaseFacts DEF TagInv
  <1>3. KernelInv("ci")'
    <2>1. /\ Live[Kernel].ver \in Nat /\ D[Kernel].ver \in Nat /\ NoDb[Kernel].ver = 0
          /\ cdn[DbFile.db][Kernel].ver \in Nat
      BY CiTypes, NameType
    <2>2. /\ Live[Kernel].ver <= D[Kernel].ver /\ cdn[DbFile.db][Kernel].ver <= D[Kernel].ver
          /\ Live # NoDb => Live[Kernel].ver >= cdn[DbFile.db][Kernel].ver
      BY PutDatabaseFacts DEF CiInv, KernelInv, KernelNeverOlder, Live
    <2>3. /\ Live'[Kernel].ver <= D[Kernel].ver /\ cdn'[DbFile.db][Kernel].ver <= D[Kernel].ver
          /\ Live' # NoDb => Live'[Kernel].ver >= cdn'[DbFile.db][Kernel].ver
      BY <2>1, <2>2, PutDatabaseFacts
    <2>4. QED
      BY <2>3, PutDatabaseFacts DEF KernelInv, KernelNeverOlder, Live, Uploading
  <1>4. QED
    BY <1>2, <1>3 DEF CiInv

\* What is to be verified is what clients see, so that verify-repo.sh succeeds
\* and a run with a stamp is tagged.
LEMMA VerifySucceeds ==
    ASSUME CiState, CiInv("ci"), run["ci"].pc = "verify"
    PROVE  Verified(staging["ci"], Live)
  <1>1. staging["ci"].db = Live /\ Live # NoDb
    BY CiTypes DEF CalmInv, DatabaseInv, CiInv, TagInv
  <1>2. dbs[DbFile.dbSig] = Live /\ dbs[DbFile.tarSig] = Live
    BY CiTypes, NameType DEF CalmInv, DatabaseInv
  <1>3. ASSUME NEW n \in Indexed(Live) PROVE OnRelease(FileOf(Live, n))
    BY <1>1, CiTypes DEF CalmInv, ReleaseInv, UploadInv, Uploaded, OnRelease, Shipped
  <1>4. QED
    BY <1>1, <1>2, <1>3 DEF Verified

LEMMA CiRecord ==
    ASSUME CiState, CiInv("ci"), Stamp("ci") \/ Snapshot("ci") \/ Verify("ci") \/ Tag("ci")
    PROVE  CiInv("ci")'
  <1>1. KernelInv("ci")'
    BY RecordFacts DEF CiInv, KernelInv, KernelNeverOlder, Live, releaseVars, Uploading
  <1>2. TagInv("ci")'
    <2>1. Live # NoDb
      BY RecordFacts DEF CiInv, TagInv
    <2>2. CASE Stamp("ci")
      BY <2>1, <2>2, RecordFacts DEF Stamp, TagInv
    <2>3. CASE Snapshot("ci")
      <3>1. run'["ci"].pc = "verify" /\ staging'["ci"].stamp
        BY <2>3, CiTypes DEF Snapshot, TypeOK, Run
      <3>2. QED
        BY <2>1, <3>1, RecordFacts DEF TagInv
    <2>4. CASE Verify("ci")
      <3>1. PICK r \in Reads(DbFile.db) :
              run' = [run EXCEPT !["ci"] =
                  IF "ci" = "ci" /\ staging["ci"].stamp /\ Verified(staging["ci"], r[1])
                  THEN [run["ci"] EXCEPT !.pc = "tag"] ELSE Idle]
        BY <2>4 DEF Verify
      <3>2. Verified(staging["ci"], r[1]) /\ run["ci"].pc = "verify"
        BY <2>4, CiTypes, CalmRead, NameType, VerifySucceeds DEF Verify, Live
      <3>3. CASE staging["ci"].stamp
        <4>1. run'["ci"].pc = "tag"
          BY <3>1, <3>2, <3>3, CiTypes DEF TypeOK, Run
        <4>2. QED
          BY <2>1, <4>1, RecordFacts DEF TagInv
      <3>4. CASE ~staging["ci"].stamp
        <4>1. run'["ci"].pc = "idle"
          BY <3>1, <3>4, CiTypes DEF TypeOK, Idle
        <4>2. Live \in tagged /\ UNCHANGED tagged
          BY <2>4, <3>2, <3>4, RecordFacts DEF CiInv, TagInv, Verify, recordVars
        <4>3. QED
          BY <4>1, <4>2, RecordFacts DEF TagInv
      <3>5. QED
        BY <3>3, <3>4
    <2>5. CASE Tag("ci")
      <3>1. run'["ci"].pc = "idle"
        BY <2>5, CiTypes DEF Tag, TypeOK, Idle
      <3>2. Live \in tagged'
        BY <2>5, RecordFacts DEF Tag
      <3>3. QED
        BY <3>1, <3>2, RecordFacts DEF TagInv
    <2>6. QED
      BY <2>2, <2>3, <2>4, <2>5
  <1>3. QED
    BY <1>1, <1>2 DEF CiInv

LEMMA CiNext ==
    ASSUME CiState, CiInv("ci"), [Next]_vars PROVE CiInv("ci")'
  <1>1. CASE \/ UNCHANGED vars
             \/ \E n \in Anys, v \in Versions : Push(n, v)
             \/ \E v \in Versions : SandboxPackage(v) \/ SandboxSignature(v)
    BY <1>1, CiStutter DEF vars, Push, SandboxPackage, SandboxSignature, releaseVars,
                           localVars, recordVars
  <1>2. ASSUME NEW p \in Publishers, Start(p) \/ Step(p) \/ Kill(p) PROVE CiInv("ci")'
    <2>1. p = "ci" /\ ~Kill(p)
      BY DEF CiState, Kill
    <2>2. CASE \/ Start("ci") \/ PullKernel("ci") \/ NoPull("ci")
               \/ (\E v \in Versions : StageKernel("ci", v)) \/ ReadPublished("ci")
               \/ (\E n \in Anys : BuildPackage("ci", n)) \/ Abort("ci")
      BY <2>2, CiEarly
    <2>3. CASE \/ (\E n \in Names : NextPackage("ci", n)) \/ PutPackage("ci")
               \/ PutSignature("ci") \/ LastPackage("ci")
      BY <2>3, CiUploading
    <2>4. CASE Stamp("ci") \/ Snapshot("ci") \/ Verify("ci") \/ Tag("ci")
      BY <2>4, CiRecord
    <2>5. QED
      BY <1>2, <2>1, <2>2, <2>3, <2>4, CiIndex, CiCheck, CiPutDatabase DEF Step
  <1>3. QED
    BY <1>1, <1>2 DEF Next

LEMMA CiAlways ==
    ASSUME Publishers = {"ci"}, Faults = {}
    PROVE  Spec => [](CiState /\ CiInv("ci"))
  <1>1. Spec => []CiState
    <2>1. Calm("ci") /\ Publishers \subseteq {"ci"}
      BY DEF Calm
    <2>2. Spec => []CalmInv("ci")
      <3>1. Init => CalmInv("ci")
        BY <2>1, CalmInit
      <3>2. TypeOK /\ CalmInv("ci") /\ [Next]_vars => CalmInv("ci")'
        BY <2>1, CalmNext
      <3>3. QED
        BY <3>1, <3>2, TypeCorrect, PTL DEF Spec
    <2>3. TypeOK /\ NamesInv /\ [Next]_vars => NamesInv'
      BY <2>1, NamesNext
    <2>4. Spec => []NamesInv
      BY <2>3, NamesInit, TypeCorrect, PTL DEF Spec
    <2>5. TypeOK /\ CalmInv("ci") /\ NamesInv => CiState
      BY DEF CiState
    <2>6. QED
      BY <2>2, <2>4, <2>5, TypeCorrect, PTL
  <1>2. Init => CiInv("ci")
    BY CiInit
  <1>3. CiState /\ CiInv("ci") /\ [Next]_vars => CiInv("ci")'
    BY CiNext
  <1>4. QED
    BY <1>1, <1>2, <1>3, PTL DEF Spec

\* A run of CI that finds nothing to ship finds it tagged: no publish goes
\* without its published/ tag when nothing fails (CHANGELOG.md:3).
THEOREM PublishesAreTagged ==
    ASSUME Publishers = {"ci"}, Faults = {} PROVE Spec => []EveryPublishTagged
  <1>1. CiState /\ CiInv("ci") => EveryPublishTagged
    BY DEF CiState, CiInv, TagInv, EveryPublishTagged
  <1>2. QED
    BY <1>1, CiAlways, PTL

----------------------------------------------------------------------------
(* A history to roll back to: when no push reverts a version, versions     *)
(* only grow, and an upload never meets a file a dated database names.     *)

\* The versions on main are ahead of what a run wants, that of what it stages,
\* and that of what was published.
AnysInv(p) ==
    \A n \in Anys :
        /\ run[p].pc # "databases" => Live[n].ver <= head[n]
        /\ run[p].pc # "idle" => run[p].want[n] <= head[n]
        /\ run[p].pc \in {"pull", "read", "build"} =>
              /\ Live[n].ver <= run[p].want[n]
              /\ \A v \in Versions : staging[p].pkg[<<n, v>>] # 0 => v = run[p].want[n]
        /\ run[p].pc \in {"check"} \cup Uploading \cup Shipped =>
              staging[p].db[n].ver \in {0, run[p].want[n]}
        /\ run[p].pc \in {"check"} \cup Uploading => Live[n].ver <= staging[p].db[n].ver

\* No dated database names a version above D's, nor other bytes for the same.
Older(D) == \A E \in snaps, n \in Names :
                /\ E[n].ver <= D[n].ver
                /\ E[n].ver = D[n].ver => E[n] = D[n]
HistoryInv(p) ==
    /\ AnysInv(p)
    /\ run[p].pc # "databases" => Older(Live)
    /\ run[p].pc \in {"check"} \cup Uploading \cup Shipped => Older(staging[p].db)
    /\ \A E \in snaps : \A n \in Indexed(E) : E[n].sum # 0
    /\ RollbackDownloadable

HistoryState == CiState /\ CiInv("ci") /\ CanRevert = FALSE

LEMMA HistoryInit ==
    ASSUME Publishers = {"ci"}, Faults = {}, Init PROVE HistoryInv("ci")
  <1>1. run["ci"].pc = "idle"
    BY NameType DEF Init, Idle
  <1>2. (Live = FirstDb /\ snaps = {FirstDb}) \/ (Live = NoDb /\ snaps = {})
    BY NameType DEF Init, Live
  <1>3. \A n \in Names : FirstDb[n].ver = 1 /\ NoDb[n].ver = 0
    BY DEF NoDb, FirstDb
  <1>4. AnysInv("ci")
    <2>1. \A n \in Anys : head[n] = 1
      BY DEF Init
    <2>2. \A n \in Anys : Live[n].ver <= 1
      BY <1>2, <1>3, NameType
    <2>3. QED
      BY <1>1, <2>1, <2>2 DEF AnysInv, Uploading, Shipped
  <1>5. Older(Live)
    BY <1>2, <1>3 DEF Older
  <1>6. CalmInv("ci")
    BY CalmInit DEF Calm
  <1>7. /\ \A E \in snaps : \A n \in Indexed(E) : E[n].sum # 0
        /\ RollbackDownloadable
    BY <1>1, <1>2, <1>6 DEF CalmInv, ReleaseInv, RollbackDownloadable, Downloadable
  <1>8. QED
    BY <1>1, <1>4, <1>5, <1>7 DEF HistoryInv, Uploading, Shipped

\* A push raises the version on main; the sandbox uploads what is not there.
LEMMA HistoryPush ==
    ASSUME HistoryState, HistoryInv("ci"), NEW n \in Anys, NEW v \in Versions, Push(n, v)
    PROVE  HistoryInv("ci")'
  <1>1. UNCHANGED <<releaseVars, localVars, recordVars>> /\ "ci" \in Publishers /\ Live' = Live
    BY CiTypes DEF HistoryState, Push, Live, releaseVars
  <1>2. \A m \in Anys : head[m] <= head'[m] /\ head[m] \in Nat /\ head'[m] \in Nat
    <2>1. v > head[n] /\ head' = [head EXCEPT ![n] = v]
      BY DEF HistoryState, Push
    <2>2. head \in [Anys -> Versions] /\ Versions \subseteq Nat
      BY CiTypes, ByteType DEF HistoryState, TypeOK
    <2>3. \A m \in Anys : head'[m] = IF m = n THEN v ELSE head[m]
      BY <2>1, <2>2
    <2>4. (\A m \in Anys : head[m] \in Nat) /\ v \in Nat
      BY <2>2
    <2>5. QED
      BY <2>1, <2>3, <2>4
  <1>3. \A m \in Anys : Live[m].ver \in Nat /\ run["ci"].want[m] \in Nat
    BY CiTypes, ByteType, NameType DEF HistoryState, Run
  <1>4. AnysInv("ci")'
    BY <1>1, <1>2, <1>3 DEF HistoryInv, AnysInv, localVars
  <1>5. QED
    BY <1>1, <1>4 DEF HistoryInv, Older, RollbackDownloadable, Downloadable, releaseVars,
                      localVars, recordVars

LEMMA HistorySandbox ==
    ASSUME HistoryState, HistoryInv("ci"), NEW v \in Versions,
           SandboxPackage(v) \/ SandboxSignature(v)
    PROVE  HistoryInv("ci")'
  <1> DEFINE g == <<Kernel, v>>
  <1>1. /\ UNCHANGED <<head, dbs, cdn, localVars, recordVars>> /\ Live' = Live
        /\ pkgs \in [Files -> Nat] /\ sigs \in [Files -> Nat] /\ g \in Files /\ snaps \subseteq Db
    BY CiTypes, NameType DEF HistoryState, SandboxPackage, SandboxSignature, Live, TypeOK
  <1>2. RollbackDownloadable'
    <2>1. ASSUME NEW E \in snaps, NEW n \in Indexed(E)
          PROVE  /\ pkgs'[FileOf(E, n)] = E[n].sum
                 /\ sigs'[FileOf(E, n)] \in {0, E[n].sum}
      <3>1. /\ E[n].sum # 0 /\ pkgs[FileOf(E, n)] = E[n].sum /\ FileOf(E, n) \in Files
            /\ sigs[FileOf(E, n)] \in {0, E[n].sum}
        BY <1>1, <2>1, DbFacts DEF HistoryInv, RollbackDownloadable, Downloadable
      <3>2. CASE SandboxPackage(v)
        BY <1>1, <3>1, <3>2 DEF SandboxPackage
      <3>3. CASE SandboxSignature(v)
        BY <1>1, <3>1, <3>3 DEF SandboxSignature
      <3>4. QED
        BY <3>2, <3>3
    <2>2. QED
      BY <1>1, <2>1 DEF RollbackDownloadable, Downloadable, recordVars
  <1>3. AnysInv("ci")'
    BY <1>1 DEF HistoryInv, AnysInv, localVars
  <1>4. QED
    BY <1>1, <1>2, <1>3 DEF HistoryInv, Older, localVars, recordVars

\* A run starts from an empty staging directory, with the versions on main.
LEMMA HistoryEarly ==
    ASSUME HistoryState, HistoryInv("ci"),
           \/ Start("ci") \/ PullKernel("ci") \/ NoPull("ci")
           \/ (\E v \in Versions : StageKernel("ci", v)) \/ ReadPublished("ci")
           \/ (\E n \in Anys : BuildPackage("ci", n)) \/ Abort("ci")
    PROVE  HistoryInv("ci")'
  <1> DEFINE p == "ci"
             s == staging["ci"]
  <1>1. UNCHANGED <<releaseVars, recordVars, head>> /\ Live' = Live
    BY DEF Start, PullKernel, NoPull, StageKernel, ReadPublished, BuildPackage, Abort, Live,
           releaseVars
  <1>2. CiState /\ p \in Publishers /\ run[p] \in Run /\ run \in [Publishers -> Run]
        /\ staging[p] \in Staging /\ staging \in [Publishers -> Staging] /\ Idle \in Run
    BY CiTypes, DbType DEF HistoryState, TypeOK
  <1>3. /\ run[p].pc \in Early
        /\ \/ run'[p].pc = "idle"
           \/ /\ run[p].pc = "idle" /\ run'[p].pc = "pull" /\ run'[p].want = head
              /\ \A f \in Files : staging'[p].pkg[f] = 0
           \/ /\ run[p].pc # "idle" /\ run'[p].pc \in Early /\ run'[p].want = run[p].want
              /\ \A n \in Anys, v \in Versions :
                    staging'[p].pkg[<<n, v>>] # 0 =>
                        s.pkg[<<n, v>>] # 0 \/ v = run[p].want[n]
    <2>1. CASE Start(p)
      <3>1. run'[p] = [Idle EXCEPT !.pc = "pull", !.want = head] /\ staging'[p] = EmptyStaging
            /\ run[p].pc = "idle"
        BY <1>2, <2>1 DEF Start
      <3>2. \A f \in Files : EmptyStaging.pkg[f] = 0
        BY DEF EmptyStaging, NoFiles
      <3>3. run'[p].pc = "pull" /\ run'[p].want = head
        BY <1>2, <3>1 DEF Run
      <3>4. QED
        BY <3>1, <3>2, <3>3 DEF Early
    <2>2. CASE PullKernel(p)
      <3>1. staging'[p].pkg = [f \in Files |-> IF f[1] = Kernel /\ pkgs[f] # 0
                                               THEN pkgs[f] ELSE s.pkg[f]]
        BY <1>2, <2>2 DEF PullKernel, Staging
      <3>2. run'[p].pc = "read" /\ run'[p].want = run[p].want /\ run[p].pc = "pull"
        BY <1>2, <2>2 DEF PullKernel, Run
      <3>3. \A n \in Anys, v \in Versions : staging'[p].pkg[<<n, v>>] = s.pkg[<<n, v>>]
        BY <3>1, NameType, NameAssumption
      <3>4. QED
        BY <3>2, <3>3 DEF Early
    <2>3. CASE NoPull(p) \/ \E v \in Versions : StageKernel(p, v)
      <3>1. p = "ci" /\ "ci" # "desk"
        OBVIOUS
      <3>2. QED
        BY <2>3, <3>1 DEF NoPull, StageKernel
    <2>4. CASE ReadPublished(p)
      <3>1. PICK known :
              run' = [run EXCEPT ![p].pc = "build", ![p].left = Anys, ![p].known = known]
        BY <2>4 DEF ReadPublished
      <3>2. run'[p].pc = "build" /\ run'[p].want = run[p].want
        BY <1>2, <3>1 DEF Run
      <3>3. QED
        BY <2>4, <3>2 DEF ReadPublished, Early
    <2>5. ASSUME NEW n \in Anys, BuildPackage(p, n)
          PROVE  /\ run[p].pc = "build" /\ run'[p].pc = "build" /\ run'[p].want = run[p].want
                 /\ \A m \in Anys, v \in Versions :
                       staging'[p].pkg[<<m, v>>] # 0 =>
                           s.pkg[<<m, v>>] # 0 \/ v = run[p].want[m]
      <3> DEFINE f == Wanted(p, n)
      <3>1. f \in Files /\ f = <<n, run[p].want[n]>>
        BY <1>2, CiTypes, CurrentType DEF Wanted
      <3>2. PICK b, c : staging' = [staging EXCEPT ![p].pkg[f] = b, ![p].sig[f] = c]
        BY <2>5 DEF BuildPackage
      <3>3. \A g \in Files : g # f => staging'[p].pkg[g] = s.pkg[g]
        <4> HIDE DEF f
        <4>1. QED
          BY <1>2, <3>1, <3>2 DEF Staging
      <3>4. \A m \in Anys, v \in Versions :
               <<m, v>> \in Files /\ (<<m, v>> = f => v = run[p].want[m])
        <4>1. \A m \in Anys, v \in Versions : <<m, v>> \in Files
          BY NameType
        <4>2. ASSUME NEW m \in Anys, NEW v \in Versions, <<m, v>> = f
              PROVE  v = run[p].want[m]
          <5>1. m = n /\ v = run[p].want[n]
            BY <3>1, <4>2
          <5>2. QED
            BY <5>1
        <4>3. QED
          BY <4>1, <4>2
      <3>5. run[p].pc = "build" /\ run'[p].pc = "build" /\ run'[p].want = run[p].want
        BY <1>2, <2>5 DEF BuildPackage, Run
      <3>6. QED
        BY <3>3, <3>4, <3>5
    <2>6. CASE Abort(p)
      <3>1. run'[p] = Idle /\ run[p].pc \in {"pull", "build"}
        BY <1>2, <2>6 DEF Abort
      <3>2. QED
        BY <3>1 DEF Idle, Early
    <2>7. QED
      BY <2>1, <2>2, <2>3, <2>4, <2>5, <2>6 DEF Early
  <1>4. AnysInv(p)'
    <2>1. ASSUME NEW n \in Anys
          PROVE  /\ Live[n].ver \in Nat /\ head[n] \in Nat
                 /\ Live[n].ver <= head[n]
                 /\ run'[p].pc # "idle" => run'[p].want[n] <= head[n]
                                           /\ Live[n].ver <= run'[p].want[n]
                 /\ run'[p].pc # "idle" => \A v \in Versions :
                       staging'[p].pkg[<<n, v>>] # 0 => v = run'[p].want[n]
      <3>1. Live[n].ver \in Nat /\ head[n] \in Nat
        BY <1>2, CiTypes, NameType, ByteType DEF TypeOK
      <3>2. Live[n].ver <= head[n]
        BY <1>3 DEF HistoryInv, AnysInv, Early
      <3>3. CASE run[p].pc = "idle"
        BY <1>3, <3>1, <3>2, <3>3, NameType
      <3>4. CASE run[p].pc # "idle"
        BY <1>3, <3>1, <3>2, <3>4 DEF HistoryInv, AnysInv, Early
      <3>5. QED
        BY <3>1, <3>2, <3>3, <3>4
    <2>2. QED
      BY <1>1, <1>3, <2>1 DEF AnysInv, Early, Uploading, Shipped
  <1>5. Older(Live)
    BY <1>3 DEF HistoryInv, Early
  <1>6. run'[p].pc \notin {"databases", "check"} \cup Uploading \cup Shipped
    BY <1>3 DEF Early, Uploading, Shipped
  <1>7. QED
    BY <1>1, <1>4, <1>5, <1>6
       DEF HistoryInv, Older, RollbackDownloadable, Downloadable, releaseVars, recordVars

\* The index is ahead of every dated database, and where it names the same
\* version it names the same bytes: those of the published file it pulled.
LEMMA HistoryIndex ==
    ASSUME HistoryState, HistoryInv("ci"), Index("ci") PROVE HistoryInv("ci")'
  <1> DEFINE s == staging["ci"]
             D == RepoAdd(s)
  <1>1. /\ CiState /\ "ci" \in Publishers /\ s \in Staging /\ Live \in Db /\ D \in Db
        /\ run["ci"] \in Run /\ snaps \subseteq Db
    BY CiTypes, DbType DEF HistoryState, TypeOK
  <1>2. /\ run["ci"].pc = "build" /\ run'["ci"].pc = "check" /\ run'["ci"].want = run["ci"].want
        /\ staging'["ci"].db = D /\ Live' = Live /\ UNCHANGED <<releaseVars, recordVars, head>>
    BY <1>1, IndexFacts
  <1>3. CalmInv("ci")' /\ CiInv("ci")' /\ RunFull("ci")'
    BY <1>1, CiTypes, CalmIndex, CiIndex, NamesStaging DEF HistoryState
  <1>4. \A n \in Names : D[n].ver \in Versions
    <2>1. Indexed(D) = Names
      BY <1>2, <1>3 DEF RunFull, StagedFull, Full
    <2>2. QED
      BY <1>1, <2>1, DbFacts
  <1>5. ASSUME NEW n \in Anys
        PROVE  D[n].ver = run["ci"].want[n] /\ Live[n].ver <= D[n].ver
    <2>1. n \in Names /\ D[n].ver \in Versions /\ D[n].ver # 0
      BY <1>4, NameType, ByteType
    <2>2. s.pkg[<<n, D[n].ver>>] # 0
      BY <1>1, <2>1, RepoAddEntry DEF Kept, FileOf
    <2>3. QED
      BY <1>2, <2>1, <2>2 DEF HistoryInv, AnysInv
  <1>6. \A n \in Names : Live[n].ver <= D[n].ver
    <2>1. Live[Kernel].ver <= D[Kernel].ver
      BY <1>2, <1>3 DEF CiInv, KernelInv
    <2>2. QED
      BY <1>5, <2>1 DEF Names
  <1>7. ASSUME NEW n \in Names, Live[n].ver = D[n].ver PROVE Live[n] = D[n]
    <2>1. /\ n \in Indexed(D) /\ FileOf(D, n) \in Files
          /\ FileOf(D, n)[1] = n /\ FileOf(D, n)[2] = D[n].ver
      BY <1>1, <1>4, DbFacts
    <2>2. /\ D[n].sum # 0 /\ staging'["ci"].pkg[FileOf(D, n)] = D[n].sum
      BY <1>2, <1>3, <2>1 DEF CalmInv, IndexInv
    <2>3. staging'["ci"].pkg[FileOf(D, n)] = Live[n].sum
      BY <1>2, <1>3, <1>7, <2>1, <2>2 DEF CalmInv, BytesInv
    <2>4. Live[n].sum = D[n].sum
      BY <2>2, <2>3
    <2> HIDE DEF D
    <2>5. QED
      BY <1>1, <1>7, <2>4, DbFacts
  <1>8. Older(Live)
    BY <1>2 DEF HistoryInv
  <1>9. Older(D)
    <2>1. ASSUME NEW E \in snaps, NEW n \in Names
          PROVE  E[n].ver <= D[n].ver /\ (E[n].ver = D[n].ver => E[n] = D[n])
      <3>1. E[n].ver \in Nat /\ Live[n].ver \in Nat /\ D[n].ver \in Nat
        BY <1>1, DbFacts
      <3>2. E[n].ver <= Live[n].ver /\ (E[n].ver = Live[n].ver => E[n] = Live[n])
        BY <1>8 DEF Older
      <3>3. Live[n].ver <= D[n].ver /\ (Live[n].ver = D[n].ver => Live[n] = D[n])
        BY <1>6, <1>7
      <3> HIDE DEF D
      <3>4. QED
        BY <3>1, <3>2, <3>3
    <2>2. QED
      BY <2>1 DEF Older
  <1>10. AnysInv("ci")'
    <2>1. ASSUME NEW n \in Anys
          PROVE  Live[n].ver <= head[n] /\ run["ci"].want[n] <= head[n]
      BY <1>2 DEF HistoryInv, AnysInv
    <2>2. QED
      BY <1>2, <1>5, <2>1 DEF AnysInv, Uploading, Shipped
  <1>11. QED
    BY <1>2, <1>8, <1>9, <1>10
       DEF HistoryInv, Older, RollbackDownloadable, Downloadable, releaseVars, recordVars

LEMMA HistoryCheck ==
    ASSUME HistoryState, HistoryInv("ci"), Check("ci") PROVE HistoryInv("ci")'
  <1>1. CiState
    BY DEF HistoryState
  <1>2. AnysInv("ci")'
    BY <1>1, CheckFacts DEF HistoryInv, AnysInv, Uploading, Shipped
  <1>3. Older(Live)' /\ Older(staging["ci"].db)'
    BY <1>1, CheckFacts DEF HistoryInv, Older, recordVars
  <1>4. QED
    BY <1>1, <1>2, <1>3, CheckFacts
       DEF HistoryInv, RollbackDownloadable, Downloadable, releaseVars, recordVars

\* The file under way is one a dated database names only with the bytes being
\* uploaded, and then it is the signature alone that is replaced.
LEMMA HistoryUploading ==
    ASSUME HistoryState, HistoryInv("ci"),
           \/ (\E n \in Names : NextPackage("ci", n)) \/ PutPackage("ci")
           \/ PutSignature("ci") \/ LastPackage("ci")
    PROVE  HistoryInv("ci")'
  <1> DEFINE D == staging["ci"].db
             f == Current("ci")
             m == run["ci"].cur
  <1>1. /\ CiState /\ "ci" \in Publishers /\ TypeOK /\ CalmInv("ci") /\ snaps \subseteq Db
        /\ Live \in Db /\ D \in Db
    BY CiTypes DEF HistoryState, TypeOK
  <1>2. /\ run["ci"].pc \in Uploading /\ run'["ci"].pc \in Uploading \cup {"databases"}
        /\ run'["ci"].want = run["ci"].want
        /\ Live' = Live /\ UNCHANGED <<dbs, cdn, staging, recordVars, head>>
    BY <1>1, UploadingFacts
  <1>3. Older(Live) /\ Older(D)
    BY <1>2 DEF HistoryInv, Uploading
  <1>4. AnysInv("ci")'
    BY <1>2 DEF HistoryInv, AnysInv, Uploading, Shipped
  <1>5. ASSUME NEW E \in snaps, NEW n \in Indexed(E), Putting("ci"), FileOf(E, n) = f
        PROVE  n = m /\ E[n] = D[n] /\ Live[n] = D[n]
    <2>1. E \in Db /\ n \in Names /\ m \in Indexed(D) /\ m \in Names
      BY <1>1, <1>5, CurrentFile, DbFacts
    <2>2. n = m /\ E[n].ver = D[n].ver
      BY <1>5 DEF Current, FileOf
    <2>3. E[n] = D[n]
      BY <1>3, <2>1, <2>2 DEF Older
    <2>4. E[n].ver <= Live[n].ver /\ (E[n].ver = Live[n].ver => E[n] = Live[n])
      BY <1>3, <2>1 DEF Older
    <2>5. Live[n].ver <= D[n].ver
      <3>1. n \in Anys => Live[n].ver <= D[n].ver
        BY <1>2 DEF HistoryInv, AnysInv
      <3>2. Live[Kernel].ver <= D[Kernel].ver
        BY <1>2 DEF HistoryState, CiInv, KernelInv
      <3>3. QED
        BY <2>1, <3>1, <3>2 DEF Names
    <2>6. E[n].ver \in Nat /\ Live[n].ver \in Nat /\ D[n].ver \in Nat
      BY <1>1, <2>1, DbFacts
    <2>7. E[n].ver = Live[n].ver
      BY <2>2, <2>4, <2>5, <2>6
    <2>8. QED
      BY <2>2, <2>3, <2>4, <2>7
  <1>6. RollbackDownloadable'
    <2>1. ASSUME NEW E \in snaps, NEW n \in Indexed(E)
          PROVE  /\ pkgs'[FileOf(E, n)] = E[n].sum
                 /\ sigs'[FileOf(E, n)] \in {0, E[n].sum}
      <3>1. /\ pkgs[FileOf(E, n)] = E[n].sum /\ sigs[FileOf(E, n)] \in {0, E[n].sum}
            /\ FileOf(E, n) \in Files
        BY <1>1, DbFacts DEF HistoryInv, RollbackDownloadable, Downloadable
      <3>2. CASE (\E k \in Names : NextPackage("ci", k)) \/ LastPackage("ci")
        BY <3>1, <3>2 DEF NextPackage, LastPackage, releaseVars
      <3>3. CASE PutPackage("ci")
        <4>1. /\ run["ci"].pc = "package" /\ Putting("ci") /\ sigs' = sigs
              /\ \A g \in Files : g # f => pkgs'[g] = pkgs[g]
          BY <1>1, <3>3 DEF PutPackage, Putting, TypeOK
        <4>2. FileOf(E, n) # f
          <5>1. Live[m] # D[m]
            BY <1>1, <4>1 DEF CalmInv, UploadInv
          <5>2. QED
            BY <1>5, <4>1, <5>1
        <4> HIDE DEF f
        <4>3. QED
          BY <3>1, <4>1, <4>2
      <3>4. CASE PutSignature("ci")
        <4>1. /\ Putting("ci") /\ pkgs' = pkgs /\ f \in Files
              /\ \A g \in Files : g # f => sigs'[g] = sigs[g]
              /\ sigs'[f] \in {0, staging["ci"].sig[f]}
              /\ staging["ci"].sig[f] = D[m].sum
          <5>1. Putting("ci") /\ pkgs' = pkgs
            BY <3>4 DEF PutSignature, Putting
          <5>2. f \in Files /\ staging["ci"].sig[f] = D[m].sum
            BY <1>1, <5>1, CurrentFile
          <5>3. QED
            BY <1>1, <3>4, <5>1, <5>2 DEF PutSignature, TypeOK
        <4>2. FileOf(E, n) = f => D[m].sum = E[n].sum
          BY <1>5, <4>1
        <4> HIDE DEF f
        <4>3. QED
          BY <3>1, <4>1, <4>2
      <3>5. QED
        BY <3>2, <3>3, <3>4
    <2>2. QED
      BY <1>2, <2>1 DEF RollbackDownloadable, Downloadable, recordVars
  <1>7. QED
    BY <1>2, <1>3, <1>4, <1>6 DEF HistoryInv, Older, recordVars

LEMMA HistoryPutDatabase ==
    ASSUME HistoryState, HistoryInv("ci"), PutDatabase("ci") PROVE HistoryInv("ci")'
  <1>1. CiState
    BY DEF HistoryState
  <1>2. AnysInv("ci")'
    <2>1. ASSUME NEW n \in Anys
          PROVE  /\ run["ci"].want[n] <= head[n]
                 /\ staging["ci"].db[n].ver \in {0, run["ci"].want[n]}
                 /\ staging["ci"].db[n].ver # 0
      BY <1>1, PutDatabaseFacts, CiTypes, NameType DEF HistoryInv, AnysInv, Shipped
    <2>2. QED
      BY <1>1, <2>1, PutDatabaseFacts DEF AnysInv, Uploading, Shipped
  <1>3. Older(staging["ci"].db)' /\ (run'["ci"].pc = "snapshot" => Older(Live)')
    BY <1>1, PutDatabaseFacts DEF HistoryInv, Older, Shipped, recordVars
  <1>4. QED
    BY <1>1, <1>2, <1>3, PutDatabaseFacts
       DEF HistoryInv, RollbackDownloadable, Downloadable, recordVars

\* What is dated is what is published.
LEMMA HistoryRecord ==
    ASSUME HistoryState, HistoryInv("ci"),
           Stamp("ci") \/ Snapshot("ci") \/ Verify("ci") \/ Tag("ci")
    PROVE  HistoryInv("ci")'
  <1>1. CiState /\ CalmInv("ci")
    BY CiTypes DEF HistoryState
  <1>2. AnysInv("ci")'
    BY <1>1, RecordFacts DEF HistoryInv, AnysInv, Uploading, Shipped
  <1>3. Older(Live)
    BY <1>1, RecordFacts DEF HistoryInv
  <1>4. \A E \in snaps' : E \in snaps \/ E = Live
    BY <1>1, RecordFacts
  <1>5. Older(Live)' /\ Older(staging["ci"].db)'
    <2>1. ASSUME NEW E \in snaps', NEW n \in Names
          PROVE  E[n].ver <= Live[n].ver /\ (E[n].ver = Live[n].ver => E[n] = Live[n])
      <3>1. Live[n].ver \in Nat
        BY <1>1, CiTypes
      <3>2. QED
        BY <1>3, <1>4, <3>1 DEF Older
    <2>2. QED
      BY <1>1, <2>1, RecordFacts DEF Older
  <1>6. ASSUME NEW E \in snaps', NEW n \in Indexed(E)
        PROVE  /\ E[n].sum # 0 /\ pkgs[FileOf(E, n)] = E[n].sum
               /\ sigs[FileOf(E, n)] \in {0, E[n].sum}
    <2>1. CASE E \in snaps
      BY <2>1 DEF HistoryInv, RollbackDownloadable, Downloadable
    <2>2. CASE E = Live
      BY <1>1, <2>2 DEF CalmInv, ReleaseInv
    <2>3. QED
      BY <1>4, <2>1, <2>2
  <1>7. UNCHANGED <<pkgs, sigs>>
    BY <1>1, RecordFacts DEF releaseVars
  <1>8. QED
    BY <1>2, <1>5, <1>6, <1>7 DEF HistoryInv, RollbackDownloadable, Downloadable

LEMMA HistoryNext ==
    ASSUME HistoryState, HistoryInv("ci"), [Next]_vars PROVE HistoryInv("ci")'
  <1>1. CASE UNCHANGED vars
    BY <1>1 DEF vars, HistoryInv, AnysInv, Older, RollbackDownloadable, Downloadable, Live
  <1>2. ASSUME NEW p \in Publishers, Start(p) \/ Step(p) \/ Kill(p)
        PROVE  HistoryInv("ci")'
    <2>1. p = "ci" /\ ~Kill(p)
      BY DEF HistoryState, CiState, Kill
    <2>2. CASE \/ Start("ci") \/ PullKernel("ci") \/ NoPull("ci")
               \/ (\E v \in Versions : StageKernel("ci", v)) \/ ReadPublished("ci")
               \/ (\E n \in Anys : BuildPackage("ci", n)) \/ Abort("ci")
      BY <2>2, HistoryEarly
    <2>3. CASE \/ (\E n \in Names : NextPackage("ci", n)) \/ PutPackage("ci")
               \/ PutSignature("ci") \/ LastPackage("ci")
      BY <2>3, HistoryUploading
    <2>4. CASE Stamp("ci") \/ Snapshot("ci") \/ Verify("ci") \/ Tag("ci")
      BY <2>4, HistoryRecord
    <2>5. QED
      BY <1>2, <2>1, <2>2, <2>3, <2>4, HistoryIndex, HistoryCheck, HistoryPutDatabase DEF Step
  <1>3. QED
    BY <1>1, <1>2, HistoryPush, HistorySandbox DEF Next

\* Every dated database can be rolled back to (publish-repo.sh:151-153), as
\* long as no push reverts the version of a package: with one, the version is
\* built again and its file replaced.
THEOREM RollbackStaysPossible ==
    ASSUME Publishers = {"ci"}, Faults = {}, CanRevert = FALSE
    PROVE  Spec => []RollbackDownloadable
  <1>1. Init => HistoryInv("ci")
    BY HistoryInit
  <1>2. CiState /\ CiInv("ci") /\ HistoryInv("ci") /\ [Next]_vars => HistoryInv("ci")'
    BY HistoryNext DEF HistoryState
  <1>3. HistoryInv("ci") => RollbackDownloadable
    BY DEF HistoryInv
  <1>4. QED
    BY <1>1, <1>2, <1>3, CiAlways, PTL DEF Spec
=============================================================================
