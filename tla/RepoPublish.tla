---------------------------- MODULE RepoPublish ----------------------------
(***************************************************************************)
(* The package repository (packages/scripts, the publish job of ci.yml):   *)
(* a publisher fills a staging directory with the any/ packages of its     *)
(* checkout and the newest kernel, signs and indexes them, and uploads     *)
(* packages, signatures and database files one by one to a GitHub Release  *)
(* that pacman clients read directly at any moment.  Every read of the     *)
(* published database decides something: what to rebuild, what to upload,  *)
(* whether a name would be dropped, whether there is anything to do.       *)
(*                                                                         *)
(* A package file is <<name, version>>; its bytes are a number, one nobody *)
(* uses yet for every makepkg run (a kernel version is built once), and a  *)
(* signature is the number it signs.  A database is what it indexes (the   *)
(* bytes of repo-add also differ from run to run; no script compares them).*)
(***************************************************************************)
EXTENDS Naturals

CONSTANTS
    Anys,        \* the any/ packages built from the checkout
    Kernel,      \* the kernel package, built elsewhere
    MaxVer,      \* bound: versions of a package
    Publishers,  \* subset of {"ci", "desk"}
    Faults,      \* what can go wrong: a run is killed; a read of the published
                 \* database is "stale" or "absent"
    CanRevert,   \* a push may lower a package's version (git revert)
    MaxPushes,   \* bound: pushes to main
    MaxFaults,   \* bound: kills and misreads
    MaxBytes     \* bound: builds whose bytes something still names

ASSUME NameAssumption == Kernel \notin Anys
ASSUME PublishBound ==
    /\ MaxVer \in Nat \ {0} /\ MaxPushes \in Nat /\ MaxFaults \in Nat
    /\ CanRevert \in BOOLEAN
    /\ Publishers \subseteq {"ci", "desk"}
    /\ Faults \subseteq {"kill", "stale", "absent"}
    /\ MaxBytes \in Nat

Names    == Anys \cup {Kernel}
Versions == 1 .. MaxVer
Files    == Names \X Versions

Entry == [ver: 0 .. MaxVer, sum: Nat]
Db    == [Names -> Entry]
\* A database nobody can read: none on the Release, or one that did not arrive.
NoDb  == [n \in Names |-> [ver |-> 0, sum |-> 0]]
Indexed(db)   == {n \in Names : db[n].ver # 0}
FileOf(db, n) == <<n, db[n].ver>>

\* The database files in the order of the globs appsynergy.db*, .files*.
DbFile == [db |-> 1, dbSig |-> 2, tar |-> 3, tarSig |-> 4,
           files |-> 5, filesSig |-> 6]
DbFiles == 1 .. 6

VARIABLES
    head,      \* [Anys -> Versions]: the PKGBUILDs at the tip of main
    pkgs,      \* [Files -> bytes] on the Release, 0 when absent
    sigs,      \* [Files -> bytes signed by the .sig on the Release], 0 when absent
    dbs,       \* [DbFiles -> Db] on the Release
    cdn,       \* [DbFiles -> Db]: what each held before it was last replaced
    staging,   \* per publisher: repo/x86_64
    run,       \* per publisher: the run under way
    snaps,     \* databases with a dated copy on the Release
    tagged,    \* databases whose publish was tagged published/<stamp>
    pushes, faults

releaseVars == <<pkgs, sigs, dbs, cdn>>
localVars   == <<staging, run>>
recordVars  == <<snaps, tagged>>
vars == <<head, pkgs, sigs, dbs, cdn, staging, run, snaps, tagged,
          pushes, faults>>

Stages == {"idle", "pull", "read", "build", "check", "packages", "package",
           "signature", "databases", "snapshot", "verify", "tag"}
Staging == [pkg: [Files -> Nat], sig: [Files -> Nat], db: Db,
            signed: BOOLEAN, stamp: BOOLEAN]
Run == [pc: Stages, want: [Anys -> Versions], known: SUBSET Files, seen: Db,
        left: SUBSET Names, cur: Names \cup {"none"}, pos: DbFiles,
        cleared: BOOLEAN]

TypeOK ==
    /\ head \in [Anys -> Versions]
    /\ pkgs \in [Files -> Nat] /\ sigs \in [Files -> Nat]
    /\ dbs \in [DbFiles -> Db] /\ cdn \in [DbFiles -> Db]
    /\ staging \in [Publishers -> Staging]
    /\ run \in [Publishers -> Run]
    /\ snaps \subseteq Db /\ tagged \subseteq Db
    /\ pushes \in Nat /\ faults \in Nat

NoFiles == [f \in Files |-> 0]
EmptyStaging == [pkg |-> NoFiles, sig |-> NoFiles, db |-> NoDb,
                 signed |-> FALSE, stamp |-> FALSE]
Idle == [pc |-> "idle", want |-> [n \in Anys |-> 1], known |-> {},
         seen |-> NoDb, left |-> {}, cur |-> "none", pos |-> 1,
         cleared |-> FALSE]

\* Kernel version v has the bytes v; the any/ packages have the numbers above.
BuildBytes == MaxVer + 1 .. MaxBytes
\* There are enough of them for the first build of everything.
ASSUME EnoughBytes ==
    \E b \in [Anys -> BuildBytes] : \A m, n \in Anys : b[m] = b[n] => m = n
FirstBytes == CHOOSE b \in [Anys -> BuildBytes] : \A m, n \in Anys : b[m] = b[n] => m = n
FirstDb    == [n \in Names |-> [ver |-> 1,
                                sum |-> IF n = Kernel THEN 1 ELSE FirstBytes[n]]]
SumsOf(D)  == {D[n].sum : n \in Names}
InUse == UNION ({SumsOf(D) : D \in snaps}
                \cup {SumsOf(dbs[i]) \cup SumsOf(cdn[i]) : i \in DbFiles}
                \cup {SumsOf(staging[p].db) \cup SumsOf(run[p].seen) : p \in Publishers}
                \cup {{pkgs[f], sigs[f]} : f \in Files}
                \cup {{staging[p].pkg[f], staging[p].sig[f]} :
                        p \in Publishers, f \in Files})
FreshBytes == CHOOSE b \in BuildBytes : b \notin InUse

\* Either nothing was ever published and the sandbox has uploaded a kernel,
\* or version 1 of everything was published, dated and tagged.
Init ==
    /\ head = [n \in Anys |-> 1]
    /\ \E published \in BOOLEAN :
        LET Here(f) == f[2] = 1 /\ (published \/ f[1] = Kernel)
        IN  /\ pkgs = [f \in Files |-> IF Here(f) THEN FirstDb[f[1]].sum ELSE 0]
            /\ sigs = [f \in Files |->
                         IF Here(f) /\ published THEN FirstDb[f[1]].sum ELSE 0]
            /\ dbs = [i \in DbFiles |-> IF published THEN FirstDb ELSE NoDb]
            /\ snaps = IF published THEN {FirstDb} ELSE {}
    /\ tagged = snaps
    /\ cdn = [i \in DbFiles |-> NoDb]
    /\ staging = [p \in Publishers |-> EmptyStaging]
    /\ run = [p \in Publishers |-> Idle]
    /\ pushes = 0 /\ faults = 0

----------------------------------------------------------------------------
(* The world outside the scripts.                                          *)

\* A push changes the version of one any/ package on main.
Push(n, v) ==
    /\ pushes < MaxPushes
    /\ IF CanRevert THEN v # head[n] ELSE v > head[n]
    /\ head' = [head EXCEPT ![n] = v]
    /\ pushes' = pushes + 1
    /\ UNCHANGED <<releaseVars, localVars, recordVars, faults>>

\* The sandbox uploads the next kernel to the Release, then its signature.
SandboxPackage(v) ==
    /\ v > 1 /\ pkgs[<<Kernel, v>>] = 0 /\ pkgs[<<Kernel, v - 1>>] # 0
    /\ \A p \in Publishers : run[p].cur # Kernel
    /\ pkgs' = [pkgs EXCEPT ![<<Kernel, v>>] = v]
    /\ UNCHANGED <<head, sigs, dbs, cdn, localVars, recordVars, pushes, faults>>

SandboxSignature(v) ==
    /\ pkgs[<<Kernel, v>>] # 0 /\ sigs[<<Kernel, v>>] = 0
    /\ \A p \in Publishers : run[p].cur # Kernel
    /\ sigs' = [sigs EXCEPT ![<<Kernel, v>>] = pkgs[<<Kernel, v>>]]
    /\ UNCHANGED <<head, pkgs, dbs, cdn, localVars, recordVars, pushes,
                   faults>>

\* What curl brings of database file i, and the faults it took: the file (NoDb
\* between gh's delete and its upload), the one the CDN still holds, nothing.
Reads(i) == {<<dbs[i], 0>>}
            \cup (IF "stale" \in Faults THEN {<<cdn[i], 1>>} ELSE {})
            \cup (IF "absent" \in Faults THEN {<<NoDb, 1>>} ELSE {})
Costs(n) == faults' = faults + n /\ faults' <= MaxFaults

----------------------------------------------------------------------------
(* pull-kernel.sh, build-repo.sh                                           *)

\* A CI run checks main out into an empty staging directory; a workstation's
\* staging keeps what earlier runs left.
Start(p) ==
    /\ run[p].pc = "idle"
    /\ run' = [run EXCEPT ![p] = [Idle EXCEPT !.pc = "pull", !.want = head]]
    /\ staging' = IF p = "ci" THEN [staging EXCEPT ![p] = EmptyStaging]
                  ELSE staging
    /\ UNCHANGED <<head, releaseVars, recordVars, pushes, faults>>

\* Bug: one kernel asset is pulled, whichever the listing gives first.
BugPullOne(p) ==
    /\ run[p].pc = "pull"
    /\ \E v \in Versions :
         /\ pkgs[<<Kernel, v>>] # 0
         /\ staging' = [staging EXCEPT ![p].pkg[<<Kernel, v>>] = pkgs[<<Kernel, v>>],
                                       ![p].sig[<<Kernel, v>>] = sigs[<<Kernel, v>>]]
    /\ run' = [run EXCEPT ![p].pc = "read"]
    /\ UNCHANGED <<head, releaseVars, recordVars, pushes, faults>>

\* Every kernel asset of the Release, signed or not; CI stops if there is none.
PullKernel(p) ==
    /\ run[p].pc = "pull"
    /\ \E v \in Versions : pkgs[<<Kernel, v>>] # 0
    /\ staging' = [staging EXCEPT
          ![p].pkg = [f \in Files |-> IF f[1] = Kernel /\ pkgs[f] # 0
                                      THEN pkgs[f] ELSE @[f]],
          ![p].sig = [f \in Files |-> IF f[1] = Kernel /\ pkgs[f] # 0 /\ sigs[f] # 0
                                      THEN sigs[f] ELSE @[f]]]
    /\ run' = [run EXCEPT ![p].pc = "read"]
    /\ UNCHANGED <<head, releaseVars, recordVars, pushes, faults>>

\* By hand pull-kernel.sh is skipped: what the staging directory holds is used,
\* or build-appsynergy-linux.sh stages a kernel and removes its old signature.
NoPull(p) ==
    /\ p = "desk" /\ run[p].pc = "pull"
    /\ run' = [run EXCEPT ![p].pc = "read"]
    /\ UNCHANGED <<head, releaseVars, staging, recordVars, pushes, faults>>

StageKernel(p, v) ==
    /\ p = "desk" /\ run[p].pc = "pull"
    /\ v > 1 /\ pkgs[<<Kernel, v>>] = 0 /\ staging[p].pkg[<<Kernel, v>>] = 0
    /\ staging' = [staging EXCEPT ![p].pkg[<<Kernel, v>>] = v,
                                  ![p].sig[<<Kernel, v>>] = 0]
    /\ run' = [run EXCEPT ![p].pc = "read"]
    /\ UNCHANGED <<head, releaseVars, recordVars, pushes, faults>>

\* build-repo.sh asks the published database which versions not to rebuild.
ReadPublished(p) ==
    /\ run[p].pc = "read"
    /\ \E r \in Reads(DbFile.tar) :
        /\ Costs(r[2])
        /\ run' = [run EXCEPT ![p].pc = "build", ![p].left = Anys,
                     ![p].known = {FileOf(r[1], n) : n \in Indexed(r[1])}]
    /\ UNCHANGED <<head, releaseVars, staging, recordVars, pushes>>

\* build_pkg: a known version is pulled with its signature, any other is built
\* (a signature left by an earlier build is older than it: as good as none).
Wanted(p, n) == <<n, run[p].want[n]>>
\* Bug: everything is rebuilt, as under REBUILD_PUBLISHED=1.
BugPulls(p, n) == FALSE
Pulls(p, n)  == Wanted(p, n) \in run[p].known
OnRelease(f) == pkgs[f] # 0 /\ sigs[f] # 0

BuildPackage(p, n) ==
    LET f == Wanted(p, n)
    IN  /\ run[p].pc = "build" /\ n \in run[p].left
        /\ \/ /\ Pulls(p, n) /\ OnRelease(f)
              /\ staging' = [staging EXCEPT ![p].pkg[f] = pkgs[f],
                                            ![p].sig[f] = sigs[f]]
           \/ /\ ~Pulls(p, n)
              /\ BuildBytes \ InUse # {}
              /\ staging' = [staging EXCEPT ![p].pkg[f] = FreshBytes,
                                            ![p].sig[f] = 0]
        /\ run' = [run EXCEPT ![p].left = @ \ {n}]
        /\ UNCHANGED <<head, releaseVars, recordVars, pushes, faults>>

\* Prune superseded versions, sign what has no signature, repo-add; by hand
\* SIGN=0 signs nothing.
\* Bug: two versions of a package in staging prune each other.
BugKept(s, f) == s.pkg[f] # 0 /\ \A v \in Versions : s.pkg[<<f[1], v>>] # 0 => v = f[2]
Kept(s, f) == s.pkg[f] # 0 /\ \A v \in Versions : s.pkg[<<f[1], v>>] # 0 => v <= f[2]
RepoAdd(s) ==
    [n \in Names |->
        IF \E v \in Versions : Kept(s, <<n, v>>)
        THEN LET v == CHOOSE v \in Versions : Kept(s, <<n, v>>)
             IN  [ver |-> v, sum |-> s.pkg[<<n, v>>]]
        ELSE NoDb[n]]
Index(p) ==
    LET s == staging[p]
    IN  /\ run[p].pc = "build" /\ run[p].left = {}
        /\ \E sign \in (IF p = "desk" THEN BOOLEAN ELSE {TRUE}) :
             staging' = [staging EXCEPT ![p] = [s EXCEPT
                !.pkg = [f \in Files |-> IF Kept(s, f) THEN s.pkg[f] ELSE 0],
                !.sig = [f \in Files |->
                           IF ~Kept(s, f) THEN 0
                           ELSE IF s.sig[f] = 0 /\ sign THEN s.pkg[f] ELSE s.sig[f]],
                !.db = RepoAdd(s),
                !.signed = sign]]
        /\ run' = [run EXCEPT ![p].pc = "check", ![p].known = {}]
        /\ UNCHANGED <<head, releaseVars, recordVars, pushes, faults>>

----------------------------------------------------------------------------
(* publish-repo.sh.  (Every file the index names was in staging when it    *)
(* was made, so the check for a missing one never fires.)                  *)

Unsigned(s)     == \/ ~s.signed
                   \/ \E n \in Indexed(s.db) : s.sig[FileOf(s.db, n)] = 0
\* Bug: no check for dropped names.
BugDrops(s, seen) == {}
Drops(s, seen)  == Indexed(seen) \ Indexed(s.db)
Refuses(s, seen) == Unsigned(s) \/ Drops(s, seen) # {}
\* Bug: the names are compared, not files and sums.
BugSame(s, seen) == seen # NoDb /\ Indexed(seen) = Indexed(s.db)
\* Same files, same sums: nothing to ship.
Same(s, seen)   == seen # NoDb /\ seen = s.db

Check(p) ==
    LET s == staging[p]
    IN  /\ run[p].pc = "check"
        /\ \E r \in Reads(DbFile.tar) :
             /\ Costs(r[2])
             /\ run' = [run EXCEPT ![p] =
                   IF Refuses(s, r[1]) THEN Idle
                   ELSE IF Same(s, r[1]) THEN [@ EXCEPT !.pc = "verify"]
                   ELSE [@ EXCEPT !.pc = "packages", !.seen = r[1],
                                  !.left = Indexed(s.db)]]
        /\ staging' = [staging EXCEPT ![p].stamp = FALSE]
        /\ UNCHANGED <<head, releaseVars, recordVars, pushes>>

\* gh release upload --clobber deletes an asset of that name, then uploads.
Clear(p, present) ==
    /\ present /\ ~run[p].cleared
    /\ run' = [run EXCEPT ![p].cleared = TRUE]

\* put_file of every indexed package, each followed by its signature.  A package
\* whose sum the database read by Check names is skipped; signatures never are.
NextPackage(p, n) ==
    /\ run[p].pc = "packages" /\ n \in run[p].left
    /\ run' = [run EXCEPT ![p].cur = n, ![p].left = @ \ {n},
                 ![p].pc = IF run[p].seen[n] = staging[p].db[n]
                           THEN "signature" ELSE "package"]
    /\ UNCHANGED <<head, releaseVars, staging, recordVars, pushes, faults>>

Current(p) == FileOf(staging[p].db, run[p].cur)

PutPackage(p) ==
    LET f == Current(p)
    IN  /\ run[p].pc = "package"
        /\ \/ /\ Clear(p, pkgs[f] # 0)
              /\ pkgs' = [pkgs EXCEPT ![f] = 0]
           \/ /\ pkgs[f] = 0
              /\ pkgs' = [pkgs EXCEPT ![f] = staging[p].pkg[f]]
              /\ run' = [run EXCEPT ![p].pc = "signature", ![p].cleared = FALSE]
        /\ UNCHANGED <<head, sigs, dbs, cdn, staging, recordVars, pushes,
                       faults>>

PutSignature(p) ==
    LET f == Current(p)
    IN  /\ run[p].pc = "signature"
        /\ \/ /\ Clear(p, sigs[f] # 0)
              /\ sigs' = [sigs EXCEPT ![f] = 0]
           \/ /\ sigs[f] = 0
              /\ sigs' = [sigs EXCEPT ![f] = staging[p].sig[f]]
              /\ run' = [run EXCEPT ![p].pc = "packages", ![p].cur = "none",
                                    ![p].cleared = FALSE]
        /\ UNCHANGED <<head, pkgs, dbs, cdn, staging, recordVars, pushes,
                       faults>>

\* Bug: the database files do not wait for the packages.
BugLastPackage(p) ==
    /\ run[p].pc = "packages"
    /\ run' = [run EXCEPT ![p].pc = "databases", ![p].seen = NoDb]
    /\ UNCHANGED <<head, releaseVars, staging, recordVars, pushes, faults>>

\* Then the database files, in their order, each overwritten.
LastPackage(p) ==
    /\ run[p].pc = "packages" /\ run[p].left = {}
    /\ run' = [run EXCEPT ![p].pc = "databases", ![p].seen = NoDb]
    /\ UNCHANGED <<head, releaseVars, staging, recordVars, pushes, faults>>

\* Bug: the position runs past the last file.
BugPutOverrun(p) ==
    LET i == run[p].pos
    IN  /\ run[p].pc = "databases"
        /\ \/ /\ Clear(p, dbs[i] # NoDb)
              /\ dbs' = [dbs EXCEPT ![i] = NoDb]
              /\ cdn' = [cdn EXCEPT ![i] = dbs[i]]
           \/ /\ dbs[i] = NoDb
              /\ dbs' = [dbs EXCEPT ![i] = staging[p].db]
              /\ run' = [run EXCEPT ![p].cleared = FALSE,
                            ![p].pos = i + 1,
                            ![p].pc = IF i = 6 THEN "snapshot" ELSE @]
              /\ UNCHANGED cdn
        /\ UNCHANGED <<head, pkgs, sigs, staging, recordVars, pushes, faults>>

\* Bug: the glob takes appsynergy.db* only.
BugPutDbOnly(p) ==
    LET i == run[p].pos
    IN  /\ run[p].pc = "databases"
        /\ \/ /\ Clear(p, dbs[i] # NoDb)
              /\ dbs' = [dbs EXCEPT ![i] = NoDb]
              /\ cdn' = [cdn EXCEPT ![i] = dbs[i]]
           \/ /\ dbs[i] = NoDb
              /\ dbs' = [dbs EXCEPT ![i] = staging[p].db]
              /\ run' = [run EXCEPT ![p].cleared = FALSE,
                            ![p].pos = IF i = DbFile.tarSig THEN 1 ELSE i + 1,
                            ![p].pc = IF i = DbFile.tarSig THEN "snapshot" ELSE @]
              /\ UNCHANGED cdn
        /\ UNCHANGED <<head, pkgs, sigs, staging, recordVars, pushes, faults>>

PutDatabase(p) ==
    LET i == run[p].pos
    IN  /\ run[p].pc = "databases"
        /\ \/ /\ Clear(p, dbs[i] # NoDb)
              /\ dbs' = [dbs EXCEPT ![i] = NoDb]
              /\ cdn' = [cdn EXCEPT ![i] = dbs[i]]
           \/ /\ dbs[i] = NoDb
              /\ dbs' = [dbs EXCEPT ![i] = staging[p].db]
              /\ run' = [run EXCEPT ![p].cleared = FALSE,
                            ![p].pos = IF i = 6 THEN 1 ELSE i + 1,
                            ![p].pc = IF i = 6 THEN "snapshot" ELSE @]
              /\ UNCHANGED cdn
        /\ UNCHANGED <<head, pkgs, sigs, staging, recordVars, pushes, faults>>

\* The stamp is written before the dated copy is uploaded.
Stamp(p) ==
    /\ run[p].pc = "snapshot" /\ ~staging[p].stamp
    /\ staging' = [staging EXCEPT ![p].stamp = TRUE]
    /\ UNCHANGED <<head, releaseVars, run, recordVars, pushes, faults>>

Snapshot(p) ==
    /\ run[p].pc = "snapshot" /\ staging[p].stamp
    /\ snaps' = snaps \cup {staging[p].db}
    /\ run' = [run EXCEPT ![p].pc = "verify"]
    /\ UNCHANGED <<head, releaseVars, staging, tagged, pushes, faults>>

\* verify-repo.sh: every staged name and version is in the published database,
\* and what that names, and the two database signatures, answer 200.
Verified(s, view) ==
    /\ \A n \in Indexed(s.db) : view[n].ver = s.db[n].ver
    /\ \A n \in Indexed(view) : OnRelease(FileOf(view, n))
    /\ dbs[DbFile.dbSig] # NoDb /\ dbs[DbFile.tarSig] # NoDb

\* Bug: a run without a stamp is tagged, one with a stamp is not.
BugVerify(p) ==
    /\ run[p].pc = "verify"
    /\ \E r \in Reads(DbFile.db) :
        /\ Costs(r[2])
        /\ run' = [run EXCEPT ![p] =
              IF p = "ci" /\ ~staging[p].stamp /\ Verified(staging[p], r[1])
              THEN [@ EXCEPT !.pc = "tag"] ELSE Idle]
    /\ UNCHANGED <<head, releaseVars, staging, recordVars, pushes>>

Verify(p) ==
    /\ run[p].pc = "verify"
    /\ \E r \in Reads(DbFile.db) :
        /\ Costs(r[2])
        /\ run' = [run EXCEPT ![p] =
              IF p = "ci" /\ staging[p].stamp /\ Verified(staging[p], r[1])
              THEN [@ EXCEPT !.pc = "tag"] ELSE Idle]
    /\ UNCHANGED <<head, releaseVars, staging, recordVars, pushes>>

\* The step of ci.yml after a publish that succeeded and left a stamp.
Tag(p) ==
    /\ run[p].pc = "tag"
    /\ tagged' = tagged \cup {staging[p].db}
    /\ run' = [run EXCEPT ![p] = Idle]
    /\ UNCHANGED <<head, releaseVars, staging, snaps, pushes, faults>>

\* set -e ends a run: no kernel to pull, or a known package or its signature that
\* is not on the Release any more.  (An upload of a name that another publisher
\* has just uploaded fails too: here it stays put until Kill ends the run.)
Abort(p) ==
    /\ \/ run[p].pc = "pull" /\ \A v \in Versions : pkgs[<<Kernel, v>>] = 0
       \/ /\ run[p].pc = "build"
          /\ \E n \in run[p].left : Pulls(p, n) /\ ~OnRelease(Wanted(p, n))
    /\ run' = [run EXCEPT ![p] = Idle]
    /\ UNCHANGED <<head, releaseVars, staging, recordVars, pushes, faults>>

\* A run dies: the job's timeout, a cancelled job, a failed command.
Kill(p) ==
    /\ "kill" \in Faults
    /\ run[p].pc # "idle"
    /\ Costs(1)
    /\ run' = [run EXCEPT ![p] = Idle]
    /\ UNCHANGED <<head, releaseVars, staging, recordVars, pushes>>

Step(p) ==
    \/ PullKernel(p) \/ NoPull(p) \/ (\E v \in Versions : StageKernel(p, v))
    \/ ReadPublished(p) \/ (\E n \in Anys : BuildPackage(p, n)) \/ Index(p)
    \/ Check(p)
    \/ (\E n \in Names : NextPackage(p, n)) \/ PutPackage(p) \/ PutSignature(p)
    \/ LastPackage(p) \/ PutDatabase(p)
    \/ Stamp(p) \/ Snapshot(p) \/ Verify(p) \/ Tag(p) \/ Abort(p)

Next ==
    \/ \E n \in Anys, v \in Versions : Push(n, v)
    \/ \E v \in Versions : SandboxPackage(v) \/ SandboxSignature(v)
    \/ \E p \in Publishers : Start(p) \/ Step(p) \/ Kill(p)

Spec == Init /\ [][Next]_vars

\* A run goes on unless it dies; somebody pushes or re-runs the job again, and
\* the sandbox finishes what it began to upload.
FairSpec ==
    /\ Spec
    /\ \A p \in Publishers : WF_vars(Start(p)) /\ WF_vars(Step(p))
    /\ \A v \in Versions : WF_vars(SandboxSignature(v))

----------------------------------------------------------------------------
(* Properties.                                                             *)

\* What pacman needs of the files database D names: their bytes, and signatures
\* of those bytes.
Downloadable(D) == \A n \in Indexed(D) : /\ pkgs[FileOf(D, n)] = D[n].sum
                                         /\ sigs[FileOf(D, n)] \in {0, D[n].sum}
Installable(D)  == \A n \in Indexed(D) : /\ pkgs[FileOf(D, n)] = D[n].sum
                                         /\ sigs[FileOf(D, n)] = D[n].sum

\* A database becomes visible to clients only when everything it names is on
\* the Release with the bytes and signatures it names (publish-repo.sh:34-36).
DatabaseLast ==
    [][dbs'[DbFile.db] \notin {NoDb, dbs[DbFile.db]}
         => Installable(dbs[DbFile.db])']_vars

\* What clients can see keeps the bytes it names, at every moment of a publish
\* (packages/README.md:54: a published version is immutable).
LiveDownloadable == Downloadable(dbs[DbFile.db])

\* Every dated database can still be rolled back to: the files it names keep
\* their bytes (publish-repo.sh:151-153).
RollbackDownloadable == \A D \in snaps : Downloadable(D)

\* The database clients see never loses a package name the one before it had
\* (publish-repo.sh:89-92).
NeverDropped ==
    dbs[DbFile.db] # NoDb => Indexed(cdn[DbFile.db]) \subseteq Indexed(dbs[DbFile.db])

\* Nothing is called published, dated or verified before clients see exactly
\* the staged database, signed, and can install all of it.
PublishedIsInstallable ==
    \A p \in Publishers : run[p].pc \in {"snapshot", "verify"} =>
        /\ dbs[DbFile.db] = staging[p].db
        /\ dbs[DbFile.dbSig] = staging[p].db
        /\ Installable(staging[p].db)

\* When publish-repo.sh finds nothing to ship, every database file on the
\* Release is already that of the staged database (publish-repo.sh:105-107).
NothingToShip ==
    \A p \in Publishers : run[p].pc = "verify" /\ ~staging[p].stamp =>
        \A i \in DbFiles : dbs[i] = staging[p].db

\* When publish-repo.sh finds nothing to ship, what is published has its tag
\* (CHANGELOG.md:3).
EveryPublishTagged ==
    \A p \in Publishers : run[p].pc = "verify" /\ ~staging[p].stamp =>
        staging[p].db \in tagged

\* A kernel once visible to clients is never replaced by an older one, whatever
\* a push reverts: build-repo.sh keeps the newest kernel on the Release.
KernelNeverOlder ==
    dbs[DbFile.db] # NoDb => dbs[DbFile.db][Kernel].ver >= cdn[DbFile.db][Kernel].ver

\* Once faults, pushes and uploads have ended, clients see and keep seeing the
\* versions at the tip of main, signed and installable.
AtHead(D) == \A n \in Anys : D[n].ver = head[n]
Converges == <>[](/\ AtHead(dbs[DbFile.db])
                  /\ dbs[DbFile.dbSig] = dbs[DbFile.db]
                  /\ Installable(dbs[DbFile.db]))
=============================================================================
