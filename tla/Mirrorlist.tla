----------------------------- MODULE Mirrorlist -----------------------------
(***************************************************************************)
(* How a host subscribes to the [appsynergy] repository: the install,      *)
(* upgrade and remove scriptlets of appsynergy-mirrorlist, which edit      *)
(* /etc/pacman.conf in transactions of the very pacman that reads it.      *)
(*                                                                         *)
(* The package ships a drop-in that pacman reads only through an Include.  *)
(* pacman refuses an Include it cannot read and a repository registered    *)
(* twice, and with a refused configuration no transaction, so no scriptlet *)
(* either, runs again.  Between transactions the operator edits the file;  *)
(* a transaction may be cut off between its files and its scriptlet.       *)
(***************************************************************************)
EXTENDS Naturals, Sequences

CONSTANTS
    Confs,        \* files /etc/pacman.conf may start as or be replaced by
    MaxEdits,     \* bound: edits by the operator
    MaxRuns       \* bound: pacman transactions with the package

\* What the scriptlets tell apart: the header of an official repository with
\* its body; an inline [appsynergy], with SigLevel TrustAll or without;
\* the two lines of the package; its Include written another way; an Include
\* of all of pacman.conf.d; and the Include of somebody else's repository.  A
\* line taken out leaves "gone" behind, so that the others keep their places.
Headers == {"core", "inlineTrust", "inline"}
Lines == Headers \cup {"marker", "include", "otherInclude", "glob", "third", "gone"}

VARIABLES
    conf,       \* /etc/pacman.conf
    drop,       \* /etc/pacman.conf.d/appsynergy.conf exists
    key,        \* the signing key is in pacman's keyring
    step,       \* where a transaction is
    cut,        \* the removal of the package was cut off
    wired,      \* nothing but the package's own installs happened since one finished
    edits, runs

vars == <<conf, drop, key, step, cut, wired, edits, runs>>

----------------------------------------------------------------------------
(* pacman.                                                                 *)

At(c, S) == {i \in DOMAIN c : c[i] \in S}
Has(c, l) == At(c, {l}) # {}
Several(c, S) == \E i, j \in At(c, S) : i # j

Inlines == {"inlineTrust", "inline"}
Named   == {"include", "otherInclude"}
\* A pattern that matches no file is no error, a named file that is missing is.
Parses(c, d) == d \/ At(c, Named) = {}
\* The lines that register [appsynergy].
Registers(d) == Inlines \cup (IF d THEN Named \cup {"glob"} ELSE {})
Usable(c, d) == Parses(c, d) /\ ~Several(c, Registers(d))
\* pacman-conf --repo=appsynergy succeeds; it accepts a second registration.
Resolves(c, d) == Parses(c, d) /\ At(c, Registers(d)) # {}

ASSUME ConfAssumption ==
    /\ \A c \in Confs : c \in Seq(Lines) /\ Usable(c, FALSE)
    /\ MaxEdits \in Nat /\ MaxRuns \in Nat

\* Line i is in an inline [appsynergy]: that was the last header before it.
Inside(c, i) == \E j \in 1 .. i : /\ c[j] \in Inlines
                                  /\ \A k \in j + 1 .. i : c[k] \notin Headers

----------------------------------------------------------------------------
(* The scriptlets.                                                         *)

\* Bug: neither pacman-conf nor grep is asked.
BugWireAlways(c) == IF drop THEN c \o <<"marker", "include">> ELSE c
\* Bug: an Include line without its path.
BugWireBroken(c) == IF Resolves(c, drop) \/ ~drop \/ Has(c, "include") THEN c
                    ELSE c \o <<"marker", "Include =">>
\* _appsynergy_wire_repo.
Wire(c) == IF Resolves(c, drop) \/ ~drop \/ Has(c, "include") THEN c
           ELSE c \o <<"marker", "include">>

\* Bug: awk drops everything from the header on.
BugStrip(c) == [i \in DOMAIN c |-> IF \E j \in 1 .. i : c[j] \in Inlines THEN "gone" ELSE c[i]]
\* awk drops everything from the header to the next one.
Strip(c) == [i \in DOMAIN c |-> IF Inside(c, i) THEN "gone" ELSE c[i]]

\* Bug: the candidate is tried before the Include is added.
BugMigrate(c) ==
    IF Has(c, "inlineTrust") /\ key /\ Resolves(Strip(c), drop) THEN Wire(Strip(c)) ELSE c
\* _appsynergy_upgrade_trustall: with the key, and if pacman-conf accepts the
\* candidate, an atomic replacement.
Migrate(c) ==
    LET candidate == Wire(Strip(c))
    IN  IF Has(c, "inlineTrust") /\ key /\ Resolves(candidate, drop) THEN candidate ELSE c

\* Bug: no post_remove.
BugUnwire(c) == c
\* post_remove.
Unwire(c) == IF Has(c, "include")
             THEN [i \in DOMAIN c |-> IF c[i] \in {"marker", "include"} THEN "gone" ELSE c[i]]
             ELSE c

----------------------------------------------------------------------------
Init ==
    /\ conf \in Confs /\ drop = FALSE /\ key \in BOOLEAN
    /\ step = "idle" /\ cut = FALSE /\ wired = FALSE /\ edits = 0 /\ runs = 0

\* The package's files; the keyring, a dependency, may bring the key along.
Install ==
    /\ step = "idle" /\ Usable(conf, drop) /\ runs < MaxRuns
    /\ runs' = runs + 1 /\ drop' = TRUE /\ step' = "installed"
    /\ key' \in {key, TRUE} /\ wired' = (wired /\ key' = key) /\ cut' = FALSE
    /\ UNCHANGED <<conf, edits>>

\* post_install, and post_upgrade the same.
PostInstall ==
    /\ step = "installed" /\ step' = "idle"
    /\ conf' = Wire(Migrate(conf)) /\ wired' = TRUE
    /\ UNCHANGED <<drop, key, cut, edits, runs>>

\* The package and its drop-in are gone.
Uninstall ==
    /\ step = "idle" /\ drop /\ Usable(conf, drop) /\ runs < MaxRuns
    /\ runs' = runs + 1 /\ drop' = FALSE /\ step' = "removed"
    /\ cut' = FALSE /\ wired' = FALSE
    /\ UNCHANGED <<conf, key, edits>>

PostRemove ==
    /\ step = "removed" /\ step' = "idle" /\ conf' = Unwire(conf)
    /\ UNCHANGED <<drop, key, cut, wired, edits, runs>>

\* Power loss: before the scriptlet, or between its two halves.
CutOff ==
    /\ step # "idle" /\ step' = "idle"
    /\ conf' \in IF step = "installed" THEN {conf, Migrate(conf)} ELSE {conf}
    /\ cut' = (step = "removed") /\ wired' = FALSE
    /\ UNCHANGED <<drop, key, edits, runs>>

\* An edit after which pacman still works: another repository, the Include
\* spelled otherwise, a file from a backup or from elsewhere, the key.
Edit ==
    /\ step = "idle" /\ edits < MaxEdits /\ edits' = edits + 1 /\ wired' = FALSE
    /\ \/ /\ conf' \in {Append(conf, "third"), Append(conf, "inlineTrust")} \cup Confs
                \cup {[conf EXCEPT ![i] = "otherInclude"] :
                        i \in At(conf, {"include"})}
          /\ UNCHANGED key
       \/ key' = ~key /\ UNCHANGED conf
    /\ Usable(conf', drop) /\ cut' = FALSE
    /\ UNCHANGED <<drop, step, runs>>

Next == Install \/ PostInstall \/ Uninstall \/ PostRemove \/ CutOff \/ Edit

Spec == Init /\ [][Next]_vars

----------------------------------------------------------------------------
(* Properties.                                                             *)

\* Every variable keeps its type.
TypeOK ==
    /\ conf \in Seq(Lines) /\ drop \in BOOLEAN /\ key \in BOOLEAN
    /\ step \in {"idle", "installed", "removed"}
    /\ cut \in BOOLEAN /\ wired \in BOOLEAN
    /\ edits \in 0 .. MaxEdits /\ runs \in 0 .. MaxRuns

\* What the operator's own file does: an Include of all drop-ins registers the
\* repository beside an inline section, or beside another such Include.
OwnTwice(c) == Has(c, "glob") /\ Several(c, Inlines \cup {"glob"})

\* A transaction, finished or cut off, leaves pacman usable: no Include of a
\* missing file, no second registration (appsynergy-mirrorlist.install:70-75).
\* It fails in three ways and no other: the removal was cut off before
\* post_remove; the package went while the operator's own spelling of its
\* Include stayed; or the drop-in met a file that registers it twice by itself.
StaysUsable ==
    step = "idle" =>
        \/ Usable(conf, drop)
        \/ cut
        \/ ~drop /\ Has(conf, "otherInclude")
        \/ drop /\ OwnTwice(conf) /\ ~Several(conf, Inlines)

\* A finished install on a host with the key leaves exactly one registration,
\* and never one that trusts everything, whatever was edited, restored or cut
\* off before (install:17-20); only the operator's own two stay.
SignedOnce ==
    step = "idle" /\ wired /\ key =>
        /\ ~Has(conf, "inlineTrust")
        /\ \/ \E i \in DOMAIN conf : At(conf, Registers(drop)) = {i}
           \/ OwnTwice(conf)

\* What other packages and the operator put there.
Foreign == {"third", "glob"}

\* No scriptlet takes away what is not its own: official repositories always
\* stay, somebody else's Include is lost only where it stands inside the inline
\* section the migration deletes (install:40-44), and no place gets a new one.
OthersKept ==
    [][step # "idle" =>
        /\ \A i \in DOMAIN conf :
              conf[i] = "core" \/ (conf[i] \in Foreign /\ ~Inside(conf, i))
                 => i \in DOMAIN conf' /\ conf'[i] = conf[i]
        /\ \A i \in DOMAIN conf' :
              conf'[i] \in {"core"} \cup Foreign => i \in DOMAIN conf /\ conf[i] = conf'[i]]_vars

\* Installing again over a finished install changes nothing, whatever the file
\* looked like before the first: no second Include, no second migration.
Idempotent ==
    [][step = "installed" /\ wired => conf' = conf]_vars
=============================================================================
