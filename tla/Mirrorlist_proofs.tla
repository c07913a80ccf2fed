------------------------- MODULE Mirrorlist_proofs -------------------------
(***************************************************************************)
(* Theorems about Mirrorlist, for every set of files pacman.conf may start *)
(* as or be replaced by, however long, and any number of edits and         *)
(* transactions.                                                           *)
(*                                                                         *)
(* First what the scriptlets' operators do to a file line by line; then an *)
(* invariant for each place a transaction can be at.                       *)
(***************************************************************************)
EXTENDS Mirrorlist, TLAPS

----------------------------------------------------------------------------
(* Sequences, and the lines the scriptlets write.                          *)

\* Replacing lines, without adding any, makes a file again.
LEMMA SameLength ==
    ASSUME NEW c \in Seq(Lines), NEW e,
           DOMAIN e = DOMAIN c, e = [i \in DOMAIN c |-> e[i]],
           \A i \in DOMAIN c : e[i] \in Lines
    PROVE  e \in Seq(Lines) /\ Len(e) = Len(c)
<1>1. DOMAIN c = 1 .. Len(c) /\ Len(c) \in Nat
  OBVIOUS
<1>2. e \in [1 .. Len(c) -> Lines]
  BY <1>1
<1>3. QED
  BY <1>1, <1>2

\* The two lines of the package land at the end, one behind the other.
LEMMA Appended ==
    ASSUME NEW c \in Seq(Lines), NEW e, e = c \o <<"marker", "include">>
    PROVE  /\ e \in Seq(Lines)
           /\ DOMAIN e = DOMAIN c \cup {Len(c) + 1, Len(c) + 2}
           /\ DOMAIN c \subseteq DOMAIN e
           /\ \A i \in DOMAIN c : e[i] = c[i]
           /\ Len(c) + 1 \notin DOMAIN c /\ Len(c) + 2 \notin DOMAIN c
           /\ Len(c) + 1 # Len(c) + 2
           /\ e[Len(c) + 1] = "marker" /\ e[Len(c) + 2] = "include"
<1> DEFINE two == <<"marker", "include">>
<1>1. two \in Seq(Lines) /\ Len(two) = 2 /\ two[1] = "marker" /\ two[2] = "include"
  BY DEF Lines
<1>2. e = c \o two
  OBVIOUS
<1> HIDE DEF two
<1>3. e \in Seq(Lines) /\ Len(e) = Len(c) + 2 /\ Len(c) \in Nat
  BY <1>1, <1>2
<1>4. \A i \in 1 .. Len(c) : e[i] = c[i]
  BY <1>1, <1>2
<1>5. e[Len(c) + 1] = two[1] /\ e[Len(c) + 2] = two[2]
  BY <1>1, <1>2, <1>3
<1>6. DOMAIN e = 1 .. Len(c) + 2 /\ DOMAIN c = 1 .. Len(c)
  BY <1>3
<1>7. QED
  BY <1>1, <1>3, <1>4, <1>5, <1>6

\* What awk leaves of a file: no line of an inline section, every other line
\* in its place.
LEMMA StripFacts ==
    ASSUME NEW c \in Seq(Lines)
    PROVE  /\ Strip(c) \in Seq(Lines)
           /\ DOMAIN Strip(c) = DOMAIN c
           /\ \A i \in DOMAIN c :
                 /\ Strip(c)[i] \in {c[i], "gone"}
                 /\ Strip(c)[i] \notin Inlines
                 /\ ~Inside(c, i) => Strip(c)[i] = c[i]
                 /\ c[i] = "core" => Strip(c)[i] = c[i]
<1>0. DOMAIN c = 1 .. Len(c) /\ Len(c) \in Nat
  OBVIOUS
<1>1. DOMAIN Strip(c) = DOMAIN c /\ Strip(c) = [i \in DOMAIN c |-> Strip(c)[i]]
  BY DEF Strip
<1>2. ASSUME NEW i \in DOMAIN c
      PROVE  /\ Strip(c)[i] = IF Inside(c, i) THEN "gone" ELSE c[i]
             /\ c[i] \in Inlines => Inside(c, i)
             /\ c[i] = "core" => ~Inside(c, i)
  <2>1. Strip(c)[i] = IF Inside(c, i) THEN "gone" ELSE c[i]
    BY DEF Strip
  <2>2. ASSUME c[i] \in Inlines PROVE Inside(c, i)
    <3>1. i \in 1 .. i /\ \A k \in i + 1 .. i : c[k] \notin Headers
      BY <1>0
    <3>2. QED
      BY <3>1, <2>2 DEF Inside
  <2>3. ASSUME c[i] = "core", Inside(c, i) PROVE FALSE
    <3>1. PICK j \in 1 .. i : c[j] \in Inlines /\ \A k \in j + 1 .. i : c[k] \notin Headers
      BY <2>3 DEF Inside
    <3>2. j # i
      BY <3>1, <2>3 DEF Inlines
    <3>3. i \in j + 1 .. i
      BY <3>1, <3>2, <1>0
    <3>4. QED
      BY <3>1, <3>3, <2>3 DEF Headers
  <2>4. QED
    BY <2>1, <2>2, <2>3
<1>3. \A i \in DOMAIN c : c[i] \in Lines
  BY <1>0
<1>4. "gone" \in Lines /\ "gone" \notin Inlines
  BY DEF Lines, Inlines
<1>5. \A i \in DOMAIN c : Strip(c)[i] \in Lines
  BY <1>2, <1>3, <1>4
<1>6. Strip(c) \in Seq(Lines)
  BY <1>1, <1>5, SameLength
<1>7. QED
  BY <1>1, <1>2, <1>4, <1>6

\* With the drop-in in place the wiring leaves a file alone that registers the
\* repository already, and appends the only registration to any other.
LEMMA WireFacts ==
    ASSUME NEW c \in Seq(Lines), drop = TRUE
    PROVE  /\ At(c, Registers(TRUE)) # {} => Wire(c) = c
           /\ At(c, Registers(TRUE)) = {} => Wire(c) = c \o <<"marker", "include">>
           /\ Wire(c) \in Seq(Lines)
           /\ At(Wire(c), Registers(TRUE)) # {}
           /\ At(c, Registers(TRUE)) = {} =>
                 At(Wire(c), Registers(TRUE)) = {Len(c) + 2}
           /\ \A S : "marker" \notin S /\ "include" \notin S => At(Wire(c), S) = At(c, S)
           /\ DOMAIN c \subseteq DOMAIN Wire(c)
           /\ \A i \in DOMAIN c : Wire(c)[i] = c[i]
<1>1. Resolves(c, drop) <=> At(c, Registers(TRUE)) # {}
  BY DEF Resolves, Parses
<1>2. Has(c, "include") => At(c, Registers(TRUE)) # {}
  BY DEF Has, At, Registers, Named
<1>3. CASE At(c, Registers(TRUE)) # {}
  <2>1. Wire(c) = c
    BY <1>1, <1>3 DEF Wire
  <2>2. QED
    BY <2>1, <1>3
<1>4. CASE At(c, Registers(TRUE)) = {}
  <2> DEFINE e == c \o <<"marker", "include">>
  <2>1. Wire(c) = e /\ e = c \o <<"marker", "include">>
    BY <1>1, <1>2, <1>4 DEF Wire
  <2> HIDE DEF e
  <2>2. /\ e \in Seq(Lines)
        /\ DOMAIN e = DOMAIN c \cup {Len(c) + 1, Len(c) + 2}
        /\ DOMAIN c \subseteq DOMAIN e
        /\ \A i \in DOMAIN c : e[i] = c[i]
        /\ e[Len(c) + 1] = "marker" /\ e[Len(c) + 2] = "include"
    BY <2>1, Appended
  <2>4. ASSUME NEW S, "marker" \notin S, "include" \notin S
        PROVE  At(e, S) = At(c, S)
    BY <2>2, <2>4 DEF At
  <2>5. "include" \in Registers(TRUE) /\ "marker" \notin Registers(TRUE)
    BY DEF Registers, Inlines, Named
  <2>6. At(e, Registers(TRUE)) = {Len(c) + 2}
    <3>1. \A i \in DOMAIN c : e[i] \notin Registers(TRUE)
      BY <1>4, <2>2 DEF At
    <3>2. QED
      BY <2>2, <2>5, <3>1 DEF At
  <2>7. QED
    BY <1>4, <2>1, <2>2, <2>4, <2>6
<1>5. QED
  BY <1>3, <1>4

\* What the migration leaves: the file it found, or one without any inline
\* section that registers the repository.  With the key the first happens only
\* to a file without a trusting section.
LEMMA MigrateFacts ==
    ASSUME NEW c \in Seq(Lines), drop = TRUE
    PROVE  /\ Migrate(c) = IF Has(c, "inlineTrust") /\ key THEN Wire(Strip(c)) ELSE c
           /\ Migrate(c) \in Seq(Lines)
           /\ key => ~Has(Migrate(c), "inlineTrust")
<1>1. Strip(c) \in Seq(Lines) /\ \A i \in DOMAIN Strip(c) : Strip(c)[i] \notin Inlines
  BY StripFacts
<1>2. /\ At(Wire(Strip(c)), Registers(TRUE)) # {}
      /\ Wire(Strip(c)) \in Seq(Lines)
      /\ At(Wire(Strip(c)), {"inlineTrust"}) = At(Strip(c), {"inlineTrust"})
  BY <1>1, WireFacts
<1>3. Resolves(Wire(Strip(c)), drop)
  BY <1>2 DEF Resolves, Parses
<1>4. At(Strip(c), {"inlineTrust"}) = {}
  BY <1>1 DEF At, Inlines
<1>5. Migrate(c) = IF Has(c, "inlineTrust") /\ key THEN Wire(Strip(c)) ELSE c
  BY <1>3 DEF Migrate
<1>6. QED
  BY <1>2, <1>4, <1>5 DEF Has

\* A finished install: the migration, then the wiring, is the wiring or the
\* migration alone.
LEMMA InstalledFacts ==
    ASSUME NEW c \in Seq(Lines), drop = TRUE
    PROVE  /\ Wire(Migrate(c)) \in {Wire(c), Migrate(c)}
           /\ Wire(Migrate(c)) \in Seq(Lines)
           /\ At(Wire(Migrate(c)), Registers(TRUE)) # {}
           /\ key => ~Has(Wire(Migrate(c)), "inlineTrust")
<1>1. /\ Migrate(c) = IF Has(c, "inlineTrust") /\ key THEN Wire(Strip(c)) ELSE c
      /\ Migrate(c) \in Seq(Lines)
      /\ key => ~Has(Migrate(c), "inlineTrust")
  BY MigrateFacts
<1>2. /\ Wire(Migrate(c)) \in Seq(Lines)
      /\ At(Wire(Migrate(c)), Registers(TRUE)) # {}
      /\ At(Wire(Migrate(c)), {"inlineTrust"}) = At(Migrate(c), {"inlineTrust"})
      /\ At(Migrate(c), Registers(TRUE)) # {} => Wire(Migrate(c)) = Migrate(c)
  BY <1>1, WireFacts
<1>3. ASSUME Migrate(c) # c PROVE At(Migrate(c), Registers(TRUE)) # {}
  BY <1>1, <1>3, StripFacts, WireFacts
<1>4. QED
  BY <1>1, <1>2, <1>3 DEF Has

\* post_remove turns the package's two lines, and no others, into nothing.
LEMMA UnwireFacts ==
    ASSUME NEW c \in Seq(Lines)
    PROVE  /\ Unwire(c) \in Seq(Lines)
           /\ DOMAIN Unwire(c) = DOMAIN c
           /\ \A i \in DOMAIN c :
                 /\ Unwire(c)[i] # "include"
                 /\ c[i] \notin {"marker", "include"} => Unwire(c)[i] = c[i]
                 /\ Unwire(c)[i] \in {c[i], "gone"}
<1>1. CASE ~Has(c, "include")
  BY <1>1 DEF Unwire, Has, At
<1>2. CASE Has(c, "include")
  <2>1. Unwire(c) = [i \in DOMAIN c |-> IF c[i] \in {"marker", "include"} THEN "gone" ELSE c[i]]
    BY <1>2 DEF Unwire
  <2>2. \A i \in DOMAIN c : c[i] \in Lines
    OBVIOUS
  <2>3. /\ DOMAIN Unwire(c) = DOMAIN c
        /\ Unwire(c) = [i \in DOMAIN c |-> Unwire(c)[i]]
        /\ \A i \in DOMAIN c : Unwire(c)[i] \in Lines
    BY <2>1, <2>2 DEF Lines
  <2>4. Unwire(c) \in Seq(Lines)
    BY <2>3, SameLength
  <2>5. QED
    BY <2>1, <2>3, <2>4
<1>3. QED
  BY <1>1, <1>2

----------------------------------------------------------------------------
(* Types.                                                                  *)

LEMMA InitTypes == ASSUME Init PROVE TypeOK
<1>1. conf \in Seq(Lines)
  BY ConfAssumption DEF Init
<1>2. edits \in 0 .. MaxEdits /\ runs \in 0 .. MaxRuns
  BY ConfAssumption DEF Init
<1>3. drop \in BOOLEAN /\ key \in BOOLEAN /\ cut \in BOOLEAN /\ wired \in BOOLEAN
  BY DEF Init
<1>4. step \in {"idle", "installed", "removed"}
  BY DEF Init
<1>5. QED
  BY <1>1, <1>2, <1>3, <1>4 DEF TypeOK

LEMMA NextTypes == ASSUME TypeOK, [Next]_vars PROVE TypeOK'
<1> USE DEF TypeOK
<1>1. CASE Install
  <2>1. edits' = edits /\ runs' = runs + 1 /\ runs < MaxRuns
    BY <1>1 DEF Install
  <2>2. runs' \in 0 .. MaxRuns
    BY <2>1, ConfAssumption
  <2>3. QED
    BY <1>1, <2>1, <2>2 DEF Install
<1>2. CASE PostInstall
  <2>1. drop = TRUE => conf' \in Seq(Lines)
    BY <1>2, InstalledFacts DEF PostInstall
  <2>2. drop = FALSE => Wire(Migrate(conf)) = Migrate(conf)
    BY DEF Wire
  <2>3. drop = FALSE => Migrate(conf) \in {conf, Wire(Strip(conf))}
    BY DEF Migrate
  <2>4. drop = FALSE => Wire(Strip(conf)) = Strip(conf)
    BY DEF Wire
  <2>5. conf' \in Seq(Lines)
    BY <1>2, <2>1, <2>2, <2>3, <2>4, StripFacts DEF PostInstall
  <2>6. QED
    BY <1>2, <2>5 DEF PostInstall
<1>3. CASE Uninstall
  <2>1. edits' = edits /\ runs' = runs + 1 /\ runs < MaxRuns
    BY <1>3 DEF Uninstall
  <2>2. runs' \in 0 .. MaxRuns
    BY <2>1, ConfAssumption
  <2>3. QED
    BY <1>3, <2>1, <2>2 DEF Uninstall
<1>4. CASE PostRemove
  <2>1. conf' \in Seq(Lines)
    BY <1>4, UnwireFacts DEF PostRemove
  <2>2. QED
    BY <1>4, <2>1 DEF PostRemove
<1>5. CASE CutOff
  <2>1. conf' \in {conf, Migrate(conf)}
    BY <1>5 DEF CutOff
  <2>2. drop = TRUE => Migrate(conf) \in Seq(Lines)
    BY MigrateFacts
  <2>3. drop = FALSE => Migrate(conf) \in {conf, Strip(conf)}
    BY DEF Migrate, Wire
  <2>4. conf' \in Seq(Lines)
    BY <2>1, <2>2, <2>3, StripFacts
  <2>5. cut' \in BOOLEAN
    BY <1>5 DEF CutOff
  <2>6. QED
    BY <1>5, <2>4, <2>5 DEF CutOff
<1>6. CASE Edit
  <2>1. edits' \in 0 .. MaxEdits
    BY <1>6, ConfAssumption DEF Edit
  <2>2. key' \in BOOLEAN
    BY <1>6 DEF Edit
  <2>3. \/ conf' \in {Append(conf, "third"), Append(conf, "inlineTrust")}
        \/ conf' \in Confs
        \/ conf' \in {[conf EXCEPT ![i] = "otherInclude"] : i \in At(conf, {"include"})}
        \/ conf' = conf
    BY <1>6 DEF Edit
  <2>4. ASSUME NEW i \in At(conf, {"include"}), conf' = [conf EXCEPT ![i] = "otherInclude"]
        PROVE  conf' \in Seq(Lines)
    <3>1. /\ DOMAIN conf' = DOMAIN conf
          /\ conf' = [j \in DOMAIN conf |-> conf'[j]]
          /\ \A j \in DOMAIN conf : conf'[j] \in {conf[j], "otherInclude"}
      BY <2>4
    <3>2. \A j \in DOMAIN conf : conf[j] \in Lines
      OBVIOUS
    <3>3. QED
      BY <3>1, <3>2, SameLength DEF Lines
  <2>5. "third" \in Lines /\ "inlineTrust" \in Lines
    BY DEF Lines, Headers
  <2>6. Append(conf, "third") \in Seq(Lines) /\ Append(conf, "inlineTrust") \in Seq(Lines)
    BY <2>5
  <2>7. conf' \in Seq(Lines)
    <3>1. CASE conf' \in {Append(conf, "third"), Append(conf, "inlineTrust")}
      BY <3>1, <2>6
    <3>2. CASE conf' \in Confs
      BY <3>2, ConfAssumption
    <3>3. CASE conf' \in {[conf EXCEPT ![i] = "otherInclude"] : i \in At(conf, {"include"})}
      BY <3>3, <2>4
    <3>4. CASE conf' = conf
      BY <3>4
    <3>5. QED
      BY <2>3, <3>1, <3>2, <3>3, <3>4
  <2>8. QED
    BY <1>6, <2>1, <2>2, <2>7 DEF Edit
<1>7. CASE UNCHANGED vars
  BY <1>7 DEF vars
<1>8. QED
  BY <1>1, <1>2, <1>3, <1>4, <1>5, <1>6, <1>7 DEF Next

\* Whatever the scriptlets and the operator write into it, pacman.conf is a
\* file of known lines, and every variable keeps its type.
THEOREM TypeCorrect == Spec => []TypeOK
<1>1. Init => TypeOK
  BY InitTypes
<1>2. TypeOK /\ [Next]_vars => TypeOK'
  BY NextTypes
<1>3. QED
  BY <1>1, <1>2, PTL DEF Spec

----------------------------------------------------------------------------
(* What each half of a transaction keeps.                                  *)

\* What a transaction finds: pacman worked with the file just before it.
Ready(c) ==
    /\ ~Several(c, Inlines)
    /\ ~Several(c, Registers(TRUE)) \/ At(c, Named) = {}

\* What it leaves behind when the drop-in is there.
Sound(c) ==
    /\ ~Several(c, Inlines)
    /\ ~Several(c, Registers(TRUE)) \/ OwnTwice(c)

\* Fewer lines of a kind are not several where more were not.
LEMMA Fewer ==
    ASSUME NEW c, NEW e, NEW S, At(e, S) \subseteq At(c, S), ~Several(c, S)
    PROVE  ~Several(e, S)
BY DEF Several

\* A drop-in read for the first time makes no second registration beside one
\* the package, or a named Include, is responsible for.
LEMMA ReadyIsSound == ASSUME NEW c, Ready(c) PROVE Sound(c)
<1>1. CASE ~Several(c, Registers(TRUE))
  BY <1>1 DEF Ready, Sound
<1>2. CASE Several(c, Registers(TRUE))
  <2>1. At(c, Named) = {}
    BY <1>2 DEF Ready
  <2>2. At(c, Registers(TRUE)) = At(c, Inlines \cup {"glob"})
    BY <2>1 DEF At, Registers
  <2>3. Several(c, Inlines \cup {"glob"})
    BY <1>2, <2>2 DEF Several
  <2>4. At(c, {"glob"}) # {}
    <3>1. SUFFICES ASSUME At(c, {"glob"}) = {} PROVE FALSE
      OBVIOUS
    <3>2. At(c, Inlines \cup {"glob"}) = At(c, Inlines)
      BY <3>1 DEF At
    <3>3. QED
      BY <2>3, <3>2 DEF Several, Ready
  <2>5. QED
    BY <2>3, <2>4 DEF Ready, Sound, OwnTwice, Has
<1>3. QED
  BY <1>1, <1>2

\* Deleting the inline section only takes registrations away.
LEMMA StripKeepsReady ==
    ASSUME NEW c \in Seq(Lines), Ready(c)
    PROVE  Ready(Strip(c))
<1>1. /\ DOMAIN Strip(c) = DOMAIN c
      /\ \A i \in DOMAIN c : Strip(c)[i] \in {c[i], "gone"}
  BY StripFacts
<1>2. ASSUME NEW S, "gone" \notin S PROVE At(Strip(c), S) \subseteq At(c, S)
  BY <1>1, <1>2 DEF At
<1>3. "gone" \notin Inlines /\ "gone" \notin Registers(TRUE) /\ "gone" \notin Named
  BY DEF Inlines, Registers, Named
<1>4. /\ At(Strip(c), Inlines) \subseteq At(c, Inlines)
      /\ At(Strip(c), Registers(TRUE)) \subseteq At(c, Registers(TRUE))
      /\ At(Strip(c), Named) \subseteq At(c, Named)
  BY <1>2, <1>3
<1>5. ~Several(Strip(c), Inlines)
  BY <1>4, Fewer DEF Ready
<1>6. ~Several(c, Registers(TRUE)) => ~Several(Strip(c), Registers(TRUE))
  BY <1>4, Fewer
<1>7. QED
  BY <1>4, <1>5, <1>6 DEF Ready

\* The Include is appended only where nothing registers the repository.
LEMMA WireKeepsSound ==
    ASSUME NEW c \in Seq(Lines), drop = TRUE, Ready(c)
    PROVE  Sound(Wire(c))
<1>1. CASE At(c, Registers(TRUE)) # {}
  BY <1>1, WireFacts, ReadyIsSound
<1>2. CASE At(c, Registers(TRUE)) = {}
  <2>1. At(Wire(c), Registers(TRUE)) = {Len(c) + 2}
    BY <1>2, WireFacts
  <2>2. ~Several(Wire(c), Registers(TRUE))
    BY <2>1 DEF Several
  <2>3. At(Wire(c), Inlines) = At(c, Inlines)
    <3>1. "marker" \notin Inlines /\ "include" \notin Inlines
      BY DEF Inlines
    <3>2. QED
      BY <3>1, WireFacts
  <2>4. ~Several(Wire(c), Inlines)
    BY <2>3 DEF Several, Ready
  <2>5. QED
    BY <2>2, <2>4 DEF Sound
<1>3. QED
  BY <1>1, <1>2

\* Whether post_install runs to its end or is cut off between its halves.
LEMMA InstallKeepsSound ==
    ASSUME NEW c \in Seq(Lines), drop = TRUE, Ready(c)
    PROVE  Sound(Migrate(c)) /\ Sound(Wire(Migrate(c)))
<1>1. Migrate(c) \in {c, Wire(Strip(c))}
  BY MigrateFacts
<1>2. Sound(c) /\ Sound(Wire(c))
  BY ReadyIsSound, WireKeepsSound
<1>3. Sound(Wire(Strip(c)))
  BY StripFacts, StripKeepsReady, WireKeepsSound
<1>4. Wire(Migrate(c)) \in {Wire(c), Migrate(c)}
  BY InstalledFacts
<1>5. QED
  BY <1>1, <1>2, <1>3, <1>4

----------------------------------------------------------------------------
(* The invariant, one part for every place a transaction can be at.        *)

InstalledInv == step = "installed" => drop /\ ~cut /\ Ready(conf)

RemovedInv ==
    step = "removed" => ~drop /\ ~wired /\ ~Several(conf, Registers(TRUE))

\* What a finished install has established and nothing undone since.
WiredInv ==
    wired => /\ ~cut /\ drop
             /\ At(conf, Registers(TRUE)) # {}
             /\ key => ~Has(conf, "inlineTrust")

HostInv == StaysUsable /\ InstalledInv /\ RemovedInv /\ WiredInv

LEMMA InitHost == ASSUME Init PROVE HostInv
BY ConfAssumption
   DEF Init, HostInv, StaysUsable, InstalledInv, RemovedInv, WiredInv

\* A registration with the drop-in gone is one with it.
LEMMA UsableFacts ==
    ASSUME NEW c
    PROVE  /\ \A d \in BOOLEAN : Usable(c, d) => Ready(c)
           /\ Usable(c, TRUE) <=> ~Several(c, Registers(TRUE))
           /\ Sound(c) => Usable(c, TRUE) \/ (OwnTwice(c) /\ ~Several(c, Inlines))
<1>1. Registers(FALSE) = Inlines /\ Inlines \subseteq Registers(TRUE)
  BY DEF Registers
<1>2. ~Several(c, Registers(TRUE)) => ~Several(c, Inlines)
  BY <1>1 DEF Several, At
<1>3. Usable(c, TRUE) <=> ~Several(c, Registers(TRUE))
  BY DEF Usable, Parses
<1>4. Usable(c, FALSE) => At(c, Named) = {} /\ ~Several(c, Inlines)
  BY <1>1 DEF Usable, Parses
<1>5. QED
  BY <1>2, <1>3, <1>4 DEF Ready, Sound

LEMMA NextHost ==
    ASSUME TypeOK, HostInv, [Next]_vars
    PROVE  HostInv'
<1> USE DEF HostInv, InstalledInv, RemovedInv, WiredInv
<1>0. drop \in BOOLEAN /\ conf \in Seq(Lines)
  BY DEF TypeOK
<1>1. CASE Install
  <2>1. /\ step' = "installed" /\ drop' = TRUE /\ cut' = FALSE /\ conf' = conf
        /\ wired' = (wired /\ key' = key) /\ Usable(conf, drop)
    BY <1>1 DEF Install
  <2>2. Ready(conf)
    BY <1>0, <2>1, UsableFacts
  <2>3. WiredInv'
    <3>1. SUFFICES ASSUME wired'
                   PROVE  /\ ~cut' /\ drop' /\ At(conf', Registers(TRUE)) # {}
                          /\ key' => ~Has(conf', "inlineTrust")
      OBVIOUS
    <3>2. wired /\ key' = key
      BY <2>1, <3>1
    <3>3. QED
      BY <2>1, <3>2
  <2>4. InstalledInv' /\ RemovedInv' /\ StaysUsable'
    BY <2>1, <2>2 DEF StaysUsable
  <2>5. QED
    BY <2>3, <2>4
<1>2. CASE PostInstall
  <2>1. /\ step = "installed" /\ step' = "idle" /\ conf' = Wire(Migrate(conf))
        /\ drop' = drop /\ cut' = cut /\ key' = key
    BY <1>2 DEF PostInstall
  <2>2. drop = TRUE /\ ~cut /\ Ready(conf)
    BY <1>0, <2>1
  <2>3. Sound(conf') /\ At(conf', Registers(TRUE)) # {} /\ (key => ~Has(conf', "inlineTrust"))
    BY <1>0, <2>1, <2>2, InstalledFacts, InstallKeepsSound
  <2>4. Usable(conf', TRUE) \/ (OwnTwice(conf') /\ ~Several(conf', Inlines))
    BY <2>3, UsableFacts
  <2>5. QED
    BY <2>1, <2>2, <2>3, <2>4 DEF StaysUsable
<1>3. CASE Uninstall
  <2>1. /\ step' = "removed" /\ drop' = FALSE /\ wired' = FALSE /\ conf' = conf
        /\ drop = TRUE /\ Usable(conf, drop)
    BY <1>0, <1>3 DEF Uninstall
  <2>2. ~Several(conf, Registers(TRUE))
    BY <2>1, UsableFacts
  <2>3. QED
    BY <2>1, <2>2 DEF StaysUsable
<1>4. CASE PostRemove
  <2>1. /\ step = "removed" /\ step' = "idle" /\ conf' = Unwire(conf)
        /\ drop' = drop /\ cut' = cut /\ wired' = wired
    BY <1>4 DEF PostRemove
  <2>2. ~drop /\ ~wired /\ ~Several(conf, Registers(TRUE))
    BY <2>1
  <2>3. /\ DOMAIN conf' = DOMAIN conf
        /\ \A i \in DOMAIN conf : conf'[i] # "include" /\ conf'[i] \in {conf[i], "gone"}
    BY <1>0, <2>1, UnwireFacts
  <2>4. At(conf', Inlines) \subseteq At(conf, Registers(TRUE))
    BY <2>3 DEF At, Inlines, Registers
  <2>5. ~Several(conf', Inlines)
    BY <2>2, <2>4 DEF Several
  <2>6. At(conf', Named) = {} \/ Has(conf', "otherInclude")
    BY <2>3 DEF At, Has, Named
  <2>7. Usable(conf', FALSE) \/ Has(conf', "otherInclude")
    BY <2>5, <2>6 DEF Usable, Parses, Registers
  <2>8. QED
    BY <1>0, <2>1, <2>2, <2>7 DEF StaysUsable
<1>5. CASE CutOff
  <2>1. /\ step # "idle" /\ step' = "idle" /\ drop' = drop
        /\ cut' = (step = "removed") /\ wired' = FALSE
    BY <1>5 DEF CutOff
  <2>2. CASE step = "removed"
    BY <2>1, <2>2 DEF StaysUsable
  <2>3. CASE step = "installed"
    <3>1. drop = TRUE /\ Ready(conf)
      BY <1>0, <2>3
    <3>2. conf' \in {conf, Migrate(conf)}
      BY <1>5, <2>3 DEF CutOff
    <3>3. Sound(conf')
      BY <1>0, <3>1, <3>2, ReadyIsSound, InstallKeepsSound
    <3>4. Usable(conf', TRUE) \/ (OwnTwice(conf') /\ ~Several(conf', Inlines))
      BY <3>3, UsableFacts
    <3>5. QED
      BY <2>1, <3>1, <3>4 DEF StaysUsable
  <2>4. QED
    BY <2>1, <2>2, <2>3 DEF TypeOK
<1>6. CASE Edit
  <2>1. step' = "idle" /\ wired' = FALSE /\ Usable(conf', drop) /\ drop' = drop
    BY <1>6 DEF Edit
  <2>2. QED
    BY <2>1 DEF StaysUsable
<1>7. CASE UNCHANGED vars
  BY <1>7 DEF vars, StaysUsable
<1>8. QED
  BY <1>1, <1>2, <1>3, <1>4, <1>5, <1>6, <1>7 DEF Next

\* What holds at every place of a transaction, on any host.
THEOREM HostAlways == Spec => []HostInv
<1>1. Init => HostInv
  BY InitHost
<1>2. TypeOK /\ HostInv /\ [Next]_vars => HostInv'
  BY NextHost
<1> HIDE DEF HostInv
<1>3. QED
  BY <1>1, <1>2, TypeCorrect, PTL DEF Spec

\* However often the package comes and goes and is cut off, and whatever the
\* operator makes of the file, pacman can read it after every transaction, but
\* for the three cases StaysUsable names.
THEOREM PacmanStaysUsable == Spec => []StaysUsable
<1>1. HostInv => StaysUsable
  BY DEF HostInv
<1>2. QED
  BY <1>1, HostAlways, PTL

\* post_install never leaves a host that has the key on TrustAll, nor without
\* the repository, nor with it twice, from any file pacman accepted before.
THEOREM InstallLeavesOneSigned == Spec => []SignedOnce
<1>1. ASSUME HostInv PROVE SignedOnce
  <2>1. SUFFICES ASSUME step = "idle", wired, key
                 PROVE  /\ ~Has(conf, "inlineTrust")
                        /\ \/ \E i \in DOMAIN conf : At(conf, Registers(drop)) = {i}
                           \/ OwnTwice(conf)
    BY DEF SignedOnce
  <2>2. ~cut /\ drop /\ At(conf, Registers(TRUE)) # {} /\ ~Has(conf, "inlineTrust")
    BY <1>1, <2>1 DEF HostInv, WiredInv
  <2>3. Usable(conf, drop) \/ OwnTwice(conf)
    BY <1>1, <2>1, <2>2 DEF HostInv, StaysUsable
  <2>4. At(conf, Registers(drop)) # {} /\ At(conf, Registers(drop)) \subseteq DOMAIN conf
    BY <2>2 DEF At, Registers
  <2>5. ASSUME Usable(conf, drop)
        PROVE  \E i \in DOMAIN conf : At(conf, Registers(drop)) = {i}
    <3>1. PICK i : i \in At(conf, Registers(drop))
      BY <2>4
    <3>2. \A j \in At(conf, Registers(drop)) : j = i
      BY <2>5, <3>1 DEF Usable, Several
    <3>3. QED
      BY <2>4, <3>1, <3>2
  <2>6. QED
    BY <2>2, <2>3, <2>5
<1>2. QED
  BY <1>1, HostAlways, PTL

----------------------------------------------------------------------------
(* What a step of a transaction may never do.                              *)

\* Every line of another package or of the operator's is where it was.
Kept(c, e) ==
    /\ \A i \in DOMAIN c :
          c[i] = "core" \/ (c[i] \in Foreign /\ ~Inside(c, i))
             => i \in DOMAIN e /\ e[i] = c[i]
    /\ \A i \in DOMAIN e :
          e[i] \in {"core"} \cup Foreign => i \in DOMAIN c /\ c[i] = e[i]

LEMMA WireKeepsOthers ==
    ASSUME NEW c \in Seq(Lines), drop = TRUE
    PROVE  /\ \A i \in DOMAIN c : i \in DOMAIN Wire(c) /\ Wire(c)[i] = c[i]
           /\ \A i \in DOMAIN Wire(c) :
                 Wire(c)[i] \in {"core"} \cup Foreign => i \in DOMAIN c /\ c[i] = Wire(c)[i]
<1>1. \A i \in DOMAIN c : i \in DOMAIN Wire(c) /\ Wire(c)[i] = c[i]
  BY WireFacts
<1>2. "marker" \notin {"core"} \cup Foreign /\ "include" \notin {"core"} \cup Foreign
  BY DEF Foreign
<1>3. At(Wire(c), {"core"} \cup Foreign) = At(c, {"core"} \cup Foreign)
  BY <1>2, WireFacts
<1>4. \A i \in DOMAIN Wire(c) : Wire(c)[i] \in {"core"} \cup Foreign => i \in DOMAIN c
  BY <1>3 DEF At
<1>5. QED
  BY <1>1, <1>4

LEMMA StripKeepsOthers ==
    ASSUME NEW c \in Seq(Lines)
    PROVE  Kept(c, Strip(c))
<1>1. /\ DOMAIN Strip(c) = DOMAIN c
      /\ \A i \in DOMAIN c :
            /\ Strip(c)[i] \in {c[i], "gone"}
            /\ ~Inside(c, i) => Strip(c)[i] = c[i]
            /\ c[i] = "core" => Strip(c)[i] = c[i]
  BY StripFacts
<1>2. "gone" \notin {"core"} \cup Foreign
  BY DEF Foreign
<1>3. QED
  BY <1>1, <1>2 DEF Kept

LEMMA KeptByWire ==
    ASSUME NEW c, NEW e \in Seq(Lines), drop = TRUE, Kept(c, e)
    PROVE  Kept(c, Wire(e))
<1>1. /\ \A i \in DOMAIN e : i \in DOMAIN Wire(e) /\ Wire(e)[i] = e[i]
      /\ \A i \in DOMAIN Wire(e) :
            Wire(e)[i] \in {"core"} \cup Foreign => i \in DOMAIN e /\ e[i] = Wire(e)[i]
  BY WireKeepsOthers
<1>2. QED
  BY <1>1 DEF Kept

\* No official repository is ever lost, and nobody else's Include but one that
\* stands in the section the migration deletes; none is made up either.
THEOREM OthersAreKept == Spec => OthersKept
<1>1. ASSUME TypeOK, HostInv, [Next]_vars, step # "idle", vars' # vars
      PROVE  Kept(conf, conf')
  <2>1. conf \in Seq(Lines) /\ Kept(conf, conf) /\ drop \in BOOLEAN
    BY <1>1 DEF TypeOK, Kept
  <2>2. step = "installed" => drop = TRUE
    BY <1>1, <2>1 DEF HostInv, InstalledInv
  <2>3. ASSUME drop = TRUE PROVE Kept(conf, Migrate(conf)) /\ Migrate(conf) \in Seq(Lines)
    <3>1. Migrate(conf) \in {conf, Wire(Strip(conf))} /\ Migrate(conf) \in Seq(Lines)
      BY <2>1, <2>3, MigrateFacts
    <3>2. Kept(conf, Wire(Strip(conf)))
      BY <2>1, <2>3, StripFacts, StripKeepsOthers, KeptByWire
    <3>3. QED
      BY <2>1, <3>1, <3>2
  <2>4. CASE PostInstall
    <3>1. drop = TRUE /\ conf' = Wire(Migrate(conf))
      BY <2>2, <2>4 DEF PostInstall
    <3>2. QED
      BY <2>3, <3>1, KeptByWire
  <2>5. CASE PostRemove
    <3>1. /\ DOMAIN conf' = DOMAIN conf
          /\ \A i \in DOMAIN conf :
                /\ conf[i] \notin {"marker", "include"} => conf'[i] = conf[i]
                /\ conf'[i] \in {conf[i], "gone"}
      BY <2>1, <2>5, UnwireFacts DEF PostRemove
    <3>2. QED
      BY <3>1 DEF Kept, Foreign
  <2>6. CASE CutOff
    <3>1. conf' = conf \/ (step = "installed" /\ conf' = Migrate(conf))
      BY <2>6 DEF CutOff
    <3>2. QED
      BY <2>1, <2>2, <2>3, <3>1
  <2>7. ~Install /\ ~Uninstall /\ ~Edit
    BY <1>1 DEF Install, Uninstall, Edit
  <2>8. QED
    BY <1>1, <2>4, <2>5, <2>6, <2>7 DEF Next
<1>2. TypeOK /\ HostInv /\ [Next]_vars => [step # "idle" => Kept(conf, conf')]_vars
  BY <1>1
<1>3. [step # "idle" => Kept(conf, conf')]_vars =>
        [step # "idle" =>
           /\ \A i \in DOMAIN conf :
                 conf[i] = "core" \/ (conf[i] \in Foreign /\ ~Inside(conf, i))
                    => i \in DOMAIN conf' /\ conf'[i] = conf[i]
           /\ \A i \in DOMAIN conf' :
                 conf'[i] \in {"core"} \cup Foreign => i \in DOMAIN conf /\ conf[i] = conf'[i]]_vars
  BY DEF Kept
<1>4. QED
  BY <1>2, <1>3, TypeCorrect, HostAlways, PTL DEF Spec, OthersKept

\* post_install over a finished install, with nothing but installs of the
\* package in between, leaves pacman.conf exactly as it is.
THEOREM ReinstallIsIdempotent == Spec => Idempotent
<1>1. ASSUME TypeOK, HostInv, [Next]_vars, step = "installed", wired
      PROVE  conf' = conf
  <2>1. /\ conf \in Seq(Lines) /\ drop = TRUE /\ At(conf, Registers(TRUE)) # {}
        /\ key => ~Has(conf, "inlineTrust")
    BY <1>1 DEF TypeOK, HostInv, WiredInv
  <2>2. Migrate(conf) = conf /\ Wire(conf) = conf
    BY <2>1, MigrateFacts, WireFacts
  <2>3. CASE PostInstall
    BY <2>2, <2>3 DEF PostInstall
  <2>4. CASE CutOff
    BY <1>1, <2>2, <2>4 DEF CutOff
  <2>5. CASE UNCHANGED vars
    BY <2>5 DEF vars
  <2>6. ~Install /\ ~Uninstall /\ ~PostRemove /\ ~Edit
    BY <1>1 DEF Install, Uninstall, PostRemove, Edit
  <2>7. QED
    BY <1>1, <2>3, <2>4, <2>5, <2>6 DEF Next
<1>2. TypeOK /\ HostInv /\ [Next]_vars => [step = "installed" /\ wired => conf' = conf]_vars
  BY <1>1
<1>3. QED
  BY <1>2, TypeCorrect, HostAlways, PTL DEF Spec, Idempotent
=============================================================================
