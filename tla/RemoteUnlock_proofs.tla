------------------------- MODULE RemoteUnlock_proofs -------------------------
(***************************************************************************)
(* Proofs about RemoteUnlock, for any volumes, sessions and number of      *)
(* attempts, and without the bounds on mistakes, failed replies, dropped   *)
(* connections and resets playing any part.                                *)
(*                                                                         *)
(* The point of the agent's snapshot: an ask belongs to one attempt of one *)
(* volume, so a passphrase that was read before the list was made can cost *)
(* a volume only the attempt it then was at.  Paid says that every wrong   *)
(* passphrase under way, in cryptsetup, in the keyring or in a session,    *)
(* was already counted for the attempt it can still spoil; Snapshot says   *)
(* that an ask once gone never comes back, and that one still pending is   *)
(* yet to be replied to, or was and the reply failed.                      *)
(***************************************************************************)
EXTENDS RemoteUnlock, TLAPS

Paid ==
    /\ "wrong" \in cache => wrongs >= 1
    /\ \A v \in Volume :
          /\ vol[v].tried <= wrongs
          /\ vol[v].at = "off" => vol[v].tried = 0
          /\ vol[v].at = "check" /\ vol[v].given = "wrong" => vol[v].tried + 1 <= wrongs
          /\ vol[v].at = "failed" => vol[v].tried = Tries
          /\ vol[v].at # "failed" => vol[v].tried < Tries
    /\ \A s \in Session : agent[s].pw = "wrong" =>
          \A a \in agent[s].todo : a.nth + 1 <= wrongs

Snapshot ==
    \A s \in Session : \A a \in agent[s].seen :
        /\ vol[a.of].at # "off" /\ a.nth <= vol[a.of].tried
        /\ agent[s].at \in {"answer", "done"}
        /\ a \in agent[s].todo \/ a \in agent[s].missed \/ a \notin Asks

\* Only a session that is answering has something left to do.
Listing ==
    \A s \in Session :
        /\ agent[s].todo \subseteq agent[s].seen
        /\ agent[s].at # "answer" => agent[s].todo = {}
        /\ agent[s].at \in {"off", "wait", "prompt"} => agent[s].seen = {}

Enrolled ==
    /\ up => \A v \in Volume : vol[v].at = "open"
    /\ tool # "idle" => up /\ First \in sealed /\ ~promised
    /\ promised => First \in sealed /\ (First \in Given(staged) => First \in Given(image))

Inv == TypeOK /\ Paid /\ Snapshot /\ Listing /\ Enrolled /\ EnrolledOpensItself

----------------------------------------------------------------------------
(* Every variable keeps its type.                                          *)

VolType == [at: {"off", "ask", "check", "open", "failed"},
            tried: 0 .. Tries, given: Passphrase \cup {"none"}]
AgentType == [at: {"off", "wait", "prompt", "answer", "done"},
              pw: Typeable \cup {"none"},
              seen: SUBSET Ask, todo: SUBSET Ask, missed: SUBSET Ask]

LEMMA LockedType == Locked \in [Volume -> VolType] /\ Nobody \in [Session -> AgentType]
  BY UnlockAssumption DEF Locked, Nobody, VolType, AgentType, Passphrase, Typeable

LEMMA AsksType == Asks \subseteq Ask
  BY DEF Asks

LEMMA InitInv == Init => Inv
<1> SUFFICES ASSUME Init PROVE Inv
  OBVIOUS
<1>1. TypeOK
  <2>1. staged \subseteq Line
    BY DEF Init, Line
  <2> QED
    BY <2>1, LockedType DEF Init, TypeOK, VolType, AgentType
<1>2. Paid /\ Snapshot /\ Listing /\ Enrolled /\ EnrolledOpensItself
  BY UnlockAssumption DEF Init, Locked, Nobody, Paid, Snapshot, Listing, Enrolled,
     EnrolledOpensItself
<1> QED
  BY <1>1, <1>2 DEF Inv

LEMMA TypeStep ==
    ASSUME Inv, [Next]_vars PROVE TypeOK'
<1> USE UnlockAssumption DEF Inv
<1> DEFINE Rest == /\ sealed \subseteq Volume /\ staged \subseteq Line /\ image \subseteq Line
                   /\ tool \in {"idle", "table", "image"}
                   /\ promised \in BOOLEAN /\ up \in BOOLEAN /\ cache \subseteq Passphrase
                   /\ wrongs \in Nat /\ mishaps \in Nat
<1>0. vol \in [Volume -> VolType] /\ agent \in [Session -> AgentType] /\ Rest
  BY DEF TypeOK, VolType, AgentType
<1>q. SUFFICES vol' \in [Volume -> VolType] /\ agent' \in [Session -> AgentType] /\ Rest'
  BY DEF TypeOK, VolType, AgentType
<1>p. \A p \in Typeable : Typed(p) => wrongs' \in Nat
  BY <1>0 DEF Typed
<1> USE DEF tpm, boot, bounds
<1>1. ASSUME NEW v \in Volume, Start(v)
      PROVE  vol' \in [Volume -> VolType] /\ agent' \in [Session -> AgentType] /\ Rest'
  <2>1. vol' \in [Volume -> VolType]
    BY <1>0, <1>1 DEF Start, VolType, Passphrase
  <2> QED BY <1>0, <1>1, <2>1 DEF Start
<1>2. ASSUME NEW v \in Volume, Check(v)
      PROVE  vol' \in [Volume -> VolType] /\ agent' \in [Session -> AgentType] /\ Rest'
  <2>1. vol[v].tried + 1 \in 0 .. Tries
    BY <1>2 DEF Check, Paid, TypeOK
  <2>2. vol' \in [Volume -> VolType]
    BY <1>0, <1>2, <2>1 DEF Check, VolType, Passphrase
  <2>3. cache' \subseteq Passphrase
    BY <1>0, <1>2 DEF Check, Passphrase
  <2> QED BY <1>0, <1>2, <2>2, <2>3 DEF Check
<1>3. ASSUME NEW v \in Volume, NEW p \in Passphrase, Console(v, p)
      PROVE  vol' \in [Volume -> VolType] /\ agent' \in [Session -> AgentType] /\ Rest'
  <2>1. vol' \in [Volume -> VolType]
    BY <1>0, <1>3 DEF Console, VolType
  <2> QED BY <1>0, <1>3, <1>p, <2>1 DEF Console, Typeable
<1>4. ASSUME NEW s \in Session, NEW a \in Ask, Reply(s, a)
      PROVE  vol' \in [Volume -> VolType] /\ agent' \in [Session -> AgentType] /\ Rest'
  <2>1. /\ a.of \in Volume
        /\ agent[s].pw # "empty" => agent[s].pw \in Passphrase \cup {"none"}
    BY <1>0 DEF AgentType, Ask, Typeable
  <2>2. vol' \in [Volume -> VolType]
    BY <1>0, <1>4, <2>1 DEF Reply, VolType
  <2>3. agent' \in [Session -> AgentType]
    BY <1>0, <1>4 DEF Reply, AgentType
  <2> QED BY <1>0, <1>4, <2>2, <2>3 DEF Reply
<1>m. ASSUME NEW s \in Session, NEW a \in Ask, Miss(s, a)
      PROVE  vol' \in [Volume -> VolType] /\ agent' \in [Session -> AgentType] /\ Rest'
  <2>1. agent' \in [Session -> AgentType]
    BY <1>0, <1>m DEF Miss, AgentType
  <2>2. mishaps' \in Nat
    BY <1>0, <1>m DEF Miss
  <2> QED BY <1>0, <1>m, <2>1, <2>2 DEF Miss
<1>5. ASSUME NEW s \in Session,
             Login(s) \/ Prompt(s) \/ GiveUp(s) \/ Finish(s) \/ Hangup(s)
      PROVE  vol' \in [Volume -> VolType] /\ agent' \in [Session -> AgentType] /\ Rest'
  <2>1. CASE Login(s) \/ Prompt(s) \/ GiveUp(s)
    <3>1. agent' \in [Session -> AgentType]
      BY <1>0, <2>1 DEF Login, Prompt, GiveUp, AgentType
    <3> QED BY <1>0, <2>1, <3>1 DEF Login, Prompt, GiveUp
  <2>2. CASE Finish(s)
    <3>1. agent' \in [Session -> AgentType]
      BY <1>0, <2>2 DEF Finish, AgentType
    <3> QED BY <1>0, <2>2, <3>1 DEF Finish
  <2>3. CASE Hangup(s)
    <3>1. agent' \in [Session -> AgentType]
      BY <1>0, <2>3, LockedType DEF Hangup
    <3> QED BY <1>0, <2>3, <3>1 DEF Hangup
  <2> QED BY <1>5, <2>1, <2>2, <2>3
<1>6. ASSUME NEW s \in Session, NEW p \in Typeable, Read(s, p)
      PROVE  vol' \in [Volume -> VolType] /\ agent' \in [Session -> AgentType] /\ Rest'
  <2>1. agent' \in [Session -> AgentType]
    BY <1>0, <1>6, AsksType DEF Read, AgentType
  <2>2. mishaps' \in Nat
    BY <1>0, <1>6 DEF Read
  <2> QED BY <1>0, <1>6, <1>p, <2>1, <2>2 DEF Read
<1>7. ASSUME Mounted \/ Enroll \/ WriteCrypttab \/ Mkinitcpio
      PROVE  vol' \in [Volume -> VolType] /\ agent' \in [Session -> AgentType] /\ Rest'
  <2>1. CASE Mounted
    BY <1>0, <2>1, LockedType DEF Mounted
  <2>2. CASE Enroll
    BY <1>0, <2>2 DEF Enroll
  <2>3. CASE WriteCrypttab
    BY <1>0, <2>3, UnlockAssumption DEF WriteCrypttab, Line
  <2>4. CASE Mkinitcpio
    BY <1>0, <2>4 DEF Mkinitcpio
  <2> QED BY <1>7, <2>1, <2>2, <2>3, <2>4
<1>8. ASSUME Reset
      PROVE  vol' \in [Volume -> VolType] /\ agent' \in [Session -> AgentType] /\ Rest'
  <2>1. promised' \in BOOLEAN /\ sealed' \subseteq Volume
    BY <1>0, <1>8 DEF Reset
  <2>2. vol' \in [Volume -> VolType] /\ agent' \in [Session -> AgentType]
    BY <1>8, LockedType DEF Reset
  <2>3. cache' = {} /\ up' = FALSE /\ wrongs' = 0 /\ mishaps' = mishaps + 1
        /\ tool' = "idle" /\ UNCHANGED <<staged, image>>
    BY <1>8 DEF Reset
  <2>4. cache' \subseteq Passphrase /\ up' \in BOOLEAN
    BY <2>3
  <2> QED BY <1>0, <2>1, <2>2, <2>3, <2>4
<1>9. ASSUME UNCHANGED vars
      PROVE  vol' \in [Volume -> VolType] /\ agent' \in [Session -> AgentType] /\ Rest'
  BY <1>0, <1>9 DEF vars
<1> HIDE DEF Rest
<1> QED
  BY <1>1, <1>2, <1>3, <1>4, <1>m, <1>5, <1>6, <1>7, <1>8, <1>9 DEF Next

----------------------------------------------------------------------------
(* The steps keep the rest.                                                *)

LEMMA PaidStep ==
    ASSUME Inv, [Next]_vars, TypeOK' PROVE Paid'
<1> USE UnlockAssumption DEF Inv, tpm, boot, bounds
<1>0. /\ wrongs \in Nat
      /\ \A v \in Volume : vol[v].tried \in Nat
      /\ \A a \in Ask : a.nth \in Nat /\ a.of \in Volume
      /\ \A s \in Session : agent[s].todo \subseteq Ask
  BY DEF TypeOK, Ask
<1>p. \A p \in Typeable : Typed(p) =>
         /\ wrongs' \in Nat /\ wrongs <= wrongs' /\ (p = "wrong" => wrongs' = wrongs + 1)
  BY <1>0 DEF Typed, Passphrase, Typeable
<1>1. ASSUME NEW v \in Volume, Start(v) PROVE Paid'
  <2>1. /\ \A w \in Volume \ {v} : vol'[w] = vol[w]
        /\ vol'[v].tried = vol[v].tried /\ vol[v].tried = 0
        /\ vol'[v].at \in {"open", "ask", "check"}
        /\ vol'[v].at = "check" /\ vol'[v].given = "wrong" => "wrong" \in cache
    <3>1. vol[v].at = "off" /\ vol[v].tried = 0
      BY <1>1 DEF Start, Paid
    <3> QED
      BY <1>1, <3>1 DEF Start, TypeOK, Passphrase
  <2> QED
    BY <1>0, <1>1, <2>1 DEF Start, Paid
<1>2. ASSUME NEW v \in Volume, Check(v) PROVE Paid'
  <2>1. /\ \A w \in Volume \ {v} : vol'[w] = vol[w]
        /\ vol'[v].at \in {"open", "ask", "failed"}
        /\ \/ vol'[v].tried = vol[v].tried /\ vol'[v].at = "open"
           \/ /\ vol[v].given = "wrong" /\ vol'[v].tried = vol[v].tried + 1
              /\ vol'[v].at = IF vol[v].tried + 1 < Tries THEN "ask" ELSE "failed"
    BY <1>2 DEF Check, TypeOK
  <2>2. vol[v].at = "check" /\ cache' = cache \cup {vol[v].given}
        /\ UNCHANGED <<agent, wrongs>>
    BY <1>2 DEF Check
  <2>3. vol[v].tried < Tries /\ (vol[v].given = "wrong" => vol[v].tried + 1 <= wrongs)
    BY <2>2 DEF Paid
  <2>4. \A w \in Volume :
          /\ vol'[w].tried <= wrongs
          /\ vol'[w].at = "off" => vol'[w].tried = 0
          /\ vol'[w].at = "check" /\ vol'[w].given = "wrong" => vol'[w].tried + 1 <= wrongs
          /\ vol'[w].at = "failed" => vol'[w].tried = Tries
          /\ vol'[w].at # "failed" => vol'[w].tried < Tries
    <3>1. ASSUME NEW w \in Volume \ {v}
          PROVE  /\ vol'[w].tried <= wrongs
                 /\ vol'[w].at = "off" => vol'[w].tried = 0
                 /\ vol'[w].at = "check" /\ vol'[w].given = "wrong" => vol'[w].tried + 1 <= wrongs
                 /\ vol'[w].at = "failed" => vol'[w].tried = Tries
                 /\ vol'[w].at # "failed" => vol'[w].tried < Tries
      BY <2>1, <3>1 DEF Paid
    <3>2. /\ vol'[v].tried <= wrongs
          /\ vol'[v].at = "failed" => vol'[v].tried = Tries
          /\ vol'[v].at # "failed" => vol'[v].tried < Tries
          /\ vol'[v].at # "off" /\ vol'[v].at # "check"
      BY <1>0, <2>1, <2>2, <2>3 DEF Paid
    <3> QED BY <3>1, <3>2
  <2>5. "wrong" \in cache' => wrongs >= 1
    BY <1>0, <2>2, <2>3 DEF Paid
  <2> QED
    BY <2>2, <2>4, <2>5 DEF Paid
<1>3. ASSUME NEW v \in Volume, NEW p \in Passphrase, Console(v, p) PROVE Paid'
  <2>1. /\ \A w \in Volume \ {v} : vol'[w] = vol[w]
        /\ vol'[v].tried = vol[v].tried /\ vol'[v].at = "check" /\ vol'[v].given = p
        /\ vol[v].at = "ask" /\ UNCHANGED <<agent, cache>>
    BY <1>3 DEF Console, TypeOK
  <2>2. wrongs' \in Nat /\ wrongs <= wrongs' /\ (p = "wrong" => wrongs' = wrongs + 1)
    BY <1>3, <1>p DEF Console, Typeable
  <2> QED
    BY <1>0, <2>1, <2>2 DEF Paid
<1>4. ASSUME NEW s \in Session, NEW a \in Ask, Reply(s, a) PROVE Paid'
  <2>1. /\ \A t \in Session : agent'[t].pw = agent[t].pw /\ agent'[t].todo \subseteq agent[t].todo
        /\ UNCHANGED <<cache, wrongs>>
    BY <1>4 DEF Reply, TypeOK
  <2>2. CASE a \notin Asks
    BY <1>4, <2>1, <2>2 DEF Reply, Paid
  <2>3. CASE a \in Asks
    <3>1. /\ \A w \in Volume \ {a.of} : vol'[w] = vol[w]
          /\ vol'[a.of].tried = vol[a.of].tried /\ vol'[a.of].at = "check"
          /\ vol'[a.of].given = agent[s].pw
          /\ vol[a.of].at = "ask" /\ vol[a.of].tried = a.nth
      BY <1>0, <1>4, <2>3 DEF Reply, TypeOK, Asks
    <3>2. agent[s].pw = "wrong" => a.nth + 1 <= wrongs
      BY <1>4 DEF Reply, Paid
    <3> QED
      BY <1>0, <2>1, <3>1, <3>2 DEF Paid
  <2> QED BY <2>2, <2>3
<1>m. ASSUME NEW s \in Session, NEW a \in Ask, Miss(s, a) PROVE Paid'
  <2>1. \A t \in Session : agent'[t].pw = agent[t].pw /\ agent'[t].todo \subseteq agent[t].todo
    BY <1>m DEF Miss, TypeOK
  <2> QED
    BY <1>m, <2>1 DEF Miss, Paid
<1>5. ASSUME NEW s \in Session,
             Login(s) \/ Prompt(s) \/ GiveUp(s) \/ Finish(s) \/ Hangup(s)
      PROVE  Paid'
  <2>1. \A t \in Session : agent'[t].pw = "wrong" =>
           agent[t].pw = "wrong" /\ agent'[t].todo \subseteq agent[t].todo
    BY <1>5 DEF Login, Prompt, GiveUp, Finish, Hangup, TypeOK, Nobody
  <2>2. UNCHANGED <<vol, cache, wrongs>>
    BY <1>5 DEF Login, Prompt, GiveUp, Finish, Hangup
  <2> QED
    BY <2>1, <2>2 DEF Paid
<1>6. ASSUME NEW s \in Session, NEW p \in Typeable, Read(s, p) PROVE Paid'
  <2>1. /\ \A t \in Session \ {s} : agent'[t] = agent[t]
        /\ agent'[s].pw = p /\ agent'[s].todo = Asks
        /\ UNCHANGED <<vol, cache>>
    BY <1>6 DEF Read, TypeOK
  <2>2. wrongs' \in Nat /\ wrongs <= wrongs' /\ (p = "wrong" => wrongs' = wrongs + 1)
    BY <1>6, <1>p DEF Read
  <2>3. \A a \in Asks : a \in Ask /\ a.nth <= wrongs
    BY <1>0 DEF Asks, Paid
  <2>4. \A t \in Session : agent'[t].pw = "wrong" => \A a \in agent'[t].todo : a.nth + 1 <= wrongs'
    BY <1>0, <2>1, <2>2, <2>3 DEF Paid
  <2> QED
    BY <1>0, <2>1, <2>2, <2>4 DEF Paid
<1>7. ASSUME Mounted PROVE Paid'
  BY <1>7 DEF Mounted, Paid, Nobody
<1>8. ASSUME Enroll \/ WriteCrypttab \/ Mkinitcpio \/ UNCHANGED vars PROVE Paid'
  BY <1>8 DEF Enroll, WriteCrypttab, Mkinitcpio, vars, Paid
<1>9. ASSUME Reset PROVE Paid'
  BY <1>9 DEF Reset, Paid, Nobody, Locked
<1> QED
  BY <1>1, <1>2, <1>3, <1>4, <1>m, <1>5, <1>6, <1>7, <1>8, <1>9 DEF Next

LEMMA ListingStep ==
    ASSUME Inv, [Next]_vars PROVE Listing'
<1> USE DEF Inv, tpm, boot, bounds
<1>1. ASSUME NEW s \in Session, NEW a \in Ask, Reply(s, a) PROVE Listing'
  BY <1>1 DEF Reply, TypeOK, Listing
<1>m. ASSUME NEW s \in Session, NEW a \in Ask, Miss(s, a) PROVE Listing'
  BY <1>m DEF Miss, TypeOK, Listing
<1>2. ASSUME NEW s \in Session, Login(s) \/ Prompt(s) \/ GiveUp(s) PROVE Listing'
  BY <1>2 DEF Login, Prompt, GiveUp, TypeOK, Listing
<1>3. ASSUME NEW s \in Session, Finish(s) \/ Hangup(s) PROVE Listing'
  BY <1>3 DEF Finish, Hangup, Nobody, TypeOK, Listing
<1>4. ASSUME NEW s \in Session, NEW p \in Typeable, Read(s, p) PROVE Listing'
  BY <1>4 DEF Read, TypeOK, Listing
<1>5. ASSUME UNCHANGED agent PROVE Listing'
  BY <1>5 DEF Listing
<1>6. ASSUME agent' = Nobody PROVE Listing'
  BY <1>6 DEF Nobody, Listing
<1> QED
  BY <1>1, <1>m, <1>2, <1>3, <1>4, <1>5, <1>6 DEF Next, vars, Start, Check, Console, Mounted,
     Enroll, WriteCrypttab, Mkinitcpio, Reset

\* An ask, once answered, never comes back.
LEMMA SnapshotStep ==
    ASSUME Inv, [Next]_vars, TypeOK', Listing' PROVE Snapshot'
<1> USE DEF Inv, tpm, boot, bounds
<1>0. /\ \A v \in Volume : vol[v].tried \in Nat
      /\ \A a \in Ask : a.nth \in Nat /\ a.of \in Volume
      /\ \A s \in Session : agent[s].seen \subseteq Ask /\ agent'[s].seen \subseteq Ask
  BY DEF TypeOK, Ask
\* A volume's attempts only go up, and it asks again only for the next one.
<1>v. ASSUME UNCHANGED agent,
             \A v \in Volume : \/ vol'[v] = vol[v]
                               \/ /\ vol[v].at = "off" \/ vol'[v].at # "off"
                                  /\ vol[v].at # "off" => vol'[v].tried >= vol[v].tried
                                  /\ vol'[v].at = "ask" /\ vol[v].at # "off"
                                       => vol'[v].tried > vol[v].tried
      PROVE  Snapshot'
  <2> SUFFICES ASSUME NEW s \in Session, NEW a \in agent[s].seen
               PROVE  /\ vol'[a.of].at # "off" /\ a.nth <= vol'[a.of].tried
                      /\ agent[s].at \in {"answer", "done"}
                      /\ a \in agent[s].todo \/ a \in agent[s].missed \/ a \notin Asks'
    BY <1>v DEF Snapshot
  <2>1. /\ a \in Ask /\ a.of \in Volume /\ vol[a.of].at # "off" /\ a.nth <= vol[a.of].tried
        /\ agent[s].at \in {"answer", "done"}
        /\ a \in agent[s].todo \/ a \in agent[s].missed \/ a \notin Asks
    BY <1>0 DEF Snapshot
  <2>2. vol'[a.of].tried \in Nat /\ vol[a.of].tried \in Nat /\ a.nth \in Nat
    BY <1>0, <2>1 DEF TypeOK
  <2>3. CASE vol'[a.of] = vol[a.of]
    BY <2>1, <2>3 DEF Asks
  <2>4. CASE vol'[a.of] # vol[a.of]
    BY <1>v, <2>1, <2>2, <2>4 DEF Asks
  <2> QED BY <2>3, <2>4
<1>1. ASSUME NEW v \in Volume, Start(v) PROVE Snapshot'
  <2>1. \A w \in Volume : vol'[w] = vol[w] \/ (w = v /\ vol[v].at = "off")
    BY <1>1 DEF Start, TypeOK
  <2> QED
    BY <1>1, <1>v, <2>1 DEF Start
<1>2. ASSUME NEW v \in Volume, Check(v) PROVE Snapshot'
  <2>1. /\ \A w \in Volume \ {v} : vol'[w] = vol[w]
        /\ vol'[v].at \in {"open", "ask", "failed"} /\ vol[v].at = "check"
        /\ \/ vol'[v].tried = vol[v].tried /\ vol'[v].at = "open"
           \/ vol'[v].tried = vol[v].tried + 1
        /\ UNCHANGED agent
    BY <1>2 DEF Check, TypeOK
  <2> QED
    BY <1>0, <1>v, <2>1
<1>3. ASSUME NEW v \in Volume, NEW p \in Passphrase, Console(v, p) PROVE Snapshot'
  <2>1. /\ \A w \in Volume \ {v} : vol'[w] = vol[w]
        /\ vol'[v].at = "check" /\ vol'[v].tried = vol[v].tried /\ UNCHANGED agent
    BY <1>3 DEF Console, TypeOK
  <2> QED
    BY <1>0, <1>v, <2>1
<1>4. ASSUME NEW s \in Session, NEW a \in Ask, Reply(s, a) PROVE Snapshot'
  <2>1. /\ \A w \in Volume : vol'[w] = vol[w] \/ (vol'[w].at = "check" /\ vol'[w].tried = vol[w].tried)
        /\ Asks' = Asks \ {a}
    <3>1. CASE a \notin Asks
      BY <1>4, <3>1 DEF Reply, Asks
    <3>2. CASE a \in Asks
      <4>1. /\ vol' = [vol EXCEPT ![a.of].at = "check", ![a.of].given = agent[s].pw]
            /\ vol[a.of].tried = a.nth /\ a.of \in Volume
        BY <1>0, <1>4, <3>2 DEF Reply, Asks
      <4>2. /\ \A w \in Volume \ {a.of} : vol'[w] = vol[w]
            /\ vol'[a.of].at = "check" /\ vol'[a.of].tried = vol[a.of].tried
        BY <4>1 DEF TypeOK
      <4>3. \A b \in Ask : b.of = a.of /\ b.nth = a.nth => b = a
        BY DEF Ask
      <4>4. \A b \in Ask : b \in Asks' <=> b \in Asks /\ b # a
        BY <1>0, <4>1, <4>2, <4>3 DEF Asks
      <4> QED BY <4>2, <4>4, AsksType DEF Asks
    <3> QED BY <3>1, <3>2
  <2>2. /\ \A t \in Session : agent'[t].at = agent[t].at /\ agent'[t].seen = agent[t].seen
        /\ \A t \in Session : /\ agent[t].todo \ {a} \subseteq agent'[t].todo
                              /\ agent'[t].missed = agent[t].missed
    BY <1>4 DEF Reply, TypeOK
  <2> QED
    BY <1>0, <2>1, <2>2 DEF Snapshot
<1>m. ASSUME NEW s \in Session, NEW a \in Ask, Miss(s, a) PROVE Snapshot'
  <2>1. \A t \in Session :
          /\ agent'[t].at = agent[t].at /\ agent'[t].seen = agent[t].seen
          /\ agent'[t].todo \cup agent'[t].missed = agent[t].todo \cup agent[t].missed
    BY <1>m DEF Miss, TypeOK
  <2>2. UNCHANGED vol
    BY <1>m DEF Miss
  <2> QED
    BY <2>1, <2>2 DEF Snapshot, Asks
<1>5. ASSUME NEW s \in Session, Login(s) \/ Prompt(s) \/ GiveUp(s) PROVE Snapshot'
  <2>1. /\ \A t \in Session : agent'[t] = agent[t] \/ agent'[t].seen = {}
        /\ UNCHANGED vol
    BY <1>5 DEF Login, Prompt, GiveUp, TypeOK, Listing
  <2> QED
    BY <2>1 DEF Snapshot, Asks
<1>6. ASSUME NEW s \in Session, Finish(s) \/ Hangup(s) PROVE Snapshot'
  <2>1. /\ \A t \in Session : \/ agent'[t] = agent[t] \/ agent'[t].seen = {}
                              \/ /\ agent'[t].seen = agent[t].seen /\ agent'[t].at = "done"
                                 /\ agent'[t].todo = agent[t].todo
                                 /\ agent'[t].missed = agent[t].missed
        /\ UNCHANGED vol
    BY <1>6 DEF Finish, Hangup, Nobody, TypeOK
  <2> QED
    BY <2>1 DEF Snapshot, Asks
<1>7. ASSUME NEW s \in Session, NEW p \in Typeable, Read(s, p) PROVE Snapshot'
  <2>1. /\ \A t \in Session \ {s} : agent'[t] = agent[t]
        /\ agent'[s].at = "answer" /\ agent'[s].seen = Asks /\ agent'[s].todo = Asks
        /\ UNCHANGED vol
    BY <1>7 DEF Read, TypeOK
  <2>2. \A a \in Asks : vol[a.of].at = "ask" /\ a.nth <= vol[a.of].tried
    BY <1>0 DEF Asks
  <2> QED
    BY <2>1, <2>2 DEF Snapshot, Asks
<1>8. ASSUME agent' = Nobody PROVE Snapshot'
  BY <1>8 DEF Nobody, Snapshot
<1>9. ASSUME UNCHANGED <<vol, agent>> PROVE Snapshot'
  BY <1>9 DEF Snapshot, Asks
<1> QED
  BY <1>1, <1>2, <1>3, <1>4, <1>m, <1>5, <1>6, <1>7, <1>8, <1>9 DEF Next, vars, Mounted,
     Enroll, WriteCrypttab, Mkinitcpio, Reset

\* A finished run of the tool stays in force until the firmware changes or
\* another run begins, and then the host is up.
LEMMA EnrolledStep ==
    ASSUME Inv, [Next]_vars, TypeOK' PROVE Enrolled' /\ EnrolledOpensItself'
<1> USE DEF Inv, tpm, boot, bounds
<1>v. ASSUME UNCHANGED <<tpm, up>>, ~up,
             First \in sealed \cap Given(image) /\ vol[First].at \in {"off", "open"}
                => vol'[First].at \in {"off", "open"}
      PROVE  Enrolled' /\ EnrolledOpensItself'
  BY <1>v DEF Enrolled, EnrolledOpensItself
<1>0. \A v \in Volume : vol[v].at # "open" => ~up
  BY DEF Enrolled
<1>1. ASSUME NEW v \in Volume, Start(v) PROVE Enrolled' /\ EnrolledOpensItself'
  <2>1. First \in sealed \cap Given(image) /\ vol[First].at \in {"off", "open"}
          => vol'[First].at \in {"off", "open"}
    BY <1>1, UnlockAssumption DEF Start, TypeOK
  <2> QED
    BY <1>1, <1>v, <2>1 DEF Start
<1>2. ASSUME NEW v \in Volume, Check(v) PROVE Enrolled' /\ EnrolledOpensItself'
  <2>1. vol[First].at \in {"off", "open"} => vol'[First].at = vol[First].at
    BY <1>2, UnlockAssumption DEF Check, TypeOK
  <2> QED
    BY <1>0, <1>2, <1>v, <2>1 DEF Check
<1>3. ASSUME NEW v \in Volume, NEW p \in Passphrase, Console(v, p)
      PROVE  Enrolled' /\ EnrolledOpensItself'
  <2>1. vol[First].at \in {"off", "open"} => vol'[First].at = vol[First].at
    BY <1>3, UnlockAssumption DEF Console, TypeOK
  <2> QED
    BY <1>0, <1>3, <1>v, <2>1 DEF Console
<1>4. ASSUME NEW s \in Session, NEW a \in Ask, Reply(s, a)
      PROVE  Enrolled' /\ EnrolledOpensItself'
  <2>1. CASE a \in Asks
    <3>1. a.of \in Volume /\ vol[a.of].at = "ask"
      BY <2>1 DEF Asks, Ask
    <3>2. vol[First].at \in {"off", "open"} => vol'[First].at = vol[First].at
      BY <1>4, <2>1, <3>1, UnlockAssumption DEF Reply, TypeOK
    <3> QED
      BY <1>0, <1>4, <1>v, <3>1, <3>2 DEF Reply
  <2>2. CASE a \notin Asks
    BY <1>4, <2>2 DEF Reply, Enrolled, EnrolledOpensItself
  <2> QED BY <2>1, <2>2
<1>5. ASSUME UNCHANGED <<tpm, up, vol>> PROVE Enrolled' /\ EnrolledOpensItself'
  BY <1>5 DEF Enrolled, EnrolledOpensItself
<1>6. CASE Mounted
  BY <1>6, UnlockAssumption DEF Mounted, Enrolled, EnrolledOpensItself
<1>7. CASE Enroll
  BY <1>7 DEF Enroll, Enrolled, EnrolledOpensItself
<1>8. CASE WriteCrypttab
  BY <1>8 DEF WriteCrypttab, Enrolled, EnrolledOpensItself
<1>9. CASE Mkinitcpio
  BY <1>9, UnlockAssumption DEF Mkinitcpio, Enrolled, EnrolledOpensItself
<1>10. CASE Reset
  BY <1>10, UnlockAssumption DEF Reset, Locked, Enrolled, EnrolledOpensItself
<1> QED
  BY <1>1, <1>2, <1>3, <1>4, <1>5, <1>6, <1>7, <1>8, <1>9, <1>10 DEF Next, vars,
     Login, Prompt, GiveUp, Finish, Hangup, Read, Miss

LEMMA InvHolds == Spec => []Inv
<1>1. Inv /\ [Next]_vars => Inv'
  BY TypeStep, PaidStep, ListingStep, SnapshotStep, EnrolledStep DEF Inv
<1> QED
  BY <1>1, InitInv, PTL DEF Spec

----------------------------------------------------------------------------
(* What an operator can rely on.                                           *)

\* The variables keep their types.
THEOREM TypeCorrect == Spec => []TypeOK
<1>1. Inv => TypeOK
  BY DEF Inv
<1> QED
  BY <1>1, InvHolds, PTL

\* One mistyped passphrase costs a volume at most one attempt, in any number of
\* sessions.
THEOREM MistakesAreCounted == Spec => []OneMistakeOneTry
<1>1. Inv => OneMistakeOneTry
  BY UnlockAssumption DEF Inv, TypeOK, Paid, OneMistakeOneTry
<1> QED
  BY <1>1, InvHolds, PTL

\* When an agent ends by itself, no ask it found is left but those its own
\* reply failed for.
THEOREM AgentLeavesNoAsk == Spec => []OnePassAnswersAll
<1>1. Inv => OnePassAnswersAll
  BY DEF Inv, Snapshot, Listing, OnePassAnswersAll
<1> QED
  BY <1>1, InvHolds, PTL

\* The enrolled volume needs nobody, until the firmware changes.
THEOREM EnrollmentHolds == Spec => []EnrolledOpensItself
<1>1. Inv => EnrolledOpensItself
  BY DEF Inv
<1> QED
  BY <1>1, InvHolds, PTL

=============================================================================
