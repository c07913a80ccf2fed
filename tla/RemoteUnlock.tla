---------------------------- MODULE RemoteUnlock ----------------------------
(***************************************************************************)
(* Unlocking an installed system: systemd-cryptsetup in the initramfs, the *)
(* agent that is root's login shell there (server/initrd-unlock), a local  *)
(* console, and the tool that renews the TPM tokens on the running system  *)
(* (usr/local/bin/appsynergy-tpm-enroll).                                  *)
(*                                                                         *)
(* All volumes share one passphrase.  cryptsetup asks for each by a file   *)
(* in /run/systemd/ask-password, each attempt by a new one; the agent      *)
(* reads a passphrase once and offers it to the files it then finds, while *)
(* volumes still appear, other sessions and the console answer the same    *)
(* files, a reply fails or the line drops.  After Tries wrong answers a    *)
(* volume stays locked until a reset, which a remote host may not survive. *)
(***************************************************************************)
EXTENDS Naturals, FiniteSets

CONSTANTS
    Volume,       \* LUKS volumes of the root file system
    First,        \* the one /etc/appsynergy/luks-device names
    Session,      \* logins over SSH
    Tries,        \* passphrases a volume accepts before it gives up
    MaxWrong,     \* bound: wrong passphrases typed per boot
    MaxMishaps    \* bound: failed replies, empty passphrases, dropped SSH
                  \* connections and resets

ASSUME UnlockAssumption ==
    /\ First \in Volume
    /\ Tries \in Nat \ {0} /\ MaxWrong \in Nat /\ MaxMishaps \in Nat

VARIABLES
    sealed,     \* volumes with a token the TPM still unseals
    staged,     \* lines of crypttab.initramfs with tpm2-device=auto
    image,      \* the same in the initramfs that boots next
    tool,       \* where appsynergy-tpm-enroll is
    promised,   \* its last run said Done, and the firmware has not changed since
    up,         \* the root file system is mounted
    vol,        \* what cryptsetup does with a volume, how many wrong
                \* passphrases it was given, and the one it is checking
    cache,      \* passphrases typed this boot (systemd's keyring)
    agent,      \* what the agent of a session does, the passphrase it read,
                \* the asks it then found, those it has not come to yet, and
                \* those its reply did not reach
    wrongs,     \* wrong passphrases typed this boot
    mishaps     \* failed replies, empty passphrases, drops and resets

tpm == <<sealed, staged, image, tool, promised>>
boot == <<up, vol, cache>>
bounds == <<wrongs, mishaps>>
vars == <<tpm, boot, agent, bounds>>

Passphrase == {"right", "wrong"}
Typeable == Passphrase \cup {"empty"}
\* An ask is known by its volume and the attempt it belongs to.
Ask == [of: Volume, nth: 0 .. Tries - 1]
Asks == {a \in Ask : vol[a.of].at = "ask" /\ vol[a.of].tried = a.nth}

Locked == [v \in Volume |-> [at |-> "off", tried |-> 0, given |-> "none"]]
Nobody == [s \in Session |-> [at |-> "off", pw |-> "none",
                              seen |-> {}, todo |-> {}, missed |-> {}]]

\* A line of crypttab: the mapper name, known by the volume it belongs to, and
\* the volume whose UUID follows.
Line == [name: Volume, dev: Volume]
Given(lines) == {l.dev : l \in lines}

\* Every volume is on the kernel command line (rd.luks.name), in crypttab or
\* not.  The generator makes crypttab's units first; under the name of another
\* volume, a line takes the place of that volume's unit.
Attached(v) == v \in Given(image) \/ \A l \in image : l.name # v

\* enroll_tpm starts with the first volume; when it has enrolled all of them it
\* lists all of them in crypttab.  The firmware may have changed since.
Init ==
    /\ \/ /\ staged = {} /\ sealed \in SUBSET Volume
          /\ sealed # {} => First \in sealed /\ sealed # Volume
       \/ /\ staged = {[name |-> v, dev |-> v] : v \in Volume}
          /\ sealed \in {{}, Volume}
    /\ image = staged
    /\ tool = "idle" /\ promised = FALSE
    /\ up = FALSE /\ vol = Locked /\ cache = {} /\ agent = Nobody
    /\ wrongs = 0 /\ mishaps = 0

----------------------------------------------------------------------------
(* systemd-cryptsetup and the console.                                     *)

\* The TPM opens a volume that crypttab gives to it; a token alone may do.
\* What was typed for an earlier volume may serve this one's first attempt.
Start(v) ==
    /\ ~up /\ vol[v].at = "off" /\ Attached(v)
    /\ \/ v \in sealed /\ vol' = [vol EXCEPT ![v].at = "open"]
       \/ v \notin sealed \cap Given(image) /\ vol' = [vol EXCEPT ![v].at = "ask"]
       \/ /\ v \notin sealed \cap Given(image) /\ cache # {}
          /\ vol' = [vol EXCEPT ![v].at = "check",
                        ![v].given = IF "right" \in cache THEN "right" ELSE "wrong"]
    /\ UNCHANGED <<tpm, up, cache, agent, bounds>>

Check(v) ==
    /\ vol[v].at = "check" /\ cache' = cache \cup {vol[v].given}
    /\ \/ /\ vol[v].given = "right"
          /\ vol' = [vol EXCEPT ![v].at = "open", ![v].given = "none"]
       \/ /\ vol[v].given = "wrong"
          /\ vol' = [vol EXCEPT ![v].tried = @ + 1, ![v].given = "none",
                        ![v].at = IF vol[v].tried + 1 < Tries THEN "ask" ELSE "failed"]
    /\ UNCHANGED <<tpm, up, agent, bounds>>

\* A passphrase is read: a wrong one is counted.
Typed(p) == /\ p = "wrong" => wrongs < MaxWrong
            /\ wrongs' = wrongs + (IF p = "wrong" THEN 1 ELSE 0)

\* Somebody at the console answers one ask.
Console(v, p) ==
    /\ vol[v].at = "ask" /\ Typed(p)
    /\ vol' = [vol EXCEPT ![v].at = "check", ![v].given = p]
    /\ UNCHANGED <<tpm, up, cache, agent, mishaps>>

Mounted ==
    /\ ~up /\ \A v \in Volume : vol[v].at = "open"
    /\ up' = TRUE /\ agent' = Nobody
    /\ UNCHANGED <<tpm, vol, cache, bounds>>

----------------------------------------------------------------------------
(* The agent.                                                              *)

Login(s) ==
    /\ ~up /\ agent[s].at \in {"off", "done"}
    /\ agent' = [agent EXCEPT ![s].at = "wait", ![s].seen = {}, ![s].missed = {}]
    /\ UNCHANGED <<tpm, boot, bounds>>

\* Bug: the prompt waits until every volume asks.
BugPrompt(s) ==
    /\ agent[s].at = "wait" /\ \A v \in Volume : vol[v].at = "ask"
    /\ agent' = [agent EXCEPT ![s].at = "prompt"]
    /\ UNCHANGED <<tpm, boot, bounds>>

\* One ask is enough to ask the operator.
Prompt(s) ==
    /\ agent[s].at = "wait" /\ Asks # {}
    /\ agent' = [agent EXCEPT ![s].at = "prompt"]
    /\ UNCHANGED <<tpm, boot, bounds>>

\* Bug: the session lives on after the script failed.
BugGiveUp(s) ==
    /\ agent[s].at = "wait" /\ Asks = {}
    /\ agent' = [agent EXCEPT ![s].at = "failed"]
    /\ UNCHANGED <<tpm, boot, bounds>>

\* None within 60 seconds, or the last one gone before the second look.
GiveUp(s) ==
    /\ agent[s].at = "wait" /\ Asks = {}
    /\ agent' = [agent EXCEPT ![s].at = "off"]
    /\ UNCHANGED <<tpm, boot, bounds>>

\* The list is made after the passphrase was read, an empty one too.
Read(s, p) ==
    /\ agent[s].at = "prompt" /\ Typed(p)
    /\ p = "empty" => mishaps < MaxMishaps
    /\ mishaps' = mishaps + (IF p = "empty" THEN 1 ELSE 0)
    /\ agent' = [agent EXCEPT ![s] = [at |-> "answer", pw |-> p, seen |-> Asks,
                                     todo |-> Asks, missed |-> {}]]
    /\ UNCHANGED <<tpm, boot>>

\* Bug: the asks are listed anew after each reply.
BugReply(s, a) ==
    /\ agent[s].at = "answer" /\ a \in agent[s].todo \cup Asks
    /\ agent' = [agent EXCEPT ![s].todo = @ \ {a}]
    /\ \/ /\ a \in Asks /\ agent[s].pw # "empty"
          /\ vol' = [vol EXCEPT ![a.of].at = "check", ![a.of].given = agent[s].pw]
       \/ a \notin Asks /\ UNCHANGED vol
    /\ UNCHANGED <<tpm, up, cache, bounds>>

\* The first reply to an ask is the one that counts; one to an ask that is
\* being checked or gone is lost, or found gone (continue, or failed + 1).
Reply(s, a) ==
    /\ agent[s].at = "answer" /\ a \in agent[s].todo
    /\ agent' = [agent EXCEPT ![s].todo = @ \ {a}]
    /\ \/ /\ a \in Asks /\ agent[s].pw # "empty"
          /\ vol' = [vol EXCEPT ![a.of].at = "check", ![a.of].given = agent[s].pw]
       \/ a \notin Asks /\ UNCHANGED vol
    /\ UNCHANGED <<tpm, up, cache, bounds>>

\* No socket (continue), or a helper that is missing or fails (failed + 1), as
\* it always does on an empty passphrase: the ask stays, and the loop goes on.
Miss(s, a) ==
    /\ agent[s].at = "answer" /\ a \in agent[s].todo \cap Asks
    /\ agent[s].pw = "empty" \/ mishaps < MaxMishaps
    /\ agent' = [agent EXCEPT ![s].todo = @ \ {a}, ![s].missed = @ \cup {a}]
    /\ mishaps' = mishaps + (IF agent[s].pw = "empty" THEN 0 ELSE 1)
    /\ UNCHANGED <<tpm, boot, wrongs>>

\* Bug: the loop ends with the first ask it came to.
BugFinish(s) ==
    /\ agent[s].at = "answer" /\ (agent[s].todo = {} \/ agent[s].todo # agent[s].seen)
    /\ agent' = [agent EXCEPT ![s].at = "done", ![s].pw = "none"]
    /\ UNCHANGED <<tpm, boot, bounds>>

\* Either exit status ends the session.
Finish(s) ==
    /\ agent[s].at = "answer" /\ agent[s].todo = {}
    /\ agent' = [agent EXCEPT ![s].at = "done", ![s].pw = "none"]
    /\ UNCHANGED <<tpm, boot, bounds>>

Hangup(s) ==
    /\ agent[s].at \in {"wait", "prompt", "answer"} /\ mishaps < MaxMishaps
    /\ agent' = [agent EXCEPT ![s] = Nobody[s]]
    /\ mishaps' = mishaps + 1
    /\ UNCHANGED <<tpm, boot, wrongs>>

----------------------------------------------------------------------------
(* appsynergy-tpm-enroll, and the end of a boot.                           *)

\* One volume is enrolled: the recorded one.  No TPM, no device, "n" and a
\* refused passphrase end the run without a change.
Enroll ==
    /\ up /\ tool = "idle" /\ promised' = FALSE
    /\ sealed' = sealed \cup {First} /\ tool' = "table"
    /\ UNCHANGED <<staged, image, boot, agent, bounds>>

\* /etc/crypttab is replaced by one line, the name of the mapper lsblk lists
\* first with the recorded volume's UUID, and copied to crypttab.initramfs, the
\* one the initramfs is built from; a copy that fails is ignored.
WriteCrypttab ==
    /\ tool = "table" /\ tool' = "image"
    /\ \E m \in Volume : staged' \in {staged, {[name |-> m, dev |-> First]}}
    /\ UNCHANGED <<sealed, image, promised, boot, agent, bounds>>

\* Bug: a failed mkinitcpio is ignored like the copy before it.
BugMkinitcpio ==
    /\ tool = "image" /\ tool' = "idle"
    /\ image' \in {image, staged} /\ promised' = TRUE
    /\ UNCHANGED <<sealed, staged, boot, agent, bounds>>

Mkinitcpio ==
    /\ tool = "image" /\ tool' = "idle"
    /\ \/ image' = staged /\ promised' = TRUE
       \/ UNCHANGED <<image, promised>>
    /\ UNCHANGED <<sealed, staged, boot, agent, bounds>>

\* At any moment, in the middle of the tool too.  A changed firmware unseals
\* nothing.
Reset ==
    /\ mishaps < MaxMishaps /\ mishaps' = mishaps + 1
    /\ \E changed \in BOOLEAN :
          /\ sealed' = IF changed THEN {} ELSE sealed
          /\ promised' = (promised /\ ~changed)
    /\ tool' = "idle"
    /\ up' = FALSE /\ vol' = Locked /\ cache' = {} /\ agent' = Nobody
    /\ wrongs' = 0
    /\ UNCHANGED <<staged, image>>

----------------------------------------------------------------------------
Next ==
    \/ \E v \in Volume : Start(v) \/ Check(v)
    \/ \E v \in Volume, p \in Passphrase : Console(v, p)
    \/ Mounted
    \/ \E s \in Session : Login(s) \/ Prompt(s) \/ GiveUp(s) \/ Finish(s) \/ Hangup(s)
    \/ \E s \in Session, p \in Typeable : Read(s, p)
    \/ \E s \in Session, a \in Ask : Reply(s, a) \/ Miss(s, a)
    \/ Enroll \/ WriteCrypttab \/ Mkinitcpio
    \/ Reset

Spec == Init /\ [][Next]_vars

\* The system starts every volume and checks what it is given; the agent runs
\* on; the operator logs in again as long as the host is not up and types
\* something when asked.
Fairness ==
    /\ \A v \in Volume : WF_vars(Start(v)) /\ WF_vars(Check(v))
    /\ WF_vars(Mounted)
    /\ \A s \in Session :
          /\ WF_vars(Login(s)) /\ WF_vars(Prompt(s)) /\ WF_vars(GiveUp(s))
          /\ WF_vars(\E p \in Typeable : Read(s, p))
          /\ WF_vars(\E a \in Ask : Reply(s, a) \/ Miss(s, a)) /\ WF_vars(Finish(s))

FairSpec == Spec /\ Fairness

----------------------------------------------------------------------------
(* Properties.                                                             *)

\* Every variable keeps its type.
TypeOK ==
    /\ sealed \subseteq Volume /\ staged \subseteq Line /\ image \subseteq Line
    /\ tool \in {"idle", "table", "image"}
    /\ promised \in BOOLEAN /\ up \in BOOLEAN
    /\ vol \in [Volume -> [at: {"off", "ask", "check", "open", "failed"},
                           tried: 0 .. Tries, given: Passphrase \cup {"none"}]]
    /\ cache \subseteq Passphrase
    /\ agent \in [Session -> [at: {"off", "wait", "prompt", "answer", "done"},
                              pw: Typeable \cup {"none"}, seen: SUBSET Ask,
                              todo: SUBSET Ask, missed: SUBSET Ask]]
    /\ wrongs \in Nat /\ mishaps \in Nat

\* One mistyped passphrase costs a volume one attempt, in however many
\* sessions, at the console or from the keyring, and although the agent hands
\* it to several volumes and a refused one asks again while the agent still
\* loops (initrd-unlock:56); so a volume is lost only to Tries mistakes.
OneMistakeOneTry ==
    \A v \in Volume : /\ vol[v].tried <= wrongs
                      /\ vol[v].at = "failed" => wrongs >= Tries

\* "handles several encrypted devices in one pass" (initrd-unlock:13): when the
\* agent is through, each ask it found is answered, by whomever and although
\* others came and went, unless its own reply to that ask failed, which the
\* script says only as a count (initrd-unlock:58-64, 70, 74).
OnePassAnswersAll ==
    \A s \in Session :
        agent[s].at = "done" => agent[s].seen \cap Asks \subseteq agent[s].missed

\* After the tool said Done, and its ignored copy worked, the volume it
\* enrolled opens by itself, through interrupted runs of the tool and any
\* number of boots on the same firmware.
EnrolledOpensItself ==
    promised /\ First \in Given(staged) => vol[First].at \in {"off", "open"}

\* main.rs:2188-2189, the last way out of UNLOCK.txt: "Type the LUKS passphrase
\* at the prompt (always available)."  Not so once the tool's line pairs the
\* recorded volume with another's mapper name: that other volume is neither
\* attached nor asked for (README, section 7).
PromptAlwaysAvailable == \A v \in Volume : Attached(v)

\* The host comes up, whatever expired or was interrupted: volumes that appear
\* late, sessions that end before, connections that drop, replies that fail,
\* the tool reset between any two steps, and fewer mistakes than a volume
\* forgives (UNLOCK.txt, main.rs:2180-2195).  The one exception is the image
\* with the line that leaves a volume unattached.
ComesUp == ~up ~> up \/ ~PromptAlwaysAvailable

\* appsynergy-tpm-enroll:56: "Expect automatic unlock if TPM PCRs match."
AutomaticUnlock ==
    promised /\ First \in Given(staged) => \A v \in Volume : vol[v].at \in {"off", "open"}
=============================================================================
