-------------------------- MODULE InstallContract --------------------------
(***************************************************************************)
(* What the installer promises of its steps, without saying what a step    *)
(* does: the steps of an install commit one at a time and in order, a step *)
(* commits at most once until the record is forgotten, stopping loses no   *)
(* committed step, and an install is complete exactly when all its steps   *)
(* are committed.                                                          *)
(***************************************************************************)
EXTENDS Naturals

CONSTANT Installs    \* the sets of steps an install can consist of

VARIABLES
    steps,      \* the steps this install consists of
    committed,  \* the steps that are behind it
    status      \* "stopped", "running" or "complete"

contractVars == <<steps, committed, status>>

Start == steps \in Installs /\ committed = {} /\ status = "stopped"

\* A first run chooses the install; a later one continues what is committed,
\* or forgets it and chooses anew.
Begin(S) ==
    /\ status # "running"
    /\ \/ committed' = committed /\ (committed # {} => S = steps)
       \/ committed' = {}
    /\ steps' = S
    /\ status' = "running"

Commit(s) ==
    /\ status = "running"
    /\ s \in steps \ committed
    /\ \A q \in steps : q < s => q \in committed
    /\ committed' = committed \cup {s}
    /\ UNCHANGED <<steps, status>>

Halt ==
    /\ status' = "stopped"
    /\ UNCHANGED <<steps, committed>>

Conclude ==
    /\ status = "running" /\ committed = steps
    /\ status' = "complete"
    /\ UNCHANGED <<steps, committed>>

\* The record does not outlive the live system, and can be thrown away.
Forget ==
    /\ committed' = {} /\ status' = "stopped"
    /\ UNCHANGED steps

ContractNext ==
    \/ \E S \in Installs : Begin(S)
    \/ \E s \in steps : Commit(s)
    \/ Halt \/ Conclude \/ Forget

ContractSpec == Start /\ [][ContractNext]_contractVars
=============================================================================
